----------------------------- MODULE McpProofs -----------------------------
(***************************************************************************)
(* Proofs about the MCP manager, for any servers, transports and tools:    *)
(* its types; that a reply to another request is returned only on a        *)
(* connection that was upset before; that the reconnect runs no tool       *)
(* twice; and that the tools on offer can be reached.                      *)
(***************************************************************************)
EXTENDS Mcp, SequenceTheorems, TLAPS

-----------------------------------------------------------------------------
\* Types

LEMMA AgedType ==
    ASSUME NEW q \in Seq(Lines)
    PROVE  /\ Aged(q) \in Seq(Lines)
           /\ q \in Seq(Requests) => Aged(q) \in Seq(Requests)
           /\ q = <<>> => Aged(q) = <<>>
           /\ q # <<>> => Aged(q) # <<>>
  BY DEF Aged, Lines, Requests

LEMMA LeftoverType == \A b \in BOOLEAN : Leftover(b) \in Seq(Lines)
  <1>1. <<"old">> \in Seq(Lines) /\ <<>> \in Seq(Lines)
    BY DEF Lines
  <1> QED BY <1>1 DEF Leftover

LEMMA TypesInit == Init => McpTypeOK
  BY McpAssumption DEF Init, McpTypeOK, PipesOK, PhaseOK, Quiet, Servers, Requests, Lines

LEMMA PostTypes ==
    ASSUME PipesOK, NEW s \in Servers, Reaches(s), Post(s), UNCHANGED <<conn, alive>>
    PROVE  PipesOK'
  <1>1. /\ out[s] \in Seq(Lines) /\ inbox[s] \in Seq(Requests) /\ inbox[s] \in Seq(Lines)
    BY DEF PipesOK, Requests, Lines
  <1>2. Aged(out[s]) \in Seq(Lines) /\ (out[s] = <<>> => Aged(out[s]) = <<>>)
    BY <1>1, AgedType
  <1>3. out' \in [Servers -> Seq(Lines)] /\ \A t \in Http : out'[t] = <<>>
    BY <1>2 DEF Post, PipesOK, Servers
  <1>4. CASE s \in Stdio
    <2>1. s \in alive /\ inbox' = [inbox EXCEPT ![s] = Append(Aged(@), "own")]
      BY <1>4, McpAssumption DEF Reaches, Post, Servers
    <2>2. Aged(inbox[s]) \in Seq(Requests)
      BY <1>1, AgedType
    <2>3. Append(Aged(inbox[s]), "own") \in Seq(Requests)
      BY <2>2 DEF Requests
    <2> QED BY <1>3, <2>1, <2>3 DEF PipesOK
  <1>5. CASE s \notin Stdio
    BY <1>3, <1>5 DEF Post, PipesOK
  <1> QED BY <1>4, <1>5

LEMMA DropTypes ==
    ASSUME PipesOK, NEW s \in Servers, Drop(s)
    PROVE  PipesOK'
  <1>1. <<>> \in Seq(Requests) /\ <<>> \in Seq(Lines)
    OBVIOUS
  <1> QED BY <1>1 DEF PipesOK, Drop

\* A loop or a call that gets a line goes on or returns.
LEMMA GetsTypes ==
    ASSUME McpTypeOK, NEW s \in Servers, who = s, phase # "reconnect",
           NEW line, Gets(s, line)
    PROVE  /\ PhaseOK' /\ conn' = conn
           /\ tools' \in [Tools -> Servers \cup {Builtin, None}]
           /\ limited' \in BOOLEAN /\ delivered' \in Nat
           /\ answer' \in {"none", "own", "stale", "error", "timeout", "cancelled",
                           "offline", "unreachable"}
  BY McpAssumption DEF McpTypeOK, PhaseOK, Gets, Listed, Called, Return, call

LEMMA ReceiveTypes ==
    ASSUME McpTypeOK, NEW s \in Servers, Receive(s)
    PROVE  McpTypeOK'
  <1>1. /\ who = s /\ s \in Stdio /\ phase # "reconnect"
        /\ out \in [Servers -> Seq(Lines)]
        /\ UNCHANGED <<config, alive, inbox, failed, clean, orphaned>>
    BY DEF Receive, McpTypeOK, PipesOK
  <1>2. PICK k \in 1..Len(out[s]), torn \in BOOLEAN :
          LET rest == SubSeq(out[s], k + 1, Len(out[s])) IN
          out' = [out EXCEPT ![s] = IF torn /\ rest # <<>>
                                      THEN <<"tail">> \o Tail(rest) ELSE rest]
    BY DEF Receive
  <1> DEFINE rest == SubSeq(out[s], k + 1, Len(out[s]))
  <1>3. rest \in Seq(Lines)
    BY <1>1
  <1>4. rest # <<>> => <<"tail">> \o Tail(rest) \in Seq(Lines)
    BY <1>3 DEF Lines
  <1> HIDE DEF rest
  <1>5. out' \in [Servers -> Seq(Lines)] /\ \A t \in Servers \ {s} : out'[t] = out[t]
    BY <1>1, <1>2, <1>3, <1>4 DEF rest
  <1>6. \E line : Gets(s, line)
    BY DEF Receive
  <1>7. PipesOK'
    BY <1>1, <1>5, <1>6, GetsTypes, McpAssumption DEF McpTypeOK, PipesOK, Servers
  <1> QED BY <1>1, <1>6, <1>7, GetsTypes DEF McpTypeOK

LEMMA AbandonTypes ==
    ASSUME McpTypeOK, who \in Servers, Abandon
    PROVE  PipesOK' /\ conn' = conn /\ clean' \subseteq Servers
  <1>1. inbox[who] \in Seq(Requests) /\ inbox[who] \in Seq(Lines) /\ out[who] \in Seq(Lines)
    BY DEF McpTypeOK, PipesOK, Requests, Lines
  <1>2. inbox[who] # <<>> => <<"tail">> \o Tail(inbox[who]) \in Seq(Requests)
    <2>1. <<"tail">> \in Seq(Requests)
      BY DEF Requests
    <2> QED BY <1>1, <2>1, ConcatProperties
  <1>3. inbox' \in [Servers -> Seq(Requests)] /\ \A s \in Servers \ alive : inbox'[s] = <<>>
    BY <1>2 DEF McpTypeOK, PipesOK, Abandon
  <1> QED BY <1>3 DEF McpTypeOK, PipesOK, Abandon

LEMMA TypesStep ==
    ASSUME McpTypeOK, [Next]_mvars
    PROVE  McpTypeOK'
  <1> USE McpAssumption DEF McpTypeOK
  <1>1. CASE Load
    <2>1. PICK noisy \in SUBSET alive' :
            out' = [s \in Servers |-> IF s \in alive' THEN Leftover(s \in noisy) ELSE <<>>]
      BY <1>1 DEF Load
    <2>2. <<>> \in Seq(Lines) /\ <<"old">> \in Seq(Lines)
      BY DEF Lines
    <2>3. out' \in [Servers -> Seq(Lines)]
      <3>1. \A s \in Servers :
              (IF s \in alive' THEN Leftover(s \in noisy) ELSE <<>>) \in Seq(Lines)
        BY <2>2 DEF Leftover
      <3> QED BY <2>1, <3>1, Zenon
    <2>9. alive' = conn' \cap Stdio
      BY <1>1 DEF Load
    <2>4. \A s \in Http : out'[s] = <<>>
      BY <2>1, <2>9 DEF Servers
    <2>5. inbox' \in [Servers -> Seq(Requests)] /\ \A s \in Servers : inbox'[s] = <<>>
      BY <1>1 DEF Load, Quiet
    <2>6. PipesOK'
      BY <2>3, <2>4, <2>9, <2>5 DEF PipesOK
    <2>7. PhaseOK'
      BY <1>1 DEF Load, PhaseOK
    <2> QED BY <1>1, <2>6, <2>7 DEF Load, call
  <1>2. CASE LoadFails
    <2>1. PipesOK'
      BY <1>2 DEF LoadFails, PipesOK, Quiet, Servers, Requests, Lines
    <2> QED BY <1>2, <2>1 DEF LoadFails, PhaseOK, call
  <1>3. CASE Browse
    BY <1>3 DEF Browse, PipesOK, PhaseOK, pipes, call
  <1>4. CASE LoopEnds
    BY <1>4 DEF LoopEnds, PipesOK, PhaseOK, pipes, call
  <1>5. ASSUME NEW t \in Tools, CallTool(t)
        PROVE  McpTypeOK'
    <2>1. PipesOK'
      <3>1. CASE /\ Reaches(tools[t]) /\ Post(tools[t])
                 /\ UNCHANGED <<conn, alive>>
        BY <1>5, <3>1, PostTypes DEF CallTool
      <3>2. CASE Drop(tools[t])
        BY <1>5, <3>2, DropTypes DEF CallTool
      <3>3. CASE UNCHANGED <<conn, pipes>>
        BY <3>3 DEF PipesOK, pipes
      <3> QED BY <1>5, <3>1, <3>2, <3>3 DEF CallTool
    <2>2. PhaseOK'
      BY <1>5 DEF CallTool, PhaseOK, Drop
    <2> QED BY <1>5, <2>1, <2>2 DEF CallTool, Drop
  <1>6. ASSUME NEW s \in Servers, Ask(s)
        PROVE  McpTypeOK'
    <2>1. PipesOK'
      BY <1>6, PostTypes DEF Ask, PipesOK
    <2>2. PhaseOK'
      BY <1>6 DEF Ask, PhaseOK
    <2> QED BY <1>6, <2>1, <2>2 DEF Ask, call
  <1>7. ASSUME NEW s \in Servers, Receive(s)
        PROVE  McpTypeOK'
    BY <1>7, ReceiveTypes
  <1>8. ASSUME NEW s \in Servers, Eof(s)
        PROVE  McpTypeOK'
    BY <1>8, GetsTypes DEF Eof, PipesOK, pipes
  <1>9. ASSUME NEW s \in Servers, HttpReply(s)
        PROVE  McpTypeOK'
    <2>1. CASE \E line : Gets(s, line) /\ UNCHANGED pipes
      BY <1>9, <2>1, GetsTypes DEF HttpReply, PipesOK, pipes
    <2>2. CASE phase = "call" /\ Drop(s) /\ UNCHANGED <<tools, todo, who, call>>
      BY <1>9, <2>2 DEF HttpReply, Drop, PipesOK, PhaseOK, call, Servers, Requests, Lines
    <2> QED BY <1>9, <2>1, <2>2 DEF HttpReply
  <1>10. CASE Reconnect
    <2>1. who \in Stdio /\ conn' = conn \cup {who}
      BY <1>10 DEF Reconnect
    <2>2. PICK noisy \in BOOLEAN : out' = [out EXCEPT ![who] = Leftover(noisy)]
      BY <1>10 DEF Reconnect
    <2>3. Leftover(noisy) \in Seq(Lines) /\ <<"own">> \in Seq(Requests)
      BY <2>2, LeftoverType DEF Requests
    <2>4. out' \in [Servers -> Seq(Lines)] /\ \A s \in Http : out'[s] = <<>>
      BY <2>1, <2>2, <2>3 DEF PipesOK, Servers
    <2>5. ASSUME alive' = alive \cup {who}, inbox' = [inbox EXCEPT ![who] = <<"own">>]
          PROVE  PipesOK'
      BY <2>1, <2>3, <2>4, <2>5 DEF PipesOK
    <2>6. ASSUME UNCHANGED <<alive, inbox>>
          PROVE  PipesOK'
      BY <2>1, <2>4, <2>6 DEF PipesOK
    <2>7. PipesOK'
      BY <1>10, <2>5, <2>6 DEF Reconnect
    <2>8. PhaseOK'
      BY <1>10 DEF Reconnect, PhaseOK, Return
    <2> QED BY <1>10, <2>7, <2>8 DEF Reconnect, PhaseOK, Return
  <1>11. CASE ReconnectFails
    <2>1. PipesOK'
      BY <1>11 DEF ReconnectFails, PipesOK, PhaseOK, pipes
    <2> QED BY <1>11, <2>1 DEF ReconnectFails, PhaseOK, Return
  <1>12. CASE Timeout
    BY <1>12, AbandonTypes DEF Timeout, PhaseOK, Return
  <1>13. CASE Cancel
    <2>1. CASE phase \in {"call", "retry"} /\ Abandon /\ UNCHANGED orphaned
      BY <1>13, <2>1, AbandonTypes DEF Cancel, PhaseOK, Return
    <2>2. CASE phase = "reconnect"
      BY <1>13, <2>2 DEF Cancel, PhaseOK, PipesOK, Return, pipes
    <2> QED BY <1>13, <2>1, <2>2 DEF Cancel
  <1>14. ASSUME NEW s \in Servers, ServerAnswers(s)
        PROVE  McpTypeOK'
    <2>1. PipesOK'
      <3>1. inbox[s] \in Seq(Requests) /\ inbox[s] # <<>> /\ out[s] \in Seq(Lines)
        BY <1>14 DEF ServerAnswers, PipesOK
      <3>2. Head(inbox[s]) \in Lines /\ Tail(inbox[s]) \in Seq(Requests)
        BY <3>1 DEF Requests, Lines
      <3>3. Append(out[s], Head(inbox[s])) \in Seq(Lines)
        BY <3>1, <3>2
      <3> QED BY <1>14, <3>2, <3>3 DEF ServerAnswers, PipesOK
    <2> QED BY <1>14, <2>1 DEF ServerAnswers, PhaseOK, call
  <1>15. ASSUME NEW s \in Servers, ServerSpeaks(s)
        PROVE  McpTypeOK'
    <2>1. PipesOK'
      <3>1. s \in alive /\ s \notin Http /\ out' = [out EXCEPT ![s] = Append(@, "note")]
        BY <1>15 DEF ServerSpeaks, PipesOK
      <3>2. Append(out[s], "note") \in Seq(Lines)
        BY DEF PipesOK, Lines
      <3> QED BY <1>15, <3>1, <3>2 DEF ServerSpeaks, PipesOK
    <2> QED BY <1>15, <2>1 DEF ServerSpeaks, PhaseOK, call
  <1>16. ASSUME NEW s \in Servers, ServerDies(s)
        PROVE  McpTypeOK'
    BY <1>16 DEF ServerDies, PipesOK, PhaseOK, Requests, call
  <1>17. ASSUME NEW s \in Servers, NEW entry \in {"on", "disabled", "absent"},
                EditConfig(s, entry)
        PROVE  McpTypeOK'
    BY <1>17 DEF EditConfig, PipesOK, PhaseOK, pipes, call
  <1>18. CASE UNCHANGED mvars
    BY <1>18 DEF mvars, PipesOK, PhaseOK, pipes, call
  <1> QED
    BY <1>1, <1>2, <1>3, <1>4, <1>5, <1>6, <1>7, <1>8, <1>9, <1>10, <1>11, <1>12,
       <1>13, <1>14, <1>15, <1>16, <1>17, <1>18 DEF Next

\* The types of the manager, with what its phases say of the connections.
THEOREM McpTypes == Spec => []McpTypeOK
  BY TypesInit, TypesStep, PTL DEF Spec

-----------------------------------------------------------------------------
\* No tool runs twice

\* While a stdio server is reconnected for a call the request is unsent.
Unsent == delivered \in {0, 1} /\ (phase = "reconnect" /\ who \in Stdio => delivered = 0)

LEMMA UnsentStep ==
    ASSUME McpTypeOK, Unsent, [Next]_mvars
    PROVE  Unsent'
  <1> USE DEF Unsent
  <1>1. CASE Load \/ LoadFails \/ Browse \/ LoopEnds
    BY <1>1 DEF Load, LoadFails, Browse, LoopEnds, call
  <1>2. ASSUME NEW t \in Tools, CallTool(t)
        PROVE  Unsent'
    BY <1>2 DEF CallTool
  <1>3. ASSUME NEW s \in Servers, Ask(s) \/ Receive(s) \/ Eof(s)
        PROVE  Unsent'
    BY <1>3 DEF Ask, Receive, Eof, Gets, Listed, Called, Return, call
  <1>4. ASSUME NEW s \in Servers, HttpReply(s)
        PROVE  Unsent'
    BY <1>4, McpAssumption DEF HttpReply, Gets, Listed, Called, Return, Drop, call
  <1>5. CASE Reconnect \/ ReconnectFails
    BY <1>5 DEF Reconnect, ReconnectFails, Return
  <1>6. CASE Timeout \/ Cancel
    BY <1>6 DEF Timeout, Cancel, Return
  <1>7. ASSUME NEW s \in Servers, NEW entry,
               \/ ServerAnswers(s) \/ ServerSpeaks(s) \/ ServerDies(s)
               \/ EditConfig(s, entry)
        PROVE  Unsent'
    BY <1>7 DEF ServerAnswers, ServerSpeaks, ServerDies, EditConfig, call
  <1>8. CASE UNCHANGED mvars
    BY <1>8 DEF mvars, call
  <1> QED BY <1>1, <1>2, <1>3, <1>4, <1>5, <1>6, <1>7, <1>8 DEF Next

\* A call's request reaches its server once at most, the reconnect included.
THEOREM NeverTwice == Spec => []AtMostOnce
  <1>1. Init => Unsent
    BY DEF Init, Unsent
  <1>2. Unsent => AtMostOnce
    BY DEF Unsent, AtMostOnce
  <1> QED BY <1>1, <1>2, UnsentStep, McpTypes, PTL DEF Spec

-----------------------------------------------------------------------------
\* The tools on offer can be reached

\* A server that is being reconnected has not been given up.
Trying == phase = "reconnect" => who \notin failed

LEMMA ReachableStep ==
    ASSUME McpTypeOK, ToolsReachable, Trying, [Next]_mvars
    PROVE  ToolsReachable' /\ Trying'
  <1> USE McpAssumption DEF ToolsReachable, Trying, McpTypeOK
  <1>1. CASE Load \/ LoadFails
    BY <1>1 DEF Load, LoadFails
  <1>2. CASE Browse \/ LoopEnds
    BY <1>2 DEF Browse, LoopEnds, PhaseOK
  <1>3. ASSUME NEW t \in Tools, CallTool(t)
        PROVE  ToolsReachable' /\ Trying'
    BY <1>3 DEF CallTool, Drop
  <1>4. ASSUME NEW s \in Servers, Ask(s)
        PROVE  ToolsReachable' /\ Trying'
    BY <1>4 DEF Ask
  <1>5. ASSUME NEW s \in Servers, who = s, phase # "reconnect", NEW line, Gets(s, line),
               UNCHANGED <<failed, orphaned>>
        PROVE  ToolsReachable' /\ Trying'
    BY <1>5 DEF Gets, Listed, Called, Return, PhaseOK, call
  <1>6. ASSUME NEW s \in Servers, Receive(s) \/ Eof(s)
        PROVE  ToolsReachable' /\ Trying'
    BY <1>5, <1>6 DEF Receive, Eof
  <1>7. ASSUME NEW s \in Servers, HttpReply(s)
        PROVE  ToolsReachable' /\ Trying'
    <2>1. CASE phase = "call" /\ Drop(s) /\ UNCHANGED <<tools, todo, who, call>>
      BY <1>7, <2>1 DEF HttpReply, Drop, PhaseOK
    <2> QED BY <1>5, <1>7, <2>1 DEF HttpReply
  <1>8. CASE Reconnect
    BY <1>8 DEF Reconnect, Return
  <1>9. CASE ReconnectFails
    BY <1>9 DEF ReconnectFails, Return, PhaseOK
  <1>10. CASE Timeout
    BY <1>10 DEF Timeout, Return, Abandon
  <1>11. CASE Cancel
    BY <1>11 DEF Cancel, Return, Abandon
  <1>12. ASSUME NEW s \in Servers, NEW entry,
               \/ ServerAnswers(s) \/ ServerSpeaks(s) \/ ServerDies(s)
               \/ EditConfig(s, entry)
        PROVE  ToolsReachable' /\ Trying'
    BY <1>12 DEF ServerAnswers, ServerSpeaks, ServerDies, EditConfig
  <1>13. CASE UNCHANGED mvars
    BY <1>13 DEF mvars
  <1> QED
    BY <1>1, <1>2, <1>3, <1>4, <1>6, <1>7, <1>8, <1>9, <1>10, <1>11, <1>12, <1>13 DEF Next

\* No tool is on offer whose server is gone, unless a cancel cut its reconnect
\* short; a server that was given up has neither client nor tools.
THEOREM ReachableTools == Spec => []ToolsReachable
  <1>1. Init => ToolsReachable /\ Trying
    BY McpAssumption DEF Init, ToolsReachable, Trying
  <1> QED BY <1>1, ReachableStep, McpTypes, PTL DEF Spec

-----------------------------------------------------------------------------
\* Replies and requests keep in step

Empty(s) == inbox[s] = <<>> /\ out[s] = <<>>
OneAsked(s) == inbox[s] = <<"own">> /\ out[s] = <<>>
OneAnswered(s) == inbox[s] = <<>> /\ out[s] = <<"own">>

\* InStep, told by the two pipes.
TwoPipes ==
    \A s \in clean :
        Empty(s) \/ (who = s /\ phase # "reconnect" /\ (OneAsked(s) \/ OneAnswered(s)))

LEMMA ConcatSingle ==
    ASSUME NEW p \in Seq(Lines), NEW q \in Seq(Lines)
    PROVE  /\ (p \o q = <<>>) <=> (p = <<>> /\ q = <<>>)
           /\ (p \o q = <<"own">>) <=> (p = <<"own">> /\ q = <<>>) \/ (p = <<>> /\ q = <<"own">>)
  <1>1. Len(p \o q) = Len(p) + Len(q) /\ p \o q \in Seq(Lines)
    BY ConcatProperties
  <1>2. (p \o q = <<>>) <=> (p = <<>> /\ q = <<>>)
    BY ConcatEqualIffEmpty
  <1>3. p = <<"own">> /\ q = <<>> => p \o q = <<"own">>
    OBVIOUS
  <1>4. p = <<>> /\ q = <<"own">> => p \o q = <<"own">>
    OBVIOUS
  <1>5. ASSUME p \o q = <<"own">>
        PROVE  (p = <<"own">> /\ q = <<>>) \/ (p = <<>> /\ q = <<"own">>)
    <2>1. Len(p) + Len(q) = 1
      BY <1>1, <1>5
    <2>2. Len(p) = 0 \/ Len(q) = 0
      BY <2>1
    <2>3. p = <<>> \/ q = <<>>
      BY <2>2, EmptySeq
    <2> QED BY <1>5, <2>3, ConcatEmptySeq
  <1>6. (p \o q = <<"own">>) <=> ((p = <<"own">> /\ q = <<>>) \/ (p = <<>> /\ q = <<"own">>))
    BY <1>3, <1>4, <1>5, Zenon
  <1> QED BY <1>2, <1>6, Zenon

LEMMA InStepPipes ==
    ASSUME McpTypeOK
    PROVE  InStep <=> TwoPipes
  <1>1. ASSUME NEW s \in clean
        PROVE  /\ (inbox[s] \o out[s] = <<>>) <=> Empty(s)
               /\ (inbox[s] \o out[s] = <<"own">>) <=> (OneAsked(s) \/ OneAnswered(s))
    <2>1. inbox[s] \in Seq(Lines) /\ out[s] \in Seq(Lines)
      BY DEF McpTypeOK, PipesOK, Requests, Lines
    <2>2. (inbox[s] \o out[s] = <<>>) <=> (inbox[s] = <<>> /\ out[s] = <<>>)
      BY <2>1, ConcatSingle, Zenon
    <2>3. (inbox[s] \o out[s] = <<"own">>)
           <=> (inbox[s] = <<"own">> /\ out[s] = <<>>) \/ (inbox[s] = <<>> /\ out[s] = <<"own">>)
      BY <2>1, ConcatSingle, Zenon
    <2> QED BY <2>2, <2>3, Zenon DEF Empty, OneAsked, OneAnswered
  <1> QED BY <1>1 DEF InStep, TwoPipes

LEMMA InStepInit == Init => TwoPipes
  BY DEF Init, TwoPipes, Empty, Quiet

\* What is asked of a connection in step is the only thing in its pipes.
LEMMA PostInStep ==
    ASSUME McpTypeOK, TwoPipes, who = None, NEW s \in Servers, Post(s),
           UNCHANGED clean, who' = s, phase' # "reconnect"
    PROVE  TwoPipes'
  <1>1. ASSUME NEW t \in clean
        PROVE  Empty(t)
    BY <1>1, McpAssumption DEF TwoPipes, McpTypeOK
  <1>2. ASSUME NEW t \in clean, t # s
        PROVE  Empty(t)'
    BY <1>1, <1>2 DEF Post, Empty
  <1>3. ASSUME s \in clean
        PROVE  Empty(s)' \/ OneAsked(s)'
    <2>1. Empty(s) /\ Append(<<>>, "own") = <<"own">>
      BY <1>1, <1>3
    <2>2. inbox[s] \in Seq(Lines) /\ out[s] \in Seq(Lines)
      BY DEF McpTypeOK, PipesOK, Requests, Lines
    <2>3. Aged(inbox[s]) = <<>> /\ Aged(out[s]) = <<>>
      BY <2>1, <2>2, AgedType DEF Empty
    <2> QED BY <2>1, <2>3 DEF Post, Empty, OneAsked, McpTypeOK, PipesOK
  <1> QED BY <1>2, <1>3 DEF TwoPipes

\* The first line read from a connection in step is the reply.
LEMMA HeadInStep ==
    ASSUME McpTypeOK, TwoPipes, NEW s \in clean, Receive(s)
    PROVE  OneAnswered(s) /\ Head(out[s]) = "own" /\ out'[s] = <<>>
  <1>1. PICK k \in 1..Len(out[s]), torn \in BOOLEAN :
          LET rest == SubSeq(out[s], k + 1, Len(out[s])) IN
          out' = [out EXCEPT ![s] = IF torn /\ rest # <<>>
                                      THEN <<"tail">> \o Tail(rest) ELSE rest]
    BY DEF Receive
  <1>2. OneAnswered(s)
    BY <1>1 DEF TwoPipes, Empty, OneAsked
  <1>3. k = 1 /\ SubSeq(out[s], k + 1, Len(out[s])) = <<>>
    BY <1>1, <1>2 DEF OneAnswered
  <1> QED BY <1>1, <1>2, <1>3 DEF OneAnswered, McpTypeOK, PipesOK

LEMMA InStepStep ==
    ASSUME McpTypeOK, TwoPipes, [Next]_mvars
    PROVE  TwoPipes'
  <1> USE McpAssumption
  <1>1. CASE Load \/ LoadFails
    BY <1>1 DEF Load, LoadFails, TwoPipes, Empty, Quiet, Leftover
  <1>2. CASE Browse \/ LoopEnds
    BY <1>2 DEF Browse, LoopEnds, TwoPipes, Empty, OneAsked, OneAnswered, pipes
  <1>3. ASSUME NEW t \in Tools, CallTool(t)
        PROVE  TwoPipes'
    <2>1. who = None
      BY <1>3 DEF CallTool, McpTypeOK, PhaseOK
    <2>2. CASE Post(tools[t]) /\ who' = tools[t] /\ phase' = "call"
      <3>1. /\ tools[t] \in Servers /\ UNCHANGED clean
            /\ Post(tools[t]) /\ who' = tools[t] /\ phase' # "reconnect"
        BY <1>3, <2>2 DEF CallTool
      <3>2. ASSUME NEW s \in Servers, s = tools[t]
            PROVE  TwoPipes'
        BY <2>1, <3>1, <3>2, PostInStep
      <3> QED BY <3>1, <3>2
    <2>3. ASSUME NEW s \in clean
          PROVE  Empty(s)
      BY <2>1, <2>3 DEF TwoPipes, McpTypeOK
    <2>4. CASE Drop(tools[t])
      BY <1>3, <2>3, <2>4 DEF CallTool, TwoPipes, Empty, Drop, McpTypeOK, PipesOK
    <2>5. CASE UNCHANGED pipes
      BY <1>3, <2>3, <2>5 DEF CallTool, TwoPipes, Empty, pipes
    <2> QED BY <1>3, <2>2, <2>4, <2>5 DEF CallTool
  <1>4. ASSUME NEW s \in Servers, Ask(s)
        PROVE  TwoPipes'
    <2>1. CASE Reaches(s)
      BY <1>4, <2>1, PostInStep DEF Ask
    <2>2. CASE ~Reaches(s)
      BY <1>4, <2>2 DEF Ask, TwoPipes, Empty, OneAsked, OneAnswered
    <2> QED BY <2>1, <2>2
  <1>5. ASSUME NEW s \in Servers, Receive(s)
        PROVE  TwoPipes'
    <2>1. who = s /\ UNCHANGED <<inbox, clean>> /\ \A t \in Servers \ {s} : out'[t] = out[t]
      BY <1>5 DEF Receive, McpTypeOK, PipesOK
    <2>2. ASSUME NEW t \in clean, t # s
          PROVE  Empty(t)'
      BY <2>1, <2>2 DEF TwoPipes, Empty, McpTypeOK
    <2>3. ASSUME s \in clean
          PROVE  Empty(s)'
      BY <1>5, <2>1, <2>3, HeadInStep DEF Empty, OneAnswered
    <2> QED BY <2>1, <2>2, <2>3 DEF TwoPipes
  <1>6. ASSUME NEW s \in Servers, who = s, inbox[s] = <<>>, out[s] = <<>>,
               UNCHANGED <<pipes, clean>>
        PROVE  TwoPipes'
    BY <1>6 DEF TwoPipes, Empty, OneAsked, OneAnswered, pipes
  <1>7. ASSUME NEW s \in Servers, Eof(s)
        PROVE  TwoPipes'
    BY <1>6, <1>7 DEF Eof, McpTypeOK, PipesOK
  <1>8. ASSUME NEW s \in Servers, HttpReply(s)
        PROVE  TwoPipes'
    <2>1. who = s /\ inbox[s] = <<>> /\ out[s] = <<>> /\ UNCHANGED clean
      BY <1>8 DEF HttpReply, McpTypeOK, PipesOK, Servers
    <2>2. CASE UNCHANGED pipes
      BY <1>6, <2>1, <2>2
    <2>3. CASE Drop(s)
      BY <2>1, <2>3 DEF Drop, TwoPipes, Empty, OneAsked, OneAnswered, McpTypeOK, PipesOK
    <2> QED BY <1>8, <2>2, <2>3 DEF HttpReply
  <1>9. CASE Reconnect
    <2>1. who \in Stdio /\ inbox[who] = <<>> /\ phase = "reconnect"
      BY <1>9 DEF Reconnect, McpTypeOK, PipesOK, PhaseOK, Servers
    <2>2. ASSUME NEW t \in clean', t # who
          PROVE  Empty(t)'
      BY <1>9, <2>1, <2>2 DEF Reconnect, TwoPipes, Empty, McpTypeOK, PipesOK
    <2>3. ASSUME who \in clean'
          PROVE  out'[who] = <<>>
      BY <1>9, <2>1, <2>3 DEF Reconnect, Leftover, McpTypeOK, PipesOK, Servers
    <2>4. CASE inbox' = [inbox EXCEPT ![who] = <<"own">>] /\ phase' = "retry" /\ who' = who
      BY <2>1, <2>2, <2>3, <2>4 DEF TwoPipes, Empty, OneAsked, McpTypeOK, PipesOK, Servers
    <2>5. CASE UNCHANGED inbox
      BY <2>1, <2>2, <2>3, <2>5 DEF TwoPipes, Empty
    <2> QED BY <1>9, <2>4, <2>5 DEF Reconnect
  <1>10. CASE ReconnectFails
    BY <1>10 DEF ReconnectFails, TwoPipes, Empty, pipes
  <1>11. ASSUME Abandon, phase # "reconnect", who \in Servers
         PROVE  TwoPipes'
    <2>1. ASSUME NEW t \in clean'
          PROVE  Empty(t)'
      <3>1. t \in clean /\ (t # who \/ t \in Http)
        BY <1>11, <2>1 DEF Abandon, Servers
      <3>2. CASE t # who
        BY <1>11, <3>1, <3>2 DEF Abandon, TwoPipes, Empty, McpTypeOK, PipesOK
      <3>3. CASE t = who
        BY <1>11, <3>1, <3>3 DEF Abandon, Empty, McpTypeOK, PipesOK
      <3> QED BY <3>2, <3>3
    <2> QED BY <2>1 DEF TwoPipes
  <1>12. CASE Timeout
    BY <1>11, <1>12 DEF Timeout, McpTypeOK, PhaseOK
  <1>13. CASE Cancel
    BY <1>11, <1>13 DEF Cancel, McpTypeOK, PhaseOK, TwoPipes, Empty, pipes
  <1>14. ASSUME NEW s \in Servers, ServerAnswers(s)
         PROVE  TwoPipes'
    <2>1. /\ out' = [out EXCEPT ![s] = Append(@, Head(inbox[s]))]
          /\ inbox' = [inbox EXCEPT ![s] = Tail(@)] /\ inbox[s] # <<>>
          /\ UNCHANGED <<phase, who, clean>>
      BY <1>14 DEF ServerAnswers
    <2>2. ASSUME NEW t \in clean, t # s
          PROVE  UNCHANGED <<inbox[t], out[t]>>
      BY <2>1, <2>2 DEF McpTypeOK, PipesOK
    <2>3. ASSUME s \in clean
          PROVE  who = s /\ phase # "reconnect" /\ OneAnswered(s)'
      <3>1. who = s /\ phase # "reconnect" /\ OneAsked(s)
        BY <2>1, <2>3 DEF TwoPipes, Empty, OneAnswered
      <3>2. /\ Tail(<<"own">>) = <<>> /\ Head(<<"own">>) = "own"
            /\ Append(<<>>, "own") = <<"own">>
        OBVIOUS
      <3> QED BY <2>1, <3>1, <3>2 DEF OneAsked, OneAnswered, McpTypeOK, PipesOK
    <2> QED BY <2>1, <2>2, <2>3 DEF TwoPipes, Empty, OneAsked, OneAnswered
  <1>15. ASSUME NEW s \in Servers, ServerSpeaks(s) \/ ServerDies(s)
         PROVE  TwoPipes'
    BY <1>15 DEF ServerSpeaks, ServerDies, TwoPipes, Empty, OneAsked, OneAnswered,
                 McpTypeOK, PipesOK
  <1>16. ASSUME NEW s \in Servers, NEW entry, EditConfig(s, entry)
         PROVE  TwoPipes'
    BY <1>16 DEF EditConfig, TwoPipes, Empty, OneAsked, OneAnswered, pipes
  <1>17. CASE UNCHANGED mvars
    BY <1>17 DEF mvars, TwoPipes, Empty, OneAsked, OneAnswered, pipes
  <1> QED
    BY <1>1, <1>2, <1>3, <1>4, <1>5, <1>7, <1>8, <1>9, <1>10, <1>12, <1>13, <1>14,
       <1>15, <1>16, <1>17 DEF Next

\* Pipes on which nothing was given up hold the request in hand or its reply.
THEOREM InStepHolds == Spec => []InStep
  <1>1. Spec => []TwoPipes
    BY InStepInit, InStepStep, McpTypes, PTL DEF Spec
  <1> QED BY <1>1, McpTypes, InStepPipes, PTL

\* Another request's reply is taken for a call's own only on a connection on
\* which a call was given up, or the server spoke unasked.
THEOREM RepliesAreOwn == Spec => OwnAnswers
  <1>1. ASSUME McpTypeOK, InStep, [Next]_mvars
        PROVE  (answer' = "stale" /\ answer # "stale") => who \notin clean
    <2>1. SUFFICES ASSUME answer' = "stale", answer # "stale"
                   PROVE  who \notin clean
      OBVIOUS
    <2>2. PICK s \in Servers : Receive(s) /\ who = s /\ Gets(s, Head(out[s]))
      <3>1. ASSUME NEW s \in Servers, Eof(s) \/ HttpReply(s)
            PROVE  FALSE
        BY <2>1, <3>1 DEF Eof, HttpReply, Gets, Listed, Called, Return, call
      <3>2. ASSUME NEW s \in Servers, NEW entry,
                   \/ Ask(s) \/ ServerAnswers(s) \/ ServerSpeaks(s) \/ ServerDies(s)
                   \/ EditConfig(s, entry)
            PROVE  FALSE
        BY <2>1, <3>2 DEF Ask, ServerAnswers, ServerSpeaks, ServerDies, EditConfig, call
      <3>3. ASSUME Load \/ LoadFails \/ Browse \/ LoopEnds \/ UNCHANGED mvars
            PROVE  FALSE
        BY <2>1, <3>3 DEF Load, LoadFails, Browse, LoopEnds, mvars, call
      <3>4. ASSUME NEW t \in Tools, CallTool(t)
            PROVE  FALSE
        BY <2>1, <3>4 DEF CallTool
      <3>5. ASSUME Reconnect \/ ReconnectFails \/ Timeout \/ Cancel
            PROVE  FALSE
        BY <2>1, <3>5 DEF Reconnect, ReconnectFails, Timeout, Cancel, Return
      <3>6. \E s \in Servers : Receive(s)
        BY <1>1, <3>1, <3>2, <3>3, <3>4, <3>5 DEF Next
      <3> QED BY <3>6 DEF Receive
    <2>3. ASSUME s \in clean
          PROVE  FALSE
      <3>1. Head(out[s]) = "own"
        BY <1>1, <2>2, <2>3, InStepPipes, HeadInStep
      <3> QED BY <2>1, <2>2, <3>1 DEF Gets, Listed, Called, Return, call
    <2> QED BY <2>2, <2>3
  <1> QED BY <1>1, McpTypes, InStepHolds, PTL DEF Spec, OwnAnswers
=============================================================================
