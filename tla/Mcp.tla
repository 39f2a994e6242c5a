-------------------------------- MODULE Mcp --------------------------------
(***************************************************************************)
(* The MCP manager and its clients (src/src/mcp_manager.rs, mcp_client.rs):*)
(* connecting the servers of mcp.json, discovering their tools, calling a  *)
(* tool with its timeout and the one reconnect and retry of a dead         *)
(* transport, the loops that ask every server in turn, and /mcp reload.    *)
(*                                                                         *)
(* A stdio client writes one line and takes the next line it reads for the *)
(* reply: ids are not compared.  A line is what it is to the request that  *)
(* waits: its "own" reply, an "old" request's, a "note" the server sends   *)
(* unasked, or the "tail" of a line whose start was read before.  An HTTP  *)
(* server has no connection that outlives a request.                       *)
(***************************************************************************)
EXTENDS Naturals, Sequences

CONSTANTS Stdio, Http,  \* the servers of mcp.json, by transport
          Tools,        \* tool names
          Builtins,     \* those the built-in registry has
          Provides,     \* server -> the tools it lists
          Builtin,      \* owner of a built-in tool
          None,
          MaxLines      \* bound: lines in a server's pipes when a request starts

Servers == Stdio \cup Http

ASSUME McpAssumption ==
    /\ Stdio \cap Http = {}
    /\ Builtins \subseteq Tools
    /\ Provides \in [Servers -> SUBSET Tools]
    /\ Builtin \notin Servers /\ None \notin Servers \cup {Builtin}
    /\ MaxLines \in Nat

VARIABLES config,     \* mcp.json: server -> "on", "disabled" or "absent"
          conn,       \* McpManager.clients
          alive,      \* stdio clients whose process runs
          inbox,      \* server -> requests written and not answered
          out,        \* server -> lines written by it and not read
          tools,      \* McpManager.tools: name -> its owner
          failed,     \* McpManager.failed_servers
          phase,      \* what the manager is at
          who,        \* the server it waits for
          todo,       \* the servers a loop has yet to ask
          limited,    \* the call in hand has a timeout
          answer,     \* what the last call returned
          delivered,  \* ghost: servers the call's request has reached
          clean,      \* ghost: no call to it was given up, and it sent no note
          orphaned    \* ghost: a call was cancelled while it was reconnecting

pipes == <<alive, inbox, out>>
call == <<limited, answer, delivered>>
mvars == <<config, conn, pipes, tools, failed, phase, who, todo, call, clean, orphaned>>

Lines == {"own", "old", "note", "tail"}
Requests == {"own", "old", "tail"}

\* A process that is gone has no request to answer, and HTTP no pipes.
PipesOK ==
    /\ alive \subseteq Stdio \cap conn
    /\ inbox \in [Servers -> Seq(Requests)]
    /\ out \in [Servers -> Seq(Lines)]
    /\ \A s \in Servers \ alive : inbox[s] = <<>>
    /\ \A s \in Http : out[s] = <<>>

\* The manager waits for a server that is connected, or that it reconnects.
PhaseOK ==
    /\ phase \in {"off", "discover", "idle", "call", "reconnect", "retry", "browse"}
    /\ who \in Servers \cup {None}
    /\ phase \in {"call", "reconnect", "retry"} => who # None
    /\ phase \in {"off", "idle"} => who = None
    /\ who # None => (who \in conn <=> phase # "reconnect")
    /\ todo \subseteq conn
    /\ phase \notin {"discover", "browse"} => todo = {}

McpTypeOK ==
    /\ config \in [Servers -> {"on", "disabled", "absent"}]
    /\ {conn, failed, clean, orphaned} \subseteq SUBSET Servers
    /\ PipesOK
    /\ PhaseOK
    /\ tools \in [Tools -> Servers \cup {Builtin, None}]
    /\ limited \in BOOLEAN
    /\ answer \in {"none", "own", "stale", "error", "timeout", "cancelled",
                   "offline", "unreachable"}
    /\ delivered \in Nat

Quiet == [s \in Servers |-> <<>>]

Init ==
    /\ config \in [Servers -> {"on", "disabled", "absent"}]
    /\ conn = {} /\ alive = {} /\ failed = {} /\ todo = {} /\ orphaned = {}
    /\ clean = Servers
    /\ inbox = Quiet /\ out = Quiet
    /\ tools = [t \in Tools |-> None]
    /\ phase = "off" /\ who = None
    /\ limited = TRUE /\ answer = "none" /\ delivered = 0

-----------------------------------------------------------------------------
\* Connecting

\* initialize() reads one line.  If the server sends a note before its reply,
\* the reply is still to come.
Leftover(noisy) == IF noisy THEN <<"old">> ELSE <<>>

\* new(), at startup or on /mcp reload, which first kills the old processes:
\* the enabled servers that answer the handshake within 1.5 s are connected.
Load ==
    /\ phase \in {"off", "idle"}
    /\ conn' \in SUBSET {s \in Servers : config[s] = "on"}
    /\ alive' = conn' \cap Stdio
    /\ \E noisy \in SUBSET alive' :
          /\ out' = [s \in Servers |-> IF s \in alive' THEN Leftover(s \in noisy) ELSE <<>>]
          /\ clean' = Servers \ noisy
    /\ inbox' = Quiet
    /\ tools' = [t \in Tools |-> IF t \in Builtins THEN Builtin ELSE None]
    /\ failed' = {} /\ orphaned' = {}
    /\ phase' = "discover" /\ todo' = conn'
    /\ UNCHANGED <<config, who, call>>

\* mcp.json cannot be read: there is no manager.
LoadFails ==
    /\ phase \in {"off", "idle"}
    /\ conn' = {} /\ alive' = {} /\ inbox' = Quiet /\ out' = Quiet
    /\ tools' = [t \in Tools |-> None]
    /\ failed' = {} /\ orphaned' = {} /\ clean' = Servers
    /\ phase' = "off"
    /\ UNCHANGED <<config, who, todo, call>>

-----------------------------------------------------------------------------
\* Asking servers in turn: discover_tools, list_resources, list_prompts of all,
\* read_resource and get_prompt of one.

Room(s) == Len(inbox[s]) + Len(out[s]) < MaxLines

\* A request can be written.
Reaches(s) == s \in Http \cup alive

\* A request is written: whatever is still in the pipes is an older one's.
Aged(q) == [i \in 1..Len(q) |-> IF q[i] = "own" THEN "old" ELSE q[i]]

Post(s) ==
    /\ inbox' = IF s \in Stdio THEN [inbox EXCEPT ![s] = Append(Aged(@), "own")] ELSE inbox
    /\ out' = [out EXCEPT ![s] = Aged(@)]

Browse ==
    /\ phase = "idle"
    /\ todo' \in {conn} \cup {{s} : s \in conn}
    /\ \A s \in todo' : Room(s)
    /\ phase' = "browse"
    /\ UNCHANGED <<config, conn, pipes, tools, failed, who, call, clean, orphaned>>

\* The next server is sent its request; a write that fails is a warning.
Ask(s) ==
    /\ phase \in {"discover", "browse"} /\ who = None /\ s \in todo
    /\ IF Reaches(s)
         THEN who' = s /\ Post(s) /\ UNCHANGED todo
         ELSE todo' = todo \ {s} /\ UNCHANGED <<who, inbox, out>>
    /\ UNCHANGED <<config, conn, alive, tools, failed, phase, call, clean, orphaned>>

\* A loop gets a line: what is not the reply to its request is a warning.
Listed(s, line) ==
    /\ who' = None /\ todo' = todo \ {s}
    /\ tools' = IF phase = "discover" /\ line = "own"
                  THEN [t \in Tools |-> IF t \in Provides[s] THEN s ELSE tools[t]]
                  ELSE tools
    /\ UNCHANGED <<conn, phase, call>>

\* A wrong loop: a listing that takes long is given up.
LoopEndsEarly ==
    /\ phase = "browse" \/ (phase = "discover" /\ who = None /\ todo = {})
    /\ phase' = "idle" /\ who' = None /\ todo' = {}
    /\ UNCHANGED <<config, conn, pipes, tools, failed, call, clean, orphaned>>

LoopEnds ==
    /\ phase \in {"discover", "browse"} /\ who = None /\ todo = {}
    /\ phase' = "idle"
    /\ UNCHANGED <<config, conn, pipes, tools, failed, who, todo, call, clean, orphaned>>

-----------------------------------------------------------------------------
\* Calling a tool

\* The transport is dead: the client is dropped, to be connected anew.
Drop(s) ==
    /\ conn' = conn \ {s}
    /\ alive' = alive \ {s}
    /\ inbox' = [inbox EXCEPT ![s] = <<>>] /\ out' = [out EXCEPT ![s] = <<>>]
    /\ phase' = "reconnect"

\* call_tool() on a tool of an external server.
CallTool(t) ==
    /\ phase = "idle" /\ tools[t] \in Servers
    /\ limited' \in BOOLEAN
    /\ LET s == tools[t] IN
       /\ Room(s)
       /\ \/ /\ s \in conn /\ Reaches(s)
             /\ Post(s)
             /\ phase' = "call" /\ who' = s /\ answer' = "none" /\ delivered' = 1
             /\ UNCHANGED <<conn, alive>>
          \/ /\ s \in conn /\ ~Reaches(s)
             /\ Drop(s)
             /\ who' = s /\ answer' = "none" /\ delivered' = 0
          \/ /\ s \notin conn
             /\ answer' = "unreachable" /\ delivered' = 0
             /\ UNCHANGED <<conn, pipes, phase, who>>
    /\ UNCHANGED <<config, tools, failed, todo, clean, orphaned>>

Return(how) == phase' = "idle" /\ who' = None /\ answer' = how

\* A call gets a line.  The reply to an older call passes for its own.
Called(line) ==
    /\ \E how \in {"own", "stale", "error"} :
          /\ CASE line = "own" -> how = "own"
               [] line = "old" -> how \in {"stale", "error"}
               [] OTHER -> how = "error"
          /\ Return(how)
    /\ UNCHANGED <<conn, tools, todo, limited, delivered>>

Gets(s, line) ==
    \/ phase \in {"discover", "browse"} /\ Listed(s, line)
    \/ phase \in {"call", "retry"} /\ Called(line)

\* The read takes the k lines that are there, and maybe part of the next: all
\* but the first are lost with the BufReader.
Receive(s) ==
    /\ who = s /\ s \in Stdio /\ phase # "reconnect"
    /\ \E k \in 1..Len(out[s]), torn \in BOOLEAN :
          LET rest == SubSeq(out[s], k + 1, Len(out[s])) IN
          out' = [out EXCEPT ![s] = IF torn /\ rest # <<>>
                                      THEN <<"tail">> \o Tail(rest) ELSE rest]
    /\ Gets(s, Head(out[s]))
    /\ UNCHANGED <<config, alive, inbox, failed, clean, orphaned>>

\* A wrong reading of the end of the stream: the transport is dead, so the
\* call is sent again.
EofReconnects(s) ==
    /\ who = s /\ s \in Stdio \ alive /\ out[s] = <<>>
    /\ IF phase = "call"
         THEN Drop(s) /\ UNCHANGED <<tools, todo, who, call>>
         ELSE phase # "reconnect" /\ Gets(s, "tail") /\ UNCHANGED pipes
    /\ UNCHANGED <<config, failed, clean, orphaned>>

\* The process is gone and its output read: the empty line does not parse,
\* which is no dead transport to is_transport_dead().
Eof(s) ==
    /\ who = s /\ s \in Stdio \ alive /\ out[s] = <<>> /\ phase # "reconnect"
    /\ Gets(s, "tail")
    /\ UNCHANGED <<config, pipes, failed, clean, orphaned>>

\* The HTTP response, an error, or a lost connection.
HttpReply(s) ==
    /\ who = s /\ s \in Http /\ phase # "reconnect"
    /\ \/ Gets(s, "own") /\ UNCHANGED pipes
       \/ Gets(s, "note") /\ UNCHANGED pipes
       \/ phase = "call" /\ Drop(s) /\ UNCHANGED <<tools, todo, who, call>>
    /\ UNCHANGED <<config, failed, clean, orphaned>>

\* reconnect_stdio() and the retry.  If that cannot be written the first error
\* is returned.
Reconnect ==
    /\ phase = "reconnect" /\ who \in Stdio /\ config[who] # "absent"
    /\ conn' = conn \cup {who}
    /\ \E noisy \in BOOLEAN :
          /\ out' = [out EXCEPT ![who] = Leftover(noisy)]
          /\ clean' = IF noisy THEN clean \ {who} ELSE clean \cup {who}
    /\ \/ /\ alive' = alive \cup {who}
          /\ inbox' = [inbox EXCEPT ![who] = <<"own">>]
          /\ phase' = "retry" /\ delivered' = delivered + 1
          /\ UNCHANGED <<who, answer>>
       \/ /\ Return("error")
          /\ UNCHANGED <<alive, inbox, delivered>>
    /\ UNCHANGED <<config, tools, failed, todo, limited, orphaned>>

\* A wrong failure: the tools of the server stay in the list.
ReconnectFailsKeeping ==
    /\ phase = "reconnect"
    /\ failed' = failed \cup {who}
    /\ Return("offline")
    /\ UNCHANGED <<config, conn, pipes, tools, todo, limited, delivered, clean, orphaned>>

\* ... or it fails, within 1.5 s: mark_server_failed().
ReconnectFails ==
    /\ phase = "reconnect"
    /\ failed' = failed \cup {who}
    /\ tools' = [t \in Tools |-> IF tools[t] = who THEN None ELSE tools[t]]
    /\ conn' = conn \ {who}
    /\ Return("offline")
    /\ UNCHANGED <<config, pipes, todo, limited, delivered, clean, orphaned>>

\* The future of a call is dropped while it waits: its reply will come, maybe
\* without the part of it that was read.
Abandon ==
    /\ \/ UNCHANGED inbox
       \/ /\ inbox[who] # <<>> /\ out[who] = <<>>
          /\ inbox' = [inbox EXCEPT ![who] = <<"tail">> \o Tail(@)]
    /\ clean' = clean \ (Stdio \cap {who})
    /\ UNCHANGED <<conn, alive, out>>

\* A wrong timeout: the retry has none.
TimeoutFirstOnly ==
    /\ phase = "call" /\ limited
    /\ Abandon /\ Return("timeout")
    /\ UNCHANGED <<config, tools, failed, todo, limited, delivered, orphaned>>

Timeout ==
    /\ phase \in {"call", "retry"} /\ limited
    /\ Abandon /\ Return("timeout")
    /\ UNCHANGED <<config, tools, failed, todo, limited, delivered, orphaned>>

\* The agent loop drops the call on Ctrl-C or its wall-clock cap.
Cancel ==
    /\ \/ phase \in {"call", "retry"} /\ Abandon /\ UNCHANGED orphaned
       \/ /\ phase = "reconnect"
          /\ orphaned' = orphaned \cup {who}
          /\ UNCHANGED <<conn, pipes, clean>>
    /\ Return("cancelled")
    /\ UNCHANGED <<config, tools, failed, todo, limited, delivered>>

-----------------------------------------------------------------------------
\* What the servers and the user do

ServerAnswers(s) ==
    /\ s \in alive /\ inbox[s] # <<>>
    /\ out' = [out EXCEPT ![s] = Append(@, Head(inbox[s]))]
    /\ inbox' = [inbox EXCEPT ![s] = Tail(@)]
    /\ UNCHANGED <<config, conn, alive, tools, failed, phase, who, todo, call, clean,
                   orphaned>>

\* A notification or log line.
ServerSpeaks(s) ==
    /\ s \in alive /\ Room(s)
    /\ out' = [out EXCEPT ![s] = Append(@, "note")]
    /\ clean' = clean \ {s}
    /\ UNCHANGED <<config, conn, alive, inbox, tools, failed, phase, who, todo, call,
                   orphaned>>

ServerDies(s) ==
    /\ s \in alive
    /\ alive' = alive \ {s}
    /\ inbox' = [inbox EXCEPT ![s] = <<>>]
    /\ UNCHANGED <<config, conn, out, tools, failed, phase, who, todo, call, clean, orphaned>>

\* An editor, or `cubi mcp` in another terminal.
EditConfig(s, entry) ==
    /\ config' = [config EXCEPT ![s] = entry]
    /\ UNCHANGED <<conn, pipes, tools, failed, phase, who, todo, call, clean, orphaned>>

Next ==
    \/ Load \/ LoadFails \/ Browse \/ LoopEnds
    \/ \E t \in Tools : CallTool(t)
    \/ \E s \in Servers :
          \/ Ask(s) \/ Receive(s) \/ Eof(s) \/ HttpReply(s)
          \/ ServerAnswers(s) \/ ServerSpeaks(s) \/ ServerDies(s)
          \/ \E entry \in {"on", "disabled", "absent"} : EditConfig(s, entry)
    \/ Reconnect \/ ReconnectFails \/ Timeout \/ Cancel

Spec == Init /\ [][Next]_mvars

\* The task goes on whenever it can, and timers fire.
LiveSpec ==
    /\ Spec
    /\ WF_mvars(LoopEnds \/ \E s \in Servers : Ask(s) \/ Receive(s) \/ Eof(s))
    /\ WF_mvars(Timeout)
    /\ WF_mvars(Reconnect \/ ReconnectFails)

\* Each server answers what it is asked.
Answering ==
    \A s \in Servers : WF_mvars(ServerAnswers(s)) /\ WF_mvars(HttpReply(s))

-----------------------------------------------------------------------------

\* On a connection on which nothing was given up and nothing was sent unasked,
\* the pipes hold the request in hand or its reply, and else nothing.
InStep ==
    \A s \in clean :
        inbox[s] \o out[s] \in
            {<<>>} \cup (IF who = s /\ phase # "reconnect" THEN {<<"own">>} ELSE {})

\* A call returns another request's reply only on a connection on which an
\* earlier call timed out or was cancelled, or the server spoke unasked.
\* (StdioClient::send_request takes the next line, whatever its id.)
OwnAnswers == [][(answer' = "stale" /\ answer # "stale") => who \notin clean]_mvars

\* The reconnect never has a tool run twice: the request is sent again only if
\* it had not reached the server.  (McpManager::call_tool.)
AtMostOnce == delivered <= 1

\* Every tool the model is told of is built in, or its server is connected or
\* being reconnected, or a cancel cut a reconnect short; a server that is marked
\* failed has neither client nor tools.  (mark_server_failed.)
ToolsReachable ==
    /\ \A t \in Tools : tools[t] \in Servers =>
          \/ tools[t] \in conn \cup orphaned
          \/ phase = "reconnect" /\ who = tools[t]
    /\ \A s \in failed : s \notin conn /\ \A t \in Tools : tools[t] # s

\* A call with a timeout ends, reconnect and retry included, though no server
\* ever answers.
CallEnds == (phase \in {"call", "reconnect", "retry"} /\ limited) ~> phase = "idle"

\* If the servers answer, startup and the listing commands come to an end,
\* whatever lines are lost, left over or sent unasked.
ListingEnds == Answering => (phase \in {"discover", "browse"} ~> phase = "idle")

\* Nothing the manager is asked for hangs: a call, or a loop over the servers.
AsksEnd == CallEnds /\ ListingEnds

=============================================================================
