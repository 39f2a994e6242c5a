------------------------------ MODULE TuiProofs ------------------------------
(***************************************************************************)
(* Proofs about Tui: the terminal has one owner, a cancel meets the turn it*)
(* was pressed in, and the transcript says what happened.  Who owns the    *)
(* terminal is a matter of the handshake alone.  The transcript is what was*)
(* drawn so far and what the events still in the channel will add to it.   *)
(* And about Composer: the line that is edited, cut at offsets in bytes,   *)
(* and the picker that follows it.                                         *)
(***************************************************************************)
EXTENDS Tui, Composer, SubsequencesProofs, FiniteSetTheorems

\* What the main task sends the render task, and what that draws.
EventKinds == {"thinking", "token", "final", "thought", "open", "close", "status"}
Turns == 0..MaxLines
Rows == [kind : EventKinds \cup {"you", "cubi", "reply"}, turn : Turns]
Events == [kind : EventKinds, turn : Turns]

TTyped ==
    /\ main \in {"idle", "asking", "closing", "ended"} \cup Busy
    /\ line \in Lines /\ tools \in 0..MaxTools
    /\ stage \in {"none", "asked", "told", "tool"}
    /\ render \in {"select", "parked", "gone"} /\ reader \in BOOLEAN
    /\ actions \in Seq(Lines) /\ control \in BOOLEAN
    /\ ack \in {"none", "pending", "sent", "lost"}
    /\ resume \in {"none", "pending", "fired", "lost"}
    /\ screen \in {"alt", "normal"}
    /\ redirected \in BOOLEAN /\ cancel \in BOOLEAN /\ headed \in BOOLEAN /\ ahead \in BOOLEAN
    /\ typed \in Turns /\ pressedIn \in Turns /\ reply \in Turns
    /\ events \in Seq(Events) /\ transcript \in Seq(Rows)

\* A prompt has a number, so has the turn it opens.
Numbered ==
    /\ \A k \in 1..Len(actions) : actions[k].kind = "prompt" => actions[k].turn # 0
    /\ main = "turn" => line.turn # 0
    /\ completed \subseteq 1..MaxLines

\* main has the terminal from the acknowledgement until it fires or drops resume.
Borrowing == {"running", "prompting", "returning"}

Handshake ==
    /\ reader <=> render = "select"
    /\ resume = "none" <=> render # "parked"
    /\ resume = "pending" =>
          (main = "asking" /\ ack = "sent" /\ screen = "alt") \/ main \in Borrowing
    /\ resume = "fired" => screen = "alt" /\ ack # "sent" /\ main \notin Borrowing
    /\ resume = "lost" => main = "closing"
    /\ ack = "sent" => resume = "pending" /\ main = "asking"
    /\ control => main = "asking" /\ ack = "pending"
    /\ main \in Borrowing => resume = "pending" /\ ack = "none" /\ ~control
    /\ main \in {"running", "prompting"} /\ line.kind # "edit" => screen = "alt"
    /\ main = "returning" => line.kind = "edit"
    /\ redirected => main \in {"running", "prompting"} /\ line.kind # "edit"
    /\ render = "select" => screen = "alt"
    /\ main = "ended" => render = "gone" /\ screen = "normal"

CancelOwn == main = "turn" /\ cancel => pressedIn = line.turn

CountIn(s, kind) == Cardinality({i \in 1..Len(s) : s[i].kind = kind})

\* Every block that was or will be opened is closed, but that of a tool at work.
Blocks ==
    render # "gone" =>
        CountIn(transcript, "open") + CountIn(events, "open") =
            CountIn(transcript, "close") + CountIn(events, "close") +
            (IF main = "turn" /\ stage = "tool" THEN 1 ELSE 0)

Told == main = "turn" /\ stage = "told"
Resets == {"thinking", "final", "thought"}

\* The text of a step is shown by the event that ends the step.
Quiet ==
    render # "gone" =>
        IF Told THEN IF events = <<>> THEN reply = line.turn
                     ELSE events[Len(events)] = Row("token", line.turn)
        ELSE /\ reply # 0 => \E n \in 1..Len(events) : events[n].kind \in Resets
             /\ \A m \in 1..Len(events) : events[m].kind = "token" =>
                    \E n \in (m + 1)..Len(events) : events[n].kind \in Resets

\* The prompt t is the last in the transcript s, with one header at most below.
Under(s, h, t) ==
    \E i \in 1..Len(s) :
        /\ s[i] = Row("you", t)
        /\ \A k \in (i + 1)..Len(s) : s[k].kind # "you"
        /\ Cardinality({k \in i..Len(s) : s[k].kind = "cubi"}) = IF h THEN 1 ELSE 0

\* The answer to the prompt t is in the transcript s.
Answered(s, t) ==
    \E i, j \in 1..Len(s) :
        /\ i < j
        /\ s[i] = Row("you", t) /\ s[j] = Row("reply", t)
        /\ \A k \in (i + 1)..j : s[k].kind # "you"
        /\ Cardinality({k \in i..j : s[k].kind = "cubi"}) = 1

\* It is still to be drawn: r is the text shown and not ended, e the events.
Promised(r, e, t) ==
    \E m \in 1..Len(e) :
        \/ e[m] = Row("final", t)
        \/ e[m].kind = "thought" /\ IF m = 1 THEN r = t ELSE e[m - 1] = Row("token", t)

\* As long as the user does not type ahead.
InTurns ==
    render # "gone" /\ ~ahead =>
        /\ actions # <<>> => Len(actions) = 1 /\ main = "idle" /\ events = <<>>
        /\ actions # <<>> /\ actions[1].kind = "prompt" =>
               Under(transcript, headed, actions[1].turn)
        /\ main = "turn" => Under(transcript, headed, line.turn)
        /\ reply # 0 => headed
        /\ \A t \in completed :
              \/ Answered(transcript, t)
              \/ Under(transcript, headed, t) /\ Promised(reply, events, t)

TInv == TTyped /\ Numbered /\ Handshake /\ CancelOwn /\ Blocks /\ Quiet /\ InTurns

-----------------------------------------------------------------------------
\* How a step is told from another

\* Steps of the render task and of the user at its keys.
RenderSide ==
    \/ Draw \/ Park \/ Unpark \/ Released
    \/ \E kind \in Kinds : Submit(kind)
    \/ CtrlC \/ CtrlD \/ RenderDies

\* Steps of main between turns.
Between == Quit \/ OpenTurn \/ Shell \/ Command \/ NoMoreLines \/ Close

\* Steps of a turn.
Turning == Token \/ CallTool \/ ToolReturns \/ TurnDone \/ TurnFails \/ Cancelled

\* Steps of main with the terminal, or asking for it.
Borrows ==
    \/ AckReceived \/ AckLost \/ AskApproval \/ Approved
    \/ CaptureDone \/ EditDone \/ CommandQuits \/ Reenter \/ ReenterFails

LEMMA Kinds4 ==
    ASSUME [Next]_vars
    PROVE  RenderSide \/ Between \/ Turning \/ Borrows \/ UNCHANGED vars
  BY DEF Next, RenderStep, MainStep, RenderSide, Between, Turning, Borrows, Ended

LEMMA Bounds == MaxLines \in Nat /\ MaxTools \in Nat
  BY TuiAssumption

-----------------------------------------------------------------------------
\* The types

LEMMA EmitTypes ==
    ASSUME TTyped, NEW evs \in Seq(Events), Emit(evs)
    PROVE  events' \in Seq(Events)
  BY DEF TTyped, Emit

LEMMA NoEvents ==
    ASSUME TTyped, events' = events \/ events' = <<>>
    PROVE  events' \in Seq(Events)
<1>1. <<>> \in Seq(Events)
  OBVIOUS
<1>2. events \in Seq(Events)
  BY DEF TTyped
<1> QED
  BY <1>1, <1>2

LEMMA EventsAre ==
    /\ \A kind \in EventKinds, t \in Turns : Row(kind, t) \in Events
    /\ \A kind \in EventKinds \cup {"you", "cubi", "reply"}, t \in Turns : Row(kind, t) \in Rows
    /\ 0 \in Turns
  BY Bounds DEF Events, Rows, Row, Turns

LEMMA HeadTypes ==
    ASSUME TTyped, TakeLine
    PROVE  line' \in Lines /\ actions' \in Seq(Lines)
  BY DEF TTyped, TakeLine

LEMMA ShowsTypes ==
    ASSUME TTyped, NEW ev \in Events, Shows(ev)
    PROVE  transcript' \in Seq(Rows) /\ headed' \in BOOLEAN /\ reply' \in Turns
<1>1. /\ transcript \in Seq(Rows) /\ headed \in BOOLEAN /\ reply \in Turns
      /\ ev.turn \in Turns /\ ev \in Rows
  BY DEF TTyped, Events, Rows
<1>2. Row("cubi", 0) \in Rows /\ Row("reply", ev.turn) \in Rows /\ Row("reply", reply) \in Rows
      /\ 0 \in Turns
  BY <1>1, EventsAre
<1>3. Headed \in Seq(Rows)
  BY <1>1, <1>2 DEF Headed
<1>4. CASE ev.kind \in {"thinking", "token"}
  BY <1>1, <1>2, <1>3, <1>4 DEF Shows
<1>5. CASE ev.kind = "final"
  BY <1>1, <1>2, <1>3, <1>5 DEF Shows
<1>6. CASE ev.kind = "thought"
  BY <1>1, <1>2, <1>6 DEF Shows
<1>7. CASE ev.kind \notin {"thinking", "token", "final", "thought"}
  BY <1>1, <1>7 DEF Shows
<1> QED
  BY <1>4, <1>5, <1>6, <1>7

LEMMA RenderTyped ==
    ASSUME TTyped, RenderSide
    PROVE  TTyped'
<1>1. CASE Draw
  <2>1. /\ Head(events) \in Events /\ events' \in Seq(Events)
        /\ UNCHANGED <<session, actions, control, ack, resume, render, reader, terminal,
                       cancel, typed, presses, pressedIn, completed, ahead>>
    BY <1>1 DEF Draw, TTyped
  <2>2. transcript' \in Seq(Rows) /\ headed' \in BOOLEAN /\ reply' \in Turns
    BY <1>1, <2>1, ShowsTypes DEF Draw
  <2> QED
    BY <2>1, <2>2 DEF TTyped, session, terminal
<1>2. ASSUME Park \/ Unpark \/ Released \/ CtrlD \/ RenderDies PROVE TTyped'
  <2>1. /\ UNCHANGED <<main, line, stage, tools, cancel, headed, ahead, typed, pressedIn,
                       reply, transcript, redirected>>
        /\ render' \in {"select", "parked", "gone"} /\ reader' \in BOOLEAN
        /\ control' \in BOOLEAN /\ ack' \in {"none", "pending", "sent", "lost"}
        /\ resume' \in {"none", "pending", "fired", "lost"}
        /\ screen' \in {"alt", "normal"}
    BY <1>2 DEF Park, Unpark, Released, CtrlD, RenderDies, RenderEnds, Left, session, view,
                terminal, TTyped
  <2>2. actions' \in Seq(Lines)
    <3>1. NoLine \in Lines
      BY Bounds DEF NoLine, Lines
    <3> QED
      BY <1>2, <3>1 DEF Park, Unpark, Released, CtrlD, RenderDies, TTyped
  <2>3. events' \in Seq(Events)
    <3>1. events' = events \/ events' = <<>>
      BY <1>2 DEF Park, Unpark, Released, CtrlD, RenderDies, RenderEnds
    <3> QED
      BY <3>1, NoEvents
  <2> QED
    BY <2>1, <2>2, <2>3 DEF TTyped
<1>3. ASSUME NEW kind \in Kinds, Submit(kind) PROVE TTyped'
  <2> DEFINE turn == IF kind = "prompt" THEN typed + 1 ELSE 0
  <2>1. typed + 1 \in Turns /\ turn \in Turns /\ typed' = typed + 1
    BY <1>3, Bounds DEF Submit, TTyped, Turns
  <2>2. [kind |-> kind, turn |-> turn] \in Lines
    BY <2>1 DEF Lines, Turns
  <2>3. actions' \in Seq(Lines)
    BY <1>3, <2>2 DEF Submit, TTyped
  <2>4. transcript' \in Seq(Rows) /\ headed' \in BOOLEAN /\ reply' \in Turns
    <3>1. Row("you", turn) \in Rows /\ transcript \in Seq(Rows)
          /\ headed \in BOOLEAN /\ reply \in Turns
      BY <2>1, EventsAre DEF TTyped
    <3>2. CASE kind = "prompt"
      <4>1. YouSay(turn)
        BY <1>3, <3>2 DEF Submit
      <4> HIDE DEF turn
      <4>2. transcript' = Append(transcript, Row("you", turn)) /\ headed' = FALSE
            /\ reply' = reply
        BY <4>1 DEF YouSay
      <4>3. transcript' \in Seq(Rows)
        BY <3>1, <4>2
      <4> QED
        BY <3>1, <4>2, <4>3
    <3>3. CASE kind # "prompt"
      <4>1. UNCHANGED view
        BY <1>3, <3>3 DEF Submit
      <4> QED
        BY <3>1, <4>1 DEF view
    <3> QED
      BY <3>2, <3>3
  <2>5. ahead' \in BOOLEAN
    BY <1>3 DEF Submit, TTyped
  <2>6. UNCHANGED <<session, events, control, ack, resume, render, reader, terminal,
                   cancel, presses, pressedIn, completed>>
    BY <1>3 DEF Submit
  <2> HIDE DEF turn
  <2> QED
    BY <2>1, <2>3, <2>4, <2>5, <2>6 DEF TTyped, session, terminal
<1>4. CASE CtrlC
  <2>1. pressedIn' \in Turns
    BY <1>4, EventsAre DEF CtrlC, TTyped, Lines, Turns
  <2> QED
    BY <1>4, <2>1 DEF CtrlC, TTyped, session, channels, terminal, view
<1> QED
  BY <1>1, <1>2, <1>3, <1>4 DEF RenderSide

LEMMA MainTyped ==
    ASSUME TTyped, Between \/ Turning \/ Borrows
    PROVE  TTyped'
<1> USE EventsAre, Bounds
<1>0. line.turn \in Turns
  BY DEF TTyped, Lines, Turns
<1>1. \A kind \in EventKinds : Row(kind, 0) \in Events /\ Ev(kind) \in Events
  BY <1>0 DEF Ev
<1>2. ASSUME NEW a \in EventKinds, NEW b \in EventKinds PROVE
        /\ <<Row(a, 0)>> \in Seq(Events) /\ <<Ev(a)>> \in Seq(Events)
        /\ <<Row(a, 0), Row(b, 0)>> \in Seq(Events) /\ <<Row(a, 0), Ev(b)>> \in Seq(Events)
  BY <1>1
<1>3. events' \in Seq(Events)
  <2> USE DEF EventKinds
  <2>1. CASE Between
    <3>1. CASE OpenTurn
      BY <3>1, <1>2, EmitTypes DEF OpenTurn
    <3>2. CASE Shell
      BY <3>2, <1>2, EmitTypes DEF Shell
    <3>3. CASE Quit \/ Command \/ NoMoreLines \/ Close
      <4>1. events' = events \/ events' = <<>>
        BY <3>3 DEF Quit, Command, NoMoreLines, Close, RenderEnds, channels
      <4> QED
        BY <4>1, NoEvents
    <3> QED
      BY <2>1, <3>1, <3>2, <3>3 DEF Between
  <2>2. CASE Turning
    <3>1. CASE Token
      BY <3>1, <1>2, EmitTypes DEF Token
    <3>2. CASE CallTool
      BY <3>2, <1>2, EmitTypes DEF CallTool
    <3>3. CASE ToolReturns
      BY <3>3, <1>2, EmitTypes DEF ToolReturns
    <3>4. CASE TurnDone
      <4>1. CASE stage = "told"
        BY <3>4, <4>1, <1>2, EmitTypes DEF TurnDone
      <4>2. CASE stage # "told"
        BY <3>4, <4>2, <1>2, EmitTypes DEF TurnDone
      <4> QED
        BY <4>1, <4>2
    <3>5. CASE TurnFails
      BY <3>5, <1>2, EmitTypes DEF TurnFails
    <3>6. CASE Cancelled
      <4>1. CASE stage = "tool"
        BY <3>6, <4>1, <1>2, EmitTypes DEF Cancelled
      <4>2. CASE stage # "tool"
        BY <3>6, <4>2, <1>2, EmitTypes DEF Cancelled
      <4> QED
        BY <4>1, <4>2
    <3> QED
      BY <2>2, <3>1, <3>2, <3>3, <3>4, <3>5, <3>6 DEF Turning
  <2>3. CASE Borrows
    <3>1. CASE CaptureDone
      BY <3>1, <1>2, EmitTypes DEF CaptureDone
    <3>2. CASE Borrows /\ ~CaptureDone
      BY <3>2 DEF Borrows, AckReceived, AckLost, AskApproval, Approved, EditDone,
                  CommandQuits, Reenter, ReenterFails, TTyped
    <3> QED
      BY <2>3, <3>1, <3>2
  <2> QED
    BY <2>1, <2>2, <2>3
<1>4. UNCHANGED <<headed, ahead, typed, pressedIn, reply, transcript>>
  BY DEF Between, Turning, Borrows, Quit, OpenTurn, Shell, Command, NoMoreLines, Close, Token,
         CallTool, ToolReturns, TurnDone, TurnFails, Cancelled, AckReceived, AckLost,
         AskApproval, Approved, CaptureDone, EditDone, CommandQuits, Reenter, ReenterFails,
         TurnOnly, Borrower, Mains, view
<1>5. /\ line' \in Lines /\ actions' \in Seq(Lines)
  <2>1. CASE TakeLine
    BY <2>1, HeadTypes
  <2>2. CASE ~TakeLine
    <3>1. UNCHANGED <<line, actions>>
      BY <2>2 DEF Between, Turning, Borrows, Quit, OpenTurn, Shell, Command, NoMoreLines, Close,
             Token, CallTool, ToolReturns, TurnDone, TurnFails, Cancelled, AckReceived, AckLost,
             AskApproval, Approved, CaptureDone, EditDone, CommandQuits, Reenter, ReenterFails,
             TurnOnly, Borrower, channels, Goes, EndTurn
    <3> QED
      BY <3>1 DEF TTyped
  <2> QED
    BY <2>1, <2>2
<1>6. /\ main' \in {"idle", "asking", "closing", "ended"} \cup Busy
      /\ stage' \in {"none", "asked", "told", "tool"} /\ tools' \in 0..MaxTools
  <2>1. CASE Between
    BY <2>1 DEF Between, Quit, OpenTurn, Shell, Command, NoMoreLines, Close, Busy, TTyped
  <2>2. CASE Turning
    BY <2>2 DEF Turning, Token, CallTool, ToolReturns, TurnDone, TurnFails, Cancelled, Goes,
                EndTurn, Busy, TTyped
  <2>3. CASE Borrows
    BY <2>3 DEF Borrows, AckReceived, AckLost, AskApproval, Approved, CaptureDone, EditDone,
                CommandQuits, Reenter, ReenterFails, Borrower, Busy, TTyped
  <2> QED
    BY <2>1, <2>2, <2>3
<1>7. /\ render' \in {"select", "parked", "gone"} /\ reader' \in BOOLEAN
      /\ control' \in BOOLEAN /\ ack' \in {"none", "pending", "sent", "lost"}
      /\ resume' \in {"none", "pending", "fired", "lost"}
      /\ screen' \in {"alt", "normal"} /\ redirected' \in BOOLEAN /\ cancel' \in BOOLEAN
  <2>1. CASE Between
    BY <2>1 DEF Between, Quit, OpenTurn, Shell, Command, NoMoreLines, Close, Mains, RenderEnds,
                channels, terminal, TTyped
  <2>2. CASE Turning
    BY <2>2 DEF Turning, Token, CallTool, ToolReturns, TurnDone, TurnFails, Cancelled, TurnOnly,
                Mains, terminal, TTyped
  <2>3. CASE Borrows
    BY <2>3 DEF Borrows, AckReceived, AckLost, AskApproval, Approved, CaptureDone, EditDone,
                CommandQuits, Reenter, ReenterFails, Borrower, Mains, terminal, TTyped
  <2> QED
    BY <2>1, <2>2, <2>3
<1> QED
  BY <1>3, <1>4, <1>5, <1>6, <1>7 DEF TTyped

LEMMA TypedStep ==
    ASSUME TTyped, [Next]_vars
    PROVE  TTyped'
<1>1. CASE UNCHANGED vars
  BY <1>1 DEF vars, session, channels, terminal, view, TTyped
<1> QED
  BY <1>1, RenderTyped, MainTyped, Kinds4

-----------------------------------------------------------------------------
\* The handshake

LEMMA HandshakeRender ==
    ASSUME TTyped, Handshake, RenderSide
    PROVE  Handshake'
<1> USE DEF TTyped, Handshake, session, terminal, channels, Left, RenderEnds
<1>1. CASE Draw
  BY <1>1 DEF Draw
<1>2. CASE Park
  BY <1>2 DEF Park
<1>3. CASE Unpark
  BY <1>3 DEF Unpark
<1>4. CASE Released
  BY <1>4 DEF Released, Borrowing
<1>5. ASSUME NEW kind \in Kinds, Submit(kind) PROVE Handshake'
  BY <1>5 DEF Submit
<1>6. CASE CtrlC
  BY <1>6 DEF CtrlC
<1>7. CASE CtrlD
  BY <1>7 DEF CtrlD, Borrowing
<1>8. CASE RenderDies
  BY <1>8 DEF RenderDies, Borrowing
<1> QED
  BY <1>1, <1>2, <1>3, <1>4, <1>5, <1>6, <1>7, <1>8 DEF RenderSide

LEMMA HandshakeMain ==
    ASSUME TTyped, Handshake, Between \/ Turning \/ Borrows
    PROVE  Handshake'
<1> USE DEF TTyped, Handshake, Borrowing, Busy, terminal, channels, Mains
<1>1. CASE Quit
  BY <1>1 DEF Quit, TakeLine
<1>2. CASE OpenTurn
  BY <1>2 DEF OpenTurn, TakeLine
<1>3. CASE Shell
  BY <1>3 DEF Shell, TakeLine
<1>4. CASE Command
  BY <1>4 DEF Command, TakeLine
<1>5. CASE NoMoreLines
  BY <1>5 DEF NoMoreLines
<1>6. CASE Close
  BY <1>6 DEF Close, RenderEnds
<1>7. CASE Turning
  <2>1. /\ main = "turn" /\ main' \in {"turn", "idle"}
        /\ UNCHANGED <<line, render, reader, actions, control, ack, resume, screen, redirected>>
    BY <1>7 DEF Turning, Token, CallTool, ToolReturns, TurnDone, TurnFails, Cancelled, InTurn,
                Goes, EndTurn, TurnOnly
  <2> QED
    BY <2>1
<1>8. CASE AckReceived
  BY <1>8 DEF AckReceived, Borrower
<1>9. CASE AckLost
  BY <1>9 DEF AckLost, Borrower
<1>10. CASE AskApproval
  BY <1>10 DEF AskApproval, Borrower
<1>11. CASE Approved
  BY <1>11 DEF Approved, Borrower
<1>12. CASE CaptureDone
  BY <1>12 DEF CaptureDone, Borrower
<1>13. CASE EditDone
  BY <1>13 DEF EditDone, Borrower
<1>14. CASE CommandQuits
  BY <1>14 DEF CommandQuits, Borrower
<1>15. CASE Reenter
  BY <1>15 DEF Reenter, Borrower
<1>16. CASE ReenterFails
  BY <1>16 DEF ReenterFails, Borrower
<1> QED
  BY <1>1, <1>2, <1>3, <1>4, <1>5, <1>6, <1>7, <1>8, <1>9, <1>10, <1>11, <1>12, <1>13, <1>14,
     <1>15, <1>16 DEF Between, Borrows

LEMMA HandshakeStep ==
    ASSUME TTyped, Handshake, [Next]_vars
    PROVE  Handshake'
<1>1. CASE UNCHANGED vars
  BY <1>1 DEF vars, session, channels, terminal, Handshake
<1> QED
  BY <1>1, HandshakeRender, HandshakeMain, Kinds4

\* The handshake says who owns the terminal.
LEMMA Owned ==
    ASSUME TTyped, Handshake
    PROVE  OneOwner
  BY DEF TTyped, Handshake, OneOwner, Borrowing, Busy

-----------------------------------------------------------------------------
\* The turn a cancel meets

LEMMA CancelStep ==
    ASSUME TTyped, CancelOwn, [Next]_vars
    PROVE  CancelOwn'
<1>1. CASE RenderSide
  <2>1. CASE CtrlC
    BY <2>1 DEF CtrlC, CancelOwn, session
  <2>2. CASE RenderSide /\ ~CtrlC
    <3>1. UNCHANGED <<main, line, cancel, pressedIn>>
      BY <2>2 DEF RenderSide, Draw, Park, Unpark, Released, Submit, CtrlD, RenderDies, Left, session
    <3> QED
      BY <3>1 DEF CancelOwn
  <2> QED
    BY <1>1, <2>1, <2>2
<1>2. CASE Between
  BY <1>2 DEF Between, Quit, OpenTurn, Shell, Command, NoMoreLines, Close, TakeLine, CancelOwn
<1>3. CASE Turning
  <2>1. UNCHANGED <<line, cancel, pressedIn>> /\ main = "turn"
    BY <1>3 DEF Turning, Token, CallTool, ToolReturns, TurnDone, TurnFails, Cancelled, InTurn,
                Goes, EndTurn, TurnOnly, Mains
  <2> QED
    BY <2>1 DEF CancelOwn
<1>4. CASE Borrows
  BY <1>4 DEF Borrows, AckReceived, AckLost, AskApproval, Approved, CaptureDone, EditDone,
              CommandQuits, Reenter, ReenterFails, CancelOwn
<1>5. CASE UNCHANGED vars
  BY <1>5 DEF vars, session, CancelOwn
<1> QED
  BY <1>1, <1>2, <1>3, <1>4, <1>5, Kinds4

-----------------------------------------------------------------------------
\* What a step does to the events, the transcript and the turn

Plus(s, a) == Append(s, Row(a, 0))

\* Steps of main outside a turn, some with a block to show.
Aside ==
    /\ main # "turn" /\ main' # "turn" /\ UNCHANGED completed
    /\ actions' = IF main = "idle" /\ actions # <<>> THEN Tail(actions) ELSE actions
    /\ events' \in {events, Plus(Plus(events, "open"), "close")}

Opens ==
    /\ main = "idle" /\ actions # <<>> /\ actions' = Tail(actions)
    /\ line' = Head(actions) /\ line'.kind = "prompt"
    /\ main' = "turn" /\ stage' = "asked" /\ UNCHANGED completed
    /\ events' = Plus(events, "thinking")

Speaks ==
    /\ stage = "asked" /\ main' = "turn" /\ stage' = "told" /\ UNCHANGED completed
    /\ events' = Append(events, Row("token", line.turn))

Calls ==
    /\ stage \in {"asked", "told"} /\ main' = "turn" /\ stage' = "tool"
    /\ UNCHANGED completed
    /\ events' = Plus(Plus(events, "thought"), "open")

Hears ==
    /\ stage = "tool" /\ main' = "turn" /\ stage' = "asked" /\ UNCHANGED completed
    /\ events' = Plus(Plus(events, "close"), "thinking")

AnswersDone ==
    /\ stage \in {"asked", "told"} /\ main' = "idle"
    /\ completed' = completed \cup {line.turn}
    /\ events' = IF stage = "told" THEN Plus(events, "thought")
                 ELSE Append(Plus(events, "thought"), Row("final", line.turn))

Breaks ==
    /\ main' = "idle" /\ UNCHANGED completed
    /\ events' = Plus(Plus(events, IF stage = "tool" THEN "close" ELSE "thought"), "status")

InTurnStep ==
    /\ main = "turn" /\ UNCHANGED <<line, actions>>
    /\ Speaks \/ Calls \/ Hears \/ AnswersDone \/ Breaks

LEMMA Joined ==
    ASSUME NEW S, NEW s \in Seq(S), NEW a \in S, NEW b \in S
    PROVE  s \o <<a>> = Append(s, a) /\ s \o <<a, b>> = Append(Append(s, a), b)
  OBVIOUS

LEMMA Emitted ==
    ASSUME TTyped, render # "gone", NEW a \in Events, NEW b \in Events
    PROVE  /\ Emit(<<a>>) => events' = Append(events, a)
           /\ Emit(<<a, b>>) => events' = Append(Append(events, a), b)
<1>1. events \in Seq(Events)
  BY DEF TTyped
<1> QED
  BY <1>1, Joined DEF Emit

LEMMA MainEffect ==
    ASSUME TTyped, Between \/ Turning \/ Borrows
    PROVE  /\ UNCHANGED <<transcript, headed, reply, ahead>>
           /\ \/ render' = "gone"
              \/ /\ render # "gone" /\ UNCHANGED render
                 /\ Aside \/ Opens \/ InTurnStep
<1>1. UNCHANGED <<transcript, headed, reply, ahead>>
  BY DEF Between, Turning, Borrows, Quit, OpenTurn, Shell, Command, NoMoreLines, Close, Token,
         CallTool, ToolReturns, TurnDone, TurnFails, Cancelled, AckReceived, AckLost,
         AskApproval, Approved, CaptureDone, EditDone, CommandQuits, Reenter, ReenterFails,
         TurnOnly, Borrower, Mains, view
<1>2. UNCHANGED render \/ render' = "gone"
  BY DEF Between, Turning, Borrows, Quit, OpenTurn, Shell, Command, NoMoreLines, Close, Token,
         CallTool, ToolReturns, TurnDone, TurnFails, Cancelled, AckReceived, AckLost,
         AskApproval, Approved, CaptureDone, EditDone, CommandQuits, Reenter, ReenterFails,
         TurnOnly, Borrower, Mains, RenderEnds
<1> SUFFICES ASSUME render # "gone", render' # "gone"
             PROVE  Aside \/ Opens \/ InTurnStep
  BY <1>1, <1>2
<1>3. line.turn \in Turns
  BY DEF TTyped, Lines, Turns
<1>4. \A kind \in EventKinds : Row(kind, 0) \in Events /\ Row(kind, line.turn) \in Events
  BY <1>3, EventsAre
<1> USE DEF EventKinds, Plus, Ev
<1>5. ASSUME OpenTurn PROVE Opens
  <2>1. events' = Append(events, Row("thinking", 0))
    BY <1>4, <1>5, Emitted DEF OpenTurn
  <2> QED
    BY <1>5, <2>1 DEF OpenTurn, TakeLine, Opens
<1>6. ASSUME Shell \/ CaptureDone PROVE Aside
  <2>1. events' = Append(Append(events, Row("open", 0)), Row("close", 0))
    BY <1>4, <1>6, Emitted DEF Shell, CaptureDone
  <2> QED
    BY <1>6, <2>1 DEF Shell, CaptureDone, TakeLine, Borrower, Aside
<1>7. ASSUME Quit \/ Command \/ NoMoreLines PROVE Aside
  BY <1>7 DEF Quit, Command, NoMoreLines, TakeLine, channels, Aside
<1>8. ASSUME \/ AckReceived \/ AckLost \/ AskApproval \/ Approved
             \/ EditDone \/ CommandQuits \/ Reenter \/ ReenterFails
      PROVE  Aside
  BY <1>8 DEF AckReceived, AckLost, AskApproval, Approved, EditDone, CommandQuits, Reenter,
              ReenterFails, Borrower, Aside
<1>9. ~Close
  BY DEF Close, RenderEnds
<1> USE DEF InTurnStep, TurnOnly, InTurn, Goes, EndTurn
<1>10. ASSUME Token PROVE InTurnStep
  <2>1. events' = Append(events, Row("token", line.turn))
    BY <1>4, <1>10, Emitted DEF Token
  <2> QED
    BY <1>10, <2>1 DEF Token, Speaks
<1>11. ASSUME CallTool PROVE InTurnStep
  <2>1. events' = Append(Append(events, Row("thought", 0)), Row("open", 0))
    BY <1>4, <1>11, Emitted DEF CallTool
  <2> QED
    BY <1>11, <2>1 DEF CallTool, Calls
<1>12. ASSUME ToolReturns PROVE InTurnStep
  <2>1. events' = Append(Append(events, Row("close", 0)), Row("thinking", 0))
    BY <1>4, <1>12, Emitted DEF ToolReturns
  <2> QED
    BY <1>12, <2>1 DEF ToolReturns, Hears
<1>13. ASSUME TurnDone PROVE InTurnStep
  <2>1. CASE stage = "told"
    <3>1. events' = Append(events, Row("thought", 0))
      BY <2>1, <1>4, <1>13, Emitted DEF TurnDone
    <3> QED
      BY <2>1, <3>1, <1>13 DEF TurnDone, AnswersDone
  <2>2. CASE stage # "told"
    <3>1. events' = Append(Append(events, Row("thought", 0)), Row("final", line.turn))
      BY <2>2, <1>4, <1>13, Emitted DEF TurnDone
    <3> QED
      BY <2>2, <3>1, <1>13 DEF TurnDone, AnswersDone
  <2> QED
    BY <2>1, <2>2
<1>14. ASSUME TurnFails PROVE InTurnStep
  <2>1. events' = Append(Append(events, Row("thought", 0)), Row("status", 0))
    BY <1>4, <1>14, Emitted DEF TurnFails
  <2> QED
    BY <1>14, <2>1 DEF TurnFails, Breaks
<1>15. ASSUME Cancelled PROVE InTurnStep
  <2>1. CASE stage = "tool"
    <3>1. events' = Append(Append(events, Row("close", 0)), Row("status", 0))
      BY <2>1, <1>4, <1>15, Emitted DEF Cancelled
    <3> QED
      BY <2>1, <3>1, <1>15 DEF Cancelled, Breaks
  <2>2. CASE stage # "tool"
    <3>1. events' = Append(Append(events, Row("thought", 0)), Row("status", 0))
      BY <2>2, <1>4, <1>15, Emitted DEF Cancelled
    <3> QED
      BY <2>2, <3>1, <1>15 DEF Cancelled, Breaks
  <2> QED
    BY <2>1, <2>2
<1> QED
  BY <1>5, <1>6, <1>7, <1>8, <1>9, <1>10, <1>11, <1>12, <1>13, <1>14, <1>15
  DEF Between, Turning, Borrows

\* Parking, resuming and Ctrl-C show nothing.
Silent == UNCHANGED <<transcript, headed, reply, events, completed, main, line, stage, actions,
                      ahead>>

LEMMA RenderEffect ==
    ASSUME RenderSide
    PROVE  \/ render' = "gone"
           \/ render # "gone" /\ Silent
           \/ Draw
           \/ \E kind \in Kinds : Submit(kind)
<1> USE DEF Left, view, session, channels, Silent
<1>1. ASSUME Park \/ Unpark \/ CtrlC PROVE render # "gone" /\ Silent
  BY <1>1 DEF Park, Unpark, CtrlC
<1>2. ASSUME Released \/ CtrlD \/ RenderDies PROVE render' = "gone"
  BY <1>2 DEF Released, CtrlD, RenderDies, RenderEnds
<1> QED
  BY <1>1, <1>2 DEF RenderSide

-----------------------------------------------------------------------------
\* Counting rows

LEMMA CountNat ==
    ASSUME NEW s, Len(s) \in Nat, NEW kind
    PROVE  IsFiniteSet({i \in 1..Len(s) : s[i].kind = kind}) /\ CountIn(s, kind) \in Nat
<1>1. IsFiniteSet(1..Len(s))
  BY FS_Interval
<1>2. {i \in 1..Len(s) : s[i].kind = kind} \in SUBSET (1..Len(s))
  OBVIOUS
<1>3. IsFiniteSet({i \in 1..Len(s) : s[i].kind = kind})
  BY <1>1, <1>2, FS_Subset
<1> QED
  BY <1>3, FS_CardinalityType DEF CountIn

LEMMA CountType ==
    ASSUME NEW S, NEW s \in Seq(S), NEW kind
    PROVE  CountIn(s, kind) \in Nat
<1>1. Len(s) \in Nat
  OBVIOUS
<1> QED
  BY <1>1, CountNat

LEMMA CountAppend ==
    ASSUME NEW S, NEW s \in Seq(S), NEW e \in S, NEW kind
    PROVE  CountIn(Append(s, e), kind) = CountIn(s, kind) + (IF e.kind = kind THEN 1 ELSE 0)
<1> DEFINE n == Len(s)
           t == Append(s, e)
           L == {i \in 1..n : s[i].kind = kind}
<1>1. n \in Nat /\ Len(t) = n + 1 /\ t[n + 1] = e /\ \A i \in 1..n : t[i] = s[i]
  OBVIOUS
<1>2. IsFiniteSet(L) /\ Cardinality(L) \in Nat
  BY <1>1, CountNat DEF CountIn
<1> HIDE DEF n, t
<1>3. CASE e.kind = kind
  <2>1. {i \in 1..Len(t) : t[i].kind = kind} = L \cup {n + 1}
    BY <1>1, <1>3
  <2>2. n + 1 \notin L
    BY <1>1
  <2>3. Cardinality(L \cup {n + 1}) = Cardinality(L) + 1
    BY <1>2, <2>2, FS_AddElement
  <2> QED
    BY <1>3, <2>1, <2>3 DEF CountIn, t, n
<1>4. CASE e.kind # kind
  <2>1. {i \in 1..Len(t) : t[i].kind = kind} = L
    BY <1>1, <1>4
  <2>2. CountIn(Append(s, e), kind) = Cardinality(L) /\ CountIn(s, kind) = Cardinality(L)
    BY <2>1 DEF CountIn, t, n
  <2> QED
    BY <1>2, <1>4, <2>2
<1> QED
  BY <1>3, <1>4

LEMMA CountTail ==
    ASSUME NEW S, NEW s \in Seq(S), s # <<>>, NEW kind
    PROVE  CountIn(s, kind) = CountIn(Tail(s), kind) + (IF Head(s).kind = kind THEN 1 ELSE 0)
<1> DEFINE n == Len(s)
           t == Tail(s)
           L == {i \in 2..n : s[i].kind = kind}
           M == {i \in 1..Len(t) : t[i].kind = kind}
           f == [i \in M |-> i + 1]
<1>1. n \in Nat \ {0} /\ Len(t) = n - 1 /\ Head(s) = s[1]
  OBVIOUS
<1>2. \A i \in 1..Len(t) : t[i] = s[i + 1]
  OBVIOUS
<1> HIDE DEF n, t
<1>3. IsFiniteSet(M) /\ Cardinality(M) \in Nat
  <2>1. Len(t) \in Nat
    BY <1>1
  <2> QED
    BY <2>1, CountNat DEF CountIn
<1>4. f \in [M -> L]
  BY <1>1, <1>2
<1>5. \A x, y \in M : f[x] = f[y] => x = y
  BY <1>1
<1>6. ASSUME NEW y \in L PROVE \E x \in M : f[x] = y
  <2>1. y - 1 \in 1..Len(t) /\ (y - 1) + 1 = y
    BY <1>1
  <2>2. y - 1 \in M
    BY <2>1, <1>2
  <2> QED
    BY <2>1, <2>2
<1> HIDE DEF L, M, f
<1>7. f \in Bijection(M, L)
  BY <1>4, <1>5, <1>6 DEF Bijection, Injection, Surjection, IsInjective
<1>8. IsFiniteSet(L) /\ Cardinality(L) = Cardinality(M)
  BY <1>3, <1>7, FS_Bijection DEF ExistsBijection
<1>9. CASE Head(s).kind = kind
  <2>1. {i \in 1..n : s[i].kind = kind} = L \cup {1}
    BY <1>1, <1>9 DEF L
  <2>2. 1 \notin L
    BY DEF L
  <2>3. Cardinality(L \cup {1}) = Cardinality(L) + 1
    BY <1>8, <2>2, FS_AddElement
  <2> QED
    BY <1>8, <1>9, <2>1, <2>3 DEF CountIn, M, n, t
<1>10. CASE Head(s).kind # kind
  <2>1. {i \in 1..n : s[i].kind = kind} = L
    BY <1>1, <1>10 DEF L
  <2>2. CountIn(s, kind) = Cardinality(L) /\ CountIn(Tail(s), kind) = Cardinality(M)
    BY <2>1 DEF CountIn, M, n, t
  <2> QED
    BY <1>3, <1>8, <1>10, <2>2
<1> QED
  BY <1>9, <1>10

-----------------------------------------------------------------------------
\* Drawing an event

LEMMA DrawEffect ==
    ASSUME TTyped, Draw
    PROVE  /\ render # "gone" /\ UNCHANGED <<render, main, line, stage, actions, completed, ahead>>
           /\ events # <<>> /\ events' = Tail(events)
           /\ Head(events) \in Events /\ Shows(Head(events))
  BY DEF Draw, TTyped, session

\* The rows an event adds, and what becomes of the header and of the text.
LEMMA ShowsRows ==
    ASSUME TTyped, NEW ev \in Events, Shows(ev)
    PROVE  LET cubi == Row("cubi", 0)
               topped == IF headed THEN transcript ELSE Append(transcript, cubi)
           IN
           \/ /\ ev.kind \in {"thinking", "token"} /\ transcript' = topped /\ headed' = TRUE
              /\ reply' = IF ev.kind = "token" THEN ev.turn ELSE 0
           \/ /\ ev.kind = "final" /\ headed' = TRUE /\ reply' = 0
              /\ transcript' = Append(topped, Row("reply", ev.turn))
           \/ /\ ev.kind = "thought" /\ headed' = headed /\ reply' = 0
              /\ transcript' = IF reply = 0 THEN transcript
                               ELSE Append(transcript, Row("reply", reply))
           \/ /\ ev.kind \in {"open", "close", "status"} /\ headed' = headed /\ reply' = reply
              /\ transcript' = Append(transcript, ev)
<1>1. ev.kind \in EventKinds
  BY DEF Events
<1>2. CASE ev.kind \in {"thinking", "token"}
  BY <1>2 DEF Shows, Headed
<1>3. CASE ev.kind = "final"
  BY <1>3 DEF Shows, Headed
<1>4. CASE ev.kind = "thought"
  BY <1>4 DEF Shows
<1>5. CASE ev.kind \in {"open", "close", "status"}
  BY <1>5 DEF Shows
<1> QED
  BY <1>1, <1>2, <1>3, <1>4, <1>5 DEF EventKinds

LEMMA DrawCounts ==
    ASSUME TTyped, Draw, NEW k \in {"open", "close"}
    PROVE  CountIn(transcript', k) + CountIn(events', k)
             = CountIn(transcript, k) + CountIn(events, k)
<1> DEFINE ev == Head(events)
           w == IF ev.kind = k THEN 1 ELSE 0
<1>1. ev \in Events /\ Shows(ev) /\ events # <<>> /\ events' = Tail(events)
  BY DrawEffect
<1>2. events \in Seq(Events) /\ transcript \in Seq(Rows) /\ ev \in Rows
      /\ reply \in Turns /\ ev.turn \in Turns
  BY <1>1 DEF TTyped, Events, Rows
<1>3. CountIn(events, k) = CountIn(events', k) + w
  BY <1>1, <1>2, CountTail
<1>4. CountIn(events', k) \in Nat /\ CountIn(transcript, k) \in Nat
  <2>1. events' \in Seq(Events)
    BY <1>1, <1>2
  <2> QED
    BY <2>1, <1>2, CountType
<1> HIDE DEF ev
<1> DEFINE cubi == Row("cubi", 0)
           topped == IF headed THEN transcript ELSE Append(transcript, cubi)
           said(t) == Row("reply", t)
<1>5. cubi \in Rows /\ cubi.kind = "cubi"
      /\ \A t \in Turns : said(t) \in Rows /\ said(t).kind = "reply"
  BY EventsAre DEF Row
<1>6. topped \in Seq(Rows) /\ CountIn(topped, k) = CountIn(transcript, k)
  <2>1. CASE headed
    BY <2>1, <1>2
  <2>2. CASE ~headed
    <3>1. CountIn(Append(transcript, cubi), k) =
             CountIn(transcript, k) + (IF cubi.kind = k THEN 1 ELSE 0)
      BY <1>2, <1>5, CountAppend
    <3>2. topped = Append(transcript, cubi)
      BY <2>2
    <3> HIDE DEF cubi, topped
    <3> QED
      BY <1>2, <1>4, <1>5, <3>1, <3>2
  <2> QED
    BY <2>1, <2>2
<1> HIDE DEF cubi, topped, said
<1>7. CountIn(transcript', k) = CountIn(transcript, k) + w
  <2>1. CASE ev.kind \in {"thinking", "token"} /\ transcript' = topped
    BY <2>1, <1>4, <1>6
  <2>2. CASE ev.kind = "final" /\ transcript' = Append(topped, said(ev.turn))
    <3>1. CountIn(transcript', k) = CountIn(topped, k) + (IF said(ev.turn).kind = k THEN 1 ELSE 0)
      BY <2>2, <1>2, <1>5, <1>6, CountAppend
    <3> QED
      BY <2>2, <3>1, <1>2, <1>4, <1>5, <1>6
  <2>3. CASE ev.kind = "thought" /\ transcript' = Append(transcript, said(reply))
    <3>1. CountIn(transcript', k) = CountIn(transcript, k) + (IF said(reply).kind = k THEN 1 ELSE 0)
      BY <2>3, <1>2, <1>5, CountAppend
    <3> QED
      BY <2>3, <3>1, <1>2, <1>4, <1>5
  <2>4. CASE ev.kind = "thought" /\ transcript' = transcript
    BY <2>4, <1>4
  <2>5. CASE transcript' = Append(transcript, ev)
    BY <2>5, <1>2, CountAppend
  <2> QED
    BY <1>1, <2>1, <2>2, <2>3, <2>4, <2>5, ShowsRows DEF topped, cubi, said
<1>8. w \in Nat
  OBVIOUS
<1> HIDE DEF w
<1> QED
  BY <1>3, <1>4, <1>7, <1>8

LEMMA Plain ==
    ASSUME TTyped
    PROVE  /\ events \in Seq(Events) /\ transcript \in Seq(Rows)
           /\ line.turn \in Turns
           /\ \A kind \in EventKinds : Row(kind, 0) \in Events /\ Row(kind, 0).kind = kind
           /\ \A kind \in EventKinds :
                 Row(kind, line.turn) \in Events /\ Row(kind, line.turn).kind = kind
<1>1. line.turn \in Turns
  BY DEF TTyped, Lines, Turns
<1> QED
  BY <1>1, EventsAre DEF TTyped, Row

LEMMA OneRow ==
    ASSUME TTyped, NEW a \in EventKinds, NEW t \in {0, line.turn}, NEW k
    PROVE  CountIn(Append(events, Row(a, t)), k) = CountIn(events, k) + (IF a = k THEN 1 ELSE 0)
<1>1. Row(a, t) \in Events /\ Row(a, t).kind = a /\ events \in Seq(Events)
  BY Plain
<1> QED
  BY <1>1, CountAppend

LEMMA TwoRows ==
    ASSUME TTyped, NEW a \in EventKinds, NEW b \in EventKinds, NEW t \in {0, line.turn}, NEW k
    PROVE  CountIn(Append(Plus(events, a), Row(b, t)), k) =
             CountIn(events, k) + (IF a = k THEN 1 ELSE 0) + (IF b = k THEN 1 ELSE 0)
<1>1. Row(b, t) \in Events /\ Row(b, t).kind = b /\ Row(a, 0) \in Events
      /\ events \in Seq(Events)
  BY Plain
<1>2. Plus(events, a) \in Seq(Events)
  BY <1>1 DEF Plus
<1>3. CountIn(Append(Plus(events, a), Row(b, t)), k)
        = CountIn(Plus(events, a), k) + (IF b = k THEN 1 ELSE 0)
  BY <1>1, <1>2, CountAppend
<1>4. CountIn(Plus(events, a), k) = CountIn(events, k) + (IF a = k THEN 1 ELSE 0)
  BY OneRow DEF Plus
<1> QED
  BY <1>3, <1>4

LEMMA BlocksStep ==
    ASSUME TTyped, Blocks, [Next]_vars
    PROVE  Blocks'
<1> DEFINE w == IF main = "turn" /\ stage = "tool" THEN 1 ELSE 0
<1>1. CASE render' = "gone"
  BY <1>1 DEF Blocks
<1>2. ASSUME render # "gone", render' # "gone", Between \/ Turning \/ Borrows PROVE Blocks'
  <2>1. UNCHANGED transcript /\ (Aside \/ Opens \/ InTurnStep)
    BY <1>2, MainEffect
  <2>2. CountIn(transcript, "open") + CountIn(events, "open") =
            CountIn(transcript, "close") + CountIn(events, "close") + w
    BY <1>2 DEF Blocks
  <2>3. /\ CountIn(transcript, "open") \in Nat /\ CountIn(events, "open") \in Nat
        /\ CountIn(transcript, "close") \in Nat /\ CountIn(events, "close") \in Nat
    BY CountType, Plain
  <2> DEFINE Sums(x, y) ==
         /\ CountIn(events', "open") = CountIn(events, "open") + x
         /\ CountIn(events', "close") = CountIn(events, "close") + y
  <2>a. \A a, b \in EventKinds : \A k :
           CountIn(Plus(Plus(events, a), b), k) =
              CountIn(events, k) + (IF a = k THEN 1 ELSE 0) + (IF b = k THEN 1 ELSE 0)
    <3> TAKE a, b \in EventKinds
    <3> TAKE k
    <3>1. Plus(Plus(events, a), b) = Append(Plus(events, a), Row(b, 0))
      BY DEF Plus
    <3> QED
      BY <3>1, TwoRows
  <2>b. \A a \in EventKinds : \A t \in {0, line.turn} : \A k :
           CountIn(Append(events, Row(a, t)), k) = CountIn(events, k) + (IF a = k THEN 1 ELSE 0)
    BY OneRow
  <2>c. \A k : CountIn(Append(Plus(events, "thought"), Row("final", line.turn)), k) =
              CountIn(events, k) + (IF "thought" = k THEN 1 ELSE 0) + (IF "final" = k THEN 1 ELSE 0)
    BY TwoRows DEF EventKinds
  <2> USE DEF EventKinds
  <2>4. CASE Aside
    <3>1. Sums(0, 0) \/ Sums(1, 1)
      BY <2>3, <2>4, <2>a DEF Aside
    <3> QED
      BY <2>1, <2>2, <2>3, <2>4, <3>1 DEF Aside, Blocks
  <2>5. CASE Opens
    <3>1. Sums(0, 0)
      BY <2>3, <2>5, <2>b DEF Opens, Plus
    <3> QED
      BY <2>1, <2>2, <2>3, <2>5, <3>1 DEF Opens, Blocks
  <2>6. CASE InTurnStep /\ Speaks
    <3>1. Sums(0, 0)
      BY <2>3, <2>6, <2>b DEF Speaks
    <3> QED
      BY <2>1, <2>2, <2>3, <2>6, <3>1 DEF InTurnStep, Speaks, Blocks
  <2>7. CASE InTurnStep /\ Calls
    <3>1. Sums(1, 0)
      BY <2>3, <2>7, <2>a DEF Calls
    <3> QED
      BY <2>1, <2>2, <2>3, <2>7, <3>1 DEF InTurnStep, Calls, Blocks
  <2>8. CASE InTurnStep /\ Hears
    <3>1. Sums(0, 1)
      BY <2>3, <2>8, <2>a DEF Hears
    <3> QED
      BY <2>1, <2>2, <2>3, <2>8, <3>1 DEF InTurnStep, Hears, Blocks
  <2>9. CASE InTurnStep /\ AnswersDone
    <3>1. Sums(0, 0)
      BY <2>3, <2>9, <2>b, <2>c DEF AnswersDone, Plus
    <3> QED
      BY <2>1, <2>2, <2>3, <2>9, <3>1 DEF InTurnStep, AnswersDone, Blocks
  <2>10. CASE InTurnStep /\ Breaks
    <3>1. CASE stage = "tool"
      <4>1. Sums(0, 1)
        BY <2>3, <2>10, <3>1, <2>a DEF Breaks
      <4> QED
        BY <2>1, <2>2, <2>3, <2>10, <3>1, <4>1 DEF InTurnStep, Breaks, Blocks
    <3>2. CASE stage # "tool"
      <4>1. Sums(0, 0)
        BY <2>3, <2>10, <3>2, <2>a DEF Breaks
      <4> QED
        BY <2>1, <2>2, <2>3, <2>10, <3>2, <4>1 DEF InTurnStep, Breaks, Blocks
    <3> QED
      BY <3>1, <3>2
  <2> QED
    BY <2>1, <2>4, <2>5, <2>6, <2>7, <2>8, <2>9, <2>10 DEF InTurnStep
<1>3. CASE Draw
  <2>1. /\ CountIn(transcript', "open") + CountIn(events', "open")
             = CountIn(transcript, "open") + CountIn(events, "open")
        /\ CountIn(transcript', "close") + CountIn(events', "close")
             = CountIn(transcript, "close") + CountIn(events, "close")
    BY <1>3, DrawCounts
  <2>2. render # "gone" /\ UNCHANGED <<main, stage>>
    BY <1>3, DrawEffect
  <2> QED
    BY <2>1, <2>2 DEF Blocks
<1>4. ASSUME NEW kind \in Kinds, Submit(kind) PROVE Blocks'
  <2>1. render # "gone" /\ UNCHANGED <<main, stage, events>>
    BY <1>4 DEF Submit, session
  <2>2. /\ CountIn(transcript', "open") = CountIn(transcript, "open")
        /\ CountIn(transcript', "close") = CountIn(transcript, "close")
    <3>1. CASE kind # "prompt"
      BY <1>4, <3>1 DEF Submit, view
    <3>2. CASE kind = "prompt"
      <4>1. transcript' = Append(transcript, Row("you", typed + 1)) /\ typed + 1 \in Turns
        BY <1>4, <3>2, Bounds DEF Submit, YouSay, TTyped, Turns
      <4>2. Row("you", typed + 1) \in Rows /\ Row("you", typed + 1).kind = "you"
        BY <4>1, EventsAre DEF Row
      <4> QED
        BY <4>1, <4>2, Plain, CountAppend, CountType
    <3> QED
      BY <3>1, <3>2
  <2> QED
    BY <2>1, <2>2 DEF Blocks
<1>5. CASE render # "gone" /\ Silent
  BY <1>5 DEF Silent, Blocks
<1>6. CASE UNCHANGED vars
  BY <1>6 DEF vars, session, channels, view, Blocks
<1> QED
  BY <1>1, <1>2, <1>3, <1>4, <1>5, <1>6, Kinds4, RenderEffect, MainEffect

-----------------------------------------------------------------------------
\* The numbers of the turns

LEMMA NumberedStep ==
    ASSUME TTyped, Numbered, [Next]_vars
    PROVE  Numbered'
<1> DEFINE Takes == TakeLine /\ UNCHANGED completed /\ (main' = "turn" => line'.kind = "prompt")
           Stays == /\ UNCHANGED <<line, actions>>
                    /\ main' = "turn" => main = "turn"
                    /\ UNCHANGED completed \/ (main = "turn" /\ completed' = completed \cup {line.turn})
           Adds == \E x \in Lines :
                     /\ actions' = Append(actions, x) /\ UNCHANGED <<line, main, completed>>
                     /\ x.kind = "prompt" => x.turn # 0
<1>1. Takes \/ Stays \/ Adds
  <2>1. ASSUME RenderSide PROVE Stays \/ Adds
    <3>1. ASSUME NEW kind \in Kinds, Submit(kind) PROVE Adds
      <4> DEFINE x == [kind |-> kind, turn |-> IF kind = "prompt" THEN typed + 1 ELSE 0]
      <4>1. x \in Lines /\ (x.kind = "prompt" => x.turn # 0)
        BY <3>1, Bounds DEF Submit, TTyped, Turns, Lines
      <4>2. actions' = Append(actions, x) /\ UNCHANGED <<line, main, completed>>
        BY <3>1 DEF Submit, session
      <4> QED
        BY <4>1, <4>2
    <3>2. ASSUME CtrlD PROVE Adds
      <4>1. NoLine \in Lines /\ NoLine.kind # "prompt"
        BY Bounds DEF NoLine, Lines
      <4>2. actions' = Append(actions, NoLine) /\ UNCHANGED <<line, main, completed>>
        BY <3>2 DEF CtrlD, Left, session
      <4> QED
        BY <4>1, <4>2
    <3>3. ASSUME Draw \/ Park \/ Unpark \/ Released \/ CtrlC \/ RenderDies PROVE Stays
      BY <3>3 DEF Draw, Park, Unpark, Released, CtrlC, RenderDies, Left, session, channels
    <3> QED
      BY <2>1, <3>1, <3>2, <3>3 DEF RenderSide
  <2>2. ASSUME Between PROVE Takes \/ Stays
    BY <2>2 DEF Between, Quit, OpenTurn, Shell, Command, NoMoreLines, Close, TakeLine, channels
  <2>3. ASSUME Turning PROVE Stays
    BY <2>3 DEF Turning, Token, CallTool, ToolReturns, TurnDone, TurnFails, Cancelled, InTurn,
                Goes, EndTurn, TurnOnly
  <2>4. ASSUME Borrows PROVE Stays
    BY <2>4 DEF Borrows, AckReceived, AckLost, AskApproval, Approved, CaptureDone, EditDone,
                CommandQuits, Reenter, ReenterFails, Borrower
  <2>5. ASSUME UNCHANGED vars PROVE Stays
    BY <2>5 DEF vars, session, channels
  <2> QED
    BY <2>1, <2>2, <2>3, <2>4, <2>5, Kinds4
<1>2. actions \in Seq(Lines) /\ line.turn \in Turns
  BY DEF TTyped, Lines, Turns
<1>3. CASE Takes
  <2>1. /\ actions # <<>> /\ line' = Head(actions) /\ actions' = Tail(actions)
        /\ completed' = completed /\ (main' = "turn" => line'.kind = "prompt")
    BY <1>3 DEF TakeLine
  <2>2. Head(actions) = actions[1] /\ Len(actions) \in Nat \ {0} /\ 1 \in 1..Len(actions)
    BY <1>2, <2>1
  <2>3. \A k \in 1..Len(actions') : actions'[k] = actions[k + 1] /\ k + 1 \in 1..Len(actions)
    BY <1>2, <2>1
  <2> QED
    BY <2>1, <2>2, <2>3 DEF Numbered
<1>4. CASE Stays
  <2>1. completed' \subseteq 1..MaxLines
    <3>1. main = "turn" => line.turn \in 1..MaxLines
      BY <1>2, Bounds DEF Numbered, Turns
    <3>2. completed' = completed \/ (main = "turn" /\ completed' = completed \cup {line.turn})
      BY <1>4
    <3>3. completed \subseteq 1..MaxLines
      BY DEF Numbered
    <3> QED
      BY ONLY <3>1, <3>2, <3>3
  <2>2. /\ UNCHANGED <<line, actions>>
        /\ main' = "turn" => main = "turn"
    BY <1>4
  <2> QED
    BY <2>1, <2>2 DEF Numbered
<1>5. CASE Adds
  <2>1. PICK x \in Lines :
          /\ actions' = Append(actions, x) /\ UNCHANGED <<line, main, completed>>
          /\ x.kind = "prompt" => x.turn # 0
    BY <1>5
  <2>2. \A k \in 1..Len(actions') :
           actions'[k] = x \/ (k \in 1..Len(actions) /\ actions'[k] = actions[k])
    BY <1>2, <2>1
  <2> QED
    BY <2>1, <2>2 DEF Numbered
<1> QED
  BY <1>1, <1>3, <1>4, <1>5

-----------------------------------------------------------------------------
\* The text that is shown and not ended

Ends(e, r) ==
    /\ r # 0 => \E n \in 1..Len(e) : e[n].kind \in Resets
    /\ \A m \in 1..Len(e) : e[m].kind = "token" =>
           \E n \in (m + 1)..Len(e) : e[n].kind \in Resets

LEMMA EndsAtLast ==
    ASSUME NEW e \in Seq(Events), NEW x \in Events, x.kind \in Resets, NEW r
    PROVE  Ends(Append(e, x), r)
<1> DEFINE n == Len(e) + 1
           f == Append(e, x)
<1>1. n \in Nat \ {0} /\ Len(f) = n /\ f[n] = x
  OBVIOUS
<1>2. x.kind # "token"
  BY DEF Resets
<1> HIDE DEF n, f
<1>3. \A m \in 1..Len(f) : f[m].kind = "token" => n \in (m + 1)..Len(f)
  BY <1>1, <1>2
<1>4. n \in 1..Len(f)
  BY <1>1
<1> QED
  BY <1>1, <1>3, <1>4 DEF Ends, f

LEMMA EndsStill ==
    ASSUME NEW e \in Seq(Events), NEW x \in Events, x.kind # "token", NEW r, Ends(e, r)
    PROVE  Ends(Append(e, x), r)
<1> DEFINE f == Append(e, x)
<1>1. Len(e) \in Nat /\ Len(f) = Len(e) + 1 /\ f[Len(e) + 1] = x /\ \A i \in 1..Len(e) : f[i] = e[i]
  OBVIOUS
<1> HIDE DEF f
<1>2. r # 0 => \E n \in 1..Len(f) : f[n].kind \in Resets
  <2>1. SUFFICES ASSUME r # 0 PROVE \E n \in 1..Len(f) : f[n].kind \in Resets
    OBVIOUS
  <2>2. PICK n \in 1..Len(e) : e[n].kind \in Resets
    BY <2>1 DEF Ends
  <2>3. n \in 1..Len(f) /\ f[n].kind \in Resets
    BY <1>1, <2>2
  <2> QED
    BY <2>3
<1>3. ASSUME NEW m \in 1..Len(f), f[m].kind = "token"
      PROVE  \E n \in (m + 1)..Len(f) : f[n].kind \in Resets
  <2>1. m \in 1..Len(e) /\ e[m].kind = "token"
    BY <1>1, <1>3
  <2>2. PICK n \in (m + 1)..Len(e) : e[n].kind \in Resets
    BY <2>1 DEF Ends
  <2>3. n \in (m + 1)..Len(f) /\ f[n].kind \in Resets
    BY <1>1, <2>1, <2>2
  <2> QED
    BY <2>3
<1> QED
  BY <1>2, <1>3 DEF Ends, f

\* Drawing the first event leaves the text to an event that is still to come.
LEMMA EndsNext ==
    ASSUME NEW e \in Seq(Events), e # <<>>, NEW r, NEW q, Ends(e, r),
           Head(e).kind \in Resets => q = 0,
           Head(e).kind \notin Resets \cup {"token"} => q = r
    PROVE  Ends(Tail(e), q)
<1> DEFINE f == Tail(e)
<1>1. Len(e) \in Nat \ {0} /\ Len(f) = Len(e) - 1 /\ Head(e) = e[1]
  OBVIOUS
<1>2. \A i \in 1..Len(f) : f[i] = e[i + 1] /\ i + 1 \in 1..Len(e)
  OBVIOUS
<1> HIDE DEF f
<1>3. ASSUME NEW n \in 2..Len(e), e[n].kind \in Resets
      PROVE  n - 1 \in 1..Len(f) /\ f[n - 1].kind \in Resets
  <2>1. n - 1 \in 1..Len(f) /\ (n - 1) + 1 = n
    BY <1>1
  <2> QED
    BY <1>2, <1>3, <2>1
<1>4. ASSUME q # 0 PROVE \E n \in 1..Len(f) : f[n].kind \in Resets
  <2>1. CASE Head(e).kind = "token"
    <3>1. 1 \in 1..Len(e) /\ e[1].kind = "token"
      BY <1>1, <2>1
    <3>2. PICK n \in (1 + 1)..Len(e) : e[n].kind \in Resets
      BY <3>1 DEF Ends
    <3>3. n \in 2..Len(e)
      BY <3>2
    <3> QED
      BY <1>3, <3>2, <3>3
  <2>2. CASE Head(e).kind # "token"
    <3>1. r # 0 /\ Head(e).kind \notin Resets
      BY <1>4, <2>2
    <3>2. PICK n \in 1..Len(e) : e[n].kind \in Resets
      BY <3>1 DEF Ends
    <3>3. n \in 2..Len(e)
      BY <1>1, <3>1, <3>2
    <3> QED
      BY <1>3, <3>2, <3>3
  <2> QED
    BY <2>1, <2>2
<1>5. ASSUME NEW m \in 1..Len(f), f[m].kind = "token"
      PROVE  \E n \in (m + 1)..Len(f) : f[n].kind \in Resets
  <2>1. m + 1 \in 1..Len(e) /\ e[m + 1].kind = "token"
    BY <1>2, <1>5
  <2>2. PICK n \in ((m + 1) + 1)..Len(e) : e[n].kind \in Resets
    BY <2>1 DEF Ends
  <2>3. n \in 2..Len(e) /\ n - 1 \in (m + 1)..Len(f)
    BY <1>1, <2>1, <2>2
  <2> QED
    BY <1>3, <2>2, <2>3
<1> QED
  BY <1>4, <1>5 DEF Ends, f

LEMMA QuietIs ==
    Quiet <=> (render # "gone" =>
                 IF Told THEN IF events = <<>> THEN reply = line.turn
                              ELSE events[Len(events)] = Row("token", line.turn)
                 ELSE Ends(events, reply))
  BY DEF Quiet, Ends

LEMMA TwoEnd ==
    ASSUME TTyped, NEW a \in EventKinds, NEW b \in EventKinds, NEW t \in {0, line.turn},
           b \in Resets \/ (b # "token" /\ (a \in Resets \/ (a # "token" /\ Ends(events, reply))))
    PROVE  Ends(Append(Plus(events, a), Row(b, t)), reply)
<1>1. /\ Row(a, 0) \in Events /\ Row(a, 0).kind = a /\ Row(b, t) \in Events
      /\ Row(b, t).kind = b /\ events \in Seq(Events)
  BY Plain
<1>2. Plus(events, a) \in Seq(Events)
  BY <1>1 DEF Plus
<1>3. CASE b \in Resets
  BY <1>1, <1>2, <1>3, EndsAtLast
<1>4. CASE b # "token" /\ a \in Resets
  <2>1. Ends(Plus(events, a), reply)
    BY <1>1, <1>4, EndsAtLast DEF Plus
  <2> QED
    BY <1>1, <1>2, <1>4, <2>1, EndsStill
<1>5. CASE b # "token" /\ a # "token" /\ Ends(events, reply)
  <2>1. Ends(Plus(events, a), reply)
    BY <1>1, <1>5, EndsStill DEF Plus
  <2> QED
    BY <1>1, <1>2, <1>5, <2>1, EndsStill
<1> QED
  BY <1>3, <1>4, <1>5

LEMMA OneEnds ==
    ASSUME TTyped, NEW a \in Resets
    PROVE  Ends(Plus(events, a), reply)
<1>1. /\ Row(a, 0) \in Events /\ Row(a, 0).kind = a /\ events \in Seq(Events)
  BY Plain DEF Resets, EventKinds
<1> QED
  BY <1>1, EndsAtLast DEF Plus

LEMMA QuietStep ==
    ASSUME TTyped, Quiet, [Next]_vars
    PROVE  Quiet'
<1> USE DEF EventKinds, Resets
<1>1. CASE render' = "gone"
  BY <1>1 DEF Quiet
<1>2. ASSUME render # "gone", render' # "gone", Between \/ Turning \/ Borrows PROVE Quiet'
  <2>1. UNCHANGED reply /\ (Aside \/ Opens \/ InTurnStep)
    BY <1>2, MainEffect
  <2>2. IF Told THEN IF events = <<>> THEN reply = line.turn
                     ELSE events[Len(events)] = Row("token", line.turn)
        ELSE Ends(events, reply)
    BY <1>2, QuietIs
  <2>3. (~Told' /\ Ends(events', reply)) => Quiet'
    BY <2>1 DEF Quiet, Ends
  <2>4. CASE Aside
    <3>1. ~Told /\ ~Told'
      BY <2>4 DEF Aside, Told
    <3>2. Ends(Plus(Plus(events, "open"), "close"), reply)
      <4>1. Ends(Append(Plus(events, "open"), Row("close", 0)), reply)
        BY <2>2, <3>1, TwoEnd
      <4> QED
        BY <4>1 DEF Plus
    <3>3. events' = events \/ events' = Plus(Plus(events, "open"), "close")
      BY <2>4 DEF Aside
    <3> QED
      BY <2>2, <2>3, <3>1, <3>2, <3>3
  <2>5. CASE Opens
    <3>1. ~Told' /\ events' = Plus(events, "thinking")
      BY <2>5 DEF Opens, Told
    <3> QED
      BY <2>3, <3>1, OneEnds
  <2>6. CASE InTurnStep /\ Speaks
    <3>1. /\ main' = "turn" /\ stage' = "told" /\ line' = line
          /\ events' = Append(events, Row("token", line.turn)) /\ events \in Seq(Events)
      BY <2>6, Plain DEF InTurnStep, Speaks
    <3>2. events' # <<>> /\ events'[Len(events')] = Row("token", line.turn)
      BY <3>1
    <3> QED
      BY <3>1, <3>2 DEF Quiet, Told
  <2>7. CASE InTurnStep /\ Calls
    <3>1. ~Told' /\ events' = Append(Plus(events, "thought"), Row("open", 0))
      BY <2>7 DEF Calls, Told, Plus
    <3> QED
      BY <2>3, <3>1, TwoEnd
  <2>8. CASE InTurnStep /\ Hears
    <3>1. ~Told' /\ events' = Append(Plus(events, "close"), Row("thinking", 0))
      BY <2>8 DEF Hears, Told, Plus
    <3> QED
      BY <2>3, <3>1, TwoEnd
  <2>9. CASE InTurnStep /\ AnswersDone
    <3>1. ~Told'
      BY <2>9 DEF AnswersDone, Told
    <3>2. CASE stage = "told"
      <4>1. events' = Plus(events, "thought")
        BY <2>9, <3>2 DEF AnswersDone
      <4> QED
        BY <2>3, <3>1, <4>1, OneEnds
    <3>3. CASE stage # "told"
      <4>1. events' = Append(Plus(events, "thought"), Row("final", line.turn))
        BY <2>9, <3>3 DEF AnswersDone
      <4> QED
        BY <2>3, <3>1, <4>1, TwoEnd
    <3> QED
      BY <3>2, <3>3
  <2>10. CASE InTurnStep /\ Breaks
    <3>1. ~Told'
      BY <2>10 DEF Breaks, Told
    <3>2. CASE stage = "tool"
      <4>1. events' = Append(Plus(events, "close"), Row("status", 0))
        BY <2>10, <3>2 DEF Breaks, Plus
      <4>2. ~Told
        BY <3>2 DEF Told
      <4> QED
        BY <2>2, <2>3, <3>1, <4>1, <4>2, TwoEnd
    <3>3. CASE stage # "tool"
      <4>1. events' = Append(Plus(events, "thought"), Row("status", 0))
        BY <2>10, <3>3 DEF Breaks, Plus
      <4> QED
        BY <2>3, <3>1, <4>1, TwoEnd
    <3> QED
      BY <3>2, <3>3
  <2> QED
    BY <2>1, <2>4, <2>5, <2>6, <2>7, <2>8, <2>9, <2>10 DEF InTurnStep
<1>3. CASE Draw
  <2>1. /\ render # "gone" /\ UNCHANGED <<main, line, stage>> /\ events # <<>>
        /\ events' = Tail(events) /\ Head(events) \in Events /\ Shows(Head(events))
    BY <1>3, DrawEffect
  <2> DEFINE ev == Head(events)
  <2>2. /\ ev.kind \in {"thinking", "final", "thought"} => reply' = 0
        /\ ev.kind = "token" => reply' = ev.turn
        /\ ev.kind \in {"open", "close", "status"} => reply' = reply
    BY <2>1, ShowsRows
  <2>3. ev.kind \in EventKinds
    BY <2>1 DEF Events
  <2> HIDE DEF ev
  <2>4. CASE Told
    <3>1. events[Len(events)] = Row("token", line.turn)
      BY <2>1, <2>4, QuietIs
    <3>2. events \in Seq(Events) /\ Len(events) \in Nat \ {0} /\ Len(events') = Len(events) - 1
      BY <2>1 DEF TTyped
    <3>3. CASE Len(events) = 1
      <4>1. ev = Row("token", line.turn) /\ events' = <<>>
        BY <2>1, <3>1, <3>2, <3>3 DEF ev
      <4>2. reply' = line.turn
        BY <2>2, <4>1 DEF Row
      <4> QED
        BY <2>1, <2>4, <4>1, <4>2 DEF Quiet, Told
    <3>4. CASE Len(events) # 1
      <4>1. \A i \in 1..Len(events') : events'[i] = events[i + 1]
        BY <2>1, <3>2
      <4>2. Len(events') \in 1..Len(events') /\ Len(events') + 1 = Len(events)
        BY <3>2, <3>4
      <4>3. events' # <<>>
        BY <4>2
      <4>4. events'[Len(events')] = events[Len(events)]
        BY <4>1, <4>2
      <4> QED
        BY <2>1, <2>4, <3>1, <4>3, <4>4 DEF Quiet, Told
    <3> QED
      BY <3>3, <3>4
  <2>5. CASE ~Told
    <3>1. Ends(events, reply) /\ events \in Seq(Events)
      BY <2>1, <2>5, QuietIs DEF TTyped
    <3>2. Ends(events', reply')
      BY <2>1, <2>2, <2>3, <3>1, EndsNext DEF ev
    <3>3. ~Told'
      BY <2>1, <2>5 DEF Told
    <3> QED
      BY <2>1, <3>2, <3>3 DEF Quiet, Ends
  <2> QED
    BY <2>4, <2>5
<1>4. ASSUME NEW kind \in Kinds, Submit(kind) PROVE Quiet'
  BY <1>4 DEF Submit, YouSay, view, session, Quiet, Told
<1>5. CASE render # "gone" /\ Silent
  BY <1>5 DEF Silent, Quiet, Told
<1>6. CASE UNCHANGED vars
  BY <1>6 DEF vars, session, channels, view, Quiet, Told
<1> QED
  BY <1>1, <1>2, <1>3, <1>4, <1>5, <1>6, Kinds4, RenderEffect, MainEffect

-----------------------------------------------------------------------------
\* The rows of a turn

\* A row added to the transcript is seen by what was there before it.
LEMMA Grown ==
    ASSUME NEW s \in Seq(Rows), NEW x \in Rows
    PROVE  /\ Append(s, x) \in Seq(Rows) /\ Len(s) \in Nat
           /\ Len(Append(s, x)) = Len(s) + 1 /\ Append(s, x)[Len(s) + 1] = x
           /\ \A i \in 1..Len(s) : Append(s, x)[i] = s[i]
  OBVIOUS

LEMMA Headers ==
    ASSUME NEW s, NEW i \in Nat, NEW j \in Nat
    PROVE  LET H == {k \in i..j : s[k].kind = "cubi"}
           IN  IsFiniteSet(H) /\ Cardinality(H) \in Nat
<1>1. IsFiniteSet(i..j)
  BY FS_Interval
<1>2. {k \in i..j : s[k].kind = "cubi"} \in SUBSET (i..j)
  OBVIOUS
<1> QED
  BY <1>1, <1>2, FS_Subset, FS_CardinalityType

LEMMA AnsweredGrows ==
    ASSUME NEW s \in Seq(Rows), NEW x \in Rows, NEW t, Answered(s, t)
    PROVE  Answered(Append(s, x), t)
<1> DEFINE u == Append(s, x)
<1>1. Len(s) \in Nat /\ Len(u) = Len(s) + 1 /\ \A i \in 1..Len(s) : u[i] = s[i]
  BY Grown
<1> HIDE DEF u
<1>2. PICK i \in 1..Len(s), j \in 1..Len(s) :
        /\ i < j
        /\ s[i] = Row("you", t) /\ s[j] = Row("reply", t)
        /\ \A k \in (i + 1)..j : s[k].kind # "you"
        /\ Cardinality({k \in i..j : s[k].kind = "cubi"}) = 1
  BY DEF Answered
<1>3. i \in 1..Len(u) /\ j \in 1..Len(u) /\ u[i] = Row("you", t) /\ u[j] = Row("reply", t)
  BY <1>1, <1>2
<1>4. \A k \in i..j : u[k] = s[k]
  BY <1>1
<1>5. \A k \in (i + 1)..j : u[k].kind # "you"
  BY <1>2, <1>4
<1>6. {k \in i..j : u[k].kind = "cubi"} = {k \in i..j : s[k].kind = "cubi"}
  BY <1>4
<1>7. Answered(u, t)
  BY <1>2, <1>3, <1>5, <1>6 DEF Answered
<1> QED
  BY <1>7 DEF u

LEMMA UnderGrows ==
    ASSUME NEW s \in Seq(Rows), NEW x \in Rows, NEW h \in BOOLEAN, NEW t, Under(s, h, t),
           x.kind # "you", x.kind = "cubi" => ~h
    PROVE  Under(Append(s, x), IF x.kind = "cubi" THEN TRUE ELSE h, t)
<1> DEFINE u == Append(s, x)
           n == Len(s)
<1>1. n \in Nat /\ Len(u) = n + 1 /\ u[n + 1] = x /\ \A i \in 1..n : u[i] = s[i]
  BY Grown
<1>2. PICK i \in 1..n :
        /\ s[i] = Row("you", t)
        /\ \A k \in (i + 1)..n : s[k].kind # "you"
        /\ Cardinality({k \in i..n : s[k].kind = "cubi"}) = IF h THEN 1 ELSE 0
  BY DEF Under
<1> DEFINE H == {k \in i..n : s[k].kind = "cubi"}
<1> HIDE DEF u, n
<1>3. i \in 1..Len(u) /\ u[i] = Row("you", t)
  BY <1>1, <1>2
<1>4. \A k \in (i + 1)..Len(u) : u[k].kind # "you"
  BY <1>1, <1>2
<1>5. IsFiniteSet(H)
  <2>1. i \in Nat /\ n \in Nat
    BY <1>1
  <2> QED
    BY <2>1, Headers
<1>6. CASE x.kind = "cubi"
  <2>1. n + 1 \notin H
    BY <1>1
  <2>0. {k \in i..Len(u) : u[k].kind = "cubi"} = H \cup {n + 1}
    BY <1>1, <1>6
  <2>2. Cardinality(H) = 0
    BY <1>2, <1>6
  <2> HIDE DEF H
  <2>3. Cardinality(H \cup {n + 1}) = Cardinality(H) + 1
    BY <1>5, <2>1, FS_AddElement
  <2>4. Cardinality({k \in i..Len(u) : u[k].kind = "cubi"}) = 1
    <3>1. Cardinality(H \cup {n + 1}) = 1
      BY <2>1, <2>2, <2>3
    <3> QED
      BY ONLY <2>0, <3>1
  <2>5. Under(u, TRUE, t)
    BY <1>3, <1>4, <2>4 DEF Under
  <2> QED
    BY <1>6, <2>5 DEF u
<1>7. CASE x.kind # "cubi"
  <2>1. {k \in i..Len(u) : u[k].kind = "cubi"} = H
    BY <1>1, <1>7
  <2>2. Under(u, h, t)
    BY <1>2, <1>3, <1>4, <2>1 DEF Under
  <2> QED
    BY <1>7, <2>2 DEF u
<1> QED
  BY <1>6, <1>7

LEMMA UnderStarts ==
    ASSUME NEW s \in Seq(Rows), NEW t \in Turns
    PROVE  Under(Append(s, Row("you", t)), FALSE, t)
<1> DEFINE x == Row("you", t)
           u == Append(s, x)
           n == Len(s) + 1
<1>1. x \in Rows /\ x.kind = "you"
  BY EventsAre DEF Row
<1>2. n \in Nat \ {0} /\ Len(u) = n /\ u[n] = x
  BY <1>1, Grown
<1> HIDE DEF u, n, x
<1>3. \A k \in (n + 1)..Len(u) : u[k].kind # "you"
  BY <1>2
<1>4. {k \in n..Len(u) : u[k].kind = "cubi"} = {}
  BY <1>1, <1>2
<1>5. Cardinality({k \in n..Len(u) : u[k].kind = "cubi"}) = 0
  BY <1>4, FS_EmptySet
<1>6. n \in 1..Len(u) /\ u[n] = Row("you", t)
  BY <1>2 DEF x
<1>7. Under(u, FALSE, t)
  BY <1>3, <1>5, <1>6 DEF Under
<1> QED
  BY <1>7 DEF u, x

LEMMA UnderAnswers ==
    ASSUME NEW s \in Seq(Rows), NEW t \in Turns, Under(s, TRUE, t)
    PROVE  Answered(Append(s, Row("reply", t)), t)
<1> DEFINE x == Row("reply", t)
           u == Append(s, x)
           n == Len(s)
<1>1. x \in Rows /\ x.kind = "reply"
  BY EventsAre DEF Row
<1>2. n \in Nat /\ Len(u) = n + 1 /\ u[n + 1] = x /\ \A i \in 1..n : u[i] = s[i]
  BY <1>1, Grown
<1>3. PICK i \in 1..n :
        /\ s[i] = Row("you", t)
        /\ \A k \in (i + 1)..n : s[k].kind # "you"
        /\ Cardinality({k \in i..n : s[k].kind = "cubi"}) = 1
  BY DEF Under
<1> HIDE DEF u, n, x
<1>4. i \in 1..Len(u) /\ n + 1 \in 1..Len(u) /\ i < n + 1
      /\ u[i] = Row("you", t) /\ u[n + 1] = Row("reply", t)
  BY <1>2, <1>3 DEF x
<1>5. \A k \in (i + 1)..(n + 1) : u[k].kind # "you"
  BY <1>1, <1>2, <1>3
<1>6. {k \in i..(n + 1) : u[k].kind = "cubi"} = {k \in i..n : s[k].kind = "cubi"}
  BY <1>1, <1>2
<1>7. Answered(u, t)
  BY <1>3, <1>4, <1>5, <1>6 DEF Answered
<1> QED
  BY <1>7 DEF u, x

LEMMA PromisedGrows ==
    ASSUME NEW e \in Seq(Events), NEW x \in Events, NEW r, NEW t, Promised(r, e, t)
    PROVE  Promised(r, Append(e, x), t)
<1> DEFINE f == Append(e, x)
<1>1. Len(e) \in Nat /\ Len(f) = Len(e) + 1 /\ \A i \in 1..Len(e) : f[i] = e[i]
  OBVIOUS
<1> HIDE DEF f
<1>2. PICK m \in 1..Len(e) :
        \/ e[m] = Row("final", t)
        \/ e[m].kind = "thought" /\ IF m = 1 THEN r = t ELSE e[m - 1] = Row("token", t)
  BY DEF Promised
<1>3. m \in 1..Len(f) /\ f[m] = e[m] /\ (m # 1 => f[m - 1] = e[m - 1])
  BY <1>1
<1>4. Promised(r, f, t)
  BY <1>2, <1>3 DEF Promised
<1> QED
  BY <1>4 DEF f

\* Drawing an event leaves a turn's rows together, and shows what was promised.
LEMMA DrawTurn ==
    ASSUME TTyped, Draw, NEW t \in Turns
    PROVE  /\ Answered(transcript, t) => Answered(transcript', t)
           /\ Under(transcript, headed, t) => Under(transcript', headed', t)
           /\ /\ Under(transcript, headed, t) /\ Promised(reply, events, t)
              /\ t # 0 /\ (reply # 0 => headed)
              => \/ Answered(transcript', t)
                 \/ Under(transcript', headed', t) /\ Promised(reply', events', t)
<1> DEFINE ev == Head(events)
           cubi == Row("cubi", 0)
           topped == IF headed THEN transcript ELSE Append(transcript, cubi)
<1>1. /\ ev \in Events /\ Shows(ev) /\ events # <<>> /\ events' = Tail(events)
      /\ events \in Seq(Events) /\ transcript \in Seq(Rows) /\ headed \in BOOLEAN
      /\ reply \in Turns
  BY DrawEffect DEF TTyped
<1>2. /\ cubi \in Rows /\ cubi.kind = "cubi"
      /\ \A r \in Turns : Row("reply", r) \in Rows /\ Row("reply", r).kind = "reply"
      /\ ev \in Rows /\ ev.turn \in Turns
  BY <1>1, EventsAre DEF Row, Events, Rows
<1> HIDE DEF ev, cubi
<1>3. /\ topped \in Seq(Rows)
      /\ Answered(transcript, t) => Answered(topped, t)
      /\ Under(transcript, headed, t) => Under(topped, TRUE, t)
  <2>1. CASE headed
    <3>1. headed = TRUE
      BY <1>1, <2>1
    <3> QED
      BY <1>1, <3>1
  <2>2. CASE ~headed
    <3>1. topped = Append(transcript, cubi)
      BY <2>2
    <3>2. headed = FALSE
      BY <1>1, <2>2
    <3> HIDE DEF topped
    <3>3. topped \in Seq(Rows)
      BY <1>1, <1>2, <3>1
    <3>4. Answered(transcript, t) => Answered(topped, t)
      BY <1>1, <1>2, <3>1, AnsweredGrows
    <3>5. ASSUME Under(transcript, headed, t) PROVE Under(topped, TRUE, t)
      <4>1. Under(transcript, FALSE, t)
        BY <3>2, <3>5
      <4>2. Under(Append(transcript, cubi), IF cubi.kind = "cubi" THEN TRUE ELSE FALSE, t)
        BY <1>1, <1>2, <4>1, UnderGrows
      <4> QED
        BY <1>2, <3>1, <4>2
    <3> QED
      BY <3>3, <3>4, <3>5
  <2> QED
    BY <2>1, <2>2
<1> DEFINE A == Answered(transcript, t) => Answered(transcript', t)
           U == Under(transcript, headed, t) => Under(transcript', headed', t)
<1> HIDE DEF topped
<1>4. ASSUME NEW s \in Seq(Rows), NEW h \in BOOLEAN, NEW x \in Rows, x.kind \notin {"you", "cubi"}
      PROVE  /\ Answered(s, t) => Answered(Append(s, x), t)
             /\ Under(s, h, t) => Under(Append(s, x), h, t)
  <2>1. Answered(s, t) => Answered(Append(s, x), t)
    BY AnsweredGrows
  <2>2. ASSUME Under(s, h, t) PROVE Under(Append(s, x), h, t)
    <3>1. Under(Append(s, x), IF x.kind = "cubi" THEN TRUE ELSE h, t)
      BY <1>4, <2>2, UnderGrows
    <3> QED
      BY <1>4, <3>1
  <2> QED
    BY <2>1, <2>2
<1>5. \/ /\ ev.kind \in {"thinking", "token"} /\ transcript' = topped /\ headed' = TRUE
         /\ reply' = IF ev.kind = "token" THEN ev.turn ELSE 0
      \/ /\ ev.kind = "final" /\ headed' = TRUE /\ reply' = 0
         /\ transcript' = Append(topped, Row("reply", ev.turn))
      \/ /\ ev.kind = "thought" /\ headed' = headed /\ reply' = 0
         /\ transcript' = IF reply = 0 THEN transcript
                          ELSE Append(transcript, Row("reply", reply))
      \/ /\ ev.kind \in {"open", "close", "status"} /\ headed' = headed /\ reply' = reply
         /\ transcript' = Append(transcript, ev)
  BY <1>1, ShowsRows DEF topped, cubi
<1>6. A /\ U
  <2>1. CASE transcript' = topped /\ headed' = TRUE
    BY <1>3, <2>1
  <2>2. CASE transcript' = Append(topped, Row("reply", ev.turn)) /\ headed' = TRUE
    <3>1. /\ Answered(topped, t) => Answered(transcript', t)
          /\ Under(topped, TRUE, t) => Under(transcript', TRUE, t)
      BY <1>2, <1>3, <1>4, <2>2
    <3> QED
      BY <1>3, <2>2, <3>1
  <2>3. CASE transcript' = transcript /\ headed' = headed
    BY <2>3
  <2>4. CASE transcript' = Append(transcript, Row("reply", reply)) /\ headed' = headed
    BY <1>1, <1>2, <1>4, <2>4
  <2>5. CASE /\ ev.kind \in {"open", "close", "status"} /\ headed' = headed
             /\ transcript' = Append(transcript, ev)
    BY <1>1, <1>2, <1>4, <2>5
  <2> HIDE DEF A, U
  <2> QED
    BY <1>5, <2>1, <2>2, <2>3, <2>4, <2>5
<1>7. ASSUME Under(transcript, headed, t), Promised(reply, events, t), t # 0, reply # 0 => headed
      PROVE  \/ Answered(transcript', t)
             \/ Under(transcript', headed', t) /\ Promised(reply', events', t)
  <2>1. PICK m \in 1..Len(events) :
          \/ events[m] = Row("final", t)
          \/ events[m].kind = "thought" /\ IF m = 1 THEN reply = t
                                           ELSE events[m - 1] = Row("token", t)
    BY <1>7 DEF Promised
  <2>2. Len(events) \in Nat \ {0} /\ Len(events') = Len(events) - 1 /\ ev = events[1]
    BY <1>1 DEF ev
  <2>3. \A i \in 1..Len(events') : events'[i] = events[i + 1]
    BY <1>1
  <2>4. CASE m = 1 /\ events[m] = Row("final", t)
    <3>1. ev = Row("final", t) /\ ev.kind = "final" /\ ev.turn = t
      BY <2>2, <2>4 DEF Row
    <3>2. transcript' = Append(topped, Row("reply", t))
      BY <1>5, <3>1
    <3>3. Under(topped, TRUE, t)
      BY <1>3, <1>7
    <3>4. Answered(transcript', t)
      BY <1>3, <3>2, <3>3, UnderAnswers
    <3> QED
      BY <3>4
  <2>5. CASE m = 1 /\ events[m] # Row("final", t)
    <3>1. ev.kind = "thought" /\ reply = t
      BY <2>1, <2>2, <2>5
    <3>2. transcript' = Append(transcript, Row("reply", t))
      BY <1>5, <1>7, <3>1
    <3>3. Under(transcript, TRUE, t)
      <4>1. headed = TRUE
        BY <1>1, <1>7, <3>1
      <4> QED
        BY <1>7, <4>1
    <3>4. Answered(transcript', t)
      BY <1>1, <3>2, <3>3, UnderAnswers
    <3> QED
      BY <3>4
  <2>6. CASE m # 1
    <3>1. m - 1 \in 1..Len(events') /\ events'[m - 1] = events[m]
      BY <2>2, <2>3, <2>6
    <3>2. CASE events[m] = Row("final", t)
      <4>1. Promised(reply', events', t)
        BY <3>1, <3>2 DEF Promised
      <4> QED
        BY <1>6, <1>7, <4>1
    <3>3. CASE events[m] # Row("final", t)
      <4>1. events[m].kind = "thought" /\ events[m - 1] = Row("token", t)
        BY <2>1, <2>6, <3>3
      <4>2. CASE m = 2
        <5>1. ev = Row("token", t) /\ ev.kind = "token" /\ ev.turn = t
          BY <2>2, <4>1, <4>2 DEF Row
        <5>2. reply' = t
          BY <1>5, <5>1
        <5>3. Promised(reply', events', t)
          BY <3>1, <4>1, <4>2, <5>2 DEF Promised
        <5> QED
          BY <1>6, <1>7, <5>3
      <4>3. CASE m # 2
        <5>1. m - 1 # 1 /\ (m - 1) - 1 \in 1..Len(events') /\ ((m - 1) - 1) + 1 = m - 1
          BY <2>2, <2>6, <4>3
        <5>2. events'[(m - 1) - 1] = Row("token", t)
          BY <2>3, <4>1, <5>1
        <5>3. Promised(reply', events', t)
          BY <3>1, <4>1, <5>1, <5>2 DEF Promised
        <5> QED
          BY <1>6, <1>7, <5>3
      <4> QED
        BY <4>2, <4>3
    <3> QED
      BY <3>2, <3>3
  <2> QED
    BY <2>4, <2>5, <2>6
<1> QED
  BY <1>6, <1>7

-----------------------------------------------------------------------------
\* Turns that the user does not type ahead of

LEMMA PromisedTwice ==
    ASSUME TTyped, NEW a \in EventKinds, NEW b \in EventKinds, NEW u \in {0, line.turn},
           NEW t, Promised(reply, events, t)
    PROVE  /\ Promised(reply, Append(events, Row(a, u)), t)
           /\ Promised(reply, Append(Plus(events, a), Row(b, u)), t)
<1>1. /\ Row(a, u) \in Events /\ Row(a, 0) \in Events /\ Row(b, u) \in Events
      /\ events \in Seq(Events)
  BY Plain
<1>2. Plus(events, a) \in Seq(Events) /\ Promised(reply, Plus(events, a), t)
  BY <1>1, PromisedGrows DEF Plus
<1> QED
  BY <1>1, <1>2, PromisedGrows

\* Whatever main does, what is promised stays so.
LEMMA MainPromises ==
    ASSUME TTyped, Aside \/ Opens \/ InTurnStep, NEW t, Promised(reply, events, t)
    PROVE  Promised(reply, events', t)
<1> USE DEF EventKinds
<1>1. CASE Aside
  <2>1. Promised(reply, Plus(Plus(events, "open"), "close"), t)
    <3>1. Promised(reply, Append(Plus(events, "open"), Row("close", 0)), t)
      BY PromisedTwice
    <3> QED
      BY <3>1 DEF Plus
  <2> QED
    BY <1>1, <2>1 DEF Aside
<1>2. CASE Opens
  <2>1. events' = Append(events, Row("thinking", 0))
    BY <1>2 DEF Opens, Plus
  <2> QED
    BY <2>1, PromisedTwice
<1>3. CASE Speaks
  <2>1. events' = Append(events, Row("token", line.turn))
    BY <1>3 DEF Speaks
  <2> QED
    BY <2>1, PromisedTwice
<1>4. CASE Calls
  <2>1. events' = Append(Plus(events, "thought"), Row("open", 0))
    BY <1>4 DEF Calls, Plus
  <2> QED
    BY <2>1, PromisedTwice
<1>5. CASE Hears
  <2>1. events' = Append(Plus(events, "close"), Row("thinking", 0))
    BY <1>5 DEF Hears, Plus
  <2> QED
    BY <2>1, PromisedTwice
<1>6. CASE AnswersDone /\ stage = "told"
  <2>1. events' = Append(events, Row("thought", 0))
    BY <1>6 DEF AnswersDone, Plus
  <2> QED
    BY <2>1, PromisedTwice
<1>7. CASE AnswersDone /\ stage # "told"
  <2>1. events' = Append(Plus(events, "thought"), Row("final", line.turn))
    BY <1>7 DEF AnswersDone
  <2> QED
    BY <2>1, PromisedTwice
<1>8. CASE Breaks /\ stage = "tool"
  <2>1. events' = Append(Plus(events, "close"), Row("status", 0))
    BY <1>8 DEF Breaks, Plus
  <2> QED
    BY <2>1, PromisedTwice
<1>9. CASE Breaks /\ stage # "tool"
  <2>1. events' = Append(Plus(events, "thought"), Row("status", 0))
    BY <1>9 DEF Breaks, Plus
  <2> QED
    BY <2>1, PromisedTwice
<1> QED
  BY <1>1, <1>2, <1>3, <1>4, <1>5, <1>6, <1>7, <1>8, <1>9 DEF InTurnStep

\* A turn that is done has its answer drawn or on its way.
LEMMA DonePromises ==
    ASSUME TTyped, Quiet, render # "gone", InTurnStep, AnswersDone
    PROVE  Promised(reply, events', line.turn)
<1>1. events \in Seq(Events) /\ Len(events) \in Nat
  BY Plain
<1>2. CASE stage = "told"
  <2>1. Told
    BY <1>2 DEF Told, InTurnStep
  <2>2. events' = Append(events, Row("thought", 0)) /\ Row("thought", 0).kind = "thought"
    BY <1>2 DEF AnswersDone, Plus, Row
  <2>3. CASE events = <<>>
    <3>1. events' = <<Row("thought", 0)>>
      BY <1>1, <2>2, <2>3
    <3>2. reply = line.turn
      BY <2>1, <2>3 DEF Quiet
    <3>3. 1 \in 1..Len(events') /\ events'[1].kind = "thought"
      BY <2>2, <3>1
    <3> QED
      BY <3>2, <3>3 DEF Promised
  <2>4. CASE events # <<>>
    <3>1. events[Len(events)] = Row("token", line.turn)
      BY <2>1, <2>4 DEF Quiet
    <3> DEFINE m == Len(events) + 1
    <3>2. m \in 1..Len(events') /\ m # 1 /\ m - 1 = Len(events)
      BY <1>1, <2>2, <2>4
    <3>3. events'[m].kind = "thought" /\ events'[m - 1] = events[Len(events)]
      BY <1>1, <2>2, <2>4
    <3> QED
      BY <3>1, <3>2, <3>3 DEF Promised
  <2> QED
    BY <2>3, <2>4
<1>3. CASE stage # "told"
  <2> DEFINE f == Plus(events, "thought")
             x == Row("final", line.turn)
  <2>1. events' = Append(f, x)
    BY <1>3 DEF AnswersDone
  <2>2. f \in Seq(Events)
    BY <1>1, Plain DEF Plus, EventKinds
  <2> HIDE DEF f, x
  <2>3. Len(f) + 1 \in 1..Len(events') /\ events'[Len(f) + 1] = x
    BY <2>1, <2>2
  <2> QED
    BY <2>3 DEF Promised, x
<1> QED
  BY <1>2, <1>3

LEMMA InTurnsMain ==
    ASSUME TTyped, Quiet, InTurns, render # "gone", render' # "gone",
           Between \/ Turning \/ Borrows
    PROVE  InTurns'
<1>1. UNCHANGED <<transcript, headed, reply, ahead>> /\ (Aside \/ Opens \/ InTurnStep)
  BY MainEffect
<1> SUFFICES ASSUME ~ahead PROVE InTurns'
  BY <1>1 DEF InTurns
<1>2. /\ actions # <<>> => Len(actions) = 1 /\ main = "idle" /\ events = <<>>
      /\ actions # <<>> /\ actions[1].kind = "prompt" =>
               Under(transcript, headed, actions[1].turn)
      /\ main = "turn" => Under(transcript, headed, line.turn)
      /\ reply # 0 => headed
      /\ \A t \in completed :
              \/ Answered(transcript, t)
              \/ Under(transcript, headed, t) /\ Promised(reply, events, t)
  BY DEF InTurns
<1>3. actions \in Seq(Lines)
  BY DEF TTyped
<1>4. actions' = <<>>
  <2>1. CASE actions # <<>>
    <3>1. Len(actions) = 1 /\ main = "idle"
      BY <1>2, <2>1
    <3>2. actions' = Tail(actions)
      BY <1>1, <2>1, <3>1 DEF Aside, Opens, InTurnStep
    <3> QED
      BY <1>3, <3>1, <3>2
  <2>2. CASE actions = <<>>
    BY <1>1, <2>2 DEF Aside, Opens, InTurnStep
  <2> QED
    BY <2>1, <2>2
<1>5. main' = "turn" => Under(transcript, headed, line'.turn)
  <2>1. CASE Opens
    <3>1. actions # <<>> /\ line' = Head(actions) /\ line'.kind = "prompt"
      BY <2>1 DEF Opens
    <3>2. line' = actions[1]
      BY <1>3, <3>1
    <3> QED
      BY <1>2, <3>1, <3>2
  <2>2. CASE Aside
    BY <2>2 DEF Aside
  <2>3. CASE InTurnStep
    BY <1>2, <2>3 DEF InTurnStep
  <2> QED
    BY <1>1, <2>1, <2>2, <2>3
<1>6. ASSUME NEW t \in completed'
      PROVE  Answered(transcript, t) \/ (Under(transcript, headed, t) /\ Promised(reply, events', t))
  <2>1. CASE t \in completed
    BY <1>1, <1>2, <2>1, MainPromises
  <2>2. CASE t \notin completed
    <3>1. InTurnStep /\ AnswersDone /\ t = line.turn
      BY <1>1, <1>6, <2>2 DEF Aside, Opens, InTurnStep, Speaks, Calls, Hears, AnswersDone, Breaks
    <3>2. Promised(reply, events', t)
      BY <3>1, DonePromises
    <3>3. Under(transcript, headed, t)
      BY <1>2, <3>1 DEF InTurnStep
    <3> QED
      BY <3>2, <3>3
  <2> QED
    BY <2>1, <2>2
<1> QED
  BY <1>1, <1>2, <1>4, <1>5, <1>6 DEF InTurns

LEMMA InTurnsDraw ==
    ASSUME TTyped, Numbered, InTurns, Draw
    PROVE  InTurns'
<1>1. /\ render # "gone" /\ UNCHANGED <<render, main, line, stage, actions, completed, ahead>>
      /\ events # <<>> /\ Head(events) \in Events /\ Shows(Head(events))
  BY DrawEffect
<1> SUFFICES ASSUME ~ahead PROVE InTurns'
  BY <1>1 DEF InTurns
<1>2. /\ actions = <<>>
      /\ main = "turn" => Under(transcript, headed, line.turn)
      /\ reply # 0 => headed
      /\ \A t \in completed :
              \/ Answered(transcript, t)
              \/ Under(transcript, headed, t) /\ Promised(reply, events, t)
  BY <1>1 DEF InTurns
<1>3. main = "turn" => Under(transcript', headed', line.turn)
  <2>1. line.turn \in Turns
    BY Plain
  <2> QED
    BY <1>2, <2>1, DrawTurn
<1>4. reply' # 0 => headed'
  <2>1. \/ headed' = TRUE \/ reply' = 0 \/ (headed' = headed /\ reply' = reply)
    BY <1>1, ShowsRows
  <2> QED
    BY <1>2, <2>1
<1>5. ASSUME NEW t \in completed
      PROVE  Answered(transcript', t) \/ (Under(transcript', headed', t) /\ Promised(reply', events', t))
  <2>1. t \in Turns /\ t # 0
    BY Bounds DEF Numbered, Turns
  <2>2. CASE Answered(transcript, t)
    BY <2>1, <2>2, DrawTurn
  <2>3. CASE Under(transcript, headed, t) /\ Promised(reply, events, t)
    BY <1>2, <2>1, <2>3, DrawTurn
  <2> QED
    BY <1>2, <2>2, <2>3
<1> QED
  BY <1>1, <1>2, <1>3, <1>4, <1>5 DEF InTurns

LEMMA InTurnsSubmit ==
    ASSUME TTyped, Quiet, InTurns, NEW kind \in Kinds, Submit(kind)
    PROVE  InTurns'
<1> DEFINE turn == IF kind = "prompt" THEN typed + 1 ELSE 0
           x == [kind |-> kind, turn |-> turn]
<1>1. /\ render # "gone" /\ UNCHANGED <<main, line, stage, events, completed>>
      /\ actions' = Append(actions, x)
      /\ ahead' = (ahead \/ main # "idle" \/ actions # <<>> \/ events # <<>>)
  BY DEF Submit, session
<1> SUFFICES ASSUME ~ahead' PROVE InTurns'
  BY DEF InTurns
<1>2. ~ahead /\ main = "idle" /\ actions = <<>> /\ events = <<>>
  BY <1>1
<1>3. reply = 0 /\ reply' = 0
  <2>1. reply' = reply
    BY DEF Submit, YouSay, view
  <2>2. ~Told
    BY <1>2 DEF Told
  <2>3. reply # 0 => \E n \in 1..Len(events) : events[n].kind \in Resets
    BY <1>1, <2>2 DEF Quiet
  <2>4. Len(events) = 0
    BY <1>2
  <2> QED
    BY <2>1, <2>3, <2>4
<1>4. actions' = <<x>>
  BY <1>1, <1>2
<1>5. Len(actions') = 1 /\ actions'[1] = x
  BY <1>4
<1>6. \A t \in completed : Answered(transcript, t)
  <2>1. \A t : ~Promised(reply, events, t)
    BY <1>2 DEF Promised
  <2> QED
    BY <1>1, <1>2, <2>1 DEF InTurns
<1>7. CASE kind = "prompt"
  <2>1. turn = typed + 1 /\ turn \in Turns
    BY <1>7, Bounds DEF Submit, TTyped, Turns
  <2>2. transcript' = Append(transcript, Row("you", turn)) /\ headed' = FALSE
    BY <1>7 DEF Submit, YouSay
  <2> HIDE DEF turn
  <2>3. Row("you", turn) \in Rows /\ transcript \in Seq(Rows)
    BY <2>1, EventsAre DEF TTyped
  <2>4. Under(transcript', headed', turn)
    BY <2>1, <2>2, <2>3, UnderStarts
  <2>5. \A t \in completed : Answered(transcript', t)
    BY <1>6, <2>2, <2>3, AnsweredGrows
  <2>6. actions'[1].turn = turn
    BY <1>5
  <2> HIDE DEF x
  <2> QED
    BY <1>1, <1>2, <1>3, <1>5, <2>4, <2>5, <2>6 DEF InTurns
<1>8. CASE kind # "prompt"
  <2>1. transcript' = transcript /\ headed' = headed
    BY <1>8 DEF Submit, view
  <2>2. actions'[1].kind # "prompt"
    BY <1>5, <1>8
  <2> HIDE DEF x
  <2> QED
    BY <1>1, <1>2, <1>3, <1>5, <1>6, <2>1, <2>2 DEF InTurns
<1> QED
  BY <1>7, <1>8

LEMMA InTurnsStep ==
    ASSUME TTyped, Numbered, Quiet, InTurns, [Next]_vars
    PROVE  InTurns'
<1>1. CASE render' = "gone"
  BY <1>1 DEF InTurns
<1>2. CASE render # "gone" /\ Silent
  <2>1. UNCHANGED <<transcript, headed, reply, events, completed, main, line, actions, ahead>>
    BY <1>2 DEF Silent
  <2> QED
    BY <1>2, <2>1 DEF InTurns
<1>3. CASE UNCHANGED vars
  BY <1>3 DEF vars, session, channels, view, InTurns
<1> QED
  BY <1>1, <1>2, <1>3, InTurnsMain, InTurnsDraw, InTurnsSubmit, Kinds4, RenderEffect, MainEffect

-----------------------------------------------------------------------------
\* Theorems

LEMMA TInvInit == Init => TInv
<1> SUFFICES ASSUME Init PROVE TInv
  OBVIOUS
<1>1. <<>> \in Seq(Lines) /\ <<>> \in Seq(Events) /\ <<>> \in Seq(Rows)
  OBVIOUS
<1>2. TTyped
  <2>1. line \in Lines /\ tools \in 0..MaxTools /\ typed \in Turns /\ pressedIn \in Turns
        /\ reply \in Turns
    BY Bounds DEF Init, Lines, NoLine, Turns
  <2>2. /\ actions \in Seq(Lines) /\ events \in Seq(Events) /\ transcript \in Seq(Rows)
        /\ reader \in BOOLEAN /\ control \in BOOLEAN
        /\ redirected \in BOOLEAN /\ cancel \in BOOLEAN /\ headed \in BOOLEAN
        /\ ahead \in BOOLEAN
    BY <1>1 DEF Init
  <2> QED
    BY <2>1, <2>2 DEF Init, TTyped
<1>3. Numbered /\ Handshake /\ CancelOwn
  BY DEF Init, Numbered, Handshake, CancelOwn, Borrowing
<1>4. Blocks
  <2>1. CountIn(transcript, "open") = CountIn(transcript, "close")
        /\ CountIn(events, "open") = CountIn(events, "close")
    <3>1. Len(<<>>) = 0 /\ 1..0 = {}
      OBVIOUS
    <3> QED
      BY <3>1 DEF Init, CountIn
  <2>2. CountIn(transcript, "close") \in Nat /\ CountIn(events, "close") \in Nat
    BY <1>2, Plain, CountType
  <2> QED
    BY <2>1, <2>2 DEF Init, Blocks
<1>5. Quiet /\ InTurns
  BY DEF Init, Quiet, Told, InTurns
<1> QED
  BY <1>2, <1>3, <1>4, <1>5 DEF TInv

LEMMA TInvStep == TInv /\ [Next]_vars => TInv'
  BY TypedStep, NumberedStep, HandshakeStep, CancelStep, BlocksStep, QuietStep, InTurnsStep
  DEF TInv

LEMMA TuiInvariant == Spec => []TInv
  BY TInvInit, TInvStep, PTL DEF Spec

\* The render task draws only on a screen that is its own, no two tasks read the
\* keys, and a session that ended gave the terminal back, however main and the
\* render task interleave and whenever the render task dies.
THEOREM TerminalHasOneOwner == Spec => []OneOwner
<1>1. TInv => OneOwner
  BY Owned DEF TInv
<1> QED
  BY <1>1, TuiInvariant, PTL

\* A turn is cancelled only by a Ctrl-C that was pressed while it ran.
THEOREM CancelsMeetTheirTurn == Spec => CancelMeetsItsTurn
<1>1. TInv /\ [Next]_vars => [Cancelled => pressedIn = line.turn]_vars
  BY DEF TInv, CancelOwn, Cancelled
<1> QED
  BY <1>1, TuiInvariant, PTL DEF Spec, CancelMeetsItsTurn

\* With nothing left to draw, every tool block is closed, and each turn that was
\* answered in full stands in the transcript as its prompt, one header and its
\* reply, unless the user typed ahead.
THEOREM TranscriptHolds == Spec => []TranscriptTrue
<1>1. TInv => TranscriptTrue
  <2> SUFFICES ASSUME TInv, main = "idle", render = "select", events = <<>>
               PROVE  /\ Count("open") = Count("close")
                      /\ ~ahead => \A t \in completed : Answered(transcript, t)
    BY DEF TranscriptTrue, Answered
  <2>1. CountIn(events, "open") = CountIn(events, "close")
    BY DEF CountIn
  <2>2. /\ CountIn(transcript, "open") \in Nat /\ CountIn(transcript, "close") \in Nat
        /\ CountIn(events, "open") \in Nat
    BY Plain, CountType DEF TInv
  <2>3. CountIn(transcript, "open") = CountIn(transcript, "close")
    BY <2>1, <2>2 DEF TInv, Blocks
  <2>4. Count("open") = Count("close")
    BY <2>3 DEF Count, CountIn
  <2>5. \A t : ~Promised(reply, events, t)
    BY DEF Promised
  <2>6. ~ahead => \A t \in completed : Answered(transcript, t)
    BY <2>5 DEF TInv, InTurns
  <2> QED
    BY <2>4, <2>6
<1> QED
  BY <1>1, TuiInvariant, PTL

-----------------------------------------------------------------------------
\* The line: offsets

LEMMA BlanksAre == Blanks \subseteq Symbols /\ Wide \subseteq Symbols /\ NewLine \in Symbols
<1> QED
  BY ComposerAssumption

LEMMA SpaceIs == Space \in Blanks /\ Space \in Symbols
<1>1. \E b \in Blanks : b # NewLine
  BY ComposerAssumption
<1>2. Space \in Blanks
  BY <1>1 DEF Space
<1> QED
  BY <1>2, BlanksAre

\* What is between two texts may be taken with either.
LEMMA JoinThree == \A a, b, c \in Seq(Symbols) : a \o (b \o c) = (a \o b) \o c
<1> QED
  BY ConcatAssociative, SMTT(30)

WideIn(s) == {i \in 1..Len(s) : s[i] \in Wide}

LEMMA WideFinite ==
    ASSUME NEW s \in Seq(Symbols)
    PROVE  IsFiniteSet(WideIn(s)) /\ Cardinality(WideIn(s)) \in Nat
<1>1. Len(s) \in Nat
  OBVIOUS
<1>2. IsFiniteSet(1..Len(s))
  BY <1>1, FS_Interval
<1>3. WideIn(s) \subseteq 1..Len(s)
  BY DEF WideIn
<1>4. IsFiniteSet(WideIn(s))
  BY <1>2, <1>3, FS_Subset
<1> QED
  BY <1>4, FS_CardinalityType

LEMMA BytesNat ==
    ASSUME NEW s \in Seq(Symbols)
    PROVE  Bytes(s) \in Nat /\ Len(s) <= Bytes(s) /\ Len(s) \in Nat
<1>1. Bytes(s) = Len(s) + Cardinality(WideIn(s))
  BY DEF Bytes, WideIn
<1>2. Len(s) \in Nat
  OBVIOUS
<1> QED
  BY <1>1, <1>2, WideFinite

LEMMA BytesEmpty == Bytes(<<>>) = 0
<1>1. Len(<<>>) = 0 /\ WideIn(<<>>) = {}
  BY DEF WideIn
<1>2. Cardinality({}) = 0
  BY FS_EmptySet
<1> QED
  BY <1>1, <1>2 DEF Bytes, WideIn

BytesOf(e) == IF e \in Wide THEN 2 ELSE 1

LEMMA BytesAppend ==
    ASSUME NEW s \in Seq(Symbols), NEW e \in Symbols
    PROVE  Bytes(Append(s, e)) = Bytes(s) + BytesOf(e)
<1> DEFINE t == Append(s, e)
           n == Len(s)
<1>1. /\ t \in Seq(Symbols) /\ Len(t) = n + 1 /\ t[n + 1] = e /\ n \in Nat
      /\ \A i \in 1..n : t[i] = s[i]
  BY AppendProperties
<1>2. /\ Bytes(s) = n + Cardinality(WideIn(s)) /\ Bytes(t) = n + 1 + Cardinality(WideIn(t))
      /\ IsFiniteSet(WideIn(s)) /\ Cardinality(WideIn(s)) \in Nat
  BY <1>1, WideFinite DEF Bytes, WideIn
<1>3. WideIn(s) = {i \in 1..n : s[i] \in Wide}
  BY DEF WideIn
<1>4. WideIn(t) = {i \in 1..(n + 1) : t[i] \in Wide}
  BY <1>1 DEF WideIn
<1> HIDE DEF t, n
<1>5. n + 1 \notin WideIn(s)
  BY <1>1, <1>3
<1>6. CASE e \in Wide
  <2>1. WideIn(t) = WideIn(s) \cup {n + 1}
    BY <1>1, <1>3, <1>4, <1>6
  <2>2. Cardinality(WideIn(t)) = Cardinality(WideIn(s)) + 1
    BY <1>2, <1>5, <2>1, FS_AddElement
  <2> QED
    BY <1>1, <1>2, <1>6, <2>2 DEF t, BytesOf
<1>7. CASE e \notin Wide
  <2>1. WideIn(t) = WideIn(s)
    BY <1>1, <1>3, <1>4, <1>7
  <2> QED
    BY <1>1, <1>2, <1>7, <2>1 DEF t, BytesOf
<1> QED
  BY <1>6, <1>7

LEMMA AppendJoin ==
    ASSUME NEW s \in Seq(Symbols), NEW t \in Seq(Symbols), NEW e \in Symbols
    PROVE  s \o Append(t, e) = Append(s \o t, e)
<1> DEFINE u == <<e>>
           z == s \o t
<1>1. u \in Seq(Symbols) /\ z \in Seq(Symbols)
  OBVIOUS
<1>2. Append(t, e) = t \o u /\ Append(z, e) = z \o u
  BY <1>1, AppendIsConcat
<1> HIDE DEF u
<1>3. s \o (t \o u) = (s \o t) \o u
  BY <1>1, JoinThree
<1> QED
  BY <1>2, <1>3

LEMMA BytesJoin ==
    ASSUME NEW a \in Seq(Symbols), NEW b \in Seq(Symbols)
    PROVE  Bytes(a \o b) = Bytes(a) + Bytes(b)
<1> DEFINE T == {s \in Seq(Symbols) : Bytes(a \o s) = Bytes(a) + Bytes(s)}
<1>1. <<>> \in T
  <2>1. a \o <<>> = a /\ <<>> \in Seq(Symbols) /\ Bytes(a) \in Nat
    BY ConcatEmptySeq, BytesNat
  <2> QED
    BY <2>1, BytesEmpty
<1>2. ASSUME NEW s \in Seq(Symbols), NEW e \in Symbols, s \in T
      PROVE  Append(s, e) \in T
  <2> DEFINE t == Append(s, e)
             z == a \o s
  <2>1. t \in Seq(Symbols) /\ z \in Seq(Symbols) /\ a \o t = Append(z, e)
    BY AppendJoin
  <2>2. Bytes(t) = Bytes(s) + BytesOf(e)
    BY BytesAppend
  <2>3. Bytes(Append(z, e)) = Bytes(z) + BytesOf(e)
    <3> HIDE DEF z
    <3> QED
      BY <2>1, BytesAppend
  <2>4. Bytes(z) = Bytes(a) + Bytes(s)
    BY <1>2
  <2>5. Bytes(a) \in Nat /\ Bytes(s) \in Nat /\ BytesOf(e) \in Nat
    BY BytesNat DEF BytesOf
  <2> HIDE DEF t, z
  <2>6. Bytes(a \o t) = Bytes(a) + Bytes(t)
    BY <2>1, <2>2, <2>3, <2>4, <2>5
  <2> QED
    BY <2>1, <2>6 DEF t
<1>3. Seq(Symbols) \subseteq T
  <2> HIDE DEF T
  <2> QED
    BY <1>1, <1>2, AllSeqs
<1> QED
  BY <1>3

LEMMA BytesOne ==
    ASSUME NEW e \in Symbols
    PROVE  <<e>> \in Seq(Symbols) /\ Bytes(<<e>>) = BytesOf(e) /\ BytesOf(e) \in {1, 2}
<1>1. <<>> \in Seq(Symbols) /\ Append(<<>>, e) = <<e>>
  OBVIOUS
<1>2. Bytes(<<e>>) = 0 + BytesOf(e)
  BY <1>1, BytesAppend, BytesEmpty
<1> QED
  BY <1>2 DEF BytesOf

-----------------------------------------------------------------------------
\* Cutting the line at an offset

\* A place in s, and the offset there.
Place(s, k) == SubSeq(s, 1, k)

LEMMA PlaceIs ==
    ASSUME NEW s \in Seq(Symbols), NEW k \in 0..Len(s)
    PROVE  /\ Place(s, k) \in Seq(Symbols) /\ Len(Place(s, k)) = k
           /\ SubSeq(s, k + 1, Len(s)) \in Seq(Symbols)
           /\ s = Place(s, k) \o SubSeq(s, k + 1, Len(s))
           /\ Len(SubSeq(s, k + 1, Len(s))) = Len(s) - k
<1> DEFINE i == k + 1
<1>1. i \in 1..(Len(s) + 1) /\ i - 1 = k /\ Len(s) \in Nat
  OBVIOUS
<1> HIDE DEF i
<1>2. SubSeq(s, 1, i - 1) \in Seq(Symbols) /\ Len(SubSeq(s, 1, i - 1)) = i - 1
  BY <1>1, UptoIs
<1>3. SubSeq(s, i, Len(s)) \in Seq(Symbols) /\ Len(SubSeq(s, i, Len(s))) = Len(s) + 1 - i
  BY <1>1, OnwardIs
<1>4. SubSeq(s, 1, i - 1) \o SubSeq(s, i, Len(s)) = s
  BY <1>1, CutJoins
<1>5. Len(s) + 1 - i = Len(s) - k
  BY <1>1
<1> QED
  BY <1>1, <1>2, <1>3, <1>4, <1>5 DEF Place, i

\* The first of two parts is the text up to a place.
LEMMA PlaceOfFirst ==
    ASSUME NEW a \in Seq(Symbols), NEW b \in Seq(Symbols)
    PROVE  /\ a \o b \in Seq(Symbols) /\ Len(a) \in 0..Len(a \o b)
           /\ Place(a \o b, Len(a)) = a /\ SubSeq(a \o b, Len(a) + 1, Len(a \o b)) = b
<1>1. 1 \in 1..(Len(b) + 1) /\ Len(a) \in Nat /\ Len(b) \in Nat /\ Len(a) + 1 - 1 = Len(a)
  OBVIOUS
<1>2. /\ SubSeq(a \o b, Len(a) + 1, Len(a \o b)) = SubSeq(b, 1, Len(b))
      /\ SubSeq(a \o b, 1, (Len(a) + 1) - 1) = a \o SubSeq(b, 1, 1 - 1)
  BY <1>1, CutSecond
<1>3. SubSeq(b, 1, Len(b)) = b
  BY SubSeqFull
<1>4. SubSeq(b, 1, 1 - 1) = <<>>
  <2>1. SubSeq(b, 1, 1 - 1) \in Seq(Symbols) /\ Len(SubSeq(b, 1, 1 - 1)) = 0
    BY <1>1, UptoIs
  <2> QED
    BY <2>1, EmptySeq
<1>5. a \o <<>> = a
  BY ConcatEmptySeq
<1>6. a \o b \in Seq(Symbols) /\ Len(a \o b) = Len(a) + Len(b)
  BY JoinIs
<1> QED
  BY <1>1, <1>2, <1>3, <1>4, <1>5, <1>6 DEF Place

\* No two places have one offset.
LEMMA PlacesApart ==
    ASSUME NEW s \in Seq(Symbols), NEW k \in 0..Len(s), NEW m \in 0..Len(s), k < m
    PROVE  Bytes(Place(s, k)) < Bytes(Place(s, m))
<1> DEFINE t == Place(s, m)
           u == SubSeq(t, k + 1, Len(t))
<1>1. t \in Seq(Symbols) /\ Len(t) = m
  BY PlaceIs
<1>2. Place(t, k) = Place(s, k)
  <2> DEFINE r == SubSeq(s, m + 1, Len(s))
             i == k + 1
  <2>1. s = t \o r /\ r \in Seq(Symbols)
    BY PlaceIs
  <2>2. i \in 1..(Len(t) + 1) /\ i - 1 = k
    BY <1>1
  <2> HIDE DEF t, r, i
  <2>3. SubSeq(t \o r, 1, i - 1) = SubSeq(t, 1, i - 1)
    BY <1>1, <2>1, <2>2, CutFirst
  <2> QED
    BY <2>1, <2>2, <2>3 DEF Place
<1> HIDE DEF t
<1>3. k \in 0..Len(t)
  BY <1>1
<1>4. u \in Seq(Symbols) /\ Len(u) = m - k /\ Place(t, k) \in Seq(Symbols) /\ t = Place(t, k) \o u
  BY <1>1, <1>3, PlaceIs
<1> HIDE DEF u
<1>5. Bytes(t) = Bytes(Place(t, k)) + Bytes(u)
  BY <1>4, BytesJoin
<1>6. Bytes(u) \in Nat /\ m - k <= Bytes(u) /\ Bytes(Place(t, k)) \in Nat
  BY <1>4, BytesNat
<1>7. k \in Nat /\ m \in Nat
  OBVIOUS
<1> QED
  BY <1>2, <1>5, <1>6, <1>7 DEF t

\* Cutting a text at the offset where its first part ends.
LEMMA CutAt ==
    ASSUME NEW a \in Seq(Symbols), NEW b \in Seq(Symbols)
    PROVE  /\ a \o b \in Seq(Symbols) /\ Boundary(a \o b, Bytes(a))
           /\ Upto(a \o b, Bytes(a)) = a /\ From(a \o b, Bytes(a)) = b
<1> DEFINE s == a \o b
           off == Bytes(a)
           There(k) == Bytes(SubSeq(s, 1, k)) = off
           c == CHOOSE k \in 0..Len(s) : There(k)
<1>1. s \in Seq(Symbols) /\ Len(a) \in 0..Len(s) /\ Place(s, Len(a)) = a /\ SubSeq(s, Len(a) + 1, Len(s)) = b
  BY PlaceOfFirst
<1> HIDE DEF s
<1>2. There(Len(a))
  BY <1>1 DEF Place
<1>3. c \in 0..Len(s) /\ There(c)
  BY <1>1, <1>2
<1>4. Len(s) \in Nat /\ Bytes(Place(s, c)) = off /\ Bytes(Place(s, Len(a))) = off /\ off \in Nat
  BY <1>1, <1>3, BytesNat DEF Place
<1> HIDE DEF c, off
<1>5. ~(c < Len(a)) /\ ~(Len(a) < c)
  BY <1>1, <1>3, <1>4, PlacesApart
<1>6. c = Len(a)
  BY <1>1, <1>3, <1>4, <1>5
<1>7. Boundary(s, off)
  BY <1>1, <1>2 DEF Boundary
<1>8. Upto(s, off) = a
  BY <1>1, <1>6 DEF Upto, c, Place
<1> QED
  BY <1>1, <1>7, <1>8 DEF From, s, off

\* A text cut at an offset that is on a symbol's edge.
LEMMA CutIs ==
    ASSUME NEW s \in Seq(Symbols), NEW off, Boundary(s, off)
    PROVE  /\ Upto(s, off) \in Seq(Symbols) /\ From(s, off) \in Seq(Symbols)
           /\ s = Upto(s, off) \o From(s, off) /\ Bytes(Upto(s, off)) = off
           /\ off \in Nat /\ Bytes(s) = off + Bytes(From(s, off))
<1>1. PICK k \in 0..Len(s) : Bytes(SubSeq(s, 1, k)) = off
  BY DEF Boundary
<1> DEFINE a == Place(s, k)
           b == SubSeq(s, k + 1, Len(s))
<1>2. a \in Seq(Symbols) /\ b \in Seq(Symbols) /\ s = a \o b /\ Bytes(a) = off
  BY <1>1, PlaceIs DEF Place
<1> HIDE DEF a, b
<1>3. Upto(s, off) = a /\ From(s, off) = b
  BY <1>2, CutAt
<1>4. Bytes(s) = Bytes(a) + Bytes(b) /\ Bytes(a) \in Nat
  BY <1>2, BytesJoin, BytesNat
<1> QED
  BY <1>2, <1>3, <1>4

LEMMA EndsAreEdges ==
    ASSUME NEW s \in Seq(Symbols)
    PROVE  Boundary(s, 0) /\ Boundary(s, Bytes(s))
<1>1. <<>> \in Seq(Symbols) /\ <<>> \o s = s /\ s \o <<>> = s
  BY ConcatEmptySeq
<1>2. Boundary(<<>> \o s, Bytes(<<>>)) /\ Boundary(s \o <<>>, Bytes(s))
  BY <1>1, CutAt
<1> QED
  BY <1>1, <1>2, BytesEmpty

LEMMA NextIsEdge ==
    ASSUME NEW s \in Seq(Symbols), NEW off, Boundary(s, off), off # Bytes(s)
    PROVE  Boundary(s, NextBoundary(s, off))
<1> DEFINE T == {b \in (off + 1)..Bytes(s) : Boundary(s, b)}
           Nearest(b) == Boundary(s, b) /\ \A c \in (off + 1)..(b - 1) : ~Boundary(s, c)
<1>1. off \in Nat /\ Bytes(s) \in Nat /\ off < Bytes(s)
  <2>1. off \in Nat /\ From(s, off) \in Seq(Symbols) /\ Bytes(s) = off + Bytes(From(s, off))
    BY CutIs
  <2>2. Bytes(From(s, off)) \in Nat
    BY <2>1, BytesNat
  <2> QED
    BY <2>1, <2>2
<1>2. Bytes(s) \in T
  BY <1>1, EndsAreEdges
<1>3. T \subseteq Nat
  BY <1>1
<1>4. PICK x \in T : \A y \in T : x <= y
  <2> HIDE DEF T
  <2> QED
    BY <1>2, <1>3, LeastNat
<1>5. x \in (off + 1)..Bytes(s) /\ Nearest(x)
  <2>1. x \in Nat
    BY <1>3, <1>4
  <2>2. ASSUME NEW c \in (off + 1)..(x - 1) PROVE ~Boundary(s, c)
    <3>1. c \in (off + 1)..Bytes(s) /\ ~(x <= c)
      BY <1>1, <1>4, <2>1
    <3> QED
      BY <1>4, <3>1
  <2> QED
    BY <1>4, <2>2
<1> QED
  BY <1>5 DEF NextBoundary

LEMMA PrevIsEdge ==
    ASSUME NEW s \in Seq(Symbols), NEW off, Boundary(s, off), off # 0
    PROVE  Boundary(s, PrevBoundary(s, off))
<1> DEFINE Below == 0..(off - 1)
           T == {d \in Below : Boundary(s, (off - 1) - d)}
           Nearest(b) == Boundary(s, b) /\ \A c \in (b + 1)..(off - 1) : ~Boundary(s, c)
<1>1. off \in Nat
  BY CutIs
<1>2. off - 1 \in T
  BY <1>1, EndsAreEdges
<1>3. T \subseteq Nat
  BY <1>1
<1>4. PICK x \in T : \A y \in T : x <= y
  <2> HIDE DEF T
  <2> QED
    BY <1>2, <1>3, LeastNat
<1> DEFINE b == (off - 1) - x
<1>5. x \in Nat /\ b \in Below /\ Boundary(s, b)
  BY <1>1, <1>3, <1>4
<1>6. ASSUME NEW c \in (b + 1)..(off - 1) PROVE ~Boundary(s, c)
  <2> DEFINE d == (off - 1) - c
  <2>1. d \in Below /\ ~(x <= d) /\ (off - 1) - d = c
    BY <1>1, <1>5
  <2> HIDE DEF d
  <2> QED
    BY <1>4, <2>1
<1>7. Nearest(b)
  BY <1>5, <1>6
<1> HIDE DEF b
<1> QED
  BY <1>5, <1>7 DEF PrevBoundary

-----------------------------------------------------------------------------
\* Words and letters

\* How far a text goes before it first has a symbol of P.
LEMMA RunExists ==
    ASSUME NEW s \in Seq(Symbols), NEW P
    PROVE  \E n \in 0..Len(s) : /\ \A i \in 1..n : s[i] \notin P
                                /\ n = Len(s) \/ s[n + 1] \in P
<1> DEFINE StopsAt(n) == n = Len(s) \/ s[n + 1] \in P
           T == {n \in 0..Len(s) : StopsAt(n)}
<1>1. Len(s) \in Nat
  OBVIOUS
<1>2. T \subseteq Nat /\ Len(s) \in T
  BY <1>1
<1>3. PICK n \in T : \A m \in T : n <= m
  <2> HIDE DEF T
  <2> QED
    BY <1>2, LeastNat
<1>4. ASSUME NEW i \in 1..n PROVE s[i] \notin P
  <2> DEFINE m == i - 1
  <2>1. n \in Nat /\ n <= Len(s) /\ i \in Nat /\ 1 <= i /\ i <= n
    BY <1>1, <1>3
  <2>2. m \in 0..Len(s) /\ ~(n <= m) /\ m + 1 = i
    BY <1>1, <2>1
  <2> HIDE DEF m
  <2>3. ~StopsAt(m)
    BY <1>3, <2>2
  <2> QED
    BY <2>2, <2>3
<1>5. n \in 0..Len(s) /\ StopsAt(n)
  BY <1>3
<1> QED
  BY <1>4, <1>5

\* The first word of a text is what is before some place.
LEMMA WordIs ==
    ASSUME NEW s \in Seq(Symbols)
    PROVE  \E r \in Seq(Symbols) : Word(s) \in Seq(Symbols) /\ s = Word(s) \o r
<1> DEFINE Right(n) == /\ \A i \in 1..n : s[i] \notin Blanks
                       /\ n = Len(s) \/ s[n + 1] \in Blanks
           w == CHOOSE n \in 0..Len(s) : Right(n)
<1>1. \E n \in 0..Len(s) : Right(n)
  BY RunExists
<1>2. w \in 0..Len(s)
  BY <1>1
<1>3. Word(s) = Place(s, w)
  BY DEF Word, Place
<1> HIDE DEF w
<1>4. /\ Place(s, w) \in Seq(Symbols) /\ SubSeq(s, w + 1, Len(s)) \in Seq(Symbols)
      /\ s = Place(s, w) \o SubSeq(s, w + 1, Len(s))
  BY <1>2, PlaceIs
<1> QED
  BY <1>3, <1>4

\* Its first blanks are, too, and they are blanks; if they are all of it, it has
\* nothing else, and the other way round.
LEMMA GapIs ==
    ASSUME NEW s \in Seq(Symbols)
    PROVE  /\ \E r \in Seq(Symbols) : Gap(s) \in Seq(Symbols) /\ s = Gap(s) \o r
           /\ \A i \in 1..Len(Gap(s)) : Gap(s)[i] \in Blanks
           /\ (\A i \in 1..Len(s) : s[i] \in Blanks) => Gap(s) = s
<1> DEFINE Right(n) == /\ \A i \in 1..n : s[i] \in Blanks
                       /\ n = Len(s) \/ s[n + 1] \notin Blanks
           w == CHOOSE n \in 0..Len(s) : Right(n)
           L == Symbols \ Blanks
<1>0. Len(s) \in Nat /\ \A i \in 1..Len(s) : s[i] \in L <=> s[i] \notin Blanks
  OBVIOUS
<1>1. \E n \in 0..Len(s) : Right(n)
  <2>1. PICK n \in 0..Len(s) : /\ \A i \in 1..n : s[i] \notin L
                               /\ n = Len(s) \/ s[n + 1] \in L
    BY RunExists
  <2>2. \A i \in 1..n : i \in 1..Len(s)
    BY <1>0
  <2>3. n # Len(s) => n + 1 \in 1..Len(s)
    BY <1>0
  <2> QED
    BY <1>0, <2>1, <2>2, <2>3
<1>2. w \in 0..Len(s) /\ Right(w)
  BY <1>1
<1>3. Gap(s) = Place(s, w)
  BY DEF Gap, Place
<1> HIDE DEF w
<1>4. /\ Gap(s) \in Seq(Symbols) /\ Len(Gap(s)) = w
      /\ s = Gap(s) \o SubSeq(s, w + 1, Len(s)) /\ SubSeq(s, w + 1, Len(s)) \in Seq(Symbols)
  BY <1>2, <1>3, PlaceIs
<1>5. \A i \in 1..Len(Gap(s)) : Gap(s)[i] = s[i]
  <2> DEFINE g == Gap(s)
             r == SubSeq(s, w + 1, Len(s))
  <2>1. g \in Seq(Symbols) /\ r \in Seq(Symbols) /\ s = g \o r
    BY <1>4
  <2> HIDE DEF g, r
  <2>2. \A i \in 1..Len(g) : (g \o r)[i] = g[i]
    BY <2>1, JoinIs
  <2> QED
    BY <2>1, <2>2 DEF g
<1>6. ASSUME \A i \in 1..Len(s) : s[i] \in Blanks PROVE Gap(s) = s
  <2>1. w = Len(s)
    <3>1. w + 1 \in 1..Len(s) \/ w = Len(s)
      BY <1>0, <1>2
    <3> QED
      BY <1>2, <1>6, <3>1
  <2> QED
    BY <1>3, <2>1, SubSeqFull DEF Place
<1> QED
  BY <1>2, <1>4, <1>5, <1>6

LEMMA LettersSeq ==
    ASSUME NEW s \in Seq(Symbols)
    PROVE  /\ Letters(s) \in Seq(Symbols)
           /\ Letters(s) = <<>> <=> \A i \in 1..Len(s) : s[i] \in Blanks
<1> DEFINE I == {i \in 1..Len(s) : s[i] \notin Blanks}
<1>1. I \subseteq 1..Len(s) /\ Letters(s) = Kept(s, I)
  BY DEF Letters
<1>2. I = {} <=> \A i \in 1..Len(s) : s[i] \in Blanks
  OBVIOUS
<1> HIDE DEF I
<1>3. Kept(s, I) \in Seq(Symbols)
  BY <1>1, KeptEmbeds
<1>4. Kept(s, I) = <<>> <=> I = {}
  BY <1>1, KeptNone
<1> QED
  BY <1>1, <1>2, <1>3, <1>4

LEMMA LettersEmpty == Letters(<<>>) = <<>>
<1> QED
  BY KeptEmpty DEF Letters

LEMMA LettersAppend ==
    ASSUME NEW s \in Seq(Symbols), NEW e \in Symbols
    PROVE  Letters(Append(s, e)) = IF e \in Blanks THEN Letters(s) ELSE Append(Letters(s), e)
<1> DEFINE t == Append(s, e)
           I == {i \in 1..Len(s) : s[i] \notin Blanks}
           J == {i \in 1..Len(t) : t[i] \notin Blanks}
<1>1. /\ t \in Seq(Symbols) /\ Len(t) = Len(s) + 1 /\ t[Len(s) + 1] = e /\ Len(s) \in Nat
      /\ \A i \in 1..Len(s) : t[i] = s[i]
  BY AppendProperties
<1>2. \A i \in 1..Len(s) : i \in I <=> i \in J
  BY <1>1
<1>3. Len(s) + 1 \in J <=> e \notin Blanks
  BY <1>1
<1>4. Letters(s) = Kept(s, I) /\ Letters(t) = Kept(t, J)
  BY DEF Letters
<1> HIDE DEF I, J
<1>5. Kept(t, J) = IF Len(s) + 1 \in J THEN Append(Kept(s, J), e) ELSE Kept(s, J)
  BY KeptAppend
<1>6. Kept(s, I) = Kept(s, J)
  BY <1>1, <1>2, KeptSame
<1> QED
  BY <1>3, <1>4, <1>5, <1>6

LEMMA LettersJoin ==
    ASSUME NEW a \in Seq(Symbols), NEW b \in Seq(Symbols)
    PROVE  Letters(a \o b) = Letters(a) \o Letters(b)
<1> DEFINE T == {s \in Seq(Symbols) : Letters(a \o s) = Letters(a) \o Letters(s)}
<1>0. Letters(a) \in Seq(Symbols)
  BY LettersSeq
<1>1. <<>> \in T
  <2>1. a \o <<>> = a /\ <<>> \in Seq(Symbols) /\ Letters(a) \o <<>> = Letters(a)
    BY <1>0, ConcatEmptySeq
  <2> QED
    BY <2>1, LettersEmpty
<1>2. ASSUME NEW s \in Seq(Symbols), NEW e \in Symbols, s \in T
      PROVE  Append(s, e) \in T
  <2> DEFINE t == Append(s, e)
             z == a \o s
             la == Letters(a)
             ls == Letters(s)
  <2>1. t \in Seq(Symbols) /\ z \in Seq(Symbols) /\ a \o t = Append(z, e)
    BY AppendJoin
  <2>2. Letters(t) = IF e \in Blanks THEN ls ELSE Append(ls, e)
    BY LettersAppend
  <2>3. Letters(Append(z, e)) = IF e \in Blanks THEN Letters(z) ELSE Append(Letters(z), e)
    <3> HIDE DEF z
    <3> QED
      BY <2>1, LettersAppend
  <2>4. Letters(z) = la \o ls
    BY <1>2
  <2>5. la \in Seq(Symbols) /\ ls \in Seq(Symbols)
    BY LettersSeq
  <2> HIDE DEF t, z, la, ls
  <2>6. la \o Append(ls, e) = Append(la \o ls, e)
    BY <2>5, AppendJoin
  <2>7. Letters(a \o t) = la \o Letters(t)
    BY <2>1, <2>2, <2>3, <2>4, <2>6
  <2> QED
    BY <2>1, <2>7 DEF t, la
<1>3. Seq(Symbols) \subseteq T
  <2> HIDE DEF T
  <2> QED
    BY <1>1, <1>2, AllSeqs
<1> QED
  BY <1>3

LEMMA BlankIs ==
    ASSUME NEW s \in Seq(Symbols)
    PROVE  Blank(s) <=> Letters(s) = <<>>
<1>1. ASSUME Blank(s) PROVE \A i \in 1..Len(s) : s[i] \in Blanks
  <2>1. Gap(s) = s
    BY <1>1 DEF Blank
  <2> QED
    BY <2>1, GapIs
<1>2. ASSUME \A i \in 1..Len(s) : s[i] \in Blanks PROVE Blank(s)
  BY <1>2, GapIs DEF Blank
<1> QED
  BY <1>1, <1>2, LettersSeq

LEMMA GapHasNone ==
    ASSUME NEW s \in Seq(Symbols)
    PROVE  Letters(Gap(s)) = <<>>
<1>1. Gap(s) \in Seq(Symbols) /\ \A i \in 1..Len(Gap(s)) : Gap(s)[i] \in Blanks
  BY GapIs
<1> QED
  BY <1>1, LettersSeq

-----------------------------------------------------------------------------
\* What begins with what

LEMMA PrefixIs ==
    ASSUME NEW a \in Seq(Symbols), NEW c \in Seq(Symbols), IsPrefix(a, c)
    PROVE  \E r \in Seq(Symbols) : c = a \o r
<1>1. Len(a) \in 0..Len(c) /\ SubSeq(a, 1, Len(a)) = Place(c, Len(a))
  BY DEF IsPrefix, Place
<1>2. SubSeq(a, 1, Len(a)) = a
  BY SubSeqFull
<1>3. /\ SubSeq(c, Len(a) + 1, Len(c)) \in Seq(Symbols)
      /\ c = Place(c, Len(a)) \o SubSeq(c, Len(a) + 1, Len(c))
  BY <1>1, PlaceIs
<1> QED
  BY <1>1, <1>2, <1>3

LEMMA PrefixOf ==
    ASSUME NEW a \in Seq(Symbols), NEW b \in Seq(Symbols)
    PROVE  IsPrefix(a, a \o b)
<1>1. Len(a) \in 0..Len(a \o b) /\ Place(a \o b, Len(a)) = a
  BY PlaceOfFirst
<1>2. SubSeq(a, 1, Len(a)) = a
  BY SubSeqFull
<1> QED
  BY <1>1, <1>2 DEF IsPrefix, Place

LEMMA PrefixLetters ==
    ASSUME NEW a \in Seq(Symbols), NEW c \in Seq(Symbols), IsPrefix(a, c)
    PROVE  IsPrefix(Letters(a), Letters(c))
<1>1. PICK r \in Seq(Symbols) : c = a \o r
  BY PrefixIs
<1>2. Letters(c) = Letters(a) \o Letters(r)
  BY <1>1, LettersJoin
<1>3. Letters(a) \in Seq(Symbols) /\ Letters(r) \in Seq(Symbols)
  BY LettersSeq
<1> QED
  BY <1>2, <1>3, PrefixOf

LEMMA PrefixBehind ==
    ASSUME NEW h \in Seq(Symbols), NEW a \in Seq(Symbols), NEW c \in Seq(Symbols), IsPrefix(a, c)
    PROVE  IsPrefix(h \o a, h \o c)
<1>1. PICK r \in Seq(Symbols) : c = a \o r
  BY PrefixIs
<1>2. h \o c = (h \o a) \o r
  BY <1>1, JoinThree
<1>3. h \o a \in Seq(Symbols)
  OBVIOUS
<1> QED
  BY <1>2, <1>3, PrefixOf

\* Each of r is one of list, at a place of I.
Among(r, list, I) == \A k \in 1..Len(r) : \E i \in I : r[k] = list[i]

\* What is kept of a list is in the list.
LEMMA KeptFrom ==
    ASSUME NEW S, NEW list \in Seq(S), NEW I, I \subseteq 1..Len(list)
    PROVE  Kept(list, I) \in Seq(S) /\ Among(Kept(list, I), list, I)
<1>1. PICK e : Embeds(Kept(list, I), list, I, e)
  BY KeptEmbeds
<1> QED
  BY <1>1, KeptEmbeds DEF Embeds, Among

LEMMA MatchingIs ==
    ASSUME NEW list \in Seq(Seq(Symbols)), NEW s
    PROVE  /\ Matching(list, s) \in Seq(Seq(Symbols))
           /\ \A k \in 1..Len(Matching(list, s)) : IsPrefix(s, Matching(list, s)[k])
<1> DEFINE found == {i \in 1..Len(list) : IsPrefix(s, list[i])}
           exact == {i \in found : list[i] = s}
           x == Kept(list, exact)
           y == Kept(list, found \ exact)
<1>1. /\ exact \subseteq 1..Len(list) /\ found \ exact \subseteq 1..Len(list)
      /\ \A i \in exact : IsPrefix(s, list[i])
      /\ \A i \in found \ exact : IsPrefix(s, list[i])
  OBVIOUS
<1>2. Matching(list, s) = x \o y
  BY DEF Matching
<1> HIDE DEF found, exact
<1> DEFINE S == Seq(Symbols)
           inexact == found \ exact
<1>0. list \in Seq(S) /\ inexact \subseteq 1..Len(list)
  BY <1>1
<1>3. x \in Seq(S) /\ Among(x, list, exact)
  <2> HIDE DEF S
  <2> QED
    BY <1>0, <1>1, KeptFrom
<1>4. y \in Seq(S) /\ Among(y, list, inexact)
  <2> HIDE DEF S
  <2>1. Kept(list, inexact) \in Seq(S) /\ Among(Kept(list, inexact), list, inexact)
    <3> HIDE DEF inexact
    <3> QED
      BY <1>0, KeptFrom
  <2> QED
    BY <2>1
<1> HIDE DEF x, y
<1> DEFINE z == x \o y
<1>5. /\ z \in Seq(Seq(Symbols)) /\ Len(z) = Len(x) + Len(y) /\ Len(x) \in Nat /\ Len(y) \in Nat
      /\ \A i \in 1..Len(x) : z[i] = x[i]
      /\ \A j \in 1..Len(y) : z[Len(x) + j] = y[j]
  BY <1>3, <1>4, JoinIs
<1> HIDE DEF z
<1>6. ASSUME NEW k \in 1..Len(z) PROVE IsPrefix(s, z[k])
  <2>1. CASE k <= Len(x)
    <3>1. k \in 1..Len(x)
      BY <1>5, <2>1
    <3> QED
      BY <1>1, <1>3, <1>5, <3>1 DEF Among
  <2>2. CASE k > Len(x)
    <3> DEFINE j == k - Len(x)
    <3>1. j \in 1..Len(y) /\ Len(x) + j = k
      BY <1>5, <2>2
    <3> HIDE DEF j
    <3>2. z[k] = y[j]
      BY <1>5, <3>1
    <3> QED
      BY <1>1, <1>4, <3>1, <3>2 DEF Among
  <2> QED
    BY <1>5, <2>1, <2>2
<1> QED
  BY <1>2, <1>5, <1>6 DEF z

-----------------------------------------------------------------------------
\* The picker

Pickers == [open : BOOLEAN, candidates : Seq(Seq(Symbols)), selected : Nat, replaceEnd : Nat]

\* An open picker is right for a text with the cursor at off: wherever what it
\* highlights may move.
PickerFor(s, off, p) ==
    p.open =>
        /\ p.selected < Len(p.candidates)
        /\ Boundary(s, p.replaceEnd)
        /\ \A i \in 1..Len(p.candidates) :
              IsPrefix(Letters(Upto(s, p.replaceEnd)), Letters(p.candidates[i]))
        /\ off <= p.replaceEnd \/ Letters(From(s, p.replaceEnd)) = <<>>

LEMMA ClosedFits ==
    ASSUME NEW p \in Pickers
    PROVE  ClosePicker(p) \in Pickers /\ ~ClosePicker(p).open
<1>1. <<>> \in Seq(Seq(Symbols))
  OBVIOUS
<1> QED
  BY <1>1 DEF Pickers, ClosePicker

LEMMA OpenedFits ==
    ASSUME NEW list \in Seq(Seq(Symbols)), list # <<>>, NEW a \in Seq(Symbols), NEW b \in Seq(Symbols),
           NEW off, off <= Bytes(a) \/ Letters(b) = <<>>,
           \A i \in 1..Len(list) : IsPrefix(Letters(a), Letters(list[i]))
    PROVE  OpenPicker(list, Bytes(a)) \in Pickers /\ PickerFor(a \o b, off, OpenPicker(list, Bytes(a)))
<1> DEFINE p == OpenPicker(list, Bytes(a))
<1>1. p = [open |-> TRUE, candidates |-> list, selected |-> 0, replaceEnd |-> Bytes(a)]
  BY DEF OpenPicker
<1>2. Bytes(a) \in Nat
  BY BytesNat
<1>3. p \in Pickers
  BY <1>1, <1>2 DEF Pickers
<1>4. Boundary(a \o b, Bytes(a)) /\ Upto(a \o b, Bytes(a)) = a /\ From(a \o b, Bytes(a)) = b
  BY CutAt
<1>5. 0 < Len(list)
  BY EmptySeq
<1>6. /\ p.selected = 0 /\ p.candidates = list /\ p.replaceEnd = Bytes(a)
  BY <1>1
<1> HIDE DEF p
<1>7. PickerFor(a \o b, off, p)
  BY <1>4, <1>5, <1>6 DEF PickerFor
<1> QED
  BY <1>3, <1>7 DEF p

LEMMA ListsAre ==
    /\ Catalog \in Seq(Seq(Symbols))
    /\ \A c \in DOMAIN Subs : Subs[c] \in Seq(Seq(Symbols)) /\ c \in Seq(Symbols)
    /\ Builtins \subseteq DOMAIN Subs
<1> DEFINE L == Symbols \ Blanks
<1>1. /\ Catalog \in Seq(Seq(L)) /\ Builtins \subseteq {Catalog[i] : i \in 1..Len(Catalog)}
      /\ Subs \in [{Catalog[i] : i \in 1..Len(Catalog)} -> Seq(Seq(L))]
  BY ComposerAssumption
<1>2. ASSUME NEW q \in Seq(Seq(L)) PROVE q \in Seq(Seq(Symbols))
  <2>1. \A i \in 1..Len(q) : q[i] \in Seq(L)
    OBVIOUS
  <2>2. ASSUME NEW c \in Seq(L) PROVE c \in Seq(Symbols)
    OBVIOUS
  <2> HIDE DEF L
  <2>3. \A i \in 1..Len(q) : q[i] \in Seq(Symbols)
    BY <2>1, <2>2
  <2> QED
    BY <2>3
<1>3. DOMAIN Subs = {Catalog[i] : i \in 1..Len(Catalog)} /\ \A c \in DOMAIN Subs : Subs[c] \in Seq(Seq(L))
  BY <1>1
<1>4. Catalog \in Seq(Seq(Symbols))
  BY <1>1, <1>2
<1>5. \A i \in 1..Len(Catalog) : Catalog[i] \in Seq(Symbols)
  BY <1>4
<1> QED
  BY <1>1, <1>2, <1>3, <1>4, <1>5

LEMMA CommandFits ==
    ASSUME NEW s \in Seq(Symbols), NEW off \in Nat, NEW p \in Pickers
    PROVE  PickCommand(s, off, p) \in Pickers /\ PickerFor(s, off, PickCommand(s, off, p))
<1> DEFINE head == Word(s)
           found == Matching(Catalog, head)
<1>1. PICK r \in Seq(Symbols) : head \in Seq(Symbols) /\ s = head \o r
  BY WordIs
<1>2. found \in Seq(Seq(Symbols)) /\ \A k \in 1..Len(found) : IsPrefix(head, found[k])
  BY ListsAre, MatchingIs
<1>3. PickCommand(s, off, p) = IF off > Bytes(head) \/ found = <<>> THEN ClosePicker(p)
                               ELSE OpenPicker(found, Bytes(head))
  BY DEF PickCommand
<1> HIDE DEF head, found
<1>4. CASE off > Bytes(head) \/ found = <<>>
  BY <1>3, <1>4, ClosedFits DEF PickerFor
<1>5. CASE ~(off > Bytes(head)) /\ found # <<>>
  <2>1. \A k \in 1..Len(found) : found[k] \in Seq(Symbols)
    BY <1>2
  <2>2. \A k \in 1..Len(found) : IsPrefix(Letters(head), Letters(found[k]))
    BY <1>1, <1>2, <2>1, PrefixLetters
  <2>3. off <= Bytes(head)
    BY <1>1, <1>5, BytesNat
  <2> QED
    BY <1>1, <1>2, <1>3, <1>5, <2>2, <2>3, OpenedFits
<1> QED
  BY <1>4, <1>5

LEMMA SubcommandFits ==
    ASSUME NEW s \in Seq(Symbols), NEW off \in Nat, NEW p \in Pickers, Word(s) \in DOMAIN Subs
    PROVE  PickSubcommand(s, off, p) \in Pickers /\ PickerFor(s, off, PickSubcommand(s, off, p))
<1> DEFINE head == Word(s)
           headEnd == Bytes(head)
           gap == Gap(From(s, headEnd))
           start == headEnd + Bytes(gap)
           partial == Word(From(s, start))
           end == start + Bytes(partial)
           found == Matching(Subs[head], partial)
           list == [i \in 1..Len(found) |-> head \o <<Space>> \o found[i]]
           upto == (head \o gap) \o partial
<1>1. PickSubcommand(s, off, p) =
        IF off > end \/ found = <<>> THEN ClosePicker(p)
        ELSE OpenPicker(list, IF headEnd = Bytes(s) THEN headEnd ELSE end)
  BY DEF PickSubcommand
<1>2. PICK r1 \in Seq(Symbols) : head \in Seq(Symbols) /\ s = head \o r1
  BY WordIs
<1>3. found \in Seq(Seq(Symbols)) /\ \A k \in 1..Len(found) : IsPrefix(partial, found[k])
  <2>1. Subs[head] \in Seq(Seq(Symbols))
    BY ListsAre
  <2> HIDE DEF head, partial
  <2> QED
    BY <2>1, MatchingIs
<1>4. From(s, headEnd) = r1
  <2> HIDE DEF head
  <2> QED
    BY <1>2, CutAt
<1>5. PICK r2 \in Seq(Symbols) : gap \in Seq(Symbols) /\ r1 = gap \o r2
  BY <1>4, GapIs
<1>6. Letters(gap) = <<>>
  BY <1>4, GapHasNone
<1>7. /\ head \o gap \in Seq(Symbols) /\ s = (head \o gap) \o r2
      /\ Bytes(head \o gap) = start
  <2> HIDE DEF head, gap
  <2> QED
    BY <1>2, <1>5, JoinThree, BytesJoin
<1>8. From(s, start) = r2
  <2> HIDE DEF head, gap, start
  <2> QED
    BY <1>7, CutAt
<1>9. PICK r3 \in Seq(Symbols) : partial \in Seq(Symbols) /\ r2 = partial \o r3
  BY <1>8, WordIs
<1>10. upto \in Seq(Symbols) /\ s = upto \o r3 /\ Bytes(upto) = end
  <2> DEFINE h == head \o gap
  <2> HIDE DEF head, gap, partial, start, h
  <2>1. h \o partial \in Seq(Symbols) /\ s = (h \o partial) \o r3
    <3>1. h \in Seq(Symbols) /\ partial \in Seq(Symbols) /\ r3 \in Seq(Symbols)
      BY <1>7, <1>9 DEF h
    <3>2. h \o (partial \o r3) = (h \o partial) \o r3
      BY <3>1, JoinThree, SMTT(30)
    <3>3. s = h \o (partial \o r3)
      BY <1>7, <1>9 DEF h
    <3> QED
      BY <3>1, <3>2, <3>3
  <2>2. Bytes(h \o partial) = Bytes(h) + Bytes(partial)
    BY <1>7, <1>9, BytesJoin DEF h
  <2> QED
    BY <1>7, <2>1, <2>2 DEF h
<1> HIDE DEF head, gap, start, partial, found
<1> DEFINE space == <<Space>>
           lh == Letters(head)
<1>11. space \in Seq(Symbols) /\ Letters(space) = <<>>
  <2>1. space \in Seq(Symbols) /\ \A i \in 1..Len(space) : space[i] \in Blanks
    BY SpaceIs
  <2> HIDE DEF space
  <2> QED
    BY <2>1, LettersSeq
<1> HIDE DEF space
<1>12. ASSUME NEW i \in 1..Len(found)
       PROVE  /\ list[i] \in Seq(Symbols) /\ found[i] \in Seq(Symbols)
              /\ list[i] = head \o (space \o found[i])
              /\ Letters(list[i]) = lh \o Letters(found[i])
  <2> DEFINE f == found[i]
  <2>1. list[i] = (head \o space) \o f
    BY DEF space
  <2>0. f \in Seq(Symbols)
    BY <1>3
  <2> HIDE DEF f, list, lh
  <2>2. head \o space \in Seq(Symbols) /\ list[i] \in Seq(Symbols) /\ list[i] = head \o (space \o f)
    <3>1. head \o space \in Seq(Symbols) /\ (head \o space) \o f \in Seq(Symbols)
      BY <1>2, <1>11, <2>0
    <3>2. head \o (space \o f) = (head \o space) \o f
      <4>1. head \in Seq(Symbols) /\ space \in Seq(Symbols) /\ f \in Seq(Symbols)
        BY <1>2, <1>11, <2>0
      <4> QED
        BY <4>1, JoinThree, SMTT(30)
    <3> QED
      BY <2>1, <3>1, <3>2
  <2>3. Letters(head \o space) = lh
    <3>1. Letters(head \o space) = lh \o <<>>
      <4>1. head \in Seq(Symbols) /\ space \in Seq(Symbols)
        BY <1>2, <1>11
      <4>2. Letters(head \o space) = Letters(head) \o Letters(space)
        BY <4>1, LettersJoin, ZenonT(40)
      <4> QED
        BY <1>11, <4>2 DEF lh
    <3>2. lh \in Seq(Symbols)
      BY <1>2, LettersSeq DEF lh
    <3> QED
      BY <3>1, <3>2, ConcatEmptySeq
  <2>4. Letters(list[i]) = Letters(head \o space) \o Letters(f)
    <3> DEFINE hs == head \o space
    <3>1. hs \in Seq(Symbols) /\ f \in Seq(Symbols) /\ list[i] = hs \o f
      BY <1>2, <1>11, <2>0, <2>1
    <3> HIDE DEF hs
    <3>2. Letters(hs \o f) = Letters(hs) \o Letters(f)
      BY <3>1, LettersJoin, ZenonT(40)
    <3> QED
      BY <3>1, <3>2 DEF hs
  <2> QED
    BY <2>0, <2>1, <2>2, <2>3, <2>4 DEF f
<1>13. list \in Seq(Seq(Symbols)) /\ Len(list) = Len(found)
  <2> DEFINE g(i) == head \o <<Space>> \o found[i]
             S == Seq(Symbols)
  <2>1. \A i \in 1..Len(found) : g(i) \in S
    BY <1>12
  <2>2. Len(found) \in Nat /\ list = [i \in 1..Len(found) |-> g(i)]
    BY <1>3
  <2> HIDE DEF g, S, list
  <2>3. list \in Seq(S) /\ Len(list) = Len(found)
    BY <2>1, <2>2
  <2> QED
    BY <2>3 DEF S
<1> HIDE DEF list
<1>14. CASE off > end \/ found = <<>>
  BY <1>1, <1>14, ClosedFits DEF PickerFor
<1>15. CASE ~(off > end \/ found = <<>>)
  <2>1. list # <<>>
    <3>1. Len(found) # 0
      BY <1>3, <1>15, EmptySeq
    <3> QED
      BY <1>13, <3>1
  <2>2. CASE headEnd = Bytes(s)
    <3>1. Letters(r1) = <<>>
      <4>1. Bytes(s) = Bytes(head) + Bytes(r1)
        BY <1>2, BytesJoin
      <4>2. Bytes(head) \in Nat /\ Bytes(r1) \in Nat /\ Len(r1) <= Bytes(r1) /\ Len(r1) \in Nat
        BY <1>2, BytesNat
      <4>3. Len(r1) = 0
        BY <2>2, <4>1, <4>2
      <4>4. r1 = <<>>
        BY <4>3, EmptySeq
      <4> QED
        BY <4>4, LettersEmpty
    <3>2. \A i \in 1..Len(list) : IsPrefix(Letters(head), Letters(list[i]))
      <4> TAKE i \in 1..Len(list)
      <4> DEFINE sf == space \o found[i]
      <4>1. i \in 1..Len(found)
        BY <1>13
      <4>2. found[i] \in Seq(Symbols) /\ list[i] = head \o sf /\ list[i] \in Seq(Symbols)
        BY <1>12, <4>1
      <4>4. sf \in Seq(Symbols)
        BY <1>11, <4>2
      <4> HIDE DEF sf
      <4>3. IsPrefix(head, list[i])
        BY <1>2, <4>2, <4>4, PrefixOf
      <4> QED
        BY <1>2, <4>2, <4>3, PrefixLetters
    <3>3. PickSubcommand(s, off, p) = OpenPicker(list, Bytes(head))
      BY <1>1, <1>15, <2>2
    <3> QED
      BY <1>2, <1>13, <2>1, <3>1, <3>2, <3>3, OpenedFits
  <2>3. CASE headEnd # Bytes(s)
    <3>1. Letters(upto) = lh \o Letters(partial)
      <4> DEFINE hg == head \o gap
      <4>1. hg \in Seq(Symbols)
        BY <1>7
      <4>2. Letters(hg) = lh \o <<>>
        <5>1. Letters(head \o gap) = Letters(head) \o Letters(gap)
          BY <1>2, <1>5, LettersJoin
        <5> QED
          BY <1>6, <5>1
      <4>3. lh \in Seq(Symbols)
        BY <1>2, LettersSeq
      <4>4. Letters(hg) = lh
        <5> HIDE DEF lh, hg
        <5> QED
          BY <4>2, <4>3, ConcatEmptySeq
      <4>5. Letters(hg \o partial) = Letters(hg) \o Letters(partial)
        <5> HIDE DEF hg
        <5> QED
          BY <1>9, <4>1, LettersJoin
      <4> QED
        BY <4>4, <4>5
    <3>2. \A i \in 1..Len(list) : IsPrefix(Letters(upto), Letters(list[i]))
      <4> TAKE i \in 1..Len(list)
      <4> DEFINE lp == Letters(partial)
                 lf == Letters(found[i])
      <4>1. i \in 1..Len(found)
        BY <1>13
      <4>2. found[i] \in Seq(Symbols) /\ Letters(list[i]) = lh \o lf
        BY <1>12, <4>1
      <4>3. IsPrefix(lp, lf)
        BY <1>3, <1>9, <4>1, <4>2, PrefixLetters
      <4>4. lp \in Seq(Symbols) /\ lf \in Seq(Symbols) /\ lh \in Seq(Symbols)
        BY <1>2, <1>9, <4>2, LettersSeq
      <4>5. IsPrefix(lh \o lp, lh \o lf)
        <5> HIDE DEF lh, lp, lf
        <5> QED
          BY <4>3, <4>4, PrefixBehind
      <4> QED
        BY <3>1, <4>2, <4>5
    <3>3. PickSubcommand(s, off, p) = OpenPicker(list, Bytes(upto))
      <4> HIDE DEF upto
      <4> QED
        BY <1>1, <1>10, <1>15, <2>3
    <3>4. off <= Bytes(upto)
      <4>1. end \in Nat
        <5> HIDE DEF end, upto
        <5> QED
          BY <1>10, BytesNat
      <4> HIDE DEF end, upto
      <4> QED
        BY <1>10, <1>15, <4>1
    <3> HIDE DEF upto
    <3> QED
      BY <1>10, <1>13, <2>1, <3>2, <3>3, <3>4, OpenedFits
  <2> QED
    BY <2>2, <2>3
<1> QED
  BY <1>14, <1>15

\* Whatever refresh_picker leaves is right for the text and the cursor.
LEMMA RefreshFits ==
    ASSUME NEW s \in Seq(Symbols), NEW off \in Nat, NEW p \in Pickers, NEW shut \in BOOLEAN
    PROVE  Refresh(s, off, p, shut) \in Pickers /\ PickerFor(s, off, Refresh(s, off, p, shut))
<1>1. CASE shut \/ ~IsCommand(s)
  BY <1>1, ClosedFits DEF Refresh, PickerFor
<1>2. CASE ~(shut \/ ~IsCommand(s)) /\ Word(s) \in DOMAIN Subs /\ Subs[Word(s)] # <<>>
  BY <1>2, SubcommandFits DEF Refresh
<1>3. CASE ~(shut \/ ~IsCommand(s)) /\ ~(Word(s) \in DOMAIN Subs /\ Subs[Word(s)] # <<>>)
  BY <1>3, CommandFits DEF Refresh
<1> QED
  BY <1>1, <1>2, <1>3

-----------------------------------------------------------------------------
\* Completing a word

\* What some texts share is a text: one of them is as long as any can be.
LEMMA SharedIsText ==
    ASSUME NEW found \in Seq(Seq(Symbols)), found # <<>>
    PROVE  Shared(found) \in Seq(Symbols)
<1> DEFINE all == {found[i] : i \in 1..Len(found)}
           C == CommonPrefixes(all)
           first == found[1]
           Longest(x) == \A other \in C : Len(other) <= Len(x)
           T == {n \in 0..Len(first) : \E x \in C : Len(x) = Len(first) - n}
<1>1. 1 \in 1..Len(found)
  BY EmptySeq
<1>2. first \in Seq(Symbols) /\ first \in all /\ Len(first) \in Nat
  BY <1>1
<1>3. \A t \in all : t \in Seq(Symbols)
  OBVIOUS
<1> HIDE DEF all, first
<1>4. \A x \in C : x \in Seq(Symbols) /\ Len(x) \in 0..Len(first)
  <2> TAKE x \in C
  <2>1. PICK t \in all : x \in Prefixes(t)
    BY DEF CommonPrefixes
  <2>2. PICK k \in 0..Len(t) : x = Place(t, k)
    BY <2>1 DEF Prefixes, Place
  <2>3. x \in Seq(Symbols)
    BY <1>3, <2>1, <2>2, PlaceIs
  <2>4. Len(x) <= Len(first)
    BY <1>2 DEF CommonPrefixes, IsPrefix
  <2> QED
    BY <1>2, <2>3, <2>4
<1>5. <<>> \in C
  <2>1. \A t \in all : IsPrefix(<<>>, t)
    <3> TAKE t \in all
    <3>1. <<>> \in Seq(Symbols) /\ t \in Seq(Symbols) /\ <<>> \o t = t
      BY <1>3, ConcatEmptySeq
    <3> QED
      BY <3>1, PrefixOf
  <2>2. <<>> \in Prefixes(first)
    <3>1. Place(first, 0) = <<>> /\ 0 \in 0..Len(first)
      <4>1. 0 \in 0..Len(first)
        BY <1>2
      <4>2. Place(first, 0) \in Seq(Symbols) /\ Len(Place(first, 0)) = 0
        BY <1>2, <4>1, PlaceIs
      <4> QED
        BY <4>1, <4>2, EmptySeq
    <3> QED
      BY <3>1 DEF Prefixes, Place
  <2> QED
    BY <1>2, <2>1, <2>2 DEF CommonPrefixes
<1> HIDE DEF C
<1>6. T \subseteq Nat /\ T # {}
  <2>1. Len(first) \in T
    <3>1. Len(<<>>) = Len(first) - Len(first) /\ Len(first) \in 0..Len(first)
      BY <1>2
    <3> QED
      BY <1>5, <3>1
  <2>2. T \subseteq 0..Len(first)
    OBVIOUS
  <2> HIDE DEF T
  <2> QED
    BY <1>2, <2>1, <2>2
<1>7. PICK n \in T : \A m \in T : n <= m
  <2> HIDE DEF T
  <2> QED
    BY <1>6, LeastNat
<1>8. PICK x \in C : Len(x) = Len(first) - n
  BY <1>7
<1>9. Longest(x)
  <2> SUFFICES ASSUME NEW other \in C PROVE Len(other) <= Len(x)
    OBVIOUS
  <2> DEFINE m == Len(first) - Len(other)
  <2>1. m \in 0..Len(first) /\ Len(other) = Len(first) - m /\ n \in Nat /\ Len(other) \in Nat
    BY <1>2, <1>4, <1>7
  <2>2. n <= m
    <3> HIDE DEF m
    <3> QED
      BY <1>7, <2>1
  <2> QED
    BY <1>2, <1>8, <2>1, <2>2
<1>10. LongestCommonPrefix(all) = CHOOSE c \in C : Longest(c)
  BY DEF LongestCommonPrefix, C
<1>11. LongestCommonPrefix(all) \in C
  BY <1>9, <1>10
<1>12. Shared(found) = LongestCommonPrefix(all)
  BY DEF Shared, all
<1> QED
  BY <1>4, <1>11, <1>12

LEMMA CompletionIsText ==
    ASSUME NEW word \in Seq(Symbols), NEW list \in Seq(Seq(Symbols)), NEW rest \in Seq(Symbols),
           Completable(word, list)
    PROVE  Completion(word, list, rest) \in Seq(Symbols)
<1> DEFINE I == {i \in 1..Len(list) : IsPrefix(word, list[i])}
           found == Continuing(word, list)
           more == IF rest # <<>> /\ rest[1] \in Blanks THEN <<>> ELSE <<Space>>
<1>1. found \in Seq(Seq(Symbols))
  <2> DEFINE S == Seq(Symbols)
  <2>1. I \subseteq 1..Len(list) /\ list \in Seq(S)
    OBVIOUS
  <2>2. found = Kept(list, I)
    BY DEF Continuing
  <2>3. Kept(list, I) \in Seq(S)
    <3> HIDE DEF I, S
    <3> QED
      BY <2>1, KeptFrom
  <2> QED
    BY <2>2, <2>3
<1>2. Len(found) = 1 \/ found # <<>>
  BY DEF Completable
<1>3. Completion(word, list, rest) = IF Len(found) # 1 THEN Shared(found) ELSE found[1] \o more
  BY DEF Completion
<1>4. more \in Seq(Symbols)
  BY SpaceIs
<1> HIDE DEF found, more
<1>5. CASE Len(found) = 1
  <2>1. found[1] \in Seq(Symbols)
    <3>1. 1 \in 1..Len(found)
      BY <1>5
    <3> QED
      BY <1>1, <3>1
  <2> QED
    BY <1>3, <1>4, <1>5, <2>1
<1>6. CASE Len(found) # 1
  BY <1>1, <1>2, <1>3, <1>6, SharedIsText
<1> QED
  BY <1>5, <1>6

-----------------------------------------------------------------------------
\* The invariant

CTypeOK ==
    /\ composer \in Seq(Symbols)
    /\ inputHistory \in Seq(Seq(Symbols)) /\ historyIndex \in 0..Len(inputHistory)
    /\ historyDraft \in Seq(Symbols) /\ draftWas \in Seq(Symbols)
    /\ picker \in Pickers
    /\ dismissed \in BOOLEAN /\ mended \in BOOLEAN
    /\ submitted \in Seq(Symbols)

\* The next key finds the cursor and the picker right for the text.
LineInv == Boundary(composer, cursor) /\ PickerFor(composer, cursor, picker)

\* While a line is recalled the draft is kept, and the line is as it was unless
\* it was mended.
RecallInv ==
    historyIndex # 0 =>
        /\ historyDraft = draftWas
        /\ mended \/ composer = inputHistory[historyIndex]

InputInv == CTypeOK /\ LineInv /\ RecallInv

LEMMA InputInit == CInit => InputInv
<1> SUFFICES ASSUME CInit PROVE InputInv
  OBVIOUS
<1>1. <<>> \in Seq(Symbols) /\ <<>> \in Seq(Seq(Symbols))
  OBVIOUS
<1>2. inputHistory \in Seq(Seq(Symbols)) /\ Len(inputHistory) \in Nat
  BY ComposerAssumption DEF CInit
<1>3. picker \in Pickers /\ ~picker.open
  BY <1>1 DEF CInit, Pickers
<1>4. CTypeOK
  <2>1. composer \in Seq(Symbols) /\ historyDraft \in Seq(Symbols) /\ draftWas \in Seq(Symbols) /\ submitted \in Seq(Symbols)
    BY <1>1 DEF CInit
  <2>2. dismissed \in BOOLEAN /\ mended \in BOOLEAN
    BY DEF CInit
  <2>3. historyIndex \in 0..Len(inputHistory)
    <3>1. historyIndex = 0
      BY DEF CInit
    <3> QED
      BY <1>2, <3>1
  <2> QED
    BY <1>2, <1>3, <2>1, <2>2, <2>3 DEF CTypeOK
<1>5. LineInv
  BY <1>1, <1>3, EndsAreEdges DEF CInit, LineInv, PickerFor
<1>6. RecallInv
  BY DEF CInit, RecallInv
<1> QED
  BY <1>4, <1>5, <1>6 DEF InputInv

LEMMA HighlightedIs ==
    ASSUME CTypeOK, LineInv, picker.open
    PROVE  /\ Highlighted \in Seq(Symbols) /\ picker.selected + 1 \in 1..Len(picker.candidates)
           /\ IsPrefix(Letters(Upto(composer, picker.replaceEnd)), Letters(Highlighted))
<1> DEFINE i == picker.selected + 1
<1>1. /\ picker.candidates \in Seq(Seq(Symbols)) /\ picker.selected \in Nat
      /\ picker.selected < Len(picker.candidates)
  BY DEF CTypeOK, Pickers, LineInv, PickerFor
<1>2. i \in 1..Len(picker.candidates)
  BY <1>1
<1>3. Highlighted = picker.candidates[i]
  BY DEF Highlighted
<1> HIDE DEF i
<1>4. picker.candidates[i] \in Seq(Symbols)
  BY <1>1, <1>2
<1> QED
  BY <1>2, <1>3, <1>4 DEF LineInv, PickerFor, i

\* A text, a cursor on an edge and what refresh_picker makes of them.
LEMMA RefreshedLine ==
    ASSUME CTypeOK, NEW s \in Seq(Symbols), NEW off, Boundary(s, off), NEW shut \in BOOLEAN,
           composer' = s, cursor' = off, picker' = Refresh(s, off, picker, shut)
    PROVE  composer' \in Seq(Symbols) /\ picker' \in Pickers /\ LineInv'
<1>1. off \in Nat
  BY CutIs
<1>2. picker' \in Pickers /\ PickerFor(s, off, picker')
  BY <1>1, RefreshFits DEF CTypeOK
<1> QED
  BY <1>2 DEF LineInv

LEMMA EditedKeeps ==
    ASSUME InputInv, NEW s \in Seq(Symbols), NEW off, Boundary(s, off), Edited(s, off)
    PROVE  InputInv'
<1>1. CTypeOK
  BY DEF InputInv
<1>2. /\ composer' = s /\ cursor' = off /\ picker' = Refresh(s, off, picker, FALSE)
      /\ dismissed' = FALSE /\ historyIndex' = 0 /\ historyDraft' = <<>>
      /\ UNCHANGED <<inputHistory, draftWas, mended, submitted>>
  BY DEF Edited, ExitHistoryNav
<1>3. composer' \in Seq(Symbols) /\ picker' \in Pickers /\ LineInv'
  BY <1>1, <1>2, RefreshedLine
<1>4. <<>> \in Seq(Symbols) /\ Len(inputHistory) \in Nat
  BY <1>1 DEF CTypeOK
<1>5. CTypeOK'
  <2>1. historyDraft' \in Seq(Symbols) /\ dismissed' \in BOOLEAN
    BY <1>2, <1>4
  <2>2. historyIndex' \in 0..Len(inputHistory')
    BY <1>2, <1>4
  <2> QED
    BY <1>1, <1>2, <1>3, <2>1, <2>2 DEF CTypeOK
<1> QED
  BY <1>2, <1>3, <1>5 DEF InputInv, RecallInv

LEMMA InsertCharKeeps == ASSUME InputInv, NEW c \in Symbols, InsertChar(c) PROVE InputInv'
<1> DEFINE a == Upto(composer, cursor)
           b == From(composer, cursor)
           u == <<c>>
           s == a \o u \o b
           off == cursor + Bytes(u)
<1>1. a \in Seq(Symbols) /\ b \in Seq(Symbols) /\ Bytes(a) = cursor
  BY CutIs DEF InputInv, CTypeOK, LineInv
<1>2. u \in Seq(Symbols)
  OBVIOUS
<1>3. Edited(s, off)
  BY DEF InsertChar
<1> HIDE DEF a, b, u
<1> DEFINE d == a \o u
<1>4. d \in Seq(Symbols) /\ Bytes(d) = off /\ s = d \o b
  BY <1>1, <1>2, BytesJoin
<1> HIDE DEF d, off, s
<1>5. s \in Seq(Symbols) /\ Boundary(s, off)
  BY <1>1, <1>4, CutAt
<1> QED
  BY <1>3, <1>5, EditedKeeps

LEMMA BackspaceKeeps == ASSUME InputInv, Backspace PROVE InputInv'
<1>1. composer \in Seq(Symbols) /\ Boundary(composer, cursor)
  BY DEF InputInv, CTypeOK, LineInv
<1>2. CASE cursor = 0
  BY <1>1, <1>2, EditedKeeps, EndsAreEdges DEF Backspace
<1>3. CASE cursor # 0
  <2> DEFINE p == PrevBoundary(composer, cursor)
             a == Upto(composer, p)
             b == From(composer, cursor)
             s == a \o b
  <2>1. Boundary(composer, p)
    BY <1>1, <1>3, PrevIsEdge
  <2>2. a \in Seq(Symbols) /\ Bytes(a) = p /\ b \in Seq(Symbols)
    <3> HIDE DEF p
    <3> QED
      BY <1>1, <2>1, CutIs
  <2>3. Edited(s, p)
    BY <1>3 DEF Backspace
  <2> HIDE DEF a, b, p
  <2>4. s \in Seq(Symbols) /\ Boundary(s, p)
    BY <2>2, CutAt
  <2> HIDE DEF s
  <2> QED
    BY <2>3, <2>4, EditedKeeps
<1> QED
  BY <1>2, <1>3

LEMMA MoveLeftKeeps == ASSUME InputInv, MoveLeft PROVE InputInv'
<1> DEFINE off == IF cursor = 0 THEN 0 ELSE PrevBoundary(composer, cursor)
<1>1. composer \in Seq(Symbols) /\ Boundary(composer, cursor)
  BY DEF InputInv, CTypeOK, LineInv
<1>2. Boundary(composer, off)
  BY <1>1, EndsAreEdges, PrevIsEdge
<1>3. Edited(composer, off)
  BY DEF MoveLeft
<1> HIDE DEF off
<1> QED
  BY <1>1, <1>2, <1>3, EditedKeeps

LEMMA MoveRightKeeps == ASSUME InputInv, MoveRight PROVE InputInv'
<1> DEFINE off == IF cursor = Bytes(composer) THEN cursor ELSE NextBoundary(composer, cursor)
<1>1. composer \in Seq(Symbols) /\ Boundary(composer, cursor)
  BY DEF InputInv, CTypeOK, LineInv
<1>2. Boundary(composer, off)
  BY <1>1, NextIsEdge
<1>3. Edited(composer, off)
  BY DEF MoveRight
<1> HIDE DEF off
<1> QED
  BY <1>1, <1>2, <1>3, EditedKeeps

LEMMA EnterKeeps == ASSUME InputInv, Enter PROVE InputInv'
<1> DEFINE s == IF picker.open THEN Highlighted ELSE composer
           latest == IF inputHistory = <<>> THEN <<>> ELSE Last(inputHistory)
<1>1. CTypeOK /\ LineInv
  BY DEF InputInv
<1>2. /\ composer' = <<>> /\ cursor' = 0 /\ picker' = ClosePicker(picker) /\ dismissed' = FALSE
      /\ inputHistory' = IF Blank(s) \/ s = latest THEN inputHistory ELSE Append(inputHistory, s)
      /\ historyIndex' = 0 /\ historyDraft' = <<>>
      /\ submitted' = IF Blank(s) THEN submitted ELSE s
      /\ UNCHANGED <<draftWas, mended>>
  BY DEF Enter, ExitHistoryNav
<1>3. s \in Seq(Symbols)
  BY <1>1, HighlightedIs DEF CTypeOK
<1> HIDE DEF s, latest
<1>4. <<>> \in Seq(Symbols)
  OBVIOUS
<1>5. inputHistory' \in Seq(Seq(Symbols)) /\ Len(inputHistory') \in Nat
  <2>1. inputHistory \in Seq(Seq(Symbols))
    BY <1>1 DEF CTypeOK
  <2> QED
    BY <1>2, <1>3, <2>1
<1>6. picker' \in Pickers /\ ~picker'.open
  BY <1>1, <1>2, ClosedFits DEF CTypeOK
<1>7. CTypeOK'
  <2>1. composer' \in Seq(Symbols) /\ historyDraft' \in Seq(Symbols)
    BY <1>2, <1>4
  <2>2. submitted' \in Seq(Symbols) /\ draftWas' \in Seq(Symbols) /\ mended' \in BOOLEAN
    BY <1>1, <1>2, <1>3 DEF CTypeOK
  <2>3. historyIndex' \in 0..Len(inputHistory')
    <3>1. historyIndex' = 0
      BY <1>2
    <3> QED
      BY <1>5, <3>1
  <2>4. dismissed' \in BOOLEAN
    BY <1>2
  <2> QED
    BY <1>5, <1>6, <2>1, <2>2, <2>3, <2>4 DEF CTypeOK
<1>8. LineInv'
  BY <1>2, <1>4, <1>6, EndsAreEdges DEF LineInv, PickerFor
<1> QED
  BY <1>2, <1>7, <1>8 DEF InputInv, RecallInv

LEMMA EscKeeps == ASSUME InputInv, Esc PROVE InputInv'
<1>1. CTypeOK /\ LineInv /\ RecallInv
  BY DEF InputInv
<1>2. picker' = ClosePicker(picker) /\ dismissed' = TRUE /\ UNCHANGED <<text, recall, submitted>>
  BY DEF Esc
<1>3. picker' \in Pickers /\ ~picker'.open
  BY <1>1, <1>2, ClosedFits DEF CTypeOK
<1>4. CTypeOK'
  BY <1>1, <1>2, <1>3 DEF CTypeOK, text, recall
<1>5. LineInv'
  BY <1>1, <1>2, <1>3 DEF LineInv, PickerFor, text
<1>6. RecallInv'
  BY <1>1, <1>2 DEF RecallInv, text, recall
<1> QED
  BY <1>4, <1>5, <1>6 DEF InputInv

\* What is left of the invariant once the line is right and Tab has had its way.
LEMMA CompletesKeeps ==
    ASSUME InputInv, Completes, composer' \in Seq(Symbols), picker' \in Pickers, LineInv'
    PROVE  InputInv'
<1>1. CTypeOK /\ RecallInv
  BY DEF InputInv
<1>2. /\ mended' = (historyIndex # 0)
      /\ UNCHANGED <<inputHistory, historyIndex, historyDraft, draftWas, dismissed, submitted>>
  BY DEF Completes
<1>3. (historyIndex # 0) \in BOOLEAN
  OBVIOUS
<1>4. CTypeOK'
  BY <1>1, <1>2, <1>3 DEF CTypeOK
<1>5. RecallInv'
  BY <1>1, <1>2 DEF RecallInv
<1> QED
  BY <1>4, <1>5 DEF InputInv

LEMMA AcceptKeeps == ASSUME InputInv, Accept PROVE InputInv'
<1> DEFINE space == <<Space>>
           h == Highlighted
           s == h \o space
           rest == From(composer, picker.replaceEnd)
<1>1. CTypeOK /\ LineInv /\ picker.open /\ Completes
  BY DEF InputInv, Accept
<1>2. composer' = s \o rest /\ cursor' = Bytes(s) /\ picker' = ClosePicker(picker)
  BY DEF Accept
<1>3. h \in Seq(Symbols) /\ space \in Seq(Symbols) /\ rest \in Seq(Symbols)
  <2>1. Boundary(composer, picker.replaceEnd) /\ composer \in Seq(Symbols)
    BY <1>1 DEF CTypeOK, LineInv, PickerFor
  <2> QED
    BY <1>1, <2>1, HighlightedIs, SpaceIs, CutIs
<1> HIDE DEF h, space, rest
<1>4. s \in Seq(Symbols)
  BY <1>3
<1> HIDE DEF s
<1>5. composer' \in Seq(Symbols) /\ Boundary(composer', cursor')
  BY <1>2, <1>3, <1>4, CutAt
<1>6. picker' \in Pickers /\ ~picker'.open
  BY <1>1, <1>2, ClosedFits DEF CTypeOK
<1>7. LineInv'
  BY <1>5, <1>6 DEF LineInv, PickerFor
<1> QED
  BY <1>1, <1>5, <1>6, <1>7, CompletesKeeps

LEMMA ReplacedKeeps ==
    ASSUME InputInv, NEW before \in Seq(Symbols), NEW word \in Seq(Symbols), NEW rest \in Seq(Symbols),
           Replaced(before, word, rest)
    PROVE  InputInv'
<1> DEFINE a == before \o word
           s == before \o word \o rest
           off == Bytes(a)
<1>1. CTypeOK /\ dismissed \in BOOLEAN
  BY DEF InputInv, CTypeOK
<1>2. composer' = s /\ cursor' = off /\ picker' = Refresh(s, off, picker, dismissed) /\ Completes
  BY DEF Replaced
<1>3. a \in Seq(Symbols) /\ s = a \o rest
  OBVIOUS
<1> HIDE DEF a, s
<1>4. s \in Seq(Symbols) /\ Boundary(s, off)
  BY <1>3, CutAt
<1> HIDE DEF off
<1>5. composer' \in Seq(Symbols) /\ picker' \in Pickers /\ LineInv'
  BY <1>1, <1>2, <1>4, RefreshedLine
<1> QED
  BY <1>2, <1>5, CompletesKeeps

\* A text is its first word and the rest.
LEMMA WordCuts ==
    ASSUME NEW s \in Seq(Symbols)
    PROVE  /\ Word(s) \in Seq(Symbols) /\ From(s, Bytes(Word(s))) \in Seq(Symbols)
           /\ s = Word(s) \o From(s, Bytes(Word(s)))
<1> DEFINE w == Word(s)
<1>1. PICK r \in Seq(Symbols) : w \in Seq(Symbols) /\ s = w \o r
  BY WordIs
<1> HIDE DEF w
<1>2. From(s, Bytes(w)) = r
  BY <1>1, CutAt
<1> QED
  BY <1>1, <1>2 DEF w

LEMMA BuiltinIs == Builtin \in Seq(Seq(Symbols))
<1> DEFINE I == {i \in 1..Len(Catalog) : Catalog[i] \in Builtins}
           S == Seq(Symbols)
<1>1. Catalog \in Seq(S) /\ I \subseteq 1..Len(Catalog)
  BY ListsAre
<1>2. Builtin = Kept(Catalog, I)
  BY DEF Builtin
<1>3. Kept(Catalog, I) \in Seq(S)
  <2> HIDE DEF I, S
  <2> QED
    BY <1>1, KeptFrom
<1> QED
  BY <1>2, <1>3

LEMMA CompleteSlashKeeps == ASSUME InputInv, CompleteSlash PROVE InputInv'
<1> DEFINE word == Word(composer)
           rest == From(composer, Bytes(word))
           done == Completion(word, Builtin, rest)
<1>1. composer \in Seq(Symbols)
  BY DEF InputInv, CTypeOK
<1>2. word \in Seq(Symbols) /\ rest \in Seq(Symbols)
  BY <1>1, WordCuts
<1>3. Completable(word, Builtin) /\ Replaced(<<>>, done, rest)
  BY DEF CompleteSlash
<1> HIDE DEF word, rest
<1>4. done \in Seq(Symbols)
  BY <1>2, <1>3, BuiltinIs, CompletionIsText
<1>5. <<>> \in Seq(Symbols)
  OBVIOUS
<1> HIDE DEF done
<1> QED
  BY <1>2, <1>3, <1>4, <1>5, ReplacedKeeps

LEMMA CompleteSubcommandKeeps == ASSUME InputInv, CompleteSubcommand PROVE InputInv'
<1> DEFINE head == Word(composer)
           resolved == IF head \in Builtins THEN {head}
                       ELSE {c \in Builtins : Len(head) > 1 /\ IsPrefix(head, c)}
           tail == From(composer, Bytes(head))
           gap == Gap(tail)
           before == head \o gap
           behind == From(composer, Bytes(before))
           word == Word(behind)
           rest == From(composer, Bytes(before) + Bytes(word))
           subs == Subs[CHOOSE c \in resolved : TRUE]
           done == IF word = <<>> THEN subs[1] \o <<Space>> ELSE Completion(word, subs, rest)
<1>1. composer \in Seq(Symbols)
  BY DEF InputInv, CTypeOK
<1>2. /\ Cardinality(resolved) = 1 /\ subs # <<>> /\ (word = <<>> \/ Completable(word, subs))
      /\ Replaced(before, done, rest)
  BY DEF CompleteSubcommand
<1>3. head \in Seq(Symbols) /\ tail \in Seq(Symbols) /\ composer = head \o tail
  BY <1>1, WordCuts
<1>4. subs \in Seq(Seq(Symbols))
  <2>1. resolved \subseteq Builtins /\ Cardinality(resolved) = 1
    BY <1>2
  <2> HIDE DEF resolved
  <2>2. resolved # {}
    <3>1. Cardinality({}) = 0
      BY FS_EmptySet
    <3> QED
      BY <2>1, <3>1
  <2> QED
    BY <2>1, <2>2, ListsAre
<1> HIDE DEF head, tail, resolved
<1>5. PICK r \in Seq(Symbols) : gap \in Seq(Symbols) /\ tail = gap \o r
  BY <1>3, GapIs
<1> HIDE DEF gap
<1>6. before \in Seq(Symbols) /\ composer = before \o r
  BY <1>3, <1>5, JoinThree
<1> HIDE DEF before
<1>7. behind = r
  BY <1>5, <1>6, CutAt
<1> HIDE DEF behind
<1>8. PICK q \in Seq(Symbols) : word \in Seq(Symbols) /\ r = word \o q
  BY <1>5, <1>7, WordIs
<1> HIDE DEF word
<1>9. rest = q
  <2> DEFINE a == before \o word
  <2>0. before \in Seq(Symbols) /\ word \in Seq(Symbols) /\ q \in Seq(Symbols)
    BY <1>6, <1>8
  <2>1. a \in Seq(Symbols) /\ composer = a \o q /\ Bytes(a) = Bytes(before) + Bytes(word)
    <3>1. before \o (word \o q) = a \o q
      BY <2>0, JoinThree, SMTT(30)
    <3>2. composer = before \o (word \o q)
      BY <1>6, <1>8
    <3>3. Bytes(a) = Bytes(before) + Bytes(word)
      BY <2>0, BytesJoin, SMTT(30)
    <3> QED
      BY <2>0, <3>1, <3>2, <3>3
  <2> HIDE DEF a
  <2>2. From(a \o q, Bytes(a)) = q
    BY <1>8, <2>1, CutAt
  <2> QED
    BY <2>1, <2>2
<1> HIDE DEF rest, subs
<1>10. done \in Seq(Symbols)
  <2>1. CASE word = <<>>
    <3>1. 1 \in 1..Len(subs)
      BY <1>2, <1>4, EmptySeq
    <3>2. subs[1] \in Seq(Symbols)
      BY <1>4, <3>1
    <3>3. <<Space>> \in Seq(Symbols)
      BY SpaceIs
    <3> QED
      BY <2>1, <3>2, <3>3
  <2>2. CASE word # <<>>
    BY <1>2, <1>4, <1>8, <1>9, <2>2, CompletionIsText
  <2> QED
    BY <2>1, <2>2
<1> HIDE DEF done
<1> QED
  BY <1>2, <1>6, <1>8, <1>9, <1>10, ReplacedKeeps

\* A recalled line is a whole new text, with what recalling leaves.
LEMMA RecalledKeeps ==
    ASSUME InputInv, NEW s \in Seq(Symbols), SetComposer(s),
           UNCHANGED <<inputHistory, dismissed, submitted>>, mended' = FALSE,
           historyIndex' \in 0..Len(inputHistory),
           historyDraft' \in Seq(Symbols), draftWas' \in Seq(Symbols),
           historyIndex' # 0 => historyDraft' = draftWas' /\ s = inputHistory[historyIndex']
    PROVE  InputInv'
<1>1. CTypeOK
  BY DEF InputInv
<1> DEFINE off == Bytes(s)
<1>2. composer' = s /\ cursor' = off /\ picker' = Refresh(s, off, picker, dismissed)
  BY DEF SetComposer
<1>3. Boundary(s, off) /\ dismissed \in BOOLEAN
  BY <1>1, EndsAreEdges DEF CTypeOK
<1> HIDE DEF off
<1>4. composer' \in Seq(Symbols) /\ picker' \in Pickers /\ LineInv'
  BY <1>1, <1>2, <1>3, RefreshedLine
<1>5. CTypeOK'
  BY <1>1, <1>4 DEF CTypeOK
<1>6. RecallInv'
  BY <1>2 DEF RecallInv
<1> QED
  BY <1>4, <1>5, <1>6 DEF InputInv

LEMMA HistoryPrevKeeps == ASSUME InputInv, HistoryPrev PROVE InputInv'
<1> DEFINE s == inputHistory[historyIndex']
<1>1. CTypeOK /\ RecallInv
  BY DEF InputInv
<1>2. /\ inputHistory # <<>> /\ historyIndex # 1 /\ mended' = FALSE /\ SetComposer(s)
      /\ UNCHANGED <<inputHistory, dismissed, submitted>>
      /\ IF historyIndex = 0
           THEN historyDraft' = composer /\ draftWas' = composer /\ historyIndex' = Len(inputHistory)
           ELSE historyIndex' = historyIndex - 1 /\ UNCHANGED <<historyDraft, draftWas>>
  BY DEF HistoryPrev
<1>3. /\ inputHistory \in Seq(Seq(Symbols)) /\ Len(inputHistory) \in Nat
      /\ historyIndex \in 0..Len(inputHistory)
  BY <1>1 DEF CTypeOK
<1>4. Len(inputHistory) # 0
  BY <1>2, <1>3, EmptySeq
<1>5. historyIndex' \in 1..Len(inputHistory)
  BY <1>2, <1>3, <1>4
<1>6. s \in Seq(Symbols)
  BY <1>3, <1>5
<1>7. historyDraft' \in Seq(Symbols) /\ draftWas' \in Seq(Symbols) /\ historyDraft' = draftWas'
  BY <1>1, <1>2 DEF CTypeOK, RecallInv
<1>8. historyIndex' \in 0..Len(inputHistory) /\ s = inputHistory[historyIndex']
  BY <1>3, <1>5
<1> HIDE DEF s
<1> QED
  BY <1>2, <1>6, <1>7, <1>8, RecalledKeeps

LEMMA HistoryNextKeeps == ASSUME InputInv, HistoryNext PROVE InputInv'
<1>1. CTypeOK /\ RecallInv /\ historyIndex # 0
  BY DEF InputInv, HistoryNext
<1>2. mended' = FALSE /\ UNCHANGED <<inputHistory, draftWas, dismissed, submitted>>
  BY DEF HistoryNext
<1>3. /\ inputHistory \in Seq(Seq(Symbols)) /\ Len(inputHistory) \in Nat
      /\ historyIndex \in 0..Len(inputHistory)
      /\ historyDraft \in Seq(Symbols) /\ draftWas \in Seq(Symbols) /\ <<>> \in Seq(Symbols)
  BY <1>1 DEF CTypeOK
<1>4. CASE historyIndex < Len(inputHistory)
  <2> DEFINE s == inputHistory[historyIndex + 1]
  <2>1. historyIndex' = historyIndex + 1 /\ SetComposer(s) /\ UNCHANGED historyDraft
    BY <1>4 DEF HistoryNext
  <2>2. historyIndex' \in 1..Len(inputHistory) /\ historyIndex' \in 0..Len(inputHistory)
    BY <1>3, <1>4, <2>1
  <2>3. s \in Seq(Symbols) /\ s = inputHistory[historyIndex']
    BY <1>3, <2>1, <2>2
  <2>4. historyDraft' = draftWas'
    BY <1>1, <1>2, <2>1 DEF RecallInv
  <2> HIDE DEF s
  <2> QED
    BY <1>2, <1>3, <2>1, <2>2, <2>3, <2>4, RecalledKeeps
<1>5. CASE ~(historyIndex < Len(inputHistory))
  <2>1. historyIndex' = 0 /\ historyDraft' = <<>> /\ SetComposer(historyDraft)
    BY <1>5 DEF HistoryNext, ExitHistoryNav
  <2>2. historyIndex' \in 0..Len(inputHistory)
    BY <1>3, <2>1
  <2> QED
    BY <1>2, <1>3, <2>1, <2>2, RecalledKeeps
<1> QED
  BY <1>4, <1>5

LEMMA PickerMovesKeeps ==
    ASSUME InputInv, NEW by \in Int, PickerMoves(by)
    PROVE  InputInv'
<1> DEFINE n == Len(picker.candidates)
           k == (picker.selected + by) % n
<1>1. CTypeOK /\ LineInv /\ RecallInv
  BY DEF InputInv
<1>2. picker.open /\ picker' = [picker EXCEPT !.selected = k] /\ UNCHANGED <<text, recall, dismissed, submitted>>
  BY DEF PickerMoves
<1>3. /\ picker \in Pickers /\ n \in Nat /\ picker.selected \in Nat /\ picker.selected < n
  BY <1>1, <1>2 DEF CTypeOK, LineInv, PickerFor, Pickers
<1>4. k \in Nat /\ k < n
  <2> HIDE DEF n
  <2>1. n \in Nat \ {0} /\ picker.selected + by \in Int
    BY <1>3
  <2> QED
    BY <2>1
<1> HIDE DEF k
<1>5. /\ picker' \in Pickers /\ picker'.open = picker.open /\ picker'.candidates = picker.candidates
      /\ picker'.replaceEnd = picker.replaceEnd /\ picker'.selected = k
  BY <1>2, <1>3, <1>4 DEF Pickers
<1>6. CTypeOK'
  BY <1>1, <1>2, <1>5 DEF CTypeOK, text, recall
<1>7. LineInv'
  BY <1>1, <1>2, <1>4, <1>5 DEF LineInv, PickerFor, text
<1>8. RecallInv'
  BY <1>1, <1>2 DEF RecallInv, text, recall
<1> QED
  BY <1>6, <1>7, <1>8 DEF InputInv

LEMMA InputStep == InputInv /\ [CNext]_cvars => InputInv'
<1> SUFFICES ASSUME InputInv, [CNext]_cvars PROVE InputInv'
  OBVIOUS
<1>1. CASE \E c \in Symbols : InsertChar(c)
  BY <1>1, InsertCharKeeps
<1>2. CASE Backspace
  BY <1>2, BackspaceKeeps
<1>3. CASE MoveLeft
  BY <1>3, MoveLeftKeeps
<1>4. CASE MoveRight
  BY <1>4, MoveRightKeeps
<1>5. CASE Enter
  BY <1>5, EnterKeeps
<1>6. CASE Esc
  BY <1>6, EscKeeps
<1>7. CASE Accept
  BY <1>7, AcceptKeeps
<1>8. CASE CompleteSlash
  BY <1>8, CompleteSlashKeeps
<1>9. CASE CompleteSubcommand
  BY <1>9, CompleteSubcommandKeeps
<1>10. CASE HistoryPrev
  BY <1>10, HistoryPrevKeeps
<1>11. CASE HistoryNext
  BY <1>11, HistoryNextKeeps
<1>12. CASE PickerNext
  BY <1>12, PickerMovesKeeps DEF PickerNext
<1>13. CASE PickerPrev
  <2>1. Len(picker.candidates) - 1 \in Int
    BY DEF InputInv, CTypeOK, Pickers
  <2> QED
    BY <1>13, <2>1, PickerMovesKeeps DEF PickerPrev
<1>14. CASE UNCHANGED cvars
  BY <1>14 DEF cvars, text, recall, InputInv, CTypeOK, LineInv, PickerFor, RecallInv
<1> QED
  BY <1>1, <1>2, <1>3, <1>4, <1>5, <1>6, <1>7, <1>8, <1>9, <1>10, <1>11, <1>12, <1>13, <1>14 DEF CNext

LEMMA InputHolds == CSpec => []InputInv
<1> QED
  BY InputInit, InputStep, PTL DEF CSpec

\* Cursor and picker fit the text after every key, so that no slice panics and no
\* command is put for another (refresh_picker, picker_accept).
THEOREM PickerAlwaysFits == CSpec => []PickerFits
<1>1. InputInv => PickerFits
  <2> SUFFICES ASSUME InputInv PROVE PickerFits
    OBVIOUS
  <2>1. CTypeOK /\ LineInv
    BY DEF InputInv
  <2>2. CASE picker.open
    BY <2>1, <2>2, HighlightedIs DEF PickerFits, LineInv, PickerFor
  <2>3. CASE ~picker.open
    BY <2>1, <2>3 DEF PickerFits, LineInv
  <2> QED
    BY <2>2, <2>3
<1> QED
  BY <1>1, InputHolds, PTL

\* Recalling starts from a draft that is kept, and gives way only to what was
\* recalled (history_prev, history_next).
LEMMA RecallKeepsText ==
    ASSUME InputInv, HistoryPrev \/ HistoryNext
    PROVE  \/ historyIndex = 0 /\ historyDraft' = composer
           \/ historyIndex # 0 /\ (mended \/ composer = inputHistory[historyIndex])
<1>1. CASE historyIndex = 0
  BY <1>1 DEF HistoryPrev, HistoryNext
<1>2. CASE historyIndex # 0
  BY <1>2 DEF InputInv, RecallInv
<1> QED
  BY <1>1, <1>2

LEMMA DraftComesBack ==
    ASSUME InputInv, HistoryNext, historyIndex' = 0
    PROVE  composer' = draftWas
<1>1. historyIndex # 0 /\ historyIndex \in Nat /\ historyDraft = draftWas
  BY DEF InputInv, RecallInv, CTypeOK, HistoryNext
<1>2. ~(historyIndex < Len(inputHistory))
  BY <1>1 DEF HistoryNext
<1>3. SetComposer(historyDraft)
  BY <1>2 DEF HistoryNext
<1> QED
  BY <1>1, <1>3 DEF SetComposer

\* A line entered with the cursor at its end is what is submitted, or the picker's
\* completion of it.
LEMMA EnteredIsRun ==
    ASSUME InputInv, Enter, cursor = Bytes(composer), ~Blank(composer)
    PROVE  IsPrefix(Letters(composer), Letters(submitted'))
<1> DEFINE s == IF picker.open THEN Highlighted ELSE composer
           lc == Letters(composer)
<1>1. CTypeOK /\ LineInv /\ composer \in Seq(Symbols)
  BY DEF InputInv, CTypeOK
<1>2. lc \in Seq(Symbols) /\ lc # <<>>
  BY <1>1, LettersSeq, BlankIs
<1>3. submitted' = IF Blank(s) THEN submitted ELSE s
  BY DEF Enter
<1>4. s \in Seq(Symbols)
  BY <1>1, HighlightedIs
<1>5. IsPrefix(lc, Letters(s))
  <2>1. CASE ~picker.open
    <3> HIDE DEF lc
    <3>1. s = composer /\ lc \o <<>> = lc /\ <<>> \in Seq(Symbols)
      BY <1>2, <2>1, ConcatEmptySeq
    <3>2. IsPrefix(lc, lc \o <<>>)
      BY <1>2, <3>1, PrefixOf
    <3> QED
      BY <3>1, <3>2 DEF lc
  <2>2. CASE picker.open
    <3> DEFINE e == picker.replaceEnd
               a == Upto(composer, e)
               b == From(composer, e)
    <3>1. s = Highlighted /\ IsPrefix(Letters(a), Letters(s))
      BY <1>1, <2>2, HighlightedIs
    <3>2. Boundary(composer, e) /\ (cursor <= e \/ Letters(b) = <<>>)
      BY <1>1, <2>2 DEF LineInv, PickerFor
    <3>3. /\ a \in Seq(Symbols) /\ b \in Seq(Symbols) /\ composer = a \o b
          /\ e \in Nat /\ Bytes(composer) = e + Bytes(b)
      <4> HIDE DEF e
      <4> QED
        BY <1>1, <3>2, CutIs
    <3> HIDE DEF a, b, s, e
    <3>4. Letters(b) = <<>>
      <4>1. CASE cursor <= e
        <5>1. Bytes(b) \in Nat /\ Len(b) <= Bytes(b) /\ Len(b) \in Nat
          BY <3>3, BytesNat
        <5>2. Len(b) = 0
          BY <3>3, <4>1, <5>1
        <5>3. b = <<>>
          BY <3>3, <5>2, EmptySeq
        <5> QED
          BY <5>3, LettersEmpty
      <4> QED
        BY <3>2, <4>1
    <3>5. lc = Letters(a)
      <4>1. Letters(a \o b) = Letters(a) \o Letters(b)
        BY <3>3, LettersJoin
      <4>2. Letters(a) \in Seq(Symbols)
        BY <3>3, LettersSeq
      <4>3. Letters(a) \o <<>> = Letters(a)
        BY <4>2, ConcatEmptySeq
      <4> QED
        BY <3>3, <3>4, <4>1, <4>3
    <3> QED
      BY <3>1, <3>5
  <2> QED
    BY <2>1, <2>2
<1> HIDE DEF s, lc
<1>6. ~Blank(s)
  <2>1. SUFFICES ASSUME Letters(s) = <<>> PROVE FALSE
    BY <1>4, BlankIs
  <2>2. PICK r \in Seq(Symbols) : <<>> = lc \o r
    <3>1. <<>> \in Seq(Symbols) /\ IsPrefix(lc, <<>>)
      BY <1>5, <2>1
    <3> QED
      BY <1>2, <3>1, PrefixIs
  <2>3. Len(lc \o r) = Len(lc) + Len(r) /\ Len(lc) \in Nat /\ Len(r) \in Nat
    BY <1>2, <2>2, JoinIs
  <2>4. Len(lc) = 0
    BY <2>2, <2>3
  <2> QED
    BY <1>2, <2>4, EmptySeq
<1> QED
  BY <1>3, <1>5, <1>6 DEF lc

\* What was typed is kept, comes back or is run, whatever the keys: recalling,
\* Enter and the picker lose nothing of it (history_prev, history_next, render_task).
THEOREM InputIsKept == CSpec => InputKept
<1>1. InputInv /\ [CNext]_cvars =>
        [HistoryPrev \/ HistoryNext =>
            \/ historyIndex = 0 /\ historyDraft' = composer
            \/ historyIndex # 0 /\ (mended \/ composer = inputHistory[historyIndex])]_cvars
  BY RecallKeepsText
<1>2. InputInv /\ [CNext]_cvars => [HistoryNext /\ historyIndex' = 0 => composer' = draftWas]_cvars
  BY DraftComesBack
<1>3. InputInv /\ [CNext]_cvars =>
        [Enter /\ cursor = Bytes(composer) /\ ~Blank(composer) =>
            IsPrefix(Letters(composer), Letters(submitted'))]_cvars
  BY EnteredIsRun
<1>4. CSpec => TextKept
  BY <1>1, <1>2, <1>3, InputHolds, PTL DEF CSpec, TextKept
<1> QED
  BY <1>4, PickerAlwaysFits DEF InputKept
=============================================================================
