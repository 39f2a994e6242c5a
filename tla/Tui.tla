-------------------------------- MODULE Tui --------------------------------
(***************************************************************************)
(* The full-screen terminal UI (src/src/cli/tui): a main task that runs    *)
(* turns and commands, and a render task that owns the screen and the keys.*)
(* They talk over channels: events to draw, lines submitted, and a control *)
(* channel by which main borrows the terminal for a command.  The render   *)
(* task parks, drops its key reader, acknowledges, and waits to be resumed.*)
(*                                                                         *)
(* A command is run in place with its output redirected ("capture",        *)
(* "skill") or on the real terminal ("edit").  The tokens of a step are one*)
(* text.  A turn is known by the number of its prompt.                     *)
(***************************************************************************)
EXTENDS Naturals, Sequences, FiniteSets

CONSTANTS Kinds,       \* of "prompt", "shell", "capture", "skill", "edit", "quit"
          MaxLines,    \* bound: lines the user submits
          MaxPresses,  \* bound: times the user presses Ctrl-C
          MaxTools     \* bound: tool calls of one turn

ASSUME TuiAssumption ==
    /\ Kinds \subseteq {"prompt", "shell", "capture", "skill", "edit", "quit"}
    /\ {MaxLines, MaxPresses, MaxTools} \subseteq Nat

VARIABLES main,       \* the await of the main task, or how far it has come
          line,       \* the line it is at, its turn included
          stage,      \* of a turn: what has happened since its last await
          tools,      \* of a turn: tool calls made
          render,     \* "select", "parked" or "gone"
          reader,     \* the render task reads the keys (EventStream)
          actions,    \* action channel: lines submitted
          events,     \* render channel
          control,    \* control channel: a Suspend is in it
          ack,        \* the acknowledgement main waits for
          resume,     \* what the parked task waits for
          screen,     \* "alt" or "normal"
          redirected, \* stdout and stderr go to a file
          cancel,     \* the flag that both tasks share
          transcript, headed, reply,  \* AppState
          typed,      \* lines submitted so far, by kind of use: see Lines
          presses,    \* Ctrl-C pressed so far
          pressedIn,  \* ghost: the turn Ctrl-C was last pressed in, 0 for none
          completed,  \* ghost: the turns the model answered in full
          ahead       \* ghost: the user has typed ahead

session == <<main, line, stage, tools>>
channels == <<actions, events, control, ack, resume>>
terminal == <<screen, redirected>>
view == <<transcript, headed, reply>>
keys == <<actions, typed, presses, pressedIn, ahead>>
vars == <<session, channels, render, reader, terminal, cancel, view, typed,
          presses, pressedIn, completed, ahead>>

Lines == [kind : Kinds \cup {"bye"}, turn : 0..MaxLines]
NoLine == [kind |-> "bye", turn |-> 0]
Busy == {"turn", "running", "prompting", "returning"}

Init ==
    /\ main = "idle" /\ line = NoLine /\ stage = "none" /\ tools = 0
    /\ render = "select" /\ reader = TRUE
    /\ actions = <<>> /\ events = <<>>
    /\ control = FALSE /\ ack = "none" /\ resume = "none"
    /\ screen = "alt" /\ redirected = FALSE
    /\ cancel = FALSE
    /\ transcript = <<>> /\ headed = FALSE /\ reply = 0
    /\ typed = 0 /\ presses = 0 /\ pressedIn = 0 /\ completed = {}
    /\ ahead = FALSE

-----------------------------------------------------------------------------
\* The render task

Row(kind, turn) == [kind |-> kind, turn |-> turn]

\* push_user_turn: what the user submitted, ahead of what it leads to.
YouSay(turn) ==
    /\ transcript' = Append(transcript, Row("you", turn))
    /\ headed' = FALSE
    /\ UNCHANGED reply

\* ensure_assistant_header.
Headed == IF headed THEN transcript ELSE Append(transcript, Row("cubi", 0))

\* AppState::apply.  A status line is a row of no turn.
Shows(ev) ==
    CASE ev.kind = "thinking" ->
            transcript' = Headed /\ headed' = TRUE /\ reply' = 0
      [] ev.kind = "token" ->
            transcript' = Headed /\ headed' = TRUE /\ reply' = ev.turn
      [] ev.kind = "final" ->
            /\ transcript' = Append(Headed, Row("reply", ev.turn))
            /\ headed' = TRUE /\ reply' = 0
      [] ev.kind = "thought" ->
            /\ transcript' = IF reply = 0 THEN transcript
                             ELSE Append(transcript, Row("reply", reply))
            /\ reply' = 0 /\ UNCHANGED headed
      [] OTHER ->
            transcript' = Append(transcript, ev) /\ UNCHANGED <<headed, reply>>

Draw ==
    /\ render = "select" /\ events # <<>>
    /\ Shows(Head(events))
    /\ events' = Tail(events)
    /\ UNCHANGED <<session, actions, control, ack, resume, render, reader, terminal,
                   cancel, typed, presses, pressedIn, completed, ahead>>

\* Enter: a prompt is echoed at once; commands are not.
Submit(kind) ==
    /\ render = "select" /\ reader /\ typed < MaxLines
    /\ LET turn == IF kind = "prompt" THEN typed + 1 ELSE 0 IN
         /\ actions' = Append(actions, [kind |-> kind, turn |-> turn])
         /\ IF kind = "prompt" THEN YouSay(turn) ELSE UNCHANGED view
    /\ typed' = typed + 1
    /\ ahead' = (ahead \/ main # "idle" \/ actions # <<>> \/ events # <<>>)
    /\ UNCHANGED <<session, events, control, ack, resume, render, reader, terminal,
                   cancel, presses, pressedIn, completed>>

CtrlC ==
    /\ render = "select" /\ reader /\ presses < MaxPresses
    /\ cancel' = TRUE
    /\ presses' = presses + 1
    /\ pressedIn' = IF main = "turn" THEN line.turn ELSE 0
    /\ UNCHANGED <<session, channels, render, reader, terminal, view, typed,
                   completed, ahead>>

\* The task ends, and with it its ends of the channels and what is in them.
RenderEnds ==
    /\ render' = "gone" /\ reader' = FALSE
    /\ events' = <<>> /\ control' = FALSE
    /\ ack' = IF control THEN "lost" ELSE ack
    /\ resume' = "none"

Left == UNCHANGED <<session, cancel, view, typed, presses, pressedIn, completed, ahead>>

\* Ctrl-D.
CtrlD ==
    /\ render = "select" /\ reader
    /\ actions' = Append(actions, NoLine)
    /\ RenderEnds
    /\ Left /\ UNCHANGED terminal

\* Standard input is closed, drawing fails, or the task panics; a panic
\* restores the terminal first.
RenderDies ==
    /\ render = "select"
    /\ RenderEnds
    /\ screen' \in {screen, "normal"}
    /\ Left /\ UNCHANGED <<actions, redirected>>

\* A wrong parking: the key reader is left as it is.
ParkReading ==
    /\ render = "select" /\ control
    /\ render' = "parked" /\ control' = FALSE
    /\ ack' = "sent" /\ resume' = "pending"
    /\ Left /\ UNCHANGED <<actions, events, reader, terminal>>

\* Suspend: the reader goes before main is told.
Park ==
    /\ render = "select" /\ control
    /\ render' = "parked" /\ reader' = FALSE /\ control' = FALSE
    /\ ack' = "sent" /\ resume' = "pending"
    /\ Left /\ UNCHANGED <<actions, events, terminal>>

Unpark ==
    /\ render = "parked" /\ resume = "fired"
    /\ render' = "select" /\ reader' = TRUE /\ resume' = "none"
    /\ Left /\ UNCHANGED <<actions, events, control, ack, terminal>>

\* Main let go of the sender: it is quitting, on the normal screen.
Released ==
    /\ render = "parked" /\ resume = "lost"
    /\ RenderEnds
    /\ Left /\ UNCHANGED <<actions, terminal>>

-----------------------------------------------------------------------------
\* The main task

\* TuiSink::send: nobody may be there to take it.
Emit(evs) == events' = IF render = "gone" THEN events ELSE events \o evs

Ev(kind) == Row(kind, line.turn)
Mains == UNCHANGED <<render, reader, view, typed, presses, pressedIn, ahead>>

TakeLine ==
    /\ main = "idle" /\ actions # <<>>
    /\ line' = Head(actions) /\ actions' = Tail(actions)

Quit ==
    /\ TakeLine /\ line'.kind \in {"bye", "quit"}
    /\ main' = "closing"
    /\ Mains
    /\ UNCHANGED <<stage, tools, events, control, ack, resume, terminal, cancel, completed>>

\* A wrong opening: the flag is left as the last Ctrl-C set it.
OpenTurnUncleared ==
    /\ TakeLine /\ line'.kind = "prompt"
    /\ main' = "turn" /\ stage' = "asked" /\ tools' = 0
    /\ Emit(<<Row("thinking", 0)>>)
    /\ Mains
    /\ UNCHANGED <<control, ack, resume, terminal, cancel, completed>>

\* tui_submit and agent_turn up to the first request.
OpenTurn ==
    /\ TakeLine /\ line'.kind = "prompt"
    /\ main' = "turn" /\ stage' = "asked" /\ tools' = 0
    /\ cancel' = FALSE
    /\ Emit(<<Row("thinking", 0)>>)
    /\ Mains
    /\ UNCHANGED <<control, ack, resume, terminal, completed>>

\* `!`: the command's output is a block in the transcript.
Shell ==
    /\ TakeLine /\ line'.kind = "shell"
    /\ Emit(<<Row("open", 0), Row("close", 0)>>)
    /\ Mains
    /\ UNCHANGED <<main, stage, tools, control, ack, resume, terminal, cancel, completed>>

\* A command asks for the terminal first; without a render task it is dropped.
Command ==
    /\ TakeLine /\ line'.kind \in {"capture", "skill", "edit"}
    /\ IF render = "gone" THEN UNCHANGED <<main, control, ack>>
       ELSE main' = "asking" /\ control' = TRUE /\ ack' = "pending"
    /\ Mains
    /\ UNCHANGED <<stage, tools, events, resume, terminal, cancel, completed>>

\* The action channel is empty and has no sender any more.
NoMoreLines ==
    /\ main = "idle" /\ actions = <<>> /\ render = "gone"
    /\ main' = "closing"
    /\ Mains
    /\ UNCHANGED <<line, stage, tools, channels, terminal, cancel, completed>>

\* A turn: the model streams, asks for a tool, gets its result, is done.
InTurn(from) == main = "turn" /\ stage = from
Goes(to) == stage' = to /\ UNCHANGED <<main, line>>
TurnOnly == Mains /\ UNCHANGED <<actions, control, ack, resume, terminal, cancel>>
EndTurn == main' = "idle" /\ stage' = "none" /\ tools' = 0 /\ UNCHANGED line

Token ==
    /\ InTurn("asked") /\ Goes("told")
    /\ Emit(<<Ev("token")>>)
    /\ TurnOnly /\ UNCHANGED <<tools, completed>>

CallTool ==
    /\ main = "turn" /\ stage \in {"asked", "told"} /\ tools < MaxTools
    /\ Goes("tool") /\ tools' = tools + 1
    /\ Emit(<<Row("thought", 0), Row("open", 0)>>)
    /\ TurnOnly /\ UNCHANGED completed

ToolReturns ==
    /\ InTurn("tool") /\ Goes("asked")
    /\ Emit(<<Row("close", 0), Row("thinking", 0)>>)
    /\ TurnOnly /\ UNCHANGED <<tools, completed>>

\* The answer is complete; one that came in one piece is shown now.
TurnDone ==
    /\ main = "turn" /\ stage \in {"asked", "told"}
    /\ EndTurn
    /\ Emit(IF stage = "told" THEN <<Row("thought", 0)>>
            ELSE <<Row("thought", 0), Ev("final")>>)
    /\ completed' = completed \cup {line.turn}
    /\ TurnOnly

TurnFails ==
    /\ main = "turn" /\ stage \in {"asked", "told"}
    /\ EndTurn
    /\ Emit(<<Row("thought", 0), Row("status", 0)>>)
    /\ TurnOnly /\ UNCHANGED completed

\* A wrong cancel of a tool: its block is left open.
CancelledOpen ==
    /\ main = "turn" /\ cancel
    /\ EndTurn
    /\ Emit(<<Row("thought", 0), Row("status", 0)>>)
    /\ TurnOnly /\ UNCHANGED completed

\* wait_for_cancel has seen the flag.
Cancelled ==
    /\ main = "turn" /\ cancel
    /\ EndTurn
    /\ Emit(<<Row(IF stage = "tool" THEN "close" ELSE "thought", 0), Row("status", 0)>>)
    /\ TurnOnly /\ UNCHANGED completed

-----------------------------------------------------------------------------
\* Borrowing the terminal

Borrower == Mains /\ UNCHANGED <<line, stage, tools, actions, control, cancel, completed>>

\* It leaves the alternate screen, or stays there with its output redirected if
\* that can be done.
AckReceived ==
    /\ main = "asking" /\ ack = "sent"
    /\ main' = "running" /\ ack' = "none"
    /\ IF line.kind = "edit" THEN screen' = "normal" /\ UNCHANGED redirected
       ELSE redirected' \in BOOLEAN /\ UNCHANGED screen
    /\ Borrower /\ UNCHANGED <<events, resume>>

\* A wrong answer to a lost request: it asks again, though nobody is there.
AckLostAsksAgain ==
    /\ main = "asking" /\ ack = "lost"
    /\ UNCHANGED vars

AckLost ==
    /\ main = "asking" /\ ack = "lost"
    /\ main' = "idle" /\ ack' = "none"
    /\ Borrower /\ UNCHANGED <<events, resume, terminal>>

\* prompt_tool_approval, of a turn that the command runs.
AskApproval ==
    /\ main = "running" /\ line.kind \in {"skill", "edit"}
    /\ main' = "prompting"
    /\ Borrower /\ UNCHANGED <<events, ack, resume, terminal>>

Approved ==
    /\ main = "prompting"
    /\ main' = "running"
    /\ Borrower /\ UNCHANGED <<events, ack, resume, terminal>>

\* A command in place is done: its output becomes a block.
CaptureDone ==
    /\ main = "running" /\ line.kind # "edit"
    /\ main' = "idle" /\ redirected' = FALSE
    /\ Emit(<<Row("open", 0), Row("close", 0)>>)
    /\ resume' = "fired"
    /\ Borrower /\ UNCHANGED <<ack, screen>>

EditDone ==
    /\ main = "running" /\ line.kind = "edit"
    /\ main' = "returning"
    /\ Borrower /\ UNCHANGED <<events, ack, resume, terminal>>

\* The command asked to quit.
CommandQuits ==
    /\ main = "running"
    /\ main' = "closing" /\ redirected' = FALSE
    /\ resume' = "lost"
    /\ Borrower /\ UNCHANGED <<events, ack, screen>>

\* The user presses Enter: back to the alternate screen, then resume.
Reenter ==
    /\ main = "returning"
    /\ main' = "idle" /\ screen' = "alt"
    /\ resume' = "fired"
    /\ Borrower /\ UNCHANGED <<events, ack, redirected>>

ReenterFails ==
    /\ main = "returning"
    /\ main' = "closing"
    /\ resume' = "lost"
    /\ Borrower /\ UNCHANGED <<events, ack, terminal>>

\* The render task is stopped before the terminal is restored.
Close ==
    /\ main = "closing"
    /\ main' = "ended"
    /\ RenderEnds
    /\ screen' = "normal"
    /\ UNCHANGED <<line, stage, tools, actions, redirected, cancel, view, typed, presses,
                   pressedIn, completed, ahead>>

Ended == main = "ended" /\ UNCHANGED vars

-----------------------------------------------------------------------------

RenderStep == Draw \/ Park \/ Unpark \/ Released
MainStep ==
    \/ Quit \/ OpenTurn \/ Shell \/ Command \/ NoMoreLines
    \/ Cancelled \/ AckReceived \/ AckLost \/ Close

Next ==
    \/ RenderStep \/ MainStep
    \/ \E kind \in Kinds : Submit(kind)
    \/ CtrlC \/ CtrlD \/ RenderDies
    \/ Token \/ CallTool \/ ToolReturns \/ TurnDone \/ TurnFails
    \/ AskApproval \/ Approved
    \/ CaptureDone \/ EditDone \/ CommandQuits \/ Reenter \/ ReenterFails
    \/ Ended

Spec == Init /\ [][Next]_vars

\* The runtime polls both tasks.  Neither the model, a command nor the user need
\* ever come back.
LiveSpec == Spec /\ WF_vars(RenderStep) /\ WF_vars(MainStep)

-----------------------------------------------------------------------------
\* Properties

Count(kind) == Cardinality({i \in 1..Len(transcript) : transcript[i].kind = kind})

TuiTypeOK ==
    /\ main \in {"idle", "asking", "closing", "ended"} \cup Busy
    /\ line \in Lines /\ tools \in 0..MaxTools
    /\ stage \in {"none", "asked", "told", "tool"}
    /\ render \in {"select", "parked", "gone"} /\ reader \in BOOLEAN
    /\ actions \in Seq(Lines) /\ control \in BOOLEAN
    /\ ack \in {"none", "pending", "sent", "lost"}
    /\ resume \in {"none", "pending", "fired", "lost"}
    /\ screen \in {"alt", "normal"} /\ {redirected, cancel, headed, ahead} \subseteq BOOLEAN
    /\ {typed, pressedIn, reply} \subseteq 0..MaxLines /\ completed \subseteq 1..MaxLines

\* The terminal has one owner.  The render task draws on the alternate screen
\* only, and never into a command's output; while a command has the terminal no
\* other task reads its keys; and a session that ended has put everything back.
OneOwner ==
    /\ render = "select" => screen = "alt" /\ ~redirected
    /\ main \in Busy \ {"turn"} => ~reader /\ render # "select"
    /\ main = "ended" => render = "gone" /\ screen = "normal" /\ ~redirected

\* What a resumed session would show of the turns that were answered in full is
\* what the live one shows, unless the user types ahead; no tool block is left
\* open, whatever happens to the tool.
TranscriptTrue ==
    (main = "idle" /\ render = "select" /\ events = <<>>) =>
        /\ Count("open") = Count("close")
        /\ ~ahead => \A t \in completed :
             \E i, j \in 1..Len(transcript) :
                /\ i < j
                /\ transcript[i] = Row("you", t) /\ transcript[j] = Row("reply", t)
                /\ \A k \in (i + 1)..j : transcript[k].kind # "you"
                /\ Cardinality({k \in i..j : transcript[k].kind = "cubi"}) = 1

\* No Ctrl-C pressed before a turn, or in an earlier one, cancels it.
CancelMeetsItsTurn ==
    [][Cancelled => pressedIn = line.turn]_vars

\* Nobody waits for ever on the other task: a request for the terminal is
\* answered or fails, a parked task whose borrower is done goes on or ends, a
\* Ctrl-C ends a turn that hangs, and without a render task the session ends as
\* soon as what main is at comes back.
NobodyWaitsForEver ==
    /\ main = "asking" ~> main # "asking"
    /\ (render = "parked" /\ main \in {"idle", "closing", "ended"}) ~> render # "parked"
    /\ (main = "turn" /\ pressedIn = line.turn) ~> main # "turn"
    /\ (<>(render = "gone") /\ []<>(main \notin Busy)) => <>(main = "ended")
=============================================================================
