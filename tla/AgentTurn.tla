----------------------------- MODULE AgentTurn -----------------------------
(***************************************************************************)
(* The agent loop of one chat (src/src/cli/agent.rs, agent_turn) with what *)
(* surrounds it: the entry points that open a turn, auto-compaction before *)
(* the first request, and the commands that edit the conversation between  *)
(* turns (src/src/cli/mod.rs).  It works on the journal of FileJournal,    *)
(* whose variables and actions it extends.                                 *)
(*                                                                         *)
(* A message is its role, what the properties need to know of its content  *)
(* (`tag`) and a number: the tool calls an assistant message makes, or the *)
(* position of the call a tool message answers (its synthesized id).       *)
(*                                                                         *)
(* `pc` follows the awaits of the turn: the summarizer call of an          *)
(* auto-compaction ("compacting"), the model request ("model"), each tool  *)
(* ("tool") and, when a tool is agent_run, the requests and tools of the   *)
(* subagent's own loop (src/src/agent_loop.rs: "submodel", "subtool") are  *)
(* the points where other things can happen; all that is between two awaits*)
(* is one action.  Token counts are abstracted to the choice of compacting *)
(* or refusing, time to the choice of hitting the cap.                     *)
(***************************************************************************)
EXTENDS FileJournal, FiniteSets, Subsequences

CONSTANTS Modes,        \* the ways to run, of "repl", "tui" and "headless"
          Entries,      \* the entry points used, of "chat", "skill", "agent"
          Commands,     \* the commands used, of CommandNames
          StepCap,      \* agent_step_cap(): MAX_AGENT_STEPS or the override
          SubSteps,     \* bound: steps a subagent is given, 0 for no subagents
          MaxCalls,     \* bound: tool calls in one assistant message
          Results,      \* bound: mode -> tool results told apart, of "ok",
                        \*   "error", "denied"
          ErrCap,       \* MAX_CONSECUTIVE_TOOL_ERRORS
          KeepRecent,   \* KEEP_RECENT of compact()
          MaxHistory,   \* bound: messages there may be when a turn is opened
          MaxSystem,    \* bound: system messages a command may leave
          MaxRewind,    \* bound: the n of /rewind n and /history n
          MaxPins,      \* bound: pinned items
          AutoCompact,  \* app_config.auto_compact
          TimeCapped    \* a subprocess subagent with a wall-clock cap

CommandNames ==
    {"clear", "model", "ask", "compact", "rewind", "reload", "pin", "trim", "load",
     "resume", "fork", "review", "memory", "plan", "restart"}

ASSUME AgentAssumption ==
    /\ Modes \subseteq {"repl", "tui", "headless"}
    /\ Entries \subseteq {"chat", "skill", "agent"}
    /\ Commands \subseteq CommandNames
    /\ {StepCap, ErrCap, KeepRecent, MaxRewind} \subseteq Nat \ {0}
    /\ {MaxCalls, SubSteps, MaxHistory, MaxPins, MaxSystem} \subseteq Nat
    /\ Results \in [Modes -> SUBSET {"ok", "error", "denied"}]
    /\ {AutoCompact, TimeCapped} \subseteq BOOLEAN

VARIABLES mode,         \* how this process was started
          pc,
          history,      \* ChatCLI.history
          turnStart,    \* agent_turn's argument: where a cancel truncates to
          step,         \* the loop counter
          calls, call,  \* calls of the assistant message in hand, one running
          errs,         \* consecutive_tool_errors
          sub,          \* the step of a subagent that runs, else 0
          cancel,       \* the flag the TUI's render task sets on Ctrl-C
          saved,        \* history in the current session's file, <<>> if none
          pinned,       \* how many items ChatCLI.pinned holds
          savedPinned,  \* and how many the current session's file
          log,          \* the receipts of the current turn
          outcome,      \* ghost: how the last turn ended
          entry,        \* ghost: the entry point of the current turn
          base,         \* ghost: history before the turn pushed anything
          baseTurns,    \* ghost: journal buckets before the turn
          compacted,    \* ghost: the turn compacted the history it runs on
          severed,      \* ghost: a cut has parted calls from their results
          shared,       \* the tools record into the journal /rewind reads
          unseen,       \* ghost: paths the tools wrote when they did not
          wiped         \* ghost: pins were dropped from the history, not the list

ghosts == <<entry, base, baseTurns, compacted>>
registry == <<shared, unseen>>
disk == <<jvars, registry>>
loop == <<turnStart, step, calls, call, errs, sub>>
pins == <<pinned, wiped>>
session == <<saved, savedPinned>>
vars == <<mode, pc, history, loop, cancel, session, log, outcome, ghosts, severed, disk,
          pins>>

Headless == mode = "headless"
Running == {"tool", "submodel", "subtool"}

-----------------------------------------------------------------------------
\* Messages

\* "memory" stands for project memory and memdir, which come and go alike;
\* "note" for what stays once it is there: a summary, or word of plan mode.
SystemTags == {"memory", "single", "pin", "note"}

Message ==
    [role : {"system"}, tag : SystemTags, n : {0}]
        \cup [role : {"user"}, tag : {"plain"}, n : {0}]
        \cup [role : {"assistant"}, tag : {"plain"}, n : 0..MaxCalls]
        \cup [role : {"tool"}, tag : {"ok", "error", "denied"}, n : 1..MaxCalls]

System(tag) == [role |-> "system", tag |-> tag, n |-> 0]
User == [role |-> "user", tag |-> "plain", n |-> 0]
Assistant(k) == [role |-> "assistant", tag |-> "plain", n |-> k]
Tool(tag, i) == [role |-> "tool", tag |-> tag, n |-> i]

IsSystem(m) == m.role = "system"
IsTool(m) == m.role = "tool"
IsUser(m) == m.role = "user"
NotSingle(m) == ~(IsSystem(m) /\ m.tag = "single")
IsReply(m) == m.role = "assistant" /\ m.n = 0

\* A conversation saved to a file earlier, for /load.
Earlier == <<User, Assistant(0)>>
Tagged(tag, m) == IsSystem(m) /\ m.tag = tag

Events == {"user_message", "tool_call", "tool_result", "assistant_message"}

\* Message i of h answers one of the calls of an assistant message, and each
\* call of an assistant message has its answer in its place.
AnswersACall(h, i) ==
    /\ h[i].n < i
    /\ h[i - h[i].n].role = "assistant"
    /\ h[i].n <= h[i - h[i].n].n

CallsAnswered(h, i) ==
    \A j \in 1..h[i].n :
        i + j <= Len(h) /\ IsTool(h[i + j]) /\ h[i + j].n = j

Answered(h) ==
    \A i \in 1..Len(h) :
        /\ IsTool(h[i]) => AnswersACall(h, i)
        /\ h[i].role = "assistant" => CallsAnswered(h, i)

-----------------------------------------------------------------------------
\* Cutting the history

Systems(h) == {i \in 1..Len(h) : IsSystem(h[i])}
NonSystem(h) == {i \in 1..Len(h) : ~IsSystem(h[i])}
Users(h) == {i \in 1..Len(h) : IsUser(h[i])}

\* Where the last k of the positions N begin.
FromEnd(N, k) == CHOOSE i \in N : Cardinality({j \in N : i <= j}) = k

\* Where the last k non-system messages begin.
CutAt(h, k) == FromEnd(NonSystem(h), k)

\* A wrong truncation: one message of the cancelled turn is left.
TruncateShort(h, n) == IF n + 1 < Len(h) THEN SubSeq(h, 1, n + 1) ELSE h

\* Vec::truncate.
Truncate(h, n) == IF n < Len(h) THEN SubSeq(h, 1, n) ELSE h

\* compact(): what precedes the recent messages gives way to a summary.
Compacted(h, c) ==
    Kept(h, Systems(h) \cap (1..(c - 1))) \o <<System("note")>> \o SubSeq(h, c, Len(h))

\* The length of the run of system messages h begins with.
Preamble(h) ==
    CHOOSE i \in 0..Len(h) :
        (\A j \in 1..i : IsSystem(h[j])) /\ (i = Len(h) \/ ~IsSystem(h[i + 1]))

Inserted(h, tag) ==
    LET p == Preamble(h)
    IN  SubSeq(h, 1, p) \o <<System(tag)>> \o SubSeq(h, p + 1, Len(h))

Without(h, tag) == Kept(h, {i \in 1..Len(h) : ~Tagged(tag, h[i])})

\* inject_memdir() and inject_project_memory(): one message, ahead of the
\* first non-system one, or none when there is nothing to inject.
Injected(h) == {Without(h, "memory"), Inserted(Without(h, "memory"), "memory")}

\* trim_history_keep_last_n(): all before the last n user messages goes, but
\* for system messages.
Trimmed(h, n) ==
    IF n = 0 THEN Kept(h, Systems(h))
    ELSE IF Cardinality(Users(h)) <= n THEN h
    ELSE Kept(h, Systems(h) \cup (FromEnd(Users(h), n)..Len(h)))

\* rewind(): the last k non-system messages go, system messages stay.
Rewound(h, c) == Kept(h, (1..(c - 1)) \cup Systems(h))

\* strip_single_turn_system_messages().
Unhinted(h) == Kept(h, {i \in 1..Len(h) : NotSingle(h[i])})

-----------------------------------------------------------------------------

TypeOK ==
    /\ mode \in Modes
    /\ pc \in {"idle", "compacting", "begin", "model", "review", "exit"} \cup Running
    /\ history \in Seq(Message) /\ saved \in Seq(Message)
    /\ pinned \in 0..MaxPins /\ savedPinned \in 0..MaxPins
    /\ base \in Seq(Message)
    /\ turnStart \in Nat
    /\ step \in 0..(StepCap - 1)
    /\ calls \in 0..MaxCalls /\ call \in 0..calls
    /\ pc \in Running => call # 0
    /\ sub \in 0..SubSteps /\ (sub # 0 <=> pc \in Running \ {"tool"})
    /\ errs \in Nat
    /\ cancel \in BOOLEAN /\ compacted \in BOOLEAN /\ severed \in BOOLEAN
    /\ shared \in BOOLEAN /\ wiped \in BOOLEAN
    /\ unseen \subseteq Paths
    /\ log \in Seq(Events)
    /\ outcome \in {"none", "running", "done", "capped", "refused",
                    "cancelled", "failed", "stuck", "timeout"}
    /\ entry \in {"none", "chat", "skill", "agent"}
    /\ baseTurns \in Seq(Bucket)
    /\ JTypeOK

\* What a new process starts from: project memory if there is any, and for
\* `cubi run` the turns its script begins with.
Openings(m) ==
    {<<>>, <<System("memory")>>}
        \cup IF m = "headless" THEN {<<User, Assistant(0)>>} ELSE {}

Init ==
    /\ JInit
    /\ mode \in Modes
    /\ pc = "idle"
    /\ history \in Openings(mode)
    /\ turnStart = 0 /\ step = 0 /\ calls = 0 /\ call = 0 /\ errs = 0 /\ sub = 0
    /\ cancel = FALSE
    /\ saved = <<>> /\ savedPinned = 0 /\ log = <<>>
    /\ pinned = 0 /\ wiped = FALSE
    /\ outcome = "none" /\ entry = "none"
    /\ base = <<>> /\ baseTurns = <<>>
    /\ compacted = FALSE /\ severed = FALSE
    /\ shared = TRUE /\ unseen = {}

-----------------------------------------------------------------------------
\* Opening a turn

Submit(kind) ==
    /\ pc = "idle" /\ kind \in (IF Headless THEN {"chat"} ELSE Entries)
    /\ Len(history) <= MaxHistory
    /\ history' = CASE kind = "chat"  -> Append(history, User)
                    [] kind = "skill" -> Append(history, System("single"))
                    [] kind = "agent" -> history \o <<System("single"), User>>
    /\ turnStart' = IF kind = "chat" THEN Len(history) ELSE Len(history')
    /\ StartTurn
    /\ pc' = "compacting"
    /\ log' = <<>> /\ outcome' = "running"
    /\ entry' = kind /\ base' = history /\ baseTurns' = turns
    /\ compacted' = FALSE
    /\ UNCHANGED <<mode, step, calls, call, errs, sub, cancel, session, severed, registry,
                   pins>>

\* checkpoint_session(): the conversation and the pins go into the session's file.
Checkpoint(items) ==
    /\ saved' = history'
    /\ savedPinned' = items

\* maybe_auto_compact() found nothing to do, or the summarizer failed.
AutoCompactSkip ==
    /\ pc = "compacting"
    /\ pc' = "begin"
    /\ UNCHANGED <<mode, history, loop, cancel, session, log, outcome, ghosts, severed, disk, pins>>

\* compact(): the summary is in; extracting memories from it may add some.
Compact ==
    /\ Cardinality(NonSystem(history)) > KeepRecent
    /\ LET c == CutAt(history, KeepRecent)
           short == Compacted(history, c)
       IN  /\ history' \in {short, Inserted(Without(short, "memory"), "memory")}
           /\ severed' = (severed \/ IsTool(history[c]))
    /\ Checkpoint(pinned)

AutoCompactDone ==
    /\ pc = "compacting" /\ AutoCompact
    /\ Compact
    /\ compacted' = TRUE
    /\ pc' = "begin"
    /\ UNCHANGED <<mode, loop, cancel, log, outcome, entry, base, baseTurns, disk, pins>>

\* agent_turn() returns: its locals are gone, and a one-shot run is over.
Leave(how) ==
    /\ pc' = IF Headless THEN "exit" ELSE "idle"
    /\ outcome' = how
    /\ turnStart' = 0 /\ step' = 0 /\ calls' = 0 /\ call' = 0 /\ errs' = 0 /\ sub' = 0
    /\ entry' = "none" /\ base' = <<>> /\ baseTurns' = <<>> /\ compacted' = FALSE

\* check_token_budget() refuses: the user's message and the bucket stay.
BudgetRefuse ==
    /\ pc = "begin"
    /\ cancel' = FALSE
    /\ Leave("refused")
    /\ UNCHANGED <<mode, history, session, log, severed, disk, pins>>

BeginTurn ==
    /\ pc = "begin"
    /\ cancel' = FALSE
    /\ log' = IF turnStart < Len(history) /\ history[turnStart + 1].role = "user"
                THEN <<"user_message">> ELSE <<>>
    /\ step' = 0 /\ errs' = 0 /\ calls' = 0 /\ call' = 0 /\ sub' = 0
    /\ pc' = "model"
    /\ UNCHANGED <<mode, history, turnStart, session, outcome, ghosts, severed, disk, pins>>

-----------------------------------------------------------------------------
\* The loop

\* A wrong end: the checkpoint is taken before the hints are stripped.
EndTurnEarlySave(h, how) ==
    /\ history' = Unhinted(h)
    /\ saved' = h /\ savedPinned' = pinned
    /\ Leave(how)

\* The turn ends with its work kept: single-turn hints go, the session is
\* checkpointed.
EndTurn(h, how) ==
    /\ history' = Unhinted(h)
    /\ Checkpoint(pinned)
    /\ Leave(how)

\* A call begins: a tool, or a subagent with a request of its own.  A subprocess
\* subagent is refused the latter.
CallStarts ==
    \/ pc' = "tool" /\ sub' = 0
    \/ SubSteps > 0 /\ ~(TimeCapped /\ Headless) /\ pc' = "submodel" /\ sub' = 1

ModelReplyNoReceipt(k) ==
    /\ pc = "model" /\ k # 0
    /\ history' = Append(history, Assistant(k))
    /\ calls' = k /\ call' = 1
    /\ CallStarts
    /\ UNCHANGED <<mode, turnStart, step, errs, session, log, outcome, ghosts, cancel,
                   severed, disk, pins>>

\* The model answers with k tool calls: the first one starts at once.
ModelReply(k) ==
    /\ pc = "model"
    /\ LET h == Append(history, Assistant(k)) IN
       IF k = 0
         THEN /\ log' = Append(log, "assistant_message")
              /\ EndTurn(h, "done")
         ELSE /\ history' = h
              /\ calls' = k /\ call' = 1
              /\ log' = Append(log, "tool_call")
              /\ CallStarts
              /\ UNCHANGED <<turnStart, step, errs, session, outcome, ghosts>>
    /\ UNCHANGED <<mode, cancel, severed, disk, pins>>

\* The request fails: the error leaves the loop with the turn as it stands.
ModelFails ==
    /\ pc = "model"
    /\ Leave("failed")
    /\ UNCHANGED <<mode, history, cancel, session, log, severed, disk, pins>>

\* A reloaded tool registry records the pre-image in a journal of its own.
WriteUnseen(p, c) ==
    /\ files' = [files EXCEPT ![p] = c]
    /\ unseen' = unseen \cup {p}
    /\ UNCHANGED <<turns, starts, drift, shared>>

\* A built-in tool, or one that a subagent runs, writes a file.
ToolWrites ==
    /\ pc \in {"tool", "subtool"}
    /\ \/ /\ shared
          /\ \E p \in Paths, c \in Contents : WriteFile(p, c) \/ EditFile(p, c)
          /\ UNCHANGED registry
       \/ ~shared /\ \E p \in Paths, c \in Contents : WriteUnseen(p, c)
       \/ /\ \E p \in Paths, left \in Images : WriteFails(p, left) \/ ForeignWrite(p, left)
          /\ UNCHANGED registry
    /\ UNCHANGED <<mode, pc, history, loop, cancel, session, log, outcome, ghosts, severed,
                   pins>>

\* The subagent's model asks for tools: they run one after another.
SubReply ==
    /\ pc = "submodel"
    /\ pc' = "subtool"
    /\ UNCHANGED <<mode, history, loop, cancel, session, log, outcome, ghosts, severed, disk,
                   pins>>

\* The last of them is done, and the subagent has steps left: it asks again.
SubToolsDone ==
    /\ pc = "subtool" /\ sub < SubSteps
    /\ pc' = "submodel" /\ sub' = sub + 1
    /\ UNCHANGED <<mode, history, turnStart, step, calls, call, errs, cancel, session, log,
                   outcome, ghosts, severed, disk, pins>>

\* A call may end so: a tool as it will; a subagent with its report or a failed
\* request, or after the tools of its last step with what it has.
CallEnds(tag) ==
    \/ pc = "tool"
    \/ pc = "submodel" /\ tag # "denied"
    \/ pc = "subtool" /\ sub = SubSteps /\ tag = "ok"

\* A wrong count: a denied call counts as an error.
ErrorsWithDenied(tag) == IF tag = "ok" THEN 0 ELSE errs + 1

\* consecutive_tool_errors after a result: "[tool error]" alone counts.
ErrorsAfter(tag) == IF tag = "error" THEN errs + 1 ELSE 0

\* The tool's result text is in: "[tool error] ...", "[tool denied] ..." or not.
\* Next comes the next call, the next request, or one of two ways out: a
\* headless run stuck on errors, or the step cap.
ToolReturns(tag) ==
    LET h == Append(history, Tool(tag, call))
        bad == ErrorsAfter(tag)
        stuck == Headless /\ bad >= ErrCap
        last == call = calls
        capped == last /\ step + 1 = StepCap
        starting == IF stuck \/ last THEN <<>> ELSE <<"tool_call">>
    IN
    /\ CallEnds(tag)
    /\ log' = Append(log, "tool_result") \o starting
    /\ \/ /\ stuck
          /\ history' = h
          /\ Leave("stuck")
          /\ UNCHANGED session
       \/ /\ ~stuck /\ ~last
          /\ history' = h
          /\ call' = call + 1 /\ errs' = bad
          /\ CallStarts
          /\ UNCHANGED <<turnStart, step, calls, session, outcome, ghosts>>
       \/ /\ ~stuck /\ last /\ ~capped
          /\ history' = h
          /\ pc' = "model"
          /\ step' = step + 1 /\ errs' = bad /\ calls' = 0 /\ call' = 0 /\ sub' = 0
          /\ UNCHANGED <<turnStart, session, outcome, ghosts>>
       \/ /\ ~stuck /\ capped
          /\ EndTurn(h, "capped")
    /\ UNCHANGED <<mode, cancel, severed, disk, pins>>

\* What cancelling does to the conversation, during a request or a tool.
AbandonTurn ==
    /\ history' = Truncate(history, turnStart)
    /\ severed' = (severed \/ compacted)
    /\ DiscardLastTurnIfEmpty
    /\ UNCHANGED <<registry, pins>>

\* The TUI's render task sets the flag whenever Ctrl-C is pressed.
PressCtrlC ==
    /\ mode = "tui" /\ pc # "exit" /\ ~cancel
    /\ cancel' = TRUE
    /\ UNCHANGED <<mode, pc, history, loop, session, log, outcome, ghosts, severed, disk, pins>>

\* A wrong select: only the model request can be cancelled.
CancelRequestOnly ==
    /\ pc = "model"
    /\ mode = "tui" => cancel
    /\ AbandonTurn
    /\ Leave("cancelled")
    /\ UNCHANGED <<mode, cancel, session, log>>

\* The select sees a SIGINT, or polls the flag: the request or tool is dropped.
CancelTurn ==
    /\ pc \in {"model"} \cup Running
    /\ mode = "tui" => cancel
    /\ AbandonTurn
    /\ Leave("cancelled")
    /\ UNCHANGED <<mode, cancel, session, log>>

\* The wall-clock cap of a subprocess subagent: only a tool's loss truncates.
TimeCapHit ==
    /\ TimeCapped /\ Headless /\ pc \in {"model"} \cup Running
    /\ IF pc # "model" THEN AbandonTurn ELSE UNCHANGED <<history, severed, disk, pins>>
    /\ Leave("timeout")
    /\ UNCHANGED <<mode, cancel, session, log>>

-----------------------------------------------------------------------------
\* Commands between turns

Command(cmd) ==
    /\ pc = "idle" /\ ~Headless /\ cmd \in Commands
    /\ outcome' = "none" /\ log' = <<>>
    /\ UNCHANGED <<mode, ghosts>>

\* A command that is over at once and starts nothing.
Quick(cmd) == Command(cmd) /\ UNCHANGED <<pc, loop, cancel>>

\* The conversation is dropped and its session left behind; the list of pins stays.
DropConversation ==
    /\ history' = <<>>
    /\ saved' = <<>> /\ savedPinned' = 0
    /\ severed' = FALSE
    /\ wiped' = (pinned > 0)
    /\ UNCHANGED pinned

\* /clear
Clear ==
    /\ Quick("clear")
    /\ DropConversation
    /\ Reset
    /\ unseen' = {} /\ UNCHANGED shared

\* /model <name> that succeeds: like /clear, but for the journal.
SwitchModel ==
    /\ Quick("model")
    /\ DropConversation
    /\ UNCHANGED disk

\* A command that puts a system message into the history, without a checkpoint.
Tell(cmd, h) ==
    /\ Quick(cmd)
    /\ Cardinality(Systems(h)) <= MaxSystem
    /\ history' = h
    /\ UNCHANGED <<session, severed, disk, pins>>

\* /ask, and the user's and the plugins' own commands.
Ask == Tell("ask", Append(history, System("single")))

\* /plan: the model is told; the gate before the tools reads a flag of its own.
TogglePlan == Tell("plan", Append(history, System("note")))

CompactCommand ==
    /\ Quick("compact")
    /\ Compact
    /\ UNCHANGED <<disk, pins>>

\* /rewind n: 2n messages and n buckets, if there is any message to remove.
RewindCommand(n) ==
    /\ Quick("rewind")
    /\ NonSystem(history) # {}
    /\ LET k == Cardinality(NonSystem(history))
           c == CutAt(history, IF 2 * n < k THEN 2 * n ELSE k)
       IN  /\ history' = Rewound(history, c)
           /\ severed' = (severed \/ IsTool(history[c]))
    /\ Checkpoint(pinned)
    /\ \E failed \in SUBSET Paths : Rewind(n, failed)
    /\ UNCHANGED <<registry, pins>>

\* /history n, confirmed: the redirected output of the TUI cannot ask.
TrimHistory(n) ==
    /\ Quick("trim") /\ mode = "repl"
    /\ history' = Trimmed(history, n)
    /\ Checkpoint(pinned)
    /\ UNCHANGED <<severed, disk, pins>>

\* /pin
Pin ==
    /\ Quick("pin") /\ pinned < MaxPins
    /\ pinned' = pinned + 1
    /\ history' = Inserted(history, "pin")
    /\ Checkpoint(pinned + 1)
    /\ UNCHANGED <<severed, disk, wiped>>

\* /unpin: the item goes from the list, and from the history if it is there.
Unpin ==
    /\ Quick("pin") /\ pinned > 0
    /\ pinned' = pinned - 1
    /\ LET at == {i \in 1..Len(history) : Tagged("pin", history[i])}
       IN  history' = Kept(history,
                           {i \in 1..Len(history) : i \in at => \E j \in at : j < i})
    /\ Checkpoint(pinned - 1)
    /\ UNCHANGED <<severed, disk, wiped>>

\* /memory-reload, /memdir-add, /memdir-rm and /memdir-clear.
MemoryCommand ==
    \E h \in Injected(history) : Tell("memory", h)

\* /load: the conversation alone changes, not its pins, session or journal.  (Bound:
\* in a chat that has no session yet.)
Load ==
    /\ Quick("load") /\ saved = <<>>
    /\ history' = Earlier
    /\ wiped' = (wiped \/ pinned > 0)
    /\ UNCHANGED <<session, severed, disk, pinned>>

\* The current session's conversation and pins, with today's project memory.
Reopened ==
    /\ saved # <<>>
    /\ history' \in Injected(saved)
    /\ pinned' = savedPinned

\* /resume
Resume ==
    /\ Quick("resume")
    /\ Reopened
    /\ UNCHANGED <<session, severed, disk, wiped>>

\* /fork: a sibling that ends with the last reply is saved and taken up; the
\* parent, saved whole before it, is left behind.
Fork ==
    /\ Quick("fork")
    /\ LET ends == {i \in 1..Len(history) : IsReply(history[i])}
       IN  /\ ends # {}
           /\ history' = SubSeq(history, 1, CHOOSE i \in ends : \A j \in ends : j <= i)
    /\ Checkpoint(pinned)
    /\ UNCHANGED <<severed, disk, pins>>

\* /security-review and /autofix-pr: one request without tools, no checkpoint.
Review ==
    /\ Command("review")
    /\ Len(history) <= MaxHistory
    /\ history' = Append(history, User)
    /\ turnStart' = Len(history)
    /\ cancel' = FALSE
    /\ pc' = "review"
    /\ UNCHANGED <<step, calls, call, errs, sub, session, severed, disk, pins>>

ReviewEnds ==
    /\ pc = "review" /\ pc' = "idle"
    /\ turnStart' = 0
    /\ UNCHANGED <<mode, step, calls, call, errs, sub, cancel, session, log, outcome, ghosts,
                   disk, pins>>

\* The reply stays; a call read out of its text is one that nobody answers.
ReviewReply(k) ==
    /\ ReviewEnds
    /\ history' = Append(history, Assistant(k))
    /\ severed' = (severed \/ k # 0)

\* The request fails or is cancelled.
ReviewDropped ==
    /\ ReviewEnds
    /\ history' = Truncate(history, turnStart)
    /\ UNCHANGED severed

\* An interactive process is killed or left at any point, and another one like
\* it is started that resumes its session.
Restart ==
    /\ ~Headless /\ "restart" \in Commands
    /\ Reopened
    /\ pc' = "idle" /\ cancel' = FALSE
    /\ turnStart' = 0 /\ step' = 0 /\ calls' = 0 /\ call' = 0 /\ errs' = 0 /\ sub' = 0
    /\ entry' = "none" /\ base' = <<>> /\ baseTurns' = <<>> /\ compacted' = FALSE
    /\ outcome' = "none" /\ log' = <<>>
    /\ Reset /\ shared' = TRUE /\ unseen' = {}
    /\ UNCHANGED <<mode, session, severed, wiped>>

\* /mcp reload, enable, disable, add or remove: the new manager's built-in tools
\* are given a journal of their own (McpManager::new).
ReloadTools ==
    /\ Quick("reload")
    /\ shared' = FALSE
    /\ UNCHANGED <<history, session, severed, unseen, jvars, pins>>

\* The user's editor or a `!` shell line changes a file between turns.
UserEdits ==
    /\ pc = "idle"
    /\ \E p \in Paths, left \in Images : ForeignWrite(p, left)
    /\ UNCHANGED <<mode, pc, history, loop, cancel, session, log, outcome, ghosts, severed,
                   registry, pins>>

Exited == pc = "exit" /\ UNCHANGED vars

Model == \/ \E k \in 0..MaxCalls : ModelReply(k) \/ ReviewReply(k)
         \/ ModelFails \/ SubReply

Internal == AutoCompactSkip \/ AutoCompactDone \/ BudgetRefuse \/ BeginTurn

Next ==
    \/ \E kind \in {"chat"} \cup Entries : Submit(kind)
    \/ AutoCompactSkip \/ AutoCompactDone \/ BudgetRefuse \/ BeginTurn
    \/ \E k \in 0..MaxCalls : ModelReply(k) \/ ReviewReply(k)
    \/ ModelFails \/ ReviewDropped
    \/ SubReply \/ SubToolsDone
    \/ ToolWrites
    \/ \E tag \in Results[mode] : ToolReturns(tag)
    \/ PressCtrlC \/ CancelTurn \/ TimeCapHit
    \/ Clear \/ SwitchModel \/ Ask \/ TogglePlan \/ CompactCommand \/ ReloadTools
    \/ \E n \in 1..MaxRewind : RewindCommand(n)
    \/ \E n \in 0..MaxRewind : TrimHistory(n)
    \/ Pin \/ Unpin \/ MemoryCommand \/ Load \/ Resume \/ Fork \/ Review \/ Restart
    \/ UserEdits
    \/ Exited

Spec == Init /\ [][Next]_vars

\* The loop is a task of its own that keeps running, the summarizer answers or
\* times out, and in the TUI the select polls the cancel flag every 50 ms.
LiveSpec ==
    /\ Spec
    /\ WF_vars(Internal)
    /\ WF_vars(mode = "tui" /\ CancelTurn)
    /\ WF_vars(mode = "tui" /\ cancel /\ ReviewDropped)

\* The model and the tools answer in the end, rather than hang for ever.
Answering ==
    /\ WF_vars(Model)
    /\ WF_vars(SubToolsDone \/ \E tag \in Results[mode] : ToolReturns(tag))

-----------------------------------------------------------------------------
\* Safety

\* Every request carries a conversation a strict chat-completions validator
\* accepts: each tool call answered in its place and no answer without its
\* call.  Only a cut through a call's answers, by /compact or /rewind, the
\* cancelling of a turn that compacted, or a review whose reply makes calls can
\* break it.  (agent_turn's pushes.)
RequestAnswered == (pc \in {"model", "review"} /\ ~severed) => Answered(history)

\* Every request carries each pinned item once, whatever was compacted, rewound,
\* trimmed, cancelled, forked, resumed or killed in between; only dropping the
\* conversation leaves pins in the list alone.  (pin, and each cut of history.)
PinsCarried ==
    (pc \in {"model", "review"} /\ ~wiped) =>
        Cardinality({i \in 1..Len(history) : Tagged("pin", history[i])}) = pinned

\* The same holds of what is on disk to resume from.
SavedAnswered == ~severed => Answered(saved)

\* A turn that ran to its end is on disk as it is in memory, with no
\* single-turn hint left over for the next one.
EndedTurnSaved ==
    outcome \in {"done", "capped"} =>
        /\ saved = history
        /\ \A i \in 1..Len(history) : NotSingle(history[i])

\* The conversation stays well formed through turns and commands, in what is sent
\* to the model and in what a resume would find.  (agent_turn, and every command
\* that cuts, grows or restores history.)
ConversationWell == RequestAnswered /\ PinsCarried /\ SavedAnswered /\ EndedTurnSaved

\* The receipts of a turn pair each tool call with its result, in order; the
\* only call without one is running, or was dropped by a cancel or the cap;
\* and the results are those the conversation got.
ReceiptsTrace ==
    LET is(e) == {i \in 1..Len(log) : log[i] = e}
        answers == {i \in (turnStart + 1)..Len(history) : IsTool(history[i])}
    IN
    /\ \A i \in is("tool_result") : i - 1 \in is("tool_call")
    /\ \A i \in is("tool_call") :
          \/ i + 1 \in is("tool_result")
          \/ i = Len(log) /\ (pc \in Running \/ outcome \in {"cancelled", "timeout"})
    /\ (pc \in {"model"} \cup Running /\ ~compacted) =>
          Cardinality(answers) = Cardinality(is("tool_result"))

\* The tool results that are errors and behind which, up to the end or the next
\* user message, none is anything else.
LastErrors(h) ==
    {i \in 1..Len(h) :
        /\ IsTool(h[i])
        /\ \A j \in i..Len(h) : ~IsUser(h[j]) /\ (IsTool(h[j]) => h[j].tag = "error")}

\* A headless run gives up exactly when its last ErrCap tool results are all
\* errors, whichever messages of the turn they belong to; an interactive one
\* never does.
ErrorValve ==
    LET lastBad == Cardinality(LastErrors(history)) >= ErrCap
    IN  IF Headless
          THEN pc \in {"model", "exit"} \cup Running =>
                  (lastBad /\ ~compacted => outcome = "stuck")
                  /\ (outcome = "stuck" => lastBad)
          ELSE outcome # "stuck"

\* /rewind is exact for every file that only the tools of the first registry
\* wrote, however turns, cancels, rewinds and reloads follow one another.
ToolEditsRewindable ==
    \A k \in 1..Len(turns) : \A p \in Paths \ (drift \cup unseen) :
        Restored(turns, files, k, p) = starts[k][p]

-----------------------------------------------------------------------------
\* What a step may never do

Cancelling == outcome = "running" /\ outcome' = "cancelled"

\* Cancelling a chat turn that did not compact puts the conversation back as
\* it was before the user's message, whatever tools ran.
CancelRestores ==
    [][(Cancelling /\ entry = "chat" /\ ~compacted) => history' = base]_vars

\* Cancelling drops the turn's own bucket exactly when it holds nothing, and
\* never one of an earlier turn: /rewind 1 still reaches the previous turn, and
\* the edits of this one can still be undone.
CancelKeepsBuckets ==
    [][Cancelling =>
          \/ turns = Append(baseTurns, EmptyBucket) /\ turns' = baseTurns
          \/ /\ turns' = turns
             /\ \E b \in Bucket \ {EmptyBucket} : turns = Append(baseTurns, b)]_vars

-----------------------------------------------------------------------------
\* Liveness

\* If the model and the tools answer, a turn ends: nothing they answer keeps the
\* loop going past its step cap.
TurnEnds ==
    Answering =>
        (pc \notin {"idle", "exit"} ~> pc \in {"idle", "exit"})

\* A Ctrl-C seen during a request or a tool ends the turn, though the model or
\* the tool never answers.
CancelHonoured ==
    (cancel /\ pc \in {"model", "review"} \cup Running) ~> pc \in {"idle", "exit"}

\* No turn outlasts its model, its tools and its user.
TurnsEnd == TurnEnds /\ CancelHonoured

-----------------------------------------------------------------------------
\* What comments and documents of the code say, and the code does not do.

\* "Truncate the history back to the pre-turn snapshot so the conversation has
\* no dangling user / orphaned tool turns."  (agent.rs, on a cancelled turn.)
CancelLeavesNoTrace == [][Cancelling => history' = base]_vars

=============================================================================
