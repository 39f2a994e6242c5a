---------------------------- MODULE ProcSubagent ----------------------------
(***************************************************************************)
(* One isolated subagent (src/src/proc_subagent.rs): a headless cubi       *)
(* process in a home and a working directory of its own, waited for under  *)
(* a time cap, killed when it overstays, its standard output read by a     *)
(* task of its own up to a limit and parsed as a stream of JSON events;    *)
(* and what consensus.rs makes of the result.                              *)
(*                                                                         *)
(* Output is a sequence of events, the unit of CHILD_STDOUT_LIMIT; the     *)
(* event the limit cuts is no JSON and is skipped, like any such line.     *)
(* Time is discrete: Tick runs the caller's pending timer down, and never  *)
(* past its end.                                                           *)
(***************************************************************************)
EXTENDS Naturals, FiniteSets, Sequences, Subsequences

CONSTANTS TimeCap,     \* the caller's cap and CHILD_COOPERATIVE_TIMEOUT_GRACE
          KillGrace,   \* CHILD_KILL_GRACE
          DrainGrace,  \* STDOUT_DRAIN_GRACE
          OutputLimit, \* CHILD_STDOUT_LIMIT, in events
          Texts,       \* bound: the texts an event may carry
          MaxEvents    \* bound: events the child may write

ASSUME ProcAssumption ==
    {TimeCap, KillGrace, DrainGrace, OutputLimit, MaxEvents} \subseteq Nat \ {0}

VARIABLES pc,          \* the await the call is at, or how it ended
          proc,        \* the child: "none", "alive", "dying" (killed), "dead"
          code,        \* its exit code: "0", "1", or "none" (a signal)
          killed,      \* start_kill, or kill_on_drop, came before it exited
          helper,      \* another process holds the child's stdout open
          wrote,       \* events written to stdout
          reader,      \* the stdout task
          left,        \* time left on the pending timer
          elapsed,     \* ghost: time since the call began
          result       \* ProcSubagentResult, or what stands for its absence

procVars == <<proc, code, killed, helper, wrote>>
psvars == <<pc, procVars, reader, left, elapsed, result>>

Event == [type : {"token", "final", "done"}, text : Texts]
             \cup [type : {"tool_call", "error"}, text : {"none"}]
ErrorEvent == [type |-> "error", text |-> "none"]

NoResult == [kind |-> "none"]
Err == [kind |-> "err"]

-----------------------------------------------------------------------------
\* The stream

\* parse_subagent_stream, line by line: a token appends, a final text replaces
\* all before it, a tool call discards what was said on the way to it, "done"
\* speaks only if nothing else did, what is no JSON is skipped.
ParseEvent(acc, e) ==
    CASE e.type = "token" -> [acc EXCEPT !.out = Append(@, e.text)]
      [] e.type = "final" -> [acc EXCEPT !.out = <<e.text>>]
      [] e.type = "tool_call" -> [acc EXCEPT !.out = <<>>, !.tools = @ + 1]
      [] e.type = "done" /\ acc.out = <<>> -> [acc EXCEPT !.out = <<e.text>>]
      [] e.type = "error" -> [acc EXCEPT !.error = TRUE]
      [] OTHER -> acc

Unparsed == [out |-> <<>>, error |-> FALSE, tools |-> 0]

Parsed(s) ==
    LET parsed[i \in 0..Len(s)] ==
            IF i = 0 THEN Unparsed ELSE ParseEvent(parsed[i - 1], s[i])
    IN  parsed[Len(s)]

\* A wrong bound: what exceeds it is dropped in silence.
BoundedSilently(s) ==
    IF Len(s) <= OutputLimit THEN s ELSE SubSeq(s, 1, OutputLimit)

\* read_bounded: past the limit it drains and drops, and says so at the end.
Bounded(s) ==
    IF Len(s) <= OutputLimit
      THEN s ELSE Append(SubSeq(s, 1, OutputLimit), ErrorEvent)

Result(s, exit, timedOut) ==
    [kind |-> "proc", out |-> Parsed(s).out, error |-> Parsed(s).error,
     code |-> exit, timedOut |-> timedOut]

\* The candidate consensus.rs makes of a result: an answer, if in this order it
\* neither timed out, nor reported an error, nor exited badly, nor was silent.
Succeeded(r) ==
    r.kind = "proc" /\ ~r.timedOut /\ ~r.error /\ r.code = "0" /\ r.out # <<>>

-----------------------------------------------------------------------------

PSInit ==
    /\ pc = "idle" /\ proc = "none" /\ code = "none"
    /\ killed = FALSE /\ helper = FALSE /\ wrote = <<>>
    /\ reader = "none"
    /\ left = 0 /\ elapsed = 0 /\ result = NoResult

\* run_isolated_subagent...: the home, its trust, config and policy are seeded
\* and the child spawned, or one of these fails and there is no child.
StartFails ==
    /\ pc = "idle"
    /\ pc' = "returned" /\ result' = Err
    /\ UNCHANGED <<procVars, reader, left, elapsed>>

Start ==
    /\ pc = "idle"
    /\ pc' = "waiting" /\ left' = TimeCap
    /\ proc' = "alive" /\ reader' = "reading"
    /\ UNCHANGED <<code, killed, helper, wrote, elapsed, result>>

-----------------------------------------------------------------------------
\* The child and its pipe

ChildWrites(e) ==
    /\ proc = "alive" /\ Len(wrote) < MaxEvents
    /\ wrote' = Append(wrote, e)
    /\ UNCHANGED <<pc, proc, code, killed, helper, reader, left, elapsed, result>>

ChildExits(c) ==
    /\ proc = "alive"
    /\ proc' = "dead" /\ code' = c
    /\ UNCHANGED <<pc, killed, helper, wrote, reader, left, elapsed, result>>

ChildDies ==
    /\ proc = "dying"
    /\ proc' = "dead"
    /\ UNCHANGED <<pc, code, killed, helper, wrote, reader, left, elapsed, result>>

HelperStarts ==
    /\ proc = "alive" /\ ~helper
    /\ helper' = TRUE
    /\ UNCHANGED <<pc, proc, code, killed, wrote, reader, left, elapsed, result>>

HelperEnds ==
    /\ helper
    /\ helper' = FALSE
    /\ UNCHANGED <<pc, proc, code, killed, wrote, reader, left, elapsed, result>>

\* The stdout task ends with the last writer, whatever it had to drop.
ReadEnds ==
    /\ reader = "reading"
    /\ proc = "dead" /\ ~helper
    /\ reader' = "done"
    /\ UNCHANGED <<pc, procVars, left, elapsed, result>>

ReadFails ==
    /\ reader = "reading"
    /\ reader' = "failed"
    /\ UNCHANGED <<pc, procVars, left, elapsed, result>>

-----------------------------------------------------------------------------
\* The call

Return(r) == pc' = "returned" /\ result' = r /\ left' = 0

Kill == IF proc = "alive"
          THEN proc' = "dying" /\ killed' = TRUE ELSE UNCHANGED <<proc, killed>>

\* timeout(time_cap, child.wait()) sees the exit.
ExitSeen ==
    /\ pc = "waiting" /\ proc = "dead"
    /\ pc' = "draining" /\ left' = DrainGrace
    /\ UNCHANGED <<procVars, reader, elapsed, result>>

\* The cap runs out, perhaps as the child exits; or waiting itself fails.
TimeUp ==
    /\ pc = "waiting" /\ left = 0
    /\ Kill
    /\ pc' = "killing" /\ left' = KillGrace
    /\ UNCHANGED <<code, helper, wrote, reader, elapsed, result>>

WaitFails ==
    /\ pc = "waiting"
    /\ Kill
    /\ pc' = "aborting" /\ left' = KillGrace
    /\ UNCHANGED <<code, helper, wrote, reader, elapsed, result>>

\* kill_child is over: the child is gone, or its grace is.
KillOver ==
    /\ pc \in {"killing", "aborting"} /\ (proc = "dead" \/ left = 0)
    /\ IF pc = "killing"
         THEN /\ pc' = "salvaging" /\ left' = DrainGrace
              /\ UNCHANGED <<reader, result>>
         ELSE /\ reader' = IF reader = "reading" THEN "aborted" ELSE reader
              /\ Return(Err)
    /\ UNCHANGED <<procVars, elapsed>>

\* A wrong collect_reader: it joins the task without a limit.
CollectForEver ==
    /\ pc = "draining"
    /\ reader # "reading"
    /\ UNCHANGED reader
    /\ Return(IF reader = "done" THEN Result(Bounded(wrote), code, FALSE) ELSE Err)
    /\ UNCHANGED <<procVars, elapsed>>

\* collect_reader: everything the child wrote, or an error.
Collect ==
    /\ pc = "draining"
    /\ \/ reader = "done" /\ Return(Result(Bounded(wrote), code, FALSE)) /\ UNCHANGED reader
       \/ reader = "failed" /\ Return(Err) /\ UNCHANGED reader
       \/ reader = "reading" /\ left = 0 /\ reader' = "aborted" /\ Return(Err)
    /\ UNCHANGED <<procVars, elapsed>>

\* collect_lossy_or_empty: after a timeout, what there is or nothing.
Salvage ==
    /\ pc = "salvaging"
    /\ \/ reader = "done" /\ Return(Result(Bounded(wrote), "none", TRUE)) /\ UNCHANGED reader
       \/ reader = "failed" /\ Return(Result(<<>>, "none", TRUE)) /\ UNCHANGED reader
       \/ /\ reader = "reading" /\ left = 0
          /\ reader' = "aborted" /\ Return(Result(<<>>, "none", TRUE))
    /\ UNCHANGED <<procVars, elapsed>>

\* A wrong spawn: without kill_on_drop the child outlives the call.
DropLeavingChild ==
    /\ pc \notin {"idle", "returned", "dropped"}
    /\ pc' = "dropped" /\ left' = 0
    /\ UNCHANGED <<procVars, reader, elapsed, result>>

\* The future is dropped by a cancel: kill_on_drop; the reader runs on alone.
Drop ==
    /\ pc \notin {"idle", "returned", "dropped"}
    /\ Kill
    /\ pc' = "dropped" /\ left' = 0
    /\ UNCHANGED <<code, helper, wrote, reader, elapsed, result>>

\* Time passes for the call, but never past a timer that is due.
Pending == pc \notin {"idle", "returned", "dropped"}
Deadline == TimeCap + KillGrace + DrainGrace

Tick ==
    /\ Pending /\ left > 0
    /\ left' = left - 1 /\ elapsed' = elapsed + 1
    /\ UNCHANGED <<pc, procVars, reader, result>>

\* Nothing is left to happen.
PSOver ==
    /\ ~Pending /\ proc \notin {"alive", "dying"} /\ reader # "reading"
    /\ UNCHANGED psvars

Caller == ExitSeen \/ TimeUp \/ KillOver \/ Collect \/ Salvage

PSNext ==
    \/ StartFails \/ Start
    \/ \E e \in Event : ChildWrites(e)
    \/ \E c \in {"0", "1"} : ChildExits(c)
    \/ ChildDies \/ HelperStarts \/ HelperEnds
    \/ ReadEnds \/ ReadFails
    \/ ExitSeen \/ TimeUp \/ WaitFails \/ KillOver \/ Collect \/ Salvage
    \/ Drop
    \/ Tick
    \/ PSOver

\* The runtime polls the call and the reader, and its clock runs.  The child,
\* a kill and whatever else holds the pipe may take for ever.
PSSpec ==
    /\ PSInit /\ [][PSNext]_psvars
    /\ WF_psvars(Caller) /\ WF_psvars(ReadEnds) /\ WF_psvars(Tick)

-----------------------------------------------------------------------------
\* Properties

\* What the last tool call in s leaves unsaid, or all of s: the last final text
\* there and the tokens behind it; without one, the tokens, with the first "done"
\* ahead of them if it came first.
Is(s, t) == {i \in 1..Len(s) : s[i].type = t}
Live(s) == {i \in 1..Len(s) : \A j \in Is(s, "tool_call") : j < i}
AnswerAt(s) ==
    LET finals == Is(s, "final") \cap Live(s)
        tokens == Is(s, "token") \cap Live(s)
        done == Is(s, "done") \cap Live(s)
    IN  {i \in tokens \cup finals : \A j \in finals : j <= i}
            \cup {i \in done : /\ finals = {} /\ \A j \in tokens : i < j
                              /\ \A j \in done : i <= j}
Answer(s) == Kept([i \in 1..Len(s) |-> s[i].text], AnswerAt(s))

\* A candidate counts as successful only if its child ended by itself with
\* status 0, all it wrote was read and none of it dropped, it reported no
\* error, and its answer is what it said last, nothing it said on the way to a
\* tool call.  (run_binary_isolated, read_bounded, parse_subagent_stream, and
\* the match in run_isolated_tool_subagents_with_runner.)
AnswerHonest ==
    Succeeded(result) =>
        /\ code = "0" /\ ~killed
        /\ reader = "done" /\ Len(wrote) <= OutputLimit
        /\ \A i \in 1..Len(wrote) : wrote[i] # ErrorEvent
        /\ result.out = Answer(wrote)

\* A call takes no longer than its cap and the two graces, though the child never
\* exits, a kill does not take, or another process has its stdout open for ever.
InTime == [](elapsed <= Deadline)

\* The call keeps the contract its callers build on.
Contract == INSTANCE ChildRun WITH
    call <- IF Pending THEN "running" ELSE pc,
    child <- CASE proc \in {"none", "alive"} -> proc
               [] proc = "dying" -> "condemned"
               [] OTHER -> IF killed THEN "condemned" ELSE "exited",
    success <- Succeeded(result)

SubagentKeepsContract == Contract!Spec
=============================================================================
