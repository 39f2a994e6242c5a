-------------------------------- MODULE Bench --------------------------------
(***************************************************************************)
(* The two benchmark harnesses (bench.rs, swebench.rs).  One after the     *)
(* other each task gets a working tree and a home of its own and a headless*)
(* cubi as a child, waited for under a cap; then `cubi bench` has the      *)
(* task's verify.sh judge the tree, and `cubi swebench` takes the diff of  *)
(* it for a prediction and may score it with the instance's own tests.     *)
(*                                                                         *)
(* A tree is the set of what was done to it, and a diff the part of that   *)
(* which git shows.  The cap may run out at any time, and what verify.sh,  *)
(* git and pytest say is a choice.                                         *)
(***************************************************************************)
EXTENDS Naturals, Sequences, FiniteSets, Subsequences

CONSTANTS Catalog, \* the tasks there are, in order: [easy, fixes, tests], the
                   \* last two for FAIL_TO_PASS and test_patch being non-empty
          MaxSteps \* bound: tool calls a child may log

ASSUME BenchAssumption ==
    /\ Catalog \in Seq([easy : BOOLEAN, fixes : BOOLEAN, tests : BOOLEAN])
    /\ MaxSteps \in Nat

VARIABLES setup,       \* which harness, on what, with which flags
          task,        \* the task at hand, an index of Tasks
          stage,       \* what the harness waits for
          agents,      \* the child of each task: "none", "alive", "exited" by
                       \* itself, "dying" (killed) or "dead"
          tree, head,  \* what was done to the tree at hand, what is committed
          logs,        \* the events each child's log in the output directory has
          patch,       \* the diff taken
          results, predictions,
          written,     \* the files written at the end
          exit,        \* the exit status: "none" yet, "0", "2", or that of an "error"
          old,         \* ghost: logs that an earlier run left in the directory
          did          \* ghost: steps each child did log, <<>> if nothing at all

work == <<tree, head, logs, did>>
record == <<results, predictions>>
bvars == <<setup, task, stage, agents, work, patch, record, written, exit, old>>

Swe == setup.harness = "swebench"

\* select_tasks and select_instances: --suite quick or all, --limit 1.
Tasks ==
    CASE setup.choice = "quick" -> Kept(Catalog, {i \in DOMAIN Catalog : Catalog[i].easy})
      [] setup.choice = "first" -> Kept(Catalog, DOMAIN Catalog \cap {1})
      [] OTHER -> Catalog

Setups ==
    [harness : {"bench"}, choice : {"quick", "all"}, score : {FALSE},
     output : {"absolute", "relative"}]
    \cup [harness : {"swebench"}, choice : {"first", "all"}, score : BOOLEAN,
          output : {"absolute", "relative"}]

\* bench.rs makes --output absolute; swebench.rs hands it on as it is, and a
\* child that runs in the tree takes a relative path from there.
LogInTree == Swe /\ setup.output = "relative"

NoLog == [seen |-> FALSE, steps |-> 0, torn |-> FALSE]
Logs == {NoLog, [seen |-> TRUE, steps |-> 1, torn |-> TRUE]}

BInit ==
    /\ setup \in Setups
    /\ task = 1 /\ stage = "start"
    /\ agents = [i \in DOMAIN Catalog |-> "none"]
    /\ tree = {} /\ head = {} /\ patch = {}
    /\ \E log \in Logs : old = [i \in DOMAIN Catalog |-> log]
    /\ (Swe => old[1] = NoLog) /\ logs = old
    /\ did = [i \in DOMAIN Catalog |-> <<>>]
    /\ results = <<>> /\ predictions = <<>>
    /\ written = {} /\ exit = "none"

-----------------------------------------------------------------------------
\* The run and its results

\* No tasks there, a bad task.toml or dataset, none selected, no directory.
RefuseRun ==
    /\ stage = "start"
    /\ stage' = "over" /\ exit' = "error"
    /\ UNCHANGED <<setup, task, agents, work, patch, record, written, old>>

BeginRun ==
    /\ stage = "start" /\ Tasks # <<>>
    /\ stage' = "prepare"
    /\ UNCHANGED <<setup, task, agents, work, patch, record, written, exit, old>>

\* parse_events_metrics: whole lines only, and none is not the same as no steps.
\* A line that was torn and written on is no JSON and is lost.
Metrics(log) == IF log.seen THEN <<log.steps>> ELSE <<>>

\* The task is over: its result and, for swebench, its prediction.
Conclude(status, steps, diff) ==
    /\ results' = Append(results, [status |-> status, steps |-> steps, scored |->
                      IF status = "resolved" THEN tree \ (head \cup {"ignored"}) ELSE {}])
    /\ predictions' = IF Swe THEN Append(predictions, diff) ELSE predictions
    /\ task' = task + 1
    /\ stage' = IF task = Len(Tasks) THEN "write" ELSE "prepare"
    /\ patch' = {} /\ tree' = {} /\ head' = {}
    /\ UNCHANGED <<setup, agents, logs, did, written, exit, old>>

GoneWrong(status, steps) == Conclude(status, steps, {})

-----------------------------------------------------------------------------
\* The child

\* No repository, no home, no trust to seed, or no child.
PrepareFails == stage = "prepare" /\ GoneWrong("error", <<>>)

Prepare ==
    /\ stage = "prepare"
    /\ stage' = "agent"
    /\ agents' = [agents EXCEPT ![task] = "alive"]
    /\ UNCHANGED <<setup, task, work, patch, record, written, exit, old>>

\* Of the tree nothing is asked but its diff, and of the log only what bench
\* counts in it; they are followed where they matter.
Working == stage \in {"agent", "killing", "aborting"} /\ agents[task] \in {"alive", "dying"}

Agent == UNCHANGED <<setup, task, stage, patch, record, written, exit, old>>

\* What the task asks for, and what git is told to ignore.
AgentEdits ==
    /\ Working /\ Swe
    /\ \E change \in {"edit", "ignored"} : tree' = tree \cup {change}
    /\ UNCHANGED <<agents, head, logs, did>> /\ Agent

AgentCommits ==
    /\ Working /\ Swe
    /\ \E part \in SUBSET (tree \ {"ignored"}) : head' = head \cup part
    /\ UNCHANGED <<agents, tree, logs, did>> /\ Agent

\* EventSink::emit, of a tool call or of anything else.
Logged(log, step) ==
    IF log.torn THEN [log EXCEPT !.torn = FALSE]
    ELSE [log EXCEPT !.seen = TRUE, !.steps = @ + step]

Did(i) == IF did[i] = <<>> THEN 0 ELSE Head(did[i])

AgentLogs ==
    /\ Working /\ ~Swe
    /\ \E step \in {0, 1} :
         /\ Did(task) + step <= MaxSteps
         /\ logs' = [logs EXCEPT ![task] = Logged(@, step)]
         /\ did' = [did EXCEPT ![task] = <<Did(task) + step>>]
    /\ UNCHANGED <<agents, tree, head>> /\ Agent

AgentLogsInTree ==
    /\ Working /\ LogInTree
    /\ tree' = tree \cup {"events"}
    /\ UNCHANGED <<agents, head, logs, did>> /\ Agent

AgentExits ==
    /\ stage = "agent" /\ agents[task] = "alive"
    /\ agents' = [agents EXCEPT ![task] = "exited"]
    /\ UNCHANGED work /\ Agent

\* It may be in the middle of a line.
AgentDies ==
    /\ stage \in {"killing", "aborting"} /\ agents[task] = "dying"
    /\ agents' = [agents EXCEPT ![task] = "dead"]
    /\ \/ UNCHANGED logs
       \/ ~Swe /\ logs' = [logs EXCEPT ![task].torn = TRUE]
    /\ UNCHANGED <<tree, head, did>> /\ Agent

-----------------------------------------------------------------------------
\* Waiting for it

AgentDone ==
    /\ stage = "agent" /\ agents[task] = "exited"
    /\ stage' = IF Swe THEN "diff" ELSE "verify"
    /\ UNCHANGED <<setup, task, agents, work, patch, record, written, exit, old>>

KillAgent ==
    agents' = [agents EXCEPT ![task] = IF @ = "alive" THEN "dying" ELSE @]

\* The cap, perhaps as the child exits; or an error of waiting.
CapHit ==
    /\ stage = "agent"
    /\ KillAgent /\ stage' = "killing"
    /\ UNCHANGED <<setup, task, work, patch, record, written, exit, old>>

WaitBreaks ==
    /\ stage = "agent"
    /\ KillAgent /\ stage' = "aborting"
    /\ UNCHANGED <<setup, task, work, patch, record, written, exit, old>>

\* child.kill() waits for the end; bench looks at the log that there is.
AgentGone ==
    /\ stage \in {"killing", "aborting"} /\ agents[task] \in {"exited", "dead"}
    /\ LET late == stage = "killing" /\ ~Swe
       IN  GoneWrong(IF late THEN "timeout" ELSE "error",
                     IF Swe THEN <<>> ELSE Metrics(logs[task]))

-----------------------------------------------------------------------------
\* Judging

Verify ==
    /\ stage = "verify"
    /\ \E status \in {"pass", "fail"} :
         Conclude(status, Metrics(logs[task]), {})

VerifyFails == stage = "verify" /\ GoneWrong("error", <<>>)

\* git add -A, git diff --cached: against HEAD.
Diff == tree \ (head \cup {"ignored"})

\* Without --score the diff is all; else it is kept while the tests go in.
CaptureDiff ==
    /\ stage = "diff"
    /\ IF setup.score
       THEN /\ patch' = Diff
            /\ stage' = IF Tasks[task].tests THEN "patching" ELSE "testing"
            /\ UNCHANGED <<setup, task, agents, work, record, written, exit, old>>
       ELSE Conclude("unscored", <<>>, Diff)

CaptureFails == stage = "diff" /\ GoneWrong("error", <<>>)

ApplyTests ==
    /\ stage = "patching"
    /\ stage' = "testing" /\ tree' = tree \cup {"tests"}
    /\ UNCHANGED <<setup, task, agents, head, logs, did, patch, record, written, exit, old>>

\* Neither git apply nor patch takes it: the prediction stands, unscored.
ApplyFails ==
    /\ stage = "patching"
    /\ Conclude("unscored", <<>>, patch)

\* A wrong order: the diff is taken when the tests are in the tree.
RunTestsDiffing ==
    /\ stage = "testing"
    /\ \E status \in {"resolved", "unresolved"} : Conclude(status, <<>>, Diff)

\* score_instance, of tests that passed or did not; without FAIL_TO_PASS nothing
\* can be resolved.
RunTests ==
    /\ stage = "testing"
    /\ \E passed \in BOOLEAN :
         Conclude(IF passed /\ Tasks[task].fixes THEN "resolved" ELSE "unresolved",
                   <<>>, patch)

RunTestsFails ==
    /\ stage = "testing"
    /\ Conclude("unscored", <<>>, patch)

\* The summary comes last, and bench has an exit status for its score.
WriteResults ==
    /\ stage = "write"
    /\ written' = {"summary"} \cup (IF Swe THEN {"predictions"} ELSE {})
    /\ exit' = IF Swe \/ \A i \in DOMAIN results : results[i].status = "pass" THEN "0" ELSE "2"
    /\ stage' = "over"
    /\ UNCHANGED <<setup, task, agents, work, patch, record, old>>

WriteFails ==
    /\ stage = "write"
    /\ written' \in {{}} \cup (IF Swe THEN {{"predictions"}} ELSE {})
    /\ exit' = "error"
    /\ stage' = "over"
    /\ UNCHANGED <<setup, task, agents, work, patch, record, old>>

BenchOver == stage = "over" /\ UNCHANGED bvars

Harness ==
    \/ RefuseRun \/ BeginRun \/ PrepareFails \/ Prepare
    \/ AgentDone \/ CapHit \/ WaitBreaks \/ AgentGone
    \/ Verify \/ VerifyFails
    \/ CaptureDiff \/ CaptureFails \/ ApplyTests \/ ApplyFails
    \/ RunTests \/ RunTestsFails
    \/ WriteResults \/ WriteFails

BNext ==
    \/ Harness
    \/ AgentEdits \/ AgentCommits \/ AgentLogs \/ AgentLogsInTree \/ AgentExits \/ AgentDies
    \/ BenchOver

\* The harness is never waiting for a model: it goes on, a killed child dies, and
\* so do verify.sh, git and pytest, which have no cap, though it waits for them.
BSpec == BInit /\ [][BNext]_bvars /\ WF_bvars(Harness) /\ WF_bvars(AgentDies)

-----------------------------------------------------------------------------
\* Properties

\* A score stands on the work of its own child.  A run that says how it ended has
\* a result for each task, all of them good if bench ends with 0; only a child
\* that ended by itself is judged or leaves a prediction; the steps reported are
\* those it did, where no earlier run left a log; and a tree that is scored as
\* resolved is the prediction with the tests put in, but for what git does not
\* show, being ignored or committed already.  (run, run_one_task, run_one_instance.)
ScoresTrue ==
    /\ exit \in {"0", "2"} =>
         /\ Len(results) = Len(Tasks) /\ "summary" \in written
         /\ Swe => Len(predictions) = Len(Tasks)
         /\ ~Swe /\ exit = "0" => \A i \in DOMAIN Tasks : agents[i] = "exited"
    /\ \A i \in DOMAIN results :
         LET r == results[i] IN
         /\ r.status \in {"pass", "fail", "resolved", "unresolved", "unscored"} =>
              agents[i] = "exited"
         /\ r.status \in {"pass", "fail", "timeout"} /\ old[i] = NoLog => r.steps = did[i]
         /\ r.status = "resolved" =>
              r.scored = predictions[i] \cup (IF Tasks[i].tests THEN {"tests"} ELSE {})
    /\ \A i \in DOMAIN predictions :
         /\ "tests" \notin predictions[i]
         /\ predictions[i] # {} => agents[i] = "exited"

\* What swebench.rs:616 says of the diff: it is the agent's edit.
PatchIsTheEdit == \A i \in DOMAIN predictions : predictions[i] \subseteq {"edit"}

\* The harness has tasks to see to.
BenchPending == stage \notin {"start", "over"}

\* To the harness each child is what an isolated subagent is to its caller.
CallOf(i) ==
    CASE i < task -> "returned"
      [] i = task /\ stage \notin {"start", "prepare", "write", "over"} -> "running"
      [] OTHER -> "idle"
ChildOf(i) == IF agents[i] \in {"dying", "dead"} THEN "condemned" ELSE agents[i]
SuccessOf(i) == i \in DOMAIN results /\ results[i].status \in {"pass", "resolved"}

TaskCall(i) == INSTANCE ChildRun WITH
    call <- CallOf(i), child <- ChildOf(i), success <- SuccessOf(i)
CallStands(i) ==
    CallOf(i)' = CallOf(i) /\ ChildOf(i)' = ChildOf(i) /\ SuccessOf(i)' = SuccessOf(i)

TasksKeepContract ==
    /\ \A i \in DOMAIN Catalog : TaskCall(i)!Init
    /\ [][\A i \in DOMAIN Catalog : TaskCall(i)!Next \/ CallStands(i)]_bvars
=============================================================================
