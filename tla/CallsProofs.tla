---------------------------- MODULE CallsProofs ----------------------------
(***************************************************************************)
(* Proofs about what is shared with other processes: a program run by a    *)
(* tool, a benchmark's child, an isolated subagent, each waited for and    *)
(* free not to answer; REPL sessions; mailboxes and the JSON stores, which *)
(* every process reads and writes; a request to a model, and what is shown *)
(* and kept of a reply that comes in pieces.                               *)
(***************************************************************************)
EXTENDS Children, Programs, Stores, BuiltinTools, Stream, SubsequencesProofs, FiniteSetTheorems

-----------------------------------------------------------------------------
\* A program run by a tool

Frame ==
    [id : 1..3, kind : {"result", "error"}]
        \cup [id : {1, 2}, kind : {"request"}]
        \cup [id : {0}, kind : {"note", "bad"}]

\* What is taken for the server's answer to the query.
AnswersQuery(f) == f.id = 2 /\ f.kind \in {"result", "request"}

LTypeOK ==
    /\ tool \in {"shell", "lsp"}
    /\ step \in {"start", "command", "leaving", "over"} \cup Requests
    /\ draining \in BOOLEAN /\ holder \in BOOLEAN
    /\ program \in {"none", "alive", "gone"}
    /\ queue \in Seq(Frame)
    /\ took \in Frame \cup {NoFrame}
    /\ outcome \in {"none", "ok", "failed", "error", "timeout", "dropped"}

\* Until the call is over nothing is said of it, and only a request is drained.
OpenInv ==
    /\ step # "over" => outcome = "none"
    /\ draining => step \in Requests

\* The shell has neither frames nor requests.
ShellInv ==
    tool = "shell" =>
        /\ step \in {"start", "command", "over"} /\ took = NoFrame
        /\ step = "start" => program = "none"
        /\ step = "over" => program # "alive"
        /\ outcome \in {"ok", "failed"} => OutputClosed

\* What was taken goes with how far the server got.
ServerInv ==
    tool = "lsp" =>
        /\ step # "command"
        /\ step \in {"start", "initialize", "query"} => took = NoFrame
        /\ step \in {"shutdown", "leaving"} \/ outcome = "ok" => AnswersQuery(took)
        /\ took.kind = "result" => outcome \in {"none", "ok", "timeout", "dropped"}

LInv == OpenInv /\ ShellInv /\ ServerInv

LEMMA ProgramStep == LTypeOK /\ LInv /\ [LNext]_lvars => LTypeOK' /\ LInv'
<1> SUFFICES ASSUME LTypeOK, LInv, [LNext]_lvars
             PROVE  LTypeOK' /\ LInv'
  OBVIOUS
<1> USE DEF LTypeOK, LInv, OpenInv, ShellInv, ServerInv, Call, Ends, OutputClosed, Requests, NoFrame, AnswersQuery
<1>1. CASE SpawnFails
  <2>1. LTypeOK'
    BY <1>1 DEF SpawnFails
  <2>2. OpenInv'
    BY <1>1 DEF SpawnFails
  <2>3. ShellInv'
    BY <1>1 DEF SpawnFails
  <2>4. ServerInv'
    BY <1>1 DEF SpawnFails
  <2> QED
    BY <2>1, <2>2, <2>3, <2>4
<1>2. CASE Spawn
  BY <1>2 DEF Spawn
<1>3. CASE ServerSends
  <2>1. Frames \subseteq Frame
    BY DEF Frames, Frame
  <2>2. PICK f \in Frames : queue' = Append(queue, f)
    BY <1>3 DEF ServerSends
  <2>3. queue' \in Seq(Frame)
    BY <2>1, <2>2
  <2> QED
    BY <1>3, <2>3 DEF ServerSends
<1>4. CASE ProgramEnds
  BY <1>4 DEF ProgramEnds
<1>5. CASE HolderStarts
  BY <1>5 DEF HolderStarts
<1>6. CASE HolderEnds
  BY <1>6 DEF HolderEnds
<1>7. CASE CommandEnds
  BY <1>7 DEF CommandEnds
<1>8. CASE ReadFrame
  <2> DEFINE f == Head(queue)
  <2>1. f \in Frame /\ queue' \in Seq(Frame)
    BY <1>8 DEF ReadFrame
  <2>2. tool = "lsp" /\ outcome = "none" /\ step # "over"
    BY <1>8 DEF ReadFrame
  <2>3. UNCHANGED <<tool, holder, sent, program>>
    BY <1>8 DEF ReadFrame
  <2>7. draining' = (f.kind = "bad") /\ step \in Requests
    BY <1>8 DEF ReadFrame
  <2>8. draining' \in BOOLEAN
    BY <2>7
  <2> HIDE DEF f
  <2>9. Matches(f) => draining' = FALSE
    <3>1. Matches(f) => f.id # 0
      BY <2>7 DEF Matches, IdOf
    <3>2. f.id # 0 => f.kind # "bad"
      BY <2>1 DEF Frame
    <3> QED
      BY <2>7, <2>8, <3>1, <3>2
  <2>4. CASE ~Matches(f)
    BY <1>8, <2>1, <2>2, <2>3, <2>4 DEF ReadFrame, f
  <2>5. CASE Matches(f) /\ step = "query"
    <3>1. f.id = 2 /\ f.kind \in {"result", "error", "request"}
      BY <2>1, <2>5 DEF Matches, IdOf, Frame
    <3>2. took' = f /\ (IF f.kind = "error" THEN Broken ELSE Onward)
      BY <1>8, <2>5 DEF ReadFrame, f
    <3>3. CASE f.kind = "error"
      <4>1. LTypeOK'
        BY <2>1, <2>2, <2>3, <2>5, <2>9, <3>1, <3>2, <3>3 DEF Broken
      <4>2. OpenInv'
        BY <2>1, <2>2, <2>3, <2>5, <2>9, <3>1, <3>2, <3>3 DEF Broken
      <4>3. ShellInv'
        BY <2>1, <2>2, <2>3, <2>5, <2>9, <3>1, <3>2, <3>3 DEF Broken
      <4>4. ServerInv'
        BY <2>1, <2>2, <2>3, <2>5, <2>9, <3>1, <3>2, <3>3 DEF Broken
      <4> QED
        BY <4>1, <4>2, <4>3, <4>4
    <3>4. CASE f.kind # "error"
      <4>1. LTypeOK'
        BY <2>1, <2>2, <2>3, <2>5, <2>9, <3>1, <3>2, <3>4 DEF Onward
      <4>2. OpenInv'
        BY <2>1, <2>2, <2>3, <2>5, <2>9, <3>1, <3>2, <3>4 DEF Onward
      <4>3. ShellInv'
        BY <2>1, <2>2, <2>3, <2>5, <2>9, <3>1, <3>2, <3>4 DEF Onward
      <4>4. ServerInv'
        BY <2>1, <2>2, <2>3, <2>5, <2>9, <3>1, <3>2, <3>4 DEF Onward
      <4> QED
        BY <4>1, <4>2, <4>3, <4>4
    <3> QED
      BY <3>3, <3>4
  <2>6. CASE Matches(f) /\ step # "query"
    <3>1. took' = took /\ (IF f.kind = "error" THEN Broken ELSE Onward)
      BY <1>8, <2>6 DEF ReadFrame, f
    <3> QED
      <4>1. LTypeOK'
        BY <2>1, <2>2, <2>3, <2>6, <2>7, <2>9, <3>1 DEF Broken, Onward
      <4>2. OpenInv'
        BY <2>1, <2>2, <2>3, <2>6, <2>7, <2>9, <3>1 DEF Broken, Onward
      <4>3. ShellInv'
        BY <2>1, <2>2, <2>3, <2>6, <2>7, <2>9, <3>1 DEF Broken, Onward
      <4>4. ServerInv'
        BY <2>1, <2>2, <2>3, <2>6, <2>7, <2>9, <3>1 DEF Broken, Onward
      <4> QED
        BY <4>1, <4>2, <4>3, <4>4
  <2> QED
    BY <2>4, <2>5, <2>6
<1>9. CASE ReadEnd
  BY <1>9 DEF ReadEnd
<1>10. CASE Drained
  <2>1. LTypeOK'
    BY <1>10 DEF Drained, Broken
  <2>2. OpenInv'
    BY <1>10 DEF Drained, Broken
  <2>3. ShellInv'
    BY <1>10 DEF Drained, Broken
  <2>4. ServerInv'
    BY <1>10 DEF Drained, Broken
  <2> QED
    BY <2>1, <2>2, <2>3, <2>4
<1>11. CASE Leave
  BY <1>11 DEF Leave
<1>12. CASE LTimeout \/ LCancel
  BY <1>12 DEF LTimeout, LCancel, GiveUp
<1>13. CASE CallOver \/ UNCHANGED lvars
  BY <1>13 DEF CallOver, lvars
<1> QED
  BY <1>1, <1>2, <1>3, <1>4, <1>5, <1>6, <1>7, <1>8, <1>9, <1>10, <1>11, <1>12, <1>13
     DEF LNext

LEMMA ProgramInvariant == LSpec => [](LTypeOK /\ LInv)
<1>1. LInit => LTypeOK /\ LInv
  BY EmptySeq DEF LInit, LTypeOK, LInv, OpenInv, ShellInv, ServerInv, NoFrame, OutputClosed, AnswersQuery, Requests
<1> QED
  BY <1>1, ProgramStep, PTL DEF LSpec

\* A shell command is reported only when it and all it started have ended, and
\* a language server's answer is its answer to the query: whatever frames come,
\* and whenever the call is given up.
THEOREM ProgramsAnswerTruly == LSpec => []ProgramAnswers
<1>1. LTypeOK /\ LInv => ProgramAnswers
  BY DEF LTypeOK, LInv, OpenInv, ShellInv, ServerInv, ProgramAnswers, AnswersQuery, Frame, NoFrame
<1> QED
  BY <1>1, ProgramInvariant, PTL

-----------------------------------------------------------------------------
\* A benchmark's children

ChangeKinds == {"edit", "ignored", "events", "tests"}
Log == [seen : BOOLEAN, steps : Nat, torn : BOOLEAN]
Judged == {"pass", "fail", "resolved", "unresolved", "unscored"}
Row == [status : Judged \cup {"timeout", "error"}, steps : Seq(Nat), scored : SUBSET ChangeKinds]
Waits == {"agent", "killing", "aborting"}
Scoring == {"verify", "diff", "patching", "testing"}

BTypeOK ==
    /\ setup \in Setups
    /\ task \in Nat \ {0}
    /\ stage \in {"start", "prepare", "write", "over"} \cup Waits \cup Scoring
    /\ agents \in [DOMAIN Catalog -> {"none", "alive", "exited", "dying", "dead"}]
    /\ tree \subseteq ChangeKinds /\ head \subseteq ChangeKinds /\ patch \subseteq ChangeKinds
    /\ logs \in [DOMAIN Catalog -> Log] /\ old \in [DOMAIN Catalog -> Log]
    /\ did \in [DOMAIN Catalog -> Seq(Nat)]
    /\ results \in Seq(Row) /\ predictions \in Seq(SUBSET ChangeKinds)

\* How far the run is.
RunInv ==
    /\ Len(results) = task - 1
    /\ Len(predictions) = IF Swe THEN task - 1 ELSE 0
    /\ stage \in {"prepare"} \cup Waits \cup Scoring => task <= Len(Tasks)
    /\ stage = "start" => task = 1
    /\ stage = "write" => task = Len(Tasks) + 1
    /\ stage # "over" => exit = "none"
    /\ stage = "verify" => ~Swe
    /\ stage \in {"diff", "patching", "testing"} => Swe
    /\ task > 1 => stage # "start"
    /\ exit \in {"0", "2"} => task = Len(Tasks) + 1 /\ "summary" \in written
    /\ exit = "0" /\ ~Swe => \A i \in DOMAIN results : results[i].status = "pass"

\* Where the child of each task is.
AgentInv ==
    \A i \in DOMAIN Catalog :
        /\ i > task => agents[i] = "none"
        /\ i = task /\ stage \in {"start", "prepare", "write"} => agents[i] = "none"
        /\ i < task => agents[i] \notin {"alive", "dying"}
        /\ i = task /\ stage = "agent" => agents[i] \in {"alive", "exited"}
        /\ i = task /\ stage \in {"killing", "aborting"} => agents[i] \in {"exited", "dying", "dead"}
        /\ i = task /\ stage \in Scoring => agents[i] = "exited"

\* A log that nobody wrote before is whole until its writer is killed.
LogInv ==
    \A i \in DOMAIN Catalog :
        old[i] = NoLog =>
            /\ Metrics(logs[i]) = did[i] /\ (~logs[i].seen => logs[i].steps = 0)
            /\ agents[i] # "dead" => ~logs[i].torn

\* The tests come in last, and the diff was taken before them.
TreeInv ==
    /\ "tests" \notin head \cup patch
    /\ "tests" \in tree => stage = "testing"
    /\ patch # {} => stage \in {"patching", "testing"}
    /\ stage = "patching" => patch = Diff /\ Tasks[task].tests
    /\ stage = "testing" => Diff = patch \cup (IF Tasks[task].tests THEN {"tests"} ELSE {})

\* What was concluded of the tasks so far.
ResultInv ==
    \A i \in 1..Len(results) :
        LET r == results[i] IN
        /\ r.status \in Judged => agents[i] = "exited"
        /\ r.status \in {"pass", "fail", "timeout"} /\ old[i] = NoLog => r.steps = did[i]
        /\ r.status = "resolved" =>
             r.scored = predictions[i] \cup (IF Tasks[i].tests THEN {"tests"} ELSE {})
        /\ r.status \in {"resolved", "unresolved", "unscored"} => Swe

PredictionInv ==
    \A i \in 1..Len(predictions) :
        /\ "tests" \notin predictions[i]
        /\ predictions[i] # {} => agents[i] = "exited"

BInv == RunInv /\ AgentInv /\ LogInv /\ TreeInv /\ ResultInv /\ PredictionInv


CatalogRow == [easy : BOOLEAN, fixes : BOOLEAN, tests : BOOLEAN]

\* The tasks of a run are tasks of the catalog, and no more of them.
LEMMA TasksType ==
    ASSUME setup \in Setups
    PROVE  /\ Tasks \in Seq(CatalogRow) /\ Len(Tasks) \in 0..Len(Catalog)
           /\ Len(Catalog) \in Nat /\ DOMAIN Catalog = 1..Len(Catalog)
<1>1. Catalog \in Seq(CatalogRow)
  BY BenchAssumption DEF CatalogRow
<1>2. Len(Catalog) \in Nat /\ DOMAIN Catalog = 1..Len(Catalog)
  BY <1>1
<1>3. CASE setup.choice = "quick"
  <2> DEFINE I == {i \in DOMAIN Catalog : Catalog[i].easy}
  <2>1. Tasks = Kept(Catalog, I) /\ I \subseteq 1..Len(Catalog)
    BY <1>2, <1>3 DEF Tasks
  <2> HIDE DEF I
  <2> QED
    BY <1>1, <1>2, <2>1, KeptEmbeds
<1>4. CASE setup.choice = "first"
  <2> DEFINE I == DOMAIN Catalog \cap {1}
  <2>1. Tasks = Kept(Catalog, I) /\ I \subseteq 1..Len(Catalog)
    BY <1>2, <1>4 DEF Tasks
  <2> HIDE DEF I
  <2> QED
    BY <1>1, <1>2, <2>1, KeptEmbeds
<1>5. CASE setup.choice \notin {"quick", "first"}
  BY <1>1, <1>2, <1>5 DEF Tasks
<1> QED
  BY <1>3, <1>4, <1>5

LEMMA BenchInit == BInit => BTypeOK /\ BInv
<1> SUFFICES ASSUME BInit PROVE BTypeOK /\ BInv
  OBVIOUS
<1>1. NoLog \in Log /\ Logs \subseteq Log
  BY DEF NoLog, Logs, Log
<1>2. PICK log \in Logs : old = [i \in DOMAIN Catalog |-> log]
  BY DEF BInit
<1>3. BTypeOK
  BY <1>1, <1>2, EmptySeq DEF BInit, BTypeOK
<1>4. RunInv
  BY EmptySeq DEF BInit, RunInv, Waits, Scoring
<1>5. LogInv
  <2>1. Metrics(NoLog) = <<>> /\ ~NoLog.torn /\ NoLog.steps = 0
    BY DEF Metrics, NoLog
  <2> QED
    BY <2>1 DEF BInit, LogInv
<1>6. AgentInv /\ TreeInv /\ ResultInv /\ PredictionInv
  BY EmptySeq DEF BInit, AgentInv, Scoring, TreeInv, ResultInv, PredictionInv
<1> QED
  BY <1>3, <1>4, <1>5, <1>6 DEF BInv

\* A task is over.
LEMMA Concluded ==
    ASSUME BTypeOK, BInv, NEW status, NEW steps \in Seq(Nat), NEW diff \in SUBSET ChangeKinds,
           Conclude(status, steps, diff),
           stage \in {"prepare"} \cup Waits \cup Scoring, stage # "agent",
           status \in Judged \cup {"timeout", "error"},
           agents[task] \notin {"alive", "dying"},
           status \in Judged => agents[task] = "exited",
           status \in {"pass", "fail", "timeout"} /\ old[task] = NoLog => steps = did[task],
           status \in {"resolved", "unresolved", "unscored"} => Swe,
           status = "resolved" =>
               Diff = diff \cup (IF Tasks[task].tests THEN {"tests"} ELSE {}),
           "tests" \notin diff, diff # {} => agents[task] = "exited"
    PROVE  BTypeOK' /\ BInv'
<1> DEFINE row == [status |-> status, steps |-> steps, scored |->
                      IF status = "resolved" THEN tree \ (head \cup {"ignored"}) ELSE {}]
<1>1. /\ results' = Append(results, row)
      /\ predictions' = (IF Swe THEN Append(predictions, diff) ELSE predictions)
      /\ task' = task + 1
      /\ stage' = (IF task = Len(Tasks) THEN "write" ELSE "prepare")
      /\ patch' = {} /\ tree' = {} /\ head' = {}
      /\ UNCHANGED <<setup, agents, logs, did, written, exit, old>>
  BY DEF Conclude
<1>2. row \in Row
  BY DEF Row, BTypeOK
<1>3. /\ setup \in Setups /\ Tasks' = Tasks /\ Len(Tasks) \in Nat /\ task \in 1..Len(Tasks)
      /\ task \in DOMAIN Catalog /\ (Swe' <=> Swe)
  BY <1>1, TasksType DEF BTypeOK, BInv, RunInv, Tasks, Swe
<1>4. /\ Len(results) = task - 1 /\ Len(results') = task
      /\ \A i \in 1..(task - 1) : results'[i] = results[i]
      /\ results'[task] = row
  BY <1>1, <1>3 DEF BTypeOK, BInv, RunInv
<1>5. /\ Len(predictions') = (IF Swe THEN task ELSE 0)
      /\ \A i \in 1..Len(predictions) : predictions'[i] = predictions[i]
      /\ Swe => Len(predictions) = task - 1 /\ predictions'[task] = diff
      /\ ~Swe => Len(predictions) = 0 /\ predictions' = predictions
  BY <1>1, <1>3 DEF BTypeOK, BInv, RunInv
<1> HIDE DEF row
<1>6. BTypeOK'
  BY <1>1, <1>2, <1>3 DEF BTypeOK
<1>7. RunInv'
  BY <1>1, <1>3, <1>4, <1>5 DEF BInv, RunInv, Waits, Scoring
<1>8. AgentInv' /\ TreeInv' /\ LogInv'
  <2>1. AgentInv'
    <3>1. stage' \in {"write", "prepare"} /\ task' = task + 1 /\ agents' = agents
      BY <1>1
    <3>2. ASSUME NEW i \in DOMAIN Catalog
          PROVE  /\ i > task => agents[i] = "none"
                 /\ i <= task => agents[i] \notin {"alive", "dying"}
                 /\ i \in Nat
      <4>1. i \in Nat
        BY TasksType, <1>3
      <4> QED
        BY <1>3, <4>1 DEF BInv, AgentInv
    <3> QED
      BY <1>3, <3>1, <3>2 DEF AgentInv, Scoring
  <2>2. TreeInv'
    BY <1>1 DEF TreeInv
  <2>3. LogInv'
    BY <1>1 DEF BInv, LogInv, Metrics
  <2> QED
    BY <2>1, <2>2, <2>3
<1>9. ResultInv'
  <2> SUFFICES ASSUME NEW i \in 1..task
               PROVE
        /\ results'[i].status \in Judged => agents[i] = "exited"
        /\ results'[i].status \in {"pass", "fail", "timeout"} /\ old[i] = NoLog =>
             results'[i].steps = did[i]
        /\ results'[i].status = "resolved" =>
             results'[i].scored = predictions'[i] \cup (IF Tasks[i].tests THEN {"tests"} ELSE {})
        /\ results'[i].status \in {"resolved", "unresolved", "unscored"} => Swe
    BY <1>1, <1>3, <1>4 DEF ResultInv
  <2>1. CASE i = task
    BY <1>1, <1>4, <1>5, <2>1 DEF row, Diff
  <2>2. CASE i < task
    <3>1. i \in 1..(task - 1) /\ results'[i] = results[i] /\ i \in 1..Len(results)
      BY <1>3, <1>4, <2>2
    <3>2. Swe => predictions'[i] = predictions[i]
      BY <1>5, <3>1
    <3> QED
      BY <3>1, <3>2 DEF BInv, ResultInv, Judged
  <2> QED
    BY <1>3, <2>1, <2>2
<1>10. PredictionInv'
  <2> SUFFICES ASSUME NEW i \in 1..Len(predictions')
               PROVE  /\ "tests" \notin predictions'[i]
                      /\ predictions'[i] # {} => agents[i] = "exited"
    BY <1>1 DEF PredictionInv
  <2>1. CASE i \in 1..Len(predictions)
    BY <1>5, <2>1 DEF BInv, PredictionInv
  <2>2. CASE i \notin 1..Len(predictions)
    BY <1>3, <1>5, <2>2
  <2> QED
    BY <2>1, <2>2
<1> QED
  BY <1>6, <1>7, <1>8, <1>9, <1>10 DEF BInv

\* What was concluded stands, as long as nothing happens to the tasks it is of.
LEMMA PastStands ==
    ASSUME BTypeOK, BInv, UNCHANGED <<setup, record, old>>,
           \A i \in 1..(task - 1) : agents'[i] = agents[i] /\ did'[i] = did[i]
    PROVE  ResultInv' /\ PredictionInv'
<1>1. /\ Len(results) = task - 1 /\ Len(predictions) \in {0, task - 1}
      /\ UNCHANGED <<setup, results, predictions, old>> /\ Tasks' = Tasks /\ (Swe' <=> Swe)
  BY DEF BInv, RunInv, record, Tasks, Swe
<1>2. ResultInv'
  BY <1>1 DEF BInv, ResultInv
<1>3. PredictionInv'
  <2>1. \A i \in 1..Len(predictions) : i \in 1..(task - 1)
    BY <1>1 DEF BTypeOK
  <2> QED
    BY <1>1, <2>1 DEF BInv, PredictionInv
<1> QED
  BY <1>2, <1>3

LEMMA BenchSteps ==
    ASSUME BTypeOK, BInv,
           RefuseRun \/ BeginRun \/ Prepare \/ AgentEdits \/ AgentCommits \/ AgentLogs \/ AgentLogsInTree \/ AgentExits \/ AgentDies \/ AgentDone \/ CapHit \/ WaitBreaks \/ ApplyTests \/ WriteResults \/ WriteFails \/ UNCHANGED bvars
    PROVE  BTypeOK' /\ BInv'
<1>0. /\ setup \in Setups /\ Len(Tasks) \in 0..Len(Catalog) /\ DOMAIN Catalog = 1..Len(Catalog)
      /\ Len(Catalog) \in Nat /\ task \in Nat \ {0} /\ UNCHANGED <<setup, task, record, old>>
      /\ Tasks' = Tasks /\ (Swe' <=> Swe)
  <2>1. UNCHANGED <<setup, task, record, old>>
    BY DEF RefuseRun, BeginRun, Prepare, AgentEdits, AgentCommits, AgentLogs, AgentLogsInTree,
           AgentExits, AgentDies, AgentDone, CapHit, WaitBreaks, ApplyTests, WriteResults,
           WriteFails, Agent, bvars
  <2> QED
    BY <2>1, TasksType DEF BTypeOK, Tasks, Swe
<1>1. CASE RefuseRun
  <2>1. BTypeOK'
    BY <1>0, <1>1 DEF BTypeOK, RefuseRun, work, record
  <2>2. RunInv'
    BY <1>0, <1>1 DEF BTypeOK, BInv, RunInv, Waits, Scoring, RefuseRun, work, record
  <2>3. AgentInv'
    BY <1>0, <1>1 DEF BTypeOK, BInv, RunInv, AgentInv, Waits, Scoring, RefuseRun, work, record
  <2>4. LogInv'
    BY <1>0, <1>1 DEF BTypeOK, BInv, LogInv, AgentInv, Metrics, NoLog, RefuseRun, work, record
  <2>5. TreeInv'
    BY <1>0, <1>1 DEF BTypeOK, BInv, RunInv, TreeInv, Diff, RefuseRun, work, record
  <2>6. ResultInv' /\ PredictionInv'
    <3>1. \A i \in 1..(task - 1) : agents'[i] = agents[i] /\ did'[i] = did[i]
      BY <1>0, <1>1 DEF BTypeOK, RefuseRun, work, record
    <3> QED
      BY <1>0, <3>1, PastStands
  <2> QED
    BY <2>1, <2>2, <2>3, <2>4, <2>5, <2>6 DEF BInv
<1>2. CASE BeginRun
  <2>1. BTypeOK'
    BY <1>0, <1>2 DEF BTypeOK, BeginRun, work, record
  <2>2. RunInv'
    BY <1>0, <1>2 DEF BTypeOK, BInv, RunInv, Waits, Scoring, BeginRun, work, record
  <2>3. AgentInv'
    BY <1>0, <1>2 DEF BTypeOK, BInv, RunInv, AgentInv, Waits, Scoring, BeginRun, work, record
  <2>4. LogInv'
    BY <1>0, <1>2 DEF BTypeOK, BInv, LogInv, AgentInv, Metrics, NoLog, BeginRun, work, record
  <2>5. TreeInv'
    BY <1>0, <1>2 DEF BTypeOK, BInv, RunInv, TreeInv, Diff, BeginRun, work, record
  <2>6. ResultInv' /\ PredictionInv'
    <3>1. \A i \in 1..(task - 1) : agents'[i] = agents[i] /\ did'[i] = did[i]
      BY <1>0, <1>2 DEF BTypeOK, BeginRun, work, record
    <3> QED
      BY <1>0, <3>1, PastStands
  <2> QED
    BY <2>1, <2>2, <2>3, <2>4, <2>5, <2>6 DEF BInv
<1>3. CASE Prepare
  <2>1. BTypeOK'
    BY <1>0, <1>3 DEF BTypeOK, Waits, Scoring, ChangeKinds, Prepare, work, record
  <2>2. RunInv'
    BY <1>0, <1>3 DEF BTypeOK, BInv, RunInv, Waits, Scoring, Prepare, work, record
  <2>3. AgentInv'
    BY <1>0, <1>3, SMTT(30) DEF BTypeOK, BInv, RunInv, AgentInv, Waits, Scoring, Prepare, work, record
  <2>4. LogInv'
    BY <1>0, <1>3 DEF BTypeOK, BInv, LogInv, AgentInv, Metrics, NoLog, Prepare, work, record
  <2>5. TreeInv'
    BY <1>0, <1>3 DEF BTypeOK, BInv, RunInv, TreeInv, Diff, Prepare, work, record
  <2>6. ResultInv' /\ PredictionInv'
    <3>1. \A i \in 1..(task - 1) : agents'[i] = agents[i] /\ did'[i] = did[i]
      BY <1>0, <1>3 DEF BTypeOK, Prepare, work, record
    <3> QED
      BY <1>0, <3>1, PastStands
  <2> QED
    BY <2>1, <2>2, <2>3, <2>4, <2>5, <2>6 DEF BInv
<1>4. CASE AgentEdits
  <2>1. BTypeOK'
    BY <1>0, <1>4 DEF BTypeOK, Waits, Scoring, ChangeKinds, AgentEdits, Working, Agent, work, record
  <2>2. RunInv'
    BY <1>0, <1>4 DEF BTypeOK, BInv, RunInv, Waits, Scoring, AgentEdits, Working, Agent, work, record
  <2>3. AgentInv'
    BY <1>0, <1>4 DEF BTypeOK, BInv, RunInv, AgentInv, Waits, Scoring, AgentEdits, Working, Agent, work, record
  <2>4. LogInv'
    BY <1>0, <1>4 DEF BTypeOK, BInv, LogInv, AgentInv, Metrics, NoLog, AgentEdits, Working, Agent, work, record
  <2>5. TreeInv'
    BY <1>0, <1>4 DEF BTypeOK, BInv, RunInv, TreeInv, Diff, AgentEdits, Working, Agent, work, record
  <2>6. ResultInv' /\ PredictionInv'
    <3>1. \A i \in 1..(task - 1) : agents'[i] = agents[i] /\ did'[i] = did[i]
      BY <1>0, <1>4 DEF BTypeOK, AgentEdits, Working, Agent, work, record
    <3> QED
      BY <1>0, <3>1, PastStands
  <2> QED
    BY <2>1, <2>2, <2>3, <2>4, <2>5, <2>6 DEF BInv
<1>5. CASE AgentCommits
  <2>1. BTypeOK'
    BY <1>0, <1>5 DEF BTypeOK, AgentCommits, Working, Agent, work, record
  <2>2. RunInv'
    BY <1>0, <1>5 DEF BTypeOK, BInv, RunInv, Waits, Scoring, AgentCommits, Working, Agent, work, record
  <2>3. AgentInv'
    BY <1>0, <1>5 DEF BTypeOK, BInv, RunInv, AgentInv, Waits, Scoring, AgentCommits, Working, Agent, work, record
  <2>4. LogInv'
    BY <1>0, <1>5 DEF BTypeOK, BInv, LogInv, AgentInv, Metrics, NoLog, AgentCommits, Working, Agent, work, record
  <2>5. TreeInv'
    BY <1>0, <1>5 DEF BTypeOK, BInv, RunInv, TreeInv, Diff, AgentCommits, Working, Agent, work, record
  <2>6. ResultInv' /\ PredictionInv'
    <3>1. \A i \in 1..(task - 1) : agents'[i] = agents[i] /\ did'[i] = did[i]
      BY <1>0, <1>5 DEF BTypeOK, AgentCommits, Working, Agent, work, record
    <3> QED
      BY <1>0, <3>1, PastStands
  <2> QED
    BY <2>1, <2>2, <2>3, <2>4, <2>5, <2>6 DEF BInv
<1>6. CASE AgentLogs
  <2>0. PICK step1 \in {0, 1} :
            /\ logs' = [logs EXCEPT ![task] = Logged(@, step1)]
            /\ did' = [did EXCEPT ![task] = <<Did(task) + step1>>]
    BY <1>6 DEF AgentLogs
  <2>7. task \in DOMAIN Catalog /\ agents' = agents /\ ~Swe /\ agents[task] \in {"alive", "dying"}
    BY <1>0, <1>6 DEF BTypeOK, BInv, RunInv, Waits, AgentLogs, Working
  <2>8. \A log \in Log : Logged(log, step1) \in Log
    <3> SUFFICES ASSUME NEW log \in Log PROVE Logged(log, step1) \in Log
      OBVIOUS
    <3>1. log.steps + step1 \in Nat /\ log.steps \in Nat
      BY <2>0 DEF Log
    <3> QED
      BY <3>1 DEF Logged, Log
  <2>9. Did(task) \in Nat
    <3>1. did[task] \in Seq(Nat)
      BY <2>7 DEF BTypeOK
    <3> QED
      BY <3>1 DEF Did
  <2>1. BTypeOK'
    <3>1. logs' \in [DOMAIN Catalog -> Log]
      BY <2>0, <2>8 DEF BTypeOK
    <3>2. did' \in [DOMAIN Catalog -> Seq(Nat)]
      <4>1. <<Did(task) + step1>> \in Seq(Nat)
        BY <2>9
      <4> QED
        BY <2>0, <4>1 DEF BTypeOK
    <3> QED
      BY <1>0, <1>6, <3>1, <3>2 DEF BTypeOK, AgentLogs, Agent, record
  <2>2. RunInv'
    BY <1>0, <1>6 DEF BTypeOK, BInv, RunInv, Waits, Scoring, AgentLogs, Working, Agent, Logged, Did, Log, work, record
  <2>3. AgentInv'
    BY <1>0, <1>6 DEF BTypeOK, BInv, RunInv, AgentInv, Waits, Scoring, AgentLogs, Working, Agent, Logged, Did, Log, work, record
  <2>4. LogInv'
    <3>1. \A i \in DOMAIN Catalog \ {task} : logs'[i] = logs[i] /\ did'[i] = did[i]
      BY <2>0 DEF BTypeOK
    <3>2. logs'[task] = Logged(logs[task], step1) /\ did'[task] = <<Did(task) + step1>>
      BY <2>0, <2>7 DEF BTypeOK
    <3>3. old[task] = NoLog => Metrics(logs'[task]) = did'[task] /\ ~logs'[task].torn /\ logs'[task].seen
      <4> SUFFICES ASSUME old[task] = NoLog
                   PROVE  Metrics(logs'[task]) = did'[task] /\ ~logs'[task].torn /\ logs'[task].seen
        OBVIOUS
      <4>1. /\ logs[task] \in Log /\ Metrics(logs[task]) = did[task] /\ ~logs[task].torn
            /\ ~logs[task].seen => logs[task].steps = 0
        BY <2>7 DEF BTypeOK, BInv, LogInv
      <4>2. logs'[task] = [logs[task] EXCEPT !.seen = TRUE, !.steps = @ + step1]
        BY <3>2, <4>1 DEF Logged
      <4>3. logs'[task].seen /\ logs'[task].steps = logs[task].steps + step1 /\ ~logs'[task].torn
        BY <4>1, <4>2 DEF Log
      <4>4. CASE logs[task].seen
        BY <3>2, <4>1, <4>3, <4>4 DEF Metrics, Did
      <4>5. CASE ~logs[task].seen
        BY <3>2, <4>1, <4>3, <4>5 DEF Metrics, Did
      <4> QED
        BY <4>4, <4>5, <4>3
    <3> QED
      BY <1>0, <2>7, <3>1, <3>3 DEF BInv, LogInv
  <2>5. TreeInv'
    BY <1>0, <1>6 DEF BTypeOK, BInv, RunInv, TreeInv, Diff, AgentLogs, Working, Agent, Logged, Did, Log, work, record
  <2>6. ResultInv' /\ PredictionInv'
    <3>1. \A i \in 1..(task - 1) : agents'[i] = agents[i] /\ did'[i] = did[i]
      BY <1>0, <1>6 DEF BTypeOK, AgentLogs, Working, Agent, Logged, Did, Log, work, record
    <3> QED
      BY <1>0, <3>1, PastStands
  <2> QED
    BY <2>1, <2>2, <2>3, <2>4, <2>5, <2>6 DEF BInv
<1>7. CASE AgentLogsInTree
  <2>1. BTypeOK'
    BY <1>0, <1>7 DEF BTypeOK, Waits, Scoring, ChangeKinds, AgentLogsInTree, Working, Agent, LogInTree, work, record
  <2>2. RunInv'
    BY <1>0, <1>7 DEF BTypeOK, BInv, RunInv, Waits, Scoring, AgentLogsInTree, Working, Agent, LogInTree, work, record
  <2>3. AgentInv'
    BY <1>0, <1>7 DEF BTypeOK, BInv, RunInv, AgentInv, Waits, Scoring, AgentLogsInTree, Working, Agent, LogInTree, work, record
  <2>4. LogInv'
    BY <1>0, <1>7 DEF BTypeOK, BInv, LogInv, AgentInv, Metrics, NoLog, AgentLogsInTree, Working, Agent, LogInTree, work, record
  <2>5. TreeInv'
    BY <1>0, <1>7 DEF BTypeOK, BInv, RunInv, TreeInv, Diff, AgentLogsInTree, Working, Agent, LogInTree, work, record
  <2>6. ResultInv' /\ PredictionInv'
    <3>1. \A i \in 1..(task - 1) : agents'[i] = agents[i] /\ did'[i] = did[i]
      BY <1>0, <1>7 DEF BTypeOK, AgentLogsInTree, Working, Agent, LogInTree, work, record
    <3> QED
      BY <1>0, <3>1, PastStands
  <2> QED
    BY <2>1, <2>2, <2>3, <2>4, <2>5, <2>6 DEF BInv
<1>8. CASE AgentExits
  <2>1. BTypeOK'
    BY <1>0, <1>8 DEF BTypeOK, AgentExits, Agent, work, record
  <2>2. RunInv'
    BY <1>0, <1>8 DEF BTypeOK, BInv, RunInv, Waits, Scoring, AgentExits, Agent, work, record
  <2>3. AgentInv'
    BY <1>0, <1>8 DEF BTypeOK, BInv, RunInv, AgentInv, Waits, Scoring, AgentExits, Agent, work, record
  <2>4. LogInv'
    BY <1>0, <1>8 DEF BTypeOK, BInv, LogInv, AgentInv, Metrics, NoLog, AgentExits, Agent, work, record
  <2>5. TreeInv'
    BY <1>0, <1>8 DEF BTypeOK, BInv, RunInv, TreeInv, Diff, AgentExits, Agent, work, record
  <2>6. ResultInv' /\ PredictionInv'
    <3>1. \A i \in 1..(task - 1) : agents'[i] = agents[i] /\ did'[i] = did[i]
      BY <1>0, <1>8 DEF BTypeOK, AgentExits, Agent, work, record
    <3> QED
      BY <1>0, <3>1, PastStands
  <2> QED
    BY <2>1, <2>2, <2>3, <2>4, <2>5, <2>6 DEF BInv
<1>9. CASE AgentDies
  <2>1. BTypeOK'
    <3>1. logs' \in [DOMAIN Catalog -> Log]
      <4>1. CASE logs' = logs
        BY <4>1 DEF BTypeOK
      <4>2. CASE logs' = [logs EXCEPT ![task].torn = TRUE]
        <5>1. \A i \in DOMAIN Catalog : [logs[i] EXCEPT !.torn = TRUE] \in Log
          BY DEF BTypeOK, Log
        <5> QED
          BY <4>2, <5>1 DEF BTypeOK
      <4> QED
        BY <1>9, <4>1, <4>2 DEF AgentDies
    <3> QED
      BY <1>0, <1>9, <3>1 DEF BTypeOK, AgentDies, Agent, record
  <2>2. RunInv'
    BY <1>0, <1>9 DEF BTypeOK, BInv, RunInv, Waits, Scoring, AgentDies, Agent, Log, work, record
  <2>3. AgentInv'
    BY <1>0, <1>9 DEF BTypeOK, BInv, RunInv, AgentInv, Waits, Scoring, AgentDies, Agent, Log, work, record
  <2>4. LogInv'
    <3>1. \A i \in DOMAIN Catalog :
            /\ logs'[i].seen = logs[i].seen /\ logs'[i].steps = logs[i].steps
            /\ agents'[i] # "dead" => logs'[i] = logs[i] /\ agents[i] # "dead"
      <4>1. task \in DOMAIN Catalog /\ agents' = [agents EXCEPT ![task] = "dead"]
        BY <1>0, <1>9 DEF BTypeOK, BInv, RunInv, Waits, AgentDies
      <4>2. CASE logs' = logs
        BY <4>1, <4>2 DEF BTypeOK
      <4>3. CASE logs' = [logs EXCEPT ![task].torn = TRUE]
        <5>1. \A i \in DOMAIN Catalog : logs'[i] = IF i = task THEN [logs[i] EXCEPT !.torn = TRUE] ELSE logs[i]
          BY <4>3 DEF BTypeOK
        <5> QED
          BY <4>1, <5>1 DEF BTypeOK, Log
      <4> QED
        BY <1>9, <4>2, <4>3 DEF AgentDies
    <3>2. old' = old /\ did' = did
      BY <1>9 DEF AgentDies, Agent
    <3> QED
      BY <3>1, <3>2 DEF BInv, LogInv, Metrics
  <2>5. TreeInv'
    BY <1>0, <1>9 DEF BTypeOK, BInv, RunInv, TreeInv, Diff, AgentDies, Agent, Log, work, record
  <2>6. ResultInv' /\ PredictionInv'
    <3>1. \A i \in 1..(task - 1) : agents'[i] = agents[i] /\ did'[i] = did[i]
      BY <1>0, <1>9 DEF BTypeOK, AgentDies, Agent, Log, work, record
    <3> QED
      BY <1>0, <3>1, PastStands
  <2> QED
    BY <2>1, <2>2, <2>3, <2>4, <2>5, <2>6 DEF BInv
<1>10. CASE AgentDone
  <2>1. BTypeOK'
    BY <1>0, <1>10 DEF BTypeOK, Waits, Scoring, ChangeKinds, AgentDone, work, record
  <2>2. RunInv'
    BY <1>0, <1>10 DEF BTypeOK, BInv, RunInv, Waits, Scoring, AgentDone, work, record
  <2>3. AgentInv'
    BY <1>0, <1>10 DEF BTypeOK, BInv, RunInv, AgentInv, Waits, Scoring, AgentDone, work, record
  <2>4. LogInv'
    BY <1>0, <1>10 DEF BTypeOK, BInv, LogInv, AgentInv, Metrics, NoLog, AgentDone, work, record
  <2>5. TreeInv'
    BY <1>0, <1>10 DEF BTypeOK, BInv, RunInv, TreeInv, Diff, AgentDone, work, record
  <2>6. ResultInv' /\ PredictionInv'
    <3>1. \A i \in 1..(task - 1) : agents'[i] = agents[i] /\ did'[i] = did[i]
      BY <1>0, <1>10 DEF BTypeOK, AgentDone, work, record
    <3> QED
      BY <1>0, <3>1, PastStands
  <2> QED
    BY <2>1, <2>2, <2>3, <2>4, <2>5, <2>6 DEF BInv
<1>11. CASE CapHit
  <2>1. BTypeOK'
    BY <1>0, <1>11 DEF BTypeOK, Waits, Scoring, ChangeKinds, CapHit, KillAgent, work, record
  <2>2. RunInv'
    BY <1>0, <1>11 DEF BTypeOK, BInv, RunInv, Waits, Scoring, CapHit, KillAgent, work, record
  <2>3. AgentInv'
    BY <1>0, <1>11 DEF BTypeOK, BInv, RunInv, AgentInv, Waits, Scoring, CapHit, KillAgent, work, record
  <2>4. LogInv'
    BY <1>0, <1>11 DEF BTypeOK, BInv, LogInv, AgentInv, Metrics, NoLog, CapHit, KillAgent, work, record
  <2>5. TreeInv'
    BY <1>0, <1>11 DEF BTypeOK, BInv, RunInv, TreeInv, Diff, CapHit, KillAgent, work, record
  <2>6. ResultInv' /\ PredictionInv'
    <3>1. \A i \in 1..(task - 1) : agents'[i] = agents[i] /\ did'[i] = did[i]
      BY <1>0, <1>11 DEF BTypeOK, CapHit, KillAgent, work, record
    <3> QED
      BY <1>0, <3>1, PastStands
  <2> QED
    BY <2>1, <2>2, <2>3, <2>4, <2>5, <2>6 DEF BInv
<1>12. CASE WaitBreaks
  <2>1. BTypeOK'
    BY <1>0, <1>12 DEF BTypeOK, Waits, Scoring, ChangeKinds, WaitBreaks, KillAgent, work, record
  <2>2. RunInv'
    BY <1>0, <1>12 DEF BTypeOK, BInv, RunInv, Waits, Scoring, WaitBreaks, KillAgent, work, record
  <2>3. AgentInv'
    BY <1>0, <1>12 DEF BTypeOK, BInv, RunInv, AgentInv, Waits, Scoring, WaitBreaks, KillAgent, work, record
  <2>4. LogInv'
    BY <1>0, <1>12 DEF BTypeOK, BInv, LogInv, AgentInv, Metrics, NoLog, WaitBreaks, KillAgent, work, record
  <2>5. TreeInv'
    BY <1>0, <1>12 DEF BTypeOK, BInv, RunInv, TreeInv, Diff, WaitBreaks, KillAgent, work, record
  <2>6. ResultInv' /\ PredictionInv'
    <3>1. \A i \in 1..(task - 1) : agents'[i] = agents[i] /\ did'[i] = did[i]
      BY <1>0, <1>12 DEF BTypeOK, WaitBreaks, KillAgent, work, record
    <3> QED
      BY <1>0, <3>1, PastStands
  <2> QED
    BY <2>1, <2>2, <2>3, <2>4, <2>5, <2>6 DEF BInv
<1>13. CASE ApplyTests
  <2>1. BTypeOK'
    BY <1>0, <1>13 DEF BTypeOK, Waits, Scoring, ChangeKinds, ApplyTests, work, record
  <2>2. RunInv'
    BY <1>0, <1>13 DEF BTypeOK, BInv, RunInv, Waits, Scoring, ApplyTests, work, record
  <2>3. AgentInv'
    BY <1>0, <1>13 DEF BTypeOK, BInv, RunInv, AgentInv, Waits, Scoring, ApplyTests, work, record
  <2>4. LogInv'
    BY <1>0, <1>13 DEF BTypeOK, BInv, LogInv, AgentInv, Metrics, NoLog, ApplyTests, work, record
  <2>5. TreeInv'
    BY <1>0, <1>13 DEF BTypeOK, BInv, RunInv, TreeInv, Diff, ApplyTests, work, record
  <2>6. ResultInv' /\ PredictionInv'
    <3>1. \A i \in 1..(task - 1) : agents'[i] = agents[i] /\ did'[i] = did[i]
      BY <1>0, <1>13 DEF BTypeOK, ApplyTests, work, record
    <3> QED
      BY <1>0, <3>1, PastStands
  <2> QED
    BY <2>1, <2>2, <2>3, <2>4, <2>5, <2>6 DEF BInv
<1>14. CASE WriteResults
  <2>1. BTypeOK'
    BY <1>0, <1>14 DEF BTypeOK, WriteResults, work, record
  <2>2. RunInv'
    BY <1>0, <1>14 DEF BTypeOK, BInv, RunInv, Waits, Scoring, WriteResults, work, record
  <2>3. AgentInv'
    BY <1>0, <1>14 DEF BTypeOK, BInv, RunInv, AgentInv, Waits, Scoring, WriteResults, work, record
  <2>4. LogInv'
    BY <1>0, <1>14 DEF BTypeOK, BInv, LogInv, AgentInv, Metrics, NoLog, WriteResults, work, record
  <2>5. TreeInv'
    BY <1>0, <1>14 DEF BTypeOK, BInv, RunInv, TreeInv, Diff, WriteResults, work, record
  <2>6. ResultInv' /\ PredictionInv'
    <3>1. \A i \in 1..(task - 1) : agents'[i] = agents[i] /\ did'[i] = did[i]
      BY <1>0, <1>14 DEF BTypeOK, WriteResults, work, record
    <3> QED
      BY <1>0, <3>1, PastStands
  <2> QED
    BY <2>1, <2>2, <2>3, <2>4, <2>5, <2>6 DEF BInv
<1>15. CASE WriteFails
  <2>1. BTypeOK'
    BY <1>0, <1>15 DEF BTypeOK, WriteFails, work, record
  <2>2. RunInv'
    BY <1>0, <1>15 DEF BTypeOK, BInv, RunInv, Waits, Scoring, WriteFails, work, record
  <2>3. AgentInv'
    BY <1>0, <1>15 DEF BTypeOK, BInv, RunInv, AgentInv, Waits, Scoring, WriteFails, work, record
  <2>4. LogInv'
    BY <1>0, <1>15 DEF BTypeOK, BInv, LogInv, AgentInv, Metrics, NoLog, WriteFails, work, record
  <2>5. TreeInv'
    BY <1>0, <1>15 DEF BTypeOK, BInv, RunInv, TreeInv, Diff, WriteFails, work, record
  <2>6. ResultInv' /\ PredictionInv'
    <3>1. \A i \in 1..(task - 1) : agents'[i] = agents[i] /\ did'[i] = did[i]
      BY <1>0, <1>15 DEF BTypeOK, WriteFails, work, record
    <3> QED
      BY <1>0, <3>1, PastStands
  <2> QED
    BY <2>1, <2>2, <2>3, <2>4, <2>5, <2>6 DEF BInv
<1>16. CASE UNCHANGED bvars
  <2>1. BTypeOK'
    BY <1>0, <1>16 DEF BTypeOK, bvars, work, record
  <2>2. RunInv'
    BY <1>0, <1>16 DEF BTypeOK, BInv, RunInv, Waits, Scoring, bvars, work, record
  <2>3. AgentInv'
    BY <1>0, <1>16 DEF BTypeOK, BInv, RunInv, AgentInv, Waits, Scoring, bvars, work, record
  <2>4. LogInv'
    BY <1>0, <1>16 DEF BTypeOK, BInv, LogInv, AgentInv, Metrics, NoLog, bvars, work, record
  <2>5. TreeInv'
    BY <1>0, <1>16 DEF BTypeOK, BInv, RunInv, TreeInv, Diff, bvars, work, record
  <2>6. ResultInv' /\ PredictionInv'
    <3>1. \A i \in 1..(task - 1) : agents'[i] = agents[i] /\ did'[i] = did[i]
      BY <1>0, <1>16 DEF BTypeOK, bvars, work, record
    <3> QED
      BY <1>0, <3>1, PastStands
  <2> QED
    BY <2>1, <2>2, <2>3, <2>4, <2>5, <2>6 DEF BInv
<1> QED
  BY <1>1, <1>2, <1>3, <1>4, <1>5, <1>6, <1>7, <1>8, <1>9, <1>10, <1>11, <1>12, <1>13, <1>14, <1>15, <1>16

LEMMA MetricsType == ASSUME NEW log \in Log PROVE Metrics(log) \in Seq(Nat)
  BY DEF Metrics, Log

\* The steps that end a task.
LEMMA BenchConcludes ==
    ASSUME BTypeOK, BInv,
           \/ PrepareFails \/ AgentGone \/ Verify \/ VerifyFails \/ CaptureFails
           \/ ApplyFails \/ RunTests \/ RunTestsFails
    PROVE  BTypeOK' /\ BInv'
<1>0. /\ task \in DOMAIN Catalog \/ stage \in {"start", "write", "over"}
      /\ <<>> \in Seq(Nat) /\ {} \in SUBSET ChangeKinds
  BY TasksType DEF BTypeOK, BInv, RunInv, Waits, Scoring
<1>1. CASE PrepareFails
  BY <1>0, <1>1, Concluded DEF PrepareFails, GoneWrong, BInv, AgentInv, Judged
<1>2. CASE AgentGone
  <2> DEFINE status == IF stage = "killing" /\ ~Swe THEN "timeout" ELSE "error"
             steps == IF Swe THEN <<>> ELSE Metrics(logs[task])
  <2>1. task \in DOMAIN Catalog /\ stage \in Waits /\ stage # "agent"
    BY <1>0, <1>2 DEF AgentGone, Waits
  <2>2. steps \in Seq(Nat)
    BY <2>1, <1>0, MetricsType DEF BTypeOK
  <2>3. status = "timeout" /\ old[task] = NoLog => steps = did[task]
    BY <2>1 DEF BInv, LogInv
  <2>4. Conclude(status, steps, {}) /\ agents[task] \in {"exited", "dead"}
    BY <1>2 DEF AgentGone, GoneWrong
  <2>5. status \in {"timeout", "error"}
    OBVIOUS
  <2> HIDE DEF status, steps
  <2> QED
    BY <1>0, <2>1, <2>2, <2>3, <2>4, <2>5, Concluded DEF Judged
<1>3. CASE Verify
  <2>1. PICK status \in {"pass", "fail"} : Conclude(status, Metrics(logs[task]), {})
    BY <1>3 DEF Verify
  <2>2. task \in DOMAIN Catalog /\ stage \in Scoring /\ stage # "agent" /\ stage = "verify"
    BY <1>0, <1>3 DEF Verify, Scoring
  <2>3. Metrics(logs[task]) \in Seq(Nat) /\ agents[task] = "exited"
    BY <2>2, MetricsType DEF BTypeOK, BInv, AgentInv
  <2>4. old[task] = NoLog => Metrics(logs[task]) = did[task]
    BY <2>2 DEF BInv, LogInv
  <2> QED
    BY <1>0, <2>1, <2>2, <2>3, <2>4, Concluded DEF Judged
<1>4. CASE VerifyFails \/ CaptureFails
  <2>1. /\ task \in DOMAIN Catalog /\ stage \in Scoring /\ stage # "agent"
        /\ agents[task] = "exited" /\ Conclude("error", <<>>, {})
    BY <1>0, <1>4 DEF VerifyFails, CaptureFails, GoneWrong, Scoring, BInv, AgentInv
  <2> QED
    BY <1>0, <2>1, Concluded DEF Judged
<1>5. CASE ApplyFails \/ RunTestsFails
  <2>1. /\ task \in DOMAIN Catalog /\ stage \in Scoring /\ stage # "agent"
        /\ agents[task] = "exited" /\ Conclude("unscored", <<>>, patch) /\ Swe
    BY <1>0, <1>5 DEF ApplyFails, RunTestsFails, Scoring, BInv, AgentInv, RunInv
  <2>2. patch \in SUBSET ChangeKinds /\ "tests" \notin patch
    BY DEF BTypeOK, BInv, TreeInv
  <2> QED
    BY <1>0, <2>1, <2>2, Concluded DEF Judged
<1>6. CASE RunTests
  <2>1. PICK status \in {"resolved", "unresolved"} : Conclude(status, <<>>, patch)
    BY <1>6 DEF RunTests
  <2>2. /\ task \in DOMAIN Catalog /\ stage \in Scoring /\ stage # "agent"
        /\ agents[task] = "exited" /\ Swe
        /\ Diff = patch \cup (IF Tasks[task].tests THEN {"tests"} ELSE {})
    BY <1>0, <1>6 DEF RunTests, Scoring, BInv, AgentInv, RunInv, TreeInv
  <2>3. patch \in SUBSET ChangeKinds /\ "tests" \notin patch
    BY DEF BTypeOK, BInv, TreeInv
  <2> QED
    BY <1>0, <2>1, <2>2, <2>3, Concluded DEF Judged
<1> QED
  BY <1>1, <1>2, <1>3, <1>4, <1>5, <1>6

LEMMA BenchCapture ==
    ASSUME BTypeOK, BInv, CaptureDiff
    PROVE  BTypeOK' /\ BInv'
<1>0. /\ stage = "diff" /\ setup \in Setups /\ task \in 1..Len(Tasks) /\ task \in DOMAIN Catalog
      /\ Len(Tasks) \in Nat /\ agents[task] = "exited" /\ Swe /\ "tests" \notin Diff
      /\ Diff \in SUBSET ChangeKinds
  BY TasksType DEF CaptureDiff, BTypeOK, BInv, RunInv, TreeInv, AgentInv, Scoring, Diff
<1>1. CASE setup.score
  <2>1. /\ patch' = Diff /\ stage' = (IF Tasks[task].tests THEN "patching" ELSE "testing")
        /\ UNCHANGED <<setup, task, agents, tree, head, logs, did, results, predictions, written,
                       exit, old>>
    BY <1>1 DEF CaptureDiff, work, record
  <2>2. Tasks' = Tasks /\ (Swe' <=> Swe) /\ Diff' = Diff /\ stage' \in {"patching", "testing"}
    BY <2>1 DEF Tasks, Swe, Diff
  <2>3. BTypeOK'
    BY <1>0, <2>1, <2>2 DEF BTypeOK, Scoring
  <2>4. RunInv'
    BY <1>0, <2>1, <2>2 DEF BInv, RunInv
  <2>5. AgentInv' /\ LogInv'
    BY <1>0, <2>1, <2>2 DEF BInv, AgentInv, Scoring, LogInv, Metrics
  <2>6. TreeInv'
    BY <1>0, <2>1, <2>2 DEF BInv, TreeInv
  <2>7. ResultInv' /\ PredictionInv'
    BY <2>1, PastStands DEF record
  <2> QED
    BY <2>3, <2>4, <2>5, <2>6, <2>7 DEF BInv
<1>2. CASE ~setup.score
  <2>1. Conclude("unscored", <<>>, Diff) /\ <<>> \in Seq(Nat)
    BY <1>2 DEF CaptureDiff
  <2> QED
    BY <1>0, <2>1, Concluded DEF Judged, Scoring
<1> QED
  BY <1>1, <1>2

LEMMA BenchInvariant == BSpec => [](BTypeOK /\ BInv)
<1>1. BTypeOK /\ BInv /\ [BNext]_bvars => BTypeOK' /\ BInv'
  BY BenchSteps, BenchConcludes, BenchCapture DEF BNext, Harness, BenchOver
<1> QED
  BY <1>1, BenchInit, PTL DEF BSpec

\* A score stands on the work of its own child, whatever tasks there are, however
\* they are cut short, and whatever verify.sh, git and the tests say.
THEOREM BenchScoresTruly == BSpec => []ScoresTrue
<1>1. BTypeOK /\ BInv => ScoresTrue
  <2> SUFFICES ASSUME BTypeOK, BInv PROVE ScoresTrue
    OBVIOUS
  <2>1. DOMAIN results = 1..Len(results) /\ DOMAIN predictions = 1..Len(predictions)
    BY DEF BTypeOK
  <2>2. /\ Tasks \in Seq(CatalogRow) /\ Len(Tasks) \in Nat /\ DOMAIN Tasks = 1..Len(Tasks)
        /\ Len(results) = task - 1 /\ task \in Nat
    BY TasksType DEF BTypeOK, BInv, RunInv
  <2>3. ASSUME exit \in {"0", "2"}
        PROVE  /\ Len(results) = Len(Tasks) /\ "summary" \in written
               /\ Swe => Len(predictions) = Len(Tasks)
    BY <2>2, <2>3 DEF BInv, RunInv
  <2>4. ASSUME ~Swe, exit = "0", NEW i \in DOMAIN Tasks
        PROVE  agents[i] = "exited"
    <3>1. i \in 1..Len(results) /\ results[i].status = "pass"
      BY <2>1, <2>2, <2>3, <2>4 DEF BInv, RunInv
    <3> QED
      BY <3>1 DEF BInv, ResultInv, Judged
  <2>5. ResultInv /\ PredictionInv
    BY DEF BInv
  <2> QED
    BY <2>1, <2>2, <2>3, <2>4, <2>5 DEF ScoresTrue, ResultInv, PredictionInv, Judged
<1> QED
  BY <1>1, BenchInvariant, PTL

-----------------------------------------------------------------------------
\* A benchmark keeps the contract of ChildRun with the child of each task

Unbegun == {"start", "prepare", "write", "over"}

LEMMA CallIs ==
    ASSUME NEW i \in Nat, task \in Nat, task' \in Nat
    PROVE  /\ i < task => CallOf(i) = "returned"
           /\ i = task /\ stage \notin Unbegun => CallOf(i) = "running"
           /\ i > task \/ (i = task /\ stage \in Unbegun) => CallOf(i) = "idle"
           /\ i < task' => CallOf(i)' = "returned"
           /\ i = task' /\ stage' \notin Unbegun => CallOf(i)' = "running"
           /\ i > task' \/ (i = task' /\ stage' \in Unbegun) => CallOf(i)' = "idle"
  BY DEF CallOf, Unbegun

LEMMA ContractStart ==
    ASSUME BInit, NEW i \in DOMAIN Catalog PROVE TaskCall(i)!Init
  BY EmptySeq DEF TaskCall!Init, BInit, CallOf, ChildOf, SuccessOf

\* What any step leaves alone: all that is not of the task at hand.
LEMMA OneTaskAtATime ==
    ASSUME BTypeOK, BInv, [BNext]_bvars
    PROVE  /\ task' \in {task, task + 1}
           /\ \A i \in DOMAIN Catalog \ {task} : agents'[i] = agents[i]
           /\ \A i \in 1..Len(results) : results'[i] = results[i]
           /\ task' = task + 1 =>
                /\ stage' \in Unbegun /\ agents' = agents
                /\ stage \in {"prepare", "killing", "aborting"} \cup Scoring
                /\ agents[task] \notin {"alive", "dying"}
<1>1. ASSUME NEW status, NEW steps, NEW diff, Conclude(status, steps, diff)
      PROVE  /\ task' = task + 1 /\ agents' = agents /\ stage' \in Unbegun
             /\ \A i \in 1..Len(results) : results'[i] = results[i]
  <2> DEFINE row == [status |-> status, steps |-> steps, scored |->
                      IF status = "resolved" THEN tree \ (head \cup {"ignored"}) ELSE {}]
  <2>1. results' = Append(results, row)
    BY <1>1 DEF Conclude
  <2> HIDE DEF row
  <2>2. \A i \in 1..Len(results) : results'[i] = results[i]
    BY <2>1 DEF BTypeOK
  <2> QED
    BY <1>1, <2>2 DEF Conclude, Unbegun
<1>2. task \in Nat
  BY DEF BTypeOK
<1>3. CASE \/ PrepareFails \/ AgentGone \/ Verify \/ VerifyFails \/ CaptureFails
           \/ ApplyFails \/ RunTests \/ RunTestsFails
  <2>1. /\ stage \in {"prepare", "killing", "aborting"} \cup Scoring
        /\ agents[task] \notin {"alive", "dying"}
    <3>1. task \in DOMAIN Catalog \/ stage \in {"start", "write", "over"}
      BY TasksType DEF BTypeOK, BInv, RunInv, Waits, Scoring
    <3> QED
      BY <1>3, <3>1
         DEF PrepareFails, AgentGone, Verify, VerifyFails, CaptureFails, ApplyFails, RunTests,
             RunTestsFails, BInv, AgentInv, Scoring
  <2> QED
    BY <1>1, <1>2, <1>3, <2>1
     DEF PrepareFails, AgentGone, Verify, VerifyFails, CaptureFails, ApplyFails, RunTests,
         RunTestsFails, GoneWrong
<1>4. CASE CaptureDiff
  <2>1. stage \in Scoring /\ agents[task] \notin {"alive", "dying"}
    <3>1. task \in DOMAIN Catalog \/ stage \in {"start", "write", "over"}
      BY TasksType DEF BTypeOK, BInv, RunInv, Waits, Scoring
    <3> QED
      BY <1>4, <3>1 DEF CaptureDiff, BInv, AgentInv, Scoring
  <2> QED
    BY <1>1, <1>2, <1>4, <2>1 DEF CaptureDiff, record
<1>5. CASE \/ RefuseRun \/ BeginRun \/ Prepare \/ AgentEdits \/ AgentCommits \/ AgentLogs
           \/ AgentLogsInTree \/ AgentExits \/ AgentDies \/ AgentDone \/ CapHit \/ WaitBreaks
           \/ ApplyTests \/ WriteResults \/ WriteFails \/ UNCHANGED bvars
  BY <1>2, <1>5
     DEF RefuseRun, BeginRun, Prepare, AgentEdits, AgentCommits, AgentLogs, AgentLogsInTree,
         AgentExits, AgentDies, AgentDone, CapHit, WaitBreaks, ApplyTests, WriteResults,
         WriteFails, Agent, KillAgent, bvars, record, BTypeOK
<1> QED
  BY <1>3, <1>4, <1>5 DEF BNext, Harness, BenchOver

\* A task that is over or yet to come is not touched.
LEMMA OthersStand ==
    ASSUME BTypeOK, BInv, BTypeOK', BInv', [BNext]_bvars,
           NEW i \in DOMAIN Catalog, i # task
    PROVE  CallStands(i)
<1>1. i \in Nat /\ task \in Nat /\ task' \in Nat
  BY TasksType DEF BTypeOK
<1>2. /\ task' \in {task, task + 1} /\ agents'[i] = agents[i]
      /\ task' = task + 1 => stage' \in Unbegun
      /\ \A j \in 1..Len(results) : results'[j] = results[j]
  BY OneTaskAtATime
<1>3. /\ Len(results) = task - 1 /\ Len(results') = task' - 1
      /\ DOMAIN results = 1..Len(results) /\ DOMAIN results' = 1..Len(results')
  BY DEF BInv, RunInv, BTypeOK
<1>4. CallOf(i)' = CallOf(i)
  BY <1>1, <1>2, CallIs
<1>5. SuccessOf(i)' = SuccessOf(i)
  <2>1. i \in DOMAIN results' <=> i \in DOMAIN results
    BY <1>1, <1>2, <1>3
  <2>2. i \in DOMAIN results => results'[i] = results[i]
    BY <1>2, <1>3
  <2> QED
    BY <2>1, <2>2 DEF SuccessOf
<1>6. ChildOf(i)' = ChildOf(i)
  BY <1>2 DEF ChildOf
<1> QED
  BY <1>4, <1>5, <1>6 DEF CallStands

\* The task at hand goes through its call, step by step.
LEMMA ThisTaskCalls ==
    ASSUME BTypeOK, BInv, BTypeOK', BInv', [BNext]_bvars,
           NEW i \in DOMAIN Catalog, i = task
    PROVE  TaskCall(i)!Next \/ CallStands(i)
<1>1. i \in Nat /\ task \in Nat /\ task' \in Nat
  BY TasksType DEF BTypeOK
<1>2. /\ Len(results) = task - 1 /\ Len(results') = task' - 1
      /\ DOMAIN results = 1..Len(results) /\ DOMAIN results' = 1..Len(results')
      /\ ~SuccessOf(i) /\ SuccessOf(i)' \in BOOLEAN
  BY <1>1 DEF BInv, RunInv, BTypeOK, SuccessOf
<1>3. task' = task => ~SuccessOf(i)'
  BY <1>1, <1>2 DEF SuccessOf
<1>7. ~SuccessOf(i)' => SuccessOf(i)' = SuccessOf(i)
  <2>1. SuccessOf(i) \in BOOLEAN
    BY DEF SuccessOf
  <2>2. SuccessOf(i) = FALSE
    BY <1>2, <2>1
  <2>3. ~SuccessOf(i)' => SuccessOf(i)' = FALSE
    BY <1>2
  <2> QED
    BY <2>2, <2>3, Zenon
<1>4. SuccessOf(i)' => agents'[i] = "exited"
  BY <1>1, <1>2 DEF SuccessOf, BInv, ResultInv, Judged
<1>5. CASE task' = task + 1
  <2>1. /\ agents' = agents /\ stage \in {"prepare", "killing", "aborting"} \cup Scoring
        /\ agents[i] \notin {"alive", "dying"}
    BY <1>1, <1>5, OneTaskAtATime
  <2>2. CallOf(i)' = "returned" /\ ChildOf(i)' = ChildOf(i)
    BY <1>1, <1>5, <2>1, CallIs DEF ChildOf
  <2>3. CASE stage = "prepare"
    <3>1. CallOf(i) = "idle" /\ agents[i] = "none"
      BY <1>1, <2>3, CallIs DEF Unbegun, BInv, AgentInv
    <3>2. ~SuccessOf(i)'
      BY <1>4, <2>1, <3>1
    <3>3. SuccessOf(i)' = SuccessOf(i)
      BY <1>7, <3>2
    <3> QED
      BY <2>2, <3>1, <3>3 DEF TaskCall!Next, TaskCall!Refuse
  <2>4. CASE stage # "prepare"
    <3>1. CallOf(i) = "running"
      BY <1>1, <2>1, <2>4, CallIs DEF Unbegun, Scoring
    <3>2. ChildOf(i) # "alive"
      BY <2>1 DEF ChildOf
    <3>3. SuccessOf(i)' \in (IF ChildOf(i) = "exited" THEN BOOLEAN ELSE {FALSE})
      <4>1. SuccessOf(i)' => ChildOf(i) = "exited"
        BY <1>4, <2>1 DEF ChildOf
      <4> QED
        BY <1>2, <4>1
    <3> QED
      BY <2>2, <3>1, <3>2, <3>3 DEF TaskCall!Next, TaskCall!Return
  <2> QED
    BY <2>3, <2>4
<1>6. CASE task' = task
  <2>1. SuccessOf(i)' = SuccessOf(i)
    BY <1>3, <1>6, <1>7
  <2>2. CASE Prepare
    <3>1. CallOf(i) = "idle" /\ CallOf(i)' = "running"
      BY <1>1, <1>6, <2>2, CallIs DEF Prepare, Unbegun
    <3>2. agents[i] = "none" /\ agents'[i] = "alive"
      BY <2>2 DEF Prepare, BInv, AgentInv, BTypeOK
    <3> QED
      BY <2>1, <3>1, <3>2 DEF TaskCall!Next, TaskCall!Start, ChildOf
  <2>3. CASE AgentExits
    <3>1. CallOf(i) = CallOf(i)'
      BY <1>1, <1>6, <2>3, CallIs DEF AgentExits, Agent, Unbegun
    <3>2. agents[i] = "alive" /\ agents'[i] = "exited"
      BY <2>3 DEF AgentExits, BTypeOK
    <3> QED
      BY <2>1, <3>1, <3>2 DEF TaskCall!Next, TaskCall!Exit, ChildOf
  <2>4. CASE CapHit \/ WaitBreaks
    <3>1. CallOf(i) = "running" /\ CallOf(i)' = "running"
      BY <1>1, <1>6, <2>4, CallIs DEF CapHit, WaitBreaks, Unbegun
    <3>2. agents'[i] = IF agents[i] = "alive" THEN "dying" ELSE agents[i]
      BY <2>4 DEF CapHit, WaitBreaks, KillAgent, BTypeOK
    <3>3. CASE agents[i] = "alive"
      BY <2>1, <3>1, <3>2, <3>3 DEF TaskCall!Next, TaskCall!Condemn, ChildOf
    <3>4. CASE agents[i] # "alive"
      BY <2>1, <3>1, <3>2, <3>4 DEF CallStands, ChildOf
    <3> QED
      BY <3>3, <3>4
  <2>5. CASE AgentDies
    <3>1. CallOf(i) = CallOf(i)'
      BY <1>1, <1>6, <2>5, CallIs DEF AgentDies, Agent, Unbegun
    <3>2. agents[i] = "dying" /\ agents'[i] = "dead"
      BY <2>5 DEF AgentDies, BTypeOK
    <3> QED
      BY <2>1, <3>1, <3>2 DEF CallStands, ChildOf
  <2>6. CASE \/ RefuseRun \/ BeginRun \/ AgentEdits \/ AgentCommits \/ AgentLogs
             \/ AgentLogsInTree \/ AgentDone \/ ApplyTests \/ WriteResults \/ WriteFails
             \/ UNCHANGED bvars \/ (CaptureDiff /\ setup.score)
    <3>1. agents' = agents /\ (stage \in Unbegun <=> stage' \in Unbegun)
      BY <2>6
         DEF RefuseRun, BeginRun, AgentEdits, AgentCommits, AgentLogs, AgentLogsInTree, AgentDone,
             ApplyTests, WriteResults, WriteFails, Agent, bvars, CaptureDiff, Unbegun, work
    <3>2. CallOf(i) = CallOf(i)'
      BY <1>1, <1>6, <3>1, CallIs
    <3> QED
      BY <2>1, <3>1, <3>2 DEF CallStands, ChildOf
  <2>7. ASSUME NEW status, NEW steps, NEW diff, Conclude(status, steps, diff)
        PROVE  FALSE
    BY <1>1, <1>6, <2>7 DEF Conclude
  <2>8. CASE \/ PrepareFails \/ AgentGone \/ Verify \/ VerifyFails \/ CaptureFails
             \/ ApplyFails \/ RunTests \/ RunTestsFails \/ (CaptureDiff /\ ~setup.score)
    BY <2>7, <2>8
       DEF PrepareFails, AgentGone, Verify, VerifyFails, CaptureFails, ApplyFails, RunTests,
           RunTestsFails, GoneWrong, CaptureDiff
  <2> QED
    BY <2>2, <2>3, <2>4, <2>5, <2>6, <2>8 DEF BNext, Harness, BenchOver
<1> QED
  BY <1>5, <1>6, OneTaskAtATime

\* To the harness each child is what ChildRun promises: asked once, never left
\* running when its task is concluded, and a success only if it ended by itself.
THEOREM BenchKeepsContract == BSpec => TasksKeepContract
<1> DEFINE TasksStep == \A i \in DOMAIN Catalog : TaskCall(i)!Next \/ CallStands(i)
<1>1. BInit => \A i \in DOMAIN Catalog : TaskCall(i)!Init
  BY ContractStart
<1>2. /\ BTypeOK /\ BInv /\ BTypeOK' /\ BInv' /\ [BNext]_bvars
      => [TasksStep]_bvars
  BY OthersStand, ThisTaskCalls
<1>3. [](BTypeOK /\ BInv) /\ [][BNext]_bvars => [][TasksStep]_bvars
  BY <1>2, PTL
<1> QED
  BY <1>1, <1>3, BenchInvariant, PTL DEF BSpec, TasksKeepContract
-----------------------------------------------------------------------------
\* An isolated subagent: what its events are parsed into

Parse == [out : Seq(Texts), error : BOOLEAN, tools : Nat]

LEMMA ParseEventType ==
    ASSUME NEW acc \in Parse, NEW e \in Event PROVE ParseEvent(acc, e) \in Parse
<1>1. acc.out \in Seq(Texts) /\ acc.error \in BOOLEAN /\ acc.tools \in Nat
  BY DEF Parse
<1>2. e.type \in {"token", "final", "done"} => e.text \in Texts
  BY DEF Event
<1>3. ASSUME NEW o \in Seq(Texts)
      PROVE  /\ [acc EXCEPT !.out = o] \in Parse
             /\ [acc EXCEPT !.error = TRUE] \in Parse
             /\ [acc EXCEPT !.out = o, !.tools = @ + 1] \in Parse
  <2>1. [acc EXCEPT !.out = o] \in Parse
    BY DEF Parse
  <2>2. [acc EXCEPT !.error = TRUE] \in Parse
    BY DEF Parse
  <2>3. [acc EXCEPT !.out = o, !.tools = @ + 1] \in Parse
    <3> DEFINE mid == [acc EXCEPT !.out = o]
    <3>1. mid \in Parse /\ mid.tools + 1 \in Nat
      BY <2>1 DEF Parse
    <3>2. [mid EXCEPT !.tools = mid.tools + 1] \in Parse
      <4> HIDE DEF mid
      <4> QED
        BY <3>1 DEF Parse
    <3>3. [acc EXCEPT !.out = o, !.tools = @ + 1] = [mid EXCEPT !.tools = @ + 1]
      OBVIOUS
    <3> QED
      BY <3>2, <3>3
  <2> QED
    BY <2>1, <2>2, <2>3
<1>4. CASE e.type = "token"
  <2>1. Append(acc.out, e.text) \in Seq(Texts)
    BY <1>1, <1>2, <1>4
  <2> QED
    BY <1>3, <1>4, <2>1 DEF ParseEvent
<1>5. CASE e.type \in {"final", "done"}
  <2>1. <<e.text>> \in Seq(Texts)
    BY <1>2, <1>5
  <2> QED
    BY <1>3, <1>5, <2>1 DEF ParseEvent
<1>6. CASE e.type = "tool_call"
  <2>1. <<>> \in Seq(Texts)
    OBVIOUS
  <2> QED
    BY <1>3, <1>6, <2>1 DEF ParseEvent
<1>7. CASE e.type = "error"
  <2>1. <<>> \in Seq(Texts)
    OBVIOUS
  <2> QED
    BY <1>3, <1>7, <2>1 DEF ParseEvent
<1> QED
  BY <1>4, <1>5, <1>6, <1>7 DEF Event

Parses(s, n, f) ==
    f = [i \in 0..n |-> IF i = 0 THEN Unparsed ELSE ParseEvent(f[i - 1], s[i])]

LEMMA ParseAt ==
    ASSUME NEW s, NEW n \in Nat, NEW f, Parses(s, n, f)
    PROVE  f[0] = Unparsed /\ \A i \in 1..n : f[i] = ParseEvent(f[i - 1], s[i])
<1> DEFINE h == [j \in 0..n |-> IF j = 0 THEN Unparsed ELSE ParseEvent(f[j - 1], s[j])]
<1>1. f = h
  BY DEF Parses
<1>2. h[0] = Unparsed /\ \A i \in 1..n : h[i] = ParseEvent(f[i - 1], s[i])
  OBVIOUS
<1> HIDE DEF h
<1> QED
  BY <1>1, <1>2

LEMMA ParsesExist == ASSUME NEW s PROVE \A n \in Nat : \E f : Parses(s, n, f)
<1> DEFINE T == {n \in Nat : \E f : Parses(s, n, f)}
<1>1. 0 \in T
  <2>1. Parses(s, 0, [i \in 0..0 |-> Unparsed])
    BY DEF Parses
  <2> QED
    BY <2>1
<1>2. ASSUME NEW n \in Nat, n \in T PROVE n + 1 \in T
  <2>1. PICK f : Parses(s, n, f)
    BY <1>2
  <2> DEFINE next == ParseEvent(f[n], s[n + 1])
             g == [i \in 0..(n + 1) |-> IF i = n + 1 THEN next ELSE f[i]]
  <2>2. ASSUME NEW i \in 0..(n + 1)
        PROVE  g[i] = IF i = 0 THEN Unparsed ELSE ParseEvent(g[i - 1], s[i])
    <3>1. CASE i = n + 1
      BY <3>1
    <3>2. CASE i # n + 1
      <4>1. i \in 0..n /\ g[i] = f[i] /\ (i # 0 => i \in 1..n /\ g[i - 1] = f[i - 1])
        BY <3>2
      <4> HIDE DEF g, next
      <4>2. f[0] = Unparsed /\ \A j \in 1..n : f[j] = ParseEvent(f[j - 1], s[j])
        BY <2>1, ParseAt
      <4> QED
        BY <4>1, <4>2
    <3> QED
      BY <3>1, <3>2
  <2>3. Parses(s, n + 1, g)
    BY <2>2 DEF Parses
  <2> QED
    BY <2>3
<1>3. Nat \subseteq T
  <2> HIDE DEF T
  <2> QED BY <1>1, <1>2, AllNat
<1> QED
  BY <1>3

LEMMA ParsesAgree ==
    ASSUME NEW s, NEW t, NEW m \in Nat, NEW n \in Nat, m <= n, NEW f, NEW g,
           Parses(s, m, f), Parses(t, n, g), \A i \in 1..m : s[i] = t[i]
    PROVE  f[m] = g[m]
<1> DEFINE T == {k \in Nat : k <= m => f[k] = g[k]}
<1>1. 0 \in T
  BY ParseAt
<1>2. ASSUME NEW k \in Nat, k \in T PROVE k + 1 \in T
  <2>1. CASE k + 1 <= m
    <3>1. f[k] = g[k]
      BY <1>2, <2>1
    <3>2. k + 1 \in 1..m /\ k + 1 \in 1..n /\ (k + 1) - 1 = k
      BY <2>1
    <3>3. f[k + 1] = ParseEvent(f[k], s[k + 1])
      BY <3>2, ParseAt
    <3>4. g[k + 1] = ParseEvent(g[k], t[k + 1])
      BY <3>2, ParseAt
    <3> QED
      BY <3>1, <3>2, <3>3, <3>4
  <2> QED
    BY <2>1
<1>3. Nat \subseteq T
  <2> HIDE DEF T
  <2> QED BY <1>1, <1>2, AllNat
<1> QED
  BY <1>3

LEMMA ParsedParses ==
    ASSUME NEW s, Len(s) \in Nat
    PROVE  \E f : Parses(s, Len(s), f) /\ Parsed(s) = f[Len(s)]
<1> DEFINE f == CHOOSE f : Parses(s, Len(s), f)
<1>1. Parses(s, Len(s), f)
  BY ParsesExist
<1>2. Parsed(s) = f[Len(s)]
  BY DEF Parsed, Parses
<1> QED
  BY <1>1, <1>2

\* The parser goes event by event, whatever came before.
LEMMA ParsedAppend ==
    ASSUME NEW S, NEW s \in Seq(S), NEW e \in S
    PROVE  Parsed(Append(s, e)) = ParseEvent(Parsed(s), e)
<1> DEFINE t == Append(s, e)
           n == Len(s)
<1>1. n \in Nat /\ Len(t) = n + 1 /\ t[n + 1] = e /\ \A i \in 1..n : s[i] = t[i]
  OBVIOUS
<1>2. PICK f : Parses(s, n, f) /\ Parsed(s) = f[n]
  BY <1>1, ParsedParses
<1> HIDE DEF n, t
<1>3. PICK g : Parses(t, n + 1, g) /\ Parsed(t) = g[n + 1]
  BY <1>1, ParsedParses
<1>4. f[n] = g[n]
  <2>1. n + 1 \in Nat /\ n <= n + 1
    BY <1>1
  <2> QED
    BY <1>1, <1>2, <1>3, <2>1, ParsesAgree
<1>5. n + 1 \in Nat /\ n + 1 \in 1..(n + 1) /\ (n + 1) - 1 = n
  BY <1>1
<1>6. g[n + 1] = ParseEvent(g[(n + 1) - 1], t[n + 1])
  BY <1>3, <1>5, ParseAt
<1> QED
  BY <1>1, <1>2, <1>3, <1>4, <1>5, <1>6 DEF t

LEMMA ParsedEmpty == Parsed(<<>>) = Unparsed
<1>1. PICK f : Parses(<<>>, 0, f) /\ Parsed(<<>>) = f[0]
  BY ParsedParses
<1> QED
  BY <1>1, ParseAt

\* An error is noticed wherever it stands.
LEMMA ParsedErrors ==
    ASSUME NEW s \in Seq(Event)
    PROVE  /\ Parsed(s) \in Parse
           /\ Parsed(s).error <=> \E i \in 1..Len(s) : s[i].type = "error"
<1> DEFINE Good(r) == /\ Parsed(r) \in Parse
                      /\ Parsed(r).error <=> \E i \in 1..Len(r) : r[i].type = "error"
           T == {r \in Seq(Event) : Good(r)}
<1>1. <<>> \in T
  <2>1. Unparsed \in Parse /\ Unparsed.error = FALSE
    BY DEF Unparsed, Parse
  <2>2. <<>> \in Seq(Event) /\ 1..Len(<<>>) = {}
    OBVIOUS
  <2>3. Good(<<>>)
    BY ParsedEmpty, <2>1, <2>2
  <2> HIDE DEF Good
  <2> QED
    BY <2>2, <2>3
<1>2. ASSUME NEW r \in Seq(Event), NEW e \in Event, r \in T PROVE Append(r, e) \in T
  <2> DEFINE t == Append(r, e)
             n == Len(r)
  <2>1. /\ n \in Nat /\ Len(t) = n + 1 /\ t[n + 1] = e /\ t \in Seq(Event)
        /\ \A i \in 1..n : t[i] = r[i]
    OBVIOUS
  <2>2. Parsed(t) = ParseEvent(Parsed(r), e)
    BY ParsedAppend
  <2>3. Parsed(r) \in Parse /\ (Parsed(r).error <=> \E i \in 1..n : r[i].type = "error")
    BY <1>2
  <2>4. Parsed(t) \in Parse
    BY <2>2, <2>3, ParseEventType
  <2>5. Parsed(t).error <=> Parsed(r).error \/ e.type = "error"
    BY <2>2, <2>3 DEF ParseEvent, Parse
  <2>6. (\E i \in 1..(n + 1) : t[i].type = "error")
          <=> (\E i \in 1..n : r[i].type = "error") \/ e.type = "error"
    <3>1. n + 1 \in 1..(n + 1) /\ \A i \in 1..(n + 1) : i \in 1..n \/ i = n + 1
      BY <2>1
    <3>2. 1..n \subseteq 1..(n + 1)
      BY <2>1
    <3> HIDE DEF t, n
    <3> QED
      BY <2>1, <3>1, <3>2
  <2>7. Good(t)
    BY <2>1, <2>3, <2>4, <2>5, <2>6
  <2> HIDE DEF t, Good
  <2>8. t \in T
    BY <2>1, <2>7
  <2> QED
    BY <2>8 DEF t
<1>3. Seq(Event) \subseteq T
  <2> HIDE DEF T
  <2> QED
    BY <1>1, <1>2, AllSeqs
<1> QED
  BY <1>3
\* Where there is something that may be said last.
Speaks(s, i) == i \in Live(s) /\ s[i].type \in {"token", "final", "done"}

Finals(s) == Is(s, "final") \cap Live(s)
Tokens(s) == Is(s, "token") \cap Live(s)
Dones(s) == Is(s, "done") \cap Live(s)

\* One event more: what becomes of the positions of the answer.
LEMMA AnswerMoves ==
    ASSUME NEW s \in Seq(Event), NEW e \in Event, NEW t, t = Append(s, e),
           NEW n, n = Len(s) + 1,
           AnswerAt(s) = {} <=> \A i \in 1..Len(s) : ~Speaks(s, i)
    PROVE  /\ e.type = "token" => AnswerAt(t) = AnswerAt(s) \cup {n}
           /\ e.type = "final" => AnswerAt(t) = {n}
           /\ e.type = "tool_call" => AnswerAt(t) = {}
           /\ e.type = "done" =>
                AnswerAt(t) = IF AnswerAt(s) = {} THEN {n} ELSE AnswerAt(s)
           /\ e.type = "error" => AnswerAt(t) = AnswerAt(s)
           /\ AnswerAt(t) = {} <=> \A i \in 1..n : ~Speaks(t, i)
<1> DEFINE Last(r) == {i \in Tokens(r) \cup Finals(r) : \A j \in Finals(r) : j <= i}
           First(r) == {i \in Dones(r) : /\ Finals(r) = {} /\ \A j \in Tokens(r) : i < j
                                         /\ \A j \in Dones(r) : i <= j}
<1>1. /\ n \in Nat /\ Len(t) = n /\ t[n] = e /\ n \notin 1..Len(s) /\ n \in 1..n
      /\ 1..n = 1..Len(s) \cup {n} /\ \A i \in 1..Len(s) : t[i] = s[i] /\ i < n /\ i \in Nat
  OBVIOUS
<1>2. AnswerAt(t) = Last(t) \cup First(t) /\ AnswerAt(s) = Last(s) \cup First(s)
  BY DEF AnswerAt, Finals, Tokens, Dones
<1>3. \A y : Is(t, y) = IF e.type = y THEN Is(s, y) \cup {n} ELSE Is(s, y)
  BY <1>1 DEF Is
<1>4. /\ e.type = "tool_call" => Live(t) = {}
      /\ e.type # "tool_call" => Live(t) = Live(s) \cup {n}
  <2>1. \A i \in 1..n : ~(n < i)
    BY <1>1
  <2>2. Is(s, "tool_call") \subseteq 1..Len(s)
    BY DEF Is
  <2>3. CASE e.type = "tool_call"
    <3>1. n \in Is(t, "tool_call")
      BY <1>3, <2>3
    <3> QED
      BY <1>1, <2>1, <2>3, <3>1 DEF Live
  <2>4. CASE e.type # "tool_call"
    BY <1>1, <1>3, <2>2, <2>4 DEF Live
  <2> QED
    BY <2>3, <2>4
<1>5. /\ Tokens(s) \subseteq 1..Len(s) /\ Finals(s) \subseteq 1..Len(s)
      /\ Dones(s) \subseteq 1..Len(s) /\ n \notin Live(s) /\ \A y : n \notin Is(s, y)
  BY <1>1 DEF Is, Live, Tokens, Finals, Dones
<1>6. Tokens(s) \cup Finals(s) \cup Dones(s) = {} <=> \A i \in 1..Len(s) : ~Speaks(s, i)
  BY DEF Speaks, Is, Live, Tokens, Finals, Dones
<1>7. Tokens(t) \cup Finals(t) \cup Dones(t) = {} <=> \A i \in 1..n : ~Speaks(t, i)
  BY <1>1 DEF Speaks, Is, Live, Tokens, Finals, Dones
<1>8. AnswerAt(t) = {} \/ \E i \in AnswerAt(t) : i \in Tokens(t) \cup Finals(t) \cup Dones(t)
  BY <1>2
<1>9. CASE e.type = "token"
  <2>1. Finals(t) = Finals(s) /\ Tokens(t) = Tokens(s) \cup {n} /\ Dones(t) = Dones(s)
    BY <1>3, <1>4, <1>5, <1>9 DEF Tokens, Finals, Dones
  <2>2. Last(t) = Last(s) \cup {n} /\ First(t) = First(s)
    BY <1>1, <1>5, <2>1
  <2>3. AnswerAt(t) = AnswerAt(s) \cup {n}
    BY <1>2, <2>2
  <2> QED
    BY <1>7, <1>9, <2>1, <2>3
<1>10. CASE e.type = "final"
  <2>1. Finals(t) = Finals(s) \cup {n} /\ Tokens(t) = Tokens(s) /\ Dones(t) = Dones(s)
    BY <1>3, <1>4, <1>5, <1>10 DEF Tokens, Finals, Dones
  <2>2. Last(t) = {n} /\ First(t) = {}
    BY <1>1, <1>5, <2>1
  <2>3. AnswerAt(t) = {n}
    BY <1>2, <2>2
  <2> QED
    BY <1>7, <1>10, <2>1, <2>3
<1>11. CASE e.type = "tool_call"
  <2>1. Finals(t) = {} /\ Tokens(t) = {} /\ Dones(t) = {}
    BY <1>4, <1>11 DEF Tokens, Finals, Dones
  <2>2. AnswerAt(t) = {}
    BY <1>2, <2>1
  <2> QED
    BY <1>7, <1>11, <2>1, <2>2
<1>12. CASE e.type = "done"
  <2>1. Finals(t) = Finals(s) /\ Tokens(t) = Tokens(s) /\ Dones(t) = Dones(s) \cup {n}
    BY <1>3, <1>4, <1>5, <1>12 DEF Tokens, Finals, Dones
  <2>2. CASE AnswerAt(s) = {}
    <3>1. Tokens(s) = {} /\ Finals(s) = {} /\ Dones(s) = {}
      BY <1>6, <2>2
    <3>2. Last(t) = {} /\ First(t) = {n}
      BY <1>1, <2>1, <3>1
    <3>3. AnswerAt(t) = {n}
      BY <1>2, <3>2
    <3>4. ~\A i \in 1..n : ~Speaks(t, i)
      BY <1>7, <2>1
    <3> QED
      BY <1>12, <2>2, <3>3, <3>4
  <2>3. CASE AnswerAt(s) # {}
    <3>1. Last(t) = Last(s)
      BY <2>1
    <3>2. First(t) = First(s)
      <4>1. PICK k \in Tokens(s) \cup Finals(s) \cup Dones(s) : k < n
        BY <1>1, <1>5, <1>6, <2>3
      <4>2. n \notin First(t)
        <5>1. CASE k \in Dones(s)
          BY <1>1, <1>5, <2>1, <4>1, <5>1
        <5>2. CASE k \in Tokens(s)
          BY <1>1, <1>5, <2>1, <4>1, <5>2
        <5>3. CASE k \in Finals(s)
          BY <2>1, <5>3
        <5> QED
          BY <4>1, <5>1, <5>2, <5>3
      <4> QED
        BY <1>1, <1>5, <2>1, <4>2
    <3>3. AnswerAt(t) = AnswerAt(s)
      BY <1>2, <3>1, <3>2
    <3>4. ~\A i \in 1..n : ~Speaks(t, i)
      BY <1>7, <2>1
    <3> QED
      BY <1>12, <2>3, <3>3, <3>4
  <2> QED
    BY <2>2, <2>3
<1>13. CASE e.type = "error"
  <2>1. Finals(t) = Finals(s) /\ Tokens(t) = Tokens(s) /\ Dones(t) = Dones(s)
    BY <1>3, <1>4, <1>5, <1>13 DEF Tokens, Finals, Dones
  <2>2. AnswerAt(t) = AnswerAt(s)
    BY <1>2, <2>1
  <2> QED
    BY <1>6, <1>7, <1>13, <2>1, <2>2
<1> QED
  BY <1>9, <1>10, <1>11, <1>12, <1>13 DEF Event
\* The answer found while reading is the one that stands there when all is read.
LEMMA ParsedAnswer ==
    ASSUME NEW s \in Seq(Event) PROVE Parsed(s).out = Answer(s)
<1> DEFINE V == Texts \cup {"none"}
           Said(r) == [i \in 1..Len(r) |-> r[i].text]
           Good(r) == /\ Parsed(r).out = Answer(r)
                      /\ AnswerAt(r) = {} <=> \A i \in 1..Len(r) : ~Speaks(r, i)
           T == {r \in Seq(Event) : Good(r)}
<1>1. \A r \in Seq(Event) : AnswerAt(r) \subseteq 1..Len(r)
  BY DEF AnswerAt, Is
<1>2. ASSUME NEW r \in Seq(Event)
      PROVE  Said(r) \in Seq(V) /\ Len(Said(r)) = Len(r)
  <2>1. \A i \in 1..Len(r) : r[i].text \in V
    BY DEF Event
  <2> QED
    BY <2>1
<1>3. <<>> \in T
  <2>1. AnswerAt(<<>>) = {}
    <3>1. 1..Len(<<>>) = {} /\ <<>> \in Seq(Event)
      OBVIOUS
    <3> QED
      BY <1>1, <3>1
  <2>2. Answer(<<>>) = <<>>
    <3>1. Said(<<>>) = <<>>
      BY <1>2
    <3> QED
      BY <3>1, KeptEmpty DEF Answer
  <2>3. Parsed(<<>>).out = <<>>
    BY ParsedEmpty DEF Unparsed
  <2> QED
    BY <2>1, <2>2, <2>3
<1>4. ASSUME NEW r \in Seq(Event), NEW e \in Event, r \in T PROVE Append(r, e) \in T
  <2> DEFINE t == Append(r, e)
             n == Len(r) + 1
             P == AnswerAt(r)
             Q == AnswerAt(t)
  <2>1. /\ n \in Nat /\ n \notin 1..Len(r) /\ Len(t) = n /\ t \in Seq(Event)
        /\ \A i \in 1..n : i \in 1..Len(r) \/ i = n
        /\ Said(r) \in Seq(V) /\ Len(Said(r)) = Len(r) /\ Len(Said(r)) + 1 = n
        /\ e.text \in V
    BY <1>2 DEF Event
  <2>2. Said(t) = Append(Said(r), e.text)
    <3>1. Append(Said(r), e.text) \in Seq(V) /\ Len(Append(Said(r), e.text)) = n
      BY <2>1
    <3>2. Said(t) \in Seq(V) /\ Len(Said(t)) = n
      BY <1>2, <2>1
    <3>3. \A i \in 1..n : Said(t)[i] = Append(Said(r), e.text)[i]
      BY <2>1
    <3> QED
      BY <3>1, <3>2, <3>3
  <2>3. /\ Parsed(r) \in Parse /\ Parsed(r).out = Kept(Said(r), P)
        /\ P = {} <=> \A i \in 1..Len(r) : ~Speaks(r, i)
    BY <1>4, ParsedErrors DEF Answer
  <2>4. Parsed(t) = ParseEvent(Parsed(r), e)
    BY ParsedAppend
  <2>5. /\ e.type = "token" => Q = P \cup {n}
        /\ e.type = "final" => Q = {n}
        /\ e.type = "tool_call" => Q = {}
        /\ e.type = "done" => Q = IF P = {} THEN {n} ELSE P
        /\ e.type = "error" => Q = P
        /\ Q = {} <=> \A i \in 1..n : ~Speaks(t, i)
    BY <2>3, AnswerMoves
  <2>6. P \subseteq 1..Len(r)
    BY <1>1
  <2> HIDE DEF Said, V, P, Q, n, t
  <2>7. Kept(Said(t), Q) = IF n \in Q THEN Append(Kept(Said(r), Q), e.text)
                                      ELSE Kept(Said(r), Q)
    <3>1. \A a \in Seq(V) : \A x \in V : Kept(Append(a, x), Q) =
             IF Len(a) + 1 \in Q THEN Append(Kept(a, Q), x) ELSE Kept(a, Q)
      BY KeptAppend
    <3> QED
      BY <2>1, <2>2, <3>1
  <2>8. /\ Kept(Said(r), {}) = <<>> /\ Kept(Said(r), {n}) = <<>>
        /\ Kept(Said(r), P \cup {n}) = Kept(Said(r), P)
        /\ Kept(Said(r), P) = <<>> <=> P = {}
    <3>1. Kept(Said(r), {}) = <<>> /\ (Kept(Said(r), P) = <<>> <=> P = {})
      BY <2>1, <2>6, KeptNone
    <3>2. Kept(Said(r), {n}) = Kept(Said(r), {})
      BY <2>1, KeptSame
    <3>3. Kept(Said(r), P \cup {n}) = Kept(Said(r), P)
      BY <2>1, KeptSame
    <3> QED
      BY <3>1, <3>2, <3>3
  <2>9. Parsed(t).out = Kept(Said(t), Q)
    <3>1. Append(<<>>, e.text) = <<e.text>>
      OBVIOUS
    <3>2. n \notin P
      BY <2>1, <2>6
    <3>3. CASE e.type = "token"
      BY <2>3, <2>4, <2>5, <2>7, <2>8, <3>3 DEF ParseEvent, Parse
    <3>4. CASE e.type = "final"
      BY <2>3, <2>4, <2>5, <2>7, <2>8, <3>1, <3>4 DEF ParseEvent, Parse
    <3>5. CASE e.type = "tool_call"
      BY <2>3, <2>4, <2>5, <2>7, <2>8, <3>5 DEF ParseEvent, Parse
    <3>6. CASE e.type = "done"
      BY <2>3, <2>4, <2>5, <2>7, <2>8, <3>1, <3>2, <3>6 DEF ParseEvent, Parse
    <3>7. CASE e.type = "error"
      BY <2>3, <2>4, <2>5, <2>7, <2>8, <3>2, <3>7 DEF ParseEvent, Parse
    <3> QED
      BY <3>3, <3>4, <3>5, <3>6, <3>7 DEF Event
  <2>10. Answer(t) = Kept(Said(t), Q)
    BY DEF Answer, Said, Q
  <2> QED
    BY <2>1, <2>5, <2>9, <2>10 DEF t, Q, n
<1>5. Seq(Event) \subseteq T
  <2> HIDE DEF T
  <2> QED
    BY <1>3, <1>4, AllSeqs
<1> QED
  BY <1>5
-----------------------------------------------------------------------------
\* An isolated subagent: the call, the child and the reader of its output

PSTypeOK ==
    /\ pc \in {"idle", "waiting", "draining", "killing", "aborting", "salvaging",
               "returned", "dropped"}
    /\ proc \in {"none", "alive", "dying", "dead"}
    /\ code \in {"0", "1", "none"}
    /\ killed \in BOOLEAN /\ helper \in BOOLEAN
    /\ wrote \in Seq(Event)
    /\ reader \in {"none", "reading", "done", "failed", "aborted"}
    /\ left \in Nat /\ elapsed \in Nat

\* How far the child is, by how far the call is.
ChildInv ==
    /\ pc = "idle" <=> proc = "none" /\ pc # "returned"
    /\ pc = "waiting" => proc \in {"alive", "dead"} /\ ~killed
    /\ pc = "draining" => proc = "dead" /\ ~killed
    /\ pc \in {"killing", "aborting", "salvaging", "dropped"} => proc \in {"dying", "dead"}
    /\ pc = "returned" => proc # "alive"
    /\ proc \in {"none", "alive"} => ~killed
    /\ proc = "dying" => killed

\* All is read only of a child that is gone.
ReaderInv == reader = "done" => proc = "dead"

\* A success is of a child that ended by itself, and of all that it wrote.
SuccessInv ==
    Succeeded(result) =>
        /\ pc = "returned" /\ proc = "dead" /\ ~killed /\ code = "0" /\ reader = "done"
        /\ result = Result(Bounded(wrote), code, FALSE)

\* The timers add up.
TimeInv ==
    /\ pc = "idle" => elapsed = 0
    /\ pc = "waiting" => elapsed + left <= TimeCap
    /\ pc = "draining" => elapsed + left <= TimeCap + DrainGrace
    /\ pc \in {"killing", "aborting"} => elapsed + left <= TimeCap + KillGrace
    /\ pc = "salvaging" => elapsed + left <= Deadline
    /\ elapsed <= Deadline

PSInv == ChildInv /\ ReaderInv /\ SuccessInv /\ TimeInv

LEMMA Constants ==
    /\ TimeCap \in Nat /\ KillGrace \in Nat /\ DrainGrace \in Nat /\ OutputLimit \in Nat
    /\ Deadline \in Nat /\ Deadline = TimeCap + KillGrace + DrainGrace
  BY ProcAssumption DEF Deadline

LEMMA PSStart == PSInit => PSTypeOK /\ PSInv
<1> SUFFICES ASSUME PSInit PROVE PSTypeOK /\ PSInv
  OBVIOUS
<1>1. PSTypeOK
  BY EmptySeq DEF PSInit, PSTypeOK
<1>2. ChildInv /\ ReaderInv
  BY DEF PSInit, ChildInv, ReaderInv
<1>3. SuccessInv
  BY DEF PSInit, SuccessInv, Succeeded, NoResult
<1>4. TimeInv
  BY Constants DEF PSInit, TimeInv
<1> QED
  BY <1>1, <1>2, <1>3, <1>4 DEF PSInv

LEMMA PSTypeStep == PSTypeOK /\ [PSNext]_psvars => PSTypeOK'
<1> SUFFICES ASSUME PSTypeOK, [PSNext]_psvars PROVE PSTypeOK'
  OBVIOUS
<1> USE DEF PSTypeOK, procVars
<1>1. CASE StartFails \/ Start
  BY <1>1, Constants DEF StartFails, Start
<1>2. ASSUME NEW e \in Event, ChildWrites(e) PROVE PSTypeOK'
  BY <1>2 DEF ChildWrites
<1>3. CASE \E c \in {"0", "1"} : ChildExits(c)
  BY <1>3 DEF ChildExits
<1>4. CASE ChildDies \/ HelperStarts \/ HelperEnds \/ ReadEnds \/ ReadFails
  BY <1>4 DEF ChildDies, HelperStarts, HelperEnds, ReadEnds, ReadFails
<1>5. CASE ExitSeen \/ TimeUp \/ WaitFails
  BY <1>5, Constants DEF ExitSeen, TimeUp, WaitFails, Kill
<1>6. CASE KillOver
  BY <1>6, Constants DEF KillOver, Return
<1>7. CASE Collect \/ Salvage
  <2>1. /\ pc' = "returned" /\ left' = 0 /\ reader' \in {reader, "aborted"}
        /\ UNCHANGED <<proc, code, killed, helper, wrote, elapsed>>
    BY <1>7 DEF Collect, Salvage, Return
  <2> QED
    BY <2>1
<1>9. CASE Drop
  BY <1>9 DEF Drop, Kill
<1>10. CASE Tick
  BY <1>10 DEF Tick
<1>11. CASE PSOver \/ UNCHANGED psvars
  BY <1>11 DEF PSOver, psvars
<1> QED
  BY <1>1, <1>2, <1>3, <1>4, <1>5, <1>6, <1>7, <1>9, <1>10, <1>11 DEF PSNext

LEMMA ChildStep ==
    PSTypeOK /\ ChildInv /\ ReaderInv /\ [PSNext]_psvars => ChildInv' /\ ReaderInv'
<1> SUFFICES ASSUME PSTypeOK, ChildInv, ReaderInv, [PSNext]_psvars
             PROVE  ChildInv' /\ ReaderInv'
  OBVIOUS
<1> USE DEF PSTypeOK, ChildInv, ReaderInv, procVars
<1>1. CASE StartFails \/ Start
  BY <1>1 DEF StartFails, Start
<1>2. ASSUME NEW e \in Event, ChildWrites(e) PROVE ChildInv' /\ ReaderInv'
  BY <1>2 DEF ChildWrites
<1>3. CASE \E c \in {"0", "1"} : ChildExits(c)
  BY <1>3 DEF ChildExits
<1>4. CASE ChildDies \/ HelperStarts \/ HelperEnds \/ ReadEnds \/ ReadFails
  BY <1>4 DEF ChildDies, HelperStarts, HelperEnds, ReadEnds, ReadFails
<1>5. CASE ExitSeen \/ TimeUp \/ WaitFails
  BY <1>5 DEF ExitSeen, TimeUp, WaitFails, Kill
<1>6. CASE KillOver
  BY <1>6 DEF KillOver, Return
<1>7. CASE Collect
  BY <1>7 DEF Collect, Return
<1>8. CASE Salvage
  BY <1>8 DEF Salvage, Return
<1>9. CASE Drop
  BY <1>9 DEF Drop, Kill
<1>10. CASE Tick
  BY <1>10 DEF Tick
<1>11. CASE PSOver \/ UNCHANGED psvars
  BY <1>11 DEF PSOver, psvars
<1> QED
  BY <1>1, <1>2, <1>3, <1>4, <1>5, <1>6, <1>7, <1>8, <1>9, <1>10, <1>11 DEF PSNext

LEMMA TimeStep == PSTypeOK /\ TimeInv /\ [PSNext]_psvars => TimeInv'
<1> SUFFICES ASSUME PSTypeOK, TimeInv, [PSNext]_psvars PROVE TimeInv'
  OBVIOUS
<1> USE Constants DEF PSTypeOK, TimeInv
<1>1. CASE StartFails \/ Start
  BY <1>1 DEF StartFails, Start
<1>2. CASE UNCHANGED <<pc, left, elapsed>>
  BY <1>2
<1>3. CASE ExitSeen \/ TimeUp \/ WaitFails
  BY <1>3 DEF ExitSeen, TimeUp, WaitFails
<1>4. CASE KillOver
  BY <1>4 DEF KillOver, Return
<1>5. CASE Collect \/ Salvage \/ Drop
  BY <1>5 DEF Collect, Salvage, Drop, Return
<1>6. CASE Tick
  BY <1>6 DEF Tick, Pending
<1> QED
  BY <1>1, <1>2, <1>3, <1>4, <1>5, <1>6
     DEF PSNext, ChildWrites, ChildExits, ChildDies, HelperStarts, HelperEnds, ReadEnds,
         ReadFails, PSOver, psvars

\* The two ways in which a step may touch the result.
LEMMA SuccessStep ==
    ASSUME PSTypeOK, ChildInv, ReaderInv, SuccessInv, [PSNext]_psvars
    PROVE  /\ SuccessInv'
           /\ \/ result' = result /\ (Succeeded(result) => pc' = "returned")
              \/ ~Succeeded(result) /\ ~Succeeded(result') /\ pc' = "returned"
              \/ Collect /\ reader = "done"
<1> USE DEF procVars
<1>1. \A s : ~Succeeded(Result(s, "none", TRUE))
  BY DEF Succeeded, Result
<1>2. ~Succeeded(Err)
  BY DEF Succeeded, Err
<1>3. CASE result' = result
  <2>1. CASE ~Succeeded(result)
    BY <1>3, <2>1 DEF SuccessInv
  <2>2. CASE Succeeded(result)
    <3>1. /\ pc = "returned" /\ proc = "dead" /\ ~killed /\ code = "0" /\ reader = "done"
          /\ result = Result(Bounded(wrote), code, FALSE)
      BY <2>2 DEF SuccessInv
    <3>2. UNCHANGED <<pc, proc, killed, code, reader, wrote>>
      BY <3>1
         DEF PSNext, StartFails, Start, ChildWrites, ChildExits, ChildDies, HelperStarts,
             HelperEnds, ReadEnds, ReadFails, ExitSeen, TimeUp, WaitFails, KillOver, Collect,
             Salvage, Drop, Tick, Pending, PSOver, psvars
    <3> QED
      BY <1>3, <2>2, <3>1, <3>2 DEF SuccessInv, Bounded
  <2> QED
    BY <2>1, <2>2
<1>4. ASSUME pc \notin {"returned"}, pc' = "returned", ~Succeeded(result')
      PROVE  SuccessInv' /\ ~Succeeded(result)
  BY <1>4 DEF SuccessInv
<1>5. CASE StartFails
  BY <1>2, <1>4, <1>5 DEF StartFails
<1>6. CASE Salvage
  BY <1>1, <1>4, <1>6 DEF Salvage, Return
<1>7. CASE KillOver
  <2>1. result' = result \/ (result' = Err /\ pc' = "returned" /\ pc # "returned")
    BY <1>7 DEF KillOver, Return
  <2> QED
    BY <1>2, <1>3, <1>4, <2>1
<1>8. CASE Collect
  <2>1. pc = "draining" /\ pc' = "returned" /\ UNCHANGED <<proc, killed, code, wrote>>
    BY <1>8 DEF Collect, Return
  <2>2. CASE reader # "done"
    BY <1>2, <1>4, <1>8, <2>1, <2>2 DEF Collect, Return
  <2>3. CASE reader = "done"
    <3>1. reader' = "done" /\ result' = Result(Bounded(wrote), code, FALSE)
      BY <1>8, <2>3 DEF Collect, Return
    <3>2. Succeeded(result') => code = "0"
      BY <3>1 DEF Succeeded, Result
    <3>3. proc = "dead" /\ ~killed
      BY <2>1 DEF ChildInv
    <3> QED
      BY <1>8, <2>1, <2>3, <3>1, <3>2, <3>3 DEF SuccessInv, Bounded
  <2> QED
    BY <2>2, <2>3
<1> QED
  BY <1>3, <1>5, <1>6, <1>7, <1>8
     DEF PSNext, Start, ChildWrites, ChildExits, ChildDies, HelperStarts,
         HelperEnds, ReadEnds, ReadFails, ExitSeen, TimeUp, WaitFails, Drop, Tick, PSOver, psvars

LEMMA PSInvariant == PSSpec => [](PSTypeOK /\ PSInv)
<1>1. PSTypeOK /\ PSInv /\ [PSNext]_psvars => PSTypeOK' /\ PSInv'
  BY PSTypeStep, ChildStep, TimeStep, SuccessStep DEF PSInv
<1> QED
  BY PSStart, <1>1, PTL DEF PSSpec

\* A call takes no longer than its cap and the two graces, whatever the child,
\* the kill and the other end of the pipe do.  (timeout around child.wait(),
\* kill_child, collect_reader and collect_lossy_or_empty.)
THEOREM CallsTakeTheirTime == PSSpec => InTime
<1>1. PSInv => elapsed <= Deadline
  BY DEF PSInv, TimeInv
<1> QED
  BY <1>1, PSInvariant, PTL DEF InTime

\* What consensus takes for an answer is one: the child ended by itself with
\* status 0, all that it wrote was read and parsed, and what it said last is
\* the answer.  (read_bounded, parse_subagent_stream, run_binary_isolated.)
THEOREM AnswersAreHonest == PSSpec => []AnswerHonest
<1>1. PSTypeOK /\ PSInv => AnswerHonest
  <2> SUFFICES ASSUME PSTypeOK, PSInv, Succeeded(result)
               PROVE  /\ code = "0" /\ ~killed /\ reader = "done"
                      /\ Len(wrote) <= OutputLimit
                      /\ \A i \in 1..Len(wrote) : wrote[i] # ErrorEvent
                      /\ result.out = Answer(wrote)
    BY DEF AnswerHonest
  <2> DEFINE b == Bounded(wrote)
  <2>1. code = "0" /\ ~killed /\ reader = "done" /\ result = Result(b, code, FALSE)
    BY DEF PSInv, SuccessInv
  <2>2. ErrorEvent \in Event /\ ErrorEvent.type = "error"
    BY DEF ErrorEvent, Event
  <2>3. b \in Seq(Event)
    BY <2>2, Constants DEF Bounded, PSTypeOK
  <2>4. ~Parsed(b).error /\ result.out = Parsed(b).out
    BY <2>1 DEF Succeeded, Result
  <2> HIDE DEF b
  <2>5. \A i \in 1..Len(b) : b[i].type # "error"
    BY <2>3, <2>4, ParsedErrors
  <2>6. Len(wrote) <= OutputLimit
    <3> SUFFICES ASSUME ~(Len(wrote) <= OutputLimit) PROVE FALSE
      OBVIOUS
    <3>1. b = Append(SubSeq(wrote, 1, OutputLimit), ErrorEvent)
      BY DEF b, Bounded
    <3>2. SubSeq(wrote, 1, OutputLimit) \in Seq(Event)
      BY Constants DEF PSTypeOK
    <3>3. Len(b) \in 1..Len(b) /\ b[Len(b)] = ErrorEvent
      <4> DEFINE r == SubSeq(wrote, 1, OutputLimit)
      <4> HIDE DEF r
      <4>1. r \in Seq(Event) /\ b = Append(r, ErrorEvent)
        BY <3>1, <3>2 DEF r
      <4> QED
        BY <2>2, <4>1
    <3> QED
      BY <2>2, <2>5, <3>3
  <2>7. b = wrote
    BY <2>6 DEF b, Bounded
  <2>8. result.out = Answer(wrote)
    BY <2>3, <2>4, <2>7, ParsedAnswer
  <2> QED
    BY <2>1, <2>2, <2>5, <2>6, <2>7, <2>8
<1> QED
  BY <1>1, PSInvariant, PTL

-----------------------------------------------------------------------------
\* An isolated subagent keeps the contract of ChildRun

CallNow == IF Pending THEN "running" ELSE pc
ChildNow ==
    CASE proc \in {"none", "alive"} -> proc
      [] proc = "dying" -> "condemned"
      [] OTHER -> IF killed THEN "condemned" ELSE "exited"

LEMMA SameAnswer ==
    ASSUME NEW a, NEW b, a = b \/ (~Succeeded(a) /\ ~Succeeded(b))
    PROVE  Succeeded(a) = Succeeded(b)
<1>1. Succeeded(a) \in BOOLEAN /\ Succeeded(b) \in BOOLEAN
  BY DEF Succeeded
<1>2. CASE ~Succeeded(a) /\ ~Succeeded(b)
  <2>1. Succeeded(a) = FALSE
    BY <1>1, <1>2
  <2>2. Succeeded(b) = FALSE
    BY <1>1, <1>2
  <2> QED
    BY <2>1, <2>2, Zenon
<1>3. CASE a = b
  BY <1>3
<1> QED
  BY <1>2, <1>3

\* What each step is to the caller.
LEMMA ContractStep ==
    ASSUME PSTypeOK, PSInv, PSTypeOK', PSInv', [PSNext]_psvars
    PROVE  Contract!Next \/ UNCHANGED <<CallNow, ChildNow, Succeeded(result)>>
<1> DEFINE S == Succeeded(result)
<1>1. /\ \/ result' = result \/ (~S /\ ~S')
         \/ Collect /\ reader = "done"
      /\ S' \in BOOLEAN
  BY SuccessStep DEF PSInv, Succeeded
<1>2. ~(Collect /\ reader = "done") => S' = S
  BY <1>1, SameAnswer
<1>3. ~S' => S' = FALSE
  BY <1>1
<1> HIDE DEF S
<1> USE DEF CallNow, ChildNow, Pending, PSInv, ChildInv, PSTypeOK, procVars
<1>4. CASE StartFails
  <2>1. CallNow = "idle" /\ CallNow' = "returned" /\ ChildNow' = ChildNow /\ S' = S
    BY <1>2, <1>4 DEF StartFails, Collect
  <2> QED
    BY <2>1 DEF Contract!Next, Contract!Refuse, S
<1>5. CASE Start
  <2>1. /\ CallNow = "idle" /\ CallNow' = "running" /\ ChildNow' = "alive" /\ S' = S
    BY <1>2, <1>5 DEF Start, Collect
  <2> QED
    BY <2>1 DEF Contract!Next, Contract!Start, S
<1>6. CASE \E c \in {"0", "1"} : ChildExits(c)
  <2>1. CallNow' = CallNow /\ ChildNow = "alive" /\ ChildNow' = "exited" /\ result' = result
    BY <1>6 DEF ChildExits
  <2>2. S' = S
    BY <2>1 DEF S
  <2> QED
    BY <2>1, <2>2 DEF Contract!Next, Contract!Exit, S
<1>7. CASE \/ \E e \in Event : ChildWrites(e)
           \/ ChildDies \/ HelperStarts \/ HelperEnds \/ ReadEnds \/ ReadFails
           \/ ExitSeen \/ Tick \/ PSOver \/ UNCHANGED psvars
  <2>1. CallNow' = CallNow /\ ChildNow' = ChildNow /\ result' = result
    BY <1>7 DEF ChildWrites, ChildDies, HelperStarts, HelperEnds, ReadEnds, ReadFails,
                ExitSeen, Tick, PSOver, psvars
  <2>2. S' = S
    BY <2>1 DEF S
  <2> QED
    BY <2>1, <2>2 DEF S
<1>8. CASE TimeUp \/ WaitFails
  <2>1. /\ CallNow = "running" /\ CallNow' = "running" /\ result' = result
        /\ ChildNow = "alive" => ChildNow' = "condemned"
        /\ ChildNow # "alive" => ChildNow' = ChildNow
    BY <1>8 DEF TimeUp, WaitFails, Kill
  <2>2. S' = S
    BY <2>1 DEF S
  <2> QED
    BY <2>1, <2>2 DEF Contract!Next, Contract!Condemn, S
<1>9. CASE KillOver \/ Salvage \/ Collect
  <2>1. ChildNow' = ChildNow /\ CallNow = "running" /\ ChildNow # "alive"
    BY <1>9 DEF KillOver, Salvage, Collect
  <2>2. CallNow' = CallNow \/ CallNow' = "returned"
    BY <1>9 DEF KillOver, Salvage, Collect, Return
  <2>3. ~S
    BY <1>9 DEF S, SuccessInv, KillOver, Salvage, Collect
  <2>4. S' \in (IF ChildNow = "exited" THEN BOOLEAN ELSE {FALSE})
    <3>1. CASE Collect
      <4>1. ChildNow = "exited"
        BY <3>1 DEF Collect
      <4> QED
        BY <1>1, <4>1
    <3>2. CASE ~Collect
      BY <1>1, <1>2, <1>3, <2>3, <3>2
    <3> QED
      BY <3>1, <3>2
  <2>5. CASE CallNow' = CallNow
    <3>1. CASE Collect
      BY <2>1, <2>5, <3>1 DEF Collect, Return
    <3>2. CASE ~Collect
      BY <1>2, <2>1, <2>5, <3>2 DEF S
    <3> QED
      BY <3>1, <3>2
  <2>6. CASE CallNow' = "returned"
    BY <2>1, <2>4, <2>6 DEF Contract!Next, Contract!Return, S
  <2> QED
    BY <2>2, <2>5, <2>6
<1>10. CASE Drop
  <2>1. /\ CallNow = "running" /\ CallNow' = "dropped" /\ result' = result
        /\ ChildNow' = IF ChildNow = "alive" THEN "condemned" ELSE ChildNow
    BY <1>10 DEF Drop, Kill
  <2>2. S' = S
    BY <2>1 DEF S
  <2> QED
    BY <2>1, <2>2 DEF Contract!Next, Contract!Drop, S
<1> QED
  BY <1>4, <1>5, <1>6, <1>7, <1>8, <1>9, <1>10 DEF PSNext

\* To its caller an isolated subagent is what ChildRun promises, dropped or not.
\* (run_isolated_subagent..., kill_child, kill_on_drop.)
LEMMA SubagentContract == PSSpec => SubagentKeepsContract
<1>1. PSInit => Contract!Init
  <2> SUFFICES ASSUME PSInit PROVE Contract!Init
    OBVIOUS
  <2>1. Succeeded(result) = FALSE
    BY DEF PSInit, Succeeded, NoResult
  <2> QED
    BY <2>1 DEF PSInit, Contract!Init, Pending
<1>2. /\ PSTypeOK /\ PSInv /\ PSTypeOK' /\ PSInv' /\ [PSNext]_psvars
      => [Contract!Next]_<<CallNow, ChildNow, Succeeded(result)>>
  BY ContractStep
<1> QED
  BY <1>1, <1>2, PSInvariant, PTL
     DEF PSSpec, SubagentKeepsContract, Contract!Spec, CallNow, ChildNow

\* Every child that is waited for, by consensus or by a benchmark, is waited for
\* as ChildRun has it.
THEOREM ChildrenKeepContract == PSSpec /\ BSpec => KeepsContract
  BY SubagentContract, BenchKeepsContract, PTL DEF KeepsContract

-----------------------------------------------------------------------------
\* What a process has in memory of a store

StorePlaces == {"off", "idle", "locking", "changing", "relocking", "ready", "writing",
           "creating", "filling", "created"}

STTypeOK ==
    /\ at \in [Users -> StorePlaces]
    /\ copy \in [Users -> SUBSET Entries] /\ mutex \in [Users -> BOOLEAN]
    /\ touched \in [Users -> SUBSET Entries] /\ seen \in [Users -> SUBSET Entries]
    /\ good \in SUBSET Entries /\ asker \in [Users -> {"command", "tool"}]

\* A file that is whole has what was last written in full.
WholeInv == Whole => content = good

\* What a process has seen and not changed is in its copy as it is in the file.
SeenInv ==
    \A p \in Users : \A e \in seen[p] \ touched[p] : e \in copy[p] <=> e \in good

STInv == STTypeOK /\ WholeInv /\ SeenInv

LEMMA FoundIs ==
    ASSUME WholeInv
    PROVE  /\ Found \in SUBSET Entries /\ (Whole => Found = good)
           /\ Loaded \in SUBSET Entries /\ Found \subseteq Loaded
  BY StoresAssumption DEF WholeInv, Found, Loaded, Whole

\* p has read the file.
LEMMA SeenByReading ==
    ASSUME STInv, NEW p \in Users, Reads(p), good' = good
    PROVE  /\ copy' \in [Users -> SUBSET Entries] /\ touched' \in [Users -> SUBSET Entries]
           /\ seen' \in [Users -> SUBSET Entries] /\ SeenInv'
<1> USE FoundIs DEF STInv
<1>1. /\ copy' \in [Users -> SUBSET Entries] /\ touched' \in [Users -> SUBSET Entries]
      /\ seen' \in [Users -> SUBSET Entries]
  BY DEF Reads, STTypeOK
<1>2. ASSUME NEW q \in Users, NEW e \in seen'[q] \ touched'[q]
      PROVE  e \in copy'[q] <=> e \in good'
  <2>1. CASE q = p
    <3>1. touched'[p] = Loaded \ Found /\ copy'[p] = Loaded /\ Whole
      BY <1>2, <2>1 DEF Reads, STTypeOK
    <3>2. e \in Found <=> e \in Loaded
      BY <1>2, <2>1, <3>1
    <3> QED
      BY <2>1, <3>1, <3>2
  <2>2. CASE q # p
    BY <1>2, <2>2 DEF Reads, STTypeOK, SeenInv
  <2> QED
    BY <2>1, <2>2
<1> QED
  BY <1>1, <1>2 DEF SeenInv

\* p has changed its copy.
LEMMA SeenByChanging ==
    ASSUME STInv, NEW p \in Users, NEW new \in SUBSET Entries, Change(p, new), good' = good
    PROVE  /\ copy' \in [Users -> SUBSET Entries] /\ touched' \in [Users -> SUBSET Entries]
           /\ seen' \in [Users -> SUBSET Entries] /\ SeenInv'
<1> USE FoundIs DEF STInv
<1>1. /\ copy' \in [Users -> SUBSET Entries] /\ touched' \in [Users -> SUBSET Entries]
      /\ seen' \in [Users -> SUBSET Entries]
  BY DEF Change, Changed, STTypeOK
<1>2. ASSUME NEW q \in Users, NEW e \in seen'[q] \ touched'[q]
      PROVE  e \in copy'[q] <=> e \in good'
  <2>1. CASE q = p /\ FromCopy(p)
    <3>1. /\ copy'[p] = new /\ seen'[p] = seen[p]
          /\ touched'[p] = Changed(copy[p], new) \cup touched[p]
      BY <2>1 DEF Change, STTypeOK
    <3>2. e \in Entries /\ e \in seen[p] \ touched[p] /\ (e \in copy[p] <=> e \in new)
      BY <1>1, <1>2, <2>1, <3>1 DEF Changed
    <3> QED
      BY <2>1, <3>1, <3>2 DEF SeenInv
  <2>2. CASE q = p /\ ~FromCopy(p)
    <3>1. /\ copy'[p] = new /\ touched'[p] = Changed(Found, new)
          /\ seen'[p] = IF Whole THEN Entries ELSE {}
      BY <2>2 DEF Change, STTypeOK
    <3>2. e \in Entries /\ Whole /\ (e \in Found <=> e \in new)
      BY <1>1, <1>2, <2>2, <3>1 DEF Changed
    <3> QED
      BY <2>2, <3>1, <3>2
  <2>3. CASE q # p
    BY <1>2, <2>3 DEF Change, STTypeOK, SeenInv
  <2> QED
    BY <2>1, <2>2, <2>3
<1> QED
  BY <1>1, <1>2 DEF SeenInv

\* What is put into the file is no longer seen, but by those that put it there.
LEMMA SeenBySaving ==
    ASSUME STInv, NEW p \in Users, Saved(p), UNCHANGED copy
    PROVE  /\ touched' \in [Users -> SUBSET Entries] /\ seen' \in [Users -> SUBSET Entries]
           /\ good' = copy[p] /\ good' \in SUBSET Entries /\ SeenInv'
<1> USE DEF STInv
<1>1. /\ touched' \in [Users -> SUBSET Entries] /\ seen' \in [Users -> SUBSET Entries]
      /\ good' = copy[p] /\ good' \in SUBSET Entries
  BY DEF Saved, Changed, STTypeOK
<1>2. ASSUME NEW q \in Users, NEW e \in seen'[q] \ touched'[q]
      PROVE  e \in copy'[q] <=> e \in good'
  <2>1. CASE q = p
    BY <1>1, <2>1
  <2>2. CASE q # p
    <3>1. touched'[q] = touched[q] /\ seen'[q] = seen[q] \ Changed(good, copy[p])
      BY <2>2 DEF Saved, STTypeOK
    <3>2. e \in Entries /\ e \in seen[q] \ touched[q] /\ (e \in good <=> e \in copy[p])
      BY <1>1, <1>2, <3>1 DEF Changed
    <3> QED
      BY <1>1, <3>2 DEF SeenInv
  <2> QED
    BY <2>1, <2>2
<1> QED
  BY <1>1, <1>2 DEF SeenInv

LEMMA StoresStep ==
    ASSUME STInv, [STNext]_stvars
    PROVE  STInv'
<1> USE DEF STInv
<1>0. ~(Cut \subseteq Entries) /\ ~(Garbled \subseteq Entries)
  BY StoresAssumption DEF Cut, Garbled
<1>1. ASSUME NEW p \in Users, Begin(p) PROVE STInv'
  <2>1. at' \in [Users -> StorePlaces]
        /\ mutex' \in [Users -> BOOLEAN] /\ UNCHANGED <<content, good, asker>>
    BY <1>1 DEF Begin, Moves, Lets, STTypeOK, StorePlaces
  <2>2. CASE Reads(p)
    BY <2>1, <2>2, SeenByReading DEF STTypeOK, WholeInv, Whole
  <2>3. CASE UNCHANGED <<copy, touched, seen>>
    BY <2>1, <2>3 DEF STTypeOK, WholeInv, Whole, SeenInv
  <2> QED
    BY <1>1, <2>2, <2>3 DEF Begin
<1>2. ASSUME NEW p \in Users, NEW by \in {"command", "tool"}, Asks(p, by) PROVE STInv'
  BY <1>2 DEF Asks, Moves, STTypeOK, StorePlaces, WholeInv, Whole, SeenInv
<1>3. ASSUME NEW p \in Users, Locks(p) PROVE STInv'
  BY <1>3 DEF Locks, Moves, STTypeOK, StorePlaces, WholeInv, Whole, SeenInv
<1>4. ASSUME NEW p \in Users, NEW new \in SUBSET Entries, Changes(p, new) PROVE STInv'
  <2>1. Change(p, new) /\ UNCHANGED <<content, good, asker>>
    BY <1>4 DEF Changes
  <2>2. at' \in [Users -> StorePlaces]
        /\ mutex' \in [Users -> BOOLEAN]
    BY <1>4 DEF Changes, Moves, Lets, STTypeOK, StorePlaces
  <2> QED
    BY <2>1, <2>2, SeenByChanging DEF STTypeOK, WholeInv, Whole
<1>5. ASSUME NEW p \in Users, Refuses(p) PROVE STInv'
  BY <1>5 DEF Refuses, Moves, STTypeOK, StorePlaces, WholeInv, Whole, SeenInv
<1>6. ASSUME NEW p \in Users, Replace(p) \/ Fills(p) PROVE STInv'
  <2>1. Saved(p) /\ UNCHANGED <<copy, asker>> /\ (content' = copy[p] \/ content' = Garbled)
    BY <1>6 DEF Replace, Fills
  <2>2. at' \in [Users -> StorePlaces]
        /\ mutex' \in [Users -> BOOLEAN]
    BY <2>1 DEF Saved, Moves, Lets, STTypeOK, StorePlaces
  <2>3. WholeInv'
    BY <1>0, <2>1, SeenBySaving DEF WholeInv, Whole
  <2> QED
    BY <2>1, <2>2, <2>3, SeenBySaving DEF STTypeOK
<1>7. ASSUME NEW p \in Users, Truncate(p) PROVE STInv'
  <2>1. /\ content' = Cut /\ UNCHANGED <<good, asker, copy, mutex, touched, seen>>
        /\ \E to \in StorePlaces : Moves(p, to)
    BY <1>7 DEF Truncate, StorePlaces
  <2> QED
    BY <1>0, <2>1 DEF Moves, STTypeOK, WholeInv, Whole, SeenInv
<1>8. ASSUME NEW p \in Users, SaveFails(p) PROVE STInv'
  BY <1>8 DEF SaveFails, Moves, Lets, STTypeOK, StorePlaces, WholeInv, Whole, SeenInv
<1>9. ASSUME NEW p \in Users, Killed(p) PROVE STInv'
  BY <1>9 DEF Killed, Moves, Lets, STTypeOK, StorePlaces, WholeInv, Whole, SeenInv
<1>10. ASSUME NEW p \in Users, Pushes(p) PROVE STInv'
  BY <1>10 DEF Pushes, perProcess, STTypeOK, WholeInv, Whole, SeenInv
<1>11. ASSUME NEW p \in Users, NEW new \in SUBSET Entries, Pulls(p, new) PROVE STInv'
  <2>1. /\ content' = new /\ good' = new /\ UNCHANGED <<at, asker, copy, mutex, touched>>
        /\ seen' = [q \in Users |-> seen[q] \ Changed(good, new)]
    BY <1>11 DEF Pulls
  <2>2. STTypeOK' /\ WholeInv'
    BY <2>1 DEF STTypeOK, WholeInv
  <2>3. ASSUME NEW q \in Users, NEW e \in seen'[q] \ touched'[q]
        PROVE  e \in copy'[q] <=> e \in good'
    <3>1. e \in Entries /\ e \in seen[q] \ touched[q] /\ (e \in good <=> e \in new)
      BY <2>1, <2>3 DEF Changed, STTypeOK
    <3> QED
      BY <2>1, <3>1 DEF SeenInv
  <2> QED
    BY <2>2, <2>3 DEF SeenInv
<1>12. ASSUME NEW p \in Users, Creates(p) PROVE STInv'
  <2>1. /\ at' \in [Users -> StorePlaces] /\ Reads(p)
        /\ UNCHANGED <<content, good, asker, mutex>>
    BY <1>12 DEF Creates, Moves, STTypeOK, StorePlaces
  <2> QED
    BY <2>1, SeenByReading DEF STTypeOK, WholeInv, Whole
<1>13. CASE UNCHANGED stvars
  BY <1>13 DEF stvars, perProcess, STTypeOK, WholeInv, Whole, SeenInv
<1> QED
  BY <1>1, <1>2, <1>3, <1>4, <1>5, <1>6, <1>7, <1>8, <1>9, <1>10, <1>11, <1>12, <1>13
  DEF STNext, Step, AllEnded

\* A save undoes a change only if its process had read the store before that was
\* made, or found it cut or garbled: for any processes and entries, whatever store,
\* and whoever is killed, saves or pulls in between.
THEOREM SavesTakeBackUnseen == STSpec => TakesBackUnseen
<1>1. STInit => STInv
  BY StoresAssumption DEF STInit, STInv, STTypeOK, StorePlaces, WholeInv, SeenInv, Whole, Missing
<1>2. STInv /\ [STNext]_stvars => STInv'
  BY StoresStep
<1>3. STInv => [\A p \in Users : Saved(p) =>
                  \A e \in Changed(good, good') : e \in touched[p] \/ e \notin seen[p]]_stvars
  <2> SUFFICES ASSUME STInv, NEW p \in Users, Saved(p), NEW e \in Changed(good, good')
               PROVE  e \in touched[p] \/ e \notin seen[p]
    OBVIOUS
  <2>1. good' = copy[p] /\ ((e \in good) # (e \in good'))
    BY DEF Saved, Changed
  <2> QED
    BY <2>1 DEF STInv, SeenInv
<1> QED
  BY <1>1, <1>2, <1>3, PTL DEF STSpec, TakesBackUnseen

-----------------------------------------------------------------------------
\* REPL sessions

Printed == [kind : {"text", "sentinel"}, eval : Nat]
Replies == [asked : Nat, of : Nat, out : Seq(Nat), upset : BOOLEAN]

TTypeOK ==
    /\ limited \in BOOLEAN /\ open \in BOOLEAN /\ torn \in BOOLEAN /\ upset \in BOOLEAN
    /\ shell \in {"none", "alive", "dead"}
    /\ eval \in {"idle", "writing", "reading", "closing"}
    /\ running \in Nat /\ printed \in Nat /\ asked \in Nat
    /\ input \in Seq(Nat) /\ got \in Seq(Nat)
    /\ output \in Seq(Printed)
    /\ reply \in Replies

\* All that bash has printed for the eval asked is in what was got of it and in
\* the pipe, where a sentinel, if there is one, comes last.
AllOfAsked ==
    /\ \A i \in 1..Len(got) : got[i] = asked
    /\ \A i \in 1..Len(output) : output[i].eval = asked
    /\ \A i \in 1..Len(output) : output[i].kind = "sentinel" =>
           i = Len(output) /\ running = 0 /\ Len(got) + Len(output) = printed + 1
    /\ running # 0 => running = asked /\ Len(got) + Len(output) = printed

\* A session none of whose evals was given up: at rest nothing is under way,
\* and while an eval is read there is only that.
CalmInv ==
    /\ eval \in {"writing", "reading"} => open
    /\ ~upset =>
        /\ ~torn
        /\ input # <<>> \/ running # 0 => shell = "alive"
        /\ eval # "reading" => input = <<>> /\ output = <<>> /\ running = 0
        /\ eval = "reading" =>
              /\ asked # 0 /\ AllOfAsked
              /\ input # <<>> => input = <<asked>> /\ output = <<>> /\ running = 0 /\ got = <<>>
        /\ eval = "writing" => got = <<>> /\ asked # 0

\* While a reply without reserve stands, nothing in its session has moved.
ReplyInv ==
    ~reply.upset =>
        /\ ~upset /\ open /\ eval = "idle"
        /\ reply.of = reply.asked
        /\ reply.out = [i \in 1..printed |-> reply.asked]

ReplInv == TTypeOK /\ CalmInv /\ ReplyInv

LEMMA NoReplyReplies == NoReply \in Replies /\ NoReply.upset
<1>1. <<>> \in Seq(Nat)
  OBVIOUS
<1> QED
  BY <1>1 DEF NoReply, Replies

LEMMA EmptyTyped ==
    <<>> \in Seq(Nat) /\ <<>> \in Seq(Printed) /\ Len(<<>>) = 0
  OBVIOUS

LEMMA LineAppended ==
    ASSUME TTypeOK, NEW k \in {"text", "sentinel"}
    PROVE  Append(output, [kind |-> k, eval |-> running]) \in Seq(Printed)
  BY DEF TTypeOK, Printed

LEMMA ReplStep ==
    ASSUME ReplInv, [Next]_vars
    PROVE  ReplInv'
<1> USE ToolsAssumption, NoReplyReplies, EmptyTyped DEF ReplInv
<1>r. ASSUME UNCHANGED repl PROVE ReplInv'
  <2>1. TTypeOK'
    BY <1>r DEF repl, sessionVars, callVars, TTypeOK
  <2>2. CalmInv' /\ ReplyInv'
    BY <1>r DEF repl, sessionVars, callVars, CalmInv, ReplyInv, AllOfAsked
  <2> QED
    BY <2>1, <2>2
<1>f. ASSUME Fresh, reply.upset, reply'.upset, eval' # "reading", eval' # "writing",
             UNCHANGED <<limited, asked, got>>, open' \in BOOLEAN, eval' \in {"idle", "closing"},
             shell' \in {"none", "alive"}, reply' \in {reply, NoReply}
      PROVE  ReplInv'
  <2>1. TTypeOK'
    BY <1>f DEF Fresh, TTypeOK
  <2>2. CalmInv' /\ ReplyInv'
    BY <1>f DEF Fresh, CalmInv, ReplyInv
  <2> QED
    BY <2>1, <2>2
<1>1. CASE ReplStart
  BY <1>1, <1>f DEF ReplStart, Calls, Idle, callVars, ReplyInv, TTypeOK
<1>2. CASE Eval
  <2>1. /\ eval' = "writing" /\ asked' = asked + 1 /\ got' = <<>> /\ reply' = NoReply
        /\ UNCHANGED <<limited, open, shell, running, printed, input, output, torn, upset>>
        /\ eval = "idle" /\ open
    BY <1>2 DEF Eval, Calls, Idle, sessionVars
  <2>2. TTypeOK' /\ asked' # 0
    BY <2>1 DEF TTypeOK
  <2> QED
    BY <2>1, <2>2 DEF CalmInv, ReplyInv
<1>3. CASE Written
  <2>1. /\ eval = "writing" /\ shell = "alive" /\ input' = Append(input, asked) /\ eval' = "reading"
        /\ UNCHANGED <<limited, open, shell, running, printed, output, torn, upset, asked, got, reply>>
    BY <1>3 DEF Written
  <2>2. TTypeOK'
    BY <2>1 DEF TTypeOK
  <2>3. ReplyInv'
    BY <2>1 DEF ReplyInv
  <2>4. CalmInv'
    <3> SUFFICES ASSUME ~upset PROVE CalmInv'
      BY <2>1 DEF CalmInv
    <3>1. input' = <<asked>> /\ output' = <<>> /\ running' = 0 /\ got' = <<>> /\ asked' # 0
      BY <2>1 DEF CalmInv, TTypeOK
    <3> QED
      BY <2>1, <3>1 DEF CalmInv, AllOfAsked
  <2> QED
    BY <2>2, <2>3, <2>4
<1>4. CASE SendFails
  <2>1. /\ eval = "writing" /\ eval' = "idle" /\ reply' = NoReply
        /\ UNCHANGED <<limited, asked, sessionVars, got>>
    BY <1>4 DEF SendFails, Returns
  <2> QED
    BY <2>1 DEF TTypeOK, sessionVars, CalmInv, ReplyInv
<1>5. CASE GetsLine
  <2> DEFINE line == Head(output)
  <2>1. /\ eval = "reading" /\ output # <<>> /\ output' = Tail(output)
        /\ UNCHANGED <<open, shell, running, printed, input, torn, upset, limited, asked>>
    BY <1>5 DEF GetsLine, Returns
  <2>2. /\ line = output[1] /\ line \in Printed
        /\ Len(output) \in Nat \ {0} /\ Len(output') = Len(output) - 1
        /\ \A i \in 1..Len(output') : output'[i] = output[i + 1] /\ i + 1 \in 1..Len(output)
        /\ output' \in Seq(Printed)
    BY <2>1 DEF TTypeOK
  <2>3. CASE line.kind = "sentinel"
    <3>1. /\ eval' = "idle" /\ got' = got
          /\ reply' = [asked |-> asked, of |-> line.eval, out |-> got, upset |-> upset]
      BY <1>5, <2>3 DEF GetsLine, Returns
    <3>2. TTypeOK'
      BY <2>1, <2>2, <3>1 DEF TTypeOK, Printed, Replies
    <3>3. CASE upset
      BY <2>1, <3>1, <3>2, <3>3 DEF CalmInv, ReplyInv
    <3>4. CASE ~upset
      <4>1. /\ AllOfAsked /\ ~torn /\ input = <<>>
            /\ open
        BY <2>1, <3>4 DEF CalmInv
      <4>2. 1 = Len(output) /\ running = 0 /\ Len(got) + Len(output) = printed + 1 /\ line.eval = asked
        BY <2>2, <2>3, <4>1 DEF AllOfAsked
      <4>3. output' = <<>>
        BY <2>1, <2>2, <4>2
      <4>4. got = [i \in 1..printed |-> asked]
        <5>1. got \in Seq(Nat) /\ Len(got) = printed /\ \A i \in 1..Len(got) : got[i] = asked
          <6>1. got \in Seq(Nat) /\ Len(got) \in Nat /\ printed \in Nat
            BY DEF TTypeOK
          <6>2. Len(got) + 1 = printed + 1
            BY <4>2, <6>1, Zenon
          <6>3. \A x, y \in Nat : x + 1 = y + 1 => x = y
            OBVIOUS
          <6>4. Len(got) = printed
            BY <6>1, <6>2, <6>3
          <6> QED
            BY <4>1, <6>1, <6>4 DEF AllOfAsked
        <5>2. got = [i \in 1..Len(got) |-> got[i]]
          BY <5>1
        <5> QED
          BY <5>1, <5>2
      <4>5. CalmInv'
        BY <2>1, <3>1, <3>4, <4>1, <4>2, <4>3 DEF CalmInv
      <4>6. ReplyInv'
        BY <2>1, <3>1, <3>4, <4>1, <4>2, <4>4 DEF ReplyInv
      <4> QED
        BY <3>2, <4>5, <4>6
    <3> QED
      BY <3>3, <3>4
  <2>4. CASE line.kind # "sentinel"
    <3>1. got' = Append(got, line.eval) /\ UNCHANGED <<eval, reply>>
      BY <1>5, <2>4 DEF GetsLine
    <3>2. TTypeOK'
      BY <2>1, <2>2, <3>1 DEF TTypeOK, Printed, Replies
    <3>3. ReplyInv'
      BY <2>1, <3>1 DEF ReplyInv
    <3>4. CalmInv'
      <4> SUFFICES ASSUME ~upset PROVE CalmInv'
        BY <2>1 DEF CalmInv
      <4>1. AllOfAsked /\ ~torn /\ input = <<>> /\ asked # 0
            /\ (running # 0 => shell = "alive")
        BY <2>1 DEF CalmInv
      <4>2. /\ Len(got') = Len(got) + 1 /\ Len(got) \in Nat
            /\ \A i \in 1..Len(got') : got'[i] = asked
        BY <2>2, <3>1, <4>1 DEF AllOfAsked, TTypeOK
      <4>3. AllOfAsked'
        <5>1. \A i \in 1..Len(output') : output'[i].eval = asked
          <6>1. \A i \in 1..Len(output) : output[i].eval = asked
            BY <4>1 DEF AllOfAsked
          <6>2. ASSUME NEW i \in 1..Len(output') PROVE output'[i].eval = asked
            <7>1. output'[i] = output[i + 1] /\ i + 1 \in 1..Len(output)
              BY <2>2
            <7> QED
              BY <6>1, <7>1
          <6> QED
            BY <6>2
        <5>2. \A i \in 1..Len(output') : output'[i].kind = "sentinel" =>
                 i = Len(output') /\ running = 0 /\ Len(got') + Len(output') = printed + 1
          <6> TAKE i \in 1..Len(output')
          <6> HAVE output'[i].kind = "sentinel"
          <6>1. i + 1 \in 1..Len(output) /\ output[i + 1].kind = "sentinel"
            BY <2>2
          <6>2. i + 1 = Len(output) /\ running = 0 /\ Len(got) + Len(output) = printed + 1
            BY <4>1, <6>1 DEF AllOfAsked
          <6> QED
            BY <2>2, <4>2, <6>2
        <5>3. running # 0 => running = asked /\ Len(got') + Len(output') = printed
          BY <2>2, <4>1, <4>2 DEF AllOfAsked
        <5> QED
          BY <2>1, <4>2, <5>1, <5>2, <5>3 DEF AllOfAsked
      <4> QED
        BY <2>1, <3>1, <4>1, <4>3 DEF CalmInv
    <3> QED
      BY <3>2, <3>3, <3>4
  <2> QED
    BY <2>3, <2>4
<1>6. CASE StdoutClosed
  <2>1. /\ eval = "reading" /\ output = <<>> /\ shell = "dead" /\ eval' = "idle" /\ reply' = NoReply
        /\ UNCHANGED <<limited, asked, sessionVars, got>>
    BY <1>6 DEF StdoutClosed, Returns
  <2> QED
    BY <2>1 DEF TTypeOK, sessionVars, CalmInv, ReplyInv
<1>14. CASE ReadBreaks
  <2>1. /\ upset' = TRUE /\ eval' = "idle" /\ reply' = NoReply /\ output # <<>>
        /\ output' = Tail(output)
        /\ UNCHANGED <<limited, asked, open, shell, running, printed, input, torn, got>>
    BY <1>14 DEF ReadBreaks, Returns
  <2>2. output' \in Seq(Printed)
    BY <2>1 DEF TTypeOK
  <2> QED
    BY <2>1, <2>2 DEF TTypeOK, CalmInv, ReplyInv
<1>7. CASE EvalTimesOut \/ CallTimesOut \/ Cancel
  <2>1. /\ upset' = TRUE /\ torn' \in BOOLEAN /\ eval' = "idle" /\ reply' = NoReply
        /\ input' \in {input, Append(input, asked)}
        /\ UNCHANGED <<limited, asked, open, shell, running, printed, output, got>>
    BY <1>7 DEF EvalTimesOut, CallTimesOut, Cancel, CallDropped, Abandon, Returns, TTypeOK
  <2>2. input' \in Seq(Nat)
    <3>1. input \in Seq(Nat) /\ asked \in Nat
      BY DEF TTypeOK
    <3>2. Append(input, asked) \in Seq(Nat)
      BY <3>1
    <3> QED
      BY <2>1, <3>1, <3>2
  <2> QED
    BY <2>1, <2>2 DEF TTypeOK, CalmInv, ReplyInv
<1>8. CASE Close
  <2>1. /\ open' = FALSE /\ eval' = "closing" /\ reply' = NoReply /\ eval = "idle"
        /\ UNCHANGED <<limited, shell, running, printed, input, output, torn, upset, asked, got>>
    BY <1>8 DEF Close, Calls, Idle
  <2> QED
    BY <2>1 DEF TTypeOK, CalmInv, ReplyInv
<1>9. CASE Closed \/ CloseCancelled
  <2>1. /\ eval = "closing" /\ eval' = "idle" /\ reply' = NoReply /\ shell' = "none" /\ Fresh
        /\ UNCHANGED <<limited, asked, open, got>>
    BY <1>9 DEF Closed, CloseCancelled, Returns
  <2> QED
    BY <2>1, <1>f DEF ReplyInv, TTypeOK
<1>10. CASE Shell
  <2>1. /\ UNCHANGED <<limited, open, upset, eval, asked, got, reply>>
        /\ shell = "alive" /\ (running # 0 \/ input # <<>>)
    BY <1>10 DEF Shell, ShellTakes, ShellPrints, ShellDone, ShellSwallows, ShellExits, Shells, callVars
  <2>2. TTypeOK'
    <3>1. CASE ShellTakes
      BY <2>1, <3>1 DEF ShellTakes, TTypeOK
    <3>2. CASE ShellPrints
      <4>1. output' \in Seq(Printed)
        BY <3>2, LineAppended DEF ShellPrints, Line
      <4>2. printed' = printed + 1 /\ torn' = FALSE /\ UNCHANGED <<shell, running, input>>
        BY <3>2 DEF ShellPrints
      <4>3. printed' \in Nat
        BY <4>2 DEF TTypeOK
      <4> QED
        BY <2>1, <4>1, <4>2, <4>3 DEF TTypeOK
    <3>3. CASE ShellDone
      BY <2>1, <3>3, LineAppended DEF ShellDone, Line, TTypeOK
    <3>4. CASE ShellSwallows \/ ShellExits
      BY <2>1, <3>4 DEF ShellSwallows, ShellExits, TTypeOK
    <3> QED
      BY <1>10, <3>1, <3>2, <3>3, <3>4 DEF Shell
  <2>3. CASE upset
    BY <2>1, <2>2, <2>3 DEF CalmInv, ReplyInv
  <2>4. CASE ~upset
    <3>1. /\ ~torn /\ eval = "reading" /\ asked # 0 /\ AllOfAsked
          /\ input # <<>> => input = <<asked>> /\ output = <<>> /\ running = 0 /\ got = <<>>
      BY <2>1, <2>4 DEF CalmInv
    <3>2. ReplyInv'
      BY <2>1, <3>1 DEF ReplyInv
    <3>3. ~torn' /\ AllOfAsked'
          /\ (input' # <<>> \/ running' # 0 => shell' = "alive")
          /\ (input' # <<>> => input' = <<asked>> /\ output' = <<>> /\ running' = 0 /\ got' = <<>>)
      <4>1. CASE ShellTakes
        <5>1. /\ running' = asked /\ input' = <<>> /\ printed' = 0 /\ output' = <<>> /\ got = <<>>
              /\ UNCHANGED <<shell, torn>>
          <6>1. input = <<asked>> /\ output = <<>> /\ got = <<>>
            BY <3>1, <4>1 DEF ShellTakes
          <6>2. Head(input) = asked /\ Tail(input) = <<>>
            BY <6>1
          <6> QED
            BY <6>1, <6>2, <4>1 DEF ShellTakes
        <5> QED
          BY <2>1, <3>1, <5>1 DEF AllOfAsked
      <4>2. CASE ShellPrints \/ ShellDone
        <5>1. PICK k \in {"text", "sentinel"} : 
                 /\ output' = Append(output, [kind |-> k, eval |-> running])
                 /\ k = "text" => printed' = printed + 1 /\ running' = running
                 /\ k = "sentinel" => printed' = printed /\ running' = 0
                 /\ torn' = FALSE /\ running # 0 /\ UNCHANGED <<shell, input>>
          BY <3>1, <4>2 DEF ShellPrints, ShellDone, Line
        <5>2. input = <<>> /\ running = asked /\ Len(got) + Len(output) = printed
          BY <3>1, <5>1 DEF AllOfAsked
        <5>3. \A i \in 1..Len(output) : output[i].kind # "sentinel" /\ output[i].eval = asked
          BY <3>1, <5>1 DEF AllOfAsked
        <5>4. /\ Len(output') = Len(output) + 1 /\ Len(output) \in Nat /\ Len(got) \in Nat
              /\ output'[Len(output) + 1] = [kind |-> k, eval |-> asked]
              /\ \A i \in 1..Len(output) : output'[i] = output[i]
          BY <5>1, <5>2 DEF TTypeOK
        <5>5. AllOfAsked'
          <6>1. \A i \in 1..Len(output') : output'[i].eval = asked
            BY <5>3, <5>4
          <6>2. \A i \in 1..Len(output') : output'[i].kind = "sentinel" =>
                   i = Len(output') /\ k = "sentinel"
            BY <5>3, <5>4
          <6>3. \A i \in 1..Len(got) : got[i] = asked
            BY <3>1 DEF AllOfAsked
          <6> QED
            <7>1. printed \in Nat
              BY DEF TTypeOK
            <7>2. /\ k = "sentinel" => running' = 0 /\ Len(got') + Len(output') = printed' + 1
                  /\ running' # 0 => running' = asked' /\ Len(got') + Len(output') = printed'
              BY <2>1, <5>1, <5>2, <5>4, <7>1
            <7> QED
              BY <2>1, <6>1, <6>2, <6>3, <7>2 DEF AllOfAsked
        <5> QED
          BY <2>1, <5>1, <5>2, <5>5
      <4>3. CASE ShellSwallows \/ ShellExits
        <5>1. running # 0 /\ running' = 0 /\ UNCHANGED <<printed, input, output, torn>>
          BY <4>3 DEF ShellSwallows, ShellExits
        <5> QED
          BY <2>1, <3>1, <5>1 DEF AllOfAsked
      <4> QED
        BY <1>10, <4>1, <4>2, <4>3 DEF Shell
    <3> QED
      BY <2>1, <2>2, <2>4, <3>1, <3>2, <3>3 DEF CalmInv
  <2> QED
    BY <2>3, <2>4
<1>11. ASSUME NEW p \in Procs, ProcessKilled(p) PROVE ReplInv'
  <2>1. CASE p = Owner
    <3>1. /\ open' = FALSE /\ shell' = "none" /\ Fresh /\ eval' = "idle" /\ reply' = NoReply
          /\ UNCHANGED <<limited, asked, got>>
      BY <1>11, <2>1 DEF ProcessKilled
    <3>2. TTypeOK'
      BY <3>1 DEF TTypeOK, Fresh
    <3> QED
      BY <3>1, <3>2 DEF CalmInv, ReplyInv, Fresh
  <2>2. CASE p # Owner
    BY <1>11, <2>2, <1>r DEF ProcessKilled
  <2> QED
    BY <2>1, <2>2
<1>12. ASSUME NEW p \in Procs,
              Send(p) \/ Drain(p) \/ Lock(p) \/ LockTimesOut(p) \/ Load(p) \/ Store(p)
                \/ StoreFails(p) \/ Unlock(p)
       PROVE  ReplInv'
  BY <1>12, <1>r DEF Send, Drain, Lock, LockTimesOut, Load, Store, StoreFails, Unlock
<1>13. CASE UNCHANGED vars
  BY <1>13, <1>r DEF vars
<1> QED
  BY <1>1, <1>2, <1>3, <1>4, <1>5, <1>6, <1>7, <1>8, <1>9, <1>10, <1>11, <1>12, <1>13, <1>14
  DEF Next, Shell, Over

\* An eval that gets to its sentinel returns what its own code printed, in every
\* session in which none was given up and none broke off at a line that it could not
\* read: however many evals are made, whatever the sessions, and whether or not
\* bash answers.
THEOREM EvalsReturnTheirOwn == Spec => []OwnOutput
<1>1. Init => ReplInv
  <2> SUFFICES ASSUME Init PROVE ReplInv
    OBVIOUS
  <2>1. TTypeOK
    BY NoReplyReplies, EmptyTyped DEF Init, TTypeOK
  <2>2. CalmInv /\ ReplyInv
    BY NoReplyReplies DEF Init, CalmInv, ReplyInv
  <2> QED
    BY <2>1, <2>2 DEF ReplInv
<1>2. ReplInv /\ [Next]_vars => ReplInv'
  BY ReplStep
<1>3. ReplInv => OwnOutput
  BY DEF ReplInv, ReplyInv, OwnOutput
<1> QED
  BY <1>1, <1>2, <1>3, PTL DEF Spec

-----------------------------------------------------------------------------
\* Mailboxes

\* What a process does with its mail, as far as it is of interest.
InBox == {box[i] : i \in 1..Len(box)}
Sends(p) == mail[p].op = "send"
HasLock(p) == mail[p].stage \in {"locked", "loaded", "stored", "failed"}
Takes(p) == IF At(p, "stored") /\ mail[p].op = "drain" THEN Copied(p) ELSE {}
Taken == {m \in Nat : \E p \in Procs : m \in Takes(p)}

MTypeOK ==
    /\ lock \in Procs \cup {None} /\ box \in Seq(Nat)
    /\ mail \in [Procs -> [op : {None, "send", "drain"},
                           stage : {"idle", "locking", "locked", "loaded", "stored", "failed"},
                           msg : Nat, copy : Seq(Nat)]]
    /\ calls \in Nat /\ mailed \in Nat /\ mailed <= calls /\ calls <= MaxCalls
    /\ returned \in [1..MaxCalls -> Nat]
    /\ \A m \in InBox \cup delivered \cup refused \cup lost : m \in 1..mailed

\* Who works on the mailbox holds its lock; what it has loaded is what is there.
LockInv ==
    /\ \A p \in Procs : HasLock(p) => lock = p
    /\ \A p \in Procs : mail[p].stage = "idle" <=> mail[p].op = None
    /\ \A p \in Procs : At(p, "loaded") => mail[p].copy = box
    /\ \A p \in Procs : At(p, "stored") => IF Sends(p) THEN mail[p].msg \in InBox ELSE InBox = {}

\* A message on its way is in the mailbox once it is stored, and nowhere else.
SendInv ==
    \A p \in Procs : Sends(p) =>
        LET m == mail[p].msg IN
        /\ m \in 1..mailed /\ returned[m] = 0 /\ m \notin Taken
        /\ m \notin delivered \cup refused \cup lost
        /\ m \in InBox => At(p, "stored")
        /\ \A q \in Procs \ {p} : Sends(q) => mail[q].msg # m

\* A message is in one place at most; one that was delivered, in one.
PlaceInv ==
    /\ \A m \in 1..MaxCalls :
          /\ returned[m] \in {0, 1}
          /\ returned[m] = 1 => m \notin InBox \cup lost /\ m \notin Taken /\ m <= mailed
          /\ m \in lost => m \notin InBox /\ m \notin Taken
          /\ m \in delivered => returned[m] = 1 \/ m \in InBox \cup lost \/ m \in Taken
          /\ m \in refused => returned[m] = 0 /\ m \notin InBox \cup lost /\ m \notin Taken
    /\ \A m : m \in Taken => m \in 1..mailed
    /\ \A i, j \in 1..Len(box) : box[i] = box[j] => i = j

MailInv == MTypeOK /\ LockInv /\ SendInv /\ PlaceInv

\* The rest of the tools neither read nor write mail.
LEMMA MailApart ==
    ASSUME MailInv, UNCHANGED <<lock, box, mail, mailed, delivered, refused, returned, lost>>,
           calls' \in Nat, calls <= calls', calls' <= MaxCalls
    PROVE  MailInv'
<1>1. MTypeOK'
  BY ToolsAssumption DEF MailInv, MTypeOK, InBox
<1>2. /\ InBox' = InBox /\ Taken' = Taken
      /\ \A p \in Procs : (HasLock(p)' <=> HasLock(p)) /\ (Sends(p)' <=> Sends(p))
  BY DEF InBox, Sends, HasLock, Takes, Taken, At, Copied
<1>3. LockInv'
  BY <1>2 DEF MailInv, LockInv, At
<1>4. SendInv'
  BY <1>2 DEF MailInv, SendInv, At
<1>5. PlaceInv'
  BY <1>2 DEF MailInv, PlaceInv
<1> QED
  BY <1>1, <1>3, <1>4, <1>5 DEF MailInv

\* p goes on with its call, or ends it; the others stay where they are.
LEMMA OneGoesOn ==
    ASSUME MTypeOK, NEW p \in Procs, NEW c, mail' = [mail EXCEPT ![p] = c]
    PROVE  /\ mail'[p] = c
           /\ \A q \in Procs \ {p} :
                 /\ mail'[q] = mail[q] /\ HasLock(q)' = HasLock(q) /\ Sends(q)' = Sends(q)
                 /\ Takes(q)' = Takes(q)
           /\ Sends(p)' <=> c.op = "send"
           /\ HasLock(p)' <=> c.stage \in {"locked", "loaded", "stored", "failed"}
           /\ Takes(p)' = IF c.stage = "stored" /\ c.op = "drain"
                          THEN {c.copy[i] : i \in 1..Len(c.copy)} ELSE {}
<1>1. mail'[p] = c /\ \A q \in Procs \ {p} : mail'[q] = mail[q]
  BY DEF MTypeOK
<1>2. \A q \in Procs \ {p} : HasLock(q)' = HasLock(q) /\ Sends(q)' = Sends(q) /\ Takes(q)' = Takes(q)
  BY <1>1 DEF HasLock, Sends, Takes, At, Copied
<1>3. (Sends(p)' <=> c.op = "send") /\ (HasLock(p)' <=> c.stage \in {"locked", "loaded", "stored", "failed"})
  BY <1>1 DEF HasLock, Sends
<1>4. Takes(p)' = IF c.stage = "stored" /\ c.op = "drain" THEN {c.copy[i] : i \in 1..Len(c.copy)} ELSE {}
  BY <1>1 DEF Takes, At, Copied
<1> QED
  BY <1>1, <1>2, <1>3, <1>4

\* While p has the lock nobody else takes anything.
LEMMA AloneWithLock ==
    ASSUME LockInv, NEW p \in Procs, HasLock(p)
    PROVE  \A q \in Procs \ {p} : ~HasLock(q) /\ ~At(q, "stored") /\ Takes(q) = {}
  BY DEF LockInv, HasLock, Takes, At

LEMMA Counted == ASSUME MTypeOK PROVE \A m \in 1..mailed : m \in 1..MaxCalls /\ m \in Nat
<1>1. MaxCalls \in Nat /\ mailed \in Nat /\ mailed <= MaxCalls
  BY ToolsAssumption DEF MTypeOK
<1> QED
  BY <1>1

LEMMA TakesNumbers == ASSUME MTypeOK, NEW p \in Procs PROVE Takes(p) \subseteq Nat
<1>1. mail[p].copy \in Seq(Nat)
  BY DEF MTypeOK
<1> QED
  BY <1>1 DEF Takes, Copied

LEMMA MailStep ==
    ASSUME MailInv, [Next]_vars
    PROVE  MailInv'
<1> USE ToolsAssumption DEF MailInv
<1>1. ASSUME NEW p \in Procs, Send(p) \/ Drain(p) PROVE MailInv'
  <2>1. PICK op \in {"send", "drain"} :
           /\ mail' = [mail EXCEPT ![p] = [op |-> op, stage |-> "locking",
                          msg |-> IF op = "send" THEN mailed + 1 ELSE 0, copy |-> <<>>]]
           /\ mailed' = IF op = "send" THEN mailed + 1 ELSE mailed
           /\ calls' = calls + 1 /\ calls' <= MaxCalls /\ mail[p].stage = "idle"
           /\ UNCHANGED <<lock, box, delivered, refused, returned, lost>>
    <3>1. CASE Send(p)
      BY <3>1 DEF Send, Begins, Calls, Idle, ghosts, MTypeOK
    <3>2. CASE Drain(p)
      BY <3>2 DEF Drain, Begins, Calls, Idle, ghosts, MTypeOK
    <3> QED
      BY <1>1, <3>1, <3>2
  <2> DEFINE c == [op |-> op, stage |-> "locking",
                   msg |-> IF op = "send" THEN mailed + 1 ELSE 0, copy |-> <<>>]
  <2>a. /\ c.op = op /\ c.stage = "locking" /\ (op = "send" => c.msg = mailed + 1)
        /\ mail' = [mail EXCEPT ![p] = c]
    BY <2>1
  <2> HIDE DEF c
  <2>2. /\ mail'[p] = c
        /\ \A q \in Procs \ {p} :
              /\ mail'[q] = mail[q] /\ HasLock(q)' = HasLock(q) /\ Sends(q)' = Sends(q)
              /\ Takes(q)' = Takes(q)
        /\ (Sends(p)' <=> op = "send") /\ ~HasLock(p)' /\ Takes(p)' = {}
    BY <2>a, OneGoesOn
  <2>3. ~HasLock(p) /\ ~Sends(p) /\ InBox' = InBox /\ Takes(p) = {}
    <3>1. mail[p].op = None /\ mail[p].stage = "idle"
      BY <2>1 DEF LockInv
    <3> QED
      BY <2>1, <3>1 DEF HasLock, Sends, Takes, At, InBox, None
  <2>4. Taken' = Taken
    BY <2>2, <2>3 DEF Taken
  <2>5. MTypeOK'
    <3>1. mailed \in Nat /\ mailed' \in Nat /\ mailed' <= calls' /\ mailed <= mailed'
      <4>1. mailed \in Nat /\ calls \in Nat /\ mailed <= calls
        BY DEF MTypeOK
      <4>2. mailed' \in {mailed, mailed + 1} /\ calls' = calls + 1
        BY <2>1
      <4> QED
        BY <4>1, <4>2
    <3>2. c \in [op : {None, "send", "drain"},
                 stage : {"idle", "locking", "locked", "loaded", "stored", "failed"},
                 msg : Nat, copy : Seq(Nat)]
      BY <3>1, EmptyTyped DEF c
    <3>3. \A m \in InBox' \cup delivered' \cup refused' \cup lost' : m \in 1..mailed'
      BY <2>1, <2>3, <3>1 DEF MTypeOK
    <3> QED
      <4>1. calls' \in Nat /\ calls' <= MaxCalls
        BY <2>1 DEF MTypeOK
      <4>2. mail' \in [Procs -> [op : {None, "send", "drain"},
                                stage : {"idle", "locking", "locked", "loaded", "stored", "failed"},
                                msg : Nat, copy : Seq(Nat)]]
        BY <2>a, <3>2 DEF MTypeOK
      <4> QED
        BY <2>1, <3>1, <3>3, <4>1, <4>2 DEF MTypeOK
  <2>6. LockInv'
    <3>1. \A q \in Procs : HasLock(q)' => lock' = q
      BY <2>1, <2>2 DEF LockInv
    <3>2. \A q \in Procs : mail'[q].stage = "idle" <=> mail'[q].op = None
      BY <2>2, <2>a DEF LockInv, None
    <3>3. \A q \in Procs : mail'[q].stage = "loaded" => mail'[q].copy = box'
      BY <2>1, <2>2, <2>a DEF LockInv, At
    <3>4. \A q \in Procs : mail'[q].stage = "stored" =>
             IF Sends(q)' THEN mail'[q].msg \in InBox' ELSE InBox' = {}
      BY <2>2, <2>3, <2>a DEF LockInv, At
    <3> QED
      BY <3>1, <3>2, <3>3, <3>4 DEF LockInv, At
  <2>7. SendInv'
    <3>1. ASSUME op = "send"
          PROVE  LET m == mailed + 1 IN
                 /\ m \in 1..mailed' /\ returned'[m] = 0 /\ m \notin Taken'
                 /\ m \notin delivered' \cup refused' \cup lost' \cup InBox'
                 /\ \A q \in Procs : Sends(q) => mail[q].msg # m
      <4>1. mailed + 1 \in 1..MaxCalls /\ mailed + 1 \notin 1..mailed
        BY <2>1 DEF MTypeOK
      <4>2. returned[mailed + 1] = 0
        BY <4>1 DEF PlaceInv
      <4>3. mailed + 1 \notin Taken /\ mailed + 1 \notin delivered \cup refused \cup lost \cup InBox
        BY <4>1 DEF PlaceInv, MTypeOK
      <4>4. \A q \in Procs : Sends(q) => mail[q].msg # mailed + 1
        BY <4>1 DEF SendInv
      <4>5. mailed + 1 \in 1..mailed'
        BY <2>1, <3>1, <4>1 DEF MTypeOK
      <4>6. mailed + 1 \notin Taken' /\ returned'[mailed + 1] = 0
        BY <2>1, <2>4, <4>2, <4>3
      <4>7. mailed + 1 \notin delivered' \cup refused' \cup lost' \cup InBox'
        BY <2>1, <2>3, <4>3
      <4> QED
        BY <4>4, <4>5, <4>6, <4>7
    <3>2. \A m \in 1..mailed : m \in 1..mailed'
      BY <2>1 DEF MTypeOK
    <3>3. ASSUME NEW q \in Procs \ {p}, Sends(q)
          PROVE  LET m == mail[q].msg IN
                 /\ m \in 1..mailed' /\ returned'[m] = 0 /\ m \notin Taken'
                 /\ m \notin delivered' \cup refused' \cup lost'
                 /\ m \in InBox' => mail[q].stage = "stored"
                 /\ \A s \in Procs \ {q} : Sends(s) => mail[s].msg # m
      BY <2>1, <2>3, <2>4, <3>2, <3>3 DEF SendInv, At
    <3> SUFFICES ASSUME NEW q \in Procs, Sends(q)'
                 PROVE  LET m == mail'[q].msg IN
                        /\ m \in 1..mailed' /\ returned'[m] = 0 /\ m \notin Taken'
                        /\ m \notin delivered' \cup refused' \cup lost'
                        /\ m \in InBox' => mail'[q].stage = "stored"
                        /\ \A s \in Procs \ {q} : Sends(s)' => mail'[s].msg # m
      BY DEF SendInv, At
    <3>4. CASE q = p
      <4>1. op = "send" /\ mail'[q].msg = mailed + 1
        BY <2>2, <2>a, <3>4
      <4>2. \A s \in Procs \ {q} : Sends(s)' => mail'[s].msg # mailed + 1
        BY <2>2, <3>1, <3>4, <4>1
      <4> QED
        BY <3>1, <4>1, <4>2
    <3>5. CASE q # p
      <4>1. Sends(q) /\ mail'[q] = mail[q]
        BY <2>2, <3>5
      <4>2. \A s \in Procs \ {q} : Sends(s)' => mail'[s].msg # mail[q].msg
        <5>1. ASSUME Sends(p)' PROVE mail'[p].msg # mail[q].msg
          BY <2>2, <2>a, <3>1, <4>1, <5>1
        <5> QED
          BY <2>2, <3>3, <3>5, <4>1, <5>1
      <4> QED
        BY <3>3, <3>5, <4>1, <4>2
    <3> QED
      BY <3>4, <3>5
  <2>8. PlaceInv'
    <3>1. \A m \in 1..MaxCalls : m <= mailed => m <= mailed'
      BY <2>1 DEF MTypeOK
    <3>2. \A m \in 1..mailed : m \in 1..mailed'
      BY <2>1 DEF MTypeOK
    <3> QED
      BY <2>1, <2>3, <2>4, <3>1, <3>2 DEF PlaceInv
  <2> QED
    BY <2>5, <2>6, <2>7, <2>8
<1>2. ASSUME NEW p \in Procs, Lock(p) PROVE MailInv'
  <2> DEFINE c == [mail[p] EXCEPT !.stage = "locked"]
  <2>1. /\ mail' = [mail EXCEPT ![p] = c] /\ At(p, "locking") /\ lock = None /\ lock' = p
        /\ UNCHANGED <<box, calls, mailed, delivered, refused, returned, lost>>
    BY <1>2 DEF Lock, Goes, counts, ghosts, MTypeOK
  <2>2. /\ c.op = mail[p].op /\ c.msg = mail[p].msg /\ c.stage = "locked" /\ c.copy = mail[p].copy
        /\ c \in [op : {None, "send", "drain"},
                  stage : {"idle", "locking", "locked", "loaded", "stored", "failed"},
                  msg : Nat, copy : Seq(Nat)]
    BY DEF MTypeOK
  <2> HIDE DEF c
  <2>3. /\ mail'[p] = c
        /\ \A q \in Procs \ {p} :
              /\ mail'[q] = mail[q] /\ HasLock(q)' = HasLock(q) /\ Sends(q)' = Sends(q)
              /\ Takes(q)' = Takes(q)
        /\ Sends(p)' = Sends(p) /\ HasLock(p)' /\ Takes(p)' = {}
    <3>1. /\ mail'[p] = c
          /\ \A q \in Procs \ {p} :
                /\ mail'[q] = mail[q] /\ HasLock(q)' = HasLock(q) /\ Sends(q)' = Sends(q)
                /\ Takes(q)' = Takes(q)
          /\ Sends(p)' <=> c.op = "send"
          /\ HasLock(p)' <=> c.stage \in {"locked", "loaded", "stored", "failed"}
          /\ Takes(p)' = IF c.stage = "stored" /\ c.op = "drain"
                         THEN {c.copy[i] : i \in 1..Len(c.copy)} ELSE {}
      BY <2>1, OneGoesOn
    <3> QED
      BY <2>2, <3>1 DEF Sends
  <2>4. InBox' = InBox /\ Takes(p) = {} /\ \A q \in Procs : ~HasLock(q)
    BY <2>1 DEF LockInv, Takes, At, InBox
  <2>5. Taken' = Taken
    BY <2>3, <2>4 DEF Taken
  <2>6. MTypeOK'
    BY <2>1, <2>2, <2>4 DEF MTypeOK
  <2>7. LockInv'
    BY <2>1, <2>2, <2>3, <2>4 DEF LockInv, At
  <2>8. SendInv'
    BY <2>1, <2>2, <2>3, <2>4, <2>5 DEF SendInv, At
  <2>9. PlaceInv'
    BY <2>1, <2>4, <2>5 DEF PlaceInv
  <2> QED
    BY <2>6, <2>7, <2>8, <2>9
<1>3. ASSUME NEW p \in Procs, LockTimesOut(p) PROVE MailInv'
  <2>1. /\ mail' = [mail EXCEPT ![p] = NoCall] /\ At(p, "locking") /\ refused' = Refused(p)
        /\ UNCHANGED <<lock, box, calls, mailed, delivered, returned, lost>>
    BY <1>3 DEF LockTimesOut, counts
  <2>3. /\ mail'[p] = NoCall
        /\ \A q \in Procs \ {p} :
              /\ mail'[q] = mail[q] /\ HasLock(q)' = HasLock(q) /\ Sends(q)' = Sends(q)
              /\ Takes(q)' = Takes(q)
        /\ ~Sends(p)' /\ ~HasLock(p)' /\ Takes(p)' = {}
    BY <2>1, OneGoesOn DEF NoCall, None
  <2>4. InBox' = InBox /\ Takes(p) = {} /\ ~HasLock(p)
    BY <2>1 DEF LockInv, Takes, At, InBox, HasLock
  <2>5. Taken' = Taken
    BY <2>3, <2>4 DEF Taken
  <2>6. MTypeOK'
    BY <2>1, <2>4 DEF MTypeOK, NoCall, Refused, SendInv, Sends
  <2>7. LockInv'
    BY <2>1, <2>3, <2>4 DEF LockInv, At, NoCall, None
  <2>8. SendInv'
    BY <2>1, <2>3, <2>4, <2>5 DEF SendInv, At, Refused, Sends
  <2>9. PlaceInv'
    BY <2>1, <2>4, <2>5 DEF PlaceInv, Refused, SendInv, Sends, At
  <2> QED
    BY <2>6, <2>7, <2>8, <2>9
<1>4. ASSUME NEW p \in Procs, Load(p) PROVE MailInv'
  <2> DEFINE c == [mail[p] EXCEPT !.stage = "loaded", !.copy = box]
  <2>1. /\ mail' = [mail EXCEPT ![p] = c] /\ At(p, "locked")
        /\ UNCHANGED <<lock, box, calls, mailed, delivered, refused, returned, lost>>
    BY <1>4 DEF Load, counts, ghosts, MTypeOK
  <2>2. /\ c.op = mail[p].op /\ c.msg = mail[p].msg /\ c.stage = "loaded" /\ c.copy = box
        /\ c \in [op : {None, "send", "drain"},
                  stage : {"idle", "locking", "locked", "loaded", "stored", "failed"},
                  msg : Nat, copy : Seq(Nat)]
    BY DEF MTypeOK
  <2> HIDE DEF c
  <2>3. /\ mail'[p] = c
        /\ \A q \in Procs \ {p} :
              /\ mail'[q] = mail[q] /\ HasLock(q)' = HasLock(q) /\ Sends(q)' = Sends(q)
              /\ Takes(q)' = Takes(q)
        /\ Sends(p)' = Sends(p) /\ HasLock(p)' /\ Takes(p)' = {}
    <3>1. /\ mail'[p] = c
          /\ \A q \in Procs \ {p} :
                /\ mail'[q] = mail[q] /\ HasLock(q)' = HasLock(q) /\ Sends(q)' = Sends(q)
                /\ Takes(q)' = Takes(q)
          /\ Sends(p)' <=> c.op = "send"
          /\ HasLock(p)' <=> c.stage \in {"locked", "loaded", "stored", "failed"}
          /\ Takes(p)' = IF c.stage = "stored" /\ c.op = "drain"
                         THEN {c.copy[i] : i \in 1..Len(c.copy)} ELSE {}
      BY <2>1, OneGoesOn
    <3> QED
      BY <2>2, <3>1 DEF Sends
  <2>4. InBox' = InBox /\ Takes(p) = {} /\ HasLock(p)
    BY <2>1 DEF Takes, At, InBox, HasLock
  <2>5. Taken' = Taken
    BY <2>3, <2>4 DEF Taken
  <2>6. MTypeOK'
    BY <2>1, <2>2, <2>4 DEF MTypeOK
  <2>7. LockInv'
    BY <2>1, <2>2, <2>3, <2>4 DEF LockInv, At
  <2>8. SendInv'
    BY <2>1, <2>2, <2>3, <2>4, <2>5 DEF SendInv, At
  <2>9. PlaceInv'
    BY <2>1, <2>4, <2>5 DEF PlaceInv
  <2> QED
    BY <2>6, <2>7, <2>8, <2>9
<1>5. ASSUME NEW p \in Procs, Store(p) \/ StoreFails(p) PROVE MailInv'
  <2>1. PICK now \in {"stored", "failed"} :
           /\ mail' = [mail EXCEPT ![p] = [mail[p] EXCEPT !.stage = now]]
           /\ At(p, "loaded")
           /\ box' = IF now = "failed" THEN box
                     ELSE IF mail[p].op = "send" THEN Append(mail[p].copy, mail[p].msg) ELSE <<>>
           /\ UNCHANGED <<lock, calls, mailed, delivered, refused, returned, lost>>
    BY <1>5 DEF Store, StoreFails, Goes, counts, ghosts, MTypeOK
  <2> DEFINE c == [mail[p] EXCEPT !.stage = now]
             Sent == now = "stored" /\ Sends(p)
             Emptied == now = "stored" /\ ~Sends(p)
  <2>2. /\ c.op = mail[p].op /\ c.msg = mail[p].msg /\ c.stage = now /\ c.copy = mail[p].copy
        /\ c \in [op : {None, "send", "drain"},
                  stage : {"idle", "locking", "locked", "loaded", "stored", "failed"},
                  msg : Nat, copy : Seq(Nat)]
        /\ mail' = [mail EXCEPT ![p] = c]
    BY <2>1 DEF MTypeOK
  <2> HIDE DEF c
  <2>3. HasLock(p) /\ mail[p].copy = box /\ lock = p /\ mail[p].op # None /\ box \in Seq(Nat)
        /\ mail[p].msg \in Nat
    BY <2>1 DEF LockInv, HasLock, At, MTypeOK
  <2>4. /\ mail'[p] = c
        /\ \A q \in Procs \ {p} :
              /\ mail'[q] = mail[q] /\ HasLock(q)' = HasLock(q) /\ Sends(q)' = Sends(q)
              /\ Takes(q)' = Takes(q)
        /\ Sends(p)' = Sends(p) /\ HasLock(p)'
        /\ Takes(p)' = IF c.stage = "stored" /\ c.op = "drain"
                       THEN {c.copy[i] : i \in 1..Len(c.copy)} ELSE {}
    <3>1. /\ mail'[p] = c
          /\ \A q \in Procs \ {p} :
                /\ mail'[q] = mail[q] /\ HasLock(q)' = HasLock(q) /\ Sends(q)' = Sends(q)
                /\ Takes(q)' = Takes(q)
          /\ Sends(p)' <=> c.op = "send"
          /\ HasLock(p)' <=> c.stage \in {"locked", "loaded", "stored", "failed"}
          /\ Takes(p)' = IF c.stage = "stored" /\ c.op = "drain"
                         THEN {c.copy[i] : i \in 1..Len(c.copy)} ELSE {}
      BY <2>2, OneGoesOn
    <3> QED
      BY <2>2, <3>1 DEF Sends
  <2>5. /\ \A q \in Procs \ {p} : ~HasLock(q) /\ ~At(q, "stored") /\ Takes(q) = {}
        /\ Takes(p) = {}
    BY <2>1, <2>3, AloneWithLock DEF Takes, At
  <2>6. Taken = {} /\ Taken' = IF Emptied THEN InBox ELSE {}
    <3>1. InBox \subseteq Nat
      BY <2>3 DEF InBox
    <3>2. Takes(p)' = IF Emptied THEN InBox ELSE {}
      <4>1. c.stage = "stored" /\ c.op = "drain" <=> Emptied
        BY <2>2, <2>3 DEF Sends, MTypeOK
      <4>2. c.copy = box
        BY <2>2, <2>3
      <4> QED
        BY <2>4, <4>1, <4>2 DEF InBox
    <3>3. \A q \in Procs \ {p} : Takes(q)' = {}
      BY <2>4, <2>5
    <3> QED
      BY <2>5, <3>1, <3>2, <3>3 DEF Taken
  <2>7. /\ InBox' = IF Sent THEN InBox \cup {mail[p].msg} ELSE IF Emptied THEN {} ELSE InBox
        /\ box' \in Seq(Nat)
        /\ Sent => /\ Len(box') = Len(box) + 1 /\ box'[Len(box) + 1] = mail[p].msg
                   /\ \A i \in 1..Len(box) : box'[i] = box[i]
        /\ Emptied => Len(box') = 0
        /\ now = "failed" => box' = box
    <3>1. CASE Sent
      <4>1. box' = Append(box, mail[p].msg)
        BY <2>1, <2>3, <3>1 DEF Sends
      <4> QED
        BY <2>3, <3>1, <4>1 DEF InBox
    <3>2. CASE Emptied
      <4>1. box' = <<>>
        BY <2>1, <3>2 DEF Sends
      <4> QED
        BY <3>2, <4>1 DEF InBox
    <3>3. CASE now = "failed"
      BY <2>1, <2>3, <3>3 DEF InBox
    <3> QED
      BY <3>1, <3>2, <3>3
  <2>8. Sends(p) => mail[p].msg \in 1..mailed /\ mail[p].msg \notin InBox
    BY <2>1 DEF SendInv, At
  <2>9. MTypeOK'
    <3>1. mail' \in [Procs -> [op : {None, "send", "drain"},
                              stage : {"idle", "locking", "locked", "loaded", "stored", "failed"},
                              msg : Nat, copy : Seq(Nat)]]
      BY <2>2 DEF MTypeOK
    <3>2. \A m \in InBox' : m \in 1..mailed
      BY <2>7, <2>8 DEF MTypeOK
    <3> QED
      BY <2>1, <2>7, <3>1, <3>2 DEF MTypeOK
  <2>10. LockInv'
    <3>1. \A q \in Procs : HasLock(q)' => lock' = q
      BY <2>1, <2>3, <2>4 DEF LockInv
    <3>2. \A q \in Procs : mail'[q].stage = "idle" <=> mail'[q].op = None
      BY <2>1, <2>2, <2>3, <2>4 DEF LockInv
    <3>3. \A q \in Procs : mail'[q].stage \notin {"loaded", "stored"} \/ q = p
      BY <2>4, <2>5 DEF HasLock
    <3>4. c.stage # "loaded" /\ (c.stage = "stored" => IF Sends(p)' THEN c.msg \in InBox' ELSE InBox' = {})
      BY <2>1, <2>2, <2>4, <2>7
    <3> QED
      BY <2>4, <3>1, <3>2, <3>3, <3>4 DEF LockInv, At
  <2>11. SendInv'
    <3>1. ASSUME NEW q \in Procs \ {p}, Sends(q) PROVE mail[q].msg \notin InBox' /\ mail[q].msg \notin Taken'
      <4>1. mail[q].msg \notin InBox
        BY <2>5, <3>1 DEF SendInv
      <4>2. Sends(p) => mail[q].msg # mail[p].msg
        BY <3>1 DEF SendInv
      <4> QED
        BY <2>6, <2>7, <4>1, <4>2
    <3>2. Sends(p) => mail[p].msg \notin Taken' /\ (mail[p].msg \in InBox' => now = "stored")
      BY <2>1, <2>6, <2>7, <2>8
    <3>3. \A q \in Procs : mail'[q].msg = mail[q].msg /\ Sends(q)' = Sends(q)
      BY <2>2, <2>4
    <3> QED
      BY <2>1, <2>2, <2>4, <3>1, <3>2, <3>3 DEF SendInv, At
  <2>12. PlaceInv'
    <3>1. \A i, j \in 1..Len(box') : box'[i] = box'[j] => i = j
      <4>1. CASE Sent
        <5>1. \A i \in 1..Len(box) : box[i] # mail[p].msg
          BY <2>8, <4>1 DEF InBox
        <5>2. Len(box) \in Nat
          BY <2>3
        <5>3. \A i \in 1..Len(box') : i \in 1..Len(box) \/ i = Len(box) + 1
          BY <2>7, <4>1, <5>2
        <5>4. \A i \in 1..Len(box) : box'[i] = box[i] /\ box'[Len(box) + 1] = mail[p].msg
          BY <2>7, <4>1
        <5>5. ASSUME NEW i \in 1..Len(box'), NEW j \in 1..Len(box'), box'[i] = box'[j]
              PROVE  i = j
          <6>1. CASE i \in 1..Len(box) /\ j \in 1..Len(box)
            BY <5>4, <5>5, <6>1 DEF PlaceInv
          <6>2. CASE i \in 1..Len(box) /\ j = Len(box) + 1
            BY <5>1, <5>4, <5>5, <6>2
          <6>3. CASE i = Len(box) + 1 /\ j \in 1..Len(box)
            BY <5>1, <5>4, <5>5, <6>3
          <6> QED
            BY <5>3, <6>1, <6>2, <6>3
        <5> QED
          BY <5>5
      <4>2. CASE ~Sent
        BY <2>1, <2>7, <4>2 DEF PlaceInv
      <4> QED
        BY <4>1, <4>2
    <3>2. \A m : m \in Taken' => m \in 1..mailed'
      BY <2>1, <2>6 DEF MTypeOK
    <3>3. ASSUME NEW m \in 1..MaxCalls
          PROVE  /\ returned'[m] \in {0, 1}
                 /\ returned'[m] = 1 => m \notin InBox' \cup lost' /\ m \notin Taken' /\ m <= mailed'
                 /\ m \in lost' => m \notin InBox' /\ m \notin Taken'
                 /\ m \in delivered' => returned'[m] = 1 \/ m \in InBox' \cup lost' \/ m \in Taken'
                 /\ m \in refused' => returned'[m] = 0 /\ m \notin InBox' \cup lost' /\ m \notin Taken'
      <4>1. /\ returned[m] \in {0, 1}
            /\ returned[m] = 1 => m \notin InBox \cup lost /\ m <= mailed
            /\ m \in lost => m \notin InBox
            /\ m \in delivered => returned[m] = 1 \/ m \in InBox \cup lost
            /\ m \in refused => returned[m] = 0 /\ m \notin InBox \cup lost
        BY <2>6 DEF PlaceInv
      <4>2. Sends(p) /\ m = mail[p].msg => returned[m] = 0 /\ m \notin delivered \cup refused \cup lost
        BY DEF SendInv
      <4>3. m \in InBox' \/ m \in Taken' => m \in InBox \/ (Sent /\ m = mail[p].msg)
        BY <2>6, <2>7
      <4>4. m \in InBox => m \in InBox' \/ m \in Taken'
        BY <2>1, <2>6, <2>7
      <4> QED
        BY <2>1, <4>1, <4>2, <4>3, <4>4
    <3> QED
      BY <3>1, <3>2, <3>3 DEF PlaceInv
  <2> QED
    BY <2>9, <2>10, <2>11, <2>12
<1>6. ASSUME NEW p \in Procs, Unlock(p) \/ ProcessKilled(p) PROVE MailInv'
  <2> DEFINE Ended == mail[p].stage
  <2>1. /\ mail' = [mail EXCEPT ![p] = NoCall] /\ UNCHANGED <<box, calls, mailed>>
        /\ lock' = lock \/ (lock' = None /\ HasLock(p))
        /\ \/ /\ ProcessKilled(p) /\ UNCHANGED <<delivered, refused, returned>>
              /\ \A m : m \in lost' <=> m \in lost \/ m \in Takes(p)
           \/ /\ Unlock(p) /\ lost' = lost
              /\ mail[p].stage \in {"stored", "failed"}
              /\ \A m : m \in refused' <=> m \in refused \/ (At(p, "failed") /\ Sends(p) /\ m = mail[p].msg)
              /\ \A m : m \in delivered' <=>
                      m \in delivered \/ (At(p, "stored") /\ Sends(p) /\ m = mail[p].msg)
              /\ returned' \in [1..MaxCalls -> Nat]
              /\ \A m \in 1..MaxCalls : returned'[m] = IF m \in Takes(p) THEN returned[m] + 1 ELSE returned[m]
    <3>1. CASE ProcessKilled(p)
      BY <3>1 DEF ProcessKilled, LockInv, Takes
    <3>2. CASE Unlock(p)
      <4>1. /\ mail' = [mail EXCEPT ![p] = NoCall] /\ UNCHANGED <<box, calls, mailed>>
            /\ lock' = None /\ HasLock(p) /\ lost' = lost /\ mail[p].stage \in {"stored", "failed"}
        BY <3>2 DEF Unlock, counts, HasLock
      <4>2. \A m : m \in refused' <=> m \in refused \/ (At(p, "failed") /\ Sends(p) /\ m = mail[p].msg)
        BY <3>2 DEF Unlock, Refused, At, Sends
      <4>3. \A m : m \in delivered' <=>
                      m \in delivered \/ (At(p, "stored") /\ Sends(p) /\ m = mail[p].msg)
        BY <3>2 DEF Unlock, At, Sends
      <4>4. /\ returned' \in [1..MaxCalls -> Nat]
            /\ \A m \in 1..MaxCalls : returned'[m] = IF m \in Takes(p) THEN returned[m] + 1 ELSE returned[m]
        <5>1. DOMAIN returned = 1..MaxCalls /\ \A m \in 1..MaxCalls : returned[m] \in Nat
          BY DEF MTypeOK
        <5>2. CASE At(p, "stored") /\ mail[p].op = "drain"
          <6>1. returned' = [m \in 1..MaxCalls |-> returned[m] + IF m \in Copied(p) THEN 1 ELSE 0]
            BY <3>2, <5>1, <5>2 DEF Unlock, At
          <6> QED
            BY <5>1, <5>2, <6>1 DEF Takes
        <5>3. CASE ~(At(p, "stored") /\ mail[p].op = "drain")
          BY <3>2, <5>3 DEF Unlock, At, Takes, MTypeOK
        <5> QED
          BY <5>2, <5>3
      <4> QED
        BY <3>2, <4>1, <4>2, <4>3, <4>4
    <3> QED
      BY <1>6, <3>1, <3>2
  <2>2. /\ mail'[p] = NoCall
        /\ \A q \in Procs \ {p} :
              /\ mail'[q] = mail[q] /\ HasLock(q)' = HasLock(q) /\ Sends(q)' = Sends(q)
              /\ Takes(q)' = Takes(q)
        /\ ~Sends(p)' /\ ~HasLock(p)' /\ Takes(p)' = {}
    BY <2>1, OneGoesOn DEF NoCall, None
  <2>3. InBox' = InBox
    BY <2>1 DEF InBox
  <2>4. \A m : m \in Takes(p) => /\ \A q \in Procs \ {p} : m \notin Takes(q)
                              /\ InBox = {} /\ m \in Taken
    <3>1. ASSUME NEW m, m \in Takes(p) PROVE HasLock(p) /\ InBox = {}
      BY <3>1 DEF Takes, At, HasLock, LockInv, Sends
    <3> QED
      BY <3>1, AloneWithLock, TakesNumbers DEF Taken
  <2>5. \A m : (m \in Taken' => m \in Taken) /\ (m \in Taken /\ m \notin Taken' => m \in Takes(p))
               /\ (m \in Takes(p) => m \notin Taken')
    BY <2>2, <2>4 DEF Taken
  <2>6. MTypeOK'
    <3>1. mail' \in [Procs -> [op : {None, "send", "drain"},
                              stage : {"idle", "locking", "locked", "loaded", "stored", "failed"},
                              msg : Nat, copy : Seq(Nat)]]
      BY <2>1 DEF MTypeOK, NoCall
    <3>2. \A m : m \in refused' \cup delivered' \cup lost' => m \in 1..mailed
      <4>1. \A m : m \in Takes(p) => m \in 1..mailed
        BY <2>4 DEF PlaceInv
      <4>2. Sends(p) => mail[p].msg \in 1..mailed
        BY DEF SendInv
      <4> QED
        BY <2>1, <4>1, <4>2 DEF MTypeOK
    <3>3. returned' \in [1..MaxCalls -> Nat] /\ lock' \in Procs \cup {None}
      BY <2>1 DEF MTypeOK
    <3> QED
      BY <2>1, <2>3, <3>1, <3>2, <3>3 DEF MTypeOK
  <2>7. LockInv'
    <3>1. \A q \in Procs : HasLock(q)' => lock' = q
      BY <2>1, <2>2, AloneWithLock DEF LockInv
    <3> QED
      BY <2>1, <2>2, <2>3, <3>1 DEF LockInv, At, NoCall, None
  <2>8. SendInv'
    <3>1. ASSUME NEW q \in Procs \ {p}, Sends(q)
          PROVE  LET m == mail[q].msg IN
                 /\ m \in 1..mailed /\ returned'[m] = 0 /\ m \notin Taken'
                 /\ m \notin delivered' \cup refused' \cup lost'
      <4> DEFINE m == mail[q].msg
      <4>1. /\ m \in 1..mailed /\ returned[m] = 0 /\ m \notin Taken
            /\ m \notin delivered \cup refused \cup lost
            /\ Sends(p) => mail[p].msg # m
        BY <3>1 DEF SendInv
      <4>2. m \notin Takes(p) /\ m \notin Taken' /\ m \in 1..MaxCalls
        BY <2>5, <4>1, Counted DEF Taken
      <4> QED
        BY <2>1, <4>1, <4>2
    <3> QED
      BY <2>1, <2>2, <2>3, <3>1 DEF SendInv, At
  <2>9. PlaceInv'
    <3>1. ASSUME NEW m \in 1..MaxCalls
          PROVE  /\ returned'[m] \in {0, 1}
                 /\ returned'[m] = 1 => m \notin InBox' \cup lost' /\ m \notin Taken' /\ m <= mailed'
                 /\ m \in lost' => m \notin InBox' /\ m \notin Taken'
                 /\ m \in delivered' => returned'[m] = 1 \/ m \in InBox' \cup lost' \/ m \in Taken'
                 /\ m \in refused' => returned'[m] = 0 /\ m \notin InBox' \cup lost' /\ m \notin Taken'
      <4>1. /\ returned[m] \in {0, 1}
            /\ returned[m] = 1 => m \notin InBox \cup lost /\ m \notin Taken /\ m <= mailed
            /\ m \in lost => m \notin InBox /\ m \notin Taken
            /\ m \in delivered => returned[m] = 1 \/ m \in InBox \cup lost \/ m \in Taken
            /\ m \in refused => returned[m] = 0 /\ m \notin InBox \cup lost /\ m \notin Taken
        BY DEF PlaceInv
      <4>2. CASE m \in Takes(p)
        <5>1. m \in Taken /\ m \notin InBox /\ m \notin Taken' /\ m <= mailed /\ m \notin lost
              /\ returned[m] = 0 /\ m \notin refused /\ At(p, "stored") /\ ~Sends(p)
          BY <2>4, <2>5, <4>1, <4>2 DEF PlaceInv, Takes, Sends, MTypeOK
        <5> QED
          BY <2>1, <2>3, <4>1, <4>2, <5>1 DEF At
      <4>3. CASE m \notin Takes(p)
        <5>1. /\ returned'[m] = returned[m] /\ (m \in lost' <=> m \in lost) /\ (m \in Taken' <=> m \in Taken)
              /\ m <= mailed => m <= mailed'
          BY <2>1, <2>5, <4>3
        <5>2. m \in refused' /\ m \notin refused =>
                 returned[m] = 0 /\ m \notin InBox \cup lost /\ m \notin Taken
          BY <2>1 DEF SendInv, At
        <5>3. m \in delivered' /\ m \notin delivered => m \in InBox
          BY <2>1 DEF LockInv, At
        <5> QED
          BY <2>3, <4>1, <5>1, <5>2, <5>3
      <4> QED
        BY <4>2, <4>3
    <3>2. \A m : m \in Taken' => m \in 1..mailed'
      BY <2>1, <2>5 DEF PlaceInv
    <3> QED
      BY <2>1, <3>1, <3>2 DEF PlaceInv
  <2> QED
    BY <2>6, <2>7, <2>8, <2>9
<1>7. CASE ReplStart \/ Eval \/ Close
  <2>1. UNCHANGED others /\ calls < MaxCalls /\ calls' = calls + 1
    BY <1>7 DEF ReplStart, Eval, Close, Calls
  <2>2. calls' \in Nat /\ calls <= calls' /\ calls' <= MaxCalls
    BY <2>1 DEF MTypeOK
  <2> QED
    BY <2>1, <2>2, MailApart DEF others, ghosts
<1>8. CASE Written \/ SendFails \/ GetsLine \/ StdoutClosed \/ ReadBreaks \/ EvalTimesOut \/ CallTimesOut
           \/ Cancel \/ Closed \/ CloseCancelled \/ Shell
  <2>1. UNCHANGED post
    BY <1>8 DEF Written, SendFails, GetsLine, StdoutClosed, ReadBreaks, EvalTimesOut, CallTimesOut, Cancel,
         CallDropped, Abandon, Closed, CloseCancelled, Returns, Shell, ShellTakes, ShellPrints,
         ShellDone, ShellSwallows, ShellExits, Shells
  <2> QED
    BY <2>1, MailApart DEF post, others, ghosts, MTypeOK
<1>9. CASE UNCHANGED vars
  BY <1>9, MailApart DEF vars, post, others, ghosts, MTypeOK
<1> QED
  BY <1>1, <1>2, <1>3, <1>4, <1>5, <1>6, <1>7, <1>8, <1>9 DEF Next, Shell, Over

\* As many elements as places.
LEMMA DistinctCount ==
    ASSUME NEW s \in Seq(Nat), \A i, j \in 1..Len(s) : s[i] = s[j] => i = j
    PROVE  Cardinality({s[i] : i \in 1..Len(s)}) = Len(s)
<1> DEFINE S == {s[i] : i \in 1..Len(s)}
<1>1. Len(s) \in Nat /\ s \in [1..Len(s) -> S]
  BY DEF S
<1>2. s \in Bijection(1..Len(s), S)
  BY <1>1 DEF Bijection, Injection, Surjection, IsInjective
<1>3. ExistsBijection(1..Len(s), S)
  BY <1>2 DEF ExistsBijection
<1> QED
  BY <1>1, <1>3, FS_CountingElements

\* A message that was reported delivered is kept until it is returned, once, and
\* one that was refused is nowhere: however many processes send, drain, wait for
\* the lock and are killed.
THEOREM MessagesAreKept == Spec => []MailKept
<1>1. Init => MailInv
  <2> SUFFICES ASSUME Init PROVE MailInv
    OBVIOUS
  <2>1. MTypeOK
    BY ToolsAssumption DEF Init, MTypeOK, NoCall, InBox
  <2>2. InBox = {} /\ Len(box) = 0 /\ Taken = {} /\ \A p \in Procs : ~Sends(p) /\ ~HasLock(p)
    BY DEF Init, NoCall, None, InBox, Taken, Takes, At, Sends, HasLock
  <2>3. LockInv /\ SendInv
    BY <2>2 DEF Init, NoCall, None, LockInv, SendInv, At
  <2>4. PlaceInv
    BY <2>2 DEF Init, PlaceInv
  <2> QED
    BY <2>1, <2>3, <2>4 DEF MailInv
<1>2. MailInv /\ [Next]_vars => MailInv'
  BY MailStep
<1>3. MailInv => MailKept
  <2> SUFFICES ASSUME MailInv PROVE MailKept
    OBVIOUS
  <2>1. Cardinality(InBox) = Len(box)
    BY DistinctCount DEF MailInv, MTypeOK, PlaceInv, InBox
  <2>2. ASSUME NEW m \in 1..mailed
        PROVE  /\ returned[m] + (IF m \in InBox THEN 1 ELSE 0) + (IF m \in lost THEN 1 ELSE 0) <= 1
               /\ m \in delivered => returned[m] = 1 \/ m \in InBox \cup lost \/ m \in Taken
               /\ m \in refused => returned[m] = 0 /\ m \notin InBox \cup lost
    <3>1. m \in 1..MaxCalls
      BY Counted DEF MailInv
    <3> QED
      BY <3>1 DEF MailInv, PlaceInv
  <2> QED
    BY <2>1, <2>2 DEF MailKept, InBox, Taken, Takes
<1> QED
  BY <1>1, <1>2, <1>3, PTL DEF Spec

-----------------------------------------------------------------------------
\* Tags

Tags == {OpenTag, CloseTag}

\* tag stands in s at i.
StandsAt(s, tag, i) ==
    /\ i \in Nat \ {0} /\ i + 2 <= Len(s)
    /\ s[i] = tag[1] /\ s[i + 1] = tag[2] /\ s[i + 2] = tag[3]

LEMMA TagsAre ==
    \A tag \in Tags : tag \in Seq(Symbols) /\ Len(tag) = 3 /\ tag[1] = "<" /\ tag[2] # "<" /\ tag[3] # "<"
BY DEF Tags, OpenTag, CloseTag, Symbols

\* The slice that Find compares.
LEMMA StandsIs ==
    ASSUME NEW s \in Seq(Symbols), NEW tag \in Tags, NEW i
    PROVE  StandsAt(s, tag, i) <=>
             i \in 1..(Len(s) + 1 - Len(tag)) /\ SubSeq(s, i, i + Len(tag) - 1) = tag
<1>1. tag \in Seq(Symbols) /\ Len(tag) = 3 /\ Len(s) \in Nat
  BY TagsAre
<1>2. i \in 1..(Len(s) + 1 - Len(tag)) <=> i \in Nat \ {0} /\ i + 2 <= Len(s)
  BY <1>1
<1>3. SUFFICES ASSUME i \in Nat \ {0}, i + 2 <= Len(s)
               PROVE  StandsAt(s, tag, i) <=> SubSeq(s, i, i + 2) = tag
  <2>1. i \in Nat => i + Len(tag) - 1 = i + 2
    BY <1>1
  <2> QED
    BY <1>2, <2>1 DEF StandsAt
<1> DEFINE t == SubSeq(s, i, i + 2)
<1>4. t \in Seq(Symbols) /\ Len(t) = 3 /\ t[1] = s[i] /\ t[2] = s[i + 1] /\ t[3] = s[i + 2]
  <2>1. i \in Int /\ i + 2 \in Int /\ \A j \in i..(i + 2) : s[j] \in Symbols
    <3>1. \A j \in i..(i + 2) : j \in 1..Len(s)
      BY <1>1, <1>3
    <3> QED
      BY <1>3, <3>1
  <2>2. /\ t \in Seq(Symbols) /\ Len(t) = IF i <= i + 2 THEN (i + 2) - i + 1 ELSE 0
        /\ \A j \in 1..((i + 2) - i + 1) : t[j] = s[i + j - 1]
    BY <2>1, SubSeqProperties
  <2>3. 1 \in 1..((i + 2) - i + 1) /\ 2 \in 1..((i + 2) - i + 1) /\ 3 \in 1..((i + 2) - i + 1)
    BY <1>3
  <2>4. i + 1 - 1 = i /\ i + 2 - 1 = i + 1 /\ i + 3 - 1 = i + 2 /\ i <= i + 2 /\ (i + 2) - i + 1 = 3
    BY <1>3
  <2> HIDE DEF t
  <2> QED
    BY <2>2, <2>3, <2>4
<1> HIDE DEF t
<1>5. t = tag <=> t[1] = tag[1] /\ t[2] = tag[2] /\ t[3] = tag[3]
  <2>1. ASSUME t[1] = tag[1], t[2] = tag[2], t[3] = tag[3] PROVE t = tag
    <3>1. \A j \in 1..Len(t) : j = 1 \/ j = 2 \/ j = 3
      BY <1>4
    <3>2. \A j \in 1..Len(t) : t[j] = tag[j]
      BY <2>1, <3>1
    <3> HIDE DEF Symbols
    <3> QED
      BY <1>1, <1>4, <3>2, SeqEqual
  <2> QED
    BY <2>1
<1> QED
  BY <1>3, <1>4, <1>5 DEF StandsAt, t

\* Find's answer.
FoundAt(s, tag, p) ==
    IF p = 0 THEN \A i : ~StandsAt(s, tag, i)
    ELSE StandsAt(s, tag, p) /\ \A i : StandsAt(s, tag, i) => p <= i

LEMMA FindFinds ==
    ASSUME NEW s \in Seq(Symbols), NEW tag \in Tags
    PROVE  FoundAt(s, tag, Find(s, tag)) /\ Find(s, tag) \in Nat
<1> DEFINE here == {i \in 1..(Len(s) + 1 - Len(tag)) : SubSeq(s, i, i + Len(tag) - 1) = tag}
<1>1. \A i : i \in here <=> StandsAt(s, tag, i)
  BY StandsIs
<1>2. Find(s, tag) = IF here = {} THEN 0 ELSE CHOOSE x \in here : \A y \in here : x =< y
  BY DEF Find, Min
<1>3. here \subseteq Nat \ {0}
  OBVIOUS
<1> HIDE DEF here
<1>4. CASE here = {}
  BY <1>1, <1>2, <1>4 DEF FoundAt
<1>5. CASE here # {}
  <2>1. \E x \in here : \A y \in here : x <= y
    <3>1. here \subseteq Nat
      BY <1>3
    <3> QED
      BY <1>5, <3>1, LeastNat
  <2>2. Find(s, tag) \in here /\ \A y \in here : Find(s, tag) <= y
    BY <1>2, <1>5, <2>1
  <2> QED
    BY <1>1, <1>3, <2>2 DEF FoundAt
<1> QED
  BY <1>4, <1>5

\* There is one such answer.
LEMMA FoundOnce ==
    ASSUME NEW s, NEW tag, NEW p \in Nat, NEW q \in Nat, FoundAt(s, tag, p), FoundAt(s, tag, q)
    PROVE  p = q
<1>1. CASE p = 0 \/ q = 0
  BY <1>1 DEF FoundAt
<1>2. CASE p # 0 /\ q # 0
  <2>1. p <= q /\ q <= p
    BY <1>2 DEF FoundAt
  <2> QED
    BY <2>1
<1> QED
  BY <1>1, <1>2

\* What is found in the first part of a text is found there in the whole.
LEMMA FindInFirst ==
    ASSUME NEW x \in Seq(Symbols), NEW y \in Seq(Symbols), NEW tag \in Tags, Find(x, tag) # 0
    PROVE  Find(x \o y, tag) = Find(x, tag)
<1> DEFINE z == x \o y
           p == Find(x, tag)
<1>1. /\ z \in Seq(Symbols) /\ Len(z) = Len(x) + Len(y) /\ Len(x) \in Nat /\ Len(y) \in Nat
      /\ \A k \in 1..Len(x) : z[k] = x[k]
  BY JoinIs
<1>2. p \in Nat /\ StandsAt(x, tag, p) /\ \A i : StandsAt(x, tag, i) => p <= i
  BY FindFinds DEF FoundAt
<1> HIDE DEF z, p
<1>3. \A i : i \in Nat \ {0} /\ i + 2 <= Len(x) => (StandsAt(z, tag, i) <=> StandsAt(x, tag, i))
  <2> TAKE i
  <2> HAVE i \in Nat \ {0} /\ i + 2 <= Len(x)
  <2>1. i \in 1..Len(x) /\ i + 1 \in 1..Len(x) /\ i + 2 \in 1..Len(x) /\ i + 2 <= Len(z)
    BY <1>1
  <2> QED
    BY <1>1, <2>1 DEF StandsAt
<1>4. p \in Nat \ {0} /\ p + 2 <= Len(x)
  BY <1>2 DEF StandsAt
<1>5. StandsAt(z, tag, p)
  BY <1>2, <1>3, <1>4
<1>6. ASSUME NEW i, StandsAt(z, tag, i) PROVE p <= i
  <2>1. i \in Nat \ {0}
    BY <1>6 DEF StandsAt
  <2>2. CASE i + 2 <= Len(x)
    BY <1>2, <1>3, <1>6, <2>1, <2>2
  <2>3. CASE ~(i + 2 <= Len(x))
    BY <1>1, <1>4, <2>1, <2>3
  <2> QED
    BY <2>2, <2>3
<1>7. FoundAt(z, tag, p)
  BY <1>4, <1>5, <1>6 DEF FoundAt
<1>8. FoundAt(z, tag, Find(z, tag)) /\ Find(z, tag) \in Nat
  BY <1>1, FindFinds
<1>9. Find(z, tag) = p
  BY <1>2, <1>7, <1>8, FoundOnce
<1> QED
  BY <1>9 DEF z, p

\* If no tag begins in the first part, the first is where it is in the second.
LEMMA FindInSecond ==
    ASSUME NEW x \in Seq(Symbols), NEW y \in Seq(Symbols), NEW tag \in Tags,
           \A i \in 1..Len(x) : ~StandsAt(x \o y, tag, i)
    PROVE  Find(x \o y, tag) = IF Find(y, tag) = 0 THEN 0 ELSE Len(x) + Find(y, tag)
<1> DEFINE z == x \o y
           n == Len(x)
           p == Find(y, tag)
           q == IF p = 0 THEN 0 ELSE n + p
<1>1. /\ z \in Seq(Symbols) /\ Len(z) = n + Len(y) /\ n \in Nat /\ Len(y) \in Nat
      /\ \A k \in 1..Len(y) : z[n + k] = y[k]
  BY JoinIs
<1>2. p \in Nat /\ FoundAt(y, tag, p)
  BY FindFinds
<1>0. \A i \in 1..n : ~StandsAt(z, tag, i)
  OBVIOUS
<1> HIDE DEF z, n, p
<1>3. \A j \in Nat \ {0} : StandsAt(z, tag, n + j) <=> StandsAt(y, tag, j)
  <2> TAKE j \in Nat \ {0}
  <2>1. n + j \in Nat \ {0} /\ (n + j + 2 <= Len(z) <=> j + 2 <= Len(y))
    BY <1>1
  <2>2. CASE j + 2 <= Len(y)
    <3>1. j \in 1..Len(y) /\ j + 1 \in 1..Len(y) /\ j + 2 \in 1..Len(y)
      BY <1>1, <2>2
    <3>2. z[n + j] = y[j] /\ z[n + (j + 1)] = y[j + 1] /\ z[n + (j + 2)] = y[j + 2]
      BY <1>1, <3>1
    <3>3. n + (j + 1) = n + j + 1 /\ n + (j + 2) = n + j + 2
      BY <1>1
    <3> QED
      BY <2>1, <2>2, <3>2, <3>3 DEF StandsAt
  <2>3. CASE ~(j + 2 <= Len(y))
    BY <2>1, <2>3 DEF StandsAt
  <2> QED
    BY <2>2, <2>3
<1>4. ASSUME NEW i, StandsAt(z, tag, i)
      PROVE  \E j \in Nat \ {0} : i = n + j /\ StandsAt(y, tag, j)
  <2>1. i \in Nat \ {0} /\ i \notin 1..n
    BY <1>0, <1>4 DEF StandsAt
  <2>2. i - n \in Nat \ {0} /\ n + (i - n) = i
    BY <1>1, <2>1
  <2> QED
    BY <1>3, <1>4, <2>2
<1>5. FoundAt(z, tag, q) /\ q \in Nat
  <2>1. CASE p = 0
    <3>1. \A i : ~StandsAt(z, tag, i)
      BY <1>2, <1>4, <2>1 DEF FoundAt
    <3> QED
      BY <2>1, <3>1 DEF FoundAt
  <2>2. CASE p # 0
    <3>1. StandsAt(y, tag, p) /\ \A j : StandsAt(y, tag, j) => p <= j
      BY <1>2, <2>2 DEF FoundAt
    <3>2. StandsAt(z, tag, n + p) /\ n + p # 0 /\ n + p \in Nat
      BY <1>1, <1>2, <1>3, <2>2, <3>1
    <3>3. ASSUME NEW i, StandsAt(z, tag, i) PROVE n + p <= i
      <4>1. PICK j \in Nat \ {0} : i = n + j /\ StandsAt(y, tag, j)
        BY <1>4, <3>3
      <4> QED
        BY <1>1, <1>2, <3>1, <4>1
    <3> QED
      BY <2>2, <3>2, <3>3 DEF FoundAt
  <2> QED
    BY <2>1, <2>2
<1>6. FoundAt(z, tag, Find(z, tag)) /\ Find(z, tag) \in Nat
  BY <1>1, FindFinds
<1>7. Find(z, tag) = q
  <2> HIDE DEF q
  <2> QED
    BY <1>5, <1>6, FoundOnce
<1> QED
  BY <1>7 DEF z, n, p

-----------------------------------------------------------------------------
\* The strippers, one step at a time

\* strip_thinking_blocks with g for what it does behind a closing tag.
StripBody(g, s) ==
    LET start == Find(s, OpenTag)
        rest == From(s, start + Len(OpenTag))
        end == Find(rest, CloseTag)
    IN  IF start = 0 THEN s
        ELSE Before(s, start) \o
             (IF end = 0 THEN <<>> ELSE g[From(rest, end + Len(CloseTag))])

\* What comes of a text that begins in a state of the filter.
StripIn(in, s) ==
    LET end == Find(s, CloseTag)
    IN  IF ~in THEN StripThinking[s]
        ELSE IF end = 0 THEN <<>> ELSE StripThinking[From(s, end + 3)]

\* Behind a tag that was found there is a shorter text.
LEMMA BehindTag ==
    ASSUME NEW s \in Seq(Symbols), NEW tag \in Tags, Find(s, tag) # 0
    PROVE  /\ Find(s, tag) \in 1..(Len(s) + 1) /\ Find(s, tag) + 3 \in 1..(Len(s) + 1)
           /\ Len(tag) = 3
           /\ Before(s, Find(s, tag)) \in Seq(Symbols)
           /\ From(s, Find(s, tag) + 3) \in Seq(Symbols)
           /\ Len(From(s, Find(s, tag) + 3)) \in Nat
           /\ Len(From(s, Find(s, tag) + 3)) < Len(s)
<1> DEFINE p == Find(s, tag)
<1>1. p \in Nat /\ StandsAt(s, tag, p)
  BY FindFinds DEF FoundAt
<1> HIDE DEF p
<1>2. p \in 1..(Len(s) + 1) /\ p + 3 \in 1..(Len(s) + 1) /\ Len(s) \in Nat
  BY <1>1 DEF StandsAt
<1>3. Before(s, p) \in Seq(Symbols)
  BY <1>2, UptoIs DEF Before
<1>4. From(s, p + 3) \in Seq(Symbols) /\ Len(From(s, p + 3)) = Len(s) + 1 - (p + 3)
  BY <1>2, OnwardIs DEF From
<1>5. Len(From(s, p + 3)) \in Nat /\ Len(From(s, p + 3)) < Len(s)
  BY <1>2, <1>4
<1> QED
  BY <1>2, <1>3, <1>4, <1>5, TagsAre DEF p

LEMMA StripUnfolds ==
    /\ StripThinking \in [Seq(Symbols) -> Seq(Symbols)]
    /\ \A s \in Seq(Symbols) : StripThinking[s] = StripBody(StripThinking, s)
<1> DEFINE X == Seq(Symbols)
           rest(s) == From(s, Find(s, OpenTag) + 3)
           behind(s) == From(rest(s), Find(rest(s), CloseTag) + 3)
           E == {s \in X : Find(s, OpenTag) = 0 \/ Find(rest(s), CloseTag) = 0}
           next == [s \in X |-> IF s \in E THEN s ELSE behind(s)]
           size == [s \in X |-> Len(s)]
           base == [s \in X |-> IF Find(s, OpenTag) = 0 THEN s ELSE Before(s, Find(s, OpenTag))]
           comb == [s \in X |-> [t \in X |->
                      IF s \in E THEN t ELSE Before(s, Find(s, OpenTag)) \o t]]
<1>0. OpenTag \in Tags /\ CloseTag \in Tags /\ Len(OpenTag) = 3 /\ Len(CloseTag) = 3
  BY TagsAre DEF Tags
<1>1. ASSUME NEW s \in X, Find(s, OpenTag) # 0
      PROVE  /\ rest(s) \in X /\ Before(s, Find(s, OpenTag)) \in X
             /\ Len(rest(s)) \in Nat /\ Len(rest(s)) < Len(s) /\ Len(s) \in Nat
  BY <1>0, <1>1, BehindTag
<1>2. ASSUME NEW s \in X, s \notin E
      PROVE  behind(s) \in X /\ Len(behind(s)) < Len(s)
  <2>1. Find(s, OpenTag) # 0 /\ Find(rest(s), CloseTag) # 0
    BY <1>2
  <2>2. rest(s) \in X /\ Len(rest(s)) \in Nat /\ Len(rest(s)) < Len(s) /\ Len(s) \in Nat
    BY <1>1, <2>1
  <2> DEFINE r == rest(s)
  <2>3. r \in X /\ Find(r, CloseTag) # 0
    BY <2>1, <2>2
  <2> HIDE DEF r
  <2>4. From(r, Find(r, CloseTag) + 3) \in X /\ Len(From(r, Find(r, CloseTag) + 3)) \in Nat
        /\ Len(From(r, Find(r, CloseTag) + 3)) < Len(r)
    BY <1>0, <2>3, BehindTag
  <2>5. behind(s) \in X /\ Len(behind(s)) \in Nat /\ Len(behind(s)) < Len(rest(s))
    BY <2>4 DEF r
  <2> HIDE DEF rest, behind, X
  <2> QED
    BY <2>2, <2>5
<1>3. size \in [X -> Nat]
  OBVIOUS
<1>4. next \in [X -> X]
  <2> SUFFICES ASSUME NEW s \in X, s \notin E PROVE behind(s) \in X
    <3> HIDE DEF behind, E, X
    <3> QED OBVIOUS
  <2> QED
    BY <1>2
<1>5. base \in [X -> X]
  <2> SUFFICES ASSUME NEW s \in X, Find(s, OpenTag) # 0 PROVE Before(s, Find(s, OpenTag)) \in X
    OBVIOUS
  <2> QED
    BY <1>1
<1>6. comb \in [X -> [X -> X]]
  <2> SUFFICES ASSUME NEW s \in X, NEW t \in X, s \notin E
               PROVE  Before(s, Find(s, OpenTag)) \o t \in X
    <3> HIDE DEF E, X
    <3> QED OBVIOUS
  <2>1. Before(s, Find(s, OpenTag)) \in X
    BY <1>1
  <2> QED
    BY <2>1
<1>7. \A s \in X : s \notin E => size[next[s]] < size[s]
  <2> TAKE s \in X
  <2> HAVE s \notin E
  <2>1. next[s] = behind(s) /\ behind(s) \in X
    BY <1>2
  <2>2. size[next[s]] = Len(behind(s)) /\ size[s] = Len(s)
    <3> HIDE DEF next, behind
    <3> QED BY <2>1
  <2>3. Len(behind(s)) < Len(s)
    BY <1>2
  <2> HIDE DEF size, next, behind
  <2> QED
    BY <2>2, <2>3
<1>8. PICK f \in [X -> X] : \A s \in X : RecursesAt(f, E, next, base, comb, s)
  <2> HIDE DEF X, E, next, base, comb, size
  <2> QED
    BY <1>3, <1>4, <1>5, <1>6, <1>7, RecursionExists
<1>9. ASSUME NEW s \in X PROVE f[s] = StripBody(f, s)
  <2>0. /\ f[s] = IF s \in E THEN base[s] ELSE comb[s][f[next[s]]]
        /\ f \in [X -> X]
    BY <1>8 DEF RecursesAt
  <2>1. StripBody(f, s) = IF Find(s, OpenTag) = 0 THEN s
                          ELSE Before(s, Find(s, OpenTag)) \o
                               (IF Find(rest(s), CloseTag) = 0 THEN <<>> ELSE f[behind(s)])
    BY <1>0 DEF StripBody
  <2>2. CASE Find(s, OpenTag) = 0
    BY <2>0, <2>1, <2>2
  <2>3. CASE Find(s, OpenTag) # 0 /\ Find(rest(s), CloseTag) = 0
    <3>1. Before(s, Find(s, OpenTag)) \in X
      BY <1>1, <2>3
    <3>2. Before(s, Find(s, OpenTag)) \o <<>> = Before(s, Find(s, OpenTag))
      BY <3>1, ConcatEmptySeq
    <3>3. f[s] = Before(s, Find(s, OpenTag))
      BY <2>0, <2>3
    <3> QED
      BY <2>1, <2>3, <3>2, <3>3
  <2>4. CASE Find(s, OpenTag) # 0 /\ Find(rest(s), CloseTag) # 0
    <3>1. s \notin E
      BY <2>4
    <3>2. behind(s) \in X /\ next[s] = behind(s)
      BY <1>2, <3>1
    <3>3. f[behind(s)] \in X
      <4> HIDE DEF X, behind
      <4> QED BY <2>0, <3>2
    <3>4. comb[s][f[behind(s)]] = Before(s, Find(s, OpenTag)) \o f[behind(s)]
      <4> HIDE DEF X, behind, E
      <4> QED BY <3>1, <3>3
    <3>5. f[s] = Before(s, Find(s, OpenTag)) \o f[behind(s)]
      <4> HIDE DEF comb, next, behind, E
      <4> QED BY <2>0, <3>1, <3>2, <3>4
    <3> HIDE DEF behind, rest
    <3> QED
      BY <2>1, <2>4, <3>5
  <2> QED
    BY <2>2, <2>3, <2>4
<1>10. f = [s \in X |-> StripBody(f, s)]
  <2> HIDE DEF X
  <2> QED
    BY <1>8, <1>9
<1> DEFINE Solves(g) == g = [s \in X |-> StripBody(g, s)]
<1>11. StripThinking = CHOOSE g : Solves(g)
  BY DEF StripThinking, StripBody
<1>12. Solves(StripThinking)
  <2>1. Solves(f)
    BY <1>10
  <2> HIDE DEF Solves
  <2> QED
    BY <1>11, <2>1
<1>13. \A s \in X : StripThinking[s] = StripBody(StripThinking, s)
  BY <1>12
<1>14. ASSUME NEW s \in X,
              \A t \in X : Len(t) < Len(s) => StripThinking[t] \in X
       PROVE  StripThinking[s] \in X
  <2>1. StripThinking[s] = IF Find(s, OpenTag) = 0 THEN s
                           ELSE Before(s, Find(s, OpenTag)) \o
                                (IF Find(rest(s), CloseTag) = 0 THEN <<>> ELSE StripThinking[behind(s)])
    BY <1>0, <1>13 DEF StripBody
  <2>2. CASE Find(s, OpenTag) = 0
    BY <2>1, <2>2
  <2>3. CASE Find(s, OpenTag) # 0
    <3>1. Before(s, Find(s, OpenTag)) \in X
      BY <1>1, <2>3
    <3> DEFINE more == IF Find(rest(s), CloseTag) = 0 THEN <<>> ELSE StripThinking[behind(s)]
    <3>2. more \in X
      <4>1. CASE Find(rest(s), CloseTag) = 0
        BY <4>1
      <4>2. CASE Find(rest(s), CloseTag) # 0
        <5>1. s \notin E
          BY <2>3, <4>2
        <5>2. behind(s) \in X /\ Len(behind(s)) < Len(s)
          BY <1>2, <5>1
        <5> HIDE DEF behind, X
        <5> QED
          BY <1>14, <4>2, <5>2
      <4> QED
        BY <4>1, <4>2
    <3>3. StripThinking[s] = Before(s, Find(s, OpenTag)) \o more
      BY <2>1, <2>3
    <3> HIDE DEF more
    <3> QED
      BY <3>1, <3>2, <3>3
  <2> QED
    BY <2>2, <2>3
<1> DEFINE T == {n \in Nat : \A s \in X : Len(s) < n => StripThinking[s] \in X}
<1>15. Nat \subseteq T
  <2>1. 0 \in T
    OBVIOUS
  <2>2. ASSUME NEW n \in Nat, n \in T PROVE n + 1 \in T
    <3> SUFFICES ASSUME NEW s \in X, Len(s) < n + 1 PROVE StripThinking[s] \in X
      OBVIOUS
    <3>1. \A t \in X : Len(t) < Len(s) => Len(t) < n
      OBVIOUS
    <3>2. \A t \in X : Len(t) < Len(s) => StripThinking[t] \in X
      BY <2>2, <3>1
    <3> QED
      BY <1>14, <3>2
  <2> HIDE DEF T
  <2> QED
    BY <2>1, <2>2, AllNat
<1>16. \A s \in X : StripThinking[s] \in X
  <2>1. \A s \in X : Len(s) + 1 \in Nat /\ Len(s) < Len(s) + 1
    OBVIOUS
  <2> QED
    BY <1>15, <2>1
<1>17. StripThinking \in [X -> X]
  <2>1. StripThinking = [s \in X |-> StripBody(StripThinking, s)]
    BY <1>12
  <2> HIDE DEF X
  <2> QED
    BY <1>16, <2>1
<1> QED
  BY <1>13, <1>17

\* feed's loop, with g for what it does behind a tag.
FilterBody(g, here) ==
    LET tag == IF here.inside THEN CloseTag ELSE OpenTag
        found == Find(here.rest, tag)
        text == IF found # 0 THEN Before(here.rest, found)
                ELSE SubSeq(here.rest, 1, Len(here.rest) - Len(TailAfterLastLt(here.rest, tag)))
        out == IF here.inside THEN <<>> ELSE text
        on == g[[inside |-> ~here.inside, rest |-> From(here.rest, found + Len(tag))]]
    IN  IF found # 0 THEN [on EXCEPT !.out = out \o @]
        ELSE [inside |-> here.inside, pending |-> TailAfterLastLt(here.rest, tag), out |-> out]

FilterOut == [inside : BOOLEAN, pending : Seq(Symbols), out : Seq(Symbols)]

\* The place where the only symbol a tag begins with stands last.
LEMMA LastLt ==
    ASSUME NEW s \in Seq(Symbols), NEW i \in 1..Len(s), s[i] = "<"
    PROVE  LET m == Max({j \in 1..Len(s) : s[j] = "<"})
           IN  m \in 1..Len(s) /\ s[m] = "<" /\ \A j \in 1..Len(s) : s[j] = "<" => j <= m
<1> DEFINE lts == {j \in 1..Len(s) : s[j] = "<"}
           T == {n \in Nat : \A j \in lts : j <= n}
<1>1. Len(s) \in T /\ Len(s) \in Nat
  OBVIOUS
<1>2. PICK m \in T : \A n \in T : m <= n
  <2>1. T \subseteq Nat /\ T # {}
    BY <1>1
  <2> HIDE DEF T
  <2> QED
    BY <2>1, LeastNat
<1>3. m \in lts
  <2> SUFFICES ASSUME m \notin lts PROVE FALSE
    OBVIOUS
  <2>1. i \in lts /\ i <= m /\ m \in Nat /\ \A j \in lts : j \in Nat \ {0} /\ j <= m /\ j # m
    BY <1>2
  <2>2. m - 1 \in Nat /\ \A j \in lts : j <= m - 1
    BY <2>1
  <2>3. m - 1 \in T
    BY <2>2
  <2> HIDE DEF T, lts
  <2>4. m <= m - 1
    BY <1>2, <2>3
  <2> QED
    BY <2>1, <2>4
<1>4. \A j \in lts : m >= j
  BY <1>2
<1>5. Max(lts) \in lts /\ \A j \in lts : Max(lts) >= j
  <2> HIDE DEF lts
  <2> QED
    BY <1>3, <1>4 DEF Max
<1> QED
  BY <1>5

\* What is kept back: nothing, or what follows the last "<" and may grow into the tag.
LEMMA TailIs ==
    ASSUME NEW s \in Seq(Symbols), NEW tag \in Tags
    PROVE  LET t == TailAfterLastLt(s, tag) IN
           /\ t \in Seq(Symbols) /\ Len(t) <= 2 /\ Len(t) <= Len(s)
           /\ t = From(s, Len(s) - Len(t) + 1)
           /\ \A i \in 1..Len(s) :
                 s[i] = "<" /\ Len(s) - i < 2 /\ (i < Len(s) => s[i + 1] = tag[2])
                     => i > Len(s) - Len(t)
<1> DEFINE lts == {i \in 1..Len(s) : s[i] = "<"}
           m == Max(lts)
           back == From(s, m)
           t == TailAfterLastLt(s, tag)
           n == Len(s)
<1>0. n \in Nat /\ tag \in Seq(Symbols) /\ Len(tag) = 3 /\ tag[1] = "<" /\ tag[2] # "<"
  BY TagsAre
<1>1. t = IF lts # {} /\ Len(back) < 3 /\ back = SubSeq(tag, 1, Len(back)) THEN back ELSE <<>>
  BY <1>0 DEF TailAfterLastLt
<1>2. CASE lts = {}
  <2>1. t = <<>> /\ Len(t) = 0 /\ t \in Seq(Symbols)
    BY <1>1, <1>2
  <2>2. From(s, n - 0 + 1) = <<>>
    <3>1. n - 0 + 1 \in Int /\ n \in Int /\ n < n - 0 + 1
      BY <1>0
    <3> QED
      BY <3>1, SubSeqEmpty DEF From
  <2>3. \A i \in 1..n : s[i] # "<"
    BY <1>2
  <2> HIDE DEF t, lts
  <2> QED
    BY <1>0, <2>1, <2>2, <2>3 DEF t
<1>3. CASE lts # {}
  <2>1. m \in 1..n /\ s[m] = "<" /\ \A j \in 1..n : s[j] = "<" => j <= m
    <3>1. PICK i \in 1..n : s[i] = "<"
      BY <1>3
    <3> QED
      BY <3>1, LastLt
  <2> HIDE DEF m
  <2>2. /\ back = From(s, m) /\ back \in Seq(Symbols) /\ Len(back) = n + 1 - m
        /\ \A j \in 1..Len(back) : back[j] = s[m + j - 1]
    <3>1. m \in 1..(n + 1)
      BY <1>0, <2>1
    <3> QED
      BY <3>1, OnwardIs DEF From
  <2> HIDE DEF back
  <2>3. CASE t = back /\ Len(back) < 3
    <3>1. Len(t) = n + 1 - m /\ n - Len(t) + 1 = m
      BY <1>0, <2>1, <2>2, <2>3
    <3>2. \A i \in 1..n : s[i] = "<" /\ n - i < 2 /\ (i < n => s[i + 1] = tag[2]) => i >= m
      <4> SUFFICES ASSUME NEW i \in 1..n, s[i] = "<", n - i < 2, i < n => s[i + 1] = tag[2], i < m
                   PROVE  FALSE
        BY <1>0, <2>1
      <4>1. m = i + 1
        BY <1>0, <2>1
      <4> QED
        BY <1>0, <2>1, <4>1
    <3>3. \A i \in 1..n : i >= m => i > n - Len(t)
      BY <1>0, <2>1, <3>1
    <3>4. t \in Seq(Symbols) /\ Len(t) <= 2 /\ Len(t) <= n /\ t = From(s, n - Len(t) + 1)
      <4>1. t \in Seq(Symbols) /\ t = From(s, m) /\ Len(t) < 3
        BY <2>2, <2>3
      <4>2. Len(t) <= 2 /\ Len(t) <= n
        BY <1>0, <2>1, <3>1, <4>1
      <4> QED
        BY <3>1, <4>1, <4>2
    <3> HIDE DEF t, n
    <3> QED
      BY <3>2, <3>3, <3>4 DEF n, t
  <2>4. CASE t = <<>> /\ (Len(back) >= 3 \/ back # SubSeq(tag, 1, Len(back)))
    <3>1. From(s, n - 0 + 1) = <<>>
      <4>1. n - 0 + 1 \in Int /\ n \in Int /\ n < n - 0 + 1
        BY <1>0
      <4> QED
        BY <4>1, SubSeqEmpty DEF From
    <3>2. t \in Seq(Symbols) /\ Len(t) = 0
      BY <2>4
    <3>3. ASSUME NEW i \in 1..n, s[i] = "<", n - i < 2, i < n => s[i + 1] = tag[2]
          PROVE  FALSE
      <4>1. i = m
        <5>1. i <= m
          BY <2>1, <3>3
        <5>2. i < m => m = i + 1
          BY <1>0, <2>1, <3>3
        <5> QED
          BY <1>0, <2>1, <3>3, <5>1, <5>2
      <4>2. Len(back) \in Nat /\ (Len(back) = 1 \/ Len(back) = 2)
        BY <1>0, <2>2, <3>3, <4>1
      <4> DEFINE b == SubSeq(tag, 1, Len(back))
      <4>3. b \in Seq(Symbols) /\ Len(b) = Len(back) /\ \A j \in 1..Len(back) : b[j] = tag[j]
        <5>1. Len(back) + 1 \in 1..(Len(tag) + 1) /\ (Len(back) + 1) - 1 = Len(back)
          BY <1>0, <2>2, <4>2
        <5>2. /\ SubSeq(tag, 1, (Len(back) + 1) - 1) \in Seq(Symbols)
              /\ Len(SubSeq(tag, 1, (Len(back) + 1) - 1)) = (Len(back) + 1) - 1
              /\ \A j \in 1..((Len(back) + 1) - 1) : SubSeq(tag, 1, (Len(back) + 1) - 1)[j] = tag[j]
          BY <1>0, <5>1, UptoIs
        <5> QED
          BY <5>1, <5>2
      <4>4. ASSUME NEW j \in 1..Len(back) PROVE back[j] = tag[j]
        <5>1. back[j] = s[m + j - 1]
          BY <2>2
        <5>2. CASE j = 1
          <6>1. m + j - 1 = m
            BY <1>0, <2>1, <5>2
          <6> QED
            BY <1>0, <2>1, <5>1, <5>2, <6>1
        <5>3. CASE j = 2
          <6>1. m + j - 1 = i + 1 /\ i < n
            BY <1>0, <2>1, <2>2, <4>1, <4>2, <5>3
          <6> QED
            BY <3>3, <5>1, <5>3, <6>1
        <5> QED
          BY <4>2, <5>2, <5>3
      <4> HIDE DEF b
      <4>5. back = b
        <5>1. Len(back) = Len(b) /\ \A j \in 1..Len(back) : back[j] = b[j]
          BY <4>3, <4>4
        <5> QED
          BY <2>2, <4>3, <5>1, SeqEqual
      <4>6. Len(back) < 3
        BY <2>2, <4>2
      <4> QED
        BY <2>4, <4>5, <4>6 DEF b
    <3> HIDE DEF t, n
    <3> QED
      BY <1>0, <3>1, <3>2, <3>3, <2>4 DEF n, t
  <2>5. \/ t = back /\ Len(back) < 3
        \/ t = <<>> /\ (Len(back) >= 3 \/ back # SubSeq(tag, 1, Len(back)))
    <3>1. Len(back) \in Nat
      BY <2>2
    <3> HIDE DEF t
    <3> QED
      BY <1>1, <1>3, <3>1 DEF m
  <2> QED
    BY <2>3, <2>4, <2>5
<1> QED
  BY <1>2, <1>3

TagFor(in) == IF in THEN CloseTag ELSE OpenTag

\* What feed's loop lets out at one step, and where it goes on.
OutOf(here) ==
    IF here.inside THEN <<>>
    ELSE IF Find(here.rest, TagFor(here.inside)) # 0
         THEN Before(here.rest, Find(here.rest, TagFor(here.inside)))
         ELSE SubSeq(here.rest, 1, Len(here.rest) - Len(TailAfterLastLt(here.rest, TagFor(here.inside))))
OnFrom(here) ==
    [inside |-> ~here.inside, rest |-> From(here.rest, Find(here.rest, TagFor(here.inside)) + 3)]
Stopped(here) ==
    [inside |-> here.inside, pending |-> TailAfterLastLt(here.rest, TagFor(here.inside)), out |-> OutOf(here)]

LEMMA FilterBodyIs ==
    ASSUME NEW g, NEW here \in FilterAt
    PROVE  FilterBody(g, here) =
             IF Find(here.rest, TagFor(here.inside)) # 0
             THEN [g[OnFrom(here)] EXCEPT !.out = OutOf(here) \o @]
             ELSE Stopped(here)
<1>1. Len(OpenTag) = 3 /\ Len(CloseTag) = 3
  BY TagsAre DEF Tags
<1>2. Len(TagFor(here.inside)) = 3
  BY <1>1 DEF TagFor
<1>3. CASE Find(here.rest, TagFor(here.inside)) # 0
  BY <1>2, <1>3 DEF FilterBody, TagFor, OnFrom, OutOf
<1>4. CASE Find(here.rest, TagFor(here.inside)) = 0
  BY <1>2, <1>4 DEF FilterBody, TagFor, Stopped, OutOf
<1> QED
  BY <1>3, <1>4

LEMMA FilterSteps ==
    ASSUME NEW here \in FilterAt
    PROVE  /\ OutOf(here) \in Seq(Symbols) /\ Stopped(here) \in FilterOut
           /\ Find(here.rest, TagFor(here.inside)) # 0 =>
                OnFrom(here) \in FilterAt /\ Len(OnFrom(here).rest) < Len(here.rest)
<1> DEFINE tag == TagFor(here.inside)
           p == Find(here.rest, tag)
           t == TailAfterLastLt(here.rest, tag)
<1>1. here.rest \in Seq(Symbols) /\ here.inside \in BOOLEAN
  BY DEF FilterAt
<1>2. tag \in Tags
  BY DEF TagFor, Tags
<1> HIDE DEF tag
<1>3. t \in Seq(Symbols) /\ Len(t) <= 2 /\ Len(t) <= Len(here.rest)
  BY <1>1, <1>2, TailIs
<1>4. ASSUME p # 0
      PROVE  /\ Before(here.rest, p) \in Seq(Symbols) /\ From(here.rest, p + 3) \in Seq(Symbols)
             /\ Len(From(here.rest, p + 3)) < Len(here.rest)
  BY <1>1, <1>2, <1>4, BehindTag
<1>5. SubSeq(here.rest, 1, Len(here.rest) - Len(t)) \in Seq(Symbols)
  <2> HIDE DEF t
  <2>1. Len(here.rest) \in Nat
    BY <1>1
  <2> DEFINE k == Len(here.rest) - Len(t) + 1
  <2>2. k \in 1..(Len(here.rest) + 1) /\ k - 1 = Len(here.rest) - Len(t)
    BY <1>3, <2>1
  <2>3. SubSeq(here.rest, 1, k - 1) \in Seq(Symbols)
    <3> HIDE DEF k
    <3> QED
      BY <1>1, <2>2, UptoIs
  <2> QED
    BY <2>2, <2>3
<1>6. OutOf(here) = IF here.inside THEN <<>> ELSE IF p # 0 THEN Before(here.rest, p)
                  ELSE SubSeq(here.rest, 1, Len(here.rest) - Len(t))
  BY DEF OutOf, tag
<1> HIDE DEF t, p
<1>7. OutOf(here) \in Seq(Symbols)
  <2>1. CASE here.inside
    <3>1. OutOf(here) = <<>>
      BY <1>6, <2>1
    <3> QED
      BY <3>1
  <2>2. CASE ~here.inside /\ p # 0
    BY <1>4, <1>6, <2>2
  <2>3. CASE ~here.inside /\ p = 0
    BY <1>5, <1>6, <2>3
  <2> QED
    BY <1>1, <2>1, <2>2, <2>3
<1>8. Stopped(here) = [inside |-> here.inside, pending |-> t, out |-> OutOf(here)]
  BY DEF Stopped, t, tag
<1>9. Stopped(here) \in FilterOut
  BY <1>1, <1>3, <1>7, <1>8 DEF FilterOut
<1>10. ASSUME p # 0 PROVE OnFrom(here) \in FilterAt /\ Len(OnFrom(here).rest) < Len(here.rest)
  <2>1. OnFrom(here) = [inside |-> ~here.inside, rest |-> From(here.rest, p + 3)]
    BY DEF OnFrom, p, tag
  <2>2. (~here.inside) \in BOOLEAN
    BY <1>1
  <2>3. OnFrom(here).rest = From(here.rest, p + 3)
    BY <2>1
  <2>4. OnFrom(here) \in FilterAt
    BY <1>4, <1>10, <2>1, <2>2 DEF FilterAt
  <2> QED
    BY <1>4, <1>10, <2>3, <2>4
<1> QED
  BY <1>7, <1>9, <1>10 DEF p, tag

LEMMA FilterUnfolds ==
    /\ Filtered \in [FilterAt -> FilterOut]
    /\ \A here \in FilterAt : Filtered[here] = FilterBody(Filtered, here)
<1> DEFINE X == FilterAt
           V == FilterOut
           E == {here \in X : Find(here.rest, TagFor(here.inside)) = 0}
           next == [here \in X |-> IF here \in E THEN here ELSE OnFrom(here)]
           size == [here \in X |-> Len(here.rest)]
           base == [here \in X |-> Stopped(here)]
           comb == [here \in X |-> [v \in V |-> [v EXCEPT !.out = OutOf(here) \o @]]]
<1>1. \A here \in X : here \in E <=> Find(here.rest, TagFor(here.inside)) = 0
  OBVIOUS
<1>2. \A here \in X : here \notin E => OnFrom(here) \in X /\ Len(OnFrom(here).rest) < Len(here.rest)
  BY FilterSteps
<1> HIDE DEF E
<1>3. size \in [X -> Nat]
  BY DEF FilterAt
<1>4. next \in [X -> X]
  BY <1>2
<1>5. base \in [X -> V]
  BY FilterSteps
<1>6. ASSUME NEW here \in X, NEW v \in V
      PROVE  /\ [v EXCEPT !.out = OutOf(here) \o @] \in V
             /\ [v EXCEPT !.out = OutOf(here) \o @].out = OutOf(here) \o v.out
  <2>1. OutOf(here) \in Seq(Symbols)
    BY FilterSteps
  <2>2. OutOf(here) \o v.out \in Seq(Symbols)
    BY <2>1 DEF FilterOut
  <2> DEFINE t == OutOf(here) \o v.out
  <2>3. [v EXCEPT !.out = OutOf(here) \o @] = [v EXCEPT !.out = t]
    BY DEF FilterOut
  <2> HIDE DEF t
  <2>4. [v EXCEPT !.out = t] \in V /\ [v EXCEPT !.out = t].out = t
    BY <2>2 DEF FilterOut, t
  <2> QED
    BY <2>3, <2>4 DEF t
<1>7. comb \in [X -> [V -> V]]
  BY <1>6
<1>8. \A here \in X : here \notin E => size[next[here]] < size[here]
  BY <1>2
<1>9. PICK f \in [X -> V] : \A here \in X : RecursesAt(f, E, next, base, comb, here)
  <2> HIDE DEF X, V, next, base, comb, size
  <2> QED
    BY <1>3, <1>4, <1>5, <1>7, <1>8, RecursionExists
<1>10. ASSUME NEW here \in X PROVE f[here] = FilterBody(f, here)
  <2>1. f[here] = IF here \in E THEN base[here] ELSE comb[here][f[next[here]]]
    BY <1>9 DEF RecursesAt
  <2>2. FilterBody(f, here) = IF here \in E THEN Stopped(here)
                            ELSE [f[OnFrom(here)] EXCEPT !.out = OutOf(here) \o @]
    BY <1>1, FilterBodyIs
  <2>3. CASE here \in E
    BY <2>1, <2>2, <2>3
  <2>4. CASE here \notin E
    <3>1. next[here] = OnFrom(here) /\ OnFrom(here) \in X
      BY <1>2, <2>4
    <3>2. f[OnFrom(here)] \in V
      <4> HIDE DEF X, V
      <4> QED BY <1>9, <3>1
    <3>3. comb[here][f[OnFrom(here)]] = [f[OnFrom(here)] EXCEPT !.out = OutOf(here) \o @]
      <4> HIDE DEF X, V
      <4> QED BY <3>2
    <3> HIDE DEF comb, next, X, V
    <3> QED
      BY <2>1, <2>2, <2>4, <3>1, <3>3
  <2> QED
    BY <2>3, <2>4
<1>11. f = [here \in X |-> FilterBody(f, here)]
  <2> HIDE DEF X, V
  <2> QED
    BY <1>9, <1>10
<1> DEFINE Solves(g) == g = [here \in X |-> FilterBody(g, here)]
<1>12. Filtered = CHOOSE g : Solves(g)
  BY DEF Filtered, FilterBody, FilterAt
<1>13. Solves(Filtered)
  <2>1. Solves(f)
    BY <1>11
  <2> HIDE DEF Solves
  <2> QED
    BY <1>12, <2>1
<1>14. \A here \in X : Filtered[here] = FilterBody(Filtered, here)
  <2> HIDE DEF X
  <2> QED
    BY <1>13
<1>15. ASSUME NEW here \in X, \A b \in X : Len(b.rest) < Len(here.rest) => Filtered[b] \in V
       PROVE  Filtered[here] \in V
  <2>1. Filtered[here] = IF here \in E THEN Stopped(here)
                       ELSE [Filtered[OnFrom(here)] EXCEPT !.out = OutOf(here) \o @]
    BY <1>1, <1>14, FilterBodyIs
  <2>2. CASE here \in E
    BY <2>1, <2>2, FilterSteps
  <2>3. CASE here \notin E
    <3>1. Filtered[OnFrom(here)] \in V
      BY <1>2, <1>15, <2>3
    <3>2. [Filtered[OnFrom(here)] EXCEPT !.out = OutOf(here) \o @] \in V
      <4> HIDE DEF X, V
      <4> QED BY <1>6, <3>1
    <3> QED
      BY <2>1, <2>3, <3>2
  <2> QED
    BY <2>2, <2>3
<1> DEFINE T == {n \in Nat : \A here \in X : Len(here.rest) < n => Filtered[here] \in V}
<1>16. \A here \in X : Len(here.rest) \in Nat
  BY DEF FilterAt
<1> HIDE DEF X, V
<1>17. Nat \subseteq T
  <2>1. 0 \in T
    BY <1>16
  <2>2. ASSUME NEW n \in Nat, n \in T PROVE n + 1 \in T
    <3> SUFFICES ASSUME NEW here \in X, Len(here.rest) < n + 1 PROVE Filtered[here] \in V
      OBVIOUS
    <3>1. \A b \in X : Len(b.rest) < Len(here.rest) => Len(b.rest) < n
      BY <1>16
    <3>2. \A b \in X : Len(b.rest) < Len(here.rest) => Filtered[b] \in V
      BY <2>2, <3>1
    <3> QED
      BY <1>15, <3>2
  <2> HIDE DEF T
  <2> QED
    BY <2>1, <2>2, AllNat
<1>18. \A here \in X : Filtered[here] \in V
  <2>1. \A here \in X : Len(here.rest) + 1 \in Nat /\ Len(here.rest) < Len(here.rest) + 1
    BY <1>16
  <2> QED
    BY <1>17, <2>1
<1>19. Filtered \in [X -> V]
  BY <1>13, <1>18
<1> QED
  BY <1>14, <1>19 DEF X, V

-----------------------------------------------------------------------------
\* What the strippers make of a text in two parts

LEMMA StripIs ==
    ASSUME NEW s \in Seq(Symbols)
    PROVE  StripThinking[s] = IF Find(s, OpenTag) = 0 THEN s
                              ELSE Before(s, Find(s, OpenTag))
                                     \o StripIn(TRUE, From(s, Find(s, OpenTag) + 3))
<1>1. StripThinking[s] = StripBody(StripThinking, s)
  BY StripUnfolds
<1>2. Len(OpenTag) = 3 /\ Len(CloseTag) = 3
  BY TagsAre DEF Tags
<1> QED
  BY <1>1, <1>2 DEF StripBody, StripIn

LEMMA StripInTyped ==
    ASSUME NEW in \in BOOLEAN, NEW s \in Seq(Symbols)
    PROVE  StripIn(in, s) \in Seq(Symbols)
<1>1. StripThinking \in [Seq(Symbols) -> Seq(Symbols)]
  BY StripUnfolds
<1>2. CASE ~in
  <2>1. StripIn(in, s) = StripThinking[s]
    BY <1>2 DEF StripIn
  <2> QED
    BY <1>1, <2>1
<1>3. CASE in /\ Find(s, CloseTag) = 0
  <2>1. StripIn(in, s) = <<>>
    BY <1>3 DEF StripIn
  <2> QED
    BY <2>1
<1>4. CASE in /\ Find(s, CloseTag) # 0
  <2>1. StripIn(in, s) = StripThinking[From(s, Find(s, CloseTag) + 3)]
    BY <1>4 DEF StripIn
  <2>2. From(s, Find(s, CloseTag) + 3) \in Seq(Symbols)
    BY <1>4, BehindTag DEF Tags
  <2> QED
    BY <1>1, <2>1, <2>2
<1> QED
  BY <1>2, <1>3, <1>4

\* The first part has the tag.
LEMMA StripsOn ==
    ASSUME NEW here \in FilterAt, NEW y \in Seq(Symbols), Find(here.rest, TagFor(here.inside)) # 0
    PROVE  StripIn(here.inside, here.rest \o y)
             = OutOf(here) \o StripIn(OnFrom(here).inside, OnFrom(here).rest \o y)
<1> DEFINE x == here.rest
           tag == TagFor(here.inside)
           p == Find(x, tag)
           z == x \o y
           w == From(x, p + 3) \o y
<1>1. x \in Seq(Symbols) /\ here.inside \in BOOLEAN /\ tag \in Tags /\ p # 0
  BY DEF FilterAt, TagFor, Tags
<1>2. p \in 1..(Len(x) + 1) /\ p + 3 \in 1..(Len(x) + 1)
  BY <1>1, BehindTag
<1>3. Find(z, tag) = p
  BY <1>1, FindInFirst
<1>4. From(z, p + 3) = w /\ Before(z, p) = Before(x, p)
  BY <1>1, <1>2, CutFirst DEF From, Before
<1>5. z \in Seq(Symbols)
  BY <1>1
<1>6. OnFrom(here).rest \o y = w
  BY DEF OnFrom
<1> HIDE DEF x, z, w, p
<1>7. CASE ~here.inside
  <2>1. tag = OpenTag /\ p = Find(z, OpenTag)
    BY <1>3, <1>7 DEF TagFor
  <2>2. OnFrom(here).inside = TRUE /\ OutOf(here) = Before(x, p)
    BY <1>1, <1>7 DEF OnFrom, OutOf, x, p
  <2>3. StripIn(here.inside, z) = StripThinking[z]
    BY <1>7 DEF StripIn
  <2>4. StripThinking[z] = Before(z, p) \o StripIn(TRUE, From(z, p + 3))
    BY <1>1, <1>5, <2>1, StripIs
  <2> QED
    BY <1>4, <1>6, <2>2, <2>3, <2>4 DEF x, z
<1>8. CASE here.inside
  <2>1. tag = CloseTag /\ p = Find(z, CloseTag)
    BY <1>3, <1>8 DEF TagFor
  <2>2. OnFrom(here).inside = FALSE /\ OutOf(here) = <<>>
    BY <1>8 DEF OnFrom, OutOf
  <2>3. StripIn(here.inside, z) = StripThinking[From(z, p + 3)]
    BY <1>1, <1>8, <2>1 DEF StripIn
  <2>4. StripIn(FALSE, w) = StripThinking[w]
    BY DEF StripIn
  <2>5. w \in Seq(Symbols)
    <3>1. From(x, p + 3) \in Seq(Symbols)
      BY <1>1, BehindTag DEF p
    <3> QED
      BY <3>1 DEF w
  <2>6. <<>> \o StripIn(FALSE, w) = StripIn(FALSE, w)
    BY <2>5, StripInTyped, ConcatEmptySeq
  <2> QED
    BY <1>4, <1>6, <2>2, <2>3, <2>4, <2>6 DEF x, z
<1> QED
  BY <1>1, <1>7, <1>8

\* No tag begins in the first part.
LEMMA StripsApart ==
    ASSUME NEW in \in BOOLEAN, NEW x \in Seq(Symbols), NEW y \in Seq(Symbols),
           \A i \in 1..Len(x) : ~StandsAt(x \o y, TagFor(in), i)
    PROVE  StripIn(in, x \o y) = (IF in THEN <<>> ELSE x) \o StripIn(in, y)
<1> DEFINE tag == TagFor(in)
           z == x \o y
           q == Find(y, tag)
<1>1. tag \in Tags /\ z \in Seq(Symbols) /\ Len(x) \in Nat
  BY DEF TagFor, Tags
<1>2. Find(z, tag) = IF q = 0 THEN 0 ELSE Len(x) + q
  BY <1>1, FindInSecond
<1>3. StripIn(in, y) \in Seq(Symbols)
  BY StripInTyped
<1>4. ASSUME q # 0
      PROVE  /\ From(z, Len(x) + q + 3) = From(y, q + 3)
             /\ Before(z, Len(x) + q) = x \o Before(y, q)
             /\ Before(y, q) \in Seq(Symbols) /\ From(y, q + 3) \in Seq(Symbols)
             /\ Len(x) + q # 0
  <2>1. /\ q \in 1..(Len(y) + 1) /\ q + 3 \in 1..(Len(y) + 1)
        /\ Before(y, q) \in Seq(Symbols) /\ From(y, q + 3) \in Seq(Symbols)
    BY <1>1, <1>4, BehindTag
  <2> DEFINE j == q + 3
  <2>2. SubSeq(z, Len(x) + j, Len(z)) = SubSeq(y, j, Len(y))
    <3>1. j \in 1..(Len(y) + 1)
      BY <2>1
    <3> HIDE DEF j
    <3> QED
      BY <3>1, CutSecond
  <2>3. SubSeq(z, 1, (Len(x) + q) - 1) = x \o SubSeq(y, 1, q - 1)
    BY <2>1, CutSecond
  <2> HIDE DEF z, q
  <2>4. Len(x) + (q + 3) = Len(x) + q + 3 /\ Len(x) + q # 0
    BY <1>1, <2>1
  <2> QED
    BY <2>1, <2>2, <2>3, <2>4 DEF From, Before
<1>5. CASE ~in /\ q = 0
  <2>1. tag = OpenTag /\ Find(z, OpenTag) = 0 /\ Find(y, OpenTag) = 0
    BY <1>2, <1>5 DEF TagFor
  <2>2. StripThinking[z] = z /\ StripThinking[y] = y
    BY <1>1, <2>1, StripIs
  <2> QED
    BY <1>5, <2>2 DEF StripIn
<1>6. CASE ~in /\ q # 0
  <2>1. tag = OpenTag /\ Find(z, OpenTag) = Len(x) + q /\ Find(y, OpenTag) = q
    BY <1>2, <1>6 DEF TagFor
  <2> DEFINE r == StripIn(TRUE, From(y, q + 3))
             b == Before(y, q)
  <2>2. StripThinking[z] = (x \o b) \o r
    <3>1. Find(z, OpenTag) # 0
      BY <1>4, <1>6, <2>1
    <3>2. StripThinking[z] = Before(z, Len(x) + q) \o StripIn(TRUE, From(z, Len(x) + q + 3))
      <4> HIDE DEF z, q
      <4> QED BY <1>1, <2>1, <3>1, StripIs
    <3> QED
      BY <1>4, <1>6, <3>2
  <2>3. StripThinking[y] = b \o r
    BY <1>6, <2>1, StripIs
  <2>4. (x \o b) \o r = x \o (b \o r)
    <3>1. b \in Seq(Symbols) /\ r \in Seq(Symbols)
      BY <1>4, <1>6, StripInTyped
    <3> HIDE DEF b, r
    <3> QED
      BY <3>1, ConcatAssociative
  <2> HIDE DEF b, r
  <2> QED
    BY <1>6, <2>2, <2>3, <2>4 DEF StripIn
<1>7. CASE in
  <2>1. tag = CloseTag /\ Find(z, CloseTag) = (IF q = 0 THEN 0 ELSE Len(x) + q) /\ Find(y, CloseTag) = q
    BY <1>2, <1>7 DEF TagFor
  <2>2. <<>> \o StripIn(in, y) = StripIn(in, y)
    BY <1>3, ConcatEmptySeq
  <2>3. CASE q = 0
    <3>1. StripIn(in, z) = <<>> /\ StripIn(in, y) = <<>>
      BY <1>7, <2>1, <2>3 DEF StripIn
    <3> QED
      BY <1>7, <2>2, <3>1
  <2>4. CASE q # 0
    <3>1. StripIn(in, z) = StripThinking[From(z, Len(x) + q + 3)]
      BY <1>4, <1>7, <2>1, <2>4 DEF StripIn
    <3>2. StripIn(in, y) = StripThinking[From(y, q + 3)]
      BY <1>7, <2>1, <2>4 DEF StripIn
    <3> QED
      BY <1>4, <1>7, <2>2, <2>4, <3>1, <3>2
  <2> QED
    BY <2>3, <2>4
<1> QED
  BY <1>5, <1>6, <1>7

LEMMA JoinAssoc == \A a, b, c \in Seq(Symbols) : a \o (b \o c) = (a \o b) \o c
<1> QED
  BY ConcatAssociative, SMTT(30)

\* A text that has no tag is what feed lets out of it and what it keeps back, and
\* whatever follows, no tag begins in what was let out.
LEMMA KeptBack ==
    ASSUME NEW x \in Seq(Symbols), NEW y \in Seq(Symbols), NEW tag \in Tags, Find(x, tag) = 0
    PROVE  LET t == TailAfterLastLt(x, tag)
               o == SubSeq(x, 1, Len(x) - Len(t))
           IN  /\ o \in Seq(Symbols) /\ t \in Seq(Symbols) /\ Len(t) <= 2 /\ x = o \o t
               /\ \A i \in 1..Len(o) : ~StandsAt(o \o (t \o y), tag, i)
<1> DEFINE t == TailAfterLastLt(x, tag)
           k == Len(x) - Len(t) + 1
           o == SubSeq(x, 1, Len(x) - Len(t))
           z == x \o y
<1>1. /\ t \in Seq(Symbols) /\ Len(t) <= 2 /\ Len(t) <= Len(x)
      /\ t = From(x, k)
      /\ \A i \in 1..Len(x) :
            x[i] = "<" /\ Len(x) - i < 2 /\ (i < Len(x) => x[i + 1] = tag[2])
                => i > Len(x) - Len(t)
  BY TailIs
<1> HIDE DEF t
<1>2. k \in 1..(Len(x) + 1) /\ k - 1 = Len(x) - Len(t) /\ Len(x) \in Nat
  BY <1>1
<1>3. o = Before(x, k)
  BY <1>2 DEF Before
<1>4. o \in Seq(Symbols) /\ Len(o) = Len(x) - Len(t)
  <2> HIDE DEF k, o
  <2> QED
    BY <1>2, <1>3, UptoIs DEF Before
<1>5. x = o \o t
  <2> HIDE DEF k, o
  <2> QED
    BY <1>1, <1>2, <1>3, CutJoins DEF Before, From
<1>6. o \o (t \o y) = z
  <2>1. o \in Seq(Symbols) /\ t \in Seq(Symbols)
    BY <1>1, <1>4
  <2> HIDE DEF o
  <2>2. (o \o t) \o y = o \o (t \o y)
    BY <2>1, JoinAssoc, ZenonT(40)
  <2> QED
    BY <1>5, <2>2
<1>7. /\ z \in Seq(Symbols) /\ Len(z) = Len(x) + Len(y) /\ Len(y) \in Nat
      /\ \A i \in 1..Len(x) : z[i] = x[i]
  BY JoinIs
<1>8. ~\E i : StandsAt(x, tag, i)
  BY FindFinds DEF FoundAt
<1>9. tag[1] = "<"
  BY TagsAre
<1>10. ASSUME NEW i \in 1..Len(o), StandsAt(z, tag, i) PROVE FALSE
  <2> HIDE DEF z, o, k
  <2>1. i \in 1..Len(x) /\ i <= Len(x) - Len(t)
    BY <1>1, <1>2, <1>4
  <2>2. z[i] = tag[1] /\ z[i + 1] = tag[2] /\ z[i + 2] = tag[3]
    BY <1>10 DEF StandsAt
  <2>3. CASE i + 2 <= Len(x)
    <3>1. i + 1 \in 1..Len(x) /\ i + 2 \in 1..Len(x) /\ i \in Nat \ {0}
      BY <1>2, <2>1, <2>3
    <3>2. StandsAt(x, tag, i)
      BY <1>7, <2>1, <2>2, <2>3, <3>1 DEF StandsAt
    <3> QED
      BY <1>8, <3>2
  <2>4. CASE ~(i + 2 <= Len(x))
    <3>1. Len(x) - i < 2
      BY <1>2, <2>1, <2>4
    <3>2. i < Len(x) => x[i + 1] = tag[2]
      <4> SUFFICES ASSUME i < Len(x) PROVE x[i + 1] = tag[2]
        OBVIOUS
      <4>1. i + 1 \in 1..Len(x)
        BY <1>2, <2>1
      <4> QED
        BY <1>7, <2>2, <4>1
    <3>3. x[i] = "<"
      BY <1>7, <1>9, <2>1, <2>2
    <3>4. i > Len(x) - Len(t)
      BY <1>1, <2>1, <3>1, <3>2, <3>3
    <3> QED
      BY <1>1, <1>2, <2>1, <3>4
  <2> QED
    BY <2>3, <2>4
<1>11. \A i \in 1..Len(o) : ~StandsAt(o \o (t \o y), tag, i)
  BY <1>6, <1>10
<1> HIDE DEF o
<1> QED
  BY <1>1, <1>4, <1>5, <1>11 DEF o, t

\* feed, wherever the text was cut: what it lets out, and then what a stripper
\* in the state it leaves makes of what it keeps back and whatever follows.
FeedsAsWhole(here) ==
    LET fed == Filtered[here] IN
    /\ Len(fed.pending) <= 2
    /\ \A y \in Seq(Symbols) :
          StripIn(here.inside, here.rest \o y) = fed.out \o StripIn(fed.inside, fed.pending \o y)

LEMMA FeedIsWhole == \A here \in FilterAt : FeedsAsWhole(here)
<1> DEFINE T == {n \in Nat : \A here \in FilterAt : Len(here.rest) < n => FeedsAsWhole(here)}
<1>1. \A here \in FilterAt : Len(here.rest) \in Nat
  BY DEF FilterAt
<1>2. 0 \in T
  BY <1>1
<1>3. ASSUME NEW n \in Nat, n \in T PROVE n + 1 \in T
  <2> SUFFICES ASSUME NEW here \in FilterAt, Len(here.rest) < n + 1 PROVE FeedsAsWhole(here)
    OBVIOUS
  <2> DEFINE fed == Filtered[here]
             tag == TagFor(here.inside)
             x == here.rest
  <2>1. fed = IF Find(x, tag) # 0 THEN [Filtered[OnFrom(here)] EXCEPT !.out = OutOf(here) \o @]
              ELSE Stopped(here)
    BY FilterUnfolds, FilterBodyIs
  <2>2. x \in Seq(Symbols) /\ here.inside \in BOOLEAN /\ tag \in Tags
    BY DEF FilterAt, TagFor, Tags
  <2>3. OutOf(here) \in Seq(Symbols)
    BY FilterSteps
  <2>4. CASE Find(x, tag) # 0
    <3> DEFINE on == Filtered[OnFrom(here)]
               o == OutOf(here) \o on.out
    <3>1. OnFrom(here) \in FilterAt /\ Len(OnFrom(here).rest) < Len(here.rest)
      BY <2>4, FilterSteps
    <3>2. FeedsAsWhole(OnFrom(here))
      <4>1. Len(OnFrom(here).rest) < n
        BY <1>1, <3>1
      <4> QED
        BY <1>3, <3>1, <4>1
    <3>3. on \in FilterOut
      BY <3>1, FilterUnfolds
    <3>4. fed.pending = on.pending /\ fed.inside = on.inside /\ fed.out = o
      <4>1. fed = [on EXCEPT !.out = o]
        BY <2>1, <2>4, <3>3 DEF FilterOut
      <4> HIDE DEF fed, on, o
      <4> QED
        BY <3>3, <4>1 DEF FilterOut
    <3>5. Len(fed.pending) <= 2
      BY <3>2, <3>4 DEF FeedsAsWhole
    <3>6. ASSUME NEW y \in Seq(Symbols)
          PROVE  StripIn(here.inside, x \o y) = fed.out \o StripIn(fed.inside, fed.pending \o y)
      <4> DEFINE r == StripIn(on.inside, on.pending \o y)
      <4>1. StripIn(here.inside, x \o y) = OutOf(here) \o StripIn(OnFrom(here).inside, OnFrom(here).rest \o y)
        BY <2>4, StripsOn
      <4>2. StripIn(OnFrom(here).inside, OnFrom(here).rest \o y) = on.out \o r
        BY <3>2 DEF FeedsAsWhole
      <4>3. on.out \in Seq(Symbols) /\ on.inside \in BOOLEAN /\ on.pending \o y \in Seq(Symbols)
        <5> HIDE DEF on
        <5> QED
          BY <3>3 DEF FilterOut
      <4>4. r \in Seq(Symbols)
        BY <4>3, StripInTyped
      <4> HIDE DEF r
      <4>5. OutOf(here) \o (on.out \o r) = (OutOf(here) \o on.out) \o r
        <5>1. on.out \in Seq(Symbols)
          BY <4>3
        <5> HIDE DEF on
        <5> QED
          BY <2>3, <4>4, <5>1, JoinAssoc
      <4>6. fed.out \o StripIn(fed.inside, fed.pending \o y) = o \o r
        BY <3>4 DEF r
      <4> HIDE DEF fed, on
      <4> QED
        BY <4>1, <4>2, <4>5, <4>6
    <3> QED
      BY <3>5, <3>6 DEF FeedsAsWhole
  <2>5. CASE Find(x, tag) = 0
    <3> DEFINE t == TailAfterLastLt(x, tag)
               o == SubSeq(x, 1, Len(x) - Len(t))
    <3>1. fed = Stopped(here)
      BY <2>1, <2>5
    <3>2. fed.pending = t /\ fed.inside = here.inside /\ fed.out = IF here.inside THEN <<>> ELSE o
      BY <2>5, <3>1 DEF Stopped, OutOf
    <3>3. o \in Seq(Symbols) /\ t \in Seq(Symbols) /\ Len(t) <= 2 /\ x = o \o t
      <4>1. x \in Seq(Symbols) /\ tag \in Tags /\ Find(x, tag) = 0 /\ <<>> \in Seq(Symbols)
        BY <2>2, <2>5
      <4> HIDE DEF x, tag
      <4> QED
        BY <4>1, KeptBack
    <3>4. ASSUME NEW y \in Seq(Symbols)
          PROVE  StripIn(here.inside, x \o y) = fed.out \o StripIn(fed.inside, fed.pending \o y)
      <4>1. \A i \in 1..Len(o) : ~StandsAt(o \o (t \o y), TagFor(here.inside), i)
        BY <2>2, <2>5, KeptBack
      <4> HIDE DEF o, t, x, fed
      <4>2. t \o y \in Seq(Symbols)
        BY <3>3
      <4>3. StripIn(here.inside, o \o (t \o y))
              = (IF here.inside THEN <<>> ELSE o) \o StripIn(here.inside, t \o y)
        BY <2>2, <3>3, <4>1, <4>2, StripsApart
      <4>4. (o \o t) \o y = o \o (t \o y)
        BY <3>3, ConcatAssociative
      <4> QED
        BY <3>2, <3>3, <4>3, <4>4
    <3>5. Len(fed.pending) <= 2
      BY <3>2, <3>3
    <3> QED
      BY <3>4, <3>5 DEF FeedsAsWhole
  <2> QED
    BY <2>4, <2>5
<1>4. Nat \subseteq T
  <2> HIDE DEF T
  <2> QED
    BY <1>2, <1>3, AllNat
<1>5. \A here \in FilterAt : Len(here.rest) + 1 \in Nat /\ Len(here.rest) < Len(here.rest) + 1
  BY <1>1
<1> QED
  BY <1>4, <1>5

\* What is kept back is no tag, nor has it one.
LEMMA ShortHasNone ==
    ASSUME NEW s \in Seq(Symbols), Len(s) <= 2, NEW tag \in Tags
    PROVE  Find(s, tag) = 0
<1> DEFINE p == Find(s, tag)
<1>1. p \in Nat /\ (p # 0 => StandsAt(s, tag, p))
  BY FindFinds DEF FoundAt
<1> HIDE DEF p
<1>2. \A i : StandsAt(s, tag, i) => i \in Nat \ {0} /\ i + 2 <= Len(s)
  BY DEF StandsAt
<1>3. p = 0
  <2> SUFFICES ASSUME p # 0 PROVE FALSE
    OBVIOUS
  <2>1. p \in Nat \ {0} /\ p + 2 <= Len(s)
    BY <1>1, <1>2
  <2>2. Len(s) \in Nat /\ Len(s) <= 2
    OBVIOUS
  <2> QED
    BY <2>1, <2>2
<1> QED
  BY <1>3 DEF p

-----------------------------------------------------------------------------
\* A request to a model

Message == [text : Seq(Symbols), calls : Seq({"whole", "empty", "text"})]

RTypeOK ==
    /\ provider \in {"openai", "ollama"} /\ streamed \in BOOLEAN
    /\ phase \in {"sending", "reading", "ok", "failed"}
    /\ attempt \in 0..Tries
    /\ inside \in BOOLEAN /\ pending \in Seq(Symbols)
    /\ shown \in Seq(Symbols) /\ raw \in Seq(Symbols)
    /\ toolCalls \in Seq(1..Parts)
    /\ answer \in Message

\* o is shown of r, and the filter is in state in and keeps p back: whatever y
\* follows, the whole is stripped to o and what the filter makes of the rest.
Agree(r, o, in, p) ==
    /\ Len(p) <= 2
    /\ \A y \in Seq(Symbols) : StripThinking[r \o y] = o \o StripIn(in, p \o y)

\* Nothing has been taken of a reply yet.
Untouched == shown = <<>> /\ pending = <<>> /\ inside = FALSE

StreamInv ==
    /\ ~streamed => Untouched
    /\ phase = "sending" => raw = <<>> /\ Untouched
    /\ streamed /\ phase # "ok" => Agree(raw, shown, inside, pending)
    /\ phase = "ok" => Flushed = <<>>
    /\ StripsAsWhole /\ AnswerIsReply

LEMMA AgreeFirst == Agree(<<>>, <<>>, FALSE, <<>>)
<1> SUFFICES ASSUME NEW y \in Seq(Symbols)
             PROVE  StripThinking[<<>> \o y] = <<>> \o StripIn(FALSE, <<>> \o y)
  <2>1. Len(<<>>) <= 2
    OBVIOUS
  <2> QED
    BY <2>1 DEF Agree
<1>1. <<>> \o y = y /\ StripIn(FALSE, y) = StripThinking[y] /\ StripThinking[y] \in Seq(Symbols)
  BY StripUnfolds DEF StripIn
<1>2. <<>> \o StripThinking[y] = StripThinking[y]
  BY <1>1
<1> QED
  BY <1>1, <1>2

\* Another piece of the text.
LEMMA AgreeNext ==
    ASSUME NEW r \in Seq(Symbols), NEW u \in Seq(Symbols), NEW in \in BOOLEAN,
           NEW p \in Seq(Symbols), Agree(r, u, in, p), NEW text \in Seq(Symbols)
    PROVE  LET fed == Filtered[[inside |-> in, rest |-> p \o text]]
           IN  /\ Agree(r \o text, u \o fed.out, fed.inside, fed.pending)
               /\ fed \in FilterOut
<1> DEFINE here == [inside |-> in, rest |-> p \o text]
           fed == Filtered[here]
<1>1. here \in FilterAt /\ here.inside = in /\ here.rest = p \o text
  BY DEF FilterAt
<1> HIDE DEF here
<1>2. fed \in FilterOut /\ FeedsAsWhole(here)
  BY <1>1, FilterUnfolds, FeedIsWhole
<1>3. /\ Len(fed.pending) <= 2
      /\ \A y \in Seq(Symbols) :
            StripIn(in, (p \o text) \o y) = fed.out \o StripIn(fed.inside, fed.pending \o y)
  BY <1>1, <1>2 DEF FeedsAsWhole
<1>4. fed.out \in Seq(Symbols) /\ fed.inside \in BOOLEAN /\ fed.pending \in Seq(Symbols)
  <2> HIDE DEF fed
  <2> QED
    BY <1>2 DEF FilterOut
<1> HIDE DEF fed
<1>5. ASSUME NEW y \in Seq(Symbols)
      PROVE  StripThinking[(r \o text) \o y]
               = (u \o fed.out) \o StripIn(fed.inside, fed.pending \o y)
  <2> DEFINE q == StripIn(fed.inside, fed.pending \o y)
  <2>1. text \o y \in Seq(Symbols) /\ fed.pending \o y \in Seq(Symbols)
    BY <1>4
  <2>2. q \in Seq(Symbols)
    BY <1>4, <2>1, StripInTyped
  <2>3. (r \o text) \o y = r \o (text \o y) /\ (p \o text) \o y = p \o (text \o y)
    <3>1. r \o (text \o y) = (r \o text) \o y
      BY JoinAssoc, ZenonT(40)
    <3>2. p \o (text \o y) = (p \o text) \o y
      BY JoinAssoc, ZenonT(40)
    <3> QED
      BY <3>1, <3>2
  <2>4. StripThinking[r \o (text \o y)] = u \o StripIn(in, p \o (text \o y))
    BY <2>1 DEF Agree
  <2>5. StripIn(in, (p \o text) \o y) = fed.out \o q
    BY <1>3
  <2> HIDE DEF q
  <2>6. u \o (fed.out \o q) = (u \o fed.out) \o q
    <3> DEFINE e == fed.out
    <3>1. e \in Seq(Symbols)
      BY <1>4
    <3> HIDE DEF e
    <3>2. u \o (e \o q) = (u \o e) \o q
      <4>1. u \in Seq(Symbols) /\ e \in Seq(Symbols) /\ q \in Seq(Symbols)
        BY <2>2, <3>1
      <4> QED
        BY <4>1, JoinAssoc, ZenonT(60)
    <3> QED
      BY <3>2 DEF e
  <2> QED
    BY <2>3, <2>4, <2>5, <2>6 DEF q
<1>6. Agree(r \o text, u \o fed.out, fed.inside, fed.pending)
  BY <1>3, <1>5 DEF Agree
<1> QED
  BY <1>2, <1>6 DEF fed, here

\* If the text ends here.
LEMMA AgreeNow ==
    ASSUME NEW r \in Seq(Symbols), NEW u \in Seq(Symbols), NEW in \in BOOLEAN,
           NEW p \in Seq(Symbols), Agree(r, u, in, p)
    PROVE  StripThinking[r] = u \o (IF in THEN <<>> ELSE p)
<1>1. <<>> \in Seq(Symbols) /\ r \o <<>> = r /\ p \o <<>> = p
  OBVIOUS
<1>2. StripThinking[r] = u \o StripIn(in, p)
  <2>1. StripThinking[r \o <<>>] = u \o StripIn(in, p \o <<>>)
    BY <1>1 DEF Agree
  <2> QED
    BY <1>1, <2>1
<1>3. Find(p, OpenTag) = 0 /\ Find(p, CloseTag) = 0
  <2>1. Len(p) <= 2
    BY DEF Agree
  <2> QED
    BY <2>1, ShortHasNone DEF Tags
<1>4. StripThinking[p] = p
  BY <1>3, StripIs
<1> QED
  BY <1>2, <1>3, <1>4 DEF StripIn

LEMMA StreamBounds == MaxRetries \in Nat /\ MaxPiece \in Nat /\ MaxToolCalls \in Nat /\ Parts \in Nat \ {0}
BY StreamAssumption

LEMMA PieceIsText == \A text \in Pieces \cup {<<>>} : text \in Seq(Symbols)
<1> TAKE text \in Pieces \cup {<<>>}
<1>1. CASE text = <<>>
  BY <1>1
<1>2. CASE text \in Pieces
  <2>1. PICK n \in 1..MaxPiece : text \in [1..n -> Symbols]
    BY <1>2 DEF Pieces
  <2>2. n \in Nat
    BY StreamBounds
  <2> HIDE DEF Symbols
  <2> QED
    BY <2>1, <2>2
<1> QED
  BY <1>1, <1>2

LEMMA TriesNat == provider \in {"openai", "ollama"} => Tries \in Nat
BY StreamBounds DEF Tries

\* Every piece fed to the filter.
LEMMA FedTypes ==
    ASSUME RTypeOK, NEW text \in Seq(Symbols)
    PROVE  Feed(text) \in FilterOut /\ Feed(text).inside \in BOOLEAN
           /\ Feed(text).pending \in Seq(Symbols) /\ Feed(text).out \in Seq(Symbols)
<1>1. [inside |-> inside, rest |-> pending \o text] \in FilterAt
  BY DEF RTypeOK, FilterAt
<1>2. Feed(text) \in FilterOut
  BY <1>1, FilterUnfolds DEF Feed
<1> QED
  BY <1>2 DEF FilterOut

LEMMA NormalizedTypes ==
    ASSUME NEW m \in Message
    PROVE  /\ Stripped(m) \in Message /\ Stripped(m).text = StripThinking[m.text]
           /\ Stripped(m).calls = m.calls
           /\ Normalized(m) \in Message
           /\ \/ Normalized(m).text = StripThinking[m.text]
              \/ StripThinking[m.text] = CallText /\ Normalized(m).calls = <<"text">>
<1> DEFINE CallLists == Seq({"whole", "empty", "text"})
           t == StripThinking[m.text]
           n == Stripped(m)
<1>1. m.text \in Seq(Symbols) /\ m.calls \in CallLists
  BY DEF Message
<1>2. t \in Seq(Symbols)
  BY <1>1, StripUnfolds
<1>3. n = [m EXCEPT !.text = t]
  BY DEF Stripped, Message
<1> HIDE DEF n, t
<1>4. n \in Message /\ n.text = t /\ n.calls = m.calls
  BY <1>2, <1>3 DEF Message
<1>5. CASE n.calls = <<>> /\ n.text = CallText
  <2> DEFINE c == [text |-> <<>>, calls |-> <<"text">>]
  <2>1. Normalized(m) = c
    BY <1>5 DEF Normalized, Synthesized, n
  <2>2. c \in Message /\ c.calls = <<"text">>
    <3>1. <<>> \in Seq(Symbols) /\ <<"text">> \in CallLists
      OBVIOUS
    <3> QED
      BY <3>1 DEF Message
  <2> QED
    BY <1>4, <1>5, <2>1, <2>2 DEF t, n
<1>6. CASE ~(n.calls = <<>> /\ n.text = CallText)
  <2>1. Normalized(m) = n
    BY <1>6 DEF Normalized, Synthesized, n
  <2> QED
    BY <1>4, <2>1 DEF t, n
<1> QED
  BY <1>5, <1>6

LEMMA WholeCallsType == \A k \in 0..MaxToolCalls : WholeCalls(k) \in Seq({"whole", "empty", "text"})
<1> TAKE k \in 0..MaxToolCalls
<1>1. k \in Nat
  BY StreamBounds
<1>2. WholeCalls(k) \in [1..k -> {"whole", "empty", "text"}]
  BY DEF WholeCalls
<1> QED
  BY <1>1, <1>2

LEMMA BuiltType == toolCalls \in Seq(1..Parts) => Built \in Seq({"whole", "empty", "text"})
<1> HAVE toolCalls \in Seq(1..Parts)
<1>1. DOMAIN toolCalls = 1..Len(toolCalls) /\ Len(toolCalls) \in Nat
  OBVIOUS
<1>2. Built \in [1..Len(toolCalls) -> {"whole", "empty", "text"}]
  BY <1>1 DEF Built
<1> QED
  BY <1>1, <1>2

LEMMA MessageType ==
    ASSUME NEW t \in Seq(Symbols), NEW c \in Seq({"whole", "empty", "text"})
    PROVE  [text |-> t, calls |-> c] \in Message
BY DEF Message

LEMMA RequestTypesInit == RInit => RTypeOK
<1> HAVE RInit
<1>1. <<>> \in Seq(Symbols) /\ <<>> \in Seq(1..Parts) /\ <<>> \in Seq({"whole", "empty", "text"})
  OBVIOUS
<1>2. answer \in Message
  BY <1>1, MessageType DEF RInit, NoMessage
<1>3. provider \in {"openai", "ollama"}
  BY StreamAssumption DEF RInit
<1>4. attempt \in 0..Tries
  BY <1>3, TriesNat DEF RInit
<1> QED
  BY <1>1, <1>2, <1>3, <1>4 DEF RInit, RTypeOK

LEMMA RequestTypesStep == RTypeOK /\ [RNext]_rvars => RTypeOK'
<1> SUFFICES ASSUME RTypeOK, [RNext]_rvars PROVE RTypeOK'
  OBVIOUS
<1>0. /\ provider \in {"openai", "ollama"} /\ streamed \in BOOLEAN
      /\ phase \in {"sending", "reading", "ok", "failed"}
      /\ attempt \in 0..Tries /\ Tries \in Nat
      /\ inside \in BOOLEAN /\ pending \in Seq(Symbols)
      /\ shown \in Seq(Symbols) /\ raw \in Seq(Symbols)
      /\ toolCalls \in Seq(1..Parts) /\ answer \in Message
  BY TriesNat DEF RTypeOK
<1>e. <<>> \in Seq(Symbols)
  OBVIOUS
<1>1. UNCHANGED provider => Tries' = Tries
  BY DEF Tries
<1>2. CASE Sending
  <2>1. UNCHANGED <<provider, streamed, inside, pending, shown, toolCalls, answer, raw>>
    BY <1>2 DEF Sending, ConnectFails, Overloaded, Rejected, Accepted, Reply, filter
  <2>2. phase' \in {"sending", "reading", "ok", "failed"}
    BY <1>0, <1>2 DEF Sending, ConnectFails, Overloaded, Rejected, Accepted, Again
  <2>3. attempt' = attempt \/ attempt' = 0 \/ (attempt < Tries /\ attempt' = attempt + 1)
    BY <1>2 DEF Sending, ConnectFails, Overloaded, Rejected, Accepted, Again
  <2>4. attempt' \in 0..Tries
    BY <1>0, <2>3
  <2> QED
    BY <1>0, <1>1, <2>1, <2>2, <2>4 DEF RTypeOK
<1>3. CASE Body
  <2>1. PICK text \in Pieces : raw' = raw \o text
    BY <1>3 DEF Body
  <2>2. raw' \in Seq(Symbols)
    <3>1. text \in Seq(Symbols)
      BY PieceIsText
    <3> QED
      BY <1>0, <2>1, <3>1
  <2>3. UNCHANGED <<provider, streamed, attempt, phase, inside, pending, shown, toolCalls, answer>>
    BY <1>3 DEF Body, Request, filter
  <2> QED
    BY <1>0, <1>1, <2>2, <2>3 DEF RTypeOK
<1>4. CASE WholeReply
  <2>1. PICK n \in 0..MaxToolCalls :
          /\ phase' = "ok"
          /\ answer' = IF provider = "ollama" THEN Normalized([text |-> raw, calls |-> WholeCalls(n)])
                       ELSE Stripped([text |-> raw, calls |-> WholeCalls(n)])
    BY <1>4 DEF WholeReply, Answers
  <2>2. [text |-> raw, calls |-> WholeCalls(n)] \in Message
    BY <1>0, WholeCallsType, MessageType
  <2>3. answer' \in Message
    BY <2>1, <2>2, NormalizedTypes
  <2>4. UNCHANGED <<provider, streamed, attempt, inside, pending, shown, toolCalls, raw>>
    BY <1>4 DEF WholeReply, Request, filter
  <2> QED
    BY <1>0, <1>1, <2>1, <2>3, <2>4 DEF RTypeOK
<1>5. CASE BodyBreaks
  <2>1. UNCHANGED <<provider, streamed, inside, pending, shown, toolCalls, answer>> /\ raw' = <<>>
    BY <1>5 DEF BodyBreaks, filter
  <2>2. /\ phase' \in {"sending", "failed"}
        /\ attempt' = attempt \/ (attempt < Tries /\ attempt' = attempt + 1)
    BY <1>5 DEF BodyBreaks
  <2>3. attempt' \in 0..Tries
    BY <1>0, <2>2
  <2> QED
    BY <1>0, <1>e, <1>1, <2>1, <2>2, <2>3 DEF RTypeOK
<1>6. CASE BadBody
  <2>1. /\ UNCHANGED <<provider, streamed, attempt, inside, pending, shown, toolCalls, answer>>
        /\ raw' = <<>> /\ phase' = "failed"
    BY <1>6 DEF BadBody, Request, filter
  <2> QED
    BY <1>0, <1>e, <1>1, <2>1 DEF RTypeOK
<1>7. CASE Text
  <2>1. PICK text \in Pieces : Token(text)
    BY <1>7 DEF Text
  <2>2. text \in Seq(Symbols)
    BY PieceIsText
  <2>3. /\ Feed(text).inside \in BOOLEAN /\ Feed(text).pending \in Seq(Symbols)
        /\ Feed(text).out \in Seq(Symbols)
    BY <2>2, FedTypes
  <2>4. /\ raw' = raw \o text /\ inside' = Feed(text).inside /\ pending' = Feed(text).pending
        /\ shown' = shown \o Feed(text).out
    BY <2>1 DEF Token
  <2>5. raw' \in Seq(Symbols) /\ shown' \in Seq(Symbols)
    BY <1>0, <2>2, <2>3, <2>4
  <2>6. UNCHANGED <<provider, streamed, attempt, phase, toolCalls, answer>>
    BY <1>7 DEF Text, Request
  <2> QED
    BY <1>0, <1>1, <2>3, <2>4, <2>5, <2>6 DEF RTypeOK
<1>8. CASE CallPart
  <2>1. toolCalls' \in Seq(1..Parts)
    <3>1. 1 \in 1..Parts /\ Parts \in Nat
      BY StreamBounds
    <3>2. CASE toolCalls' = Append(toolCalls, 1)
      BY <1>0, <3>1, <3>2
    <3>3. ASSUME NEW i \in DOMAIN toolCalls, toolCalls[i] < Parts,
                 toolCalls' = [toolCalls EXCEPT ![i] = @ + 1]
          PROVE  toolCalls' \in Seq(1..Parts)
      <4>0. DOMAIN toolCalls = 1..Len(toolCalls)
        BY <1>0
      <4>1. i \in 1..Len(toolCalls) /\ toolCalls[i] \in 1..Parts
        BY <1>0, <4>0, ElementOfSeq
      <4>2. toolCalls[i] + 1 \in 1..Parts
        BY <3>1, <3>3, <4>1
      <4>3. [toolCalls EXCEPT ![i] = toolCalls[i] + 1] \in Seq(1..Parts)
        BY <1>0, <4>1, <4>2, ExceptSeq
      <4> QED
        BY <3>3, <4>3
    <3> QED
      BY <1>8, <3>2, <3>3 DEF CallPart
  <2>2. UNCHANGED <<provider, streamed, attempt, phase, inside, pending, shown, answer, raw>>
    BY <1>8 DEF CallPart, Request, filter
  <2> QED
    BY <1>0, <1>1, <2>1, <2>2 DEF RTypeOK
<1>9. CASE StreamEnds
  <2>1. /\ shown' = shown \o Flushed /\ pending' = <<>> /\ inside' = FALSE /\ phase' = "ok"
        /\ answer' = [text |-> shown', calls |-> Built]
        /\ UNCHANGED <<provider, streamed, attempt, toolCalls, raw>>
    BY <1>9 DEF StreamEnds, Answers, Request
  <2>2. Flushed \in Seq(Symbols)
    BY <1>0, <1>e DEF Flushed
  <2>3. shown' \in Seq(Symbols)
    BY <1>0, <2>1, <2>2
  <2>4. answer' \in Message
    BY <1>0, <2>1, <2>3, BuiltType, MessageType
  <2> QED
    BY <1>0, <1>e, <1>1, <2>1, <2>3, <2>4 DEF RTypeOK
<1>10. CASE DoneChunk
  <2>1. PICK text \in Pieces \cup {<<>>}, n \in 0..MaxToolCalls :
          /\ raw' = raw \o text
          /\ shown' = shown \o Feed(text).out
                         \o (IF Feed(text).inside THEN <<>> ELSE Feed(text).pending)
          /\ answer' = Normalized([text |-> shown', calls |-> WholeCalls(n)]) /\ phase' = "ok"
    BY <1>10 DEF DoneChunk, Answers
  <2>2. text \in Seq(Symbols)
    BY PieceIsText
  <2>3. Feed(text).pending \in Seq(Symbols) /\ Feed(text).out \in Seq(Symbols)
    BY <2>2, FedTypes
  <2>4. (IF Feed(text).inside THEN <<>> ELSE Feed(text).pending) \in Seq(Symbols)
    BY <1>e, <2>3
  <2>5. raw' \in Seq(Symbols) /\ shown' \in Seq(Symbols)
    BY <1>0, <2>1, <2>2, <2>3, <2>4
  <2>6. answer' \in Message
    <3>1. [text |-> shown', calls |-> WholeCalls(n)] \in Message
      BY <2>5, WholeCallsType, MessageType
    <3> QED
      BY <2>1, <3>1, NormalizedTypes
  <2>7. /\ inside' = FALSE /\ pending' = <<>>
        /\ UNCHANGED <<provider, streamed, attempt, toolCalls>>
    BY <1>10 DEF DoneChunk, Request
  <2> QED
    BY <1>0, <1>e, <1>1, <2>1, <2>5, <2>6, <2>7 DEF RTypeOK
<1>11. CASE StreamBreaks
  <2>1. /\ UNCHANGED <<provider, streamed, attempt, inside, pending, shown, toolCalls, answer, raw>>
        /\ phase' = "failed"
    BY <1>11 DEF StreamBreaks, Request, filter
  <2> QED
    BY <1>0, <1>1, <2>1 DEF RTypeOK
<1>12. CASE UNCHANGED rvars
  BY <1>0, <1>1, <1>12 DEF RTypeOK, rvars, filter
<1> QED
  BY <1>2, <1>3, <1>4, <1>5, <1>6, <1>7, <1>8, <1>9, <1>10, <1>11, <1>12 DEF RNext, Sending, RequestOver

\* A request's tries are within what is allowed, its filter's state and its texts
\* are texts, its calls have no more parts than a call has (with_retry, ThinkStripper).
THEOREM RequestTypes == RSpec => []RTypeOK
<1>1. RInit => RTypeOK
  BY RequestTypesInit
<1>2. RTypeOK /\ [RNext]_rvars => RTypeOK'
  BY RequestTypesStep
<1> QED
  BY <1>1, <1>2, PTL DEF RSpec

LEMMA StreamInit == RInit => StreamInv
<1> HAVE RInit
<1>1. /\ raw = <<>> /\ shown = <<>> /\ pending = <<>> /\ inside = FALSE /\ phase = "sending"
  BY DEF RInit
<1>2. Agree(raw, shown, inside, pending)
  BY <1>1, AgreeFirst
<1>3. StripThinking[raw] = shown \o Flushed
  <2>1. <<>> \in Seq(Symbols)
    OBVIOUS
  <2> QED
    BY <1>1, <1>2, <2>1, AgreeNow DEF Flushed
<1> QED
  BY <1>1, <1>2, <1>3 DEF StreamInv, Untouched, StripsAsWhole, AnswerIsReply

\* What was shown of a reply that is over, or goes on, is what stripping leaves.
LEMMA AgreeStrips ==
    ASSUME RTypeOK, Agree(raw, shown, inside, pending)
    PROVE  StripThinking[raw] = shown \o Flushed
BY AgreeNow DEF RTypeOK, Flushed

LEMMA StreamStep == RTypeOK /\ StreamInv /\ [RNext]_rvars => StreamInv'
<1> SUFFICES ASSUME RTypeOK, RTypeOK', StreamInv, [RNext]_rvars PROVE StreamInv'
  BY RequestTypesStep
<1>0. /\ ~streamed => Untouched
      /\ phase = "sending" => raw = <<>> /\ Untouched
      /\ streamed /\ phase # "ok" => Agree(raw, shown, inside, pending)
      /\ phase = "ok" => Flushed = <<>>
      /\ StripsAsWhole /\ AnswerIsReply
      /\ streamed \in BOOLEAN /\ provider \in {"openai", "ollama"}
  BY DEF StreamInv, RTypeOK
<1>e. <<>> \in Seq(Symbols)
  OBVIOUS
\* Steps that leave the text, and whatever was shown, alone.
<1>1. ASSUME UNCHANGED <<provider, streamed, inside, pending, shown, raw>>,
             phase # "ok", phase' # "ok", phase' = "sending" => phase = "sending"
      PROVE  StreamInv'
  <2>1. Untouched => Untouched'
    BY <1>1 DEF Untouched
  <2>2. streamed' => Agree(raw, shown, inside, pending)' /\ StripsAsWhole'
    BY <1>0, <1>1 DEF Agree, StripsAsWhole, Flushed
  <2> QED
    BY <1>0, <1>1, <2>1, <2>2 DEF StreamInv, StripsAsWhole, AnswerIsReply
<1>2. CASE Sending
  <2>1. UNCHANGED <<provider, streamed, inside, pending, shown, raw>>
    BY <1>2 DEF Sending, ConnectFails, Overloaded, Rejected, Accepted, Reply, filter
  <2>2. phase = "sending" /\ phase' # "ok"
    BY <1>2 DEF Sending, ConnectFails, Overloaded, Rejected, Accepted, Again
  <2> QED
    BY <1>1, <2>1, <2>2
\* Steps of a reply in one body: nothing is shown of it.
<1>3. ASSUME ~streamed, UNCHANGED <<provider, streamed, inside, pending, shown>>,
             phase' = "sending" => raw' = <<>>, AnswerIsReply'
      PROVE  StreamInv'
  <2>1. Untouched'
    BY <1>0, <1>3 DEF Untouched
  <2>2. Flushed' = <<>>
    BY <2>1 DEF Untouched, Flushed
  <2> QED
    BY <1>3, <2>1, <2>2 DEF StreamInv, StripsAsWhole
<1>4. CASE Body
  <2>1. /\ ~streamed /\ phase = "reading" /\ phase' = phase
        /\ UNCHANGED <<provider, streamed, inside, pending, shown>>
    BY <1>4 DEF Body, Request, filter
  <2> QED
    BY <1>3, <2>1 DEF AnswerIsReply
<1>5. CASE WholeReply
  <2>1. ~streamed /\ UNCHANGED <<provider, streamed, inside, pending, shown, raw>> /\ phase' = "ok"
    BY <1>5 DEF WholeReply, Answers, Request, filter
  <2>2. PICK n \in 0..MaxToolCalls :
          answer' = IF provider = "ollama" THEN Normalized([text |-> raw, calls |-> WholeCalls(n)])
                    ELSE Stripped([text |-> raw, calls |-> WholeCalls(n)])
    BY <1>5 DEF WholeReply, Answers
  <2> DEFINE m == [text |-> raw, calls |-> WholeCalls(n)]
  <2>3. m \in Message /\ m.text = raw
    <3>1. raw \in Seq(Symbols)
      BY DEF RTypeOK
    <3> QED
      BY <3>1, WholeCallsType, MessageType
  <2> HIDE DEF m
  <2>4. \/ answer'.text = StripThinking[raw]
        \/ provider = "ollama" /\ StripThinking[raw] = CallText /\ answer'.calls = <<"text">>
    BY <2>2, <2>3, NormalizedTypes DEF m
  <2>5. AnswerIsReply'
    BY <2>1, <2>4 DEF AnswerIsReply
  <2> QED
    BY <1>3, <2>1, <2>5
<1>6. CASE BodyBreaks
  <2>1. /\ ~streamed /\ UNCHANGED <<provider, streamed, inside, pending, shown>>
        /\ raw' = <<>> /\ phase' # "ok"
    BY <1>6 DEF BodyBreaks, filter
  <2> QED
    BY <1>3, <2>1 DEF AnswerIsReply
<1>7. CASE BadBody
  <2>1. /\ ~streamed /\ UNCHANGED <<provider, streamed, inside, pending, shown>>
        /\ raw' = <<>> /\ phase' # "ok"
    BY <1>7 DEF BadBody, Request, filter
  <2> QED
    BY <1>3, <2>1 DEF AnswerIsReply
<1>8. CASE Text
  <2>1. PICK text \in Pieces : Token(text)
    BY <1>8 DEF Text
  <2>2. text \in Seq(Symbols)
    BY PieceIsText
  <2>3. /\ streamed /\ phase = "reading" /\ phase' = "reading" /\ UNCHANGED <<provider, streamed>>
    BY <1>8 DEF Text, Request
  <2>4. /\ raw' = raw \o text /\ inside' = Feed(text).inside /\ pending' = Feed(text).pending
        /\ shown' = shown \o Feed(text).out
    BY <2>1 DEF Token
  <2>5. Agree(raw, shown, inside, pending)
    BY <1>0, <2>3
  <2>6. Agree(raw \o text, shown \o Feed(text).out, Feed(text).inside, Feed(text).pending)
    BY <2>2, <2>5, AgreeNext DEF RTypeOK, Feed
  <2>7. Agree(raw', shown', inside', pending')
    BY <2>4, <2>6
  <2>8. StripThinking[raw'] = shown' \o (IF inside' THEN <<>> ELSE pending')
    BY <2>7, AgreeNow DEF RTypeOK
  <2> QED
    BY <2>3, <2>7, <2>8 DEF StreamInv, StripsAsWhole, AnswerIsReply, Flushed
<1>9. CASE CallPart
  <2>1. UNCHANGED <<provider, streamed, phase, inside, pending, shown, raw>> /\ phase = "reading"
    BY <1>9 DEF CallPart, Request, filter
  <2> QED
    BY <1>1, <2>1
<1>10. CASE StreamEnds
  <2>1. /\ shown' = shown \o Flushed /\ pending' = <<>> /\ inside' = FALSE /\ phase' = "ok"
        /\ answer' = [text |-> shown', calls |-> Built]
        /\ provider = "openai" /\ streamed /\ phase = "reading"
        /\ UNCHANGED <<provider, streamed, raw>>
    BY <1>10 DEF StreamEnds, Answers, Request
  <2>2. StripThinking[raw] = shown'
    BY <1>0, <2>1, AgreeStrips
  <2>3. shown' \o <<>> = shown' /\ Flushed' = <<>>
    BY <2>1 DEF RTypeOK, Flushed
  <2>4. answer'.text = shown'
    BY <2>1
  <2> QED
    BY <2>1, <2>2, <2>3, <2>4 DEF StreamInv, StripsAsWhole, AnswerIsReply
<1>11. CASE DoneChunk
  <2>1. PICK text \in Pieces \cup {<<>>}, n \in 0..MaxToolCalls :
          /\ raw' = raw \o text
          /\ shown' = shown \o Feed(text).out
                         \o (IF Feed(text).inside THEN <<>> ELSE Feed(text).pending)
          /\ answer' = Normalized([text |-> shown', calls |-> WholeCalls(n)])
    BY <1>11 DEF DoneChunk, Answers
  <2>2. text \in Seq(Symbols)
    BY PieceIsText
  <2>3. /\ streamed /\ phase = "reading" /\ phase' = "ok" /\ provider = "ollama"
        /\ inside' = FALSE /\ pending' = <<>> /\ UNCHANGED <<provider, streamed>>
    BY <1>11 DEF DoneChunk, Request, Answers
  <2>4. /\ Feed(text).inside \in BOOLEAN /\ Feed(text).pending \in Seq(Symbols)
        /\ Feed(text).out \in Seq(Symbols)
    BY <2>2, FedTypes
  <2>5. Agree(raw \o text, shown \o Feed(text).out, Feed(text).inside, Feed(text).pending)
    <3>1. /\ Agree(raw, shown, inside, pending) /\ raw \in Seq(Symbols) /\ shown \in Seq(Symbols)
          /\ inside \in BOOLEAN /\ pending \in Seq(Symbols)
      BY <1>0, <2>3 DEF RTypeOK
    <3> QED
      BY <2>2, <3>1, AgreeNext DEF Feed
  <2>6. StripThinking[raw'] = shown'
    <3>1. raw \o text \in Seq(Symbols) /\ shown \o Feed(text).out \in Seq(Symbols)
      BY <2>2, <2>4 DEF RTypeOK
    <3>2. StripThinking[raw \o text]
            = (shown \o Feed(text).out) \o (IF Feed(text).inside THEN <<>> ELSE Feed(text).pending)
      <4> DEFINE r == raw \o text
                 u == shown \o Feed(text).out
                 in == Feed(text).inside
                 p == Feed(text).pending
      <4>1. /\ r \in Seq(Symbols) /\ u \in Seq(Symbols) /\ in \in BOOLEAN /\ p \in Seq(Symbols)
            /\ Agree(r, u, in, p)
        BY <2>4, <2>5, <3>1
      <4> HIDE DEF r, u, in, p
      <4>2. StripThinking[r] = u \o (IF in THEN <<>> ELSE p)
        BY <4>1, AgreeNow
      <4> QED
        BY <4>2 DEF r, u, in, p
    <3> QED
      BY <2>1, <3>2
  <2>7. shown' \o <<>> = shown' /\ Flushed' = <<>>
    BY <2>3 DEF RTypeOK, Flushed
  <2> DEFINE m == [text |-> shown', calls |-> WholeCalls(n)]
  <2>8. m \in Message /\ m.text = shown'
    <3>1. shown' \in Seq(Symbols)
      BY DEF RTypeOK
    <3> QED
      BY <3>1, WholeCallsType, MessageType
  <2>9. answer' = Normalized(m)
    BY <2>1
  <2> HIDE DEF m
  <2>10. \/ answer'.text = StripThinking[shown']
         \/ StripThinking[shown'] = CallText /\ answer'.calls = <<"text">>
    BY <2>8, <2>9, NormalizedTypes
  <2>11. AnswerIsReply'
    BY <2>3, <2>6, <2>10 DEF AnswerIsReply
  <2> QED
    BY <2>3, <2>6, <2>7, <2>11 DEF StreamInv, StripsAsWhole
<1>12. CASE StreamBreaks
  <2>1. /\ UNCHANGED <<provider, streamed, inside, pending, shown, raw>>
        /\ phase = "reading" /\ phase' = "failed"
    BY <1>12 DEF StreamBreaks, Request, filter
  <2> QED
    BY <1>1, <2>1
<1>13. CASE UNCHANGED rvars
  BY <1>13 DEF StreamInv, Untouched, Agree, Flushed, StripsAsWhole, AnswerIsReply, rvars, filter
<1> QED
  BY <1>2, <1>4, <1>5, <1>6, <1>7, <1>8, <1>9, <1>10, <1>11, <1>12, <1>13
     DEF RNext, Sending, RequestOver

LEMMA StreamHolds == RSpec => [](RTypeOK /\ StreamInv)
<1>1. RInit => RTypeOK /\ StreamInv
  BY RequestTypesInit, StreamInit
<1>2. RTypeOK /\ StreamInv /\ [RNext]_rvars => (RTypeOK /\ StreamInv)'
  BY RequestTypesStep, StreamStep
<1> QED
  BY <1>1, <1>2, PTL DEF RSpec

\* Wherever the stream cut the text, what is shown of it is what stripping all of
\* it at once leaves, but for what may yet be a tag (ThinkStripper::feed, flush).
THEOREM StrippedWherever == RSpec => []StripsAsWhole
<1>1. RTypeOK /\ StreamInv => StripsAsWhole
  BY DEF StreamInv
<1> QED
  BY <1>1, StreamHolds, PTL

\* What is kept of a reply is what was, or would have been, shown of it: stripped,
\* once more by Ollama's client, or read as a call (normalize_assistant_message).
THEOREM ReplyKept == RSpec => []AnswerIsReply
<1>1. RTypeOK /\ StreamInv => AnswerIsReply
  BY DEF StreamInv
<1> QED
  BY <1>1, StreamHolds, PTL

\* A request is tried again only while nothing of its reply has been shown
\* (with_retry, chat_stream).
THEOREM ShownOnce == RSpec => NeverShownTwice
<1>1. RTypeOK /\ StreamInv /\ [RNext]_rvars => [phase' = "sending" => shown = <<>>]_rvars
  <2> SUFFICES ASSUME RTypeOK, StreamInv, [RNext]_rvars, phase' = "sending", ~UNCHANGED rvars
               PROVE  shown = <<>>
    OBVIOUS
  <2>1. phase = "sending" \/ ~streamed
    BY DEF RNext, ConnectFails, Overloaded, Rejected, Accepted, Again, Body, WholeReply, BodyBreaks,
           BadBody, Text, CallPart, StreamEnds, DoneChunk, StreamBreaks, RequestOver, Answers
  <2> QED
    BY <2>1 DEF StreamInv, Untouched
<1> QED
  BY <1>1, StreamHolds, PTL DEF RSpec, NeverShownTwice
=============================================================================
