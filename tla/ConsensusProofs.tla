--------------------------- MODULE ConsensusProofs ---------------------------
(***************************************************************************)
(* Proofs about Consensus, whatever the number of models, the permits and  *)
(* the order in which candidates, their children and their jobs get on:    *)
(* candidates work apart, a run that returns leaves nothing behind, its    *)
(* verdict stands on what the candidates said, and children are used as    *)
(* ChildRun says.  One inductive invariant in eight parts carries all four.*)
(***************************************************************************)
EXTENDS Consensus, SubsequencesProofs, FiniteSetTheorems

Phases == {"idle", "running", "grading", "judging", "returned", "cancelled"}
Stages == Waiting \cup {"queued", "done", "dropped"}
CallStates == {"idle", "running", "returned", "dropped"}
ChildStates == {"none", "alive", "exited", "condemned"}
Entries == [model : Candidates, ok : BOOLEAN, text : Answers \cup {"none"}]

ATyped ==
    /\ request \in Requests /\ phase \in Phases
    /\ strategy \in Strategies \cup {"unread"}
    /\ stage \in [Candidates -> Stages]
    /\ call \in [Candidates -> CallStates] /\ child \in [Candidates -> ChildStates]
    /\ outcome \in [Candidates -> Outcomes]
    /\ arrived \in Seq(Candidates) /\ edits \in Seq(Candidates)
    /\ job \in [Candidates -> Jobs]
    /\ dirs \subseteq Candidates /\ admin \subseteq Candidates
    /\ branches \subseteq Candidates /\ botched \subseteq Candidates

CleaningUp == {"remove", "prune", "branch", "parent"}

\* What the await of a candidate says of its job and of its child.
Rung(at, j, c, d) ==
    /\ at \in {"queued", "asking"} => j = "none"
    /\ at = "provisioning" => j # "none"
    /\ at = "working" => j = "made"
    /\ at = "cleaning" => j \in CleaningUp \cup {"gone"}
    /\ at = "done" => j \in {"none", "gone"}
    /\ at = "dropped" => j # "made"
    /\ c = "running" <=> at = "working"
    /\ at \in {"queued", "asking", "provisioning"} => c = "idle"
    /\ c = "idle" => d = "none"
    /\ d = "alive" => c = "running"

Ladder == \A i \in Candidates : Rung(stage[i], job[i], call[i], child[i])

\* What the job of a session says of what is in the repository.
Repository ==
    \A i \in Candidates :
        /\ i \in dirs => \/ job[i] \in CleaningUp \cup {"made"}
                         \/ job[i] = "gone" /\ i \in botched
        /\ job[i] = "made" => i \in dirs
        /\ job[i] \in {"none", "adding"} => i \notin admin /\ i \notin branches
        /\ i \notin botched =>
              /\ job[i] \in {"prune", "branch", "parent", "gone"} => i \notin admin
              /\ job[i] \in {"parent", "gone"} => i \notin branches

\* Where the candidates are in each phase, and who has arrived.
Advance ==
    /\ phase = "idle" => \A i \in Candidates : stage[i] = "queued"
    /\ phase \in {"grading", "judging"} => \A i \in Candidates : stage[i] = "done"
    /\ phase = "returned" =>
          (\A i \in Candidates : stage[i] = "queued") \/ (\A i \in Candidates : stage[i] = "done")
    /\ \A i \in Candidates : stage[i] = "dropped" => phase = "cancelled"
    /\ phase = "cancelled" => \A i \in Candidates : stage[i] \notin Waiting

Arrivals ==
    /\ \A k, l \in 1..Len(arrived) : arrived[k] = arrived[l] => k = l
    /\ \A i \in Candidates : stage[i] = "done" <=> \E k \in 1..Len(arrived) : arrived[k] = i

\* Those that hold a permit, or did when the run was cancelled.
Holding == {i \in Candidates : stage[i] \in Waiting \cup {"dropped"}}

Room == Cardinality(Holding) <= Permits

\* The changes of an in-process candidate are together; one that may still
\* change something has made the last.
Turns ==
    /\ \A a, b, c \in 1..Len(edits) : (a < b /\ b < c /\ edits[a] = edits[c]) => edits[b] = edits[a]
    /\ \A a \in 1..Len(edits) :
          /\ stage[edits[a]] # "queued"
          /\ stage[edits[a]] = "asking" => edits[Len(edits)] = edits[a]
    /\ edits # <<>> => request.mode = "tools"

\* The verdict, as far as it has come.
Verdict ==
    /\ phase \in {"idle", "running"} => results = <<>> /\ scores = <<>>
    /\ phase \in {"grading", "judging"} =>
          results # <<>> /\ Won(results) # {} /\ scores = <<>>
    /\ phase = "grading" => strategy = "best-of-n"
    /\ (phase = "judging" /\ strategy = "vote") => Cardinality(Leaders(results)) # 1
    /\ results # <<>> =>
          /\ results = [k \in Candidates |-> Entry(k)]
          /\ \A i \in Candidates : stage[i] = "done"
    /\ WinnerStands

CInv == ATyped /\ Ladder /\ Repository /\ Advance /\ Arrivals /\ Room /\ Turns /\ Verdict

-----------------------------------------------------------------------------
\* Facts about the constants, and how a step is told from another

LEMMA Several ==
    /\ N \in Nat \ {0, 1} /\ Sessions = Candidates
    /\ IsFiniteSet(Candidates) /\ Cardinality(Candidates) = N
  BY ConsensusAssumption, FS_Interval DEF Candidates

\* A step of one candidate, told by what it does to the candidate's stage.
Asked(i) ==
    \/ Begin(i) \/ Edit(i) \/ \E o \in Outcomes : Answer(i, o)

Isolated(i) ==
    \/ ProvisionFailed(i) \/ Unusable(i) \/ Work(i)
    \/ \E how \in {"exited", "condemned"} : ChildEnds(i, how)
    \/ \E o \in Outcomes : WorkReturns(i, o)
    \/ Cleaned(i) \/ Job(i)

\* The steps that end the gathering of answers and those of the choice.
Chooses ==
    \/ \E k \in Candidates : Pick(k)
    \/ \E n \in Candidates : \E given \in [1..n -> 0..MaxScore] : Grade(given)
    \/ GraderFails

LEMMA Kinds ==
    ASSUME [Next]_vars
    PROVE  \/ Refuse \/ Run
           \/ \E i \in Candidates : Asked(i) \/ Isolated(i)
           \/ Collect \/ Chooses \/ Cancel
           \/ UNCHANGED vars
<1>1. CASE \E i \in Candidates :
              \/ Begin(i) \/ Edit(i)
              \/ \E o \in Outcomes : Answer(i, o) \/ WorkReturns(i, o)
              \/ ProvisionFailed(i) \/ Unusable(i) \/ Work(i)
              \/ \E how \in {"exited", "condemned"} : ChildEnds(i, how)
              \/ Cleaned(i)
              \/ Job(i)
  BY <1>1 DEF Asked, Isolated
<1>2. CASE Over
  BY <1>2 DEF Over
<1> QED
  BY <1>1, <1>2 DEF Next, Chooses

\* The choice is about the phase, the winner and the scores.
LEMMA ChoosesKeep ==
    ASSUME Chooses
    PROVE  /\ Chosen /\ phase \in {"grading", "judging"}
           /\ phase' \in {"returned", "judging"}
<1>1. ASSUME NEW k \in Candidates, Pick(k)
      PROVE  Chosen /\ phase = "judging" /\ phase' = "returned"
  BY <1>1 DEF Pick, Decide
<1>2. ASSUME NEW given, Grade(given)
      PROVE  Chosen /\ phase = "grading" /\ phase' = "returned"
  BY <1>2 DEF Grade
<1>3. ASSUME GraderFails
      PROVE  Chosen /\ phase = "grading" /\ phase' \in {"returned", "judging"}
  BY <1>3 DEF GraderFails, Vote, Decide, Escalate
<1> QED
  BY <1>1, <1>2, <1>3 DEF Chooses

\* Collecting is about the phase, the strategy, the results and the winner.
LEMMA CollectKeeps ==
    ASSUME Collect
    PROVE  /\ phase = "running" /\ Len(arrived) = N /\ results' = Collected
           /\ strategy' \in Strategies /\ UNCHANGED scores
           /\ phase' \in {"returned", "judging", "grading"}
           /\ UNCHANGED <<wvars, request, stage, childVars, outcome, arrived, edits>>
<1> DEFINE ok == Successes(Collected)
<1>1. /\ phase = "running" /\ Len(arrived) = N /\ results' = Collected
      /\ strategy' \in Strategies
      /\ IF Len(ok) <= 1 THEN Decide(IF ok = <<>> THEN 0 ELSE ok[1])
         ELSE CASE strategy' = "vote" -> Vote(Collected)
                [] strategy' = "best-of-n" -> Escalate("grading")
                [] strategy' = "judge" -> Escalate("judging")
      /\ UNCHANGED <<wvars, request, stage, childVars, outcome, arrived, edits>>
  BY DEF Collect
<1>2. strategy' \in {"vote", "best-of-n", "judge"}
  BY <1>1, ConsensusAssumption
<1> HIDE DEF ok
<1>3. ASSUME NEW k, Decide(k) PROVE phase' = "returned" /\ UNCHANGED scores
  BY <1>3 DEF Decide
<1>4. ASSUME NEW to, Escalate(to) PROVE phase' = to /\ UNCHANGED scores
  BY <1>4 DEF Escalate
<1>5. ASSUME NEW all, Vote(all)
      PROVE  phase' \in {"returned", "judging"} /\ UNCHANGED scores
  BY <1>5, <1>3, <1>4 DEF Vote
<1>6. phase' \in {"returned", "judging", "grading"} /\ UNCHANGED scores
  <2>1. CASE Len(ok) <= 1
    BY <2>1, <1>1, <1>3
  <2>2. CASE ~(Len(ok) <= 1)
    BY <2>2, <1>1, <1>2, <1>4, <1>5
  <2> QED
    BY <2>1, <2>2
<1> QED
  BY <1>1, <1>6

-----------------------------------------------------------------------------
\* The types

LEMMA WorktreeTypes ==
    ASSUME NEW i \in Candidates, ATyped, Job(i)
    PROVE  /\ job' \in [Candidates -> Jobs]
           /\ dirs' \subseteq Candidates /\ admin' \subseteq Candidates
           /\ branches' \subseteq Candidates /\ botched' \subseteq Candidates
<1>1. /\ job \in [Candidates -> Jobs]
      /\ dirs \subseteq Candidates /\ admin \subseteq Candidates
      /\ branches \subseteq Candidates /\ botched \subseteq Candidates
  BY DEF ATyped
<1>2. CASE ResolveFails(i)
  BY <1>1, <1>2 DEF ResolveFails, Goes, Jobs
<1>3. CASE AddFails(i)
  BY <1>1, <1>3 DEF AddFails, Goes, Jobs
<1>4. CASE Added(i, stage[i] = "provisioning")
  <2>1. \E to \in {"made", "remove"} : Goes(i, to)
    BY <1>4 DEF Added
  <2>2. job' \in [Candidates -> Jobs]
    BY <2>1, <1>1 DEF Goes, Jobs
  <2> QED
    BY <1>1, <1>4, <2>2 DEF Added
<1>5. CASE CleanUp(i)
  BY <1>1, <1>5 DEF CleanUp, RemoveTree, Prune, DeleteBranch, DropParent, Goes, Jobs, After
<1>6. CASE CommandFails(i)
  <2>1. After[job[i]] \in Jobs
    BY <1>6 DEF CommandFails, After, Jobs
  <2> QED
    BY <2>1, <1>1, <1>6 DEF CommandFails, Goes
<1> QED
  BY <1>2, <1>3, <1>4, <1>5, <1>6 DEF Job

LEMMA TypedStep ==
    ASSUME ATyped, [Next]_vars
    PROVE  ATyped'
<1> USE Several
<1>1. CASE Refuse
  BY <1>1 DEF ATyped, Refuse, wvars, childVars, verdict, Phases
<1>2. CASE Run
  BY <1>2 DEF ATyped, Run, wvars, childVars, verdict, Phases
<1>3. ASSUME NEW i \in Candidates, Asked(i) PROVE ATyped'
  <2>1. CASE Begin(i)
    BY <2>1 DEF ATyped, Begin, Steps, Provision, Goes, wvars, childVars, verdict, Phases,
                Stages, Waiting, Jobs
  <2>2. CASE Edit(i)
    BY <2>2 DEF ATyped, Edit, wvars, childVars, verdict
  <2>3. ASSUME NEW o \in Outcomes, Answer(i, o) PROVE ATyped'
    BY <2>3 DEF ATyped, Answer, Finish, Steps, wvars, childVars, verdict, Stages, Waiting
  <2> QED
    BY <1>3, <2>1, <2>2, <2>3 DEF Asked
<1>4. ASSUME NEW i \in Candidates, Isolated(i) PROVE ATyped'
  <2>1. CASE ProvisionFailed(i)
    <3>1. Failure \in Outcomes
      BY DEF Outcomes
    <3> QED
      BY <2>1, <3>1 DEF ATyped, ProvisionFailed, Finish, Steps, wvars, childVars, verdict,
                        Stages, Waiting
  <2>2. CASE Unusable(i)
    BY <2>2 DEF ATyped, Unusable, Steps, TearDown, Goes, childVars, verdict, Stages, Waiting,
                Jobs
  <2>3. CASE Work(i)
    BY <2>3 DEF ATyped, Work, Steps, wvars, verdict, Stages, Waiting, CallStates, ChildStates
  <2>4. ASSUME NEW how \in {"exited", "condemned"}, ChildEnds(i, how) PROVE ATyped'
    BY <2>4 DEF ATyped, ChildEnds, wvars, verdict, ChildStates
  <2>5. ASSUME NEW o \in Outcomes, WorkReturns(i, o) PROVE ATyped'
    BY <2>5 DEF ATyped, WorkReturns, Steps, TearDown, Goes, verdict, Stages, Waiting,
                CallStates, Jobs
  <2>6. CASE Cleaned(i)
    <3>1. outcome[i] \in Outcomes
      BY DEF ATyped
    <3> QED
      BY <2>6, <3>1 DEF ATyped, Cleaned, Finish, Steps, wvars, childVars, verdict, Stages,
                        Waiting
  <2>7. CASE Job(i)
    <3>1. UNCHANGED <<request, phase, stage, childVars, outcome, arrived, verdict, edits>>
      BY <2>7 DEF Job
    <3> QED
      BY <2>7, <3>1, WorktreeTypes DEF ATyped, childVars, verdict
  <2> QED
    BY <1>4, <2>1, <2>2, <2>3, <2>4, <2>5, <2>6, <2>7 DEF Isolated
<1>5. CASE Collect
  BY <1>5, CollectKeeps DEF ATyped, wvars, childVars, Phases
<1>6. CASE Chooses
  BY <1>6, ChoosesKeep DEF ATyped, Chosen, wvars, childVars, Phases
<1>7. CASE Cancel
  <2>1. UNCHANGED <<dirs, admin, branches, botched, request, outcome, arrived, strategy, edits>>
        /\ phase' = "cancelled"
    BY <1>7 DEF Cancel, verdict
  <2>2. stage' \in [Candidates -> Stages]
    BY <1>7 DEF Cancel, ATyped, Stages
  <2>3. call' \in [Candidates -> CallStates] /\ child' \in [Candidates -> ChildStates]
    BY <1>7 DEF Cancel, ATyped, CallStates, ChildStates
  <2>4. job' \in [Candidates -> Jobs]
    BY <1>7 DEF Cancel, ATyped, Jobs
  <2> QED
    BY <2>1, <2>2, <2>3, <2>4 DEF ATyped, Phases
<1>8. CASE UNCHANGED vars
  BY <1>8 DEF ATyped, vars, wvars
<1> QED
  BY <1>1, <1>2, <1>3, <1>4, <1>5, <1>6, <1>7, <1>8, Kinds

-----------------------------------------------------------------------------
\* Candidates, their jobs and their children

\* A step of one candidate leaves the rungs of the others.
Others(i) ==
    \A k \in Candidates \ {i} :
        /\ stage'[k] = stage[k] /\ job'[k] = job[k]
        /\ call'[k] = call[k] /\ child'[k] = child[k]

LEMMA LadderBy ==
    ASSUME NEW i \in Candidates, Ladder, Others(i),
           Rung(stage'[i], job'[i], call'[i], child'[i])
    PROVE  Ladder'
<1>1. ASSUME NEW k \in Candidates, k # i
      PROVE  Rung(stage'[k], job'[k], call'[k], child'[k])
  <2>1. stage'[k] = stage[k] /\ job'[k] = job[k] /\ call'[k] = call[k] /\ child'[k] = child[k]
    BY <1>1 DEF Others
  <2> QED
    BY <2>1 DEF Ladder
<1>2. \A k \in Candidates : Rung(stage'[k], job'[k], call'[k], child'[k])
  BY <1>1
<1> QED
  BY <1>2 DEF Ladder, Rung

\* What a step of a job does to it.
Onward(j, at) ==
    CASE j = "adding" -> {"gone", "remove"} \cup (IF at = "provisioning" THEN {"made"} ELSE {})
      [] j = "remove" -> {"prune"}
      [] j = "prune" -> {"branch"}
      [] j = "branch" -> {"parent"}
      [] j = "parent" -> {"gone"}
      [] OTHER -> {}

LEMMA JobGoes ==
    ASSUME NEW i \in Candidates, ATyped, Job(i)
    PROVE  /\ \E j \in Onward(job[i], stage[i]) : Goes(i, j)
           /\ UNCHANGED <<request, phase, stage, childVars, outcome, arrived, verdict, edits>>
<1>1. UNCHANGED <<request, phase, stage, childVars, outcome, arrived, verdict, edits>>
  BY DEF Job
<1>2. ASSUME ResolveFails(i) PROVE \E j \in Onward(job[i], stage[i]) : Goes(i, j)
  BY <1>2 DEF ResolveFails, Onward
<1>3. ASSUME AddFails(i) PROVE \E j \in Onward(job[i], stage[i]) : Goes(i, j)
  BY <1>3 DEF AddFails, Onward
<1>4. ASSUME Added(i, stage[i] = "provisioning") PROVE \E j \in Onward(job[i], stage[i]) : Goes(i, j)
  BY <1>4 DEF Added, Onward
<1>5. ASSUME CleanUp(i) PROVE \E j \in Onward(job[i], stage[i]) : Goes(i, j)
  BY <1>5 DEF CleanUp, RemoveTree, Prune, DeleteBranch, DropParent, After, Onward
<1>6. ASSUME CommandFails(i) PROVE \E j \in Onward(job[i], stage[i]) : Goes(i, j)
  BY <1>6 DEF CommandFails, After, Onward
<1>7. \E j \in Onward(job[i], stage[i]) : Goes(i, j)
  BY <1>2, <1>3, <1>4, <1>5, <1>6 DEF Job
<1> QED
  BY <1>1, <1>7

LEMMA LadderStep ==
    ASSUME ATyped, Ladder, Advance, [Next]_vars
    PROVE  Ladder'
<1> USE DEF childVars
<1>1. CASE Refuse
  BY <1>1 DEF Refuse, wvars, Ladder, Rung
<1>2. CASE Run
  BY <1>2 DEF Run, wvars, Ladder, Rung
<1>3. ASSUME NEW i \in Candidates, Asked(i) PROVE Ladder'
  <2> Rung(stage[i], job[i], call[i], child[i])
    BY DEF Ladder
  <2>1. ASSUME Begin(i) PROVE Ladder'
    <3>1. CASE request.mode = "isolated"
      <4>1. /\ stage' = [stage EXCEPT ![i] = "provisioning"] /\ stage[i] = "queued"
            /\ job' = [job EXCEPT ![i] = "adding"] /\ UNCHANGED <<call, child>>
        BY <2>1, <3>1 DEF Begin, Steps, Provision, Goes
      <4>2. Rung(stage'[i], job'[i], call'[i], child'[i])
        BY <4>1 DEF ATyped, Rung, CleaningUp
      <4>3. Others(i)
        BY <4>1 DEF Others
      <4> QED
        BY <4>2, <4>3, LadderBy
    <3>2. CASE request.mode # "isolated"
      <4>1. /\ stage' = [stage EXCEPT ![i] = "asking"] /\ stage[i] = "queued"
            /\ UNCHANGED <<job, call, child>>
        BY <2>1, <3>2 DEF Begin, Steps, wvars
      <4>2. Rung(stage'[i], job'[i], call'[i], child'[i])
        BY <4>1 DEF ATyped, Rung, CleaningUp
      <4>3. Others(i)
        BY <4>1 DEF Others
      <4> QED
        BY <4>2, <4>3, LadderBy
    <3> QED
      BY <3>1, <3>2
  <2>2. ASSUME Edit(i) PROVE Ladder'
    BY <2>2 DEF Edit, wvars, Ladder, Rung
  <2>3. ASSUME NEW o \in Outcomes, Answer(i, o) PROVE Ladder'
    <3>1. /\ stage' = [stage EXCEPT ![i] = "done"] /\ stage[i] = "asking"
          /\ UNCHANGED <<job, call, child>>
      BY <2>3 DEF Answer, Steps, wvars
    <3>2. Rung(stage'[i], job'[i], call'[i], child'[i])
      BY <3>1 DEF ATyped, Rung, CleaningUp
    <3>3. Others(i)
      BY <3>1 DEF Others
    <3> QED
      BY <3>2, <3>3, LadderBy
  <2> QED
    BY <1>3, <2>1, <2>2, <2>3 DEF Asked
<1>4. ASSUME NEW i \in Candidates, Isolated(i) PROVE Ladder'
  <2> Rung(stage[i], job[i], call[i], child[i])
    BY DEF Ladder
  <2>1. ASSUME ProvisionFailed(i) PROVE Ladder'
    <3>1. /\ stage' = [stage EXCEPT ![i] = "done"] /\ stage[i] = "provisioning"
          /\ job[i] = "gone" /\ UNCHANGED <<job, call, child>>
      BY <2>1 DEF ProvisionFailed, Steps, wvars
    <3>2. Rung(stage'[i], job'[i], call'[i], child'[i])
      BY <3>1 DEF ATyped, Rung, CleaningUp
    <3>3. Others(i)
      BY <3>1 DEF Others
    <3> QED
      BY <3>2, <3>3, LadderBy
  <2>2. ASSUME Unusable(i) PROVE Ladder'
    <3>1. /\ stage' = [stage EXCEPT ![i] = "cleaning"] /\ stage[i] = "provisioning"
          /\ job' = [job EXCEPT ![i] = "remove"] /\ UNCHANGED <<call, child>>
      BY <2>2 DEF Unusable, Steps, TearDown, Goes
    <3>2. Rung(stage'[i], job'[i], call'[i], child'[i])
      BY <3>1 DEF ATyped, Rung, CleaningUp
    <3>3. Others(i)
      BY <3>1 DEF Others
    <3> QED
      BY <3>2, <3>3, LadderBy
  <2>3. ASSUME Work(i) PROVE Ladder'
    <3>1. /\ stage' = [stage EXCEPT ![i] = "working"] /\ stage[i] = "provisioning"
          /\ job[i] = "made" /\ UNCHANGED job
          /\ call' = [call EXCEPT ![i] = "running"] /\ child' = [child EXCEPT ![i] = "alive"]
      BY <2>3 DEF Work, Steps, wvars
    <3>2. Rung(stage'[i], job'[i], call'[i], child'[i])
      BY <3>1 DEF ATyped, Rung, CleaningUp
    <3>3. Others(i)
      BY <3>1 DEF Others
    <3> QED
      BY <3>2, <3>3, LadderBy
  <2>4. ASSUME NEW how \in {"exited", "condemned"}, ChildEnds(i, how) PROVE Ladder'
    <3>1. /\ child[i] = "alive" /\ child' = [child EXCEPT ![i] = how]
          /\ UNCHANGED <<stage, job, call>>
      BY <2>4 DEF ChildEnds, wvars
    <3>2. Rung(stage'[i], job'[i], call'[i], child'[i])
      BY <3>1 DEF ATyped, Rung, CleaningUp
    <3>3. Others(i)
      BY <3>1 DEF Others
    <3> QED
      BY <3>2, <3>3, LadderBy
  <2>5. ASSUME NEW o \in Outcomes, WorkReturns(i, o) PROVE Ladder'
    <3>1. /\ stage' = [stage EXCEPT ![i] = "cleaning"] /\ stage[i] = "working"
          /\ child[i] # "alive" /\ job' = [job EXCEPT ![i] = "remove"]
          /\ call' = [call EXCEPT ![i] = "returned"] /\ UNCHANGED child
      BY <2>5 DEF WorkReturns, Steps, TearDown, Goes
    <3>2. Rung(stage'[i], job'[i], call'[i], child'[i])
      BY <3>1 DEF ATyped, Rung, CleaningUp
    <3>3. Others(i)
      BY <3>1 DEF Others
    <3> QED
      BY <3>2, <3>3, LadderBy
  <2>6. ASSUME Cleaned(i) PROVE Ladder'
    <3>1. /\ stage' = [stage EXCEPT ![i] = "done"] /\ stage[i] = "cleaning"
          /\ job[i] = "gone" /\ UNCHANGED <<job, call, child>>
      BY <2>6 DEF Cleaned, Steps, wvars
    <3>2. Rung(stage'[i], job'[i], call'[i], child'[i])
      BY <3>1 DEF ATyped, Rung, CleaningUp
    <3>3. Others(i)
      BY <3>1 DEF Others
    <3> QED
      BY <3>2, <3>3, LadderBy
  <2>7. ASSUME Job(i) PROVE Ladder'
    <3>1. PICK j \in Onward(job[i], stage[i]) : Goes(i, j)
      BY <2>7, JobGoes
    <3>2. UNCHANGED <<stage, call, child>>
      BY <2>7, JobGoes
    <3>3. job' = [job EXCEPT ![i] = j]
      BY <3>1 DEF Goes
    <3>4. Rung(stage'[i], job'[i], call'[i], child'[i])
      <4>1. job'[i] = j
        BY <3>3 DEF ATyped
      <4> QED
        BY <4>1, <3>2 DEF Rung, Onward, CleaningUp
    <3>5. Others(i)
      BY <3>2, <3>3 DEF Others
    <3> QED
      BY <3>4, <3>5, LadderBy
  <2> QED
    BY <1>4, <2>1, <2>2, <2>3, <2>4, <2>5, <2>6, <2>7 DEF Isolated
<1>5. CASE Collect
  BY <1>5, CollectKeeps DEF wvars, Ladder, Rung
<1>6. CASE Chooses
  BY <1>6, ChoosesKeep DEF Chosen, wvars, Ladder, Rung
<1>7. ASSUME Cancel PROVE Ladder'
  <2>1. /\ stage' = [i \in Candidates |-> IF i \in InFlight THEN "dropped" ELSE stage[i]]
        /\ call' = [i \in Candidates |-> IF stage[i] = "working" THEN "dropped" ELSE call[i]]
        /\ child' = [i \in Candidates |->
              IF stage[i] = "working" /\ child[i] = "alive" THEN "condemned" ELSE child[i]]
        /\ job' = [i \in Candidates |-> IF job[i] = "made" THEN "remove" ELSE job[i]]
    BY <1>7 DEF Cancel
  <2>2. ASSUME NEW i \in Candidates
        PROVE  Rung(stage'[i], job'[i], call'[i], child'[i])
    <3>1. Rung(stage[i], job[i], call[i], child[i])
      BY DEF Ladder
    <3>2. stage[i] \in Stages
      BY DEF ATyped
    <3> QED
      BY <2>1, <3>1, <3>2 DEF Rung, InFlight, Stages, Waiting, CleaningUp
  <2> QED
    BY <2>2 DEF Ladder, Rung
<1>8. CASE UNCHANGED vars
  BY <1>8 DEF vars, wvars, Ladder, Rung
<1> QED
  BY <1>1, <1>2, <1>3, <1>4, <1>5, <1>6, <1>7, <1>8, Kinds

-----------------------------------------------------------------------------
\* The repository

LEMMA RepositoryStep ==
    ASSUME ATyped, Repository, [Next]_vars
    PROVE  Repository'
<1> USE DEF wvars
<1>1. CASE Refuse
  BY <1>1 DEF Refuse, Repository
<1>2. CASE Run
  BY <1>2 DEF Run, Repository
<1>3. ASSUME NEW i \in Candidates, Asked(i) PROVE Repository'
  <2>1. CASE Begin(i) /\ request.mode = "isolated"
    BY <2>1 DEF Begin, Provision, Goes, ATyped, Repository, CleaningUp
  <2>2. CASE Begin(i) /\ request.mode # "isolated"
    BY <2>2 DEF Begin, Repository
  <2>3. CASE Edit(i)
    BY <2>3 DEF Edit, Repository
  <2>4. ASSUME NEW o \in Outcomes, Answer(i, o) PROVE Repository'
    BY <2>4 DEF Answer, Repository
  <2> QED
    BY <1>3, <2>1, <2>2, <2>3, <2>4 DEF Asked
<1>4. ASSUME NEW i \in Candidates, Isolated(i) PROVE Repository'
  <2>1. CASE ProvisionFailed(i) \/ Work(i) \/ Cleaned(i)
    BY <2>1 DEF ProvisionFailed, Work, Cleaned, Repository
  <2>2. CASE Unusable(i)
    BY <2>2 DEF Unusable, TearDown, Goes, ATyped, Repository, CleaningUp
  <2>3. ASSUME NEW how \in {"exited", "condemned"}, ChildEnds(i, how) PROVE Repository'
    BY <2>3 DEF ChildEnds, Repository
  <2>4. ASSUME NEW o \in Outcomes, WorkReturns(i, o) PROVE Repository'
    BY <2>4 DEF WorkReturns, TearDown, Goes, ATyped, Repository, CleaningUp
  <2>5. CASE ResolveFails(i)
    BY <2>5 DEF ResolveFails, Goes, ATyped, Repository, CleaningUp
  <2>6. CASE AddFails(i)
    BY <2>6 DEF AddFails, Goes, ATyped, Repository, CleaningUp
  <2>7. CASE Added(i, stage[i] = "provisioning")
    <3>1. PICK to \in {"made", "remove"} : Goes(i, to)
      BY <2>7 DEF Added
    <3> QED
      BY <2>7, <3>1 DEF Added, Goes, ATyped, Repository, CleaningUp
  <2>8. CASE CleanUp(i)
    <3>1. CASE RemoveTree(i)
      BY <3>1 DEF RemoveTree, After, Goes, ATyped, Repository, CleaningUp
    <3>2. CASE Prune(i)
      BY <3>2 DEF Prune, After, Goes, ATyped, Repository, CleaningUp
    <3>3. CASE DeleteBranch(i)
      BY <3>3 DEF DeleteBranch, After, Goes, ATyped, Repository, CleaningUp
    <3>4. CASE DropParent(i)
      BY <3>4 DEF DropParent, After, Goes, ATyped, Repository, CleaningUp
    <3> QED
      BY <2>8, <3>1, <3>2, <3>3, <3>4 DEF CleanUp
  <2>9. CASE CommandFails(i)
    <3>1. /\ job[i] \in CleaningUp
          /\ After[job[i]] \in {"prune", "branch", "parent", "gone"}
      BY <2>9 DEF CommandFails, After, CleaningUp
    <3> QED
      BY <2>9, <3>1 DEF CommandFails, Goes, ATyped, Repository, CleaningUp
  <2> QED
    BY <1>4, <2>1, <2>2, <2>3, <2>4, <2>5, <2>6, <2>7, <2>8, <2>9 DEF Isolated, Job
<1>5. CASE Collect
  BY <1>5, CollectKeeps DEF Repository
<1>6. CASE Chooses
  BY <1>6, ChoosesKeep DEF Chosen, Repository
<1>7. CASE Cancel
  <2>1. /\ job' = [i \in Candidates |-> IF job[i] = "made" THEN "remove" ELSE job[i]]
        /\ UNCHANGED <<dirs, admin, branches, botched>>
    BY <1>7 DEF Cancel
  <2> QED
    BY <2>1 DEF Repository, CleaningUp
<1>8. CASE UNCHANGED vars
  BY <1>8 DEF vars, Repository
<1> QED
  BY <1>1, <1>2, <1>3, <1>4, <1>5, <1>6, <1>7, <1>8, Kinds

\* Every directory is that of a session whose job is at work, or has made it, or
\* could not remove it.
LEMMA NothingStays ==
    ASSUME ATyped, Ladder, Repository, Advance, phase = "returned"
    PROVE  NothingLeft
<1>1. \A i \in Candidates : job[i] \in {"none", "gone"}
  BY DEF Advance, Ladder, Rung
<1>2. dirs \subseteq botched
  BY <1>1 DEF ATyped, Repository, CleaningUp
<1>3. admin \cup branches \subseteq botched
  BY <1>1 DEF ATyped, Repository
<1> QED
  BY <1>2, <1>3 DEF NothingLeft

-----------------------------------------------------------------------------
\* The phases, and who has arrived

\* When as many have arrived as were asked, all have, each of them once.
LEMMA AllArrived ==
    ASSUME ATyped, Arrivals, Len(arrived) = N
    PROVE  /\ arrived \in Bijection(1..N, Candidates)
           /\ \A i \in Candidates : stage[i] = "done"
<1> USE Several
<1>1. arrived \in [1..N -> Candidates]
  BY DEF ATyped
<1>2. arrived \in Injection(1..N, Candidates)
  BY <1>1 DEF Arrivals, Injection, IsInjective
<1>3. IsFiniteSet(1..N) /\ Cardinality(1..N) = Cardinality(Candidates)
  BY DEF Candidates
<1>4. arrived \in Surjection(1..N, Candidates)
  BY <1>2, <1>3, FS_Injection
<1>5. \A i \in Candidates : \E k \in 1..N : arrived[k] = i
  BY <1>4 DEF Surjection
<1> QED
  BY <1>2, <1>4, <1>5 DEF Arrivals, Bijection

\* A candidate moves on while the run is under way.
LEMMA Moves ==
    ASSUME NEW i \in Candidates, ATyped, Asked(i) \/ Isolated(i)
    PROVE  \/ /\ UNCHANGED <<stage, arrived, phase>>
           \/ /\ phase = "running" /\ phase' = "running"
              /\ \E to \in Stages \ {"queued", "dropped"} :
                    /\ stage' = [stage EXCEPT ![i] = to]
                    /\ stage[i] \notin {"done", "dropped"}
                    /\ to = "done" => arrived' = Append(arrived, i)
                    /\ to # "done" => UNCHANGED arrived
                    /\ stage[i] = "queued" => Cardinality(InFlight) < Permits
                    /\ to = "asking" => stage[i] = "queued"
<1> DEFINE Goal ==
           \/ UNCHANGED <<stage, arrived, phase>>
           \/ /\ phase = "running" /\ phase' = "running"
              /\ \E to \in Stages \ {"queued", "dropped"} :
                    /\ stage' = [stage EXCEPT ![i] = to]
                    /\ stage[i] \notin {"done", "dropped"}
                    /\ to = "done" => arrived' = Append(arrived, i)
                    /\ to # "done" => UNCHANGED arrived
                    /\ stage[i] = "queued" => Cardinality(InFlight) < Permits
                    /\ to = "asking" => stage[i] = "queued"
<1>0. ASSUME NEW from \in Waiting, NEW to \in {"working", "cleaning", "done"},
             Steps(i, from, to),
             arrived' = IF to = "done" THEN Append(arrived, i) ELSE arrived
      PROVE  Goal
  <2>1. to \in Stages \ {"queued", "dropped"} /\ from \notin {"queued", "done", "dropped"}
    BY DEF Stages, Waiting
  <2> QED
    BY <2>1, <1>0 DEF Steps
<1>1. ASSUME Begin(i) PROVE Goal
  <2>1. PICK to \in {"provisioning", "asking"} : Steps(i, "queued", to)
    BY <1>1 DEF Begin
  <2>2. Cardinality(InFlight) < Permits /\ UNCHANGED arrived
    BY <1>1 DEF Begin
  <2>3. to \in Stages \ {"queued", "dropped"} /\ to # "done"
    BY <2>1 DEF Stages, Waiting
  <2> HIDE DEF InFlight, Permits
  <2> QED
    BY <2>1, <2>2, <2>3 DEF Steps
<1> HIDE DEF Goal
<1>2. ASSUME Edit(i) PROVE Goal
  BY <1>2 DEF Edit, Goal
<1>3. ASSUME NEW o \in Outcomes, Answer(i, o) PROVE Goal
  BY <1>3, <1>0 DEF Answer, Finish, Waiting
<1>4. ASSUME ProvisionFailed(i) PROVE Goal
  BY <1>4, <1>0 DEF ProvisionFailed, Finish, Waiting
<1>5. ASSUME Unusable(i) PROVE Goal
  BY <1>5, <1>0 DEF Unusable, Waiting
<1>6. ASSUME Work(i) PROVE Goal
  BY <1>6, <1>0 DEF Work, Waiting
<1>7. ASSUME NEW how \in {"exited", "condemned"}, ChildEnds(i, how) PROVE Goal
  BY <1>7 DEF ChildEnds, Goal
<1>8. ASSUME NEW o \in Outcomes, WorkReturns(i, o) PROVE Goal
  BY <1>8, <1>0 DEF WorkReturns, Waiting
<1>9. ASSUME Cleaned(i) PROVE Goal
  BY <1>9, <1>0 DEF Cleaned, Finish, Waiting
<1>10. ASSUME Job(i) PROVE Goal
  BY <1>10 DEF Job, Goal
<1>11. Goal
  BY <1>1, <1>2, <1>3, <1>4, <1>5, <1>6, <1>7, <1>8, <1>9, <1>10 DEF Asked, Isolated
<1> QED
  BY <1>11 DEF Goal

LEMMA AdvanceStep ==
    ASSUME ATyped, Advance, Arrivals, [Next]_vars
    PROVE  Advance'
<1>1. CASE Refuse
  BY <1>1 DEF Refuse, Advance
<1>2. CASE Run
  BY <1>2 DEF Run, Advance
<1>3. ASSUME NEW i \in Candidates, Asked(i) \/ Isolated(i) PROVE Advance'
  <2>1. CASE UNCHANGED <<stage, arrived, phase>>
    BY <2>1 DEF Advance
  <2>2. CASE phase = "running" /\ phase' = "running" /\
             \E to \in Stages \ {"queued", "dropped"} : stage' = [stage EXCEPT ![i] = to]
    BY <2>2 DEF Advance, ATyped
  <2> QED
    BY <1>3, <2>1, <2>2, Moves
<1>4. CASE Collect
  BY <1>4, CollectKeeps, AllArrived DEF Advance
<1>5. CASE Chooses
  BY <1>5, ChoosesKeep DEF Chosen, Advance
<1>6. CASE Cancel
  <2>1. /\ phase' = "cancelled"
        /\ stage' = [i \in Candidates |-> IF i \in InFlight THEN "dropped" ELSE stage[i]]
    BY <1>6 DEF Cancel
  <2> QED
    BY <2>1 DEF Advance, InFlight, Waiting
<1>7. CASE UNCHANGED vars
  BY <1>7 DEF vars, Advance
<1> QED
  BY <1>1, <1>2, <1>3, <1>4, <1>5, <1>6, <1>7, Kinds

LEMMA ArrivalsStep ==
    ASSUME ATyped, Arrivals, [Next]_vars
    PROVE  Arrivals'
<1>1. CASE UNCHANGED <<stage, arrived>>
  BY <1>1 DEF Arrivals
<1>2. ASSUME NEW i \in Candidates, NEW to \in Stages \ {"queued", "dropped"},
             stage' = [stage EXCEPT ![i] = to], stage[i] \notin {"done", "dropped"},
             to = "done" => arrived' = Append(arrived, i),
             to # "done" => UNCHANGED arrived
      PROVE  Arrivals'
  <2>1. CASE to # "done"
    BY <2>1, <1>2 DEF Arrivals, ATyped
  <2>2. CASE to = "done"
    <3> DEFINE n == Len(arrived)
    <3>1. n \in Nat /\ \A k \in 1..n : arrived[k] \in Candidates
      BY DEF ATyped
    <3>2. /\ Len(arrived') = n + 1 /\ arrived'[n + 1] = i
          /\ \A k \in 1..n : arrived'[k] = arrived[k]
      <4>1. arrived \in Seq(Candidates) /\ arrived' = Append(arrived, i)
        BY <2>2, <1>2 DEF ATyped
      <4> QED
        BY <4>1
    <3>3. \A k \in 1..n : arrived[k] # i
      BY <1>2 DEF Arrivals
    <3>4. ASSUME NEW k \in 1..(n + 1), NEW l \in 1..(n + 1), arrived'[k] = arrived'[l]
          PROVE  k = l
      <4> HIDE DEF n
      <4>1. CASE k \in 1..n /\ l \in 1..n
        <5>1. arrived[k] = arrived[l]
          BY <4>1, <3>2, <3>4
        <5> QED
          BY <5>1, <4>1 DEF Arrivals, n
      <4>2. CASE ~(k \in 1..n /\ l \in 1..n)
        BY <4>2, <3>1, <3>2, <3>3, <3>4
      <4> QED
        BY <4>1, <4>2
    <3>5. ASSUME NEW j \in Candidates
          PROVE  stage'[j] = "done" <=> \E k \in 1..(n + 1) : arrived'[k] = j
      <4>1. CASE j = i
        <5>1. stage'[j] = "done"
          BY <4>1, <2>2, <1>2 DEF ATyped
        <5> QED
          BY <4>1, <5>1, <3>1, <3>2
      <4>2. CASE j # i
        <5>1. stage'[j] = stage[j]
          BY <4>2, <1>2 DEF ATyped
        <5>2. stage[j] = "done" <=> \E k \in 1..n : arrived[k] = j
          BY DEF Arrivals
        <5> HIDE DEF n
        <5> QED
          BY <4>2, <5>1, <5>2, <3>1, <3>2
      <4> QED
        BY <4>1, <4>2
    <3> QED
      BY <3>2, <3>4, <3>5 DEF Arrivals
  <2> QED
    BY <2>1, <2>2
<1>3. CASE Refuse \/ Run
  BY <1>3, <1>1 DEF Refuse, Run
<1>4. ASSUME NEW i \in Candidates, Asked(i) \/ Isolated(i) PROVE Arrivals'
  BY <1>4, <1>1, <1>2, Moves
<1>5. CASE Collect
  BY <1>5, <1>1, CollectKeeps
<1>6. CASE Chooses
  BY <1>6, <1>1, ChoosesKeep DEF Chosen
<1>7. CASE Cancel
  <2>1. /\ UNCHANGED arrived
        /\ stage' = [i \in Candidates |-> IF i \in InFlight THEN "dropped" ELSE stage[i]]
    BY <1>7 DEF Cancel
  <2>2. \A i \in Candidates : stage'[i] = "done" <=> stage[i] = "done"
    BY <2>1 DEF InFlight, Waiting
  <2> QED
    BY <2>1, <2>2 DEF Arrivals
<1>8. CASE UNCHANGED vars
  BY <1>8, <1>1 DEF vars
<1> QED
  BY <1>3, <1>4, <1>5, <1>6, <1>7, <1>8, Kinds

-----------------------------------------------------------------------------
\* Permits and turns

LEMMA Permitted ==
    ASSUME ATyped
    PROVE  Permits \in Nat /\ (request.mode = "tools" => Permits = 1)
<1>1. request.concurrency \in Nat /\ N \in Nat
  BY Several, ConsensusAssumption DEF ATyped, Requests
<1>2. \A a, b \in Nat : Least(a, b) \in Nat
  BY DEF Least
<1>3. CASE request.mode = "isolated"
  BY <1>1, <1>2, <1>3 DEF Permits
<1>4. CASE request.mode = "llm"
  BY <1>1, <1>2, <1>4 DEF Permits
<1>5. CASE request.mode \notin {"isolated", "llm"}
  BY <1>5 DEF Permits
<1> QED
  BY <1>3, <1>4, <1>5

LEMMA RequestStays ==
    ASSUME [Next]_vars
    PROVE  UNCHANGED request /\ Permits' = Permits
<1>1. ASSUME NEW i \in Candidates, Asked(i) PROVE UNCHANGED request
  BY <1>1 DEF Asked, Begin, Edit, Answer, Steps
<1>2. ASSUME NEW i \in Candidates, Isolated(i) PROVE UNCHANGED request
  BY <1>2 DEF Isolated, ProvisionFailed, Unusable, Work, ChildEnds, WorkReturns, Cleaned, Job,
              Steps
<1>3. ASSUME Refuse \/ Run \/ Collect \/ Chooses \/ Cancel \/ UNCHANGED vars
      PROVE  UNCHANGED request
  BY <1>3, CollectKeeps, ChoosesKeep DEF Refuse, Run, Chosen, Cancel, vars
<1>4. UNCHANGED request
  BY <1>1, <1>2, <1>3, Kinds
<1> QED
  BY <1>4 DEF Permits

LEMMA Held == IsFiniteSet(Holding) /\ Cardinality(Holding) \in Nat
<1>1. Holding \in SUBSET Candidates
  BY DEF Holding
<1>2. IsFiniteSet(Holding)
  BY <1>1, Several, FS_Subset
<1> QED
  BY <1>2, FS_CardinalityType

LEMMA RoomStep ==
    ASSUME ATyped, Advance, Room, [Next]_vars
    PROVE  Room'
<1>1. ASSUME Holding' \subseteq Holding PROVE Room'
  <2>1. Cardinality(Holding') <= Cardinality(Holding) /\ Cardinality(Holding') \in Nat
    BY <1>1, Held, FS_Subset, FS_CardinalityType
  <2>2. Permits \in Nat /\ Permits' = Permits /\ Cardinality(Holding) <= Permits
    BY Permitted, RequestStays DEF Room
  <2>3. Cardinality(Holding') <= Permits'
    BY <2>1, <2>2, Held
  <2> QED
    BY <2>3 DEF Room
<1>2. ASSUME UNCHANGED stage PROVE Room'
  <2>1. Holding' = Holding
    BY <1>2 DEF Holding
  <2> QED
    BY <2>1, <1>1
<1>3. ASSUME NEW i \in Candidates, NEW to \in Stages \ {"queued", "dropped"},
             phase = "running", stage' = [stage EXCEPT ![i] = to],
             stage[i] \notin {"done", "dropped"},
             stage[i] = "queued" => Cardinality(InFlight) < Permits
      PROVE  Room'
  <2>1. CASE stage[i] # "queued"
    <3>1. stage[i] \in Waiting
      BY <1>3, <2>1 DEF ATyped, Stages
    <3>2. Holding' \subseteq Holding
      BY <1>3, <3>1 DEF Holding, ATyped
    <3> QED
      BY <3>2, <1>1
  <2>2. CASE stage[i] = "queued"
    <3>1. InFlight = Holding
      BY <1>3 DEF InFlight, Holding, Advance
    <3>2. Holding' \in SUBSET (Holding \cup {i})
      BY <1>3 DEF Holding, ATyped
    <3>3. /\ IsFiniteSet(Holding \cup {i})
          /\ Cardinality(Holding \cup {i}) =
                IF i \in Holding THEN Cardinality(Holding) ELSE Cardinality(Holding) + 1
      BY Held, FS_AddElement
    <3>4. IsFiniteSet(Holding') /\ Cardinality(Holding') <= Cardinality(Holding \cup {i})
      BY <3>2, <3>3, FS_Subset
    <3>5. Cardinality(Holding) < Permits /\ Permits' = Permits /\ Permits \in Nat
      BY <1>3, <2>2, <3>1, Permitted, RequestStays
    <3>6. Cardinality(Holding') \in Nat
      BY <3>4, FS_CardinalityType
    <3>7. Cardinality(Holding') <= Permits'
      BY <3>3, <3>4, <3>5, <3>6, Held
    <3> QED
      BY <3>7 DEF Room
  <2> QED
    BY <2>1, <2>2
<1>4. CASE Refuse \/ Run
  BY <1>4, <1>2 DEF Refuse, Run
<1>5. ASSUME NEW i \in Candidates, Asked(i) \/ Isolated(i) PROVE Room'
  BY <1>5, <1>2, <1>3, Moves
<1>6. CASE Collect \/ Chooses
  BY <1>6, <1>2, CollectKeeps, ChoosesKeep DEF Chosen
<1>7. CASE Cancel
  <2>1. stage' = [i \in Candidates |-> IF i \in InFlight THEN "dropped" ELSE stage[i]]
    BY <1>7 DEF Cancel
  <2>2. Holding' \subseteq Holding
    BY <2>1 DEF Holding, InFlight
  <2> QED
    BY <2>2, <1>1
<1>8. CASE UNCHANGED vars
  BY <1>8, <1>2 DEF vars
<1> QED
  BY <1>4, <1>5, <1>6, <1>7, <1>8, Kinds

\* In-process candidates are asked one at a time.
LEMMA OneAsked ==
    ASSUME ATyped, Room, request.mode = "tools",
           NEW i \in Candidates, NEW j \in Candidates,
           stage[i] = "asking", stage[j] = "asking"
    PROVE  i = j
<1> SUFFICES ASSUME i # j PROVE FALSE
  OBVIOUS
<1>1. {i, j} \in SUBSET Holding
  BY DEF Holding, Waiting
<1>2. IsFiniteSet({i}) /\ Cardinality({i}) = 1
  BY FS_Singleton
<1>3. Cardinality({i} \cup {j}) = 2
  <2>1. Cardinality({i} \cup {j}) = IF j \in {i} THEN Cardinality({i}) ELSE Cardinality({i}) + 1
    BY <1>2, FS_AddElement
  <2> QED
    BY <2>1, <1>2
<1>4. {i} \cup {j} = {i, j}
  OBVIOUS
<1>5. 2 <= Cardinality(Holding)
  BY <1>1, <1>3, <1>4, Held, FS_Subset
<1> QED
  BY <1>5, Held, Permitted DEF Room

LEMMA TurnsStep ==
    ASSUME ATyped, Room, Turns, [Next]_vars
    PROVE  Turns'
<1> DEFINE n == Len(edits)
<1>1. n \in Nat /\ \A a \in 1..n : edits[a] \in Candidates
  BY DEF ATyped
<1>2. ASSUME UNCHANGED edits,
             \A i \in Candidates :
                /\ stage'[i] = "queued" => stage[i] = "queued"
                /\ stage'[i] = "asking" => stage[i] \in {"queued", "asking"}
      PROVE  Turns'
  BY <1>1, <1>2, RequestStays DEF Turns
<1>3. ASSUME UNCHANGED <<edits, stage>> PROVE Turns'
  BY <1>3, <1>2
<1>4. ASSUME NEW i \in Candidates, Edit(i) PROVE Turns'
  <2>1. /\ request.mode = "tools" /\ stage[i] = "asking" /\ UNCHANGED stage
        /\ edits' = Append(edits, i) /\ edits \in Seq(Candidates)
    BY <1>4 DEF Edit, ATyped
  <2>2. /\ Len(edits') = n + 1 /\ edits'[n + 1] = i
        /\ \A a \in 1..n : edits'[a] = edits[a]
    BY <2>1
  <2>3. \A a \in 1..n : stage[edits[a]] = "asking" => edits[a] = i
    BY <1>1, <2>1, OneAsked
  <2>4. \A a \in 1..n : edits[a] = i => edits[n] = i
    BY <2>1 DEF Turns
  <2>5. ASSUME NEW a \in 1..(n + 1), NEW b \in 1..(n + 1), NEW c \in 1..(n + 1),
               a < b, b < c, edits'[a] = edits'[c]
        PROVE  edits'[b] = edits'[a]
    <3>1. \A x, y, z \in 1..n : (x < y /\ y < z /\ edits[x] = edits[z]) => edits[y] = edits[x]
      BY DEF Turns
    <3> HIDE DEF n
    <3>2. CASE c \in 1..n
      <4>1. a \in 1..n /\ b \in 1..n
        BY <3>2, <2>5, <1>1
      <4> QED
        BY <4>1, <3>1, <3>2, <2>2, <2>5
    <3>3. CASE c = n + 1
      <4>1. a \in 1..n /\ b \in 1..n /\ n \in 1..n
        BY <3>3, <2>5, <1>1
      <4>2. edits[a] = i /\ edits[n] = i
        BY <4>1, <3>3, <2>2, <2>4, <2>5
      <4>3. edits[b] = i
        BY <4>1, <4>2, <3>1, <2>5
      <4> QED
        BY <4>1, <4>2, <4>3, <2>2
    <3> QED
      BY <3>2, <3>3, <1>1
  <2>6. ASSUME NEW a \in 1..(n + 1)
        PROVE  /\ stage'[edits'[a]] # "queued"
               /\ stage'[edits'[a]] = "asking" => edits'[n + 1] = edits'[a]
    <3>1. CASE a \in 1..n
      <4>1. stage[edits[a]] # "queued"
        BY <3>1 DEF Turns
      <4> QED
        BY <4>1, <3>1, <2>1, <2>2, <2>3
    <3>2. CASE a = n + 1
      BY <3>2, <2>1, <2>2
    <3> QED
      BY <3>1, <3>2, <1>1
  <2>7. request'.mode = "tools"
    BY <2>1, RequestStays
  <2> HIDE DEF n
  <2> QED
    BY <2>2, <2>5, <2>6, <2>7 DEF Turns
<1>5. CASE Refuse \/ Run
  BY <1>5, <1>3 DEF Refuse, Run
<1>6. ASSUME NEW i \in Candidates, Asked(i) \/ Isolated(i), ~Edit(i) PROVE Turns'
  <2>1. UNCHANGED edits
    BY <1>6 DEF Asked, Isolated, Begin, Answer, ProvisionFailed, Unusable, Work, ChildEnds,
                WorkReturns, Cleaned, Job
  <2>2. CASE UNCHANGED stage
    BY <2>1, <2>2, <1>3
  <2>3. CASE \E to \in Stages \ {"queued", "dropped"} :
                /\ stage' = [stage EXCEPT ![i] = to]
                /\ to = "asking" => stage[i] = "queued"
    <3>1. \A k \in Candidates :
             /\ stage'[k] = "queued" => stage[k] = "queued"
             /\ stage'[k] = "asking" => stage[k] \in {"queued", "asking"}
      BY <2>3 DEF ATyped
    <3> QED
      BY <2>1, <3>1, <1>2
  <2> QED
    BY <1>6, <2>2, <2>3, Moves
<1>7. CASE Collect \/ Chooses
  BY <1>7, <1>3, CollectKeeps, ChoosesKeep DEF Chosen
<1>8. CASE Cancel
  <2>1. /\ stage' = [i \in Candidates |-> IF i \in InFlight THEN "dropped" ELSE stage[i]]
        /\ UNCHANGED edits
    BY <1>8 DEF Cancel
  <2> QED
    BY <2>1, <1>2
<1>9. CASE UNCHANGED vars
  BY <1>9, <1>3 DEF vars
<1> QED
  BY <1>4, <1>5, <1>6, <1>7, <1>8, <1>9, Kinds DEF Asked

\* What the parts of the invariant say of candidates working apart.
LEMMA Apart ==
    ASSUME ATyped, Ladder, Repository, Room, Turns
    PROVE  WorkApart
<1>1. \A i \in Candidates : child[i] = "alive" => i \in dirs
  BY DEF Ladder, Rung, Repository
<1>2. Standing \in SUBSET Holding
  <2>1. ASSUME NEW i \in Standing PROVE i \in Holding
    <3>1. i \in Candidates /\ job[i] \in CleaningUp \cup {"made"} /\ stage[i] \in Stages
      BY DEF ATyped, Repository, Standing
    <3>2. stage[i] \notin {"queued", "asking", "done"}
      BY <3>1 DEF Ladder, Rung, CleaningUp
    <3> QED
      BY <3>1, <3>2 DEF Holding, Stages
  <2> QED
    BY <2>1
<1>3. IsFiniteSet(Standing) /\ Cardinality(Standing) <= Cardinality(Holding)
  BY <1>2, Held, FS_Subset
<1>4. Cardinality(Standing) <= Permits
  BY <1>3, Held, Permitted, FS_CardinalityType DEF Room
<1>5. \A a, b, c \in 1..Len(edits) : (a < b /\ b < c /\ edits[a] = edits[c]) => edits[b] = edits[a]
  BY DEF Turns
<1> QED
  BY <1>1, <1>4, <1>5 DEF WorkApart

-----------------------------------------------------------------------------
\* The successes, the order they come in and the best of them

\* Successes names every one that won, once, in ascending order.
LEMMA SuccessesAre ==
    ASSUME NEW all
    PROVE  LET r == Successes(all) IN
           /\ Len(r) \in Nat
           /\ \A k \in 1..Len(r) : r[k] \in Won(all)
           /\ \A w \in Won(all) : \E k \in 1..Len(r) : r[k] = w
           /\ \A j, k \in 1..Len(r) : j < k => r[j] < r[k]
<1> DEFINE s == [k \in Candidates |-> k]
           W == Won(all)
           r == Successes(all)
<1>1. N \in Nat /\ s \in Seq(Nat) /\ Len(s) = N /\ \A k \in 1..N : s[k] = k
  <2>1. N \in Nat
    BY Several
  <2>2. s \in [1..N -> Nat] /\ DOMAIN s = 1..N
    BY DEF Candidates
  <2>3. s \in Seq(Nat) /\ Len(s) = N
    BY <2>1, <2>2
  <2> QED
    BY <2>1, <2>3 DEF Candidates
<1>2. W \subseteq 1..Len(s) /\ r = Kept(s, W)
  BY <1>1 DEF Won, Candidates, Successes
<1>3. PICK e : Places(Kept(s, W), s, W, e)
  BY <1>1, <1>2, KeptPlaces
<1> HIDE DEF W, s
<1>4. Places(r, s, W, e)
  BY <1>2, <1>3
<1> HIDE DEF r
<1>5. /\ Len(r) \in Nat
      /\ \A k \in 1..Len(r) : e[k] \in W /\ r[k] = s[e[k]]
      /\ \A w \in W : \E k \in 1..Len(r) : e[k] = w
      /\ \A j, k \in 1..Len(r) : j < k => e[j] < e[k]
  BY <1>4 DEF Places, Embeds
<1>6. \A k \in 1..Len(r) : r[k] = e[k]
  BY <1>1, <1>2, <1>5, ZenonT(40)
<1>7. /\ \A k \in 1..Len(r) : r[k] \in W
      /\ \A w \in W : \E k \in 1..Len(r) : r[k] = w
      /\ \A j, k \in 1..Len(r) : j < k => r[j] < r[k]
  BY <1>5, <1>6
<1> QED
  BY <1>5, <1>7 DEF r, W

\* The k-th success is the k-th of those that won.
LEMMA Ranks ==
    ASSUME NEW all, NEW m \in 1..Len(Successes(all))
    PROVE  Cardinality({j \in Won(all) : j <= Successes(all)[m]}) = m
<1> DEFINE r == Successes(all)
           W == Won(all)
           L == {j \in W : j <= r[m]}
           f == [x \in 1..m |-> r[x]]
<1>1. /\ Len(r) \in Nat
      /\ \A k \in 1..Len(r) : r[k] \in W
      /\ \A w \in W : \E k \in 1..Len(r) : r[k] = w
      /\ \A j, k \in 1..Len(r) : j < k => r[j] < r[k]
  BY SuccessesAre
<1>2. W \subseteq Nat /\ m \in Nat /\ m \in 1..Len(r)
  BY <1>1, Several DEF Won, Candidates
<1> HIDE DEF r, W
<1>3. \A x \in 1..m : x \in 1..Len(r) /\ r[x] \in Nat /\ r[x] <= r[m]
  <2> TAKE x \in 1..m
  <2>1. x \in 1..Len(r) /\ r[x] \in Nat /\ r[m] \in Nat
    <3>1. x \in 1..Len(r)
      BY <1>1, <1>2
    <3>2. r[x] \in W /\ r[m] \in W
      BY <3>1, <1>1, <1>2
    <3> QED
      BY <3>1, <3>2, <1>2
  <2>2. CASE x = m
    BY <2>1, <2>2
  <2>3. CASE x < m
    BY <2>1, <2>3, <1>1, <1>2
  <2> QED
    BY <2>1, <2>2, <2>3, <1>2
<1>4. f \in [1..m -> L]
  BY <1>1, <1>3
<1>5. \A x, y \in 1..m : f[x] = f[y] => x = y
  <2> TAKE x, y \in 1..m
  <2>1. f[x] = r[x] /\ f[y] = r[y]
    OBVIOUS
  <2>2. x < y => r[x] < r[y]
    BY <1>1, <1>3
  <2>3. y < x => r[y] < r[x]
    BY <1>1, <1>3
  <2> HIDE DEF f
  <2> QED
    BY <2>1, <2>2, <2>3, <1>3
<1>6. ASSUME NEW t \in L PROVE \E x \in 1..m : f[x] = t
  <2>1. PICK x \in 1..Len(r) : r[x] = t
    BY <1>1
  <2>2. x <= m
    <3>1. m < x => r[m] < r[x]
      BY <1>1, <1>2
    <3>2. r[x] \in W /\ r[m] \in W /\ r[x] <= r[m]
      BY <2>1, <1>1, <1>2
    <3>3. r[x] \in Nat /\ r[m] \in Nat
      BY <3>2, <1>2
    <3>4. x \in Nat
      BY <1>1
    <3> QED
      BY <3>1, <3>2, <3>3, <3>4, <1>2
  <2>3. x \in 1..m
    BY <2>2, <1>1, <1>2
  <2> QED
    BY <2>1, <2>3
<1> HIDE DEF L, f
<1>7. f \in Bijection(1..m, L)
  BY <1>4, <1>5, <1>6 DEF Bijection, Injection, Surjection, IsInjective
<1>8. IsFiniteSet(1..m) /\ Cardinality(1..m) = m
  BY <1>2, FS_Interval
<1>9. ExistsBijection(1..m, L)
  BY <1>7 DEF ExistsBijection
<1>10. Cardinality(L) = m
  BY <1>8, <1>9, FS_Bijection
<1> QED
  BY <1>10 DEF L, W, r

\* Of finitely many scores there is a best, and a last of the best.
LEMMA LastBest ==
    ASSUME NEW n \in Nat \ {0}, NEW given \in [1..n -> Nat]
    PROVE  \E k \in 1..n : \A j \in 1..n :
              IF j > k THEN given[j] < given[k] ELSE given[j] <= given[k]
<1> DEFINE Best(m, k) == \A j \in 1..m :
                IF j > k THEN given[j] < given[k] ELSE given[j] <= given[k]
           T == {m \in Nat : m + 1 <= n => \E k \in 1..(m + 1) : Best(m + 1, k)}
<1>1. 0 \in T
  <2>1. Best(1, 1)
    OBVIOUS
  <2> QED
    BY <2>1
<1>2. ASSUME NEW m \in Nat, m \in T PROVE m + 1 \in T
  <2>1. SUFFICES ASSUME m + 2 <= n PROVE \E k \in 1..(m + 2) : Best(m + 2, k)
    OBVIOUS
  <2>2. PICK k \in 1..(m + 1) : Best(m + 1, k)
    BY <1>2, <2>1
  <2>3. \A j \in 1..(m + 2) : given[j] \in Nat /\ (j \in 1..(m + 1) \/ j = m + 2)
    BY <2>1
  <2>4. CASE given[m + 2] < given[k]
    <3>1. Best(m + 2, k)
      BY <2>2, <2>3, <2>4
    <3> QED
      BY <3>1
  <2>5. CASE ~(given[m + 2] < given[k])
    <3>1. \A j \in 1..(m + 1) : given[j] <= given[k]
      BY <2>2, <2>3
    <3>2. \A j \in 1..(m + 1) : given[j] <= given[m + 2]
      BY <3>1, <2>3, <2>5
    <3>3. Best(m + 2, m + 2)
      BY <3>2, <2>3
    <3> QED
      BY <3>3
  <2> QED
    BY <2>4, <2>5
<1>3. Nat \subseteq T
  <2> HIDE DEF T
  <2> QED
    BY <1>1, <1>2, AllNat
<1>4. n - 1 \in Nat /\ (n - 1) + 1 = n
  OBVIOUS
<1>5. n - 1 \in T
  <2> HIDE DEF T
  <2> QED
    BY <1>3, <1>4
<1>6. \E k \in 1..((n - 1) + 1) : Best((n - 1) + 1, k)
  BY <1>4, <1>5
<1> QED
  BY <1>4, <1>6

\* The models come back in the order asked, once all have arrived.
LEMMA InOrder ==
    ASSUME ATyped, Arrivals, Len(arrived) = N
    PROVE  Collected = [k \in Candidates |-> Entry(k)]
<1> USE Several
<1>1. arrived \in Bijection(1..N, Candidates)
  BY AllArrived
<1>2. /\ \A j \in 1..N : arrived[j] \in 1..N
      /\ \A j, l \in 1..N : arrived[j] = arrived[l] => j = l
      /\ \A i \in 1..N : \E j \in 1..N : arrived[j] = i
  BY <1>1 DEF Bijection, Injection, Surjection, IsInjective, Candidates
<1>3. {arrived[j] : j \in 1..Len(arrived)} = 1..N
  BY <1>2
<1>4. ASSUME NEW i \in 1..N
      PROVE  Cardinality({j \in 1..Len(arrived) : arrived[j] < i}) = i - 1
  <2> DEFINE L == {j \in 1..N : arrived[j] < i}
             f == [j \in L |-> arrived[j]]
  <2>1. f \in [L -> 1..(i - 1)]
    <3>1. \A v \in 1..N : v < i => v \in 1..(i - 1)
      OBVIOUS
    <3>2. \A j \in L : arrived[j] \in 1..(i - 1)
      BY <3>1, <1>2
    <3> QED
      BY <3>2
  <2>2. \A j, l \in L : f[j] = f[l] => j = l
    BY <1>2
  <2>3. \A t \in 1..(i - 1) : \E j \in L : f[j] = t
    <3> TAKE t \in 1..(i - 1)
    <3>1. t \in 1..N /\ t < i
      OBVIOUS
    <3>2. PICK j \in 1..N : arrived[j] = t
      BY <3>1, <1>2
    <3> QED
      BY <3>1, <3>2
  <2>4. L \in SUBSET (1..N) /\ IsFiniteSet(1..N)
    BY DEF Candidates
  <2>5. IsFiniteSet(L)
    BY <2>4, FS_Subset
  <2> HIDE DEF L, f
  <2>6. f \in Bijection(L, 1..(i - 1))
    BY <2>1, <2>2, <2>3 DEF Bijection, Injection, Surjection, IsInjective
  <2>7. Cardinality(1..(i - 1)) = Cardinality(L)
    BY <2>5, <2>6, FS_Bijection DEF ExistsBijection
  <2>8. i - 1 \in Nat /\ Cardinality(1..(i - 1)) = i - 1
    BY FS_Interval
  <2> QED
    BY <2>7, <2>8 DEF L
<1>5. ASSUME NEW k \in 1..N PROVE Nth(arrived, k) = k
  <2>1. \E i \in {arrived[j] : j \in 1..Len(arrived)} :
            Cardinality({j \in 1..Len(arrived) : arrived[j] < i}) = k - 1
    BY <1>3, <1>4
  <2>2. /\ Nth(arrived, k) \in {arrived[j] : j \in 1..Len(arrived)}
        /\ Cardinality({j \in 1..Len(arrived) : arrived[j] < Nth(arrived, k)}) = k - 1
    BY <2>1 DEF Nth
  <2>3. Nth(arrived, k) \in 1..N
    BY <2>2, <1>3
  <2>4. Nth(arrived, k) - 1 = k - 1
    BY <2>2, <2>3, <1>4
  <2> QED
    BY <2>3, <2>4
<1> QED
  BY <1>5 DEF Collected, Candidates

-----------------------------------------------------------------------------
\* The verdict

LEMMA Sizes ==
    ASSUME NEW all, NEW k
    PROVE  Cardinality(Bucket(all, k)) \in Nat
<1>1. Bucket(all, k) \in SUBSET Candidates
  BY DEF Bucket, Won
<1> QED
  BY <1>1, Several, FS_Subset, FS_CardinalityType

\* A leader won, nobody has more votes, and it spoke first of its bucket.
LEMMA LeaderStands ==
    ASSUME NEW all, NEW k \in Leaders(all)
    PROVE  /\ k \in Won(all)
           /\ ~\E j \in Won(all) : Cardinality(Bucket(all, j)) > Cardinality(Bucket(all, k))
           /\ \A j \in Bucket(all, k) : k <= j
<1>1. /\ k \in Won(all)
      /\ \A j \in Won(all) : Cardinality(Bucket(all, j)) <= Cardinality(Bucket(all, k))
      /\ \A j \in Bucket(all, k) : k <= j
  BY DEF Leaders
<1>2. ASSUME NEW j \in Won(all)
      PROVE  ~(Cardinality(Bucket(all, j)) > Cardinality(Bucket(all, k)))
  <2>1. /\ Cardinality(Bucket(all, j)) \in Nat /\ Cardinality(Bucket(all, k)) \in Nat
        /\ Cardinality(Bucket(all, j)) <= Cardinality(Bucket(all, k))
    BY <1>1, Sizes
  <2> QED
    BY <2>1
<1> QED
  BY <1>1, <1>2

\* A vote has one leader and takes it, or it goes to a judge.
LEMMA VoteGoes ==
    ASSUME NEW all, Vote(all)
    PROVE  \/ /\ Cardinality(Leaders(all)) = 1 /\ phase' = "returned"
              /\ winner' \in Leaders(all) /\ UNCHANGED scores
           \/ /\ Cardinality(Leaders(all)) # 1 /\ phase' = "judging"
              /\ UNCHANGED <<winner, scores>>
<1>1. CASE Cardinality(Leaders(all)) = 1
  <2>1. Leaders(all) # {}
    BY <1>1, FS_EmptySet
  <2>2. (CHOOSE k \in Leaders(all) : TRUE) \in Leaders(all)
    BY <2>1
  <2> QED
    BY <1>1, <2>2 DEF Vote, Decide
<1>2. CASE Cardinality(Leaders(all)) # 1
  BY <1>2 DEF Vote, Escalate
<1> QED
  BY <1>1, <1>2

\* WinnerStands, of values.
Stands(p, all, s, w, sc) ==
    (p = "returned" /\ all # <<>>) =>
        IF Won(all) = {} THEN w = 0
        ELSE /\ w \in Won(all)
             /\ (s = "vote" /\ Cardinality(Leaders(all)) = 1) =>
                    /\ ~\E j \in Won(all) : Cardinality(Bucket(all, j)) > Cardinality(Bucket(all, w))
                    /\ \A j \in Bucket(all, w) : w <= j
             /\ sc # <<>> =>
                    \A k \in Won(all) : sc[Cardinality({j \in Won(all) : j <= k})]
                                          <= sc[Cardinality({j \in Won(all) : j <= w})]

LEMMA StandsIs ==
    /\ WinnerStands <=> Stands(phase, results, strategy, winner, scores)
    /\ WinnerStands' <=> Stands(phase', results', strategy', winner', scores')
  BY DEF WinnerStands, Stands

LEMMA LeaderWins ==
    ASSUME NEW all, NEW w \in Leaders(all)
    PROVE  \A p, s : Stands(p, all, s, w, <<>>)
<1>1. /\ w \in Won(all)
      /\ ~\E j \in Won(all) : Cardinality(Bucket(all, j)) > Cardinality(Bucket(all, w))
      /\ \A j \in Bucket(all, w) : w <= j
  BY LeaderStands
<1> QED
  BY <1>1 DEF Stands

\* Steps of a candidate are not about the verdict.
LEMMA NoVerdict ==
    ASSUME NEW i \in Candidates, Asked(i) \/ Isolated(i)
    PROVE  /\ UNCHANGED <<phase, strategy, results, winner, scores>>
           /\ phase = "running" \/ UNCHANGED <<stage, outcome>>
<1> USE DEF verdict, Steps
<1>1. CASE Asked(i)
  <2>1. CASE Begin(i)
    BY <2>1 DEF Begin
  <2>2. CASE Edit(i)
    BY <2>2 DEF Edit
  <2>3. CASE \E o \in Outcomes : Answer(i, o)
    BY <2>3 DEF Answer
  <2> QED
    BY <1>1, <2>1, <2>2, <2>3 DEF Asked
<1>2. CASE Isolated(i)
  <2>1. CASE ProvisionFailed(i) \/ Unusable(i) \/ Work(i) \/ Cleaned(i)
    BY <2>1 DEF ProvisionFailed, Unusable, Work, Cleaned
  <2>2. CASE \E how \in {"exited", "condemned"} : ChildEnds(i, how)
    BY <2>2 DEF ChildEnds
  <2>3. CASE \E o \in Outcomes : WorkReturns(i, o)
    BY <2>3 DEF WorkReturns
  <2>4. CASE Job(i)
    BY <2>4 DEF Job
  <2> QED
    BY <1>2, <2>1, <2>2, <2>3, <2>4 DEF Isolated
<1> QED
  BY <1>1, <1>2

\* The verdict is about these variables.
LEMMA VerdictKept ==
    ASSUME Verdict, UNCHANGED <<strategy, results, winner, scores>>,
           phase' = phase \/ phase' = "cancelled" \/ (phase = "idle" /\ phase' \in {"running", "returned"}),
           UNCHANGED <<stage, outcome>> \/ results = <<>>
    PROVE  Verdict'
<1>1. WinnerStands'
  <2>1. CASE phase' = phase
    <3>1. Stands(phase, results, strategy, winner, scores)
      BY StandsIs DEF Verdict
    <3> QED
      BY <2>1, <3>1, StandsIs
  <2>2. CASE phase' = "cancelled" \/ phase' = "running"
    <3>1. Stands(phase', results', strategy', winner', scores')
      BY <2>2 DEF Stands
    <3> QED
      BY <3>1, StandsIs
  <2>3. CASE phase = "idle"
    <3>1. results' = <<>>
      BY <2>3 DEF Verdict
    <3>2. Stands(phase', results', strategy', winner', scores')
      BY <3>1 DEF Stands
    <3> QED
      BY <3>2, StandsIs
  <2> QED
    BY <2>1, <2>2, <2>3
<1>2. results' # <<>> =>
         /\ results' = [k \in Candidates |-> Entry(k)']
         /\ \A i \in Candidates : stage'[i] = "done"
  <2>1. CASE results = <<>>
    BY <2>1
  <2>2. CASE UNCHANGED <<stage, outcome>> /\ results # <<>>
    BY <2>2 DEF Verdict, Entry
  <2> QED
    BY <2>1, <2>2
<1>3. /\ phase' \in {"idle", "running"} => results' = <<>> /\ scores' = <<>>
      /\ phase' \in {"grading", "judging"} =>
            results' # <<>> /\ Won(results') # {} /\ scores' = <<>>
      /\ phase' = "grading" => strategy' = "best-of-n"
  BY DEF Verdict
<1>4. (phase' = "judging" /\ strategy' = "vote") => Cardinality(Leaders(results')) # 1
  BY DEF Verdict
<1> QED
  BY <1>1, <1>2, <1>3, <1>4 DEF Verdict

LEMMA CollectJudges ==
    ASSUME ATyped, Arrivals, Verdict, Collect
    PROVE  Verdict'
<1> DEFINE all == Collected
           ok == Successes(all)
<1>1. /\ phase = "running" /\ Len(arrived) = N /\ results' = all
      /\ strategy' \in {"vote", "best-of-n", "judge"} /\ UNCHANGED <<scores, stage, outcome>>
      /\ phase' \in {"returned", "judging", "grading"}
  BY CollectKeeps, ConsensusAssumption
<1>2. scores' = <<>>
  BY <1>1 DEF Verdict
<1>3. all = [k \in Candidates |-> Entry(k)] /\ \A i \in Candidates : stage'[i] = "done"
  BY <1>1, InOrder, AllArrived
<1>4. results' = [k \in Candidates |-> Entry(k)']
  BY <1>1, <1>3 DEF Entry
<1>5. results' # <<>>
  <2>1. DOMAIN results' = 1..N /\ 1 \in 1..N
    BY <1>4, Several DEF Candidates
  <2>2. DOMAIN <<>> = {}
    OBVIOUS
  <2> QED
    BY <2>1, <2>2
<1>6. /\ Len(ok) \in Nat
      /\ \A k \in 1..Len(ok) : ok[k] \in Won(all)
      /\ \A w \in Won(all) : \E k \in 1..Len(ok) : ok[k] = w
  BY SuccessesAre
<1>7. ok = <<>> <=> Len(ok) = 0
  <2>1. ok = <<>> => Len(ok) = 0
    OBVIOUS
  <2>2. ASSUME Len(ok) = 0 PROVE ok = <<>>
    <3>1. /\ N \in Nat /\ [k \in Candidates |-> k] \in Seq(Nat)
          /\ Len([k \in Candidates |-> k]) = N /\ Won(all) \subseteq 1..N
      BY Several DEF Candidates, Won
    <3>2. ok \in Seq(Nat)
      BY <3>1, KeptEmbeds DEF Successes
    <3> HIDE DEF ok
    <3> QED
      BY <2>2, <3>2
  <2> QED
    BY <2>1, <2>2
<1>8. /\ IF Len(ok) <= 1 THEN Decide(IF ok = <<>> THEN 0 ELSE ok[1])
         ELSE CASE strategy' = "vote" -> Vote(all)
                [] strategy' = "best-of-n" -> Escalate("grading")
                [] strategy' = "judge" -> Escalate("judging")
  BY DEF Collect
<1> HIDE DEF ok, all
<1> DEFINE Good ==
      /\ Stands(phase', all, strategy', winner', <<>>)
      /\ phase' \in {"judging", "grading"} => Won(all) # {}
      /\ phase' = "grading" => strategy' = "best-of-n"
      /\ (phase' = "judging" /\ strategy' = "vote") => Cardinality(Leaders(all)) # 1
<1>9. ASSUME Len(ok) = 0 PROVE Good
  <2>1. Won(all) = {} /\ ok = <<>>
    BY <1>6, <1>7, <1>9
  <2>2. phase' = "returned" /\ winner' = 0
    BY <1>8, <1>9, <2>1 DEF Decide
  <2> QED
    BY <2>1, <2>2 DEF Stands
<1>10. ASSUME Len(ok) = 1 PROVE Good
  <2>1. phase' = "returned" /\ winner' = ok[1]
    BY <1>7, <1>8, <1>10 DEF Decide
  <2>2. Won(all) = {winner'}
    BY <2>1, <1>6, <1>10
  <2>3. Bucket(all, winner') \subseteq {winner'} /\ winner' \in Nat
    BY <2>2, Several DEF Bucket, Won, Candidates
  <2>4. \A j \in Won(all) :
            ~(Cardinality(Bucket(all, j)) > Cardinality(Bucket(all, winner')))
    BY <2>2, Sizes
  <2>5. \A j \in Bucket(all, winner') : winner' <= j
    BY <2>3
  <2> QED
    BY <2>1, <2>2, <2>4, <2>5 DEF Stands
<1>11. ASSUME Len(ok) > 1 PROVE Good
  <2>1. Won(all) # {} /\ ~(Len(ok) <= 1)
    BY <1>6, <1>11
  <2>2. CASE strategy' = "vote"
    <3>1. Vote(all)
      BY <1>8, <2>1, <2>2
    <3>2. CASE Cardinality(Leaders(all)) = 1 /\ phase' = "returned" /\ winner' \in Leaders(all)
      <4>1. Stands(phase', all, strategy', winner', <<>>)
        BY <3>2, LeaderWins
      <4> QED
        BY <2>1, <3>2, <4>1
    <3>3. CASE Cardinality(Leaders(all)) # 1 /\ phase' = "judging"
      BY <2>1, <3>3 DEF Stands
    <3> QED
      BY <3>1, <3>2, <3>3, VoteGoes
  <2>3. CASE strategy' \in {"best-of-n", "judge"}
    <3>1. phase' = IF strategy' = "judge" THEN "judging" ELSE "grading"
      BY <1>8, <2>1, <2>3 DEF Escalate
    <3> QED
      BY <2>1, <2>3, <3>1 DEF Stands
  <2> QED
    BY <1>1, <2>2, <2>3
<1>12. Good
  <2> HIDE DEF Good
  <2> QED
    BY <1>6, <1>9, <1>10, <1>11
<1>13. WinnerStands'
  <2>1. Stands(phase', results', strategy', winner', scores')
    BY <1>1, <1>2, <1>12
  <2> QED
    BY <2>1, StandsIs
<1>14. /\ phase' \in {"grading", "judging"} =>
             results' # <<>> /\ Won(results') # {} /\ scores' = <<>>
       /\ phase' = "grading" => strategy' = "best-of-n"
       /\ (phase' = "judging" /\ strategy' = "vote") => Cardinality(Leaders(results')) # 1
  BY <1>1, <1>2, <1>5, <1>12
<1> QED
  BY <1>1, <1>3, <1>4, <1>13, <1>14 DEF Verdict

\* A grading picks a candidate nobody outscored.
LEMMA GradeStands ==
    ASSUME Verdict, NEW n \in Candidates, NEW given \in [1..n -> 0..MaxScore], Grade(given)
    PROVE  Stands("returned", results, strategy, winner', scores')
<1> DEFINE r == Successes(results)
           W == Won(results)
           Best(k) == \A j \in 1..Len(r) : IF j > k THEN given[j] < given[k] ELSE given[j] <= given[k]
           best == CHOOSE k \in 1..Len(r) : Best(k)
<1>1. /\ phase = "grading" /\ DOMAIN given = 1..Len(r)
      /\ scores' = given /\ winner' = r[best]
  BY DEF Grade
<1>2. /\ Len(r) \in Nat
      /\ \A k \in 1..Len(r) : r[k] \in W
      /\ \A w \in W : \E k \in 1..Len(r) : r[k] = w
  BY SuccessesAre
<1>3. \A m \in 1..Len(r) : Cardinality({j \in W : j <= r[m]}) = m
  BY Ranks
<1>4. W # {} /\ strategy = "best-of-n"
  BY <1>1 DEF Verdict
<1> HIDE DEF r, W
<1>5. Len(r) \in Nat \ {0}
  BY <1>2, <1>4
<1>6. given \in [1..Len(r) -> Nat]
  <2>1. \A k \in DOMAIN given : given[k] \in Nat
    OBVIOUS
  <2> QED
    BY <1>1, <2>1
<1>7. \E k \in 1..Len(r) : Best(k)
  BY <1>5, <1>6, LastBest
<1>8. best \in 1..Len(r) /\ Best(best)
  BY <1>7
<1> HIDE DEF best
<1>9. \A k \in 1..Len(r) : given[k] <= given[best]
  <2> TAKE k \in 1..Len(r)
  <2>1. given[k] \in Nat /\ given[best] \in Nat
    BY <1>6, <1>8
  <2>2. IF k > best THEN given[k] < given[best] ELSE given[k] <= given[best]
    BY <1>8
  <2> QED
    BY <2>1, <2>2
<1>10. winner' \in W /\ Cardinality({j \in W : j <= winner'}) = best
  BY <1>1, <1>2, <1>3, <1>8
<1>11. ASSUME NEW k \in W
       PROVE  given[Cardinality({j \in W : j <= k})] <= given[Cardinality({j \in W : j <= winner'})]
  <2>1. PICK x \in 1..Len(r) : r[x] = k
    BY <1>2
  <2>2. Cardinality({j \in W : j <= k}) = x
    BY <2>1, <1>3
  <2> QED
    BY <2>2, <1>9, <1>10
<1> QED
  BY <1>1, <1>4, <1>10, <1>11 DEF Stands, W

LEMMA ChoosesWell ==
    ASSUME Verdict, Chooses
    PROVE  Verdict'
<1>1. /\ Chosen /\ phase \in {"grading", "judging"} /\ phase' \in {"returned", "judging"}
  BY ChoosesKeep
<1>2. UNCHANGED <<strategy, stage, outcome, results>>
  BY <1>1 DEF Chosen
<1>3. /\ results # <<>> /\ Won(results) # {} /\ scores = <<>>
      /\ results = [k \in Candidates |-> Entry(k)]
      /\ \A i \in Candidates : stage[i] = "done"
  BY <1>1 DEF Verdict
<1>4. results' = [k \in Candidates |-> Entry(k)']
  BY <1>2, <1>3 DEF Entry
<1> DEFINE Good ==
      /\ Stands(phase', results, strategy, winner', scores')
      /\ phase' = "judging" => scores' = <<>>
      /\ (phase' = "judging" /\ strategy = "vote") => Cardinality(Leaders(results)) # 1
<1>5. ASSUME NEW k \in Candidates, Pick(k) PROVE Good
  <2>1. /\ phase = "judging" /\ phase' = "returned" /\ UNCHANGED scores
        /\ k \in 1..Len(Successes(results)) /\ winner' = Successes(results)[k]
    BY <1>5 DEF Pick, Decide
  <2>2. winner' \in Won(results)
    BY <2>1, SuccessesAre
  <2>3. strategy = "vote" => Cardinality(Leaders(results)) # 1
    BY <2>1 DEF Verdict
  <2> QED
    BY <1>3, <2>1, <2>2, <2>3 DEF Stands
<1>6. ASSUME NEW n \in Candidates, NEW given \in [1..n -> 0..MaxScore], Grade(given) PROVE Good
  <2>1. phase' = "returned"
    BY <1>6 DEF Grade
  <2> QED
    BY <1>6, <2>1, GradeStands
<1>7. ASSUME GraderFails PROVE Good
  <2>1. phase = "grading" /\ Vote(results)
    BY <1>7 DEF GraderFails
  <2>2. strategy = "best-of-n"
    BY <2>1 DEF Verdict
  <2>3. CASE winner' \in Leaders(results) /\ UNCHANGED scores /\ phase' = "returned"
    <3>1. Stands(phase', results, strategy, winner', scores')
      BY <2>3, <1>3, LeaderWins
    <3> QED
      BY <2>3, <3>1
  <2>4. CASE phase' = "judging" /\ UNCHANGED scores
    BY <1>3, <2>2, <2>4 DEF Stands
  <2> QED
    BY <2>1, <2>3, <2>4, VoteGoes
<1> HIDE DEF Good
<1>8. Good
  BY <1>5, <1>6, <1>7 DEF Chooses
<1>9. WinnerStands'
  BY <1>2, <1>8, StandsIs DEF Good
<1> QED
  BY <1>1, <1>2, <1>3, <1>4, <1>8, <1>9 DEF Verdict, Good

LEMMA VerdictStep ==
    ASSUME ATyped, Advance, Arrivals, Verdict, [Next]_vars
    PROVE  Verdict'
<1>1. CASE Refuse
  BY <1>1, VerdictKept DEF Refuse, verdict
<1>2. CASE Run
  BY <1>2, VerdictKept DEF Run, verdict
<1>3. ASSUME NEW i \in Candidates, Asked(i) \/ Isolated(i) PROVE Verdict'
  <2>1. phase = "running" => results = <<>>
    BY DEF Verdict
  <2> QED
    BY <1>3, <2>1, NoVerdict, VerdictKept
<1>4. CASE Collect
  BY <1>4, CollectJudges
<1>5. CASE Chooses
  BY <1>5, ChoosesWell
<1>6. CASE Cancel
  <2>1. /\ phase' = "cancelled" /\ UNCHANGED <<strategy, results, winner, scores, outcome>>
        /\ stage' = [i \in Candidates |-> IF i \in InFlight THEN "dropped" ELSE stage[i]]
        /\ phase \in {"running", "grading", "judging"}
    BY <1>6 DEF Cancel, verdict
  <2>2. results = <<>> \/ \A i \in Candidates : stage[i] = "done"
    BY DEF Verdict
  <2>3. CASE results = <<>>
    BY <2>1, <2>3, VerdictKept
  <2>4. CASE \A i \in Candidates : stage[i] = "done"
    <3>1. stage' = stage
      BY <2>1, <2>4 DEF InFlight, Waiting, ATyped
    <3> QED
      BY <2>1, <3>1, VerdictKept
  <2> QED
    BY <2>2, <2>3, <2>4
<1>7. CASE UNCHANGED vars
  BY <1>7, VerdictKept DEF vars
<1> QED
  BY <1>1, <1>2, <1>3, <1>4, <1>5, <1>6, <1>7, Kinds

-----------------------------------------------------------------------------
\* The invariant, and what it carries

LEMMA CInvInit ==
    ASSUME Init
    PROVE  CInv
<1> USE Several DEF Init, WInit
<1>1. ATyped
  <2>1. Failure \in Outcomes
    BY DEF Outcomes
  <2> QED
    BY <2>1 DEF ATyped, Phases, Stages, CallStates, ChildStates, Jobs
<1>2. Ladder
  BY DEF Ladder, Rung
<1>3. Repository
  BY DEF Repository
<1>4. Advance
  BY DEF Advance
<1>5. Arrivals
  BY DEF Arrivals
<1>6. Room
  <2>1. Holding = {}
    BY DEF Holding, Waiting
  <2>2. Cardinality(Holding) = 0
    BY <2>1, FS_EmptySet
  <2> QED
    BY <1>1, <2>2, Permitted DEF Room
<1>7. Turns
  BY DEF Turns
<1>8. Verdict
  BY DEF Verdict, WinnerStands
<1> QED
  BY <1>1, <1>2, <1>3, <1>4, <1>5, <1>6, <1>7, <1>8 DEF CInv

LEMMA CInvStep ==
    ASSUME CInv, [Next]_vars
    PROVE  CInv'
  BY TypedStep, LadderStep, RepositoryStep, AdvanceStep, ArrivalsStep, RoomStep, TurnsStep,
     VerdictStep DEF CInv

LEMMA CInvHolds == Spec => []CInv
<1>1. Init => CInv
  BY CInvInit
<1>2. CInv /\ [Next]_vars => CInv'
  BY CInvStep
<1> QED
  BY <1>1, <1>2, PTL DEF Spec

\* Every variable of a consensus run keeps its type.
THEOREM ConsensusTypes == Spec => []ATyped
<1>1. CInv => ATyped
  BY DEF CInv
<1> QED
  BY <1>1, CInvHolds, PTL

\* Candidates work apart, for every number of models, permits and edits: tool
\* subagents never mix their changes (run_tool_subagents), isolated ones never
\* outnumber their permits and none outlives its worktree
\* (run_isolated_tool_subagents_with_runner).
THEOREM CandidatesApart == Spec => []WorkApart
<1>1. CInv => WorkApart
  BY Apart DEF CInv
<1> QED
  BY <1>1, CInvHolds, PTL

\* A run that returns has left no directory, and no registration or branch but
\* where a clean-up command failed (cleanup_worktree).
THEOREM ReturnsCleanAlways == Spec => []ReturnsClean
<1>1. CInv => ReturnsClean
  BY NothingStays DEF CInv, ReturnsClean
<1> QED
  BY <1>1, CInvHolds, PTL

\* The report has one entry for each model in the order asked, whatever order
\* they came in, and the winner stands on it (run_inner, arbitrate).
THEOREM VerdictHolds == Spec => []VerdictStands
<1>1. CInv => VerdictStands
  BY DEF CInv, Verdict, VerdictStands, AnswersInOrder
<1> QED
  BY <1>1, CInvHolds, PTL

-----------------------------------------------------------------------------
\* The children

LEMMA ChildOnly ==
    ASSUME NEW i \in Candidates, UNCHANGED <<call[i], child[i], outcome[i]>>
    PROVE  UNCHANGED <<call[i], child[i], Succeeded(i)>>
  BY DEF Succeeded

LEMMA OkIsBoolean == \A o \in Outcomes : o.ok \in BOOLEAN
<1>1. Failure.ok = FALSE
  BY DEF Failure
<1>2. \A o \in [ok : {TRUE}, text : Answers] : o.ok = TRUE
  OBVIOUS
<1> QED
  BY <1>1, <1>2 DEF Outcomes

LEMMA ChildStep ==
    ASSUME ATyped, Ladder, [Next]_vars, NEW k \in Candidates
    PROVE  Child(k)!Next \/ UNCHANGED <<call[k], child[k], Succeeded(k)>>
<1> DEFINE Goal == Child(k)!Next \/ UNCHANGED <<call[k], child[k], Succeeded(k)>>
<1>0. ASSUME UNCHANGED <<call[k], child[k], outcome[k]>> PROVE Goal
  BY <1>0, ChildOnly
<1>1. ASSUME UNCHANGED <<call, child, outcome>> PROVE Goal
  BY <1>1, <1>0
<1>2. Rung(stage[k], job[k], call[k], child[k])
  BY DEF Ladder
<1>3. ASSUME Refuse \/ Run \/ Collect \/ Chooses \/ UNCHANGED vars PROVE Goal
  <2>1. UNCHANGED <<call, child, outcome>>
    BY <1>3, CollectKeeps, ChoosesKeep DEF Refuse, Run, Chosen, childVars, vars
  <2> QED
    BY <2>1, <1>1
<1>4. ASSUME NEW i \in Candidates, Asked(i) PROVE Goal
  <2>1. UNCHANGED <<call, child>>
    BY <1>4 DEF Asked, Begin, Edit, Answer, childVars
  <2>2. CASE UNCHANGED outcome
    BY <2>1, <2>2, <1>1
  <2>3. ASSUME NEW o \in Outcomes, Answer(i, o) PROVE Goal
    <3>1. stage[i] = "asking" /\ outcome' = [outcome EXCEPT ![i] = o]
      BY <2>3 DEF Answer, Steps, Finish
    <3>2. CASE k # i
      BY <2>1, <3>1, <3>2, <1>0
    <3>3. CASE k = i
      <4>1. call[k] = "idle"
        BY <1>2, <3>1, <3>3 DEF Rung
      <4>2. Succeeded(k) = FALSE /\ Succeeded(k)' = FALSE
        BY <4>1, <2>1 DEF Succeeded
      <4> QED
        BY <2>1, <4>2
    <3> QED
      BY <3>2, <3>3
  <2>4. Begin(i) \/ Edit(i) => UNCHANGED outcome
    BY DEF Begin, Edit
  <2> QED
    BY <1>4, <2>2, <2>3, <2>4 DEF Asked
<1>5. ASSUME NEW i \in Candidates, Isolated(i) PROVE Goal
  <2>1. ASSUME ProvisionFailed(i) PROVE Goal
    <3>1. stage[i] = "provisioning" /\ outcome' = [outcome EXCEPT ![i] = Failure]
          /\ UNCHANGED <<call, child>>
      BY <2>1 DEF ProvisionFailed, Steps, Finish, childVars
    <3>2. CASE k # i
      BY <3>1, <3>2, <1>0
    <3>3. CASE k = i
      <4>1. call[k] = "idle"
        BY <1>2, <3>1, <3>3 DEF Rung
      <4>2. Succeeded(k) = FALSE /\ Succeeded(k)' = FALSE
        BY <4>1, <3>1 DEF Succeeded
      <4> QED
        BY <3>1, <4>2
    <3> QED
      BY <3>2, <3>3
  <2>2. ASSUME Unusable(i) PROVE Goal
    BY <2>2, <1>1 DEF Unusable, childVars
  <2>3. ASSUME Work(i) PROVE Goal
    <3>1. /\ stage[i] = "provisioning" /\ call' = [call EXCEPT ![i] = "running"]
          /\ child' = [child EXCEPT ![i] = "alive"] /\ UNCHANGED outcome
      BY <2>3 DEF Work, Steps
    <3>2. CASE k # i
      BY <3>1, <3>2, <1>0
    <3>3. CASE k = i
      <4>1. call[k] = "idle" /\ call'[k] = "running" /\ child'[k] = "alive"
        BY <1>2, <3>1, <3>3 DEF Rung, ATyped
      <4>2. Succeeded(k) = FALSE /\ Succeeded(k)' = FALSE
        BY <4>1 DEF Succeeded
      <4>3. Child(k)!Start
        BY <4>1, <4>2 DEF Child!Start
      <4> QED
        BY <4>3 DEF Child!Next
    <3> QED
      BY <3>2, <3>3
  <2>4. ASSUME NEW how \in {"exited", "condemned"}, ChildEnds(i, how) PROVE Goal
    <3>1. /\ child[i] = "alive" /\ child' = [child EXCEPT ![i] = how]
          /\ how = "condemned" => stage[i] = "working"
          /\ UNCHANGED <<call, outcome>>
      BY <2>4 DEF ChildEnds
    <3>2. CASE k # i
      BY <3>1, <3>2, <1>0
    <3>3. CASE k = i
      <4>1. call[k] = "running" /\ child[k] = "alive" /\ child'[k] = how
        BY <1>2, <3>1, <3>3 DEF Rung, ATyped
      <4>2. UNCHANGED <<call[k], Succeeded(k)>>
        BY <3>1 DEF Succeeded
      <4>3. Child(k)!Exit \/ Child(k)!Condemn
        BY <4>1, <4>2 DEF Child!Exit, Child!Condemn
      <4> QED
        BY <4>3 DEF Child!Next
    <3> QED
      BY <3>2, <3>3
  <2>5. ASSUME NEW o \in Outcomes, WorkReturns(i, o) PROVE Goal
    <3>1. /\ child[i] # "alive" /\ (o.ok => child[i] = "exited") /\ stage[i] = "working"
          /\ call' = [call EXCEPT ![i] = "returned"]
          /\ outcome' = [outcome EXCEPT ![i] = o] /\ UNCHANGED child
      BY <2>5 DEF WorkReturns, Steps
    <3>2. CASE k # i
      BY <3>1, <3>2, <1>0
    <3>3. CASE k = i
      <4>1. call[k] = "running" /\ call'[k] = "returned" /\ outcome'[k] = o
        BY <1>2, <3>1, <3>3 DEF Rung, ATyped
      <4>2. Succeeded(k)' = o.ok /\ o.ok \in BOOLEAN
        <5>1. o.ok \in BOOLEAN
          BY OkIsBoolean
        <5>2. Succeeded(k)' <=> o.ok
          BY <4>1 DEF Succeeded
        <5>3. Succeeded(k)' \in BOOLEAN
          BY <4>1, <5>1 DEF Succeeded
        <5> QED
          BY <5>1, <5>2, <5>3
      <4>3. Succeeded(k)' \in (IF child[k] = "exited" THEN BOOLEAN ELSE {FALSE})
        BY <4>2, <3>1, <3>3
      <4>4. Child(k)!Return
        BY <4>1, <4>3, <3>1, <3>3 DEF Child!Return
      <4> QED
        BY <4>4 DEF Child!Next
    <3> QED
      BY <3>2, <3>3
  <2>6. ASSUME Cleaned(i) PROVE Goal
    <3>1. outcome' = [outcome EXCEPT ![i] = outcome[i]] /\ UNCHANGED <<call, child>>
      BY <2>6 DEF Cleaned, Finish, childVars
    <3>2. outcome' = outcome
      BY <3>1 DEF ATyped
    <3> QED
      BY <3>1, <3>2, <1>1
  <2>7. ASSUME Job(i) PROVE Goal
    BY <2>7, <1>1 DEF Job, childVars
  <2> QED
    BY <1>5, <2>1, <2>2, <2>3, <2>4, <2>5, <2>6, <2>7 DEF Isolated
<1>6. ASSUME Cancel PROVE Goal
  <2>1. /\ call' = [i \in Candidates |-> IF stage[i] = "working" THEN "dropped" ELSE call[i]]
        /\ child' = [i \in Candidates |->
              IF stage[i] = "working" /\ child[i] = "alive" THEN "condemned" ELSE child[i]]
        /\ UNCHANGED outcome
    BY <1>6 DEF Cancel
  <2>2. CASE stage[k] = "working"
    <3>1. /\ call[k] = "running" /\ call'[k] = "dropped"
          /\ child'[k] = IF child[k] = "alive" THEN "condemned" ELSE child[k]
      BY <1>2, <2>1, <2>2 DEF Rung
    <3>2. Succeeded(k) = FALSE /\ Succeeded(k)' = FALSE
      BY <3>1 DEF Succeeded
    <3>3. Child(k)!Drop
      BY <3>1, <3>2 DEF Child!Drop
    <3> QED
      BY <3>3 DEF Child!Next
  <2>3. CASE stage[k] # "working"
    BY <2>1, <2>3, <1>0
  <2> QED
    BY <2>2, <2>3
<1> QED
  BY <1>3, <1>4, <1>5, <1>6, Kinds

\* A consensus run uses its children as the contract of a child run has it: each
\* is started once, answers once, and a cancel that drops the call ends it.
THEOREM ChildrenAreChildRuns == Spec => ChildrenKeepContract
<1>1. Init => \A i \in Candidates : Child(i)!Init
  BY DEF Init, Child!Init, Succeeded
<1>2. CInv /\ [Next]_vars =>
         [\A i \in Candidates :
             Child(i)!Next \/ UNCHANGED <<call[i], child[i], Succeeded(i)>>]_vars
  BY ChildStep DEF CInv
<1> QED
  BY <1>1, <1>2, CInvHolds, PTL DEF Spec, ChildrenKeepContract
=============================================================================
