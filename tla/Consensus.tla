------------------------------ MODULE Consensus ------------------------------
(***************************************************************************)
(* One consensus run (src/src/consensus.rs): several models answer the     *)
(* same goal, and one answer is chosen.  The models are asked side by side *)
(* under permits ("llm"), run one after another on the shared tree as      *)
(* in-process subagents ("tools"), or side by side, each as a child        *)
(* process in a worktree of its own ("isolated").  A child is what         *)
(* ChildRun promises of it, a worktree one of Worktrees.                   *)
(*                                                                         *)
(* Dropping the run's future, by Ctrl-C, drops what every candidate waits  *)
(* for; jobs on blocking threads run on.                                   *)
(***************************************************************************)
EXTENDS Worktrees, Subsequences

CONSTANTS N,             \* how many models are asked
          Modes,         \* of "llm", "tools", "isolated"
          Strategies,    \* of "vote", "best-of-n", "judge"
          Concurrencies, \* values of the request's `concurrency`
          Answers,       \* outputs, told apart as hash_normalized does
          MaxScore,      \* bound: scores a grader gives, from 0
          MaxEdits       \* bound: changes one tool subagent makes to the tree

ASSUME ConsensusAssumption ==
    /\ N \in Nat \ {0, 1} /\ Sessions = 1..N
    /\ Modes \subseteq {"llm", "tools", "isolated"}
    /\ Strategies \subseteq {"vote", "best-of-n", "judge"}
    /\ Concurrencies \subseteq Nat /\ {MaxScore, MaxEdits} \subseteq Nat

VARIABLES request,   \* mode and concurrency
          strategy,  \* what it says of choosing, once that is read
          phase,     \* the await of the run, or how it ended
          stage,     \* the await of each candidate
          call, child,           \* its child process: see ChildRun
          outcome,   \* what came of each candidate
          arrived,   \* the order they came in (FuturesUnordered)
          results,   \* subagent_outputs
          winner,    \* the index chosen, 0 if none
          scores,    \* what a grader replied
          edits      \* ghost: who changed the shared tree, in order

vars == <<wvars, request, strategy, phase, stage, call, child, outcome, arrived,
          results, winner, scores, edits>>

childVars == <<call, child>>
verdict == <<strategy, results, winner, scores>>
Candidates == 1..N

Requests == [mode : Modes, concurrency : Concurrencies]
Failure == [ok |-> FALSE, text |-> "none"]
Outcomes == {Failure} \cup [ok : {TRUE}, text : Answers]

Least(a, b) == IF a < b THEN a ELSE b

\* isolated_permits, and the permits of run_llm_subagents; tools take turns.
Permits ==
    LET c == request.concurrency IN
    CASE request.mode = "isolated" -> IF c = 0 THEN 1 ELSE Least(Least(c, 2), N)
      [] request.mode = "llm" -> IF c = 0 THEN N ELSE Least(c, N)
      [] OTHER -> 1

Waiting == {"asking", "provisioning", "working", "cleaning"}

\* A wrong permit: it is given back as the child ends, before the clean-up.
InFlightTillAnswered == {i \in Candidates : stage[i] \in Waiting \ {"cleaning"}}

\* The candidates that hold a permit: to the end of their future.
InFlight == {i \in Candidates : stage[i] \in Waiting}

Init ==
    /\ WInit
    /\ request \in Requests
    /\ phase = "idle"
    /\ stage = [i \in Candidates |-> "queued"]
    /\ call = [i \in Candidates |-> "idle"]
    /\ child = [i \in Candidates |-> "none"]
    /\ outcome = [i \in Candidates |-> Failure]
    /\ arrived = <<>> /\ results = <<>> /\ winner = 0 /\ scores = <<>>
    /\ strategy = "unread"
    /\ edits = <<>>

\* run_inner...: an isolated run first wants a trusted and clean repository.
Refuse ==
    /\ phase = "idle" /\ request.mode = "isolated"
    /\ phase' = "returned"
    /\ UNCHANGED <<wvars, request, stage, childVars, outcome, arrived, verdict, edits>>

Run ==
    /\ phase = "idle"
    /\ phase' = "running"
    /\ UNCHANGED <<wvars, request, stage, childVars, outcome, arrived, verdict, edits>>

-----------------------------------------------------------------------------
\* The candidates

Steps(i, from, to) ==
    /\ phase = "running" /\ stage[i] = from
    /\ stage' = [stage EXCEPT ![i] = to]
    /\ UNCHANGED <<request, phase, verdict>>

\* The semaphore is fair, and the futures first ask for it in the order asked.
Begin(i) ==
    /\ Cardinality(InFlight) < Permits
    /\ \A j \in 1..(i - 1) : stage[j] # "queued"
    /\ IF request.mode = "isolated"
         THEN Steps(i, "queued", "provisioning") /\ Provision(i)
         ELSE Steps(i, "queued", "asking") /\ UNCHANGED wvars
    /\ UNCHANGED <<childVars, outcome, arrived, edits>>

Finish(i, o) ==
    /\ outcome' = [outcome EXCEPT ![i] = o]
    /\ arrived' = Append(arrived, i)

\* run_llm_subagents and run_tool_subagents: an answer or an error.
Answer(i, o) ==
    /\ Steps(i, "asking", "done")
    /\ Finish(i, o)
    /\ UNCHANGED <<wvars, childVars, edits>>

\* A tool call of an in-process subagent changes the tree they all share.
Edit(i) ==
    /\ request.mode = "tools" /\ phase = "running" /\ stage[i] = "asking"
    /\ Cardinality({k \in 1..Len(edits) : edits[k] = i}) < MaxEdits
    /\ edits' = Append(edits, i)
    /\ UNCHANGED <<wvars, request, phase, stage, childVars, outcome, arrived, verdict>>

\* create_in failed and has cleaned up after itself.
ProvisionFailed(i) ==
    /\ job[i] = "gone"
    /\ Steps(i, "provisioning", "done")
    /\ Finish(i, Failure)
    /\ UNCHANGED <<wvars, childVars, edits>>

TearDown(i) == Goes(i, "remove") /\ UNCHANGED <<dirs, admin, branches, botched>>

\* The working directory is not in the worktree, or there is no child: clean up.
Unusable(i) ==
    /\ job[i] = "made"
    /\ Steps(i, "provisioning", "cleaning")
    /\ TearDown(i)
    /\ UNCHANGED <<childVars, outcome, arrived, edits>>

Work(i) ==
    /\ job[i] = "made"
    /\ Steps(i, "provisioning", "working")
    /\ call' = [call EXCEPT ![i] = "running"]
    /\ child' = [child EXCEPT ![i] = "alive"]
    /\ UNCHANGED <<wvars, outcome, arrived, edits>>

ChildEnds(i, how) ==
    /\ child[i] = "alive"
    /\ how = "condemned" => stage[i] = "working"
    /\ child' = [child EXCEPT ![i] = how]
    /\ UNCHANGED <<wvars, request, phase, stage, call, outcome, arrived,
                   verdict, edits>>

\* The child's run returns, successful or not; the worktree goes with it.
WorkReturns(i, o) ==
    /\ child[i] # "alive"
    /\ o.ok => child[i] = "exited"
    /\ Steps(i, "working", "cleaning")
    /\ call' = [call EXCEPT ![i] = "returned"]
    /\ outcome' = [outcome EXCEPT ![i] = o]
    /\ TearDown(i)
    /\ UNCHANGED <<child, arrived, edits>>

\* CancelSafeWorktreeSession::cleanup has been waited for.
Cleaned(i) ==
    /\ job[i] = "gone"
    /\ Steps(i, "cleaning", "done")
    /\ Finish(i, outcome[i])
    /\ UNCHANGED <<wvars, childVars, edits>>

\* The job of a candidate, on its blocking thread.
Job(i) ==
    /\ \/ ResolveFails(i) \/ AddFails(i)
       \/ Added(i, stage[i] = "provisioning")
       \/ CleanUp(i) \/ CommandFails(i)
    /\ UNCHANGED <<request, phase, stage, childVars, outcome, arrived, verdict, edits>>

-----------------------------------------------------------------------------
\* The choice

Entry(i) == [model |-> i, ok |-> outcome[i].ok, text |-> outcome[i].text]

\* A wrong collection: the outputs stay in the order they came in.
CollectedAsTheyCame == [k \in Candidates |-> Entry(arrived[k])]

\* The k-th of the numbers in s, all different, in ascending order.
Nth(s, k) ==
    CHOOSE i \in {s[j] : j \in 1..Len(s)} : Cardinality({j \in 1..Len(s) : s[j] < i}) = k - 1

\* The outputs, sorted by the index of the model they are from.
Collected == [k \in Candidates |-> Entry(Nth(arrived, k))]

\* The successes among the outputs, and in the order asked.
Won(all) == {k \in Candidates : all[k].ok}
Successes(all) == Kept([k \in Candidates |-> k], Won(all))

\* vote: the bucket of an output, the largest buckets, each by its first output.
Bucket(all, k) == {j \in Won(all) : all[j].text = all[k].text}
Leaders(all) ==
    LET won == Won(all)
        size(k) == Cardinality(Bucket(all, k))
    IN  {k \in won : /\ \A j \in won : size(j) <= size(k)
                     /\ \A j \in Bucket(all, k) : k <= j}

Decide(k) == phase' = "returned" /\ winner' = k /\ UNCHANGED scores
Escalate(to) == phase' = to /\ UNCHANGED <<winner, scores>>

Vote(all) ==
    IF Cardinality(Leaders(all)) = 1
      THEN Decide(CHOOSE k \in Leaders(all) : TRUE)
      ELSE Escalate("judging")

\* All candidates are in: nobody succeeded, one did, or one is to be chosen.
Collect ==
    LET all == Collected
        ok == Successes(all)
    IN
    /\ phase = "running" /\ Len(arrived) = N
    /\ results' = all
    /\ strategy' \in Strategies
    /\ IF Len(ok) <= 1 THEN Decide(IF ok = <<>> THEN 0 ELSE ok[1])
         ELSE CASE strategy' = "vote" -> Vote(all)
                [] strategy' = "best-of-n" -> Escalate("grading")
                [] strategy' = "judge" -> Escalate("judging")
    /\ UNCHANGED <<wvars, request, stage, childVars, outcome, arrived, edits>>

Chosen == UNCHANGED <<wvars, request, strategy, stage, childVars, outcome, arrived,
                       results, edits>>

\* judge: the k-th success; a reply that makes no sense picks the first, as does
\* a judge that fails.
Pick(k) ==
    /\ phase = "judging" /\ k \in 1..Len(Successes(results))
    /\ Decide(Successes(results)[k])
    /\ Chosen

\* best_of_n: the highest score wins, the last of equals; a candidate the grader
\* passed over has 0.  A grader that fails leaves it to a vote.
Grade(given) ==
    LET n == Len(Successes(results))
        best == CHOOSE k \in 1..n :
                   \A j \in 1..n : IF j > k THEN given[j] < given[k] ELSE given[j] <= given[k]
    IN
    /\ phase = "grading" /\ DOMAIN given = 1..n
    /\ scores' = given
    /\ phase' = "returned" /\ winner' = Successes(results)[best]
    /\ Chosen

GraderFails ==
    /\ phase = "grading"
    /\ Vote(results)
    /\ Chosen

-----------------------------------------------------------------------------

\* A wrong cancel: the children are not told.
CancelSilently ==
    /\ phase \in {"running", "grading", "judging"}
    /\ phase' = "cancelled"
    /\ stage' = [i \in Candidates |-> IF i \in InFlight THEN "dropped" ELSE stage[i]]
    /\ call' = [i \in Candidates |-> IF stage[i] = "working" THEN "dropped" ELSE call[i]]
    /\ job' = [i \in Candidates |-> IF job[i] = "made" THEN "remove" ELSE job[i]]
    /\ UNCHANGED <<child, dirs, admin, branches, botched, request, outcome, arrived,
                   verdict, edits>>

\* The future is dropped: children are killed, worktrees that stand are torn
\* down on threads nobody waits for, what runs there already runs on.
Cancel ==
    /\ phase \in {"running", "grading", "judging"}
    /\ phase' = "cancelled"
    /\ stage' = [i \in Candidates |-> IF i \in InFlight THEN "dropped" ELSE stage[i]]
    /\ call' = [i \in Candidates |-> IF stage[i] = "working" THEN "dropped" ELSE call[i]]
    /\ child' = [i \in Candidates |->
                    IF stage[i] = "working" /\ child[i] = "alive" THEN "condemned" ELSE child[i]]
    /\ job' = [i \in Candidates |-> IF job[i] = "made" THEN "remove" ELSE job[i]]
    /\ UNCHANGED <<dirs, admin, branches, botched, request, outcome, arrived,
                   verdict, edits>>

Over ==
    /\ phase \in {"returned", "cancelled"}
    /\ \A i \in Candidates : job[i] \in {"none", "made", "gone"}
    /\ UNCHANGED vars

Next ==
    \/ Refuse \/ Run
    \/ \E i \in Candidates :
          \/ Begin(i) \/ Edit(i)
          \/ \E o \in Outcomes : Answer(i, o) \/ WorkReturns(i, o)
          \/ ProvisionFailed(i) \/ Unusable(i) \/ Work(i)
          \/ \E how \in {"exited", "condemned"} : ChildEnds(i, how)
          \/ Cleaned(i)
          \/ Job(i)
    \/ Collect
    \/ \E k \in Candidates : Pick(k)
    \/ \E n \in Candidates : \E given \in [1..n -> 0..MaxScore] : Grade(given)
    \/ GraderFails
    \/ Cancel
    \/ Over

Spec == Init /\ [][Next]_vars

\* The runtime polls each candidate and its blocking thread gets on with its job;
\* a child is waited for no longer than its caps (ProcSubagent).
Progress(i) ==
    \/ Begin(i) \/ ProvisionFailed(i) \/ Unusable(i) \/ Work(i) \/ Cleaned(i)
    \/ ChildEnds(i, "condemned") \/ \E o \in Outcomes : WorkReturns(i, o)
    \/ Job(i)

LiveSpec == Spec /\ WF_vars(Collect) /\ \A i \in Candidates : WF_vars(Progress(i))

-----------------------------------------------------------------------------
\* Properties

\* Whatever order the candidates finish in, and whichever fail, the report has
\* one entry for each model, in the order asked, and it is that model's.
AnswersInOrder ==
    results # <<>> => \A k \in Candidates : results[k] = Entry(k)

\* The winner is one of the successes: the only one there is; the first of the
\* strict plurality in a vote; never outscored in a grading.
WinnerStands ==
    LET won == Won(results)
        outvoted(k) == \E j \in won : Cardinality(Bucket(results, j)) > Cardinality(Bucket(results, k))
        score(k) == scores[Cardinality({j \in won : j <= k})]
    IN
    (phase = "returned" /\ results # <<>>) =>
        IF won = {} THEN winner = 0
        ELSE /\ winner \in won
             /\ (strategy = "vote" /\ Cardinality(Leaders(results)) = 1) =>
                    ~outvoted(winner) /\ \A j \in Bucket(results, winner) : winner <= j
             /\ scores # <<>> => \A k \in won : score(k) <= score(winner)

\* The report is what the candidates said, and the verdict stands on it.
\* (run_consensus.)
VerdictStands == AnswersInOrder /\ WinnerStands

\* Worktrees that are made or being removed.
Standing == {i \in dirs : job[i] # "gone"}

\* Candidates work apart.  In-process ones, which share the tree, never mix their
\* changes; isolated ones have a worktree each, there are never more of these
\* than permits but for what a clean-up that is over has failed to remove, and one
\* stands as long as its child has not been told to end.
WorkApart ==
    /\ \A a, b, c \in 1..Len(edits) : (a < b /\ b < c /\ edits[a] = edits[c]) => edits[b] = edits[a]
    /\ Cardinality(Standing) <= Permits
    /\ \A i \in Candidates : child[i] = "alive" => i \in dirs

\* Nothing is left of a worktree, neither its directory nor its registration nor
\* its branch, unless a step of its clean-up failed.
NothingLeft == (dirs \cup admin \cup branches) \subseteq botched

ReturnsClean == phase = "returned" => NothingLeft

\* A run that returns has left nothing.  An isolated one gets all its answers
\* whatever its children do: no permit is lost, no candidate waits for ever.  And
\* a cancelled run leaves nothing either in the end, though nobody waits for its
\* threads and some were still making their worktree when it was cancelled.
Settles ==
    /\ []ReturnsClean
    /\ (phase = "running" /\ request.mode = "isolated") ~> phase # "running"
    /\ phase = "cancelled" ~> NothingLeft

Succeeded(i) == call[i] = "returned" /\ outcome[i].ok

Child(i) == INSTANCE ChildRun WITH
    call <- call[i], child <- child[i], success <- Succeeded(i)

\* The children are used as the contract of a child run has it.
ChildrenKeepContract ==
    /\ \A i \in Candidates : Child(i)!Init
    /\ [][\A i \in Candidates :
            Child(i)!Next \/ UNCHANGED <<call[i], child[i], Succeeded(i)>>]_vars
=============================================================================
