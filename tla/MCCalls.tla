------------------------------- MODULE MCCalls -------------------------------
(***************************************************************************)
(* Whatever is waited for that may not answer: a model, an isolated        *)
(* subagent, a benchmark's child, and a program that a tool runs.  They    *)
(* share no state: a behaviour is of one of them.                          *)
(***************************************************************************)
EXTENDS Stream, Children, Programs

CONSTANT Callers \* of the four below

VARIABLE caller

\* An easy task with tests, and a hard one that nothing can resolve.
CatalogDef ==
    <<[easy |-> TRUE, fixes |-> TRUE, tests |-> TRUE],
      [easy |-> FALSE, fixes |-> FALSE, tests |-> FALSE]>>

\* The parts a behaviour is not of begin, and stay, in one state.
MCInit ==
    /\ RInit /\ PSInit /\ BInit /\ LInit
    /\ caller \in Callers
    /\ caller # "request" => provider = "openai" /\ streamed
    /\ caller # "harness" =>
         setup = (CHOOSE s \in Setups : s.harness = "bench") /\ old[1] = NoLog
    /\ caller # "tool" => tool = "shell"

ModelRequest == caller = "request" /\ RNext /\ UNCHANGED <<psvars, bvars, lvars, caller>>
Subagent == caller = "subagent" /\ PSNext /\ UNCHANGED <<rvars, bvars, lvars, caller>>
HarnessRun == caller = "harness" /\ BNext /\ UNCHANGED <<rvars, psvars, lvars, caller>>
ToolCall == caller = "tool" /\ LNext /\ UNCHANGED <<rvars, psvars, bvars, caller>>
MCNext == ModelRequest \/ Subagent \/ HarnessRun \/ ToolCall

mcvars == <<rvars, psvars, bvars, lvars, caller>>

\* The fairness of each specification, for the one that runs.  A request has none.
MCSpec ==
    /\ MCInit /\ [][MCNext]_mcvars
    /\ WF_psvars(Caller) /\ WF_psvars(ReadEnds) /\ WF_psvars(Tick)
    /\ WF_bvars(caller = "harness" /\ Harness) /\ WF_bvars(AgentDies)
    /\ WF_lvars(LTimeout)

-----------------------------------------------------------------------------
\* Properties of more than one part

\* Whoever waits for an answer gets one or gives up: a subagent's call is over
\* within its cap and the two graces, a benchmark runs through its tasks, and a
\* tool's program has its timeout.  A request has none: its tries end if the server
\* answers each of them, and it never asks again for what it has shown.
CallsReturn ==
    /\ caller = "request" => RequestEnds
    /\ []<>(~Pending /\ ~BenchPending /\ ~ToolPending)
    /\ InTime /\ NeverShownTwice
=============================================================================
