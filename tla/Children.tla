------------------------------ MODULE Children ------------------------------
(***************************************************************************)
(* The two callers that wait for a headless cubi they started: consensus,  *)
(* for an isolated subagent (proc_subagent.rs), and a benchmark, for the   *)
(* child of each task (bench.rs, swebench.rs).                             *)
(***************************************************************************)
EXTENDS ProcSubagent, Bench

\* A child is waited for as the contract ChildRun has it, whether a subagent's
\* caller does so or a benchmark, task by task.  (run_binary_isolated,
\* run_one_task, run_one_instance.)
KeepsContract == SubagentKeepsContract /\ TasksKeepContract
=============================================================================
