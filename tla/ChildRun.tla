------------------------------ MODULE ChildRun ------------------------------
(***************************************************************************)
(* What the caller of an isolated subagent may rely on (the contract of    *)
(* src/src/proc_subagent.rs, run_isolated_subagent...): it answers once,   *)
(* never while a child it has not told to die is still running, and it     *)
(* reports a success only of a child that ended by itself.  Dropping the   *)
(* call ends it and the child as well.                                     *)
(***************************************************************************)

VARIABLES call,     \* "idle", "running", "returned" or "dropped"
          child,    \* "none", "alive", "exited" by itself or "condemned"
          success   \* the answer returned is a success

Init == call = "idle" /\ child = "none" /\ success = FALSE

\* Nothing could be seeded or spawned: an error is returned.
Refuse ==
    /\ call = "idle"
    /\ call' = "returned"
    /\ UNCHANGED <<child, success>>

Start ==
    /\ call = "idle"
    /\ call' = "running" /\ child' = "alive"
    /\ UNCHANGED success

Exit ==
    /\ child = "alive"
    /\ child' = "exited"
    /\ UNCHANGED <<call, success>>

Condemn ==
    /\ call = "running" /\ child = "alive"
    /\ child' = "condemned"
    /\ UNCHANGED <<call, success>>

Return ==
    /\ call = "running" /\ child # "alive"
    /\ call' = "returned"
    /\ success' \in (IF child = "exited" THEN BOOLEAN ELSE {FALSE})
    /\ UNCHANGED child

Drop ==
    /\ call = "running"
    /\ call' = "dropped"
    /\ child' = IF child = "alive" THEN "condemned" ELSE child
    /\ UNCHANGED success

Next == Refuse \/ Start \/ Exit \/ Condemn \/ Return \/ Drop

Spec == Init /\ [][Next]_<<call, child, success>>
=============================================================================
