------------------------------ MODULE Worktrees ------------------------------
(***************************************************************************)
(* Ephemeral worktrees of one git repository (src/src/worktree_session.rs),*)
(* each made and torn down by a job of git commands on a blocking thread.  *)
(* What the rest of the program sees of a worktree is its directory, its   *)
(* registration under .git/worktrees and its branch.                       *)
(***************************************************************************)
EXTENDS Naturals, FiniteSets

CONSTANTS Sessions,   \* the worktree sessions there may be
          MaxFaults   \* bound: sessions whose clean-up goes wrong

ASSUME WorktreesAssumption == MaxFaults \in Nat

VARIABLES dirs, admin, branches,  \* what of each session is in the repository
          job,                    \* where its blocking job stands
          botched                 \* ghost: a step of its clean-up failed

wvars == <<dirs, admin, branches, job, botched>>

Jobs == {"none", "adding", "made", "remove", "prune", "branch", "parent", "gone"}

WInit ==
    /\ dirs = {} /\ admin = {} /\ branches = {}
    /\ job = [s \in Sessions |-> "none"] /\ botched = {}

Goes(s, to) == job' = [job EXCEPT ![s] = to]

\* create_in, on a blocking thread.
Provision(s) ==
    /\ job[s] = "none"
    /\ Goes(s, "adding")
    /\ UNCHANGED <<dirs, admin, branches, botched>>

\* The repository cannot be resolved, or the parent directory not be made.
ResolveFails(s) ==
    /\ job[s] = "adding"
    /\ Goes(s, "gone")
    /\ UNCHANGED <<dirs, admin, branches, botched>>

\* A wrong hand-over: a session nobody waits for is left standing.
AddedUnclaimed(s, claimed) ==
    /\ job[s] = "adding"
    /\ dirs' = dirs \cup {s} /\ admin' = admin \cup {s}
    /\ branches' = branches \cup {s}
    /\ Goes(s, "made")
    /\ UNCHANGED botched

\* `git worktree add` made all three.  A session that nobody waits for any more
\* is dropped by the thread that made it.
Added(s, claimed) ==
    /\ job[s] = "adding"
    /\ dirs' = dirs \cup {s} /\ admin' = admin \cup {s}
    /\ branches' = branches \cup {s}
    /\ Goes(s, IF claimed THEN "made" ELSE "remove")
    /\ UNCHANGED botched

\* It failed, before or after the branch, or in the checkout: clean up.
AddFails(s) ==
    /\ job[s] = "adding"
    /\ \/ UNCHANGED <<dirs, admin, branches>>
       \/ branches' = branches \cup {s} /\ UNCHANGED <<dirs, admin>>
       \/ /\ branches' = branches \cup {s}
          /\ dirs' = dirs \cup {s} /\ admin' = admin \cup {s}
    /\ Goes(s, "remove")
    /\ UNCHANGED botched

\* What follows a command of cleanup_worktree, and the removal of the session's
\* parent directory at the end; one that fails is passed over.
After == [remove |-> "prune", prune |-> "branch", branch |-> "parent", parent |-> "gone"]

RemoveTree(s) ==
    /\ job[s] = "remove"
    /\ dirs' = dirs \ (admin \cap {s}) /\ admin' = admin \ {s}
    /\ Goes(s, After.remove)
    /\ UNCHANGED <<branches, botched>>

\* `git worktree prune` is about the whole repository.
Prune(s) ==
    /\ job[s] = "prune"
    /\ admin' = admin \cap dirs
    /\ Goes(s, After.prune)
    /\ UNCHANGED <<dirs, branches, botched>>

\* git deletes no branch that a registered worktree has checked out.
DeleteBranch(s) ==
    /\ job[s] = "branch"
    /\ branches' = IF s \in admin THEN branches ELSE branches \ {s}
    /\ Goes(s, After.branch)
    /\ UNCHANGED <<dirs, admin, botched>>

\* Any step of the clean-up of a session may fail, and several of them.  Nothing
\* is told: the commands' results and the error of TempDir's drop are thrown away,
\* and what was left of the worktree's directory stays.
CommandFails(s) ==
    /\ job[s] \in DOMAIN After
    /\ s \in botched \/ Cardinality(botched) < MaxFaults
    /\ Goes(s, After[job[s]])
    /\ botched' = botched \cup {s}
    /\ UNCHANGED <<dirs, admin, branches>>

\* The session's temporary parent directory goes with all that is left in it.  (One
\* that is empty and stays is not followed: dirs has the worktree's own directory.)
DropParent(s) ==
    /\ job[s] = "parent"
    /\ dirs' = dirs \ {s}
    /\ Goes(s, After.parent)
    /\ UNCHANGED <<admin, branches, botched>>

CleanUp(s) == RemoveTree(s) \/ Prune(s) \/ DeleteBranch(s) \/ DropParent(s)
=============================================================================
