---------------------------- MODULE MCBuiltinTools ----------------------------
(***************************************************************************)
(* What the built-in tools and the commands like them leave behind: REPLs  *)
(* and mailboxes (one process with a REPL and mail, one with mail alone),  *)
(* the journal of file writes (two files, two contents, two open turns),   *)
(* and the JSON stores.  The three share no state: a behaviour is of one.  *)
(***************************************************************************)
EXTENDS BuiltinTools, FileJournal, Stores

CONSTANT Parts

VARIABLE part

\* The parts a behaviour is not of begin, and stay, in one state.
MCInit ==
    /\ Init /\ JInit /\ STInit /\ part \in Parts
    /\ part # "tools" => limited
    /\ part # "journal" => files = [p \in Paths |-> Absent]
    /\ part # "stores" => store = CHOOSE s \in StoreKinds : TRUE

Tools == part = "tools" /\ Next /\ UNCHANGED <<jvars, stvars, part>>
Journal == part = "journal" /\ JNext /\ UNCHANGED <<vars, stvars, part>>
StoreFiles == part = "stores" /\ STNext /\ UNCHANGED <<vars, jvars, part>>
MCNext == Tools \/ Journal \/ StoreFiles

mcvars == <<vars, jvars, stvars, part>>

MCSpec ==
    /\ MCInit /\ [][MCNext]_mcvars
    /\ WF_vars(Read) /\ WF_vars(Write) /\ \A p \in Procs : WF_vars(Mail(p))

\* The stores alone, by processes that get on with what they do.
StoresSpec == MCSpec /\ \A p \in Users : WF_stvars(Step(p))
=============================================================================
