------------------------------- MODULE Stores -------------------------------
(***************************************************************************)
(* The small JSON files under ~/.cubi that every cubi process shares: trust*)
(* and tool permissions, todos, memories, disabled skills and agents, the  *)
(* user's config, logins, MCP servers, hooks and the schedule.  Each is a  *)
(* set of entries that a process reads whole and writes whole.             *)
(*                                                                         *)
(* They differ in when they are read, in what comes of a file that is not  *)
(* JSON, and in how they are written; nothing locks them between           *)
(* processes.  The permissions are behind a mutex of their own process,    *)
(* which the commands and the worktree tool share.  One store at a time is *)
(* followed.                                                               *)
(***************************************************************************)
EXTENDS Naturals, FiniteSets

CONSTANTS StoreKinds,  \* the stores looked at
          Users,       \* processes
          Entries,
          Stamp,       \* of these, in the config: config_version is the current one
          MaxRuns,     \* bound: processes started
          MaxChanges   \* bound: changes begun

\* Read once, when the process starts: the snapshot is what is shown, changed
\* and written from then on.  The others are read anew for each change.
Held == {"permissions", "todos", "memdir"}
\* Not JSON: refused.  By the others it is taken for an empty store.
Strict == {"mcp", "schedule"}
\* Read leniently by the command, and once more by save_global(), strictly.
Rechecked == {"hooks"}
\* Written aside and renamed; the others are cut to nothing and written again.
Renamed == {"schedule"}
\* Not stamped with a current config_version, be it for want of a file: migrated
\* and saved at the start.
Migrated == {"config"}
\* Written, with nothing in it, by whoever finds no file.  The other stores take
\* no file for one with nothing in it.
Created == {"mcp"}
\* Behind a mutex.
Locked == {"permissions"}
AllKinds == Held \cup Strict \cup Rechecked \cup Migrated \cup {"disabled", "oauth"}

ASSUME StoresAssumption ==
    /\ StoreKinds \subseteq AllKinds
    /\ Entries \cap {"cut", "garbled", "missing"} = {} /\ Stamp \in Entries
    /\ {MaxRuns, MaxChanges} \subseteq Nat

VARIABLES store,    \* the one followed
          content,  \* of its file: a set of entries, Cut, Garbled or Missing
          at,       \* where each process is
          asker,    \* what it is changing the store for: a command or the tool
          copy,     \* the entries it has in memory
          mutex,    \* whether its mutex is locked
          good,     \* ghost: the entries last written in full
          touched,  \* ghost: what it has changed and not yet written
          seen,     \* ghost: entries of which it has read the latest
          committed, \* what the settings repository last took of it
          runs, changes

perProcess == <<at, asker, copy, mutex, touched, seen>>
limits == <<committed, runs, changes>>
stvars == <<store, content, good, perProcess, limits>>

Cut == {"cut"}          \* nothing: the file has been truncated
Garbled == {"garbled"}  \* the end of one text behind another
Missing == {"missing"}  \* no file
Whole == content \subseteq Entries
Found == IF Whole THEN content ELSE {}
Loaded == IF store \in Migrated THEN Found \cup {Stamp} ELSE Found

STInit ==
    /\ store \in StoreKinds /\ good = {}
    /\ content = IF store \in Created THEN Missing ELSE {}
    /\ at = [p \in Users |-> "off"] /\ asker = [p \in Users |-> "command"]
    /\ copy = [p \in Users |-> {}] /\ mutex = [p \in Users |-> FALSE]
    /\ touched = [p \in Users |-> {}] /\ seen = [p \in Users |-> {}]
    /\ committed = content /\ runs = 0 /\ changes = 0

Moves(p, place) == at' = [at EXCEPT ![p] = place]
Lets(p) == mutex' = [mutex EXCEPT ![p] = FALSE]

\* A wrong load: the file is never found.
ReadsEmpty(p) ==
    /\ copy' = [copy EXCEPT ![p] = {}]
    /\ touched' = [touched EXCEPT ![p] = {}]
    /\ seen' = [seen EXCEPT ![p] = IF Whole THEN Entries ELSE {}]

\* What a process has in memory once it has read the file, and migrated it.
Reads(p) ==
    /\ copy' = [copy EXCEPT ![p] = Loaded]
    /\ touched' = [touched EXCEPT ![p] = Loaded \ Found]
    /\ seen' = [seen EXCEPT ![p] = IF Whole THEN Entries ELSE {}]

-----------------------------------------------------------------------------

\* A process starts, reads the stores it holds, saves a config that it had to
\* migrate and makes the file of servers if there is none.
Begin(p) ==
    /\ at[p] = "off" /\ runs < MaxRuns /\ runs' = runs + 1
    /\ Moves(p, IF Loaded # Found \/ content = Missing THEN "ready" ELSE "idle")
    /\ IF store \in Held \cup Migrated \cup Created THEN Reads(p)
       ELSE UNCHANGED <<copy, touched, seen>>
    /\ Lets(p)
    /\ UNCHANGED <<store, content, good, asker, changes, committed>>

\* A command, or the worktree tool, which trusts the directory that it makes.
Asks(p, by) ==
    /\ at[p] = "idle" /\ changes < MaxChanges /\ changes' = changes + 1
    /\ by = "tool" => store = "permissions"
    /\ asker' = [asker EXCEPT ![p] = by]
    /\ Moves(p, IF store \in Locked THEN "locking" ELSE "changing")
    /\ UNCHANGED <<store, content, good, copy, mutex, touched, seen, runs, committed>>

\* lock(): waits for ever for a mutex that its own thread holds.
Locks(p) ==
    /\ at[p] \in {"locking", "relocking"} /\ ~mutex[p]
    /\ mutex' = [mutex EXCEPT ![p] = TRUE]
    /\ Moves(p, IF at[p] = "locking" THEN "changing" ELSE "ready")
    /\ UNCHANGED <<store, content, good, asker, copy, touched, seen, limits>>

\* A command that finds no file makes one, and goes on with what it made.
Creates(p) ==
    /\ at[p] = "changing" /\ content = Missing
    /\ Reads(p)
    /\ Moves(p, "creating")
    /\ UNCHANGED <<store, content, good, asker, mutex, limits>>

\* An entry put in or taken out, or all of them taken out.
Changed(s, new) == {e \in Entries : (e \in s) # (e \in new)}

\* Changed is what is in memory, or what the file has by now.
FromCopy(p) == store \in Held \/ at[p] = "created"

Change(p, new) ==
    LET s == IF FromCopy(p) THEN copy[p] ELSE Found IN
    /\ at[p] \in {"changing", "created"}
    /\ store \in Strict /\ at[p] = "changing" => Whole
    /\ Cardinality(Changed(s, new)) <= 1 \/ new = {}
    /\ store \in Migrated => Stamp \notin Changed(s, new)
    /\ copy' = [copy EXCEPT ![p] = new]
    /\ touched' = [touched EXCEPT ![p] =
                      Changed(s, new) \cup IF FromCopy(p) THEN @ ELSE {}]
    /\ seen' = [seen EXCEPT ![p] = IF FromCopy(p) THEN @
                                   ELSE IF Whole THEN Entries ELSE {}]

\* A command saves whatever comes of it, except /skills and /agents if that is
\* nothing new and /mcp if there is no server of that name.  It keeps its lock until
\* it has saved.  So does the tool, in whose `match` the guard lives on, and it asks
\* for the lock again to save.
Changes(p, new) ==
    /\ Change(p, new)
    /\ LET same == new = IF FromCopy(p) THEN copy[p] ELSE Found
           done == Moves(p, "idle") /\ Lets(p)
           save == Moves(p, "ready") /\ UNCHANGED mutex
       IN
       IF asker[p] = "tool"
         THEN /\ new = copy[p] \/ \E e \in Entries : new = copy[p] \cup {e}
              /\ IF same THEN done ELSE Moves(p, "relocking") /\ UNCHANGED mutex
         ELSE \/ same /\ store \in {"disabled", "mcp"} /\ done
              \/ ~(same /\ store = "disabled") /\ save
    /\ UNCHANGED <<store, content, good, asker, limits>>

\* A file that is not JSON is left alone, and the command reports it.
Refuses(p) ==
    /\ ~Whole /\ content # Missing
    /\ \/ at[p] = "changing" /\ store \in Strict
       \/ at[p] = "ready" /\ store \in Rechecked
    /\ Moves(p, "idle")
    /\ UNCHANGED <<store, content, good, asker, copy, mutex, touched, seen, limits>>

-----------------------------------------------------------------------------
\* Saving

\* p's entries are in the file: the others have not seen what is new in them.
Saved(p) ==
    /\ good' = copy[p]
    /\ touched' = [touched EXCEPT ![p] = {}]
    /\ seen' = [q \in Users |-> IF q = p THEN Entries
                                ELSE seen[q] \ Changed(good, copy[p])]
    /\ Moves(p, IF at[p] = "filling" THEN "created" ELSE "idle") /\ Lets(p)

Replace(p) ==
    /\ at[p] = "ready" /\ store \in Renamed
    /\ content' = copy[p]
    /\ Saved(p)
    /\ UNCHANGED <<store, asker, copy, limits>>

Truncate(p) ==
    /\ at[p] \in {"ready", "creating"} /\ store \notin Renamed
    /\ store \in Rechecked => Whole
    /\ content' = Cut
    /\ Moves(p, IF at[p] = "ready" THEN "writing" ELSE "filling")
    /\ UNCHANGED <<store, good, asker, copy, mutex, touched, seen, limits>>

\* Over what another process has written since, the end of which may be left.
Fills(p) ==
    /\ at[p] \in {"writing", "filling"}
    /\ content' = copy[p] \/ (content # Cut /\ content # copy[p] /\ content' = Garbled)
    /\ Saved(p)
    /\ UNCHANGED <<store, asker, copy, limits>>

\* The file cannot be opened, or not be filled: the change stays in memory.
SaveFails(p) ==
    /\ at[p] \in {"ready", "writing", "creating", "filling"}
    /\ Moves(p, "idle") /\ Lets(p)
    /\ UNCHANGED <<store, content, good, asker, copy, touched, seen, limits>>

Killed(p) ==
    /\ at[p] # "off"
    /\ Moves(p, "off") /\ Lets(p)
    /\ copy' = [copy EXCEPT ![p] = {}]
    /\ touched' = [touched EXCEPT ![p] = {}]
    /\ seen' = [seen EXCEPT ![p] = {}]
    /\ UNCHANGED <<store, content, good, asker, limits>>

\* /settings-sync push and pull.  git does not pull over a file that was changed
\* since; what it pulls, no process has seen, the one that pulls included.
Pushes(p) ==
    /\ at[p] = "idle" /\ committed' = content
    /\ UNCHANGED <<store, content, good, perProcess, runs, changes>>

Pulls(p, new) ==
    /\ at[p] = "idle" /\ changes < MaxChanges /\ changes' = changes + 1
    /\ (Whole \/ content = Missing) /\ content = committed
    /\ content' = new /\ committed' = new /\ good' = new
    /\ seen' = [q \in Users |-> seen[q] \ Changed(good, new)]
    /\ UNCHANGED <<store, at, asker, copy, mutex, touched, runs>>

Step(p) ==
    \/ Locks(p) \/ Creates(p) \/ (\E new \in SUBSET Entries : Changes(p, new)) \/ Refuses(p)
    \/ Replace(p) \/ Truncate(p) \/ Fills(p)

AllEnded == (\A p \in Users : at[p] = "off") /\ runs = MaxRuns /\ UNCHANGED stvars

STNext ==
    \/ \E p \in Users :
         \/ Begin(p) \/ Asks(p, "command") \/ Asks(p, "tool") \/ Step(p)
         \/ SaveFails(p) \/ Killed(p)
         \/ Pushes(p) \/ \E new \in SUBSET Entries : Pulls(p, new)
    \/ AllEnded

STSpec == STInit /\ [][STNext]_stvars

\* A process gets on with what it does, unless it is killed.
STLiveSpec == STSpec /\ \A p \in Users : WF_stvars(Step(p))

-----------------------------------------------------------------------------
\* Properties

\* A save takes back nothing that its process has seen and not changed itself:
\* only a process that read the store before a change was written, or found the
\* file cut or garbled, can undo it.  (The load and save of each store.)
TakesBackUnseen ==
    [][\A p \in Users : Saved(p) =>
         \A e \in Changed(good, good') : e \in touched[p] \/ e \notin seen[p]]_stvars

\* Trust given to a worktree is saved, or its process is killed.
\* (builtin_tools.rs, "Persist the new trust entry so the approval survives a
\* CLI restart".)
WorktreeTrustSaved ==
    \A p \in Users : at[p] = "relocking" ~> at[p] # "relocking"
=============================================================================
