------------------------------ MODULE Sessions ------------------------------
(***************************************************************************)
(* Saved sessions (src/src/sessions.rs): one checkpoint file per session in*)
(* the bucket of the directory cubi runs in, and one index file over all   *)
(* buckets.  Every process loads the index, changes its copy and replaces  *)
(* the file; nothing locks it.  An index that does not match the number of *)
(* files on disk is built anew from them.                                  *)
(*                                                                         *)
(* A file is replaced in one step (atomic_write), and one look at the      *)
(* directories is one step.  A checkpoint is its cwd and the second of its *)
(* modification.  A process keeps its directory; /fork is Save, NewChat and*)
(* Save.                                                                   *)
(***************************************************************************)
EXTENDS Naturals, FiniteSets

CONSTANTS Procs,    \* running cubis
          Dirs,     \* working directories, and their buckets
          Ids,      \* session ids, which sort by the time they were made
          Bad,      \* a checkpoint that cannot be parsed
          None,
          MaxTime,  \* bound: seconds
          MaxCalls  \* bound: calls begun, and files damaged

Paths == Dirs \X Ids
Checkpoints == [cwd : Dirs, mtime : 1..MaxTime]

ASSUME SessionsAssumption ==
    /\ Procs # {} /\ IsFiniteSet(Paths) /\ Ids \subseteq Nat /\ None \notin Ids
    /\ MaxTime \in Nat \ {0} /\ MaxCalls \in Nat
    /\ Bad \notin Checkpoints /\ Bad # None
    /\ None \notin Checkpoints /\ None \notin [id : Ids, cwd : Dirs]

VARIABLES files,    \* path -> the checkpoint on disk, Bad or None
          index,    \* index.json, or None when it is missing or unreadable
          now,      \* the clock
          dir,      \* process -> its working directory
          current,  \* process -> its current_session, or None
          call,     \* process -> the call it is in
          calls,    \* calls begun, and files damaged
          alone     \* ghost: no call was killed or met one of another process

svars == <<files, index, now, dir, current, call, calls, alone>>

Indexes == [meta : [Paths -> Checkpoints \cup {None}], last : [Dirs -> Ids \cup {None}]]
EmptyIndex == [meta |-> [q \in Paths |-> None], last |-> [d \in Dirs |-> None]]

Ops == {"none", "save", "list", "delete", "unindex", "prune", "last", "dir", "any"}
Places == {"idle", "read", "count", "compare", "scan", "write", "loaded", "unlink", "rescan",
           "rewrite"}
Saved == [path : Paths, meta : Checkpoints]

\* A call: what it is, where it is in it, the index in hand, the checkpoints
\* counted, what it is about, the files left to remove; and, as a ghost,
\* whether no file came or went since it began to load the index.
Calls == [op : Ops, at : Places, copy : Indexes, count : Nat,
          about : Saved \cup [id : Ids] \cup [cutoff : 1..MaxTime] \cup {None},
          todo : SUBSET Paths, quiet : BOOLEAN]

Call(op, about) ==
    [op |-> op, at |-> "read", copy |-> EmptyIndex, count |-> 0, about |-> about,
     todo |-> {}, quiet |-> TRUE]
Idle == [Call("none", None) EXCEPT !.at = "idle"]

\* A call in directory d.
CallOK(c, d) ==
    /\ c \in Calls
    /\ c.op = "none" <=> c.at = "idle"
    /\ c.todo # {} <=> c.at = "unlink"
    /\ c.op = "save" => c.about \in Saved /\ c.about.path[1] = d
    /\ c.op \in {"delete", "unindex"} => c.about \in [id : Ids]
    /\ c.op = "prune" => c.about \in [cutoff : 1..MaxTime]

STypeOK ==
    /\ files \in [Paths -> Checkpoints \cup {Bad, None}]
    /\ index \in Indexes \cup {None}
    /\ now \in 1..MaxTime
    /\ dir \in [Procs -> Dirs]
    /\ current \in [Procs -> [id : Ids, cwd : Dirs] \cup {None}]
    /\ call \in [Procs -> Calls]
    /\ \A p \in Procs : CallOK(call[p], dir[p])
    /\ calls \in 0..MaxCalls /\ alone \in BOOLEAN

Existing == {q \in Paths : files[q] # None}
Readable == {q \in Existing : files[q] # Bad}

\* list_all: the entries whose files exist.
Shown(i) == {q \in Existing : i.meta[q] # None}

Init ==
    /\ files = [q \in Paths |-> None] /\ index = None /\ now = 1
    /\ dir \in [Procs -> Dirs] /\ current = [p \in Procs |-> None]
    /\ call = [p \in Procs |-> Idle] /\ calls = 0 /\ alone = TRUE

-----------------------------------------------------------------------------
\* Calls

\* A call is alone if no other is under way.
Begins(p) ==
    /\ call[p] = Idle /\ calls < MaxCalls
    /\ calls' = calls + 1
    /\ alone' = (alone /\ \A r \in Procs : call[r] = Idle)

\* The call's next place.
Goes(p, place) == call' = [call EXCEPT ![p].at = place]

Returns(p) == call' = [call EXCEPT ![p] = Idle]

\* The calls, when q has come or gone: those that load are not quiet any more.
Stirred(c) == [p \in Procs |-> [c[p] EXCEPT !.quiet = @ /\ c[p].at \in {"idle", "read"}]]

\* The process ends and another begins, or /clear or /model ends the session.
NewChat(p) ==
    /\ call[p] = Idle /\ current[p] # None
    /\ current' = [current EXCEPT ![p] = None]
    /\ UNCHANGED <<files, index, now, dir, call, calls, alone>>

\* The process is killed in the middle of a call.
Kill(p) ==
    /\ call[p] # Idle
    /\ current' = [current EXCEPT ![p] = None]
    /\ Returns(p)
    /\ alone' = FALSE
    /\ UNCHANGED <<files, index, now, dir, calls>>

\* new_session, with an id that no other session has; a session that was
\* resumed keeps its id and its cwd, in whatever bucket it is saved now.
Session(p) ==
    IF current[p] # None THEN {current[p]}
    ELSE [id : {i \in Ids : /\ \A q \in Existing : q[2] # i
                            /\ \A r \in Procs : current[r] # None => current[r].id # i},
          cwd : {dir[p]}]

\* checkpoint_session, save: the file first, then the index.
Save(p) ==
    /\ Begins(p)
    /\ \E s \in Session(p), t \in {now, now + 1} :
          LET q == <<dir[p], s.id>>
              m == [cwd |-> s.cwd, mtime |-> t]
              saving == [call EXCEPT ![p] = Call("save", [path |-> q, meta |-> m])]
          IN /\ t <= MaxTime
             /\ now' = t
             /\ files' = [files EXCEPT ![q] = m]
             /\ current' = [current EXCEPT ![p] = s]
             /\ call' = IF q \in Readable THEN saving ELSE Stirred(saving)
    /\ UNCHANGED <<index, dir>>

\* --list-sessions, --diff-sessions; /sessions delete, which lists first and
\* asks; --prune-sessions, a process of its own; --resume.
Command(p) ==
    /\ Begins(p)
    /\ \E c \in {Call("list", None), Call("last", None)}
                  \cup {Call("delete", [id |-> i]) : i \in Ids}
                  \cup {Call("prune", [cutoff |-> t]) : t \in 1..now} :
          /\ c.op = "prune" => current[p] = None
          /\ call' = [call EXCEPT ![p] = c]
    /\ UNCHANGED <<files, index, now, dir, current>>

\* A checkpoint is read, if it can be.
Opens(p, q) ==
    current' = [current EXCEPT ![p] =
                  IF q \in Readable THEN [id |-> q[2], cwd |-> files[q].cwd] ELSE @]

\* /resume <id> looks into the process's own bucket, and at no index.
ResumeId(p, i) ==
    /\ call[p] = Idle
    /\ Opens(p, <<dir[p], i>>)
    /\ UNCHANGED <<files, index, now, dir, call, calls, alone>>

-----------------------------------------------------------------------------
\* load_or_rebuild_index

Read(p) ==
    /\ call[p].at = "read"
    /\ IF index = None THEN Goes(p, "scan")
       ELSE call' = [call EXCEPT ![p].at = "count", ![p].copy = index]
    /\ UNCHANGED <<files, index, now, dir, current, calls, alone>>

\* count_session_files.
Count(p) ==
    /\ call[p].at = "count"
    /\ call' = [call EXCEPT ![p].at = "compare", ![p].count = Cardinality(Existing)]
    /\ UNCHANGED <<files, index, now, dir, current, calls, alone>>

\* A wrong check: entries whose files are gone are counted.
StaleByEntries(c) == c.count # Cardinality({q \in Paths : c.copy.meta[q] # None})

\* index_is_stale.
Stale(c) == c.count # Cardinality(Shown(c.copy))

Compare(p) ==
    /\ call[p].at = "compare"
    /\ Goes(p, IF Stale(call[p]) THEN "scan" ELSE "loaded")
    /\ UNCHANGED <<files, index, now, dir, current, calls, alone>>

\* scan_all_sessions, rebuild_index: unreadable files are skipped, and which
\* session was used last is forgotten.
Scan(p) ==
    /\ call[p].at \in {"scan", "rescan"}
    /\ call' = [call EXCEPT
                  ![p].at = IF @ = "scan" THEN "write" ELSE "rewrite",
                  ![p].copy = [EmptyIndex EXCEPT !.meta =
                                 [q \in Paths |-> IF q \in Readable THEN files[q] ELSE None]]]
    /\ UNCHANGED <<files, index, now, dir, current, calls, alone>>

\* The rebuild after a prune is the end of it.
WriteRebuilt(p) ==
    /\ \/ call[p].at = "write" /\ Goes(p, "loaded")
       \/ call[p].at = "rewrite" /\ Returns(p)
    /\ index' = call[p].copy
    /\ UNCHANGED <<files, now, dir, current, calls, alone>>

-----------------------------------------------------------------------------
\* What calls do with the index they loaded

Loaded(p, op) == call[p].op = op /\ call[p].at = "loaded"

\* A wrong upsert: an entry that is there is left as it was.
UpsertMissing(i, q, m) ==
    [meta |-> [r \in Paths |-> IF r = q /\ i.meta[q] = None THEN m ELSE i.meta[r]],
     last |-> [i.last EXCEPT ![m.cwd] = q[2]]]

\* upsert_index_entry: every entry with the id goes, whatever its bucket.
Upsert(i, q, m) ==
    [meta |-> [r \in Paths |-> IF r = q THEN m ELSE IF r[2] = q[2] THEN None ELSE i.meta[r]],
     last |-> [i.last EXCEPT ![m.cwd] = q[2]]]

SaveIndexed(p) ==
    /\ Loaded(p, "save")
    /\ index' = Upsert(call[p].copy, call[p].about.path, call[p].about.meta)
    /\ Returns(p)
    /\ UNCHANGED <<files, now, dir, current, calls, alone>>

Listed(p) ==
    /\ Loaded(p, "list")
    /\ Returns(p)
    /\ UNCHANGED <<files, index, now, dir, current, calls, alone>>

OldEnough(c) == {q \in Shown(c.copy) : c.copy.meta[q].mtime < c.about.cutoff}

\* delete_by_prefix wants one session of that id; prune_older_than takes all
\* that are old enough, by the index.
Chosen(c) ==
    IF c.op = "prune" THEN OldEnough(c)
    ELSE LET matches == {q \in Shown(c.copy) : q[2] = c.about.id} IN
         IF Cardinality(matches) = 1 THEN matches ELSE {}

Choose(p) ==
    /\ Loaded(p, "delete") \/ Loaded(p, "prune")
    /\ IF Chosen(call[p]) = {} THEN Returns(p)
       ELSE call' = [call EXCEPT ![p].at = "unlink", ![p].todo = Chosen(call[p])]
    /\ UNCHANGED <<files, index, now, dir, current, calls, alone>>

\* The call once q is removed.
Removed(c, q) ==
    IF c.op = "delete" THEN Call("unindex", c.about)
    ELSE [c EXCEPT !.todo = @ \ {q}, !.at = IF c.todo = {q} THEN "rescan" ELSE @]

\* remove_file.  If the file is gone already the call ends there.
Unlink(p, q) ==
    /\ call[p].at = "unlink" /\ q \in call[p].todo
    /\ IF q \in Existing
         THEN /\ files' = [files EXCEPT ![q] = None]
              /\ call' = Stirred([call EXCEPT ![p] = Removed(@, q)])
         ELSE Returns(p) /\ UNCHANGED files
    /\ UNCHANGED <<index, now, dir, current, calls, alone>>

\* remove_index_entry; a chat that deletes its own session has none any more.
Unindexed(p) ==
    /\ Loaded(p, "unindex")
    /\ LET c == call[p].copy
           id == call[p].about.id
       IN /\ index' = [meta |-> [q \in Paths |-> IF q[2] = id THEN None ELSE c.meta[q]],
                       last |-> [d \in Dirs |-> IF c.last[d] = id THEN None ELSE c.last[d]]]
          /\ current' = [current EXCEPT ![p] = IF @ # None /\ @.id = id THEN None ELSE @]
    /\ Returns(p)
    /\ UNCHANGED <<files, now, dir, calls, alone>>

\* A wrong sort: by id alone.
NewestById(i, among) == CHOOSE q \in among : \A r \in among : q[2] >= r[2]

\* sort_metas: the newest, and of those the greatest id, first.
Newest(i, among) ==
    CHOOSE q \in among : \A r \in among :
        \/ i.meta[q].mtime > i.meta[r].mtime
        \/ i.meta[q].mtime = i.meta[r].mtime /\ q[2] >= r[2]

\* latest_for_current_dir_preferred, one load after the other: the session last
\* used in the directory, those of its bucket, and all.
Eligible(p) ==
    LET c == call[p].copy IN
    CASE call[p].op = "last" -> {q \in Shown(c) : q[2] = c.last[dir[p]]}
      [] call[p].op = "dir" -> {q \in Shown(c) : q[1] = dir[p]}
      [] call[p].op = "any" -> Shown(c)

Resumed(p) ==
    /\ Loaded(p, "last") \/ Loaded(p, "dir") \/ Loaded(p, "any")
    /\ IF Eligible(p) # {}
         THEN Opens(p, Newest(call[p].copy, Eligible(p))) /\ Returns(p)
         ELSE /\ UNCHANGED current
              /\ CASE call[p].op = "last" -> call' = [call EXCEPT ![p] = Call("dir", None)]
                   [] call[p].op = "dir" -> call' = [call EXCEPT ![p] = Call("any", None)]
                   [] call[p].op = "any" -> Returns(p)
    /\ UNCHANGED <<files, index, now, dir, calls, alone>>

\* An editor or a full disk leaves a checkpoint that does not parse.
Damage(q) ==
    /\ q \in Readable /\ calls < MaxCalls
    /\ calls' = calls + 1
    /\ files' = [files EXCEPT ![q] = Bad]
    /\ call' = Stirred(call)
    /\ UNCHANGED <<index, now, dir, current, alone>>

Next ==
    \/ \E p \in Procs :
          \/ NewChat(p) \/ Kill(p) \/ Save(p) \/ Command(p)
          \/ Read(p) \/ Count(p) \/ Compare(p) \/ Scan(p) \/ WriteRebuilt(p)
          \/ SaveIndexed(p) \/ Listed(p) \/ Choose(p) \/ Unindexed(p) \/ Resumed(p)
          \/ \E i \in Ids : ResumeId(p, i)
          \/ \E q \in Paths : Unlink(p, q)
    \/ \E q \in Paths : Damage(q)

Spec == Init /\ [][Next]_svars

-----------------------------------------------------------------------------

\* However wrong the index was, a load during which no file came or went has an
\* entry for every readable checkpoint.  (index_is_stale compares two numbers.)
LoadedExact ==
    \A p \in Procs :
        call[p].at = "loaded" /\ call[p].quiet => Readable \subseteq Shown(call[p].copy)

\* As long as calls were alone and none was killed, the index tells the truth
\* of the files between calls.  (upsert_index_entry.)
IndexTrue ==
    alone /\ index # None /\ (\A p \in Procs : call[p] = Idle)
        => \A q \in Readable : index.meta[q] # None => index.meta[q] = files[q]

\* ... so pruning, which goes by the index, removes nothing as new as its cutoff.  (docs/sessions.md.)
PruneOnlyOld ==
    \A p \in Procs, q \in Readable :
          call[p].op = "prune" /\ call[p].at = "unlink" /\ files'[q] = None /\ alone'
              => files[q].mtime < call[p].about.cutoff

\* ... and while sessions are saved where they began, a resume without an id
\* opens the newest one of the directory, or of all if it has none, though
\* rebuilds forget which was used last.  (latest_for_current_dir_preferred.)
ResumesLatest ==
    \A p \in Procs :
          /\ call[p].op \in {"last", "dir", "any"} /\ call'[p] = Idle /\ alone'
          /\ \A q \in Existing : q \in Readable /\ files[q].cwd = q[1]
          /\ Existing # {}
          => LET here == {q \in Existing : q[1] = dir[p]}
                 among == IF here = {} THEN Existing ELSE here
             IN \E q \in among :
                  /\ current'[p] = [id |-> q[2], cwd |-> files[q].cwd]
                  /\ \A r \in among : files[r].mtime <= files[q].mtime

\* What a call decides by the index it decides as the files would have it.
\* (prune_older_than and latest_for_current_dir_preferred.)
IndexTrusted == [][PruneOnlyOld /\ ResumesLatest]_svars
=============================================================================
