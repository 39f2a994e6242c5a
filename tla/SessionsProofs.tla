--------------------------- MODULE SessionsProofs ---------------------------
(***************************************************************************)
(* Proofs about saved sessions, for any processes, directories and ids: the*)
(* types; that a quiet load has an entry for every readable checkpoint     *)
(* though staleness is judged by two numbers; and, while calls are alone,  *)
(* that the index tells the truth and what is decided by it is right.      *)
(***************************************************************************)
EXTENDS Sessions, FiniteSetTheorems, WellFoundedInduction, TLAPS

-----------------------------------------------------------------------------
\* Calls

LEMMA EmptyIndexType == EmptyIndex \in Indexes
  BY DEF EmptyIndex, Indexes

LEMMA CallType ==
    ASSUME NEW d \in Dirs, NEW op \in Ops \ {"none"},
           NEW about \in Saved \cup [id : Ids] \cup [cutoff : 1..MaxTime] \cup {None},
           op = "save" => about \in Saved /\ about.path[1] = d,
           op \in {"delete", "unindex"} => about \in [id : Ids],
           op = "prune" => about \in [cutoff : 1..MaxTime]
    PROVE  CallOK(Call(op, about), d)
  BY EmptyIndexType DEF CallOK, Call, Calls, Places

LEMMA IdleType ==
    ASSUME NEW d \in Dirs
    PROVE  CallOK(Idle, d)
  BY EmptyIndexType DEF CallOK, Call, Calls, Places, Ops, Idle

LEMMA GoesType ==
    ASSUME NEW d, NEW c, CallOK(c, d), c.at \notin {"idle", "unlink"},
           NEW place \in Places \ {"idle", "unlink"}
    PROVE  CallOK([c EXCEPT !.at = place], d)
  BY DEF CallOK, Calls

LEMMA StirredType ==
    ASSUME NEW c \in [Procs -> Calls], NEW d, \A p \in Procs : CallOK(c[p], d[p])
    PROVE  /\ Stirred(c) \in [Procs -> Calls]
           /\ \A p \in Procs : CallOK(Stirred(c)[p], d[p])
  <1> SUFFICES ASSUME NEW p \in Procs
               PROVE  CallOK([c[p] EXCEPT !.quiet = @ /\ c[p].at \in {"idle", "read"}], d[p])
    BY DEF Stirred, CallOK
  <1>1. c[p].quiet \in BOOLEAN
    BY DEF Calls
  <1> DEFINE b == c[p].quiet /\ c[p].at \in {"idle", "read"}
  <1>2. b \in BOOLEAN
    OBVIOUS
  <1>3. CallOK(c[p], d[p])
    OBVIOUS
  <1> HIDE DEF b
  <1>4. CallOK([c[p] EXCEPT !.quiet = b], d[p])
    BY <1>2, <1>3 DEF CallOK, Calls
  <1> QED BY <1>4 DEF b

\* The calls are as they should be if one of them has changed into such a call.
LEMMA OneCall ==
    ASSUME STypeOK, NEW p \in Procs, NEW c, CallOK(c, dir[p]),
           call' = [call EXCEPT ![p] = c], UNCHANGED dir
    PROVE  call' \in [Procs -> Calls] /\ \A r \in Procs : CallOK(call'[r], dir'[r])
  BY DEF STypeOK, CallOK

-----------------------------------------------------------------------------
\* Checkpoints and indexes

LEMMA ExistingFinite == IsFiniteSet(Existing) /\ Cardinality(Existing) \in Nat
  <1>1. IsFiniteSet(Existing)
    BY SessionsAssumption, FS_Subset DEF Existing
  <1> QED BY <1>1, FS_CardinalityType

LEMMA ReadableType ==
    ASSUME STypeOK, NEW q \in Readable
    PROVE  q \in Paths /\ files[q] \in Checkpoints
  BY DEF STypeOK, Readable, Existing

LEMMA RebuiltType ==
    ASSUME STypeOK
    PROVE  [EmptyIndex EXCEPT !.meta =
              [q \in Paths |-> IF q \in Readable THEN files[q] ELSE None]] \in Indexes
  <1>1. [q \in Paths |-> IF q \in Readable THEN files[q] ELSE None]
          \in [Paths -> Checkpoints \cup {None}]
    BY ReadableType
  <1> QED BY <1>1 DEF EmptyIndex, Indexes

LEMMA UpsertType ==
    ASSUME NEW i \in Indexes, NEW q \in Paths, NEW m \in Checkpoints
    PROVE  Upsert(i, q, m) \in Indexes
  <1>1. /\ i.meta \in [Paths -> Checkpoints \cup {None}] /\ i.last \in [Dirs -> Ids \cup {None}]
        /\ m.cwd \in Dirs /\ q[2] \in Ids
    BY DEF Indexes, Checkpoints, Paths
  <1>2. [r \in Paths |-> IF r = q THEN m ELSE IF r[2] = q[2] THEN None ELSE i.meta[r]]
          \in [Paths -> Checkpoints \cup {None}]
    BY <1>1
  <1>3. [i.last EXCEPT ![m.cwd] = q[2]] \in [Dirs -> Ids \cup {None}]
    BY <1>1
  <1> QED BY <1>2, <1>3 DEF Upsert, Indexes

\* A file that can be read is about a directory.
LEMMA OpensType ==
    ASSUME STypeOK, NEW p \in Procs, NEW q, Opens(p, q)
    PROVE  current' \in [Procs -> [id : Ids, cwd : Dirs] \cup {None}]
  <1>1. CASE q \in Readable
    <2>1. q[2] \in Ids /\ files[q].cwd \in Dirs
      BY <1>1, ReadableType DEF Paths, Checkpoints
    <2> QED BY <1>1, <2>1 DEF Opens, STypeOK
  <1>2. CASE q \notin Readable
    BY <1>2 DEF Opens, STypeOK
  <1> QED BY <1>1, <1>2

-----------------------------------------------------------------------------
\* Types

LEMMA TypesInit == Init => STypeOK
  BY SessionsAssumption, IdleType DEF Init, STypeOK, CallOK

\* A call that only changes itself.
LEMMA QuietTypes ==
    ASSUME STypeOK, NEW p \in Procs, NEW c, CallOK(c, dir[p]),
           call' = [call EXCEPT ![p] = c],
           UNCHANGED <<files, index, now, dir, current, calls, alone>>
    PROVE  STypeOK'
  BY OneCall DEF STypeOK

LEMMA BeginsTypes ==
    ASSUME STypeOK, NEW p \in Procs, Begins(p)
    PROVE  calls' \in 0..MaxCalls /\ alone' \in BOOLEAN
  BY SessionsAssumption DEF STypeOK, Begins

LEMMA SessionType ==
    ASSUME STypeOK, NEW p \in Procs, NEW s \in Session(p)
    PROVE  s \in [id : Ids, cwd : Dirs]
  BY DEF STypeOK, Session

LEMMA SaveTypes ==
    ASSUME STypeOK, NEW p \in Procs, Save(p)
    PROVE  STypeOK'
  <1>1. PICK s \in Session(p), t \in {now, now + 1} :
          LET q == <<dir[p], s.id>>
              m == [cwd |-> s.cwd, mtime |-> t]
              saving == [call EXCEPT ![p] = Call("save", [path |-> q, meta |-> m])]
          IN /\ t <= MaxTime
             /\ now' = t
             /\ files' = [files EXCEPT ![q] = m]
             /\ current' = [current EXCEPT ![p] = s]
             /\ call' = IF q \in Readable THEN saving ELSE Stirred(saving)
    BY DEF Save
  <1> DEFINE q == <<dir[p], s.id>>
             m == [cwd |-> s.cwd, mtime |-> t]
             c == Call("save", [path |-> q, meta |-> m])
             saving == [call EXCEPT ![p] = c]
  <1>2. s \in [id : Ids, cwd : Dirs] /\ dir[p] \in Dirs
    BY SessionType DEF STypeOK
  <1>3. t \in 1..MaxTime
    BY <1>1, SessionsAssumption DEF STypeOK
  <1>4. q \in Paths /\ m \in Checkpoints /\ q[1] = dir[p]
    BY <1>2, <1>3 DEF Paths, Checkpoints
  <1>5. CallOK(c, dir[p])
    <2>1. [path |-> q, meta |-> m] \in Saved /\ [path |-> q, meta |-> m].path[1] = dir[p]
      BY <1>4 DEF Saved
    <2>2. "save" \in Ops \ {"none"}
      BY DEF Ops
    <2> HIDE DEF q, m
    <2> QED BY <1>2, <2>1, <2>2, CallType
  <1> HIDE DEF c, m, q
  <1>6. saving \in [Procs -> Calls] /\ \A r \in Procs : CallOK(saving[r], dir[r])
    BY <1>5 DEF STypeOK, CallOK
  <1>7. call' = saving \/ call' = Stirred(saving)
    BY <1>1 DEF c, m, q
  <1>8. call' \in [Procs -> Calls] /\ \A r \in Procs : CallOK(call'[r], dir'[r])
    <2> HIDE DEF saving
    <2>1. dir' = dir
      BY DEF Save
    <2> QED BY <1>6, <1>7, <2>1, StirredType
  <1>9. /\ files' \in [Paths -> Checkpoints \cup {Bad, None}]
        /\ current' \in [Procs -> [id : Ids, cwd : Dirs] \cup {None}]
        /\ now' \in 1..MaxTime
    BY <1>1, <1>2, <1>3, <1>4 DEF STypeOK, m, q
  <1>10. UNCHANGED <<index, dir>> /\ Begins(p)
    BY DEF Save
  <1> QED BY <1>8, <1>9, <1>10, BeginsTypes DEF STypeOK

LEMMA CommandTypes ==
    ASSUME STypeOK, NEW p \in Procs, Command(p)
    PROVE  STypeOK'
  <1>1. PICK c \in {Call("list", None), Call("last", None)}
                     \cup {Call("delete", [id |-> i]) : i \in Ids}
                     \cup {Call("prune", [cutoff |-> t]) : t \in 1..now} :
          call' = [call EXCEPT ![p] = c]
    BY DEF Command
  <1>2. dir[p] \in Dirs /\ 1..now \subseteq 1..MaxTime
    BY SessionsAssumption DEF STypeOK
  <1>3. CallOK(c, dir[p])
    <2>1. CallOK(Call("list", None), dir[p]) /\ CallOK(Call("last", None), dir[p])
      BY <1>2, CallType DEF Ops
    <2>2. ASSUME NEW i \in Ids PROVE CallOK(Call("delete", [id |-> i]), dir[p])
      BY <1>2, CallType DEF Ops
    <2>3. ASSUME NEW t \in 1..now PROVE CallOK(Call("prune", [cutoff |-> t]), dir[p])
      <3>1. [cutoff |-> t] \in [cutoff : 1..MaxTime]
        BY <1>2
      <3> QED BY <1>2, <3>1, CallType DEF Ops
    <2> QED BY <2>1, <2>2, <2>3
  <1>4. UNCHANGED <<files, index, now, dir, current>> /\ Begins(p)
    BY DEF Command
  <1>5. call' \in [Procs -> Calls] /\ \A r \in Procs : CallOK(call'[r], dir'[r])
    BY <1>1, <1>3, <1>4, OneCall
  <1> QED BY <1>4, <1>5, BeginsTypes DEF STypeOK

LEMMA ChatTypes ==
    ASSUME STypeOK, NEW p \in Procs,
           NewChat(p) \/ Kill(p) \/ \E i \in Ids : ResumeId(p, i)
    PROVE  STypeOK'
  <1>1. CASE NewChat(p)
    BY <1>1 DEF NewChat, STypeOK, CallOK
  <1>2. CASE Kill(p)
    <2>1. CallOK(Idle, dir[p])
      BY IdleType DEF STypeOK
    <2>2. call' \in [Procs -> Calls] /\ \A r \in Procs : CallOK(call'[r], dir'[r])
      BY <1>2, <2>1, OneCall DEF Kill, Returns
    <2> QED BY <1>2, <2>2 DEF Kill, STypeOK
  <1>3. CASE \E i \in Ids : ResumeId(p, i)
    <2>1. PICK i \in Ids : ResumeId(p, i)
      BY <1>3
    <2>2. current' \in [Procs -> [id : Ids, cwd : Dirs] \cup {None}]
      BY <2>1, OpensType DEF ResumeId
    <2>3. UNCHANGED <<files, index, now, dir, call, calls, alone>>
      BY <2>1 DEF ResumeId
    <2> QED BY <2>2, <2>3 DEF STypeOK, CallOK
  <1> QED BY <1>1, <1>2, <1>3

\* load_or_rebuild_index.
LEMMA LoadTypes ==
    ASSUME STypeOK, NEW p \in Procs,
           Read(p) \/ Count(p) \/ Compare(p) \/ Scan(p) \/ WriteRebuilt(p)
    PROVE  STypeOK'
  <1> DEFINE c == call[p]
  <1>1. CallOK(c, dir[p]) /\ c \in Calls /\ dir[p] \in Dirs
    BY DEF STypeOK
  <1> HIDE DEF c
  <1>2. CASE Read(p)
    <2>1. CASE index = None
      <3>1. call' = [call EXCEPT ![p] = [c EXCEPT !.at = "scan"]] /\ c.at = "read"
        BY <1>2, <2>1 DEF Read, Goes, c
      <3>2. CallOK([c EXCEPT !.at = "scan"], dir[p])
        BY <1>1, <3>1, GoesType DEF Places
      <3> QED BY <1>2, <3>1, <3>2, QuietTypes DEF Read
    <2>2. CASE index # None
      <3>1. /\ call' = [call EXCEPT ![p] = [c EXCEPT !.at = "count", !.copy = index]]
            /\ c.at = "read"
        BY <1>2, <2>2 DEF Read, c
      <3>2. index \in Indexes
        BY <2>2 DEF STypeOK
      <3>3. CallOK([c EXCEPT !.at = "count", !.copy = index], dir[p])
        BY <1>1, <3>1, <3>2 DEF CallOK, Calls, Places
      <3> QED BY <1>2, <3>1, <3>3, QuietTypes DEF Read
    <2> QED BY <2>1, <2>2
  <1>3. CASE Count(p)
    <2>1. /\ call' = [call EXCEPT ![p] = [c EXCEPT !.at = "compare", !.count = Cardinality(Existing)]]
          /\ c.at = "count"
      BY <1>3 DEF Count, c
    <2>2. CallOK([c EXCEPT !.at = "compare", !.count = Cardinality(Existing)], dir[p])
      BY <1>1, <2>1, ExistingFinite DEF CallOK, Calls, Places
    <2> QED BY <1>3, <2>1, <2>2, QuietTypes DEF Count
  <1>4. CASE Compare(p)
    <2>1. PICK place \in {"scan", "loaded"} : call' = [call EXCEPT ![p] = [c EXCEPT !.at = place]]
      BY <1>4 DEF Compare, Goes, c
    <2>2. CallOK([c EXCEPT !.at = place], dir[p])
      BY <1>1, <1>4, GoesType DEF Compare, Places, c
    <2> QED BY <1>4, <2>1, <2>2, QuietTypes DEF Compare
  <1>5. CASE Scan(p)
    <2> DEFINE i == [EmptyIndex EXCEPT !.meta =
                       [q \in Paths |-> IF q \in Readable THEN files[q] ELSE None]]
    <2>1. i \in Indexes
      BY RebuiltType
    <2>2. PICK place \in {"write", "rewrite"} :
            call' = [call EXCEPT ![p] = [c EXCEPT !.at = place, !.copy = i]]
      BY <1>5 DEF Scan, c
    <2>3. c.at \in {"scan", "rescan"}
      BY <1>5 DEF Scan, c
    <2> HIDE DEF i
    <2>4. CallOK([c EXCEPT !.at = place, !.copy = i], dir[p])
      BY <1>1, <2>1, <2>3 DEF CallOK, Calls, Places
    <2> QED BY <1>5, <2>2, <2>4, QuietTypes DEF Scan
  <1>6. CASE WriteRebuilt(p)
    <2>1. PICK d : call' = [call EXCEPT ![p] = d] /\ CallOK(d, dir[p])
      <3>1. CASE c.at = "write" /\ Goes(p, "loaded")
        <4>1. CallOK([c EXCEPT !.at = "loaded"], dir[p])
          BY <1>1, <3>1, GoesType DEF Places
        <4> QED BY <3>1, <4>1 DEF Goes, c
      <3>2. CASE Returns(p)
        BY <1>1, <3>2, IdleType DEF Returns
      <3> QED BY <1>6, <3>1, <3>2 DEF WriteRebuilt, c
    <2>2. UNCHANGED <<files, now, dir, current, calls, alone>> /\ index' = c.copy
      BY <1>6 DEF WriteRebuilt, c
    <2>3. c.copy \in Indexes
      BY <1>1 DEF Calls
    <2>4. call' \in [Procs -> Calls] /\ \A r \in Procs : CallOK(call'[r], dir'[r])
      BY <2>1, <2>2, OneCall
    <2> QED BY <2>2, <2>3, <2>4 DEF STypeOK
  <1> QED BY <1>2, <1>3, <1>4, <1>5, <1>6

\* What a call does with the index it has loaded.
LEMMA UseTypes ==
    ASSUME STypeOK, NEW p \in Procs,
           SaveIndexed(p) \/ Listed(p) \/ Choose(p) \/ Unindexed(p) \/ Resumed(p)
    PROVE  STypeOK'
  <1> DEFINE c == call[p]
  <1>1. CallOK(c, dir[p]) /\ c \in Calls /\ dir[p] \in Dirs /\ CallOK(Idle, dir[p])
    BY IdleType DEF STypeOK
  <1>2. c.copy \in Indexes
    BY <1>1 DEF Calls
  <1> HIDE DEF c
  <1>3. CASE SaveIndexed(p)
    <2>1. c.about.path \in Paths /\ c.about.meta \in Checkpoints
      BY <1>1, <1>3 DEF SaveIndexed, Loaded, CallOK, Saved, c
    <2>2. index' \in Indexes
      BY <1>2, <1>3, <2>1, UpsertType DEF SaveIndexed, c
    <2>3. call' \in [Procs -> Calls] /\ \A r \in Procs : CallOK(call'[r], dir'[r])
      BY <1>1, <1>3, OneCall DEF SaveIndexed, Returns
    <2> QED BY <1>3, <2>2, <2>3 DEF SaveIndexed, STypeOK
  <1>4. CASE Listed(p)
    BY <1>1, <1>4, QuietTypes DEF Listed, Returns
  <1>5. CASE Choose(p)
    <2>1. CASE Chosen(c) = {}
      BY <1>1, <1>5, <2>1, QuietTypes DEF Choose, Returns, c
    <2>2. CASE Chosen(c) # {}
      <3>1. Chosen(c) \in SUBSET Paths
        BY DEF Chosen, OldEnough, Shown, Existing
      <3>2. /\ call' = [call EXCEPT ![p] = [c EXCEPT !.at = "unlink", !.todo = Chosen(c)]]
            /\ c.at = "loaded"
        BY <1>5, <2>2 DEF Choose, Loaded, c
      <3>3. CallOK([c EXCEPT !.at = "unlink", !.todo = Chosen(c)], dir[p])
        BY <1>1, <2>2, <3>1, <3>2, ZenonT(40) DEF CallOK, Calls, Places
      <3> QED BY <1>5, <3>2, <3>3, QuietTypes DEF Choose
    <2> QED BY <2>1, <2>2
  <1>6. CASE Unindexed(p)
    <2>1. index' \in Indexes
      <3> DEFINE id == c.about.id
      <3>1. /\ c.copy.meta \in [Paths -> Checkpoints \cup {None}]
            /\ c.copy.last \in [Dirs -> Ids \cup {None}]
        BY <1>2 DEF Indexes
      <3>2. /\ [q \in Paths |-> IF q[2] = id THEN None ELSE c.copy.meta[q]]
                 \in [Paths -> Checkpoints \cup {None}]
            /\ [d \in Dirs |-> IF c.copy.last[d] = id THEN None ELSE c.copy.last[d]]
                 \in [Dirs -> Ids \cup {None}]
        BY <3>1
      <3>3. index' = [meta |-> [q \in Paths |-> IF q[2] = id THEN None ELSE c.copy.meta[q]],
                      last |-> [d \in Dirs |-> IF c.copy.last[d] = id THEN None
                                               ELSE c.copy.last[d]]]
        BY <1>6 DEF Unindexed, c
      <3> QED BY <3>2, <3>3 DEF Indexes
    <2>2. call' \in [Procs -> Calls] /\ \A r \in Procs : CallOK(call'[r], dir'[r])
      BY <1>1, <1>6, OneCall DEF Unindexed, Returns
    <2>3. current' \in [Procs -> [id : Ids, cwd : Dirs] \cup {None}]
      BY <1>6 DEF Unindexed, STypeOK
    <2> QED BY <1>6, <2>1, <2>2, <2>3 DEF Unindexed, STypeOK
  <1>7. CASE Resumed(p)
    <2>1. PICK d : call' = [call EXCEPT ![p] = d] /\ CallOK(d, dir[p])
      <3>1. CallOK(Call("dir", None), dir[p]) /\ CallOK(Call("any", None), dir[p])
        BY <1>1, CallType DEF Ops
      <3>2. c.op \in {"last", "dir", "any"}
        BY <1>7 DEF Resumed, Loaded, c
      <3> QED BY <1>1, <1>7, <3>1, <3>2 DEF Resumed, Returns, c
    <2>2. current' \in [Procs -> [id : Ids, cwd : Dirs] \cup {None}]
      <3>1. CASE Eligible(p) # {}
        BY <1>7, <3>1, OpensType DEF Resumed
      <3>2. CASE Eligible(p) = {}
        BY <1>7, <3>2 DEF Resumed, STypeOK
      <3> QED BY <3>1, <3>2
    <2>3. UNCHANGED <<files, index, now, dir, calls, alone>>
      BY <1>7 DEF Resumed
    <2>4. call' \in [Procs -> Calls] /\ \A r \in Procs : CallOK(call'[r], dir'[r])
      BY <2>1, <2>3, OneCall
    <2> QED BY <2>2, <2>3, <2>4 DEF STypeOK
  <1> QED BY <1>3, <1>4, <1>5, <1>6, <1>7

LEMMA UnlinkTypes ==
    ASSUME STypeOK, NEW p \in Procs, NEW q \in Paths, Unlink(p, q)
    PROVE  STypeOK'
  <1> DEFINE c == call[p]
  <1>1. CallOK(c, dir[p]) /\ c \in Calls /\ dir[p] \in Dirs /\ CallOK(Idle, dir[p])
    BY IdleType DEF STypeOK
  <1>2. c.at = "unlink" /\ q \in c.todo
    BY DEF Unlink
  <1> HIDE DEF c
  <1>3. CallOK(Removed(c, q), dir[p])
    <2>1. CASE c.op = "delete"
      <3>1. c.about \in [id : Ids]
        BY <1>1, <2>1 DEF CallOK
      <3>2. CallOK(Call("unindex", c.about), dir[p])
        BY <1>1, <3>1, CallType DEF Ops
      <3> QED BY <2>1, <3>2 DEF Removed
    <2>2. CASE c.op # "delete"
      <3>1. Removed(c, q) = [c EXCEPT !.todo = c.todo \ {q},
                                      !.at = IF c.todo = {q} THEN "rescan" ELSE c.at]
        BY <1>1, <2>2 DEF Removed, Calls
      <3>2. c.todo = {q} <=> c.todo \ {q} = {}
        BY <1>2
      <3>3. c.todo \ {q} \in SUBSET Paths
        BY <1>1 DEF Calls
      <3> QED BY <1>1, <1>2, <3>1, <3>2, <3>3 DEF CallOK, Calls, Places
    <2> QED BY <2>1, <2>2
  <1>4. CASE q \in Existing
    <2> DEFINE next == [call EXCEPT ![p] = Removed(c, q)]
    <2>1. next \in [Procs -> Calls] /\ \A r \in Procs : CallOK(next[r], dir[r])
      BY <1>3 DEF STypeOK, CallOK
    <2>2. call' = Stirred(next) /\ dir' = dir
      BY <1>4 DEF Unlink, c
    <2>3. files' \in [Paths -> Checkpoints \cup {Bad, None}]
      BY <1>4 DEF Unlink, STypeOK
    <2> HIDE DEF next
    <2>4. call' \in [Procs -> Calls] /\ \A r \in Procs : CallOK(call'[r], dir'[r])
      BY <2>1, <2>2, StirredType
    <2> QED BY <2>3, <2>4 DEF Unlink, STypeOK
  <1>5. CASE q \notin Existing
    BY <1>1, <1>5, QuietTypes DEF Unlink, Returns
  <1> QED BY <1>4, <1>5

LEMMA DamageTypes ==
    ASSUME STypeOK, NEW q \in Paths, Damage(q)
    PROVE  STypeOK'
  <1>1. call' \in [Procs -> Calls] /\ \A r \in Procs : CallOK(call'[r], dir'[r])
    BY StirredType DEF Damage, STypeOK
  <1>2. files' \in [Paths -> Checkpoints \cup {Bad, None}] /\ calls' \in 0..MaxCalls
    BY SessionsAssumption DEF Damage, STypeOK
  <1> QED BY <1>1, <1>2 DEF Damage, STypeOK

LEMMA TypesNext == STypeOK /\ [Next]_svars => STypeOK'
  <1> SUFFICES ASSUME STypeOK, [Next]_svars
               PROVE  STypeOK'
    OBVIOUS
  <1>1. CASE UNCHANGED svars
    BY <1>1 DEF svars, STypeOK, CallOK
  <1>2. CASE Next
    <2>1. CASE \E q \in Paths : Damage(q)
      BY <2>1, DamageTypes
    <2>2. ASSUME NEW p \in Procs, NewChat(p) \/ Kill(p) \/ \E i \in Ids : ResumeId(p, i)
          PROVE  STypeOK'
      BY <2>2, ChatTypes
    <2>3. ASSUME NEW p \in Procs, Save(p) \/ Command(p)
          PROVE  STypeOK'
      BY <2>3, SaveTypes, CommandTypes
    <2>4. ASSUME NEW p \in Procs,
                 Read(p) \/ Count(p) \/ Compare(p) \/ Scan(p) \/ WriteRebuilt(p)
          PROVE  STypeOK'
      BY <2>4, LoadTypes
    <2>5. ASSUME NEW p \in Procs,
                 SaveIndexed(p) \/ Listed(p) \/ Choose(p) \/ Unindexed(p) \/ Resumed(p)
          PROVE  STypeOK'
      BY <2>5, UseTypes
    <2>6. ASSUME NEW p \in Procs, NEW q \in Paths, Unlink(p, q)
          PROVE  STypeOK'
      BY <2>6, UnlinkTypes
    <2> QED BY <1>2, <2>1, <2>2, <2>3, <2>4, <2>5, <2>6 DEF Next
  <1> QED BY <1>1, <1>2

\* The type invariant, for any processes, directories and ids (sessions.rs:96).
THEOREM SessionTypes == Spec => []STypeOK
  BY TypesInit, TypesNext, PTL DEF Spec

-----------------------------------------------------------------------------
\* Loads

\* A quiet load has counted what there is, or holds what can be read.
Sound(c, existing, readable) ==
    c.quiet => /\ c.at = "compare" => c.count = Cardinality(existing)
               /\ c.at \in {"write", "loaded"} =>
                      \A q \in readable : c.copy.meta[q] # None

LoadSound == \A p \in Procs : Sound(call[p], Existing, Readable)

LEMMA SoundInit == Init => LoadSound
  BY DEF Init, LoadSound, Sound, Idle, Call

\* Once a file comes, goes or breaks, no load that has begun is quiet.
LEMMA StirredSound ==
    ASSUME NEW c \in [Procs -> Calls], NEW p \in Procs, NEW e, NEW r
    PROVE  Sound(Stirred(c)[p], e, r)
  BY DEF Stirred, Sound, Calls

\* While files stay as they are, only the call that steps must be looked at.
LEMMA OneSound ==
    ASSUME STypeOK, LoadSound, NEW p \in Procs, NEW c,
           call' = [call EXCEPT ![p] = c],
           Existing' = Existing, Readable' = Readable, Sound(c, Existing, Readable)
    PROVE  LoadSound'
  BY DEF STypeOK, LoadSound

LEMMA SameFiles ==
    ASSUME UNCHANGED files
    PROVE  Existing' = Existing /\ Readable' = Readable
  BY DEF Existing, Readable

LEMMA SoundSave ==
    ASSUME STypeOK, LoadSound, NEW p \in Procs, Save(p)
    PROVE  LoadSound'
  <1>1. PICK s \in Session(p), t \in {now, now + 1} :
          LET q == <<dir[p], s.id>>
              m == [cwd |-> s.cwd, mtime |-> t]
              saving == [call EXCEPT ![p] = Call("save", [path |-> q, meta |-> m])]
          IN /\ t <= MaxTime
             /\ now' = t
             /\ files' = [files EXCEPT ![q] = m]
             /\ current' = [current EXCEPT ![p] = s]
             /\ call' = IF q \in Readable THEN saving ELSE Stirred(saving)
    BY DEF Save
  <1> DEFINE q == <<dir[p], s.id>>
             m == [cwd |-> s.cwd, mtime |-> t]
             c == Call("save", [path |-> q, meta |-> m])
             saving == [call EXCEPT ![p] = c]
  <1>2. m \notin {Bad, None} /\ q \in Paths
    <2>1. s \in [id : Ids, cwd : Dirs] /\ dir[p] \in Dirs
      BY SessionType DEF STypeOK
    <2>2. t \in 1..MaxTime
      BY <1>1, SessionsAssumption DEF STypeOK
    <2>3. m \in Checkpoints
      BY <2>1, <2>2 DEF Checkpoints
    <2> QED BY <2>1, <2>3, SessionsAssumption DEF Paths
  <1>3. CASE q \in Readable
    <2>1. files' = [files EXCEPT ![q] = m] /\ call' = [call EXCEPT ![p] = c]
      BY <1>1, <1>3
    <2>2. Sound(c, Existing, Readable)
      BY DEF Sound, Call
    <2> HIDE DEF q, m, c
    <2>3. Existing' = Existing /\ Readable' = Readable
      BY <1>2, <1>3, <2>1 DEF STypeOK, Existing, Readable
    <2> QED BY <2>1, <2>2, <2>3, OneSound
  <1>4. CASE q \notin Readable
    <2>1. call' = Stirred(saving)
      BY <1>1, <1>4
    <2>2. saving \in [Procs -> Calls]
      <3>1. c \in Calls
        <4>1. dir[p] \in Dirs /\ s \in [id : Ids, cwd : Dirs] /\ t \in 1..MaxTime
          BY <1>1, SessionType, SessionsAssumption DEF STypeOK
        <4>2. [path |-> q, meta |-> m] \in Saved
          BY <1>2, <4>1 DEF Saved, Checkpoints
        <4> HIDE DEF q, m
        <4> QED BY <4>2, EmptyIndexType DEF Call, Calls, Ops, Places
      <3> QED BY <3>1 DEF STypeOK
    <2> HIDE DEF saving
    <2> QED BY <2>1, <2>2, StirredSound DEF LoadSound
  <1> QED BY <1>3, <1>4

\* A file comes or goes.
LEMMA SoundFiles ==
    ASSUME STypeOK, LoadSound,
           (\E p \in Procs, q \in Paths : Unlink(p, q)) \/ (\E q \in Paths : Damage(q))
    PROVE  LoadSound'
  <1>1. ASSUME NEW q \in Paths, Damage(q)
        PROVE  LoadSound'
    <2>1. call \in [Procs -> Calls] /\ call' = Stirred(call)
      BY <1>1 DEF Damage, STypeOK
    <2> QED BY <2>1, StirredSound DEF LoadSound
  <1>2. ASSUME NEW p \in Procs, NEW q \in Paths, Unlink(p, q), q \in Existing
        PROVE  LoadSound'
    <2> DEFINE next == [call EXCEPT ![p] = Removed(@, q)]
    <2>1. call' = Stirred(next)
      BY <1>2 DEF Unlink
    <2>2. next \in [Procs -> Calls]
      <3>1. call[p] \in Calls /\ call[p].todo \ {q} \in SUBSET Paths
        BY DEF STypeOK, Calls
      <3>2. Call("unindex", call[p].about) \in Calls
        BY <3>1, EmptyIndexType DEF Call, Calls, Ops, Places
      <3>3. Removed(call[p], q) \in Calls
        BY <3>1, <3>2 DEF Removed, Calls, Places
      <3> QED BY <3>3 DEF STypeOK
    <2> HIDE DEF next
    <2> QED BY <2>1, <2>2, StirredSound DEF LoadSound
  <1>3. ASSUME NEW p \in Procs, NEW q \in Paths, Unlink(p, q), q \notin Existing
        PROVE  LoadSound'
    <2>1. call' = [call EXCEPT ![p] = Idle] /\ UNCHANGED files
      BY <1>3 DEF Unlink, Returns
    <2>2. Sound(Idle, Existing, Readable)
      BY DEF Sound, Idle, Call
    <2> QED BY <2>1, <2>2, SameFiles, OneSound
  <1> QED BY <1>1, <1>2, <1>3

\* Two numbers agree: then no file is missing among the entries.
LEMMA CountsAgree ==
    ASSUME NEW i, Cardinality(Existing) = Cardinality(Shown(i))
    PROVE  \A q \in Readable : i.meta[q] # None
  <1>1. Shown(i) \in SUBSET Existing
    BY DEF Shown
  <1>2. Shown(i) = Existing
    BY <1>1, ExistingFinite, FS_Subset
  <1> QED BY <1>2 DEF Shown, Readable

LEMMA SoundLoad ==
    ASSUME STypeOK, LoadSound, NEW p \in Procs,
           Read(p) \/ Count(p) \/ Compare(p) \/ Scan(p) \/ WriteRebuilt(p)
    PROVE  LoadSound'
  <1> DEFINE c == call[p]
  <1>1. c \in Calls /\ Sound(c, Existing, Readable)
    BY DEF STypeOK, LoadSound
  <1>2. UNCHANGED files
    BY DEF Read, Count, Compare, Scan, WriteRebuilt
  <1> HIDE DEF c
  <1>3. SUFFICES \E d : call' = [call EXCEPT ![p] = d] /\ Sound(d, Existing, Readable)
    BY <1>2, SameFiles, OneSound
  <1>4. CASE Read(p)
    <2>1. CASE index = None
      BY <1>1, <1>4, <2>1 DEF Read, Goes, Sound, Calls, c
    <2>2. CASE index # None
      <3>1. call' = [call EXCEPT ![p] = [c EXCEPT !.at = "count", !.copy = index]]
        BY <1>4, <2>2 DEF Read, c
      <3>2. Sound([c EXCEPT !.at = "count", !.copy = index], Existing, Readable)
        BY <1>1 DEF Sound, Calls
      <3> QED BY <3>1, <3>2
    <2> QED BY <2>1, <2>2
  <1>5. CASE Count(p)
    <2>1. call' = [call EXCEPT ![p] = [c EXCEPT !.at = "compare", !.count = Cardinality(Existing)]]
      BY <1>5 DEF Count, c
    <2>2. Sound([c EXCEPT !.at = "compare", !.count = Cardinality(Existing)], Existing, Readable)
      BY <1>1 DEF Sound, Calls
    <2> QED BY <2>1, <2>2
  <1>6. CASE Compare(p)
    <2>1. CASE Stale(c)
      <3>1. call' = [call EXCEPT ![p] = [c EXCEPT !.at = "scan"]]
        BY <1>6, <2>1 DEF Compare, Goes, c
      <3>2. Sound([c EXCEPT !.at = "scan"], Existing, Readable)
        BY <1>1 DEF Sound, Calls
      <3> QED BY <3>1, <3>2
    <2>2. CASE ~Stale(c)
      <3>1. call' = [call EXCEPT ![p] = [c EXCEPT !.at = "loaded"]] /\ c.at = "compare"
        BY <1>6, <2>2 DEF Compare, Goes, c
      <3>2. c.quiet => \A q \in Readable : c.copy.meta[q] # None
        BY <1>1, <2>2, <3>1, CountsAgree DEF Sound, Stale
      <3>3. Sound([c EXCEPT !.at = "loaded"], Existing, Readable)
        BY <1>1, <3>2 DEF Sound, Calls
      <3> QED BY <3>1, <3>3
    <2> QED BY <2>1, <2>2
  <1>7. CASE Scan(p)
    <2> DEFINE i == [EmptyIndex EXCEPT !.meta =
                       [q \in Paths |-> IF q \in Readable THEN files[q] ELSE None]]
    <2>1. PICK place \in {"write", "rewrite"} :
            call' = [call EXCEPT ![p] = [c EXCEPT !.at = place, !.copy = i]]
      BY <1>7 DEF Scan, c
    <2>2. \A q \in Readable : i.meta[q] # None
      BY DEF EmptyIndex, Readable, Existing
    <2> HIDE DEF i
    <2>3. Sound([c EXCEPT !.at = place, !.copy = i], Existing, Readable)
      BY <1>1, <2>2 DEF Sound, Calls
    <2> QED BY <2>1, <2>3
  <1>8. CASE WriteRebuilt(p)
    <2>1. CASE c.at = "write" /\ Goes(p, "loaded")
      <3>1. Sound([c EXCEPT !.at = "loaded"], Existing, Readable)
        BY <1>1, <2>1 DEF Sound, Calls
      <3> QED BY <2>1, <3>1 DEF Goes, c
    <2>2. CASE Returns(p)
      <3>1. Sound(Idle, Existing, Readable)
        BY DEF Sound, Idle, Call
      <3> QED BY <2>2, <3>1 DEF Returns
    <2> QED BY <1>8, <2>1, <2>2 DEF WriteRebuilt, c
  <1> QED BY <1>4, <1>5, <1>6, <1>7, <1>8

\* The other steps leave files alone and begin, end or restart a call.
LEMMA SoundOthers ==
    ASSUME STypeOK, LoadSound, NEW p \in Procs,
           \/ NewChat(p) \/ Kill(p) \/ Command(p) \/ \E i \in Ids : ResumeId(p, i)
           \/ SaveIndexed(p) \/ Listed(p) \/ Choose(p) \/ Unindexed(p) \/ Resumed(p)
    PROVE  LoadSound'
  <1>1. UNCHANGED files
    BY DEF NewChat, Kill, Command, ResumeId, SaveIndexed, Listed, Choose, Unindexed, Resumed
  <1>2. Existing' = Existing /\ Readable' = Readable
    BY <1>1, SameFiles
  <1>3. CASE UNCHANGED call
    BY <1>2, <1>3 DEF LoadSound
  <1>4. ASSUME NEW op, NEW about, call' = [call EXCEPT ![p] = Call(op, about)]
        PROVE  LoadSound'
    BY <1>2, <1>4, OneSound DEF Sound, Call
  <1>5. CASE Returns(p)
    BY <1>2, <1>5, OneSound DEF Returns, Sound, Idle, Call
  <1>6. CASE Choose(p) /\ ~Returns(p)
    <2>1. call' = [call EXCEPT ![p] = [call[p] EXCEPT !.at = "unlink", !.todo = Chosen(call[p])]]
      BY <1>6 DEF Choose
    <2>2. Sound([call[p] EXCEPT !.at = "unlink", !.todo = Chosen(call[p])], Existing, Readable)
      BY DEF Sound, STypeOK, Calls
    <2> QED BY <1>2, <2>1, <2>2, OneSound
  <1>7. CASE NewChat(p) \/ \E i \in Ids : ResumeId(p, i)
    BY <1>3, <1>7 DEF NewChat, ResumeId
  <1>8. CASE Kill(p) \/ SaveIndexed(p) \/ Listed(p) \/ Unindexed(p)
    BY <1>5, <1>8 DEF Kill, SaveIndexed, Listed, Unindexed
  <1>9. CASE Command(p)
    BY <1>4, <1>9 DEF Command
  <1>10. CASE Resumed(p)
    BY <1>4, <1>5, <1>10 DEF Resumed, Loaded
  <1> QED BY <1>6, <1>5, <1>7, <1>8, <1>9, <1>10

LEMMA SoundNext == STypeOK /\ LoadSound /\ [Next]_svars => LoadSound'
  <1> SUFFICES ASSUME STypeOK, LoadSound, [Next]_svars
               PROVE  LoadSound'
    OBVIOUS
  <1>1. CASE UNCHANGED svars
    BY <1>1 DEF svars, LoadSound, Existing, Readable
  <1>2. CASE Next
    <2>1. CASE \E q \in Paths : Damage(q)
      BY <2>1, SoundFiles
    <2>2. ASSUME NEW p \in Procs, NEW q \in Paths, Unlink(p, q)
          PROVE  LoadSound'
      BY <2>2, SoundFiles
    <2>3. ASSUME NEW p \in Procs, Save(p)
          PROVE  LoadSound'
      BY <2>3, SoundSave
    <2>4. ASSUME NEW p \in Procs,
                 Read(p) \/ Count(p) \/ Compare(p) \/ Scan(p) \/ WriteRebuilt(p)
          PROVE  LoadSound'
      BY <2>4, SoundLoad
    <2>5. ASSUME NEW p \in Procs,
                 \/ NewChat(p) \/ Kill(p) \/ Command(p) \/ \E i \in Ids : ResumeId(p, i)
                 \/ SaveIndexed(p) \/ Listed(p) \/ Choose(p) \/ Unindexed(p) \/ Resumed(p)
          PROVE  LoadSound'
      BY <2>5, SoundOthers
    <2> QED BY <1>2, <2>1, <2>2, <2>3, <2>4, <2>5 DEF Next
  <1> QED BY <1>1, <1>2

\* A load during which no file came or went has an entry for every readable
\* checkpoint, for any number of processes and files (sessions.rs:717).
THEOREM LoadsAreExact == Spec => []LoadedExact
  <1>1. LoadSound => LoadedExact
    BY DEF LoadSound, Sound, LoadedExact, Shown, Readable
  <1> QED BY <1>1, TypesInit, TypesNext, SoundInit, SoundNext, PTL DEF Spec

-----------------------------------------------------------------------------
\* The index while calls are alone

\* Of the files fs: those there are, and those that can be read.
Exists(fs) == {q \in Paths : fs[q] # None}
CanRead(fs) == {q \in Paths : fs[q] \notin {None, Bad}}

\* An index that tells the truth of the files, but for what a call has saved and
\* not put into it yet.
TrueOf(i, fs, c) ==
    \A q \in CanRead(fs) :
        i.meta[q] = None \/ i.meta[q] = fs[q] \/ (c.op = "save" /\ c.about.path = q)

\* The session i is of the directory d, in a checkpoint or in a process.
OfFile(i, d, fs) == \E q \in CanRead(fs) : q[2] = i /\ fs[q].cwd = d
OfProcess(i, d, cur) == \E p \in Procs : cur[p] # None /\ cur[p].id = i /\ cur[p].cwd = d
Of(i, d, fs, cur) == OfFile(i, d, fs) \/ OfProcess(i, d, cur)

\* Session i has a checkpoint as new as any of the directory d, or a damaged one.
Fresh(d, i, fs) ==
    \E q \in Exists(fs) :
        /\ q[2] = i
        /\ q \in CanRead(fs) =>
              \A r \in CanRead(fs) : fs[r].cwd = d => fs[r].mtime <= fs[q].mtime

Removes(c) == c.op = "prune" /\ c.at \in {"unlink", "rescan", "rewrite"}

\* A call is about to say what was used last in d, or to have i forgotten.
Pending(d, i, c) ==
    \/ c.op = "save" /\ c.about.meta.cwd = d
    \/ c.op = "unindex" /\ c.about.id = i
    \/ Removes(c)

\* What was used last in a directory is a session of it, and its newest.
LastTrue(last, fs, cur, c) ==
    \A d \in Dirs, i \in Ids :
        last[d] = i => /\ \A e \in Dirs : Of(i, e, fs, cur) => e = d
                       /\ Fresh(d, i, fs) \/ Pending(d, i, c)

\* What a call knows of the files if it is alone: a save that none is newer, a
\* removal what it removes, and a resume that those it has not looked at are no
\* concern of it, unless one is damaged.
SaveSure(c, s, fs) ==
    c.op = "save" =>
        /\ fs[c.about.path] \in {c.about.meta, Bad}
        /\ \A r \in CanRead(fs) : fs[r].mtime <= c.about.meta.mtime
        /\ s = [id |-> c.about.path[2], cwd |-> c.about.meta.cwd]

RemovalSure(c, fs) ==
    /\ c.todo \subseteq Exists(fs)
    /\ c.op = "delete" => \A q \in c.todo : q[2] = c.about.id
    /\ c.op = "prune" => \A q \in c.todo \cap CanRead(fs) : fs[q].mtime < c.about.cutoff
    /\ c.at = "rewrite" => c.copy.last = EmptyIndex.last

ResumeSure(c, d, fs) ==
    c.op \in {"last", "dir", "any"} /\ Exists(fs) \subseteq CanRead(fs) =>
        /\ c.quiet
        /\ c.op = "any" => \A q \in Exists(fs) : q[1] # d

IndexSure(i, fs, cur, c) == TrueOf(i, fs, c) /\ LastTrue(i.last, fs, cur, c)

\* The call c of process p is alone.
Sure(p, c, ix, fs, cur) ==
    /\ ix # None => IndexSure(ix, fs, cur, c)
    /\ IndexSure(c.copy, fs, cur, c)
    /\ SaveSure(c, cur[p], fs) /\ RemovalSure(c, fs) /\ ResumeSure(c, dir[p], fs)

Only(p) == \A r \in Procs : r # p => call[r] = Idle

AloneSure ==
    alone => \A p \in Procs : /\ call[p] # Idle => Only(p)
                              /\ Only(p) => Sure(p, call[p], index, files, current)

\* Alone or not: a session keeps its directory, in whatever bucket it is saved;
\* no checkpoint is of the future; and what removes files is a removal.
OneCwd(fs, cur) ==
    \A i \in Ids, d \in Dirs, e \in Dirs : Of(i, d, fs, cur) /\ Of(i, e, fs, cur) => d = e

NoFuture(fs, t) == \A q \in CanRead(fs) : fs[q].mtime <= t

Removers(cl) ==
    \A p \in Procs : cl[p].at \in {"unlink", "rescan", "rewrite"} => cl[p].op \in {"delete", "prune"}

Steady == OneCwd(files, current) /\ NoFuture(files, now) /\ Removers(call)

LEMMA Files == Exists(files) = Existing /\ CanRead(files) = Readable
  BY DEF Exists, CanRead, Existing, Readable

\* Files that go and are damaged, but never change or come: from fs to gs.
Wanes(fs, gs) ==
    /\ CanRead(gs) \subseteq CanRead(fs)
    /\ \A q \in CanRead(gs) : gs[q] = fs[q]

\* Processes that keep their sessions, leave them, or open one that can be read.
Keeps(fs, cur, nxt) ==
    \A p \in Procs :
        \/ nxt[p] = None \/ nxt[p] = cur[p]
        \/ \E q \in CanRead(fs) : nxt[p] = [id |-> q[2], cwd |-> fs[q].cwd]

LEMMA OfKept ==
    ASSUME NEW fs, NEW gs, NEW cur, NEW nxt, Wanes(fs, gs), Keeps(fs, cur, nxt),
           NEW i, NEW d, Of(i, d, gs, nxt)
    PROVE  Of(i, d, fs, cur)
  <1>1. CASE OfFile(i, d, gs)
    BY <1>1 DEF OfFile, Of, Wanes
  <1>2. CASE OfProcess(i, d, nxt)
    <2>1. PICK p \in Procs : nxt[p] # None /\ nxt[p].id = i /\ nxt[p].cwd = d
      BY <1>2 DEF OfProcess
    <2>2. CASE nxt[p] = cur[p]
      BY <2>1, <2>2 DEF Of, OfProcess
    <2>3. CASE \E q \in CanRead(fs) : nxt[p] = [id |-> q[2], cwd |-> fs[q].cwd]
      BY <2>1, <2>3 DEF Of, OfFile
    <2> QED BY <2>1, <2>2, <2>3 DEF Keeps
  <1> QED BY <1>1, <1>2 DEF Of

LEMMA OneCwdKept ==
    ASSUME NEW fs, NEW gs, NEW cur, NEW nxt, Wanes(fs, gs), Keeps(fs, cur, nxt),
           OneCwd(fs, cur)
    PROVE  OneCwd(gs, nxt)
  BY OfKept DEF OneCwd

LEMMA TrueKept ==
    ASSUME NEW fs, NEW gs, NEW i, NEW c, NEW b, Wanes(fs, gs), TrueOf(i, fs, c),
           c.op = "save" => b.op = "save" /\ b.about.path = c.about.path
    PROVE  TrueOf(i, gs, b)
  BY DEF TrueOf, Wanes

LEMMA FreshKept ==
    ASSUME NEW fs, NEW gs, Wanes(fs, gs), NEW d, NEW i, Fresh(d, i, fs),
           \A q \in Exists(fs) : q[2] = i => q \in Exists(gs)
    PROVE  Fresh(d, i, gs)
  BY DEF Fresh, Wanes

LEMMA LastKept ==
    ASSUME NEW fs, NEW gs, NEW cur, NEW nxt, NEW last, NEW c, NEW b,
           Wanes(fs, gs), Keeps(fs, cur, nxt), LastTrue(last, fs, cur, c),
           \A d \in Dirs, i \in Ids :
              last[d] = i =>
                 \/ Pending(d, i, b)
                 \/ /\ ~Pending(d, i, c)
                    /\ \A q \in Exists(fs) : q[2] = i => q \in Exists(gs)
    PROVE  LastTrue(last, gs, nxt, b)
  <1> SUFFICES ASSUME NEW d \in Dirs, NEW i \in Ids, last[d] = i
               PROVE  /\ \A e \in Dirs : Of(i, e, gs, nxt) => e = d
                      /\ Fresh(d, i, gs) \/ Pending(d, i, b)
    BY DEF LastTrue
  <1>1. \A e \in Dirs : Of(i, e, fs, cur) => e = d
    BY DEF LastTrue
  <1>2. Fresh(d, i, fs) \/ Pending(d, i, c)
    BY DEF LastTrue
  <1>3. \A e \in Dirs : Of(i, e, gs, nxt) => e = d
    BY <1>1, OfKept
  <1>4. Fresh(d, i, gs) \/ Pending(d, i, b)
    BY <1>2, FreshKept
  <1> QED BY <1>3, <1>4

\* Nothing is wrong about an index without entries, or a process without a call.
LEMMA EmptySure ==
    ASSUME NEW fs, NEW cur, NEW c
    PROVE  IndexSure(EmptyIndex, fs, cur, c)
  <1>1. TrueOf(EmptyIndex, fs, c)
    BY DEF TrueOf, EmptyIndex, CanRead
  <1>2. LastTrue(EmptyIndex.last, fs, cur, c)
    <2>1. \A d \in Dirs : EmptyIndex.last[d] \notin Ids
      BY SessionsAssumption DEF EmptyIndex
    <2> QED BY <2>1 DEF LastTrue
  <1> QED BY <1>1, <1>2 DEF IndexSure

LEMMA IdleSure ==
    ASSUME NEW p, NEW ix, NEW fs, NEW cur, ix # None => IndexSure(ix, fs, cur, Idle)
    PROVE  Sure(p, Idle, ix, fs, cur)
  <1>1. /\ Idle.op = "none" /\ Idle.at = "idle" /\ Idle.todo = {} /\ Idle.copy = EmptyIndex
    BY DEF Idle, Call
  <1>2. SaveSure(Idle, cur[p], fs) /\ RemovalSure(Idle, fs) /\ ResumeSure(Idle, dir[p], fs)
    BY <1>1 DEF SaveSure, RemovalSure, ResumeSure
  <1>3. IndexSure(Idle.copy, fs, cur, Idle)
    BY <1>1, EmptySure
  <1> HIDE DEF Idle
  <1> QED BY <1>2, <1>3 DEF Sure

LEMMA StirredIdle == ASSUME NEW c \in [Procs -> Calls], NEW p \in Procs, c[p] = Idle
                     PROVE  Stirred(c)[p] = Idle
  BY DEF Stirred, Idle, Call, Calls

\* The one call there is goes on as d, or ends, and is as sure as before.
LEMMA AloneStep ==
    ASSUME STypeOK, NEW p \in Procs, NEW d, Only(p),
           call'[p] = d, \A r \in Procs : r # p => call'[r] = Idle, dir' = dir,
           Sure(p, d, index', files', current')
    PROVE  AloneSure'
  <1> SUFFICES ASSUME NEW r \in Procs
               PROVE  /\ call'[r] # Idle => Only(r)'
                      /\ Only(r)' => Sure(r, call[r], index, files, current)'
    BY DEF AloneSure
  <1>1. call'[r] # Idle => Only(r)'
    BY DEF Only
  <1>2. CASE r = p
    <2>1. Sure(p, d, index, files, current)'
      BY DEF Sure
    <2> QED BY <1>1, <1>2, <2>1
  <1>3. CASE r # p /\ d = Idle
    <2>1. call'[r] = Idle
      BY <1>3
    <2>2. index' # None => IndexSure(index', files', current', Idle)
      BY <1>3 DEF Sure
    <2>3. Sure(r, Idle, index, files, current)'
      BY <2>2, IdleSure DEF Sure
    <2> QED BY <1>1, <2>1, <2>3
  <1>4. CASE r # p /\ d # Idle
    BY <1>1, <1>4 DEF Only
  <1> QED BY <1>2, <1>3, <1>4

\* Most calls change only themselves.
LEMMA OneStep ==
    ASSUME STypeOK, NEW p \in Procs, NEW d, Only(p), call' = [call EXCEPT ![p] = d],
           dir' = dir, Sure(p, d, index', files', current')
    PROVE  AloneSure'
  <1>1. call'[p] = d /\ \A r \in Procs : r # p => call'[r] = Idle
    BY DEF STypeOK, Only
  <1> QED BY <1>1, AloneStep

\* A call under way is alone if the step leaves it so.
LEMMA UnderWay ==
    ASSUME AloneSure, alone, NEW p \in Procs, call[p] # Idle
    PROVE  Only(p) /\ Sure(p, call[p], index, files, current)
  BY DEF AloneSure

LEMMA BeginsAlone ==
    ASSUME AloneSure, NEW p \in Procs, Begins(p), alone'
    PROVE  alone /\ Only(p) /\ Sure(p, Idle, index, files, current)
  BY DEF AloneSure, Begins, Only

LEMMA NotIdle == \A p \in Procs : call[p].at # "idle" => call[p] # Idle
  BY DEF Idle, Call

\* A save, of a session that goes on or a new one.
LEMMA Saves ==
    ASSUME STypeOK, NEW p \in Procs, Save(p)
    PROVE  \E s \in [id : Ids, cwd : Dirs], t \in 1..MaxTime, q \in Paths, m \in Checkpoints, c \in Calls :
              /\ now <= t /\ now' = t
              /\ q = <<dir[p], s.id>> /\ m = [cwd |-> s.cwd, mtime |-> t]
              /\ c = Call("save", [path |-> q, meta |-> m])
              /\ files' = [files EXCEPT ![q] = m]
              /\ current' = [current EXCEPT ![p] = s]
              /\ \/ call' = [call EXCEPT ![p] = c]
                 \/ call' = Stirred([call EXCEPT ![p] = c])
              /\ \/ s = current[p]
                 \/ /\ \A r \in Exists(files) : r[2] # s.id
                    /\ \A r \in Procs : current[r] # None => current[r].id # s.id
  <1>1. PICK s \in Session(p), t \in {now, now + 1} :
          LET q == <<dir[p], s.id>>
              m == [cwd |-> s.cwd, mtime |-> t]
              saving == [call EXCEPT ![p] = Call("save", [path |-> q, meta |-> m])]
          IN /\ t <= MaxTime
             /\ now' = t
             /\ files' = [files EXCEPT ![q] = m]
             /\ current' = [current EXCEPT ![p] = s]
             /\ call' = IF q \in Readable THEN saving ELSE Stirred(saving)
    BY DEF Save
  <1> DEFINE q == <<dir[p], s.id>>
             m == [cwd |-> s.cwd, mtime |-> t]
             c == Call("save", [path |-> q, meta |-> m])
  <1>2. s \in [id : Ids, cwd : Dirs] /\ dir[p] \in Dirs
    BY SessionType DEF STypeOK
  <1>3. t \in 1..MaxTime /\ now <= t
    BY <1>1, SessionsAssumption DEF STypeOK
  <1>4. q \in Paths /\ m \in Checkpoints /\ q[1] = dir[p]
    BY <1>2, <1>3 DEF Paths, Checkpoints
  <1>5. [path |-> q, meta |-> m] \in Saved
    BY <1>4 DEF Saved
  <1>6. c \in Calls
    <2> HIDE DEF q, m
    <2> QED BY <1>5, EmptyIndexType DEF Call, Calls, Ops, Places
  <1>7. \/ s = current[p]
        \/ /\ \A r \in Exists(files) : r[2] # s.id
           /\ \A r \in Procs : current[r] # None => current[r].id # s.id
    BY Files DEF Session
  <1> QED BY <1>1, <1>2, <1>3, <1>4, <1>6, <1>7

\* But for a save, files wane, and sessions are kept, left or opened.
LEMMA OpensKeeps ==
    ASSUME STypeOK, NEW p \in Procs, NEW q, Opens(p, q)
    PROVE  Keeps(files, current, current')
  BY Files DEF STypeOK, Opens, Keeps

LEMMA SameWanes == Wanes(files, files) /\ Keeps(files, current, current)
  BY DEF Wanes, Keeps

LEMMA UnlinkWanes ==
    ASSUME STypeOK, NEW q \in Paths, files' = [files EXCEPT ![q] = None]
    PROVE  Wanes(files, files') /\ Exists(files') = Exists(files) \ {q}
  BY DEF STypeOK, Wanes, CanRead, Exists

LEMMA DamageWanes ==
    ASSUME STypeOK, NEW q \in Paths, Damage(q)
    PROVE  /\ Wanes(files, files') /\ Exists(files') = Exists(files)
           /\ q \in Exists(files') \ CanRead(files')
  BY SessionsAssumption, Files DEF STypeOK, Damage, Wanes, CanRead, Exists

LEMMA StepWanes ==
    ASSUME STypeOK, [Next]_svars, \A p \in Procs : ~Save(p)
    PROVE  Wanes(files, files') /\ Keeps(files, current, current') /\ now' = now
  <1>1. CASE UNCHANGED svars
    BY <1>1, SameWanes DEF svars
  <1>2. ASSUME NEW q \in Paths, Damage(q)
        PROVE  Wanes(files, files') /\ Keeps(files, current, current') /\ now' = now
    BY <1>2, DamageWanes, SameWanes DEF Damage
  <1>3. ASSUME NEW p \in Procs, NEW q \in Paths, Unlink(p, q)
        PROVE  Wanes(files, files') /\ Keeps(files, current, current') /\ now' = now
    BY <1>3, UnlinkWanes, SameWanes DEF Unlink
  <1>4. ASSUME NEW p \in Procs,
               \/ Command(p) \/ Read(p) \/ Count(p) \/ Compare(p) \/ Scan(p) \/ WriteRebuilt(p)
               \/ SaveIndexed(p) \/ Listed(p) \/ Choose(p)
        PROVE  Wanes(files, files') /\ Keeps(files, current, current') /\ now' = now
    <2>1. UNCHANGED <<files, current, now>>
      BY <1>4 DEF Command, Read, Count, Compare, Scan, WriteRebuilt, SaveIndexed, Listed, Choose
    <2> QED BY <2>1, SameWanes
  <1>5. ASSUME NEW p \in Procs, NewChat(p) \/ Kill(p) \/ Unindexed(p)
        PROVE  Wanes(files, files') /\ Keeps(files, current, current') /\ now' = now
    <2>1. UNCHANGED <<files, now>>
      BY <1>5 DEF NewChat, Kill, Unindexed
    <2>2. \A r \in Procs : current'[r] = None \/ current'[r] = current[r]
      BY <1>5 DEF NewChat, Kill, Unindexed, STypeOK
    <2> QED BY <2>1, <2>2, SameWanes DEF Keeps
  <1>6. ASSUME NEW p \in Procs, Resumed(p) \/ \E i \in Ids : ResumeId(p, i)
        PROVE  Wanes(files, files') /\ Keeps(files, current, current') /\ now' = now
    <2>1. UNCHANGED <<files, now>>
      BY <1>6 DEF Resumed, ResumeId
    <2>2. UNCHANGED current \/ \E q : Opens(p, q)
      BY <1>6 DEF Resumed, ResumeId
    <2> QED BY <2>1, <2>2, SameWanes, OpensKeeps
  <1> QED BY <1>1, <1>2, <1>3, <1>4, <1>5, <1>6 DEF Next

\* What a save makes of the sessions: it adds that its own is of its directory,
\* as it was if it goes on; a new one was of none.
SavedAs(p, s, q, m) ==
    /\ q \in Paths /\ q[2] = s.id /\ s \in [id : Ids, cwd : Dirs]
    /\ m = [cwd |-> s.cwd, mtime |-> now'] /\ m \in Checkpoints
    /\ files' = [files EXCEPT ![q] = m]
    /\ current' = [current EXCEPT ![p] = s]
    /\ \/ s = current[p]
       \/ /\ \A r \in Exists(files) : r[2] # s.id
          /\ \A r \in Procs : current[r] # None => current[r].id # s.id

LEMMA SaveOf ==
    ASSUME STypeOK, NEW p \in Procs, NEW s, NEW q, NEW m, SavedAs(p, s, q, m)
    PROVE  /\ \A i \in Ids, d \in Dirs : Of(i, d, files', current') =>
                 Of(i, d, files, current) \/ (i = s.id /\ d = s.cwd)
           /\ \/ Of(s.id, s.cwd, files, current)
              \/ \A d \in Dirs : ~Of(s.id, d, files, current)
           /\ CanRead(files') = CanRead(files) \cup {q}
           /\ Exists(files') = Exists(files) \cup {q}
  <1>1. m # Bad /\ m # None /\ s # None /\ m.cwd = s.cwd
    BY SessionsAssumption DEF SavedAs
  <1>2. /\ CanRead(files') = CanRead(files) \cup {q}
        /\ Exists(files') = Exists(files) \cup {q}
    BY <1>1 DEF SavedAs, CanRead, Exists, STypeOK
  <1>3. ASSUME NEW i \in Ids, NEW d \in Dirs, Of(i, d, files', current')
        PROVE  Of(i, d, files, current) \/ (i = s.id /\ d = s.cwd)
    <2>1. CASE OfFile(i, d, files')
      <3>1. PICK r \in CanRead(files') : r[2] = i /\ files'[r].cwd = d
        BY <2>1 DEF OfFile
      <3>2. CASE r = q
        BY <1>1, <3>1, <3>2 DEF SavedAs, STypeOK
      <3>3. CASE r # q
        <4>1. r \in CanRead(files) /\ files'[r] = files[r]
          BY <1>2, <3>1, <3>3 DEF SavedAs, STypeOK, CanRead
        <4> QED BY <3>1, <4>1 DEF Of, OfFile
      <3> QED BY <3>2, <3>3
    <2>2. CASE OfProcess(i, d, current')
      BY <2>2 DEF OfProcess, Of, SavedAs, STypeOK
    <2> QED BY <1>3, <2>1, <2>2 DEF Of
  <1>4. \/ Of(s.id, s.cwd, files, current)
        \/ \A d \in Dirs : ~Of(s.id, d, files, current)
    <2>1. CASE s = current[p]
      BY <1>1, <2>1 DEF Of, OfProcess
    <2>2. CASE /\ \A r \in Exists(files) : r[2] # s.id
               /\ \A r \in Procs : current[r] # None => current[r].id # s.id
      BY <2>2 DEF Of, OfProcess, OfFile, CanRead, Exists
    <2> QED BY <2>1, <2>2 DEF SavedAs
  <1> QED BY <1>2, <1>3, <1>4

LEMMA SavesAs ==
    ASSUME STypeOK, NEW p \in Procs, Save(p)
    PROVE  \E s, q, m, c :
              /\ SavedAs(p, s, q, m) /\ now \in Nat /\ now' \in Nat /\ now <= now'
              /\ c = Call("save", [path |-> q, meta |-> m]) /\ c \in Calls
              /\ \/ call' = [call EXCEPT ![p] = c]
                 \/ call' = Stirred([call EXCEPT ![p] = c])
  <1>1. now \in Nat
    BY SessionsAssumption DEF STypeOK
  <1>2. PICK s \in [id : Ids, cwd : Dirs], t \in 1..MaxTime, q \in Paths, m \in Checkpoints, c \in Calls :
              /\ now <= t /\ now' = t
              /\ q = <<dir[p], s.id>> /\ m = [cwd |-> s.cwd, mtime |-> t]
              /\ c = Call("save", [path |-> q, meta |-> m])
              /\ files' = [files EXCEPT ![q] = m]
              /\ current' = [current EXCEPT ![p] = s]
              /\ \/ call' = [call EXCEPT ![p] = c]
                 \/ call' = Stirred([call EXCEPT ![p] = c])
              /\ \/ s = current[p]
                 \/ /\ \A r \in Exists(files) : r[2] # s.id
                    /\ \A r \in Procs : current[r] # None => current[r].id # s.id
    BY Saves
  <1>3. SavedAs(p, s, q, m)
    BY <1>2 DEF SavedAs
  <1>4. now' \in Nat
    BY <1>2, SessionsAssumption
  <1> QED BY <1>1, <1>2, <1>3, <1>4

-----------------------------------------------------------------------------
\* Steady, whether calls are alone or not

LEMMA SteadyInit == Init => Steady
  <1> SUFFICES ASSUME Init PROVE Steady
    OBVIOUS
  <1>1. CanRead(files) = {}
    BY DEF Init, CanRead
  <1>2. OneCwd(files, current)
    BY <1>1 DEF Init, OneCwd, Of, OfFile, OfProcess
  <1>3. NoFuture(files, now)
    BY <1>1 DEF NoFuture
  <1>4. Removers(call)
    BY DEF Init, Removers, Idle, Call
  <1> QED BY <1>2, <1>3, <1>4 DEF Steady

\* Files, sessions and clock.
LEMMA SteadyFiles ==
    ASSUME STypeOK, OneCwd(files, current), NoFuture(files, now), [Next]_svars
    PROVE  OneCwd(files', current') /\ NoFuture(files', now')
  <1>1. CASE \A p \in Procs : ~Save(p)
    <2>1. Wanes(files, files') /\ Keeps(files, current, current') /\ now' = now
      BY <1>1, StepWanes
    <2> QED BY <2>1, OneCwdKept DEF NoFuture, Wanes
  <1>2. ASSUME NEW p \in Procs, Save(p)
        PROVE  OneCwd(files', current') /\ NoFuture(files', now')
    <2>1. PICK s, q, m, c :
              /\ SavedAs(p, s, q, m) /\ now \in Nat /\ now' \in Nat /\ now <= now'
              /\ c = Call("save", [path |-> q, meta |-> m]) /\ c \in Calls
      BY <1>2, SavesAs
    <2>2. OneCwd(files', current')
      BY <2>1, SaveOf DEF OneCwd
    <2>3. ASSUME NEW r \in CanRead(files')
          PROVE  files'[r].mtime <= now'
      <3>1. r \in CanRead(files) \/ r = q
        BY <2>1, SaveOf
      <3>2. CASE r = q
        BY <2>1, <3>2 DEF SavedAs, STypeOK
      <3>3. CASE r # q
        <4>1. r \in CanRead(files) /\ files'[r] = files[r] /\ files[r].mtime <= now
          BY <2>1, <3>1, <3>3 DEF SavedAs, STypeOK, NoFuture, CanRead
        <4>2. files[r].mtime \in Nat
          BY <4>1, ReadableType, Files, SessionsAssumption DEF Checkpoints
        <4> QED BY <2>1, <4>1, <4>2
      <3> QED BY <3>2, <3>3
    <2> QED BY <2>2, <2>3 DEF NoFuture
  <1> QED BY <1>1, <1>2

Remover(c) == c.at \in {"unlink", "rescan", "rewrite"} => c.op \in {"delete", "prune"}

LEMMA StirredSame ==
    ASSUME NEW c \in [Procs -> Calls], NEW p \in Procs
    PROVE  /\ Stirred(c)[p] = [c[p] EXCEPT !.quiet = c[p].quiet /\ c[p].at \in {"idle", "read"}]
           /\ Stirred(c)[p] \in Calls
           /\ Stirred(c)[p].op = c[p].op /\ Stirred(c)[p].at = c[p].at
           /\ Stirred(c)[p].copy = c[p].copy /\ Stirred(c)[p].about = c[p].about
           /\ Stirred(c)[p].todo = c[p].todo
  <1> DEFINE b == c[p].quiet /\ c[p].at \in {"idle", "read"}
  <1>1. Stirred(c)[p] = [c[p] EXCEPT !.quiet = b]
    BY DEF Stirred, Calls
  <1>2. b \in BOOLEAN
    BY DEF Calls
  <1> HIDE DEF b
  <1>3. c[p] \in Calls
    OBVIOUS
  <1>4. /\ Stirred(c)[p] \in Calls
        /\ Stirred(c)[p].op = c[p].op /\ Stirred(c)[p].at = c[p].at
        /\ Stirred(c)[p].copy = c[p].copy /\ Stirred(c)[p].about = c[p].about
        /\ Stirred(c)[p].todo = c[p].todo
    BY <1>1, <1>2, <1>3 DEF Calls
  <1> QED BY <1>1, <1>4 DEF b

LEMMA RemoversOne ==
    ASSUME STypeOK, Removers(call), NEW p \in Procs, NEW d \in Calls, Remover(d),
           \/ call' = [call EXCEPT ![p] = d]
           \/ call' = Stirred([call EXCEPT ![p] = d])
    PROVE  Removers(call')
  <1> DEFINE c == [call EXCEPT ![p] = d]
  <1>1. c \in [Procs -> Calls] /\ \A r \in Procs : Remover(c[r])
    BY DEF STypeOK, Removers, Remover
  <1> HIDE DEF c
  <1>2. CASE call' = c
    BY <1>1, <1>2 DEF Removers, Remover
  <1>3. CASE call' = Stirred(c)
    BY <1>1, <1>3, StirredSame DEF Removers, Remover
  <1> QED BY <1>2, <1>3 DEF c

LEMMA RemoversGo ==
    ASSUME STypeOK, Removers(call), NEW p \in Procs, NEW d, call' = [call EXCEPT ![p] = d],
           \/ d.at \notin {"unlink", "rescan", "rewrite"}
           \/ d.op = call[p].op /\ call[p].at = "rescan"
    PROVE  Removers(call')
  <1>1. call'[p] = d /\ \A r \in Procs : r # p => call'[r] = call[r]
    BY DEF STypeOK
  <1> QED BY <1>1 DEF Removers

LEMMA CallsIn ==
    /\ \A c \in Calls : Call("unindex", c.about) \in Calls
    /\ Call("dir", None) \in Calls /\ Call("any", None) \in Calls /\ Idle \in Calls
  BY EmptyIndexType DEF Call, Calls, Ops, Places, Idle

LEMMA RemoversNext ==
    ASSUME STypeOK, Removers(call), [Next]_svars
    PROVE  Removers(call')
  <1>1. CASE UNCHANGED call
    BY <1>1 DEF Removers
  <1>2. ASSUME NEW q \in Paths, Damage(q)
        PROVE  Removers(call')
    <2>1. call \in [Procs -> Calls] /\ call' = Stirred(call)
      BY <1>2 DEF Damage, STypeOK
    <2> QED BY <2>1, StirredSame DEF Removers
  <1>3. ASSUME NEW p \in Procs, Returns(p)
        PROVE  Removers(call')
    <2>1. Remover(Idle)
      BY DEF Idle, Call, Remover
    <2> QED BY <1>3, <2>1, CallsIn, RemoversOne DEF Returns
  <1>4. ASSUME NEW p \in Procs, NEW op, NEW about, call' = [call EXCEPT ![p] = Call(op, about)]
        PROVE  Removers(call')
    BY <1>4 DEF Removers, STypeOK, Call
  <1>5. ASSUME NEW p \in Procs, Save(p)
        PROVE  Removers(call')
    <2>1. PICK s, q, m, c :
              /\ c = Call("save", [path |-> q, meta |-> m]) /\ c \in Calls
              /\ \/ call' = [call EXCEPT ![p] = c]
                 \/ call' = Stirred([call EXCEPT ![p] = c])
      BY <1>5, SavesAs
    <2>2. Remover(c)
      BY <2>1 DEF Remover, Call
    <2> QED BY <2>1, <2>2, RemoversOne
  <1>6. ASSUME NEW p \in Procs, Read(p) \/ Count(p) \/ Compare(p) \/ Scan(p)
        PROVE  Removers(call')
    <2>1. call[p] \in Calls
      BY DEF STypeOK
    <2>2. CASE Read(p)
      <3> DEFINE d == [call[p] EXCEPT !.at = "count", !.copy = index]
                 e == [call[p] EXCEPT !.at = "scan"]
      <3>1. d.at = "count" /\ e.at = "scan"
        BY <2>1 DEF Calls
      <3>2. call' = [call EXCEPT ![p] = d] \/ call' = [call EXCEPT ![p] = e]
        BY <2>2 DEF Read, Goes
      <3> HIDE DEF d, e
      <3> QED BY <3>1, <3>2, RemoversGo
    <2>3. CASE Count(p)
      <3> DEFINE d == [call[p] EXCEPT !.at = "compare", !.count = Cardinality(Existing)]
      <3>1. d.at = "compare" /\ call' = [call EXCEPT ![p] = d]
        BY <2>1, <2>3 DEF Count, Calls
      <3> HIDE DEF d
      <3> QED BY <3>1, RemoversGo
    <2>4. CASE Compare(p)
      <3>1. PICK a \in {"scan", "loaded"} : call' = [call EXCEPT ![p] = [call[p] EXCEPT !.at = a]]
        BY <2>4 DEF Compare, Goes
      <3> DEFINE d == [call[p] EXCEPT !.at = a]
      <3>2. d.at = a /\ call' = [call EXCEPT ![p] = d]
        BY <2>1, <3>1 DEF Calls
      <3> HIDE DEF d
      <3> QED BY <3>2, RemoversGo
    <2>5. CASE Scan(p)
      <3> DEFINE i == [EmptyIndex EXCEPT !.meta =
                         [q \in Paths |-> IF q \in Readable THEN files[q] ELSE None]]
                 a == IF call[p].at = "scan" THEN "write" ELSE "rewrite"
                 d == [call[p] EXCEPT !.at = a, !.copy = i]
      <3>1. call[p].at \in {"scan", "rescan"} /\ call' = [call EXCEPT ![p] = d]
        BY <2>5 DEF Scan
      <3>2. a = "write" \/ (a = "rewrite" /\ call[p].at = "rescan")
        BY <3>1
      <3> HIDE DEF i, a
      <3>3. d.op = call[p].op /\ d.at = a
        BY <2>1 DEF Calls
      <3> HIDE DEF d
      <3> QED BY <3>1, <3>2, <3>3, RemoversGo
    <2> QED BY <1>6, <2>2, <2>3, <2>4, <2>5
  <1>7. ASSUME NEW p \in Procs, call[p].at = "write", Goes(p, "loaded")
        PROVE  Removers(call')
    BY <1>7 DEF Goes, Removers, STypeOK, Calls
  <1>8. ASSUME NEW p \in Procs, Choose(p)
        PROVE  Removers(call')
    <2>1. CASE ~Returns(p)
      BY <1>8, <2>1 DEF Choose, Loaded, Removers, STypeOK, Calls
    <2> QED BY <1>3, <2>1
  <1>9. ASSUME NEW p \in Procs, NEW q \in Paths, Unlink(p, q)
        PROVE  Removers(call')
    <2>1. CASE q \in Existing
      <3> DEFINE d == Removed(call[p], q)
      <3>1. call' = Stirred([call EXCEPT ![p] = d])
        BY <1>9, <2>1 DEF Unlink
      <3>2. call[p] \in Calls /\ call[p].at = "unlink" /\ call[p].op \in {"delete", "prune"}
        BY <1>9 DEF Unlink, STypeOK, Removers
      <3>3. d \in Calls /\ Remover(d)
        <4>1. CASE call[p].op = "delete"
          BY <3>2, <4>1, CallsIn DEF Removed, Remover, Call
        <4>2. CASE call[p].op = "prune"
          <5>1. d = [call[p] EXCEPT !.todo = call[p].todo \ {q},
                                    !.at = IF call[p].todo = {q} THEN "rescan" ELSE call[p].at]
            BY <3>2, <4>2 DEF Removed, Calls
          <5>2. call[p].todo \ {q} \in SUBSET Paths
            BY <3>2 DEF Calls
          <5> HIDE DEF d
          <5>3. d \in Calls
            BY <3>2, <5>1, <5>2 DEF Calls, Places
          <5>4. d.op = "prune"
            BY <3>2, <4>2, <5>1 DEF Calls
          <5> QED BY <5>3, <5>4 DEF Remover
        <4> QED BY <3>2, <4>1, <4>2
      <3> HIDE DEF d
      <3> QED BY <3>1, <3>3, RemoversOne
    <2>2. CASE q \notin Existing
      BY <1>3, <1>9, <2>2 DEF Unlink
    <2> QED BY <2>1, <2>2
  <1>10. ASSUME NEW p \in Procs, NewChat(p) \/ \E i \in Ids : ResumeId(p, i)
         PROVE  Removers(call')
    BY <1>1, <1>10 DEF NewChat, ResumeId
  <1>11. ASSUME NEW p \in Procs, Kill(p) \/ SaveIndexed(p) \/ Listed(p) \/ Unindexed(p)
         PROVE  Removers(call')
    BY <1>3, <1>11 DEF Kill, SaveIndexed, Listed, Unindexed
  <1>12. ASSUME NEW p \in Procs, Command(p)
         PROVE  Removers(call')
    <2>1. \E op, about : call' = [call EXCEPT ![p] = Call(op, about)]
      BY <1>12 DEF Command
    <2> QED BY <1>4, <2>1
  <1>13. ASSUME NEW p \in Procs, Resumed(p)
         PROVE  Removers(call')
    BY <1>3, <1>4, <1>13 DEF Resumed, Loaded
  <1>14. ASSUME NEW p \in Procs, WriteRebuilt(p)
         PROVE  Removers(call')
    BY <1>3, <1>7, <1>14 DEF WriteRebuilt
  <1>15. CASE Next
    BY <1>2, <1>5, <1>6, <1>8, <1>9, <1>10, <1>11, <1>12, <1>13, <1>14, <1>15 DEF Next
  <1> QED BY <1>1, <1>15 DEF svars

LEMMA SteadyNext == STypeOK /\ Steady /\ [Next]_svars => Steady'
  BY SteadyFiles, RemoversNext DEF Steady

-----------------------------------------------------------------------------
\* Calls that are alone

LEMMA AloneInit == Init => AloneSure
  <1> SUFFICES ASSUME Init, NEW p \in Procs
               PROVE  call[p] = Idle /\ Sure(p, Idle, index, files, current)
    BY DEF Init, AloneSure
  <1>1. call[p] = Idle /\ index = None
    BY DEF Init
  <1> QED BY <1>1, IdleSure

LEMMA IndexKept ==
    ASSUME NEW fs, NEW gs, NEW cur, NEW nxt, NEW i, NEW c, NEW b,
           Wanes(fs, gs), Keeps(fs, cur, nxt), IndexSure(i, fs, cur, c),
           c.op = "save" => b.op = "save" /\ b.about.path = c.about.path,
           \A d \in Dirs, j \in Ids :
              i.last[d] = j =>
                 \/ Pending(d, j, b)
                 \/ /\ ~Pending(d, j, c)
                    /\ \A q \in Exists(fs) : q[2] = j => q \in Exists(gs)
    PROVE  IndexSure(i, gs, nxt, b)
  <1>1. TrueOf(i, gs, b)
    BY TrueKept DEF IndexSure
  <1>2. LastTrue(i.last, gs, nxt, b)
    <2> DEFINE last == i.last
    <2>1. LastTrue(last, fs, cur, c)
      BY DEF IndexSure
    <2> HIDE DEF last
    <2>2. \A d \in Dirs, j \in Ids :
              last[d] = j =>
                 \/ Pending(d, j, b)
                 \/ /\ ~Pending(d, j, c)
                    /\ \A q \in Exists(fs) : q[2] = j => q \in Exists(gs)
      BY DEF last
    <2>3. LastTrue(last, gs, nxt, b)
      BY <2>1, <2>2, LastKept
    <2> QED BY <2>3 DEF last
  <1> QED BY <1>1, <1>2 DEF IndexSure

\* The same while no file changes.
LEMMA IndexStays ==
    ASSUME NEW fs, NEW cur, NEW nxt, NEW i, NEW c, NEW b,
           Keeps(fs, cur, nxt), IndexSure(i, fs, cur, c),
           c.op = "save" => b.op = "save" /\ b.about.path = c.about.path,
           \A d \in Dirs, j \in Ids : Pending(d, j, c) => Pending(d, j, b)
    PROVE  IndexSure(i, fs, nxt, b)
  <1>1. Wanes(fs, fs)
    BY DEF Wanes
  <1> QED BY <1>1, IndexKept

\* A process without a call leaves its session or opens another.
LEMMA AloneChat ==
    ASSUME STypeOK, AloneSure, UNCHANGED <<files, index, dir, call, alone>>,
           Keeps(files, current, current'),
           \A p \in Procs : call[p] # Idle => current'[p] = current[p]
    PROVE  AloneSure'
  <1> SUFFICES ASSUME alone, NEW p \in Procs
               PROVE  /\ call[p] # Idle => Only(p)
                      /\ Only(p) => Sure(p, call[p], index, files, current')
    BY DEF AloneSure, Only, Sure
  <1>1. call[p] # Idle => Only(p)
    BY DEF AloneSure
  <1>2. ASSUME Only(p)
        PROVE  Sure(p, call[p], index, files, current')
    <2>1. Sure(p, call[p], index, files, current)
      BY <1>2 DEF AloneSure
    <2>2. \A i : IndexSure(i, files, current, call[p]) => IndexSure(i, files, current', call[p])
      BY IndexStays
    <2>3. SaveSure(call[p], current'[p], files)
      <3>1. CASE call[p] = Idle
        BY <3>1 DEF SaveSure, Idle, Call
      <3>2. CASE call[p] # Idle
        BY <2>1, <3>2 DEF Sure
      <3> QED BY <3>1, <3>2
    <2> QED BY <2>1, <2>2, <2>3 DEF Sure
  <1> QED BY <1>1, <1>2

LEMMA AloneDamage ==
    ASSUME STypeOK, AloneSure, NEW q \in Paths, Damage(q)
    PROVE  AloneSure'
  <1> SUFFICES ASSUME alone, NEW p \in Procs
               PROVE  /\ Stirred(call)[p] # Idle => \A r \in Procs : r # p => Stirred(call)[r] = Idle
                      /\ (\A r \in Procs : r # p => Stirred(call)[r] = Idle)
                            => Sure(p, Stirred(call)[p], index, files', current)
    BY DEF AloneSure, Only, Damage, Sure
  <1>1. call \in [Procs -> Calls]
    BY DEF STypeOK
  <1>2. \A r \in Procs : call[r] = Idle <=> Stirred(call)[r] = Idle
    <2> SUFFICES ASSUME NEW r \in Procs, Stirred(call)[r] = Idle
                 PROVE  call[r] = Idle
      BY <1>1, StirredIdle
    <2>1. Stirred(call)[r].at = call[r].at
      BY <1>1, StirredSame
    <2>2. call[r].at = "idle"
      BY <2>1 DEF Idle, Call
    <2>3. /\ Idle.op = "none" /\ Idle.copy = EmptyIndex /\ Idle.about = None /\ Idle.todo = {}
          /\ Idle.count = 0 /\ Idle.quiet = TRUE /\ Idle.at = "idle"
      BY DEF Idle, Call
    <2>4. call[r] \in Calls /\ Idle \in Calls
      BY <1>1, CallsIn
    <2>5. /\ call[r].op = Idle.op /\ call[r].copy = Idle.copy /\ call[r].about = Idle.about
          /\ call[r].todo = Idle.todo /\ call[r].at = Idle.at
      BY <1>1, <2>2, <2>3, StirredSame
    <2>6. call[r].count = Idle.count /\ call[r].quiet = Idle.quiet
      <3> DEFINE b == call[r].quiet /\ call[r].at \in {"idle", "read"}
      <3>1. Stirred(call)[r] = [call[r] EXCEPT !.quiet = b]
        BY <1>1, StirredSame
      <3>2. b = call[r].quiet
        BY <2>2, <2>4 DEF Calls
      <3> HIDE DEF b
      <3>3. Idle = [call[r] EXCEPT !.quiet = b]
        BY <3>1
      <3>4. Idle.count = call[r].count /\ Idle.quiet = b
        BY <2>4, <3>3 DEF Calls
      <3> QED BY <3>2, <3>4
    <2> QED BY <2>4, <2>5, <2>6 DEF Calls
  <1>3. ASSUME Stirred(call)[p] # Idle
        PROVE  \A r \in Procs : r # p => Stirred(call)[r] = Idle
    BY <1>2, <1>3 DEF AloneSure, Only
  <1>4. ASSUME \A r \in Procs : r # p => Stirred(call)[r] = Idle
        PROVE  Sure(p, Stirred(call)[p], index, files', current)
    <2> DEFINE c == call[p]
               b == Stirred(call)[p]
    <2>1. Sure(p, c, index, files, current)
      BY <1>2, <1>4 DEF AloneSure, Only
    <2>2. /\ Wanes(files, files') /\ Exists(files') = Exists(files)
          /\ q \in Exists(files') \ CanRead(files')
      BY DamageWanes
    <2>3. /\ b.op = c.op /\ b.at = c.at /\ b.copy = c.copy /\ b.about = c.about /\ b.todo = c.todo
      BY <1>1, StirredSame
    <2>4. Keeps(files, current, current)
      BY SameWanes
    <2> HIDE DEF b, c
    <2>5. \A d \in Dirs, j \in Ids : Pending(d, j, c) <=> Pending(d, j, b)
      BY <2>3 DEF Pending, Removes
    <2>6. \A i : IndexSure(i, files, current, c) => IndexSure(i, files', current, b)
      BY <2>2, <2>3, <2>4, <2>5, IndexKept
    <2>7. SaveSure(b, current[p], files')
      <3> SUFFICES ASSUME b.op = "save"
                   PROVE  /\ files'[b.about.path] \in {b.about.meta, Bad}
                          /\ \A r \in CanRead(files') : files'[r].mtime <= b.about.meta.mtime
                          /\ current[p] = [id |-> b.about.path[2], cwd |-> b.about.meta.cwd]
        BY DEF SaveSure
      <3>1. /\ files[b.about.path] \in {b.about.meta, Bad}
            /\ \A r \in CanRead(files) : files[r].mtime <= b.about.meta.mtime
            /\ current[p] = [id |-> b.about.path[2], cwd |-> b.about.meta.cwd]
        BY <2>1, <2>3 DEF Sure, SaveSure
      <3>2. b.about.path \in Paths
        BY <2>3 DEF STypeOK, CallOK, Saved, c
      <3>3. files'[b.about.path] \in {files[b.about.path], Bad}
        BY <3>2 DEF Damage, STypeOK
      <3> QED BY <2>2, <3>1, <3>3 DEF Wanes
    <2>8. RemovalSure(b, files')
      BY <2>1, <2>2, <2>3 DEF Sure, RemovalSure, Wanes
    <2>9. ResumeSure(b, dir[p], files')
      BY <2>2 DEF ResumeSure
    <2>10. IndexSure(b.copy, files', current, b)
      BY <2>1, <2>3, <2>6 DEF Sure
    <2>11. index # None => IndexSure(index, files', current, b)
      BY <2>1, <2>6 DEF Sure
    <2> QED BY <2>7, <2>8, <2>9, <2>10, <2>11 DEF Sure, b
  <1> QED BY <1>3, <1>4

\* A call begins, and knows nothing yet.
LEMMA CallSure ==
    ASSUME NEW p, NEW op \in {"list", "last", "delete", "prune", "dir", "any", "unindex"}, NEW about,
           NEW ix, NEW fs, NEW cur, ix # None => IndexSure(ix, fs, cur, Call(op, about)),
           op = "any" /\ Exists(fs) \subseteq CanRead(fs) => \A q \in Exists(fs) : q[1] # dir[p]
    PROVE  Sure(p, Call(op, about), ix, fs, cur)
  <1> DEFINE c == Call(op, about)
  <1>1. c.op = op /\ c.at = "read" /\ c.todo = {} /\ c.copy = EmptyIndex /\ c.quiet
    BY DEF Call
  <1> HIDE DEF c
  <1>2. SaveSure(c, cur[p], fs) /\ RemovalSure(c, fs) /\ ResumeSure(c, dir[p], fs)
    BY <1>1 DEF SaveSure, RemovalSure, ResumeSure
  <1>3. IndexSure(c.copy, fs, cur, c)
    BY <1>1, EmptySure
  <1> QED BY <1>2, <1>3 DEF Sure, c

LEMMA NonePending == \A d, i : ~Pending(d, i, Idle)
  BY DEF Pending, Removes, Idle, Call

LEMMA AloneCommand ==
    ASSUME STypeOK, AloneSure, NEW p \in Procs, Command(p), alone'
    PROVE  AloneSure'
  <1>1. PICK c \in {Call("list", None), Call("last", None)}
                     \cup {Call("delete", [id |-> i]) : i \in Ids}
                     \cup {Call("prune", [cutoff |-> t]) : t \in 1..now} :
          call' = [call EXCEPT ![p] = c]
    BY DEF Command
  <1>2. Only(p) /\ Sure(p, Idle, index, files, current)
    BY BeginsAlone DEF Command
  <1>3. UNCHANGED <<files, index, dir, current>>
    BY DEF Command
  <1>4. ASSUME NEW op \in {"list", "last", "delete", "prune"}, NEW about
        PROVE  Sure(p, Call(op, about), index', files', current')
    <2>1. index # None => IndexSure(index, files, current, Idle)
      BY <1>2 DEF Sure
    <2>2. Idle.op # "save"
      BY DEF Idle, Call
    <2>3. index # None => IndexSure(index, files, current, Call(op, about))
      BY <2>1, <2>2, SameWanes, NonePending, IndexStays
    <2>4. Sure(p, Call(op, about), index, files, current)
      BY <2>3, CallSure
    <2> QED BY <1>3, <2>4
  <1>5. Sure(p, c, index', files', current')
    <2> HIDE DEF Call
    <2> QED BY <1>1, <1>4
  <1> QED BY <1>1, <1>2, <1>3, <1>5, OneStep

\* A save makes its file the newest, and what was used last in its directory
\* pending.
LEMMA SaveIndex ==
    ASSUME STypeOK, Steady, NEW p \in Procs, NEW s, NEW q, NEW m, SavedAs(p, s, q, m),
           NEW c, c.op = "save", c.about.path = q, c.about.meta = m,
           NEW i, IndexSure(i, files, current, Idle)
    PROVE  IndexSure(i, files', current', c)
  <1>1. TrueOf(i, files', c)
    <2> SUFFICES ASSUME NEW r \in CanRead(files'), r # q
                 PROVE  i.meta[r] = None \/ i.meta[r] = files'[r]
      BY DEF TrueOf
    <2>1. r \in CanRead(files) /\ files'[r] = files[r]
      BY DEF SavedAs, CanRead, STypeOK
    <2>2. Idle.op # "save"
      BY DEF Idle, Call
    <2> QED BY <2>1, <2>2 DEF IndexSure, TrueOf
  <1>2. ASSUME NEW d \in Dirs, NEW j \in Ids, i.last[d] = j
        PROVE  /\ \A e \in Dirs : Of(j, e, files', current') => e = d
               /\ Fresh(d, j, files') \/ Pending(d, j, c)
    <2>1. \A e \in Dirs : Of(j, e, files, current) => e = d
      BY <1>2 DEF IndexSure, LastTrue
    <2>2. Fresh(d, j, files)
      BY <1>2, NonePending DEF IndexSure, LastTrue
    <2>3. PICK r \in Exists(files) : /\ r[2] = j
                                     /\ r \in CanRead(files) =>
                                          \A x \in CanRead(files) :
                                             files[x].cwd = d => files[x].mtime <= files[r].mtime
      BY <2>2 DEF Fresh
    <2>4. s.cwd \in Dirs /\ m.cwd = s.cwd /\ q[2] = s.id
      BY DEF SavedAs
    <2>5. j = s.id => Of(s.id, s.cwd, files, current)
      <3> SUFFICES ASSUME j = s.id, s # current[p] PROVE FALSE
        <4>1. s # None
          BY SessionsAssumption DEF SavedAs
        <4> QED BY <4>1 DEF Of, OfProcess
      <3> QED BY <2>3 DEF SavedAs
    <2>6. \A e \in Dirs : Of(j, e, files', current') => e = d
      BY <2>1, <2>4, <2>5, SaveOf
    <2>7. CASE s.cwd = d
      BY <2>4, <2>6, <2>7 DEF Pending
    <2>8. CASE s.cwd # d
      <3>1. j # s.id
        BY <2>1, <2>4, <2>5, <2>8
      <3>2. r # q /\ r \in Paths /\ files'[r] = files[r] /\ r \in Exists(files')
        BY <2>3, <2>4, <3>1 DEF SavedAs, Exists, STypeOK
      <3>3. r \in CanRead(files') => r \in CanRead(files)
        BY <3>2 DEF CanRead
      <3>4. ASSUME NEW x \in CanRead(files'), files'[x].cwd = d
            PROVE  x \in CanRead(files) /\ files'[x] = files[x]
        <4>1. x # q
          BY <2>4, <2>8, <3>4 DEF SavedAs, STypeOK
        <4> QED BY <4>1 DEF CanRead, SavedAs, STypeOK
      <3>5. Fresh(d, j, files')
        BY <2>3, <3>2, <3>3, <3>4 DEF Fresh
      <3> QED BY <2>6, <3>5
    <2> QED BY <2>7, <2>8
  <1>3. LastTrue(i.last, files', current', c)
    BY <1>2 DEF LastTrue
  <1> QED BY <1>1, <1>3 DEF IndexSure

LEMMA AloneSave ==
    ASSUME STypeOK, Steady, Steady', AloneSure, NEW p \in Procs, Save(p), alone'
    PROVE  AloneSure'
  <1>1. PICK s, q, m, c :
              /\ SavedAs(p, s, q, m) /\ now \in Nat /\ now' \in Nat /\ now <= now'
              /\ c = Call("save", [path |-> q, meta |-> m]) /\ c \in Calls
              /\ \/ call' = [call EXCEPT ![p] = c]
                 \/ call' = Stirred([call EXCEPT ![p] = c])
    BY SavesAs
  <1>2. Only(p) /\ Sure(p, Idle, index, files, current)
    BY BeginsAlone DEF Save
  <1>3. UNCHANGED <<index, dir>>
    BY DEF Save
  <1>4. /\ c.op = "save" /\ c.at = "read" /\ c.about.path = q /\ c.about.meta = m
        /\ c.todo = {} /\ c.copy = EmptyIndex
    BY <1>1 DEF Call
  <1> DEFINE saving == [call EXCEPT ![p] = c]
  <1>5. saving \in [Procs -> Calls] /\ saving[p] = c /\ \A r \in Procs : r # p => saving[r] = Idle
    BY <1>1, <1>2 DEF STypeOK, Only
  <1>6. PICK d : /\ call'[p] = d /\ \A r \in Procs : r # p => call'[r] = Idle
                 /\ d.op = "save" /\ d.at = "read" /\ d.about = c.about
                 /\ d.todo = {} /\ d.copy = EmptyIndex
    <2> HIDE DEF saving
    <2>1. CASE call' = saving
      BY <1>4, <1>5, <2>1
    <2>2. CASE call' = Stirred(saving)
      <3>1. \A r \in Procs : r # p => call'[r] = Idle
        BY <1>5, <2>2, StirredIdle
      <3>2. /\ call'[p].op = saving[p].op /\ call'[p].at = saving[p].at
            /\ call'[p].about = saving[p].about
            /\ call'[p].todo = saving[p].todo /\ call'[p].copy = saving[p].copy
        BY <1>5, <2>2, StirredSame
      <3> QED BY <1>4, <1>5, <3>1, <3>2
    <2> QED BY <1>1, <2>1, <2>2 DEF saving
  <1>7. index # None => IndexSure(index, files', current', d)
    BY <1>1, <1>2, <1>4, <1>6, SaveIndex DEF Sure
  <1>8. IndexSure(d.copy, files', current', d)
    BY <1>6, EmptySure
  <1>9. SaveSure(d, current'[p], files')
    <2>1. files'[q] = m /\ m.mtime = now' /\ current'[p] = s
      BY <1>1 DEF SavedAs, STypeOK
    <2>2. s = [id |-> q[2], cwd |-> m.cwd]
      BY <1>1 DEF SavedAs
    <2>3. \A r \in CanRead(files') : files'[r].mtime <= now'
      BY DEF Steady, NoFuture
    <2> QED BY <1>4, <1>6, <2>1, <2>2, <2>3 DEF SaveSure
  <1>10. RemovalSure(d, files') /\ ResumeSure(d, dir[p], files')
    BY <1>6 DEF RemovalSure, ResumeSure
  <1>11. Sure(p, d, index', files', current')
    BY <1>3, <1>7, <1>8, <1>9, <1>10 DEF Sure
  <1> QED BY <1>2, <1>3, <1>6, <1>11, AloneStep

\* What a call c that goes on as b has to know anew: no file and no session has
\* changed, and the call is about the same.
LEMMA SureOn ==
    ASSUME NEW p, NEW c, NEW b, NEW ix, NEW jx, NEW fs, NEW cur, Sure(p, c, ix, fs, cur),
           b.op = c.op, b.about = c.about, b.todo = c.todo, b.quiet = c.quiet,
           jx = ix \/ IndexSure(jx, fs, cur, c),
           b.copy = c.copy \/ IndexSure(b.copy, fs, cur, c),
           ~Removes(c) \/ Removes(b),
           b.at = "rewrite" => b.copy.last = EmptyIndex.last
    PROVE  Sure(p, b, jx, fs, cur)
  <1>1. \A d, i : Pending(d, i, c) => Pending(d, i, b)
    BY DEF Pending
  <1>2. \A i : IndexSure(i, fs, cur, c) => IndexSure(i, fs, cur, b)
    <2>1. Keeps(fs, cur, cur)
      BY DEF Keeps
    <2> QED BY <1>1, <2>1, IndexStays
  <1>3. jx # None => IndexSure(jx, fs, cur, b)
    BY <1>2 DEF Sure
  <1>4. IndexSure(b.copy, fs, cur, b)
    BY <1>2 DEF Sure
  <1>5. SaveSure(b, cur[p], fs)
    BY DEF Sure, SaveSure
  <1>6. RemovalSure(b, fs) /\ ResumeSure(b, dir[p], fs)
    BY DEF Sure, RemovalSure, ResumeSure
  <1> QED BY <1>3, <1>4, <1>5, <1>6 DEF Sure

\* A rebuilt index is true, whatever there was before.
LEMMA RebuiltSure ==
    ASSUME NEW i, i = [EmptyIndex EXCEPT !.meta =
                         [q \in Paths |-> IF q \in Readable THEN files[q] ELSE None]],
           NEW cur, NEW c
    PROVE  IndexSure(i, files, cur, c) /\ i.last = EmptyIndex.last
  <1>1. i.last = EmptyIndex.last /\ i.meta = [q \in Paths |-> IF q \in Readable THEN files[q] ELSE None]
    BY DEF EmptyIndex
  <1>2. TrueOf(i, files, c)
    BY <1>1, Files DEF TrueOf, CanRead
  <1>3. LastTrue(i.last, files, cur, c)
    BY <1>1, EmptySure DEF IndexSure
  <1> QED BY <1>1, <1>2, <1>3 DEF IndexSure

LEMMA AloneLoad ==
    ASSUME STypeOK, Steady, AloneSure, alone', NEW p \in Procs,
           Read(p) \/ Count(p) \/ Compare(p) \/ Scan(p) \/ WriteRebuilt(p)
    PROVE  AloneSure'
  <1> DEFINE c == call[p]
  <1>1. /\ UNCHANGED <<files, dir, current, alone>> /\ c \in Calls
        /\ c.at \notin {"idle", "unlink"}
    BY DEF Read, Count, Compare, Scan, WriteRebuilt, STypeOK
  <1>2. Only(p) /\ Sure(p, c, index, files, current)
    BY <1>1, UnderWay, NotIdle
  <1>3. ASSUME NEW d, call' = [call EXCEPT ![p] = d], Sure(p, d, index', files, current)
        PROVE  AloneSure'
    BY <1>1, <1>2, <1>3, OneStep
  <1> HIDE DEF c
  <1>4. CASE Read(p)
    <2>1. CASE index = None
      <3> DEFINE d == [c EXCEPT !.at = "scan"]
      <3>1. call' = [call EXCEPT ![p] = d] /\ index' = index /\ c.at = "read"
        BY <1>4, <2>1 DEF Read, Goes, c
      <3>2. /\ d.op = c.op /\ d.about = c.about /\ d.todo = c.todo /\ d.quiet = c.quiet
            /\ d.copy = c.copy /\ d.at = "scan"
        BY <1>1 DEF Calls
      <3> HIDE DEF d
      <3>3. ~Removes(c)
        BY <3>1 DEF Removes
      <3>4. Sure(p, d, index', files, current)
        BY <1>2, <3>1, <3>2, <3>3, SureOn
      <3> QED BY <1>3, <3>1, <3>4
    <2>2. CASE index # None
      <3> DEFINE d == [c EXCEPT !.at = "count", !.copy = index]
      <3>1. call' = [call EXCEPT ![p] = d] /\ index' = index /\ c.at = "read"
        BY <1>4, <2>2 DEF Read, c
      <3>2. /\ d.op = c.op /\ d.about = c.about /\ d.todo = c.todo /\ d.quiet = c.quiet
            /\ d.copy = index /\ d.at = "count"
        BY <1>1 DEF Calls
      <3> HIDE DEF d
      <3>3. ~Removes(c) /\ IndexSure(index, files, current, c)
        BY <1>2, <2>2, <3>1 DEF Removes, Sure
      <3>4. Sure(p, d, index', files, current)
        BY <1>2, <3>1, <3>2, <3>3, SureOn
      <3> QED BY <1>3, <3>1, <3>4
    <2> QED BY <2>1, <2>2
  <1>5. CASE Count(p)
    <2> DEFINE d == [c EXCEPT !.at = "compare", !.count = Cardinality(Existing)]
    <2>1. call' = [call EXCEPT ![p] = d] /\ index' = index /\ c.at = "count"
      BY <1>5 DEF Count, c
    <2>2. /\ d.op = c.op /\ d.about = c.about /\ d.todo = c.todo /\ d.quiet = c.quiet
          /\ d.copy = c.copy /\ d.at = "compare"
      BY <1>1 DEF Calls
    <2> HIDE DEF d
    <2>3. ~Removes(c)
      BY <2>1 DEF Removes
    <2>4. Sure(p, d, index', files, current)
      BY <1>2, <2>1, <2>2, <2>3, SureOn
    <2> QED BY <1>3, <2>1, <2>4
  <1>6. CASE Compare(p)
    <2>1. PICK a \in {"scan", "loaded"} : call' = [call EXCEPT ![p] = [c EXCEPT !.at = a]]
      BY <1>6 DEF Compare, Goes, c
    <2> DEFINE d == [c EXCEPT !.at = a]
    <2>2. call' = [call EXCEPT ![p] = d] /\ index' = index /\ c.at = "compare"
      BY <1>6, <2>1 DEF Compare, c
    <2>3. /\ d.op = c.op /\ d.about = c.about /\ d.todo = c.todo /\ d.quiet = c.quiet
          /\ d.copy = c.copy /\ d.at = a
      BY <1>1 DEF Calls
    <2> HIDE DEF d
    <2>4. ~Removes(c)
      BY <2>2 DEF Removes
    <2>5. Sure(p, d, index', files, current)
      BY <1>2, <2>2, <2>3, <2>4, SureOn
    <2> QED BY <1>3, <2>2, <2>5
  <1>7. CASE Scan(p)
    <2> DEFINE i == [EmptyIndex EXCEPT !.meta =
                       [q \in Paths |-> IF q \in Readable THEN files[q] ELSE None]]
               a == IF c.at = "scan" THEN "write" ELSE "rewrite"
               d == [c EXCEPT !.at = a, !.copy = i]
    <2>1. call' = [call EXCEPT ![p] = d] /\ index' = index /\ c.at \in {"scan", "rescan"}
      BY <1>7 DEF Scan, c
    <2>2. IndexSure(i, files, current, c) /\ i.last = EmptyIndex.last
      BY RebuiltSure
    <2>3. (a = "write" /\ c.at = "scan") \/ (a = "rewrite" /\ c.at = "rescan")
      BY <2>1
    <2> HIDE DEF i, a
    <2>4. /\ d.op = c.op /\ d.about = c.about /\ d.todo = c.todo /\ d.quiet = c.quiet
          /\ d.copy = i /\ d.at = a
      BY <1>1 DEF Calls
    <2> HIDE DEF d
    <2>5. ~Removes(c) \/ Removes(d)
      BY <2>3, <2>4 DEF Removes
    <2>6. Sure(p, d, index', files, current)
      BY <1>2, <2>1, <2>2, <2>4, <2>5, SureOn
    <2> QED BY <1>3, <2>1, <2>6
  <1>8. CASE WriteRebuilt(p)
    <2>1. CASE c.at = "write" /\ Goes(p, "loaded")
      <3> DEFINE d == [c EXCEPT !.at = "loaded"]
      <3>1. call' = [call EXCEPT ![p] = d] /\ index' = c.copy
        BY <1>8, <2>1 DEF WriteRebuilt, Goes, c
      <3>2. /\ d.op = c.op /\ d.about = c.about /\ d.todo = c.todo /\ d.quiet = c.quiet
            /\ d.copy = c.copy /\ d.at = "loaded"
        BY <1>1 DEF Calls
      <3> HIDE DEF d
      <3>3. ~Removes(c) /\ IndexSure(index', files, current, c)
        BY <1>2, <2>1, <3>1 DEF Removes, Sure
      <3>4. Sure(p, d, index', files, current)
        BY <1>2, <3>2, <3>3, SureOn
      <3> QED BY <1>3, <3>1, <3>4
    <2>2. CASE c.at = "rewrite" /\ Returns(p)
      <3>1. call' = [call EXCEPT ![p] = Idle] /\ index' = c.copy
        BY <1>8, <2>2 DEF WriteRebuilt, Returns, c
      <3>2. c.op # "save"
        BY <2>2 DEF Steady, Removers, c
      <3>3. TrueOf(c.copy, files, c) /\ c.copy.last = EmptyIndex.last
        BY <1>2, <2>2 DEF Sure, IndexSure, RemovalSure
      <3>4. TrueOf(c.copy, files, Idle)
        BY <3>2, <3>3 DEF TrueOf
      <3>5. LastTrue(c.copy.last, files, current, Idle)
        BY <3>3, EmptySure DEF IndexSure
      <3>6. Sure(p, Idle, index', files, current)
        BY <3>1, <3>4, <3>5, IdleSure DEF IndexSure
      <3> QED BY <1>3, <3>1, <3>6
    <2> QED BY <1>8, <2>1, <2>2 DEF WriteRebuilt, c
  <1> QED BY <1>4, <1>5, <1>6, <1>7, <1>8

\* A save that is indexed: its session was used last in its directory, and is
\* the newest there.
LEMMA IndexedSure ==
    ASSUME STypeOK, Steady, NEW p \in Procs, NEW c, c = call[p], c.op = "save",
           Sure(p, c, index, files, current),
           NEW i, i = Upsert(c.copy, c.about.path, c.about.meta)
    PROVE  IndexSure(i, files, current, Idle)
  <1> DEFINE q == c.about.path
             m == c.about.meta
             x == c.copy
  <1>1. q \in Paths /\ m \in Checkpoints /\ m.cwd \in Dirs /\ q[2] \in Ids /\ x \in Indexes
    <2>1. c.about \in Saved /\ c \in Calls
      BY DEF STypeOK, CallOK
    <2>2. q \in Paths /\ m \in Checkpoints /\ x \in Indexes
      BY <2>1 DEF Saved, Calls
    <2> HIDE DEF q, m, x
    <2> QED BY <2>2 DEF Paths, Checkpoints
  <1>2. /\ files[q] \in {m, Bad}
        /\ \A r \in CanRead(files) : files[r].mtime <= m.mtime
        /\ current[p] = [id |-> q[2], cwd |-> m.cwd]
    BY DEF Sure, SaveSure
  <1>3. TrueOf(x, files, c) /\ LastTrue(x.last, files, current, c)
    BY DEF Sure, IndexSure
  <1> HIDE DEF q, m, x
  <1>4. i = Upsert(x, q, m)
    BY DEF q, m, x
  <1>5. /\ i.meta = [r \in Paths |-> IF r = q THEN m ELSE IF r[2] = q[2] THEN None ELSE x.meta[r]]
        /\ i.last = [x.last EXCEPT ![m.cwd] = q[2]]
    BY <1>4 DEF Upsert
  <1>6. TrueOf(i, files, Idle)
    <2> SUFFICES ASSUME NEW r \in CanRead(files)
                 PROVE  i.meta[r] = None \/ i.meta[r] = files[r]
      BY DEF TrueOf
    <2>1. CASE r = q
      BY <1>2, <1>5, <2>1 DEF CanRead
    <2>2. CASE r # q
      BY <1>3, <1>5, <2>2 DEF TrueOf, CanRead, q
    <2> QED BY <2>1, <2>2
  <1>7. ASSUME NEW d \in Dirs, NEW j \in Ids, i.last[d] = j
        PROVE  (\A e \in Dirs : Of(j, e, files, current) => e = d) /\ Fresh(d, j, files)
    <2>1. CASE d = m.cwd
      <3>1. j = q[2]
        BY <1>1, <1>5, <1>7, <2>1 DEF Indexes
      <3>2. Of(j, d, files, current)
        <4>1. current[p] # None
          BY <1>1, <1>2, SessionsAssumption
        <4> QED BY <1>2, <2>1, <3>1, <4>1 DEF Of, OfProcess
      <3>3. \A e \in Dirs : Of(j, e, files, current) => e = d
        BY <3>2 DEF Steady, OneCwd
      <3>4. q \in Exists(files) /\ (q \in CanRead(files) => files[q] = m)
        BY <1>1, <1>2, SessionsAssumption DEF Exists, CanRead
      <3> QED BY <1>2, <3>1, <3>3, <3>4 DEF Fresh
    <2>2. CASE d # m.cwd
      <3>1. x.last[d] = j
        BY <1>1, <1>5, <1>7, <2>2 DEF Indexes
      <3>2. ~Pending(d, j, c)
        BY <2>2 DEF Pending, Removes, m
      <3> QED BY <1>3, <3>1, <3>2 DEF LastTrue
    <2> QED BY <2>1, <2>2
  <1>8. LastTrue(i.last, files, current, Idle)
    BY <1>7 DEF LastTrue
  <1> QED BY <1>6, <1>8 DEF IndexSure

\* An entry is taken out of the index.
LEMMA UnindexedSure ==
    ASSUME NEW fs, NEW cur, NEW nxt, Keeps(fs, cur, nxt), NEW c, c.op = "unindex", NEW x, x \in Indexes,
           IndexSure(x, fs, cur, c), NEW i,
           i = [meta |-> [q \in Paths |-> IF q[2] = c.about.id THEN None ELSE x.meta[q]],
                last |-> [d \in Dirs |-> IF x.last[d] = c.about.id THEN None ELSE x.last[d]]]
    PROVE  IndexSure(i, fs, nxt, Idle)
  <1>1. TrueOf(i, fs, Idle)
    BY DEF IndexSure, TrueOf, CanRead
  <1>2. ASSUME NEW d \in Dirs, NEW j \in Ids, i.last[d] = j
        PROVE  (\A e \in Dirs : Of(j, e, fs, nxt) => e = d) /\ Fresh(d, j, fs)
    <2>1. i.last[d] = IF x.last[d] = c.about.id THEN None ELSE x.last[d]
      OBVIOUS
    <2>2. x.last[d] = j /\ c.about.id # j
      BY <1>2, <2>1, SessionsAssumption
    <2>3. ~Pending(d, j, c)
      BY <2>2 DEF Pending, Removes
    <2>4. (\A e \in Dirs : Of(j, e, fs, cur) => e = d) /\ Fresh(d, j, fs)
      BY <2>2, <2>3 DEF IndexSure, LastTrue
    <2>5. Wanes(fs, fs)
      BY DEF Wanes
    <2> QED BY <2>4, <2>5, OfKept
  <1>3. LastTrue(i.last, fs, nxt, Idle)
    BY <1>2 DEF LastTrue
  <1> QED BY <1>1, <1>3 DEF IndexSure

\* A call that removes nothing, or has not begun to, ends.
LEMMA EndsSure ==
    ASSUME NEW p, NEW c, NEW ix, NEW fs, NEW cur, NEW nxt, Sure(p, c, ix, fs, cur),
           Keeps(fs, cur, nxt), c.op \notin {"save", "unindex"}, ~Removes(c)
    PROVE  Sure(p, Idle, ix, fs, nxt) /\ (ix # None => \A b : b.op # "save" => IndexSure(ix, fs, nxt, b))
  <1>1. ASSUME ix # None, NEW b PROVE IndexSure(ix, fs, nxt, b)
    <2>1. \A d, i : ~Pending(d, i, c)
      BY DEF Pending
    <2> QED BY <1>1, <2>1, IndexStays DEF Sure
  <1> QED BY <1>1, IdleSure

\* A resume that has loaded an index while all files could be read has them all
\* in it, as they are.
LEMMA KnowsAll ==
    ASSUME STypeOK, LoadSound, NEW p \in Procs, NEW c, c = call[p],
           Sure(p, c, index, files, current), c.op \in {"last", "dir", "any"}, c.at = "loaded",
           Exists(files) \subseteq CanRead(files)
    PROVE  /\ Shown(c.copy) = Existing /\ Existing = Readable
           /\ \A q \in Existing : c.copy.meta[q] = files[q]
  <1>1. c.quiet
    BY DEF Sure, ResumeSure
  <1>2. \A q \in Readable : c.copy.meta[q] # None
    BY <1>1 DEF LoadSound, Sound
  <1>3. Existing = Readable
    BY Files DEF Readable
  <1>4. \A q \in Readable : c.copy.meta[q] = files[q]
    BY <1>2, Files DEF Sure, IndexSure, TrueOf
  <1> QED BY <1>2, <1>3, <1>4 DEF Shown

LEMMA AloneUse ==
    ASSUME STypeOK, Steady, LoadSound, AloneSure, alone', NEW p \in Procs,
           SaveIndexed(p) \/ Listed(p) \/ Choose(p) \/ Unindexed(p) \/ Resumed(p)
    PROVE  AloneSure'
  <1> DEFINE c == call[p]
  <1>1. /\ UNCHANGED <<files, dir, alone>> /\ c \in Calls /\ c.at = "loaded" /\ CallOK(c, dir[p])
    BY DEF SaveIndexed, Listed, Choose, Unindexed, Resumed, Loaded, STypeOK
  <1>2. Only(p) /\ Sure(p, c, index, files, current)
    BY <1>1, UnderWay, NotIdle
  <1>3. ASSUME NEW d, call' = [call EXCEPT ![p] = d], Sure(p, d, index', files, current')
        PROVE  AloneSure'
    BY <1>1, <1>2, <1>3, OneStep
  <1>4. ~Removes(c)
    BY <1>1 DEF Removes
  <1> HIDE DEF c
  <1>5. CASE SaveIndexed(p)
    <2>1. /\ c.op = "save" /\ index' = Upsert(c.copy, c.about.path, c.about.meta)
          /\ call' = [call EXCEPT ![p] = Idle] /\ current' = current
      BY <1>5 DEF SaveIndexed, Loaded, Returns, c
    <2>2. IndexSure(index', files, current, Idle)
      BY <1>2, <2>1, IndexedSure DEF c
    <2>3. Sure(p, Idle, index', files, current')
      BY <2>1, <2>2, IdleSure
    <2> QED BY <1>3, <2>1, <2>3
  <1>6. CASE Listed(p)
    <2>1. c.op = "list" /\ call' = [call EXCEPT ![p] = Idle] /\ UNCHANGED <<index, current>>
      BY <1>6 DEF Listed, Loaded, Returns, c
    <2>2. Sure(p, Idle, index', files, current')
      BY <1>2, <1>4, <2>1, SameWanes, EndsSure
    <2> QED BY <1>3, <2>1, <2>2
  <1>7. CASE Choose(p)
    <2>1. c.op \in {"delete", "prune"} /\ UNCHANGED <<index, current>>
      BY <1>7 DEF Choose, Loaded, c
    <2>2. CASE Chosen(c) = {}
      <3>1. call' = [call EXCEPT ![p] = Idle]
        BY <1>7, <2>2 DEF Choose, Returns, c
      <3>2. Sure(p, Idle, index', files, current')
        BY <1>2, <1>4, <2>1, SameWanes, EndsSure
      <3> QED BY <1>3, <3>1, <3>2
    <2>3. CASE Chosen(c) # {}
      <3> DEFINE t == Chosen(c)
                 d == [c EXCEPT !.at = "unlink", !.todo = t]
      <3>1. call' = [call EXCEPT ![p] = d]
        BY <1>7, <2>3 DEF Choose, c
      <3>2. t \subseteq Exists(files)
        BY Files DEF Chosen, OldEnough, Shown
      <3>3. c.op = "delete" => \A q \in t : q[2] = c.about.id
        BY DEF Chosen
      <3>4. ASSUME c.op = "prune", NEW q \in t \cap CanRead(files)
            PROVE  files[q].mtime < c.about.cutoff
        <4>1. c.copy.meta[q] # None /\ c.copy.meta[q].mtime < c.about.cutoff
          BY <3>4 DEF Chosen, OldEnough, Shown
        <4>2. c.copy.meta[q] = files[q]
          BY <1>2, <3>4, <4>1 DEF Sure, IndexSure, TrueOf
        <4> QED BY <4>1, <4>2
      <3> HIDE DEF t
      <3>5. /\ d.op = c.op /\ d.about = c.about /\ d.todo = t /\ d.copy = c.copy /\ d.at = "unlink"
        BY <1>1 DEF Calls
      <3> HIDE DEF d
      <3>6. \A i : IndexSure(i, files, current, c) => IndexSure(i, files, current, d)
        <4>1. \A e, j : Pending(e, j, c) => Pending(e, j, d)
          BY <1>4, <3>5 DEF Pending
        <4>2. c.op # "save"
          BY <2>1
        <4> QED BY <4>1, <4>2, SameWanes, IndexStays
      <3>7. SaveSure(d, current[p], files) /\ ResumeSure(d, dir[p], files)
        BY <2>1, <3>5 DEF SaveSure, ResumeSure
      <3>8. RemovalSure(d, files)
        BY <3>2, <3>3, <3>4, <3>5 DEF RemovalSure
      <3>9. Sure(p, d, index, files, current)
        BY <1>2, <3>5, <3>6, <3>7, <3>8 DEF Sure
      <3> QED BY <1>3, <2>1, <3>1, <3>9
    <2> QED BY <2>2, <2>3
  <1>8. CASE Unindexed(p)
    <2>1. /\ c.op = "unindex" /\ call' = [call EXCEPT ![p] = Idle]
          /\ index' = [meta |-> [q \in Paths |-> IF q[2] = c.about.id THEN None ELSE c.copy.meta[q]],
                       last |-> [d \in Dirs |-> IF c.copy.last[d] = c.about.id THEN None
                                                ELSE c.copy.last[d]]]
      BY <1>8 DEF Unindexed, Loaded, Returns, c
    <2>2. \A r \in Procs : current'[r] = None \/ current'[r] = current[r]
      BY <1>8 DEF Unindexed, STypeOK
    <2>3. Keeps(files, current, current')
      BY <2>2 DEF Keeps
    <2>4. IndexSure(c.copy, files, current, c) /\ c.copy \in Indexes
      BY <1>1, <1>2 DEF Sure, Calls
    <2>5. IndexSure(index', files, current', Idle)
      BY <2>1, <2>3, <2>4, UnindexedSure
    <2>6. Sure(p, Idle, index', files, current')
      BY <2>5, IdleSure
    <2> QED BY <1>3, <2>1, <2>6
  <1>9. CASE Resumed(p)
    <2>1. c.op \in {"last", "dir", "any"} /\ index' = index
      BY <1>9 DEF Resumed, Loaded, c
    <2>2. Keeps(files, current, current')
      <3>1. UNCHANGED current \/ \E q : Opens(p, q)
        BY <1>9 DEF Resumed
      <3> QED BY <3>1, SameWanes, OpensKeeps
    <2>3. /\ Sure(p, Idle, index, files, current')
          /\ index # None => \A b : b.op # "save" => IndexSure(index, files, current', b)
      BY <1>2, <1>4, <2>1, <2>2, EndsSure
    <2>4. CASE Returns(p)
      BY <1>3, <2>1, <2>3, <2>4 DEF Returns
    <2>5. ASSUME NEW op \in {"dir", "any"}, call' = [call EXCEPT ![p] = Call(op, None)],
                 op = "any" => c.op = "dir" /\ Eligible(p) = {}
          PROVE  AloneSure'
      <3>1. Call(op, None).op # "save"
        BY DEF Call
      <3>2. ASSUME op = "any", Exists(files) \subseteq CanRead(files)
            PROVE  \A q \in Exists(files) : q[1] # dir[p]
        <4>1. Shown(c.copy) = Existing
          BY <1>1, <1>2, <2>1, <3>2, KnowsAll DEF c
        <4>2. Eligible(p) = {q \in Shown(c.copy) : q[1] = dir[p]}
          BY <2>5, <3>2 DEF Eligible, c
        <4> QED BY <2>5, <3>2, <4>1, <4>2, Files
      <3>3. Sure(p, Call(op, None), index, files, current')
        BY <2>3, <3>1, <3>2, CallSure
      <3> HIDE DEF Call
      <3> QED BY <1>3, <2>1, <2>5, <3>3
    <2>6. CASE ~Returns(p)
      <3>1. /\ Eligible(p) = {}
            /\ \/ c.op = "last" /\ call' = [call EXCEPT ![p] = Call("dir", None)]
               \/ c.op = "dir" /\ call' = [call EXCEPT ![p] = Call("any", None)]
        BY <1>9, <2>1, <2>6 DEF Resumed, c
      <3> QED BY <2>5, <3>1
    <2> QED BY <2>4, <2>6
  <1> QED BY <1>5, <1>6, <1>7, <1>8, <1>9

LEMMA AloneUnlink ==
    ASSUME STypeOK, Steady, AloneSure, alone', NEW p \in Procs, NEW q \in Paths, Unlink(p, q)
    PROVE  AloneSure'
  <1> DEFINE c == call[p]
             d == Removed(c, q)
  <1>1. /\ UNCHANGED <<index, dir, current, alone>> /\ c \in Calls /\ c.at = "unlink" /\ q \in c.todo
        /\ c.op \in {"delete", "prune"}
    BY DEF Unlink, STypeOK, Steady, Removers
  <1>2. Only(p) /\ Sure(p, c, index, files, current)
    BY <1>1, UnderWay, NotIdle
  <1>3. q \in Existing
    BY <1>1, <1>2, Files DEF Sure, RemovalSure
  <1>4. files' = [files EXCEPT ![q] = None] /\ call' = Stirred([call EXCEPT ![p] = d])
    BY <1>3 DEF Unlink
  <1>5. Wanes(files, files') /\ Exists(files') = Exists(files) \ {q}
    BY <1>4, UnlinkWanes
  <1> HIDE DEF c
  <1>6. /\ d \in Calls
        /\ c.op = "delete" => d = Call("unindex", c.about)
        /\ c.op = "prune" => /\ d.op = "prune" /\ d.about = c.about /\ d.todo = c.todo \ {q}
                             /\ d.copy = c.copy /\ d.at \in {"unlink", "rescan"}
    <2>1. CASE c.op = "delete"
      BY <1>1, <2>1, CallsIn DEF Removed
    <2>2. CASE c.op = "prune"
      <3>1. d = [c EXCEPT !.todo = c.todo \ {q}, !.at = IF c.todo = {q} THEN "rescan" ELSE c.at]
        BY <1>1, <2>2 DEF Removed, Calls
      <3>2. c.todo \ {q} \in SUBSET Paths
        BY <1>1 DEF Calls
      <3> HIDE DEF d
      <3> QED BY <1>1, <2>2, <3>1, <3>2 DEF Calls, Places
    <2> QED BY <1>1, <2>1, <2>2
  <1> HIDE DEF d
  <1> DEFINE next == [call EXCEPT ![p] = d]
  <1>7. next \in [Procs -> Calls] /\ next[p] = d /\ \A r \in Procs : r # p => next[r] = Idle
    BY <1>2, <1>6 DEF STypeOK, Only
  <1>8. call' = Stirred(next)
    BY <1>4
  <1> HIDE DEF next
  <1> DEFINE b == call'[p]
  <1>9. /\ \A r \in Procs : r # p => call'[r] = Idle
        /\ b.op = d.op /\ b.at = d.at /\ b.copy = d.copy /\ b.about = d.about /\ b.todo = d.todo
    BY <1>7, <1>8, StirredSame, StirredIdle
  <1> HIDE DEF b
  <1>10. CASE c.op = "delete"
    <2>1. /\ b.op = "unindex" /\ b.about = c.about /\ b.copy = EmptyIndex /\ b.todo = {} /\ b.at = "read"
      BY <1>6, <1>9, <1>10 DEF Call
    <2>2. q[2] = c.about.id
      BY <1>1, <1>2, <1>10 DEF Sure, RemovalSure
    <2>3. ASSUME NEW e, NEW j PROVE \/ Pending(e, j, b)
                                    \/ /\ ~Pending(e, j, c)
                                       /\ \A r \in Exists(files) : r[2] = j => r \in Exists(files')
      BY <1>5, <1>10, <2>1, <2>2 DEF Pending, Removes
    <2>4. index # None => IndexSure(index, files', current, b)
      <3>1. \A i : IndexSure(i, files, current, c) => IndexSure(i, files', current, b)
        BY <1>5, <1>10, <2>3, SameWanes, IndexKept
      <3> QED BY <1>2, <3>1 DEF Sure
    <2>5. IndexSure(b.copy, files', current, b)
      BY <2>1, EmptySure
    <2>6. SaveSure(b, current[p], files') /\ RemovalSure(b, files') /\ ResumeSure(b, dir[p], files')
      BY <2>1 DEF SaveSure, RemovalSure, ResumeSure
    <2>7. Sure(p, b, index', files', current')
      BY <1>1, <2>4, <2>5, <2>6 DEF Sure
    <2> QED BY <1>1, <1>2, <1>9, <2>7, AloneStep DEF b
  <1>11. CASE c.op = "prune"
    <2>1. /\ b.op = "prune" /\ b.about = c.about /\ b.todo = c.todo \ {q}
          /\ b.copy = c.copy /\ b.at \in {"unlink", "rescan"}
      BY <1>6, <1>9, <1>11
    <2>2. \A e, j : Pending(e, j, b)
      BY <2>1 DEF Pending, Removes
    <2>3. \A i : IndexSure(i, files, current, c) => IndexSure(i, files', current, b)
      BY <1>5, <1>11, <2>2, SameWanes, IndexKept
    <2>4. SaveSure(b, current[p], files') /\ ResumeSure(b, dir[p], files')
      BY <2>1 DEF SaveSure, ResumeSure
    <2>5. RemovalSure(b, files')
      BY <1>2, <1>5, <1>11, <2>1 DEF Sure, RemovalSure, Wanes
    <2>6. Sure(p, b, index', files', current')
      BY <1>1, <1>2, <2>1, <2>3, <2>4, <2>5 DEF Sure
    <2> QED BY <1>1, <1>2, <1>9, <2>6, AloneStep DEF b
  <1> QED BY <1>1, <1>10, <1>11

LEMMA AloneNext == STypeOK /\ Steady /\ Steady' /\ LoadSound /\ AloneSure /\ [Next]_svars => AloneSure'
  <1> SUFFICES ASSUME STypeOK, Steady, Steady', LoadSound, AloneSure, [Next]_svars, alone'
               PROVE  AloneSure'
    BY DEF AloneSure
  <1>1. CASE UNCHANGED svars
    BY <1>1, SameWanes, AloneChat DEF svars
  <1>2. ASSUME NEW q \in Paths, Damage(q)
        PROVE  AloneSure'
    BY <1>2, AloneDamage
  <1>3. ASSUME NEW p \in Procs, NewChat(p)
        PROVE  AloneSure'
    <2>1. UNCHANGED <<files, index, dir, call, alone>> /\ call[p] = Idle
      BY <1>3 DEF NewChat
    <2>2. \A r \in Procs : current'[r] = (IF r = p THEN None ELSE current[r])
      BY <1>3 DEF NewChat, STypeOK
    <2>3. Keeps(files, current, current')
      BY <2>2 DEF Keeps
    <2> QED BY <2>1, <2>2, <2>3, AloneChat
  <1>4. ASSUME NEW p \in Procs, NEW i \in Ids, ResumeId(p, i)
        PROVE  AloneSure'
    <2>1. UNCHANGED <<files, index, dir, call, alone>> /\ call[p] = Idle /\ Opens(p, <<dir[p], i>>)
      BY <1>4 DEF ResumeId
    <2>2. \A r \in Procs : r # p => current'[r] = current[r]
      BY <2>1 DEF Opens, STypeOK
    <2>3. Keeps(files, current, current')
      BY <2>1, OpensKeeps
    <2> QED BY <2>1, <2>2, <2>3, AloneChat
  <1>5. ASSUME NEW p \in Procs, Kill(p)
        PROVE  AloneSure'
    BY <1>5 DEF Kill
  <1>6. ASSUME NEW p \in Procs, Save(p) \/ Command(p)
        PROVE  AloneSure'
    BY <1>6, AloneSave, AloneCommand
  <1>7. ASSUME NEW p \in Procs, Read(p) \/ Count(p) \/ Compare(p) \/ Scan(p) \/ WriteRebuilt(p)
        PROVE  AloneSure'
    BY <1>7, AloneLoad
  <1>8. ASSUME NEW p \in Procs,
               SaveIndexed(p) \/ Listed(p) \/ Choose(p) \/ Unindexed(p) \/ Resumed(p)
        PROVE  AloneSure'
    BY <1>8, AloneUse
  <1>9. ASSUME NEW p \in Procs, NEW q \in Paths, Unlink(p, q)
        PROVE  AloneSure'
    BY <1>9, AloneUnlink
  <1>10. CASE Next
    BY <1>2, <1>3, <1>4, <1>5, <1>6, <1>7, <1>8, <1>9, <1>10 DEF Next
  <1> QED BY <1>1, <1>10

LEMMA TrueNow ==
    ASSUME STypeOK, AloneSure, alone, index # None, \A p \in Procs : call[p] = Idle,
           NEW q \in Readable, index.meta[q] # None
    PROVE  index.meta[q] = files[q]
  <1>1. PICK p \in Procs : TRUE
    BY SessionsAssumption
  <1>2. Sure(p, Idle, index, files, current)
    BY <1>1 DEF AloneSure, Only
  <1>3. Idle.op # "save"
    BY DEF Idle, Call
  <1> QED BY <1>2, <1>3, Files DEF Sure, IndexSure, TrueOf

\* As long as calls were alone and none was killed, the index tells the truth of
\* the files between calls, whatever came and went and was damaged
\* (sessions.rs:641).
THEOREM IndexTellsTruth == Spec => []IndexTrue
  <1>1. STypeOK /\ AloneSure => IndexTrue
    BY TrueNow DEF IndexTrue
  <1> QED BY <1>1, TypesInit, TypesNext, SoundInit, SoundNext, SteadyInit, SteadyNext,
             AloneInit, AloneNext, PTL DEF Spec

-----------------------------------------------------------------------------
\* What calls decide by the index

LEMMA PrunesOld ==
    ASSUME STypeOK, Steady, AloneSure, [Next]_svars, NEW p \in Procs, NEW q \in Readable,
           call[p].op = "prune", call[p].at = "unlink", files'[q] = None, alone'
    PROVE  files[q].mtime < call[p].about.cutoff
  <1>1. files[q] # None /\ files[q] # Bad /\ q \in Paths
    BY DEF Readable, Existing
  <1>2. ASSUME UNCHANGED files PROVE FALSE
    BY <1>1, <1>2
  <1>3. ASSUME NEW r \in Procs, Save(r) PROVE FALSE
    <2>1. PICK s, x, m : SavedAs(r, s, x, m)
      BY <1>3, SavesAs
    <2>2. m # None
      BY <2>1, SessionsAssumption DEF SavedAs
    <2> QED BY <1>1, <2>1, <2>2 DEF SavedAs, STypeOK
  <1>4. ASSUME NEW x \in Paths, Damage(x) PROVE FALSE
    BY <1>1, <1>4, SessionsAssumption DEF Damage, STypeOK
  <1>5. PICK r \in Procs, x \in Paths : Unlink(r, x)
    <2>1. CASE UNCHANGED svars
      BY <1>2, <2>1 DEF svars
    <2>2. CASE Next
      <3>1. ASSUME NEW r \in Procs,
                   \/ NewChat(r) \/ Kill(r) \/ Command(r) \/ \E i \in Ids : ResumeId(r, i)
                   \/ Read(r) \/ Count(r) \/ Compare(r) \/ Scan(r) \/ WriteRebuilt(r)
                   \/ SaveIndexed(r) \/ Listed(r) \/ Choose(r) \/ Unindexed(r) \/ Resumed(r)
            PROVE  FALSE
        <4>1. UNCHANGED files
          BY <3>1 DEF NewChat, Kill, Command, ResumeId, Read, Count, Compare, Scan, WriteRebuilt,
                      SaveIndexed, Listed, Choose, Unindexed, Resumed
        <4> QED BY <1>2, <4>1
      <3> QED BY <1>3, <1>4, <2>2, <3>1 DEF Next
    <2> QED BY <2>1, <2>2
  <1>6. alone /\ call[r].at = "unlink" /\ x \in call[r].todo
    BY <1>5 DEF Unlink
  <1>7. Only(r) /\ Sure(r, call[r], index, files, current)
    BY <1>6, UnderWay, NotIdle
  <1>8. r = p
    BY <1>7, NotIdle DEF Only, Idle, Call
  <1>9. x = q
    BY <1>1, <1>5 DEF Unlink, STypeOK
  <1> QED BY <1>6, <1>7, <1>8, <1>9, Files DEF Sure, RemovalSure

\* Of finitely many things, one has none above it.
LEMMA Uppermost ==
    ASSUME NEW S, IsFiniteSet(S), S # {}, NEW above,
           \A x \in S : above[x] \subseteq S /\ x \notin above[x],
           \A x \in S : \A y \in above[x] : above[y] \subseteq above[x]
    PROVE  \E x \in S : above[x] = {}
  <1> DEFINE T == {Cardinality(above[x]) : x \in S}
  <1>1. \A x \in S : IsFiniteSet(above[x]) /\ Cardinality(above[x]) \in Nat
    BY FS_Subset, FS_CardinalityType
  <1>2. T \subseteq Nat /\ T # {}
    BY <1>1
  <1>3. \E n \in T : \A m \in T : <<m, n>> \notin OpToRel(<, Nat)
    BY <1>2, WFMin, NatLessThanWellFounded
  <1>4. PICK x \in S : \A y \in S : <<Cardinality(above[y]), Cardinality(above[x])>> \notin OpToRel(<, Nat)
    BY <1>3, ZenonT(40)
  <1>5. ASSUME NEW y \in above[x] PROVE FALSE
    <2>1. y \in S /\ above[y] \subseteq above[x] /\ above[y] # above[x]
      BY <1>5
    <2>2. Cardinality(above[y]) < Cardinality(above[x])
      BY <1>1, <2>1, FS_Subset, SMTT(30)
    <2>3. <<Cardinality(above[y]), Cardinality(above[x])>> \in OpToRel(<, Nat)
      BY <1>1, <2>1, <2>2 DEF OpToRel
    <2> QED BY <1>4, <2>1, <2>3
  <1> QED BY <1>5

\* The newest of some sessions is one of them, and none of them is newer.
LEMMA NewestIs ==
    ASSUME NEW i, NEW among, among \subseteq Paths, among # {},
           \A q \in among : i.meta[q] \in Checkpoints
    PROVE  /\ Newest(i, among) \in among
           /\ \A r \in among : i.meta[r].mtime <= i.meta[Newest(i, among)].mtime
  <1> DEFINE Newer(r, q) == \/ i.meta[q].mtime < i.meta[r].mtime
                            \/ i.meta[q].mtime = i.meta[r].mtime /\ q[2] < r[2]
             above == [q \in among |-> {r \in among : Newer(r, q)}]
             Tops(q) == \A r \in among :
                            \/ i.meta[q].mtime > i.meta[r].mtime
                            \/ i.meta[q].mtime = i.meta[r].mtime /\ q[2] >= r[2]
  <1>1. \A q \in among : i.meta[q].mtime \in Nat /\ q[2] \in Nat
    <2> SUFFICES ASSUME NEW q \in among
                 PROVE  i.meta[q].mtime \in Nat /\ q[2] \in Nat
      OBVIOUS
    <2>1. i.meta[q] \in Checkpoints /\ q \in Paths
      OBVIOUS
    <2>2. i.meta[q].mtime \in 1..MaxTime
      BY <2>1 DEF Checkpoints
    <2>3. q[2] \in Ids
      BY <2>1 DEF Paths
    <2>4. 1..MaxTime \subseteq Nat /\ Ids \subseteq Nat
      BY SessionsAssumption
    <2> QED BY ONLY <2>2, <2>3, <2>4
  <1>2. IsFiniteSet(among)
    BY SessionsAssumption, FS_Subset
  <1>3. \A q \in among : above[q] \subseteq among /\ q \notin above[q]
    BY <1>1
  <1>4. \A q \in among : \A r \in above[q] : above[r] \subseteq above[q]
    <2> SUFFICES ASSUME NEW q \in among, NEW r \in above[q], NEW x \in above[r]
                 PROVE  Newer(x, q) /\ x \in among
      OBVIOUS
    <2>1. r \in among /\ x \in among /\ Newer(r, q) /\ Newer(x, r)
      OBVIOUS
    <2> QED BY <1>1, <2>1
  <1>5. \E q \in among : above[q] = {}
    <2> HIDE DEF above
    <2> QED BY ONLY among # {}, <1>2, <1>3, <1>4, Uppermost
  <1>6. PICK q \in among : above[q] = {}
    BY <1>5
  <1>7. Tops(q)
    <2> SUFFICES ASSUME NEW r \in among
                 PROVE  \/ i.meta[q].mtime > i.meta[r].mtime
                        \/ i.meta[q].mtime = i.meta[r].mtime /\ q[2] >= r[2]
      OBVIOUS
    <2>1. ~Newer(r, q)
      BY <1>6
    <2> QED BY <1>1, <2>1
  <1>8. Newest(i, among) = CHOOSE x \in among : Tops(x)
    BY DEF Newest
  <1>9. Newest(i, among) \in among /\ Tops(Newest(i, among))
    <2> HIDE DEF Tops
    <2> QED BY <1>7, <1>8
  <1> QED BY <1>1, <1>9

\* Where all sessions can be read and are saved where they began, and the call is
\* alone: what was used last is the newest of the directory, and there is one
\* checkpoint of it.
LEMMA LastIsNewest ==
    ASSUME STypeOK, NEW p \in Procs, NEW c, c.op = "last", IndexSure(c.copy, files, current, c),
           \A q \in Existing : q \in Readable /\ files[q].cwd = q[1],
           NEW q \in Existing, q[2] = c.copy.last[dir[p]]
    PROVE  /\ q[1] = dir[p]
           /\ \A r \in Existing : r[2] = q[2] => r = q
           /\ \A r \in Existing : r[1] = dir[p] => files[r].mtime <= files[q].mtime
  <1> DEFINE d == dir[p]
             j == q[2]
  <1>1. d \in Dirs /\ j \in Ids /\ Existing = Readable /\ Existing \subseteq Paths
    BY DEF STypeOK, Existing, Readable, Paths
  <1>2. c.copy.last[d] = j
    OBVIOUS
  <1>3. ~Pending(d, j, c)
    BY DEF Pending, Removes
  <1> HIDE DEF d, j
  <1>4. (\A e \in Dirs : Of(j, e, files, current) => e = d) /\ Fresh(d, j, files)
    BY <1>1, <1>2, <1>3 DEF IndexSure, LastTrue
  <1>5. ASSUME NEW r \in Existing, r[2] = j
        PROVE  r = <<d, j>>
    <2>1. r[1] \in Dirs /\ r = <<r[1], r[2]>> /\ files[r].cwd = r[1]
      BY <1>1 DEF Paths
    <2>2. Of(j, r[1], files, current)
      BY <1>1, <1>5, <2>1, Files DEF Of, OfFile
    <2> QED BY <1>4, <1>5, <2>1, <2>2
  <1>6. PICK w \in Existing :
          w[2] = j /\ \A r \in Existing : files[r].cwd = d => files[r].mtime <= files[w].mtime
    BY <1>1, <1>4, Files DEF Fresh
  <1>7. w = <<d, j>> /\ q = <<d, j>>
    BY <1>5, <1>6 DEF j
  <1>8. q[1] = d /\ \A r \in Existing : r[2] = q[2] => r = q
    BY <1>5, <1>7
  <1>9. \A r \in Existing : r[1] = d => files[r].mtime <= files[q].mtime
    BY <1>6, <1>7
  <1> QED BY <1>8, <1>9 DEF d

\* A resume that ends opens the newest.
LEMMA ResumeEnds ==
    ASSUME STypeOK, LoadSound, NEW p \in Procs, Resumed(p), Returns(p),
           Sure(p, call[p], index, files, current),
           \A q \in Existing : q \in Readable /\ files[q].cwd = q[1], Existing # {}
    PROVE  LET here == {q \in Existing : q[1] = dir[p]}
               among == IF here = {} THEN Existing ELSE here
           IN \E q \in among :
                /\ current'[p] = [id |-> q[2], cwd |-> files[q].cwd]
                /\ \A r \in among : files[r].mtime <= files[q].mtime
  <1> DEFINE c == call[p]
             here == {q \in Existing : q[1] = dir[p]}
             among == IF here = {} THEN Existing ELSE here
             chosen == Newest(c.copy, Eligible(p))
  <1>1. c.op \in {"last", "dir", "any"} /\ c.at = "loaded"
    BY DEF Resumed, Loaded
  <1>2. Exists(files) \subseteq CanRead(files)
    BY Files
  <1>3. /\ Shown(c.copy) = Existing /\ Existing = Readable
        /\ \A q \in Existing : c.copy.meta[q] = files[q]
    BY <1>1, <1>2, KnowsAll
  <1>4. Sure(p, c, index, files, current) /\ IndexSure(c.copy, files, current, c)
    BY DEF Sure
  <1>5. Eligible(p) \subseteq Existing
    BY <1>1, <1>3 DEF Eligible
  <1>6. c.op \in {"last", "dir"} => Eligible(p) \subseteq here
    <2>1. CASE c.op = "dir"
      BY <1>3, <2>1 DEF Eligible
    <2>2. CASE c.op = "last"
      <3> SUFFICES ASSUME NEW q \in Eligible(p) PROVE q[1] = dir[p]
        BY <1>5
      <3>1. q[2] = c.copy.last[dir[p]]
        BY <2>2 DEF Eligible
      <3> QED BY <1>4, <1>5, <2>2, <3>1, LastIsNewest
    <2> QED BY <1>1, <2>1, <2>2
  <1>7. c.op = "dir" => Eligible(p) = here
    BY <1>3 DEF Eligible
  <1>8. c.op = "any" => Eligible(p) = Existing /\ here = {}
    BY <1>2, <1>3, <1>4, Files DEF Eligible, Sure, ResumeSure
  <1>9. Eligible(p) # {}
    <2>1. ASSUME Eligible(p) = {} PROVE c.op = "any"
      <3>1. Call("dir", None) # Idle /\ Call("any", None) # Idle
        BY DEF Call, Idle
      <3>2. call'[p] = Idle
        BY DEF Returns, STypeOK
      <3>3. c.op = "last" => call'[p] = Call("dir", None)
        BY <2>1 DEF Resumed, STypeOK
      <3>4. c.op = "dir" => call'[p] = Call("any", None)
        BY <2>1 DEF Resumed, STypeOK
      <3> HIDE DEF Idle, Call
      <3> QED BY <1>1, <3>1, <3>2, <3>3, <3>4
    <2> QED BY <1>8, <2>1
  <1>10. \A q \in Existing : q \in Paths /\ c.copy.meta[q] \in Checkpoints
    BY <1>3, ReadableType
  <1>11. /\ chosen \in Eligible(p)
         /\ \A r \in Eligible(p) : c.copy.meta[r].mtime <= c.copy.meta[chosen].mtime
    BY <1>5, <1>9, <1>10, NewestIs
  <1>12. chosen \in Existing /\ chosen \in among
    BY <1>1, <1>5, <1>6, <1>8, <1>11
  <1>13. current'[p] = [id |-> chosen[2], cwd |-> files[chosen].cwd]
    BY <1>3, <1>9, <1>12 DEF Resumed, Opens, STypeOK
  <1>14. ASSUME NEW r \in among PROVE files[r].mtime <= files[chosen].mtime
    <2>1. CASE c.op = "last"
      <3>1. chosen[2] = c.copy.last[dir[p]]
        BY <1>11, <2>1 DEF Eligible
      <3>2. chosen \in here
        BY <1>6, <1>11, <2>1
      <3>3. r \in Existing /\ r[1] = dir[p]
        BY <3>2
      <3> QED BY <1>4, <1>12, <2>1, <3>1, <3>3, LastIsNewest
    <2>2. CASE c.op # "last"
      <3>1. among = Eligible(p)
        BY <1>1, <1>7, <1>8, <1>9, <2>2
      <3> QED BY <1>3, <1>5, <1>11, <3>1
    <2> QED BY <2>1, <2>2
  <1> QED BY <1>12, <1>13, <1>14

LEMMA ResumesNewest ==
    ASSUME STypeOK, LoadSound, Steady, AloneSure, [Next]_svars
    PROVE  ResumesLatest
  <1> SUFFICES ASSUME NEW p \in Procs, call[p].op \in {"last", "dir", "any"}, call'[p] = Idle, alone',
                      \A q \in Existing : q \in Readable /\ files[q].cwd = q[1], Existing # {}
               PROVE  LET here == {q \in Existing : q[1] = dir[p]}
                          among == IF here = {} THEN Existing ELSE here
                      IN \E q \in among :
                           /\ current'[p] = [id |-> q[2], cwd |-> files[q].cwd]
                           /\ \A r \in among : files[r].mtime <= files[q].mtime
    BY DEF ResumesLatest
  <1>1. call[p].at # "idle" /\ call[p] # Idle
    <2>1. CallOK(call[p], dir[p])
      BY DEF STypeOK
    <2> QED BY <2>1, NotIdle DEF CallOK
  <1>2. Resumed(p) /\ Returns(p)
    <2>1. ASSUME call'[p] = call[p] PROVE FALSE
      BY <1>1, <2>1
    <2>2. CASE UNCHANGED svars
      BY <2>1, <2>2 DEF svars
    <2>3. ASSUME NEW q \in Paths, Damage(q) PROVE FALSE
      <3>1. call \in [Procs -> Calls] /\ call'[p].at = call[p].at
        BY <2>3, StirredSame DEF Damage, STypeOK
      <3> QED BY <1>1, <3>1 DEF Idle, Call
    <2>4. ASSUME NEW r \in Procs, Save(r) \/ Command(r) PROVE FALSE
      BY <1>1, <2>4 DEF Save, Command, Begins
    <2>5. ASSUME NEW r \in Procs, Kill(r) PROVE FALSE
      BY <2>5 DEF Kill
    <2>6. ASSUME NEW r \in Procs, NewChat(r) \/ \E i \in Ids : ResumeId(r, i) PROVE FALSE
      BY <2>1, <2>6 DEF NewChat, ResumeId
    <2>7. ASSUME NEW r \in Procs, r # p,
                 \/ Read(r) \/ Count(r) \/ Compare(r) \/ Scan(r) \/ WriteRebuilt(r)
                 \/ SaveIndexed(r) \/ Listed(r) \/ Choose(r) \/ Unindexed(r) \/ Resumed(r)
          PROVE  FALSE
      <3>1. \E d : call' = [call EXCEPT ![r] = d]
        BY <2>7, ZenonT(40) DEF Read, Count, Compare, Scan, WriteRebuilt, SaveIndexed, Listed, Choose,
                    Unindexed, Resumed, Goes, Returns, Loaded
      <3> QED BY <2>1, <2>7, <3>1 DEF STypeOK
    <2>8. ASSUME NEW r \in Procs, NEW q \in Paths, Unlink(r, q) PROVE FALSE
      <3>1. call[r].at = "unlink" /\ call[r].op \in {"delete", "prune"} /\ alone /\ call[r] # Idle
        BY <2>8, NotIdle DEF Unlink, Steady, Removers
      <3>2. r # p
        BY <3>1
      <3> QED BY <1>1, <3>1, <3>2, UnderWay DEF Only
    <2>9. ASSUME Read(p) \/ Count(p) \/ Compare(p) \/ Scan(p) PROVE FALSE
      <3>1. PICK a \in Places \ {"idle"} : call'[p].at = a
        <4>1. CASE Read(p)
          <5>1. call'[p].at \in {"scan", "count"}
            BY <4>1 DEF Read, Goes, STypeOK, Calls
          <5> QED BY <5>1 DEF Places
        <4>2. CASE Count(p)
          <5>1. call'[p].at = "compare"
            BY <4>2 DEF Count, STypeOK, Calls
          <5> QED BY <5>1 DEF Places
        <4>3. CASE Compare(p)
          <5>1. call'[p].at \in {"scan", "loaded"}
            BY <4>3 DEF Compare, Goes, STypeOK, Calls
          <5> QED BY <5>1 DEF Places
        <4>4. CASE Scan(p)
          <5>1. call'[p].at \in {"write", "rewrite"}
            BY <4>4 DEF Scan, STypeOK, Calls
          <5> QED BY <5>1 DEF Places
        <4> QED BY <2>9, <4>1, <4>2, <4>3, <4>4
      <3> QED BY <3>1 DEF Idle, Call
    <2>10. ASSUME WriteRebuilt(p) PROVE FALSE
      <3>1. CASE call[p].at = "write" /\ Goes(p, "loaded")
        <4>1. call'[p].at = "loaded"
          BY <3>1 DEF Goes, STypeOK, Calls
        <4> QED BY <4>1 DEF Idle, Call
      <3>2. CASE call[p].at = "rewrite"
        BY <3>2 DEF Steady, Removers
      <3> QED BY <2>10, <3>1, <3>2 DEF WriteRebuilt
    <2>11. ASSUME SaveIndexed(p) \/ Listed(p) \/ Choose(p) \/ Unindexed(p) PROVE FALSE
      BY <2>11 DEF SaveIndexed, Listed, Choose, Unindexed, Loaded
    <2>12. Resumed(p)
      BY <2>2, <2>3, <2>4, <2>5, <2>6, <2>7, <2>8, <2>9, <2>10, <2>11, <2>1 DEF Next, svars
    <2>13. Returns(p)
      <3>1. PICK d : call' = [call EXCEPT ![p] = d]
        BY <2>12 DEF Resumed, Returns, Loaded
      <3> QED BY <3>1 DEF Returns, STypeOK
    <2> QED BY <2>12, <2>13
  <1>3. alone
    BY <1>2 DEF Resumed
  <1> QED BY <1>1, <1>2, <1>3, UnderWay, ResumeEnds

\* What a call decides by the index it decides as the files would have it: while
\* calls are alone, a prune removes nothing as new as its cutoff (sessions.rs:523),
\* and a resume without an id opens the newest session of its directory
\* (sessions.rs:468).
THEOREM IndexDecidesWell == Spec => IndexTrusted
  <1>1. STypeOK /\ Steady /\ AloneSure /\ [Next]_svars => PruneOnlyOld
    BY PrunesOld DEF PruneOnlyOld
  <1>2. STypeOK /\ LoadSound /\ Steady /\ AloneSure /\ [Next]_svars => ResumesLatest
    BY ResumesNewest
  <1> QED BY <1>1, <1>2, TypesInit, TypesNext, SoundInit, SoundNext, SteadyInit, SteadyNext,
             AloneInit, AloneNext, PTL DEF Spec, IndexTrusted

=============================================================================
