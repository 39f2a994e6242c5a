-------------------------- MODULE AgentTurnProofs --------------------------
(***************************************************************************)
(* Proofs about FileJournal and AgentTurn: a rewind is exact; and what a   *)
(* turn, a cancel and the commands between turns do to the journal and to  *)
(* the conversation.  RewindExact is already inductive: it speaks of every *)
(* open bucket at once, so a step that drops, opens or fills the newest    *)
(* bucket never needs to look at how the older ones came about.            *)
(***************************************************************************)
EXTENDS AgentTurn, SubsequencesProofs, FiniteSetTheorems

-----------------------------------------------------------------------------
\* The journal by itself

\* The oldest snapshot of a path is the one restored.
LEMMA RestoredOldest ==
    ASSUME NEW ts, NEW fs, NEW k \in Nat, Len(ts) \in Nat, NEW p,
           NEW i \in Snapped(ts, k, p), \A j \in Snapped(ts, k, p) : i <= j
    PROVE  Restored(ts, fs, k, p) = ts[i][p]
<1>1. Snapped(ts, k, p) \subseteq Nat
  BY DEF Snapped
<1>2. /\ Oldest(ts, k, p) \in Snapped(ts, k, p)
      /\ \A j \in Snapped(ts, k, p) : Oldest(ts, k, p) <= j
  BY DEF Oldest
<1>3. Oldest(ts, k, p) = i
  BY <1>1, <1>2
<1> QED
  BY <1>3 DEF Restored

\* A path with a snapshot has an oldest one.
LEMMA OldestExists ==
    ASSUME NEW ts, NEW k \in Nat, Len(ts) \in Nat, NEW p, Snapped(ts, k, p) # {}
    PROVE  \E i \in Snapped(ts, k, p) : \A j \in Snapped(ts, k, p) : i <= j
<1>1. Snapped(ts, k, p) \subseteq Nat
  BY DEF Snapped
<1> QED
  BY <1>1, LeastNat

\* What a rewind writes is a file image.
LEMMA RestoredType ==
    ASSUME JTypeOK, NEW k \in Nat \ {0}, NEW p \in Paths
    PROVE  Restored(turns, files, k, p) \in Images
<1>1. CASE Snapped(turns, k, p) = {}
  BY <1>1 DEF Restored, JTypeOK
<1>2. CASE Snapped(turns, k, p) # {}
  <2>1. PICK i \in Snapped(turns, k, p) : \A j \in Snapped(turns, k, p) : i <= j
    BY <1>2, OldestExists DEF JTypeOK
  <2>2. Restored(turns, files, k, p) = turns[i][p]
    BY <2>1, RestoredOldest DEF JTypeOK
  <2>3. i \in 1..Len(turns) /\ turns[i][p] # NoSnap
    BY DEF Snapped
  <2>4. turns[i] \in Bucket
    BY <2>3 DEF JTypeOK
  <2> QED
    BY <2>2, <2>3, <2>4 DEF Bucket
<1> QED
  BY <1>1, <1>2

\* The buckets a rewind keeps are a prefix of the open ones.
LEMMA FirstDroppedRange ==
    ASSUME JTypeOK, NEW n \in Nat \ {0}
    PROVE  /\ FirstDropped(n) \in Nat \ {0}
           /\ FirstDropped(n) - 1 \in 0..Len(turns)
           /\ turns # <<>> => FirstDropped(n) \in 1..Len(turns)
<1>1. Len(turns) \in Nat /\ (turns # <<>> => Len(turns) # 0)
  BY EmptySeq DEF JTypeOK
<1> QED
  BY <1>1 DEF FirstDropped

-----------------------------------------------------------------------------
\* Dropping the buckets from k on, and writing what they restore, changes
\* nothing of what rewinding further down would restore.
LEMMA PrefixRestored ==
    ASSUME NEW ts \in Seq(Bucket), NEW fs, NEW gs, NEW p \in Paths,
           NEW k \in Nat, k - 1 \in 0..Len(ts), NEW j \in 1..(k - 1),
           gs[p] = Restored(ts, fs, k, p)
    PROVE  Restored(SubSeq(ts, 1, k - 1), gs, j, p) = Restored(ts, fs, j, p)
<1> DEFINE us == SubSeq(ts, 1, k - 1)
<1>1. Len(us) = k - 1 /\ \A i \in 1..(k - 1) : us[i] = ts[i]
  OBVIOUS
<1>2. Len(ts) \in Nat /\ j \in Nat /\ k \in Nat
  OBVIOUS
<1>3. Snapped(us, j, p) = Snapped(ts, j, p) \cap (1..(k - 1))
  BY <1>1, <1>2 DEF Snapped
<1> HIDE DEF us
<1>4. CASE Snapped(us, j, p) = {}
  <2>1. Snapped(ts, j, p) = Snapped(ts, k, p)
    BY <1>2, <1>3, <1>4 DEF Snapped
  <2>2. Restored(us, gs, j, p) = gs[p]
    BY <1>4 DEF Restored
  <2>3. Restored(ts, fs, j, p) = Restored(ts, fs, k, p) \/ Snapped(ts, k, p) = {}
    BY <2>1 DEF Restored, Oldest
  <2>4. Snapped(ts, k, p) = {} => Restored(ts, fs, j, p) = fs[p] /\ Restored(ts, fs, k, p) = fs[p]
    BY <2>1 DEF Restored
  <2> QED
    BY <2>2, <2>3, <2>4 DEF us
<1>5. CASE Snapped(us, j, p) # {}
  <2>1. PICK i \in Snapped(us, j, p) : \A m \in Snapped(us, j, p) : i <= m
    BY <1>1, <1>2, <1>5, OldestExists
  <2>2. i \in Snapped(ts, j, p) /\ i \in 1..(k - 1)
    BY <1>3
  <2>3. \A m \in Snapped(ts, j, p) : i <= m
    BY <1>2, <1>3, <2>1, <2>2, SMTT(30) DEF Snapped
  <2>4. Restored(us, gs, j, p) = us[i][p]
    BY <1>1, <1>2, <2>1, RestoredOldest
  <2>5. Restored(ts, fs, j, p) = ts[i][p]
    BY <1>2, <2>2, <2>3, RestoredOldest
  <2> QED
    BY <1>1, <2>2, <2>4, <2>5 DEF us
<1> QED
  BY <1>4, <1>5

\* An empty newest bucket restores nothing.
LEMMA EmptyTopRestored ==
    ASSUME JTypeOK, turns # <<>>, turns[Len(turns)] = EmptyBucket, NEW p \in Paths
    PROVE  Restored(turns, files, Len(turns), p) = files[p]
<1>1. Len(turns) \in Nat \ {0}
  BY EmptySeq DEF JTypeOK
<1>2. Snapped(turns, Len(turns), p) = {}
  BY <1>1 DEF Snapped, EmptyBucket
<1> QED
  BY <1>2 DEF Restored

\* A journaled write leaves what every rewind would restore as it was.
LEMMA RecordRestored ==
    ASSUME JTypeOK, NEW q \in Paths, NEW c \in Contents, WriteFile(q, c),
           NEW k \in 1..Len(turns), NEW p \in Paths
    PROVE  Restored(turns', files', k, p) = Restored(turns, files, k, p)
<1> DEFINE L == Len(turns)
<1>1. L \in Nat \ {0} /\ turns # <<>> /\ k \in 1..L /\ turns \in Seq(Bucket)
  BY EmptySeq DEF JTypeOK
<1>2. files' = [files EXCEPT ![q] = c]
  BY DEF WriteFile
<1>3. CASE turns[L][q] # NoSnap
  <2>1. turns' = turns
    BY <1>1, <1>3 DEF WriteFile, Record
  <2>2. L \in Snapped(turns, k, q)
    BY <1>1, <1>3 DEF Snapped
  <2>3. p # q => files'[p] = files[p]
    BY <1>2 DEF JTypeOK
  <2> QED
    BY <2>1, <2>2, <2>3 DEF Restored, Oldest
<1>4. CASE turns[L][q] = NoSnap
  <2>1. turns' = [turns EXCEPT ![L][q] = files[q]]
    BY <1>1, <1>4 DEF WriteFile, Record
  <2>2. Len(turns') = L
    BY <1>1, <2>1
  <2>3. \A i \in 1..L : (i # L \/ p # q) => turns'[i][p] = turns[i][p]
    BY <1>1, <2>1 DEF Bucket
  <2>4. CASE p # q
    <3>1. Snapped(turns', k, p) = Snapped(turns, k, p)
      BY <1>1, <2>2, <2>3, <2>4 DEF Snapped
    <3>2. files'[p] = files[p]
      BY <1>2, <2>4 DEF JTypeOK
    <3>3. CASE Snapped(turns, k, p) = {}
      BY <3>1, <3>2, <3>3 DEF Restored
    <3>4. CASE Snapped(turns, k, p) # {}
      <4>1. PICK i \in Snapped(turns, k, p) : \A m \in Snapped(turns, k, p) : i <= m
        BY <1>1, <3>4, OldestExists
      <4>2. i \in 1..L
        BY <1>1 DEF Snapped
      <4> QED
        BY <1>1, <2>2, <2>3, <2>4, <3>1, <4>1, <4>2, RestoredOldest
    <3> QED
      BY <3>3, <3>4
  <2>5. CASE p = q
    <3>1. turns'[L][q] = files[q] /\ files[q] # NoSnap
      BY <1>1, <2>1, JournalAssumption DEF Bucket, JTypeOK, Images
    <3>2. Snapped(turns', k, q) = Snapped(turns, k, q) \cup {L}
      BY <1>1, <2>2, <2>3, <3>1, <2>5 DEF Snapped
    <3>3. CASE Snapped(turns, k, q) = {}
      <4>1. Restored(turns', files', k, q) = turns'[L][q]
        BY <1>1, <2>2, <3>2, <3>3, RestoredOldest
      <4> QED
        BY <2>5, <3>1, <3>3, <4>1 DEF Restored
    <3>4. CASE Snapped(turns, k, q) # {}
      <4>1. PICK i \in Snapped(turns, k, q) : \A m \in Snapped(turns, k, q) : i <= m
        BY <1>1, <3>4, OldestExists
      <4>2. i \in 1..L /\ i # L
        BY <1>1, <1>4 DEF Snapped
      <4>3. Restored(turns', files', k, q) = turns'[i][q]
        BY <1>1, <2>2, <3>2, <4>1, <4>2, RestoredOldest
      <4>4. Restored(turns, files, k, q) = turns[i][q]
        BY <1>1, <4>1, RestoredOldest
      <4> QED
        BY <2>3, <2>5, <4>2, <4>3, <4>4
    <3> QED
      BY <3>3, <3>4
  <2> QED
    BY <2>4, <2>5
<1> QED
  BY <1>3, <1>4

-----------------------------------------------------------------------------
\* A step of the journal, or a rewind by more turns than may ever be open.
JStep == JNext \/ \E n \in Nat \ {0} : \E failed \in SUBSET Paths : Rewind(n, failed)

LEMMA StepsAreJSteps == JNext => JStep
  BY DEF JStep

LEMMA JTypeStep == ASSUME JTypeOK, JStep \/ UNCHANGED jvars PROVE JTypeOK'
<1> USE DEF JTypeOK
<1>1. CASE StartTurn
  <2>1. EmptyBucket \in Bucket
    BY DEF EmptyBucket, Bucket
  <2> QED
    BY <1>1, <2>1 DEF StartTurn
<1>2. ASSUME NEW p \in Paths, NEW c \in Contents, WriteFile(p, c) PROVE JTypeOK'
  <2>1. files' \in [Paths -> Images]
    BY <1>2 DEF WriteFile, Images
  <2>2. turns' \in Seq(Bucket) /\ Len(turns') = Len(turns)
    <3>1. CASE turns = <<>> \/ turns[Len(turns)][p] # NoSnap
      BY <1>2, <3>1 DEF WriteFile, Record
    <3>2. CASE ~(turns = <<>> \/ turns[Len(turns)][p] # NoSnap)
      <4>1. Len(turns) \in 1..Len(turns)
        BY <3>2, EmptySeq
      <4>2. [turns[Len(turns)] EXCEPT ![p] = files[p]] \in Bucket
        BY <4>1 DEF Bucket
      <4>3. turns' = [turns EXCEPT ![Len(turns)] = [turns[Len(turns)] EXCEPT ![p] = files[p]]]
        BY <1>2, <3>2 DEF WriteFile, Record
      <4> QED
        BY <4>1, <4>2, <4>3
    <3> QED
      BY <3>1, <3>2
  <2> QED
    BY <1>2, <2>1, <2>2 DEF WriteFile
<1>3. ASSUME NEW p \in Paths, NEW c \in Contents, EditFile(p, c) PROVE JTypeOK'
  BY <1>2, <1>3 DEF EditFile
<1>4. ASSUME NEW p \in Paths, NEW left \in Images, WriteFails(p, left) PROVE JTypeOK'
  BY <1>4 DEF WriteFails
<1>5. ASSUME NEW p \in Paths, NEW left \in Images, ForeignWrite(p, left) PROVE JTypeOK'
  BY <1>5 DEF ForeignWrite
<1>6. ASSUME NEW n \in Nat \ {0}, NEW failed \in SUBSET Paths, Rewind(n, failed)
      PROVE  JTypeOK'
  <2> DEFINE k == FirstDropped(n)
  <2>1. k \in Nat \ {0} /\ k - 1 \in 0..Len(turns)
    BY FirstDroppedRange
  <2>2. \A p \in Paths : Restored(turns, files, k, p) \in Images
    BY <2>1, RestoredType
  <2>3. files' \in [Paths -> Images]
    BY <1>6, <2>2 DEF Rewind
  <2>4. /\ turns' \in Seq(Bucket) /\ Len(turns') = k - 1
        /\ starts' \in Seq([Paths -> Images]) /\ Len(starts') = k - 1
    BY <1>6, <2>1 DEF Rewind
  <2> QED
    BY <1>6, <2>3, <2>4 DEF Rewind
<1>7. CASE DiscardLastTurnIfEmpty
  <2>1. CASE turns # <<>> /\ turns[Len(turns)] = EmptyBucket
    <3>1. /\ turns' = SubSeq(turns, 1, Len(turns) - 1)
          /\ starts' = SubSeq(starts, 1, Len(starts) - 1)
          /\ files' = files /\ drift' = drift
      BY <1>7, <2>1 DEF DiscardLastTurnIfEmpty
    <3>2. Len(turns) \in Nat \ {0}
      BY <2>1, EmptySeq
    <3> QED
      BY <3>1, <3>2
  <2>2. CASE ~(turns # <<>> /\ turns[Len(turns)] = EmptyBucket)
    BY <1>7, <2>2 DEF DiscardLastTurnIfEmpty, jvars
  <2> QED
    BY <2>1, <2>2
<1>8. CASE Reset
  BY <1>8 DEF Reset
<1>9. CASE UNCHANGED jvars
  BY <1>9 DEF jvars
<1> QED
  BY <1>1, <1>2, <1>3, <1>4, <1>5, <1>6, <1>7, <1>8, <1>9, JournalAssumption DEF JNext, JStep

\* The journal and the disk keep their types: a bucket holds images of files,
\* and there is one recorded starting point for each open bucket.
THEOREM JournalTypes == JSpec => []JTypeOK
<1>1. JInit => JTypeOK
  BY DEF JInit, JTypeOK
<1>2. JTypeOK /\ [JNext]_jvars => JTypeOK'
  BY JTypeStep, StepsAreJSteps
<1> QED
  BY <1>1, <1>2, PTL DEF JSpec

\* Rewinding is exact for one path.
PathExact(p) == \A k \in 1..Len(turns) : Restored(turns, files, k, p) = starts[k][p]

\* It stays so for any path the journal knows all about.
LEMMA PathExactStep ==
    ASSUME JTypeOK, JTypeOK', JStep \/ UNCHANGED jvars,
           NEW p \in Paths \ drift', p \notin drift => PathExact(p)
    PROVE  PathExact(p)'
<1> SUFFICES ASSUME NEW k \in 1..Len(turns')
             PROVE  Restored(turns', files', k, p) = starts'[k][p]
  BY DEF PathExact
<1>0. /\ Len(turns) \in Nat /\ Len(turns') \in Nat /\ k \in Nat
      /\ Len(starts) = Len(turns) /\ turns \in Seq(Bucket)
  BY DEF JTypeOK
<1>1. CASE StartTurn
  <2>1. /\ Len(turns') = Len(turns) + 1
        /\ \A i \in 1..Len(turns) : turns'[i] = turns[i] /\ starts'[i] = starts[i]
        /\ turns'[Len(turns) + 1] = EmptyBucket
        /\ starts'[Len(turns) + 1] = files
        /\ files' = files /\ drift' = drift
    BY <1>1 DEF StartTurn, JTypeOK
  <2>2. CASE k = Len(turns) + 1
    <3>1. Snapped(turns', k, p) = {}
      BY <1>0, <2>1, <2>2 DEF Snapped, EmptyBucket
    <3> QED
      BY <2>1, <2>2, <3>1 DEF Restored
  <2>3. CASE k # Len(turns) + 1
    <3>1. k \in 1..Len(turns)
      BY <1>0, <2>1, <2>3
    <3>2. Restored(turns, files, k, p) = starts[k][p]
      BY <2>1, <3>1 DEF PathExact
    <3> DEFINE top == Len(turns) + 1
    <3>3. top - 1 = Len(turns) /\ SubSeq(turns', 1, top - 1) = turns
      BY <1>0, <1>1 DEF StartTurn
    <3>4. Restored(turns', files, top, p) = files[p]
      BY <1>0, <2>1 DEF Restored, Snapped, EmptyBucket
    <3>5. /\ turns' \in Seq(Bucket) /\ top \in Nat /\ p \in Paths
          /\ top - 1 \in 0..Len(turns') /\ k \in 1..(top - 1)
      BY <1>0, <2>1, <3>1, <3>3 DEF JTypeOK
    <3> HIDE DEF top
    <3>6. Restored(SubSeq(turns', 1, top - 1), files, k, p) = Restored(turns', files, k, p)
      BY <3>4, <3>5, PrefixRestored
    <3> QED
      BY <2>1, <3>1, <3>2, <3>3, <3>6
  <2> QED
    BY <2>2, <2>3
<1>2. ASSUME NEW q \in Paths, NEW c \in Contents, WriteFile(q, c)
      PROVE  Restored(turns', files', k, p) = starts'[k][p]
  <2>1. starts' = starts /\ drift' = drift
    BY <1>2 DEF WriteFile
  <2>2. Len(turns') = Len(turns)
    BY <2>1 DEF JTypeOK
  <2>3. Restored(turns', files', k, p) = Restored(turns, files, k, p)
    BY <1>2, <2>2, RecordRestored
  <2> QED
    BY <2>1, <2>2, <2>3 DEF PathExact
<1>3. ASSUME NEW q \in Paths, NEW c \in Contents, EditFile(q, c)
      PROVE  Restored(turns', files', k, p) = starts'[k][p]
  BY <1>2, <1>3 DEF EditFile
<1>4. ASSUME NEW q \in Paths, NEW left \in Images, WriteFails(q, left) \/ ForeignWrite(q, left)
      PROVE  Restored(turns', files', k, p) = starts'[k][p]
  <2>1. turns' = turns /\ starts' = starts /\ drift \subseteq drift'
    BY <1>4 DEF WriteFails, ForeignWrite
  <2>2. files'[p] = files[p]
    BY <1>4 DEF WriteFails, ForeignWrite, JTypeOK
  <2> QED
    BY <2>1, <2>2 DEF PathExact, Restored
<1>5. ASSUME NEW n \in Nat \ {0}, NEW failed \in SUBSET Paths, Rewind(n, failed)
      PROVE  Restored(turns', files', k, p) = starts'[k][p]
  <2> DEFINE d == FirstDropped(n)
  <2>1. d \in Nat \ {0} /\ d - 1 \in 0..Len(turns)
    BY FirstDroppedRange
  <2>2. /\ turns' = SubSeq(turns, 1, d - 1) /\ starts' = SubSeq(starts, 1, d - 1)
        /\ p \notin drift /\ p \notin failed
        /\ files'[p] = Restored(turns, files, d, p)
    BY <1>5 DEF Rewind
  <2>3. k \in 1..(d - 1) /\ k \in 1..Len(turns)
    BY <1>0, <2>1, <2>2
  <2>4. Restored(turns', files', k, p) = Restored(turns, files, k, p)
    BY <1>0, <2>1, <2>2, <2>3, PrefixRestored
  <2>5. starts'[k] = starts[k]
    BY <2>1, <2>2, <2>3 DEF JTypeOK
  <2> QED
    BY <2>2, <2>3, <2>4, <2>5 DEF PathExact
<1>6. CASE DiscardLastTurnIfEmpty
  <2>1. CASE turns # <<>> /\ turns[Len(turns)] = EmptyBucket
    <3>1. /\ turns' = SubSeq(turns, 1, Len(turns) - 1)
          /\ starts' = SubSeq(starts, 1, Len(starts) - 1)
          /\ files' = files /\ drift' = drift
      BY <1>6, <2>1 DEF DiscardLastTurnIfEmpty
    <3>2. Restored(turns, files, Len(turns), p) = files'[p]
      BY <2>1, <3>1, EmptyTopRestored
    <3>3. Len(turns) # 0
      BY <1>0, <2>1, EmptySeq
    <3>4. k \in 1..(Len(turns) - 1) /\ k \in 1..Len(turns)
      BY <1>0, <3>1, <3>3
    <3>5. Restored(turns', files', k, p) = Restored(turns, files, k, p)
      BY <1>0, <3>1, <3>2, <3>3, <3>4, PrefixRestored
    <3>6. starts'[k] = starts[k]
      BY <1>0, <3>1, <3>4 DEF JTypeOK
    <3> QED
      BY <3>1, <3>4, <3>5, <3>6 DEF PathExact
  <2>2. CASE ~(turns # <<>> /\ turns[Len(turns)] = EmptyBucket)
    BY <1>6, <2>2 DEF DiscardLastTurnIfEmpty, jvars, PathExact
  <2> QED
    BY <2>1, <2>2
<1>7. CASE Reset
  BY <1>0, <1>7, EmptySeq DEF Reset
<1>8. CASE UNCHANGED jvars
  BY <1>8 DEF jvars, PathExact
<1> QED
  BY <1>1, <1>2, <1>3, <1>4, <1>5, <1>6, <1>7, <1>8, JournalAssumption DEF JNext, JStep

\* Whatever the writes, cancelled turns and rewinds so far, rewinding to any
\* open turn restores every file the journal knows all about to what it held
\* when that turn began.
THEOREM RewindIsExact == JSpec => []RewindExact
<1>1. JInit => RewindExact
  BY EmptySeq DEF JInit, RewindExact
<1>2. JTypeOK /\ JTypeOK' /\ RewindExact /\ [JNext]_jvars => RewindExact'
  <2> SUFFICES ASSUME JTypeOK, JTypeOK', RewindExact, [JNext]_jvars,
                      NEW p \in Paths \ drift'
               PROVE  PathExact(p)'
    BY DEF RewindExact, PathExact
  <2>1. p \notin drift => PathExact(p)
    BY DEF RewindExact, PathExact
  <2> QED
    BY <2>1, PathExactStep, StepsAreJSteps
<1> QED
  BY <1>1, <1>2, JournalTypes, PTL DEF JSpec

\* Any step that drops buckets, other than /clear, leaves every file the
\* journal knows all about as it was when the oldest dropped turn began.
THEOREM DroppedTurnsAreUndone == JSpec => DroppedTurnsUndone
<1> DEFINE Undone == (Len(turns') < Len(turns) /\ ~Reset) =>
          \A p \in Paths \ drift' : files'[p] = starts[Len(turns') + 1][p]
<1>1. JTypeOK /\ JTypeOK' /\ RewindExact /\ [JNext]_jvars => Undone
  <2> SUFFICES ASSUME JTypeOK, JTypeOK', RewindExact, [JNext]_jvars,
                      Len(turns') < Len(turns), ~Reset, NEW p \in Paths \ drift'
               PROVE  files'[p] = starts[Len(turns') + 1][p]
    OBVIOUS
  <2>0. Len(turns) \in Nat /\ Len(turns') \in Nat /\ turns # <<>>
    BY EmptySeq DEF JTypeOK
  <2>1. ASSUME NEW n \in 1..MaxTurns, NEW failed \in SUBSET Paths, Rewind(n, failed)
        PROVE  files'[p] = starts[Len(turns') + 1][p]
    <3> DEFINE d == FirstDropped(n)
    <3>1. d \in 1..Len(turns)
      <4>1. n \in Nat \ {0}
        BY JournalAssumption
      <4> QED
        BY <2>0, <4>1, FirstDroppedRange
    <3>2. p \notin drift /\ files'[p] = Restored(turns, files, d, p)
      BY <2>1 DEF Rewind
    <3>3. Len(turns') + 1 = d
      BY <2>0, <2>1, <3>1 DEF Rewind, JTypeOK
    <3> QED
      BY <3>1, <3>2, <3>3 DEF RewindExact
  <2>2. CASE DiscardLastTurnIfEmpty
    <3>1. CASE turns[Len(turns)] = EmptyBucket
      <4>1. /\ turns' = SubSeq(turns, 1, Len(turns) - 1)
            /\ files' = files /\ drift' = drift
        BY <2>0, <2>2, <3>1 DEF DiscardLastTurnIfEmpty
      <4>2. Len(turns') + 1 = Len(turns) /\ Len(turns) \in 1..Len(turns)
        BY <2>0, <4>1, EmptySeq DEF JTypeOK
      <4>3. Restored(turns, files, Len(turns), p) = files[p]
        BY <2>0, <3>1, EmptyTopRestored
      <4> QED
        BY <4>1, <4>2, <4>3 DEF RewindExact
    <3>2. CASE turns[Len(turns)] # EmptyBucket
      BY <2>0, <2>2, <3>2 DEF DiscardLastTurnIfEmpty, jvars
    <3> QED
      BY <3>1, <3>2
  <2>3. CASE StartTurn
    BY <2>0, <2>3 DEF StartTurn, JTypeOK
  <2>4. ASSUME NEW q \in Paths, NEW c \in Contents, WriteFile(q, c) \/ EditFile(q, c)
        PROVE  FALSE
    <3>1. Len(starts') = Len(turns') /\ Len(starts) = Len(turns) /\ starts' = starts
      BY <2>4 DEF WriteFile, EditFile, JTypeOK
    <3> QED
      BY <2>0, <3>1
  <2>5. ASSUME NEW q \in Paths, NEW left \in Images, WriteFails(q, left) \/ ForeignWrite(q, left)
        PROVE  FALSE
    BY <2>0, <2>5 DEF WriteFails, ForeignWrite
  <2>6. CASE UNCHANGED jvars
    BY <2>0, <2>6 DEF jvars
  <2> QED
    BY <2>1, <2>2, <2>3, <2>4, <2>5, <2>6 DEF JNext
<1>2. (JTypeOK /\ JTypeOK' /\ RewindExact /\ [JNext]_jvars) => [Undone]_jvars
  BY <1>1
<1>3. []JTypeOK /\ []RewindExact /\ [][JNext]_jvars => [][Undone]_jvars
  BY <1>2, PTL
<1> QED
  BY <1>3, JournalTypes, RewindIsExact, PTL DEF JSpec, DroppedTurnsUndone

-----------------------------------------------------------------------------
\* The disk

\* What a step is to the journal: one of its own, /clear or a new process, or a
\* write that it is not told of.
LEMMA DiskStep ==
    ASSUME [Next]_vars
    PROVE  \/ (JStep \/ UNCHANGED jvars) /\ unseen' = unseen
           \/ Reset
           \/ \E p \in Paths, c \in Contents : WriteUnseen(p, c)
<1> DEFINE Still == UNCHANGED jvars /\ unseen' = unseen
<1> USE DEF disk, registry
<1>1. CASE \E kind \in {"chat"} \cup Entries : Submit(kind)
  <2>1. StartTurn /\ unseen' = unseen
    BY <1>1 DEF Submit
  <2> QED
    BY <2>1 DEF JStep, JNext
<1>2. CASE AutoCompactSkip \/ AutoCompactDone \/ BudgetRefuse \/ BeginTurn
  <2>1. Still
    BY <1>2 DEF AutoCompactSkip, AutoCompactDone, BudgetRefuse, BeginTurn
  <2> QED
    BY <2>1
<1>3. CASE \/ \E k \in 0..MaxCalls : ModelReply(k) \/ ReviewReply(k)
           \/ ModelFails \/ ReviewDropped \/ SubReply \/ SubToolsDone
           \/ \E tag \in Results[mode] : ToolReturns(tag)
           \/ PressCtrlC
  <2>1. Still
    BY <1>3 DEF ModelReply, ReviewReply, ReviewEnds, ModelFails, ReviewDropped, SubReply,
                SubToolsDone, ToolReturns, PressCtrlC
  <2> QED
    BY <2>1
<1>4. CASE ToolWrites
  <2>1. CASE unseen' = unseen /\ \E p \in Paths, c \in Contents : WriteFile(p, c) \/ EditFile(p, c)
    BY <2>1 DEF JStep, JNext
  <2>2. CASE unseen' = unseen /\ \E p \in Paths, left \in Images :
                                    WriteFails(p, left) \/ ForeignWrite(p, left)
    BY <2>2 DEF JStep, JNext
  <2> QED
    BY <1>4, <2>1, <2>2 DEF ToolWrites
<1>5. CASE CancelTurn \/ TimeCapHit
  <2>1. (DiscardLastTurnIfEmpty \/ UNCHANGED jvars) /\ unseen' = unseen
    BY <1>5 DEF CancelTurn, TimeCapHit, AbandonTurn
  <2> QED
    BY <2>1 DEF JStep, JNext
<1>6. CASE Clear \/ Restart
  BY <1>6 DEF Clear, Restart
<1>7. CASE \/ SwitchModel \/ Ask \/ TogglePlan \/ CompactCommand \/ ReloadTools
           \/ \E n \in 0..MaxRewind : TrimHistory(n)
           \/ Pin \/ Unpin \/ MemoryCommand \/ Load \/ Resume \/ Fork \/ Review
           \/ Exited \/ UNCHANGED vars
  <2>1. Still
    BY <1>7 DEF SwitchModel, Ask, TogglePlan, CompactCommand, ReloadTools, TrimHistory, Pin,
                Unpin, MemoryCommand, Load, Resume, Fork, Review, Exited, Tell, vars
  <2> QED
    BY <2>1
<1>8. ASSUME NEW n \in 1..MaxRewind, RewindCommand(n)
      PROVE  (JStep \/ UNCHANGED jvars) /\ unseen' = unseen
  <2>1. n \in Nat \ {0} /\ unseen' = unseen
    BY <1>8, AgentAssumption DEF RewindCommand
  <2>2. \E failed \in SUBSET Paths : Rewind(n, failed)
    BY <1>8 DEF RewindCommand
  <2> QED
    BY <2>1, <2>2 DEF JStep
<1>9. CASE UserEdits
  <2>1. unseen' = unseen /\ \E p \in Paths, left \in Images : ForeignWrite(p, left)
    BY <1>9 DEF UserEdits
  <2> QED
    BY <2>1 DEF JStep, JNext
<1> QED
  BY <1>1, <1>2, <1>3, <1>4, <1>5, <1>6, <1>7, <1>8, <1>9 DEF Next

LEMMA DiskTypes == ASSUME JTypeOK, [Next]_vars PROVE JTypeOK'
<1>1. CASE JStep \/ UNCHANGED jvars
  BY <1>1, JTypeStep
<1>2. CASE Reset
  BY <1>2, JTypeStep DEF JStep, JNext
<1>3. ASSUME NEW p \in Paths, NEW c \in Contents, WriteUnseen(p, c) PROVE JTypeOK'
  BY <1>3 DEF WriteUnseen, JTypeOK, Images
<1> QED
  BY <1>1, <1>2, <1>3, DiskStep

\* The files that the first tool registry alone wrote can be rewound exactly,
\* however turns, cancels, rewinds, reloads of the tools, edits by others and
\* restarts follow one another.  (FileJournal, reload_mcp.)
THEOREM ToolEditsAreRewindable == Spec => []ToolEditsRewindable
<1>1. Init => JTypeOK /\ ToolEditsRewindable
  BY EmptySeq DEF Init, JInit, JTypeOK, ToolEditsRewindable
<1>2. JTypeOK /\ ToolEditsRewindable /\ [Next]_vars => JTypeOK' /\ ToolEditsRewindable'
  <2> SUFFICES ASSUME JTypeOK, ToolEditsRewindable, [Next]_vars
               PROVE  JTypeOK' /\ ToolEditsRewindable'
    OBVIOUS
  <2>1. JTypeOK'
    BY DiskTypes
  <2>2. SUFFICES ASSUME NEW p \in Paths \ (drift' \cup unseen') PROVE PathExact(p)'
    BY <2>1 DEF ToolEditsRewindable, PathExact
  <2>3. p \notin drift \cup unseen => PathExact(p)
    BY DEF ToolEditsRewindable, PathExact
  <2>4. CASE (JStep \/ UNCHANGED jvars) /\ unseen' = unseen
    BY <2>1, <2>3, <2>4, PathExactStep
  <2>5. CASE Reset
    BY <2>5, EmptySeq DEF Reset, PathExact
  <2>6. ASSUME NEW q \in Paths, NEW c \in Contents, WriteUnseen(q, c) PROVE PathExact(p)'
    <3>1. /\ turns' = turns /\ starts' = starts /\ p \notin drift \cup unseen
          /\ files'[p] = files[p]
      BY <2>6 DEF WriteUnseen, JTypeOK
    <3> QED
      BY <2>3, <3>1 DEF PathExact, Restored
  <2> QED
    BY <2>4, <2>5, <2>6, DiskStep
<1> QED
  BY <1>1, <1>2, PTL DEF Spec

-----------------------------------------------------------------------------
\* Positions

\* A bounded set of naturals has a greatest element.
LEMMA GreatestNat ==
    ASSUME NEW n \in Nat, NEW N, N \subseteq 1..n, N # {}
    PROVE  \E x \in N : \A y \in N : y <= x
<1> DEFINE T == {d \in 0..n : n - d \in N}
<1>0. T \subseteq Nat
  OBVIOUS
<1>1. T # {}
  <2>1. PICK x \in N : TRUE
    OBVIOUS
  <2>2. n - x \in 0..n /\ n - (n - x) = x
    BY <2>1
  <2>3. n - x \in T
    BY <2>1, <2>2
  <2> QED
    BY <2>3
<1>2. PICK d \in T : \A e \in T : d <= e
  <2> HIDE DEF T
  <2> QED
    BY <1>0, <1>1, LeastNat
<1>3. n - d \in N /\ d \in 0..n
  OBVIOUS
<1>4. ASSUME NEW y \in N PROVE y <= n - d
  <2>1. n - y \in T
    OBVIOUS
  <2> QED
    BY <1>2, <1>3, <2>1
<1> QED
  BY <1>3, <1>4

\* There is a k-th element from the end.
LEMMA Ranked ==
    ASSUME NEW n \in Nat, NEW N, N \subseteq 1..n, NEW k \in 1..Cardinality(N)
    PROVE  FromEnd(N, k) \in N
<1> DEFINE From(i) == {j \in N : i <= j}
           Good(m) == \E i \in N : Cardinality(From(i)) = m
           T == {m \in Nat : m + 1 <= Cardinality(N) => Good(m + 1)}
<1>1. IsFiniteSet(N) /\ Cardinality(N) \in Nat
  <2>1. IsFiniteSet(1..n)
    BY FS_Interval
  <2>2. IsFiniteSet(N)
    BY <2>1, FS_Subset
  <2> QED
    BY <2>2, FS_CardinalityType
<1>0. N \subseteq Nat
  OBVIOUS
<1>2. \A i : IsFiniteSet(From(i))
  BY <1>1, FS_Subset
<1>3. 0 \in T
  <2> SUFFICES ASSUME 1 <= Cardinality(N) PROVE Good(1)
    OBVIOUS
  <2>1. N # {}
    BY FS_EmptySet
  <2>2. PICK x \in N : \A y \in N : y <= x
    BY <2>1, GreatestNat
  <2>3. From(x) = {x}
    <3>1. \A y \in N : x <= y <=> y = x
      BY <1>0, <2>2
    <3> QED
      BY <3>1
  <2> QED
    BY <2>3, FS_Singleton
<1>4. ASSUME NEW m \in Nat, m \in T PROVE m + 1 \in T
  <2> SUFFICES ASSUME (m + 1) + 1 <= Cardinality(N) PROVE Good((m + 1) + 1)
    OBVIOUS
  <2>1. Good(m + 1)
    BY <1>1, <1>4
  <2>2. PICK i \in N : Cardinality(From(i)) = m + 1
    BY <2>1
  <2> DEFINE B == {j \in N : j < i}
  <2>3. B # {}
    <3>1. SUFFICES ASSUME B = {} PROVE FALSE
      OBVIOUS
    <3>2. From(i) = N
      <4>1. \A j \in N : i <= j
        BY <1>0, <3>1
      <4> QED
        BY <4>1
    <3> QED
      BY <1>1, <2>2, <3>2
  <2>4. PICK x \in B : \A y \in B : y <= x
    <3>1. B \subseteq 1..n
      OBVIOUS
    <3> HIDE DEF B
    <3> QED
      BY <2>3, <3>1, GreatestNat
  <2>5. From(x) = From(i) \cup {x} /\ x \notin From(i) /\ x \in N
    <3>1. x \in N /\ x < i
      BY <2>4
    <3>2. \A j \in N : x <= j <=> (i <= j \/ j = x)
      BY <1>0, <2>4, <3>1
    <3>3. ~(i <= x)
      BY <1>0, <3>1
    <3> QED
      BY <3>1, <3>2, <3>3
  <2>6. Cardinality(From(x)) = (m + 1) + 1
    BY <1>2, <2>2, <2>5, FS_AddElement
  <2> QED
    BY <2>5, <2>6
<1>5. Nat \subseteq T
  <2> HIDE DEF T
  <2> QED
    BY <1>3, <1>4, AllNat
<1>6. k - 1 \in Nat /\ (k - 1) + 1 = k
  BY <1>1
<1>7. Good(k)
  <2> HIDE DEF Good
  <2> QED
    BY <1>1, <1>5, <1>6
<1> QED
  BY <1>7 DEF FromEnd

LEMMA CutIsThere ==
    ASSUME NEW h, Len(h) \in Nat, NEW k \in 1..Cardinality(NonSystem(h))
    PROVE  CutAt(h, k) \in NonSystem(h) /\ CutAt(h, k) \in 1..Len(h)
<1>1. NonSystem(h) \subseteq 1..Len(h)
  BY DEF NonSystem
<1> QED
  BY <1>1, Ranked DEF CutAt

LEMMA PreambleIs ==
    ASSUME NEW h, Len(h) \in Nat
    PROVE  /\ Preamble(h) \in 0..Len(h)
           /\ \A j \in 1..Preamble(h) : IsSystem(h[j])
           /\ Preamble(h) = Len(h) \/ ~IsSystem(h[Preamble(h) + 1])
<1> DEFINE Is0(i) == (\A j \in 1..i : IsSystem(h[j])) /\ (i = Len(h) \/ ~IsSystem(h[i + 1]))
<1>1. \E i \in 0..Len(h) : Is0(i)
  <2>1. CASE NonSystem(h) = {}
    <3>1. Is0(Len(h)) /\ Len(h) \in 0..Len(h)
      BY <2>1 DEF NonSystem
    <3> QED
      BY <3>1
  <2>2. CASE NonSystem(h) # {}
    <3>1. NonSystem(h) \subseteq Nat
      BY DEF NonSystem
    <3>2. PICK i \in NonSystem(h) : \A j \in NonSystem(h) : i <= j
      BY <2>2, <3>1, LeastNat
    <3>3. i \in 1..Len(h) /\ ~IsSystem(h[i]) /\ i - 1 \in 0..Len(h) /\ (i - 1) + 1 = i
      BY <3>2 DEF NonSystem
    <3>4. \A j \in 1..(i - 1) : IsSystem(h[j])
      BY <3>2, <3>3 DEF NonSystem
    <3>5. Is0(i - 1)
      BY <3>3, <3>4
    <3> HIDE DEF Is0
    <3> QED
      BY <3>3, <3>5
  <2> QED
    BY <2>1, <2>2
<1>2. Preamble(h) = CHOOSE i \in 0..Len(h) : Is0(i)
  BY DEF Preamble
<1>3. Preamble(h) \in 0..Len(h) /\ Is0(Preamble(h))
  <2> HIDE DEF Is0
  <2> QED
    BY <1>1, <1>2
<1> QED
  BY <1>3

-----------------------------------------------------------------------------
\* What becomes of a conversation is one

Conversation == Seq(Message)

LEMMA MessageTypes ==
    /\ \A tag \in SystemTags : System(tag) \in Message
    /\ User \in Message
    /\ \A k \in 0..MaxCalls : Assistant(k) \in Message
    /\ \A tag \in {"ok", "error", "denied"} : \A i \in 1..MaxCalls : Tool(tag, i) \in Message
  BY DEF Message, System, User, Assistant, Tool

LEMMA AppendTypes ==
    ASSUME NEW h \in Conversation, NEW m \in Message
    PROVE  /\ Append(h, m) \in Conversation
           /\ \A a \in Message : h \o <<a, m>> \in Conversation
  BY DEF Conversation

LEMMA KeptType ==
    ASSUME NEW h \in Conversation, NEW I, I \subseteq 1..Len(h) PROVE Kept(h, I) \in Conversation
  BY KeptEmbeds DEF Conversation

LEMMA CutTypes ==
    ASSUME NEW h \in Conversation, NEW n \in Nat
    PROVE  /\ Truncate(h, n) \in Conversation
           /\ Unhinted(h) \in Conversation
           /\ Trimmed(h, n) \in Conversation
<1>1. Truncate(h, n) \in Conversation
  BY DEF Truncate, Conversation
<1>2. Unhinted(h) \in Conversation
  BY KeptType DEF Unhinted
<1>3. Trimmed(h, n) \in Conversation
  <2> DEFINE c == FromEnd(Users(h), n)
  <2>1. CASE n = 0
    BY <2>1, KeptType DEF Trimmed, Systems
  <2>2. CASE n # 0 /\ Cardinality(Users(h)) <= n
    BY <2>2 DEF Trimmed
  <2>3. CASE n # 0 /\ ~(Cardinality(Users(h)) <= n)
    <3>1. IsFiniteSet(1..Len(h)) /\ Users(h) \subseteq 1..Len(h) /\ Len(h) \in Nat
      BY FS_Interval DEF Conversation, Users
    <3>2. Cardinality(Users(h)) \in Nat
      BY <3>1, FS_Subset, FS_CardinalityType
    <3>3. n \in 1..Cardinality(Users(h))
      BY <2>3, <3>2
    <3>4. c \in 1..Len(h)
      BY <3>1, <3>3, Ranked
    <3>5. Systems(h) \cup (c..Len(h)) \subseteq 1..Len(h)
      <4> HIDE DEF c
      <4> QED
        BY <3>1, <3>4 DEF Systems
    <3>6. Trimmed(h, n) = Kept(h, Systems(h) \cup (c..Len(h)))
      BY <2>3 DEF Trimmed
    <3> QED
      BY <3>5, <3>6, KeptType
  <2> QED
    BY <2>1, <2>2, <2>3
<1> QED
  BY <1>1, <1>2, <1>3

\* An insertion and a compaction bring nothing but the message they put in.
LEMMA InsertIn ==
    ASSUME NEW S, NEW h \in Seq(S), NEW tag, System(tag) \in S
    PROVE  /\ Without(h, tag) \in Seq(S)
           /\ Inserted(h, tag) \in Seq(S)
<1>1. Without(h, tag) \in Seq(S)
  BY KeptEmbeds DEF Without
<1>2. Preamble(h) \in 0..Len(h) /\ Len(h) \in Nat
  BY PreambleIs
<1>3. Inserted(h, tag) \in Seq(S)
  BY <1>2 DEF Inserted
<1> QED
  BY <1>1, <1>3

LEMMA CompactedIn ==
    ASSUME NEW S, NEW h \in Seq(S), System("note") \in S, NEW c \in 1..Len(h)
    PROVE  Compacted(h, c) \in Seq(S)
<1>1. Len(h) \in Nat
  OBVIOUS
<1>2. Kept(h, Systems(h) \cap (1..(c - 1))) \in Seq(S)
  BY <1>1, KeptEmbeds
<1>3. SubSeq(h, c, Len(h)) \in Seq(S)
  BY <1>1
<1> QED
  BY <1>2, <1>3 DEF Compacted

LEMMA InsertTypes ==
    ASSUME NEW h \in Conversation, NEW tag \in SystemTags
    PROVE  /\ Without(h, tag) \in Conversation
           /\ Inserted(h, tag) \in Conversation
  BY InsertIn, MessageTypes DEF Conversation

LEMMA InjectedTypes ==
    ASSUME NEW h \in Conversation PROVE Injected(h) \subseteq Conversation
  BY InsertTypes DEF Injected, SystemTags

LEMMA CutAtTypes ==
    ASSUME NEW h \in Conversation, NEW c \in 1..Len(h)
    PROVE  Compacted(h, c) \in Conversation /\ Rewound(h, c) \in Conversation
<1>1. Len(h) \in Nat
  BY DEF Conversation
<1>2. Compacted(h, c) \in Conversation
  BY CompactedIn, MessageTypes DEF Conversation, SystemTags
<1>3. (1..(c - 1)) \cup Systems(h) \subseteq 1..Len(h)
  BY <1>1 DEF Systems
<1> QED
  BY <1>2, <1>3, KeptType DEF Rewound

-----------------------------------------------------------------------------
\* Control

Open == {"compacting", "begin", "model"} \cup Running

LoopOK ==
    /\ turnStart \in Nat
    /\ step \in 0..(StepCap - 1)
    /\ calls \in 0..MaxCalls
    /\ call \in 0..calls
    /\ errs \in Nat
    /\ sub \in 0..SubSteps

\* A turn is under way exactly between its opening and one of its ends; a one-shot
\* run alone exits, and has no commands.
PhaseOK ==
    /\ mode \in Modes
    /\ pc \in {"idle", "review", "exit"} \cup Open
    /\ pc \in Running => call # 0
    /\ sub # 0 <=> pc \in Running \ {"tool"}
    /\ outcome \in {"none", "running", "done", "capped", "refused",
                    "cancelled", "failed", "stuck", "timeout"}
    /\ entry \in {"none", "chat", "skill", "agent"}
    /\ outcome = "running" <=> pc \in Open
    /\ pc = "review" => ~Headless
    /\ pc = "exit" => Headless
    /\ outcome = "stuck" => Headless

LeftOK ==
    /\ cancel \in BOOLEAN
    /\ compacted \in BOOLEAN
    /\ severed \in BOOLEAN
    /\ shared \in BOOLEAN
    /\ wiped \in BOOLEAN
    /\ unseen \subseteq Paths
    /\ log \in Seq(Events)
    /\ pinned \in 0..MaxPins
    /\ savedPinned \in 0..MaxPins

TextOK ==
    /\ history \in Conversation
    /\ saved \in Conversation
    /\ base \in Conversation
    /\ baseTurns \in Seq(Bucket)

Control == LoopOK /\ PhaseOK

LEMMA TypesAre == ASSUME Control, LeftOK, TextOK, JTypeOK PROVE TypeOK
<1>1. pc \in {"idle", "compacting", "begin", "model", "review", "exit"} \cup Running
  BY DEF Control, PhaseOK, Open
<1> QED
  BY <1>1 DEF TypeOK, Control, LoopOK, PhaseOK, LeftOK, TextOK, Conversation

LEMMA Caps == StepCap \in Nat \ {0} /\ {SubSteps, MaxCalls, MaxPins} \subseteq Nat
  BY AgentAssumption

\* The commands that are over at once.
QuickCommand ==
    \/ Clear \/ SwitchModel \/ Ask \/ TogglePlan \/ CompactCommand \/ ReloadTools
    \/ \E n \in 1..MaxRewind : RewindCommand(n)
    \/ \E n \in 0..MaxRewind : TrimHistory(n)
    \/ Pin \/ Unpin \/ MemoryCommand \/ Load \/ Resume \/ Fork

Idles == UserEdits \/ Exited \/ UNCHANGED vars

LEMMA QuickCommands == ASSUME QuickCommand PROVE \E cmd \in Commands : Quick(cmd)
  BY DEF QuickCommand, Clear, SwitchModel, Ask, TogglePlan, CompactCommand, ReloadTools,
         RewindCommand, TrimHistory, Pin, Unpin, MemoryCommand, Tell, Load, Resume, Fork,
         Quick, Command

\* The ways out of a turn, but for a reply or a result that ends it.
Drops == BudgetRefuse \/ ModelFails \/ CancelTurn \/ TimeCapHit

LEMMA StepKinds ==
    ASSUME [Next]_vars
    PROVE  \/ \E kind \in {"chat"} \cup Entries : Submit(kind)
           \/ AutoCompactSkip \/ AutoCompactDone \/ BeginTurn
           \/ \E k \in 0..MaxCalls : ModelReply(k)
           \/ \E k \in 0..MaxCalls : ReviewReply(k)
           \/ ReviewDropped \/ Review
           \/ Drops
           \/ SubReply \/ SubToolsDone \/ ToolWrites \/ PressCtrlC
           \/ \E tag \in Results[mode] : ToolReturns(tag)
           \/ QuickCommand \/ Restart \/ Idles
  BY DEF Next, QuickCommand, Drops, Idles

LEMMA LeaveOK ==
    ASSUME Control, mode' = mode, NEW how \in {"done", "capped", "refused", "cancelled",
           "failed", "stuck", "timeout"}, how = "stuck" => Headless, Leave(how)
    PROVE  Control'
<1>1. LoopOK'
  BY Caps DEF Leave, LoopOK
<1>2. PhaseOK'
  BY DEF Leave, Control, PhaseOK, Headless, Open, Running
<1> QED
  BY <1>1, <1>2 DEF Control

LEMMA CallStartsOK ==
    ASSUME Control, CallStarts, mode' = mode, calls' \in 0..MaxCalls, call' \in 1..(calls'),
           pc \in {"model"} \cup Running,
           UNCHANGED <<turnStart, step, outcome, entry>>, errs' \in Nat
    PROVE  Control'
<1>1. sub' \in {0, 1} /\ sub' \in 0..SubSteps /\ pc' \in {"tool", "submodel"}
      /\ (sub' # 0 <=> pc' = "submodel")
  BY Caps DEF CallStarts
<1>2. LoopOK'
  BY <1>1 DEF Control, LoopOK
<1>3. PhaseOK'
  BY <1>1 DEF Control, PhaseOK, Headless, Open, Running
<1> QED
  BY <1>2, <1>3 DEF Control

\* What a step may make of the conversation, the saved one and the ghosts.
LEMMA CompactCut ==
    ASSUME TextOK, Compact
    PROVE  /\ CutAt(history, KeepRecent) \in NonSystem(history)
           /\ CutAt(history, KeepRecent) \in 1..Len(history)
<1>1. Len(history) \in Nat /\ NonSystem(history) \subseteq 1..Len(history)
  BY DEF TextOK, Conversation, NonSystem
<1>2. Cardinality(NonSystem(history)) \in Nat
  <2>1. IsFiniteSet(1..Len(history))
    BY <1>1, FS_Interval
  <2> QED
    BY <1>1, <2>1, FS_Subset, FS_CardinalityType
<1>3. KeepRecent \in 1..Cardinality(NonSystem(history))
  BY <1>2, AgentAssumption DEF Compact
<1> QED
  BY <1>1, <1>3, CutIsThere

LEMMA CompactTypes ==
    ASSUME TextOK, Compact
    PROVE  history' \in Conversation /\ saved' = history'
<1> DEFINE c == CutAt(history, KeepRecent)
           short == Compacted(history, c)
<1>4. c \in 1..Len(history)
  BY CompactCut
<1>5. short \in Conversation
  BY <1>4, CutAtTypes DEF TextOK
<1>6. Inserted(Without(short, "memory"), "memory") \in Conversation
  BY <1>5, InsertTypes DEF SystemTags
<1>7. history' \in {short, Inserted(Without(short, "memory"), "memory")} /\ saved' = history'
  BY DEF Compact, Checkpoint
<1> QED
  BY <1>5, <1>6, <1>7

LEMMA QuickText == ASSUME TextOK, QuickCommand PROVE TextOK'
<1>0. base' = base /\ baseTurns' = baseTurns
  BY QuickCommands DEF Quick, Command, ghosts
<1> SUFFICES history' \in Conversation /\ saved' \in Conversation
  BY <1>0 DEF TextOK
<1> USE DEF session
<1>a. \A tag \in SystemTags : System(tag) \in Message
  BY MessageTypes
<1>1. CASE Clear \/ SwitchModel
  BY <1>1, EmptySeq DEF Clear, SwitchModel, DropConversation, Conversation
<1>2. CASE Ask \/ TogglePlan
  <2>1. /\ history' \in {Append(history, System("single")), Append(history, System("note"))}
        /\ saved' = saved
    BY <1>2 DEF Ask, TogglePlan, Tell
  <2>2. System("single") \in Message /\ System("note") \in Message
    BY <1>a DEF SystemTags
  <2>3. \A m \in Message : Append(history, m) \in Conversation
    BY AppendTypes DEF TextOK
  <2> QED
    BY <2>1, <2>2, <2>3 DEF TextOK
<1>3. CASE MemoryCommand
  <2>1. history' \in Injected(history) /\ saved' = saved
    BY <1>3 DEF MemoryCommand, Tell
  <2> QED
    BY <2>1, InjectedTypes DEF TextOK
<1>4. CASE CompactCommand
  BY <1>4, CompactTypes DEF CompactCommand
<1>5. CASE ReloadTools
  BY <1>5 DEF ReloadTools, TextOK
<1>6. ASSUME NEW n \in 1..MaxRewind, RewindCommand(n)
      PROVE  history' \in Conversation /\ saved' \in Conversation
  <2> DEFINE k == Cardinality(NonSystem(history))
             m == IF 2 * n < k THEN 2 * n ELSE k
             c == CutAt(history, m)
  <2>1. Len(history) \in Nat /\ NonSystem(history) \subseteq 1..Len(history)
    BY DEF TextOK, Conversation, NonSystem
  <2>2. k \in Nat /\ k # 0
    <3>1. IsFiniteSet(1..Len(history))
      BY <2>1, FS_Interval
    <3>2. IsFiniteSet(NonSystem(history))
      BY <2>1, <3>1, FS_Subset
    <3> QED
      BY <1>6, <3>2, FS_CardinalityType, FS_EmptySet DEF RewindCommand
  <2>3. m \in 1..k
    BY <1>6, <2>2, AgentAssumption
  <2>4. c \in 1..Len(history)
    BY <2>1, <2>3, CutIsThere
  <2>5. history' = Rewound(history, c) /\ saved' = history'
    BY <1>6 DEF RewindCommand, Checkpoint
  <2> QED
    BY <2>4, <2>5, CutAtTypes DEF TextOK
<1>7. ASSUME NEW n \in 0..MaxRewind, TrimHistory(n)
      PROVE  history' \in Conversation /\ saved' \in Conversation
  <2>1. history' = Trimmed(history, n) /\ saved' = history' /\ n \in Nat
    BY <1>7 DEF TrimHistory, Checkpoint
  <2> QED
    BY <2>1, CutTypes DEF TextOK
<1>8. CASE Pin
  <2>1. history' = Inserted(history, "pin") /\ saved' = history'
    BY <1>8 DEF Pin, Checkpoint
  <2> QED
    BY <2>1, InsertTypes DEF TextOK, SystemTags
<1>9. CASE Unpin
  <2>1. \E I \in SUBSET (1..Len(history)) : history' = Kept(history, I)
    BY <1>9 DEF Unpin
  <2>2. saved' = history'
    BY <1>9 DEF Unpin, Checkpoint
  <2> QED
    BY <2>1, <2>2, KeptType DEF TextOK
<1>10. CASE Load
  <2>1. Earlier \in Conversation
    BY MessageTypes, AgentAssumption DEF Earlier, Conversation
  <2> QED
    BY <1>10, <2>1 DEF Load, TextOK
<1>11. CASE Resume
  BY <1>11, InjectedTypes DEF Resume, Reopened, TextOK
<1>12. CASE Fork
  <2> DEFINE ends == {i \in 1..Len(history) : IsReply(history[i])}
             last == CHOOSE i \in ends : \A j \in ends : j <= i
  <2>1. ends # {} /\ history' = SubSeq(history, 1, last) /\ saved' = history'
    BY <1>12 DEF Fork, Checkpoint
  <2>2. last \in ends
    <3>1. ends \subseteq 1..Len(history) /\ Len(history) \in Nat
      BY DEF TextOK, Conversation
    <3>2. \E i \in ends : \A j \in ends : j <= i
      <4> HIDE DEF ends
      <4> QED
        BY <2>1, <3>1, GreatestNat
    <3> HIDE DEF ends
    <3> QED
      BY <3>2
  <2>3. last \in 1..Len(history)
    BY <2>2
  <2>4. SubSeq(history, 1, last) \in Conversation
    <3> HIDE DEF last
    <3> QED
      BY <2>3 DEF TextOK, Conversation
  <2> QED
    BY <2>1, <2>4
<1> QED
  BY <1>1, <1>2, <1>3, <1>4, <1>5, <1>6, <1>7, <1>8, <1>9, <1>10, <1>11, <1>12 DEF QuickCommand

LEMMA TextStep == ASSUME Control, TextOK, JTypeOK, [Next]_vars PROVE TextOK'
<1> USE DEF ghosts, session
<1>a. \A tag \in SystemTags : System(tag) \in Message
  BY MessageTypes
<1>b. TextOK => <<>> \in Conversation /\ <<>> \in Seq(Bucket)
  BY EmptySeq DEF Conversation
<1>1. ASSUME NEW kind, Submit(kind) PROVE TextOK'
  <2>1. base' = history /\ baseTurns' = turns /\ saved' = saved
    BY <1>1 DEF Submit
  <2>2. history' \in {Append(history, User), Append(history, System("single")),
                      history \o <<System("single"), User>>}
    <3>1. kind \in {"chat", "skill", "agent"}
      BY <1>1, AgentAssumption DEF Submit
    <3> QED
      BY <1>1, <3>1 DEF Submit
  <2>3. User \in Message /\ System("single") \in Message
    BY MessageTypes DEF SystemTags
  <2>4. history' \in Conversation
    BY <2>2, <2>3, AppendTypes DEF TextOK
  <2> QED
    BY <2>1, <2>4 DEF TextOK, JTypeOK
<1>2. CASE AutoCompactDone
  BY <1>2, CompactTypes DEF AutoCompactDone, TextOK
<1>3. ASSUME NEW k \in 0..MaxCalls, ModelReply(k) PROVE TextOK'
  <2> DEFINE h == Append(history, Assistant(k))
  <2>1. h \in Conversation
    BY MessageTypes DEF TextOK, Conversation
  <2>2. CASE k = 0
    <3>1. history' = Unhinted(h) /\ saved' = history' /\ base' = <<>> /\ baseTurns' = <<>>
      BY <1>3, <2>2 DEF ModelReply, EndTurn, Checkpoint, Leave
    <3>2. Unhinted(h) \in Conversation
      <4> HIDE DEF h
      <4> QED
        BY <2>1, CutTypes
    <3> QED
      BY <1>b, <3>1, <3>2 DEF TextOK
  <2>3. CASE k # 0
    <3>1. history' = h /\ saved' = saved /\ base' = base /\ baseTurns' = baseTurns
      BY <1>3, <2>3 DEF ModelReply
    <3> QED
      BY <2>1, <3>1 DEF TextOK
  <2> QED
    BY <2>2, <2>3
<1>4. ASSUME NEW k \in 0..MaxCalls, ReviewReply(k) PROVE TextOK'
  <2>1. history' = Append(history, Assistant(k)) /\ saved' = saved /\ base' = base
        /\ baseTurns' = baseTurns
    BY <1>4 DEF ReviewReply, ReviewEnds
  <2> QED
    BY <2>1, MessageTypes DEF TextOK, Conversation
<1>5. CASE ReviewDropped \/ CancelTurn \/ TimeCapHit \/ ModelFails \/ BudgetRefuse
  <2>1. history' = Truncate(history, turnStart) \/ history' = history
    BY <1>5 DEF ReviewDropped, CancelTurn, TimeCapHit, ModelFails, BudgetRefuse, AbandonTurn
  <2>2. saved' = saved /\ base' \in {base, <<>>} /\ baseTurns' \in {baseTurns, <<>>}
    BY <1>5 DEF ReviewDropped, ReviewEnds, CancelTurn, TimeCapHit, ModelFails, BudgetRefuse, Leave
  <2>3. history' \in Conversation
    BY <2>1, CutTypes DEF TextOK, Control, LoopOK
  <2> QED
    BY <1>b, <2>2, <2>3 DEF TextOK
<1>6. CASE Review
  <2>1. history' = Append(history, User) /\ saved' = saved /\ base' = base
        /\ baseTurns' = baseTurns
    BY <1>6 DEF Review, Command
  <2> QED
    BY <2>1, MessageTypes DEF TextOK, Conversation
<1>7. ASSUME NEW tag \in Results[mode], ToolReturns(tag) PROVE TextOK'
  <2> DEFINE h == Append(history, Tool(tag, call))
  <2>1. Tool(tag, call) \in Message
    <3>1. tag \in {"ok", "error", "denied"}
      BY AgentAssumption DEF Control, PhaseOK
    <3>2. call \in 1..MaxCalls
      BY <1>7, Caps DEF ToolReturns, CallEnds, Control, LoopOK, PhaseOK, Running
    <3> QED
      BY <3>1, <3>2, MessageTypes
  <2>2. h \in Conversation
    BY <2>1 DEF TextOK, Conversation
  <2>3. \/ /\ history' \in {h, Unhinted(h)} /\ saved' \in {saved, history'}
           /\ base' \in {base, <<>>} /\ baseTurns' \in {baseTurns, <<>>}
    BY <1>7 DEF ToolReturns, EndTurn, Checkpoint, Leave
  <2>4. Unhinted(h) \in Conversation
    <3> HIDE DEF h
    <3> QED
      BY <2>2, CutTypes
  <2> HIDE DEF h
  <2> QED
    BY <1>b, <2>2, <2>3, <2>4 DEF TextOK
<1>8. CASE Restart
  <2>1. history' \in Injected(saved) /\ saved' = saved /\ base' = <<>> /\ baseTurns' = <<>>
    BY <1>8 DEF Restart, Reopened
  <2> QED
    BY <1>b, <2>1, InjectedTypes DEF TextOK
<1>9. CASE AutoCompactSkip \/ BeginTurn \/ SubReply \/ SubToolsDone \/ ToolWrites \/ PressCtrlC
           \/ Idles
  <2>1. UNCHANGED <<history, saved, base, baseTurns>>
    BY <1>9 DEF AutoCompactSkip, BeginTurn, SubReply, SubToolsDone, ToolWrites, PressCtrlC, Idles,
                UserEdits, Exited, vars
  <2> QED
    BY <2>1 DEF TextOK
<1> QED
  BY <1>1, <1>2, <1>3, <1>4, <1>5, <1>6, <1>7, <1>8, <1>9, StepKinds, QuickText DEF Drops

LEMMA ControlStep == ASSUME Control, TextOK, TextOK', [Next]_vars PROVE Control'
<1> USE DEF loop, ghosts
<1>a. Len(history) \in Nat /\ Len(history') \in Nat
  BY DEF TextOK, Conversation
<1>1. ASSUME NEW kind, Submit(kind) PROVE Control'
  <2>1. kind \in {"chat", "skill", "agent"}
    BY <1>1, AgentAssumption DEF Submit
  <2>2. /\ pc = "idle" /\ pc' = "compacting" /\ outcome' = "running" /\ entry' = kind
        /\ turnStart' \in {Len(history), Len(history')} /\ mode' = mode
        /\ UNCHANGED <<step, calls, call, errs, sub>>
    BY <1>1 DEF Submit
  <2> QED
    BY <1>a, <2>1, <2>2 DEF Control, LoopOK, PhaseOK, Open, Running, Headless
<1>2. CASE AutoCompactSkip \/ AutoCompactDone
  <2>1. /\ pc = "compacting" /\ pc' = "begin" /\ outcome' = outcome /\ entry' = entry
        /\ UNCHANGED <<mode, turnStart, step, calls, call, errs, sub>>
    BY <1>2 DEF AutoCompactSkip, AutoCompactDone
  <2> QED
    BY <2>1 DEF Control, LoopOK, PhaseOK, Open, Running, Headless
<1>3. CASE BeginTurn
  <2>1. /\ pc = "begin" /\ pc' = "model" /\ outcome' = outcome /\ entry' = entry
        /\ step' = 0 /\ errs' = 0 /\ calls' = 0 /\ call' = 0 /\ sub' = 0
        /\ UNCHANGED <<mode, turnStart>>
    BY <1>3 DEF BeginTurn
  <2> QED
    BY <2>1, Caps DEF Control, LoopOK, PhaseOK, Open, Running, Headless
<1>4. CASE Drops
  <2>1. mode' = mode /\ \E how \in {"refused", "failed", "cancelled", "timeout"} : Leave(how)
    BY <1>4 DEF Drops, BudgetRefuse, ModelFails, CancelTurn, TimeCapHit
  <2>2. PICK how \in {"refused", "failed", "cancelled", "timeout"} : Leave(how)
    BY <2>1
  <2> QED
    BY <2>1, <2>2, LeaveOK
<1>5. ASSUME NEW k \in 0..MaxCalls, ModelReply(k) PROVE Control'
  <2>1. mode' = mode /\ pc = "model"
    BY <1>5 DEF ModelReply
  <2>2. CASE k = 0
    <3>1. Leave("done")
      BY <1>5, <2>2 DEF ModelReply, EndTurn
    <3> QED
      BY <2>1, <3>1, LeaveOK
  <2>3. CASE k # 0
    <3>1. /\ CallStarts /\ calls' = k /\ call' = 1
          /\ UNCHANGED <<turnStart, step, errs, outcome, entry>>
      BY <1>5, <2>3 DEF ModelReply
    <3>2. calls' \in 0..MaxCalls /\ call' \in 1..(calls') /\ errs' \in Nat
      BY <2>3, <3>1, Caps DEF Control, LoopOK
    <3> QED
      BY <2>1, <3>1, <3>2, CallStartsOK
  <2> QED
    BY <2>2, <2>3
<1>6. ASSUME NEW tag \in Results[mode], ToolReturns(tag) PROVE Control'
  <2>1. mode' = mode /\ pc \in Running
    BY <1>6 DEF ToolReturns, CallEnds, Running
  <2>2. ErrorsAfter(tag) \in Nat
    BY DEF ErrorsAfter, Control, LoopOK
  <2>3. CASE (Leave("stuck") /\ Headless) \/ Leave("capped")
    BY <2>1, <2>3, LeaveOK
  <2>4. CASE /\ call # calls /\ call' = call + 1 /\ errs' = ErrorsAfter(tag) /\ CallStarts
             /\ UNCHANGED <<turnStart, step, calls, outcome, entry>>
    <3>1. calls' \in 0..MaxCalls /\ call' \in 1..(calls') /\ errs' \in Nat
      BY <2>2, <2>4, Caps DEF Control, LoopOK
    <3> QED
      BY <2>1, <2>4, <3>1, CallStartsOK
  <2>5. CASE /\ step + 1 # StepCap /\ pc' = "model"
             /\ step' = step + 1 /\ errs' = ErrorsAfter(tag)
             /\ calls' = 0 /\ call' = 0 /\ sub' = 0
             /\ UNCHANGED <<turnStart, outcome, entry>>
    <3>1. LoopOK'
      BY <2>2, <2>5, Caps DEF Control, LoopOK
    <3>2. PhaseOK'
      BY <2>1, <2>5 DEF Control, PhaseOK, Open, Running, Headless
    <3> QED
      BY <3>1, <3>2 DEF Control
  <2>6. \/ Leave("stuck") /\ Headless
        \/ Leave("capped")
        \/ /\ call # calls /\ call' = call + 1 /\ errs' = ErrorsAfter(tag) /\ CallStarts
           /\ UNCHANGED <<turnStart, step, calls, outcome, entry>>
        \/ /\ step + 1 # StepCap /\ pc' = "model"
           /\ step' = step + 1 /\ errs' = ErrorsAfter(tag)
           /\ calls' = 0 /\ call' = 0 /\ sub' = 0
           /\ UNCHANGED <<turnStart, outcome, entry>>
    BY <1>6 DEF ToolReturns, EndTurn
  <2> QED
    BY <2>3, <2>4, <2>5, <2>6
<1>7. CASE SubReply \/ SubToolsDone
  <2>1. /\ UNCHANGED <<mode, turnStart, step, calls, call, errs, outcome, entry>>
        /\ \/ pc = "submodel" /\ pc' = "subtool" /\ sub' = sub
           \/ pc = "subtool" /\ pc' = "submodel" /\ sub < SubSteps /\ sub' = sub + 1
    BY <1>7 DEF SubReply, SubToolsDone
  <2>2. LoopOK'
    BY <2>1, Caps DEF Control, LoopOK
  <2>3. PhaseOK'
    BY <2>1, Caps DEF Control, LoopOK, PhaseOK, Open, Running, Headless
  <2> QED
    BY <2>2, <2>3 DEF Control
<1>8. CASE ToolWrites \/ PressCtrlC \/ Idles
  <2>1. UNCHANGED <<mode, pc, turnStart, step, calls, call, errs, sub, outcome, entry>>
    BY <1>8 DEF ToolWrites, PressCtrlC, Idles, UserEdits, Exited, vars
  <2> QED
    BY <2>1 DEF Control, LoopOK, PhaseOK, Headless
<1>9. CASE QuickCommand
  <2>1. /\ pc = "idle" /\ outcome' = "none"
        /\ UNCHANGED <<mode, pc, turnStart, step, calls, call, errs, sub, entry>>
    BY <1>9, QuickCommands DEF Quick, Command
  <2> QED
    BY <2>1 DEF Control, LoopOK, PhaseOK, Headless, Open, Running
<1>10. CASE Review
  <2>1. /\ pc = "idle" /\ ~Headless /\ pc' = "review" /\ outcome' = "none"
        /\ turnStart' = Len(history)
        /\ UNCHANGED <<mode, step, calls, call, errs, sub, entry>>
    BY <1>10 DEF Review, Command
  <2> QED
    BY <1>a, <2>1 DEF Control, LoopOK, PhaseOK, Headless, Open, Running
<1>11. CASE ReviewEnds
  <2>1. /\ pc = "review" /\ pc' = "idle" /\ turnStart' = 0
        /\ UNCHANGED <<mode, step, calls, call, errs, sub, outcome, entry>>
    BY <1>11 DEF ReviewEnds
  <2> QED
    BY <2>1 DEF Control, LoopOK, PhaseOK, Headless, Open, Running
<1>12. CASE Restart
  <2>1. /\ pc' = "idle" /\ outcome' = "none" /\ entry' = "none" /\ mode' = mode
        /\ turnStart' = 0 /\ step' = 0 /\ calls' = 0 /\ call' = 0 /\ errs' = 0 /\ sub' = 0
    BY <1>12 DEF Restart
  <2> QED
    BY <2>1, Caps DEF Control, LoopOK, PhaseOK, Headless, Open, Running
<1> QED
  BY <1>1, <1>2, <1>3, <1>4, <1>5, <1>6, <1>7, <1>8, <1>9, <1>10, <1>11, <1>12, StepKinds
     DEF ReviewReply, ReviewDropped

LEMMA LeftStep == ASSUME Control, LeftOK, [Next]_vars PROVE LeftOK'
<1> USE DEF pins, session, registry, disk, ghosts
<1>a. <<>> \in Seq(Events)
  BY EmptySeq
<1>b. \A e \in Events : Append(log, e) \in Seq(Events)
  BY DEF LeftOK
<1>1. cancel' \in BOOLEAN
  <2>1. cancel' \in {cancel, TRUE, FALSE}
    BY StepKinds, QuickCommands
       DEF Submit, AutoCompactSkip, AutoCompactDone, BeginTurn, ModelReply, ReviewReply, ReviewEnds,
           ReviewDropped, Review, Drops, BudgetRefuse, ModelFails, CancelTurn, TimeCapHit, SubReply,
           SubToolsDone, ToolWrites, PressCtrlC, ToolReturns, Quick, Restart, Idles, UserEdits,
           Exited, vars
  <2> QED
    BY <2>1 DEF LeftOK
<1>2. compacted' \in BOOLEAN
  <2>1. compacted' \in {compacted, TRUE, FALSE}
    BY StepKinds, QuickCommands
       DEF Submit, AutoCompactSkip, AutoCompactDone, BeginTurn, ModelReply, EndTurn, Leave,
           ReviewReply, ReviewEnds, ReviewDropped, Review, Drops, BudgetRefuse, ModelFails,
           CancelTurn, TimeCapHit, SubReply, SubToolsDone, ToolWrites, PressCtrlC, ToolReturns,
           Quick, Command, Restart, Idles, UserEdits, Exited, vars
  <2> QED
    BY <2>1 DEF LeftOK
<1>3. severed' \in BOOLEAN
  <2>1. \/ severed' \in {severed, FALSE}
        \/ \E b \in BOOLEAN : severed' = (severed \/ b)
    <3>1. CASE Compact
      BY <3>1 DEF Compact
    <3>2. CASE AbandonTurn
      BY <3>2 DEF AbandonTurn, LeftOK
    <3>3. ASSUME NEW n \in 1..MaxRewind, RewindCommand(n)
          PROVE \E b \in BOOLEAN : severed' = (severed \/ b)
      BY <3>3 DEF RewindCommand
    <3>4. CASE QuickCommand
      BY <3>1, <3>3, <3>4
         DEF QuickCommand, Clear, SwitchModel, DropConversation, Ask, TogglePlan, Tell,
             CompactCommand, ReloadTools, TrimHistory, Pin, Unpin, MemoryCommand, Load, Resume, Fork
    <3>5. ASSUME NEW k \in 0..MaxCalls, ReviewReply(k)
          PROVE \E b \in BOOLEAN : severed' = (severed \/ b)
      BY <3>5 DEF ReviewReply
    <3>6. CASE Drops
      BY <3>2, <3>6 DEF Drops, BudgetRefuse, ModelFails, CancelTurn, TimeCapHit
    <3> QED
      BY <3>1, <3>4, <3>5, <3>6, StepKinds
         DEF Submit, AutoCompactSkip, AutoCompactDone, BeginTurn, ModelReply, ReviewDropped, Review,
             SubReply, SubToolsDone, ToolWrites, PressCtrlC, ToolReturns, Restart, Idles, UserEdits,
             Exited, vars
  <2> QED
    BY <2>1 DEF LeftOK
<1>4. shared' \in BOOLEAN /\ unseen' \subseteq Paths
  <2>1. shared' \in {shared, TRUE, FALSE}
    <3>1. CASE ToolWrites
      BY <3>1 DEF ToolWrites, WriteUnseen
    <3>2. CASE QuickCommand
      BY <3>2 DEF QuickCommand, Clear, SwitchModel, Ask, TogglePlan, Tell, CompactCommand,
                  ReloadTools, RewindCommand, TrimHistory, Pin, Unpin, MemoryCommand, Load, Resume,
                  Fork
    <3> QED
      BY <3>1, <3>2, StepKinds
         DEF Submit, AutoCompactSkip, AutoCompactDone, BeginTurn, ModelReply, ReviewReply, ReviewEnds,
             ReviewDropped, Review, Drops, BudgetRefuse, ModelFails, CancelTurn, TimeCapHit,
             AbandonTurn, SubReply, SubToolsDone, PressCtrlC, ToolReturns, Restart, Idles, UserEdits,
             Exited, vars
  <2>2. unseen' \subseteq Paths
    <3>1. CASE unseen' = unseen
      BY <3>1 DEF LeftOK
    <3>2. CASE \E p \in Paths : unseen' = unseen \cup {p}
      BY <3>2 DEF LeftOK
    <3>3. CASE ToolWrites
      BY <3>1, <3>2, <3>3 DEF ToolWrites, WriteUnseen
    <3>4. CASE QuickCommand
      BY <3>1, <3>4
         DEF QuickCommand, Clear, SwitchModel, Ask, TogglePlan, Tell, CompactCommand,
             ReloadTools, RewindCommand, TrimHistory, Pin, Unpin, MemoryCommand, Load, Resume, Fork
    <3> QED
      BY <3>1, <3>3, <3>4, StepKinds
         DEF Submit, AutoCompactSkip, AutoCompactDone, BeginTurn, ModelReply, ReviewReply, ReviewEnds,
             ReviewDropped, Review, Drops, BudgetRefuse, ModelFails, CancelTurn, TimeCapHit,
             AbandonTurn, SubReply, SubToolsDone, PressCtrlC, ToolReturns, Restart, Idles, UserEdits,
             Exited, vars
  <2> QED
    BY <2>1, <2>2 DEF LeftOK
<1>5. log' \in Seq(Events)
  <2>1. CASE log' = log \/ log' = <<>>
    BY <1>a, <2>1 DEF LeftOK
  <2>2. CASE BeginTurn
    <3>1. log' = <<"user_message">> \/ log' = <<>>
      BY <2>2 DEF BeginTurn
    <3>2. <<"user_message">> \in Seq(Events)
      BY DEF Events
    <3> QED
      BY <1>a, <3>1, <3>2
  <2>3. ASSUME NEW k \in 0..MaxCalls, ModelReply(k) PROVE log' \in Seq(Events)
    <3>1. \E e \in Events : log' = Append(log, e)
      BY <2>3 DEF ModelReply, Events
    <3> QED
      BY <1>b, <3>1
  <2>4. ASSUME NEW tag \in Results[mode], ToolReturns(tag) PROVE log' \in Seq(Events)
    <3>1. \E x \in {<<>>, <<"tool_call">>} : log' = Append(log, "tool_result") \o x
      BY <2>4 DEF ToolReturns
    <3>2. <<>> \in Seq(Events) /\ <<"tool_call">> \in Seq(Events)
          /\ Append(log, "tool_result") \in Seq(Events)
      BY <1>a, <1>b DEF Events
    <3>3. PICK x \in Seq(Events) : log' = Append(log, "tool_result") \o x
      BY <3>1, <3>2
    <3> QED
      BY <3>2, <3>3
  <2> QED
    BY <2>1, <2>2, <2>3, <2>4, StepKinds, QuickCommands
       DEF Submit, AutoCompactSkip, AutoCompactDone, ReviewReply, ReviewEnds, ReviewDropped, Review,
           Drops, BudgetRefuse, ModelFails, CancelTurn, TimeCapHit, SubReply, SubToolsDone,
           ToolWrites, PressCtrlC, Quick, Command, Restart, Idles, UserEdits, Exited, vars
<1>6. /\ wiped' \in BOOLEAN
      /\ pinned' \in 0..MaxPins
      /\ savedPinned' \in 0..MaxPins
  <2> DEFINE Good == wiped' \in BOOLEAN /\ pinned' \in 0..MaxPins /\ savedPinned' \in 0..MaxPins
  <2>0. 0 \in 0..MaxPins /\ pinned \in Nat
    BY Caps DEF LeftOK
  <2>1. CASE pinned' = pinned /\ wiped' = wiped /\ savedPinned' \in {savedPinned, pinned}
    BY <2>1 DEF LeftOK
  <2>2. CASE Clear \/ SwitchModel
    <3>1. wiped' = (pinned > 0) /\ pinned' = pinned /\ savedPinned' = 0
      BY <2>2 DEF Clear, SwitchModel, DropConversation
    <3>2. wiped' \in BOOLEAN
      BY <3>1
    <3> QED
      BY <2>0, <3>1, <3>2 DEF LeftOK
  <2>3. CASE Pin \/ Unpin
    <3>1. /\ wiped' = wiped /\ savedPinned' = pinned'
          /\ \/ pinned < MaxPins /\ pinned' = pinned + 1
             \/ pinned > 0 /\ pinned' = pinned - 1
      BY <2>3 DEF Pin, Unpin, Checkpoint
    <3> QED
      BY <3>1, Caps DEF LeftOK
  <2>4. CASE Load
    <3>1. pinned' = pinned /\ savedPinned' = savedPinned /\ wiped' = (wiped \/ pinned > 0)
      BY <2>4 DEF Load
    <3> QED
      BY <3>1 DEF LeftOK
  <2>5. CASE Resume \/ Restart
    <3>1. pinned' = savedPinned /\ savedPinned' = savedPinned /\ wiped' = wiped
      BY <2>5 DEF Resume, Restart, Reopened
    <3> QED
      BY <3>1 DEF LeftOK
  <2>6. CASE QuickCommand
    BY <2>1, <2>2, <2>3, <2>4, <2>5, <2>6
       DEF QuickCommand, Ask, TogglePlan, Tell, CompactCommand, Compact, ReloadTools,
           RewindCommand, TrimHistory, MemoryCommand, Fork, Checkpoint
  <2>7. CASE \/ \E kind \in {"chat"} \cup Entries : Submit(kind)
             \/ AutoCompactSkip \/ AutoCompactDone \/ BeginTurn
             \/ \E k \in 0..MaxCalls : ModelReply(k)
             \/ \E k \in 0..MaxCalls : ReviewReply(k)
             \/ ReviewDropped \/ Review \/ Drops
             \/ SubReply \/ SubToolsDone \/ ToolWrites \/ PressCtrlC
             \/ \E tag \in Results[mode] : ToolReturns(tag)
             \/ Idles
    <3>1. pinned' = pinned /\ wiped' = wiped /\ savedPinned' \in {savedPinned, pinned}
      BY <2>7
         DEF Submit, AutoCompactSkip, AutoCompactDone, Compact, Checkpoint, BeginTurn, ModelReply,
             EndTurn, ReviewReply, ReviewEnds, ReviewDropped, Review, Drops, BudgetRefuse, ModelFails,
             CancelTurn, TimeCapHit, AbandonTurn, SubReply, SubToolsDone, ToolWrites, PressCtrlC,
             ToolReturns, Idles, UserEdits, Exited, vars
    <3> QED
      BY <2>1, <3>1
  <2> QED
    BY <2>5, <2>6, <2>7, StepKinds
<1> QED
  BY <1>1, <1>2, <1>3, <1>4, <1>5, <1>6 DEF LeftOK

\* The types, in the parts they are proved in.
Typed == Control /\ LeftOK /\ TextOK /\ JTypeOK

LEMMA TypedStep == ASSUME Typed, [Next]_vars PROVE Typed'
  BY DiskTypes, TextStep, ControlStep, LeftStep DEF Typed

LEMMA TypedInit == Init => Typed
<1> SUFFICES ASSUME Init PROVE Typed
  OBVIOUS
<1>1. history \in Conversation
  <2>1. User \in Message /\ Assistant(0) \in Message /\ System("memory") \in Message
    BY MessageTypes, Caps DEF SystemTags
  <2>2. Openings(mode) \subseteq {<<>>, <<System("memory")>>, <<User, Assistant(0)>>}
    BY DEF Openings
  <2>3. {<<>>, <<System("memory")>>, <<User, Assistant(0)>>} \subseteq Conversation
    BY <2>1, EmptySeq DEF Conversation
  <2> QED
    BY <2>2, <2>3 DEF Init
<1>2. TextOK
  BY <1>1, EmptySeq DEF Init, TextOK, Conversation
<1>3. LoopOK
  BY Caps DEF Init, LoopOK
<1>4. PhaseOK
  BY DEF Init, PhaseOK, Open, Running
<1>5. LeftOK
  <2>1. cancel = FALSE /\ compacted = FALSE /\ severed = FALSE /\ shared = TRUE /\ wiped = FALSE
        /\ unseen = {} /\ log = <<>> /\ pinned = 0 /\ savedPinned = 0
    BY DEF Init
  <2>2. 0 \in 0..MaxPins /\ log \in Seq(Events)
    BY <2>1, Caps, EmptySeq
  <2> QED
    BY <2>1, <2>2 DEF LeftOK
<1>6. JTypeOK
  BY EmptySeq DEF Init, JInit, JTypeOK
<1> QED
  BY <1>2, <1>3, <1>4, <1>5, <1>6 DEF Typed, Control

\* The variables keep their types; in particular the loop counter stays below the
\* step cap, a tool that runs is one of the calls of the message in hand, and a
\* subagent has a step exactly while it is at one.  (agent_turn, run_loop.)
THEOREM AgentTypes == Spec => []TypeOK
<1>1. Spec => []Typed
  BY TypedInit, TypedStep, PTL DEF Spec
<1>2. Typed => TypeOK
  BY TypesAre DEF Typed
<1> QED
  BY <1>1, <1>2, PTL

-----------------------------------------------------------------------------
\* Cancelling and the journal

\* A turn that runs has one bucket, on top of those there were before it.
BucketOpen ==
    outcome = "running" =>
        \E b \in Bucket : turns = Append(baseTurns, b)

\* How a turn goes on: it opens, or does one of these and keeps where it began.
Proceeds ==
    \/ AutoCompactSkip \/ AutoCompactDone \/ BeginTurn
    \/ \E k \in 1..MaxCalls : ModelReply(k)
    \/ SubReply \/ SubToolsDone \/ ToolWrites \/ PressCtrlC
    \/ \E tag \in Results[mode] : ToolReturns(tag)
    \/ UNCHANGED vars

LEMMA TurnGoesOn ==
    ASSUME Typed, [Next]_vars, outcome' = "running"
    PROVE  \/ \E kind \in {"chat"} \cup Entries : Submit(kind)
           \/ /\ Proceeds
              /\ outcome = "running"
              /\ UNCHANGED <<mode, entry, base, baseTurns, turnStart>>
<1> USE DEF loop, ghosts
<1>0. pc \in Open <=> outcome = "running"
  BY DEF Typed, Control, PhaseOK
<1>1. CASE QuickCommand \/ Review \/ Restart
  BY <1>1, QuickCommands DEF Quick, Review, Command, Restart
<1>2. CASE Drops
  BY <1>2 DEF Drops, BudgetRefuse, ModelFails, CancelTurn, TimeCapHit, Leave
<1>3. CASE ReviewEnds \/ UserEdits \/ Exited
  BY <1>0, <1>3 DEF ReviewEnds, UserEdits, Exited, Open, Running, vars
<1>4. ASSUME NEW k \in 0..MaxCalls, ModelReply(k)
      PROVE  /\ k \in 1..MaxCalls
             /\ outcome = "running" /\ UNCHANGED <<mode, entry, base, baseTurns, turnStart>>
  <2>1. k # 0
    BY <1>4 DEF ModelReply, EndTurn, Leave
  <2>2. k \in 1..MaxCalls
    BY <2>1, Caps
  <2> QED
    BY <1>4, <2>1, <2>2 DEF ModelReply
<1>5. ASSUME NEW tag \in Results[mode], ToolReturns(tag)
      PROVE  outcome = "running" /\ UNCHANGED <<mode, entry, base, baseTurns, turnStart>>
  BY <1>5 DEF ToolReturns, EndTurn, Leave
<1>6. CASE AutoCompactSkip \/ AutoCompactDone \/ BeginTurn \/ SubReply \/ SubToolsDone
           \/ ToolWrites \/ PressCtrlC \/ UNCHANGED vars
  <2>1. UNCHANGED <<outcome, mode, entry, base, baseTurns, turnStart>>
    BY <1>6 DEF AutoCompactSkip, AutoCompactDone, BeginTurn, SubReply, SubToolsDone, ToolWrites,
                PressCtrlC, vars
  <2> QED
    BY <1>6, <2>1 DEF Proceeds
<1> QED
  BY <1>1, <1>2, <1>3, <1>4, <1>5, <1>6, StepKinds
     DEF Proceeds, Idles, ReviewReply, ReviewDropped

LEMMA CancellingIs == ASSUME Typed, [Next]_vars, Cancelling PROVE CancelTurn
<1> USE DEF loop, ghosts, Cancelling
<1>1. CASE QuickCommand \/ Review \/ Restart
  BY <1>1, QuickCommands DEF Quick, Review, Command, Restart
<1>2. CASE BudgetRefuse \/ ModelFails \/ TimeCapHit
  BY <1>2 DEF BudgetRefuse, ModelFails, TimeCapHit, Leave
<1>3. ASSUME NEW k \in 0..MaxCalls, ModelReply(k) PROVE FALSE
  BY <1>3 DEF ModelReply, EndTurn, Leave
<1>4. ASSUME NEW tag \in Results[mode], ToolReturns(tag) PROVE FALSE
  BY <1>4 DEF ToolReturns, EndTurn, Leave
<1>5. ASSUME NEW kind, Submit(kind) PROVE FALSE
  BY <1>5 DEF Submit
<1>6. CASE AutoCompactSkip \/ AutoCompactDone \/ BeginTurn \/ SubReply \/ SubToolsDone
           \/ ToolWrites \/ PressCtrlC \/ ReviewEnds \/ Idles
  BY <1>6 DEF AutoCompactSkip, AutoCompactDone, BeginTurn, SubReply, SubToolsDone, ToolWrites,
              PressCtrlC, ReviewEnds, Idles, UserEdits, Exited, vars
<1> QED
  BY <1>1, <1>2, <1>3, <1>4, <1>5, <1>6, StepKinds DEF Drops, ReviewReply, ReviewDropped

LEMMA BucketStep == ASSUME Typed, BucketOpen, [Next]_vars PROVE BucketOpen'
<1> SUFFICES ASSUME outcome' = "running"
             PROVE  \E b \in Bucket : turns' = Append(baseTurns', b)
  BY DEF BucketOpen
<1> USE DEF disk, jvars, registry, loop
<1>0. EmptyBucket \in Bucket
  BY DEF EmptyBucket, Bucket
<1>1. ASSUME NEW kind, Submit(kind)
      PROVE  \E b \in Bucket : turns' = Append(baseTurns', b)
  BY <1>0, <1>1 DEF Submit, StartTurn
<1>2. ASSUME Proceeds, outcome = "running", baseTurns' = baseTurns
      PROVE  \E b \in Bucket : turns' = Append(baseTurns', b)
  <2>1. PICK b \in Bucket : turns = Append(baseTurns, b)
    BY <1>2 DEF BucketOpen
  <2>2. CASE turns' = turns
    BY <1>2, <2>1, <2>2
  <2>3. ASSUME NEW p \in Paths, NEW c \in Contents, WriteFile(p, c)
        PROVE  \E d \in Bucket : turns' = Append(baseTurns', d)
    <3>1. files[p] \in Images /\ baseTurns \in Seq(Bucket)
      BY DEF Typed, JTypeOK, TextOK
    <3> DEFINE d == [b EXCEPT ![p] = files[p]]
               n == Len(baseTurns)
    <3>2. d \in Bucket
      BY <2>1, <3>1 DEF Bucket
    <3>3. turns' = turns \/ turns' = [turns EXCEPT ![Len(turns)][p] = files[p]]
      BY <2>3 DEF WriteFile, Record
    <3>4. n \in Nat /\ Len(turns) = n + 1 /\ turns[n + 1] = b /\ turns \in Seq(Bucket)
          /\ \A i \in 1..n : turns[i] = baseTurns[i]
      BY <2>1, <3>1
    <3>5. ASSUME turns' = [turns EXCEPT ![Len(turns)][p] = files[p]]
          PROVE  turns' = Append(baseTurns, d)
      <4>1. turns' = [turns EXCEPT ![n + 1] = d]
        BY <3>4, <3>5
      <4> HIDE DEF d
      <4> DEFINE s == Append(baseTurns, d)
      <4>2. s \in Seq(Bucket) /\ Len(s) = n + 1 /\ s[n + 1] = d
            /\ \A i \in 1..n : s[i] = baseTurns[i]
        BY <3>1, <3>2
      <4>3. turns' \in Seq(Bucket) /\ Len(turns') = n + 1 /\ turns'[n + 1] = d
            /\ \A i \in 1..n : turns'[i] = baseTurns[i]
        BY <3>2, <3>4, <4>1
      <4> HIDE DEF s, n
      <4>4. \A i \in 1..Len(s) : turns'[i] = s[i]
        BY <3>4, <4>2, <4>3
      <4>5. turns' = s
        BY <4>2, <4>3, <4>4
      <4> QED
        BY <4>5 DEF s
    <3> QED
      BY <1>2, <2>2, <3>2, <3>3, <3>5
  <2>4. CASE ToolWrites
    BY <2>2, <2>3, <2>4 DEF ToolWrites, EditFile, WriteFails, ForeignWrite, WriteUnseen
  <2> QED
    BY <1>2, <2>2, <2>4
       DEF Proceeds, AutoCompactSkip, AutoCompactDone, BeginTurn, ModelReply, SubReply,
           SubToolsDone, PressCtrlC, ToolReturns, vars
<1> QED
  BY <1>1, <1>2, TurnGoesOn

\* A cancel gives back the bucket that the turn opened when it is empty, keeps it
\* when it is not, and never touches one of an earlier turn, whatever the turn did.
\* (agent_turn, FileJournal::discard_last_turn_if_empty.)
THEOREM CancelSparesBuckets == Spec => CancelKeepsBuckets
<1>1. Init => BucketOpen
  BY DEF Init, BucketOpen
<1>2. Typed /\ BucketOpen /\ [Next]_vars
        => (Cancelling =>
              \/ turns = Append(baseTurns, EmptyBucket) /\ turns' = baseTurns
              \/ /\ turns' = turns
                 /\ \E b \in Bucket \ {EmptyBucket} : turns = Append(baseTurns, b))
  <2> SUFFICES ASSUME Typed, BucketOpen, [Next]_vars, Cancelling
               PROVE  \/ turns = Append(baseTurns, EmptyBucket) /\ turns' = baseTurns
                      \/ /\ turns' = turns
                         /\ \E b \in Bucket \ {EmptyBucket} : turns = Append(baseTurns, b)
    OBVIOUS
  <2>1. PICK b \in Bucket : turns = Append(baseTurns, b)
    BY DEF BucketOpen, Cancelling
  <2>2. DiscardLastTurnIfEmpty
    BY CancellingIs DEF CancelTurn, AbandonTurn
  <2>3. baseTurns \in Seq(Bucket)
    BY DEF Typed, TextOK
  <2>4. turns # <<>> /\ Len(turns) = Len(baseTurns) + 1 /\ turns[Len(turns)] = b
    BY <2>1, <2>3
  <2>5. CASE b = EmptyBucket
    <3>1. turns' = SubSeq(turns, 1, Len(turns) - 1)
      BY <2>2, <2>4, <2>5 DEF DiscardLastTurnIfEmpty
    <3>2. turns' = baseTurns
      BY <2>1, <2>3, <2>4, <3>1
    <3> QED
      BY <2>1, <2>5, <3>2
  <2>6. CASE b # EmptyBucket
    <3>1. turns' = turns
      BY <2>2, <2>4, <2>6 DEF DiscardLastTurnIfEmpty, jvars
    <3> QED
      BY <2>1, <2>6, <3>1
  <2> QED
    BY <2>5, <2>6
<1> QED
  BY <1>1, <1>2, TypedInit, TypedStep, BucketStep, PTL DEF Spec, CancelKeepsBuckets

-----------------------------------------------------------------------------
\* Cancelling and the conversation

\* While a turn that did not compact runs, the conversation only grows; what it
\* began with is still there.
OnTop ==
    (outcome = "running" /\ ~compacted) =>
        /\ turnStart <= Len(history)
        /\ entry = "chat" => base = SubSeq(history, 1, turnStart)

\* What the steps of a turn do to the conversation, but for a compaction.
LEMMA HistoryGrows ==
    ASSUME Typed, Proceeds, outcome' = "running", ~AutoCompactDone
    PROVE  /\ UNCHANGED <<compacted, severed, saved, pinned, savedPinned, wiped>>
           /\ \/ history' = history
              \/ \E k \in 1..MaxCalls : ModelReply(k) /\ history' = Append(history, Assistant(k))
              \/ \E tag \in Results[mode] :
                    ToolReturns(tag) /\ history' = Append(history, Tool(tag, call))
<1> USE DEF ghosts, session, pins
<1>1. ASSUME NEW k \in 1..MaxCalls, ModelReply(k)
      PROVE  /\ UNCHANGED <<compacted, severed, saved, pinned, savedPinned, wiped>>
             /\ history' = Append(history, Assistant(k))
  BY <1>1 DEF ModelReply
<1>2. ASSUME NEW tag \in Results[mode], ToolReturns(tag)
      PROVE  /\ UNCHANGED <<compacted, severed, saved, pinned, savedPinned, wiped>>
             /\ history' = Append(history, Tool(tag, call))
  BY <1>2 DEF ToolReturns, EndTurn, Leave
<1>3. CASE AutoCompactSkip \/ BeginTurn \/ SubReply \/ SubToolsDone \/ ToolWrites \/ PressCtrlC
           \/ UNCHANGED vars
  BY <1>3 DEF AutoCompactSkip, BeginTurn, SubReply, SubToolsDone, ToolWrites, PressCtrlC, vars
<1> QED
  BY <1>1, <1>2, <1>3 DEF Proceeds

\* What a step appends has its type.
LEMMA CallTypes ==
    ASSUME Typed, NEW tag \in Results[mode], pc \in Running
    PROVE  /\ tag \in {"ok", "error", "denied"}
           /\ call \in 1..MaxCalls
           /\ Tool(tag, call) \in Message
<1>1. tag \in {"ok", "error", "denied"}
  BY AgentAssumption DEF Typed, Control, PhaseOK
<1>2. call \in 1..MaxCalls
  BY Caps DEF Typed, Control, LoopOK, PhaseOK
<1> QED
  BY <1>1, <1>2, MessageTypes

LEMMA OnlyGrows ==
    ASSUME Typed, Proceeds, outcome' = "running", ~AutoCompactDone
    PROVE  history' = history \/ \E m \in Message : history' = Append(history, m)
<1>1. ASSUME NEW k \in 1..MaxCalls PROVE Assistant(k) \in Message
  BY MessageTypes, Caps
<1>2. ASSUME NEW tag \in Results[mode], ToolReturns(tag) PROVE Tool(tag, call) \in Message
  <2>1. pc \in Running
    BY <1>2 DEF ToolReturns, CallEnds, Running
  <2> QED
    BY <2>1, CallTypes
<1> QED
  BY <1>1, <1>2, HistoryGrows

LEMMA SubmitIs ==
    ASSUME Typed, NEW kind, Submit(kind)
    PROVE  \/ /\ kind = "chat" /\ history' = Append(history, User)
              /\ turnStart' = Len(history)
           \/ /\ kind # "chat" /\ turnStart' = Len(history')
              /\ \/ history' = Append(history, System("single"))
                 \/ history' = history \o <<System("single"), User>>
<1>1. kind \in {"chat", "skill", "agent"}
  BY AgentAssumption DEF Submit
<1> QED
  BY <1>1 DEF Submit

LEMMA OnTopStep == ASSUME Typed, OnTop, [Next]_vars PROVE OnTop'
<1> SUFFICES ASSUME outcome' = "running", ~compacted'
             PROVE  /\ turnStart' <= Len(history')
                    /\ entry' = "chat" => base' = SubSeq(history', 1, turnStart')
  BY DEF OnTop
<1>0. history \in Seq(Message) /\ Len(history) \in Nat /\ turnStart \in Nat
  BY DEF Typed, TextOK, Conversation, Control, LoopOK
<1>1. ASSUME NEW kind, Submit(kind)
      PROVE  /\ turnStart' <= Len(history')
             /\ entry' = "chat" => base' = SubSeq(history', 1, turnStart')
  <2>1. entry' = kind /\ base' = history
    BY <1>1 DEF Submit
  <2>2. TextOK'
    BY <1>1, TextStep DEF Typed
  <2>3. CASE kind = "chat"
    <3>1. history' = Append(history, User) /\ turnStart' = Len(history)
      BY <1>1, <2>3, SubmitIs
    <3>2. User \in Message
      BY MessageTypes
    <3>3. SubSeq(Append(history, User), 1, Len(history)) = history
      BY <1>0, <3>2
    <3>4. Len(Append(history, User)) = Len(history) + 1
      BY <1>0, <3>2
    <3> QED
      BY <1>0, <2>1, <3>1, <3>3, <3>4
  <2>4. CASE kind # "chat"
    <3>1. turnStart' = Len(history')
      BY <1>1, <2>4, SubmitIs
    <3> QED
      BY <2>1, <2>2, <2>4, <3>1 DEF TextOK, Conversation
  <2> QED
    BY <2>3, <2>4
<1>2. ASSUME Proceeds, outcome = "running", UNCHANGED <<entry, base, turnStart>>
      PROVE  /\ turnStart' <= Len(history')
             /\ entry' = "chat" => base' = SubSeq(history', 1, turnStart')
  <2>1. ~AutoCompactDone
    BY DEF AutoCompactDone
  <2>2. ~compacted
    BY <1>2, <2>1, HistoryGrows
  <2>3. /\ turnStart <= Len(history)
        /\ entry = "chat" => base = SubSeq(history, 1, turnStart)
    BY <1>2, <2>2 DEF OnTop
  <2>4. ASSUME NEW m \in Message
        PROVE  /\ SubSeq(Append(history, m), 1, turnStart) = SubSeq(history, 1, turnStart)
               /\ Len(Append(history, m)) = Len(history) + 1
    BY <1>0, <2>3
  <2> QED
    BY <1>0, <1>2, <2>1, <2>3, <2>4, OnlyGrows
<1> QED
  BY <1>1, <1>2, TurnGoesOn

\* Cancelling a chat turn, at any of its requests or tools, leaves the conversation
\* as it was before the user's message, unless the turn compacted it.  (agent_turn.)
THEOREM CancelTakesBack == Spec => CancelRestores
<1>1. Init => OnTop
  BY DEF Init, OnTop
<1>2. Typed /\ OnTop /\ [Next]_vars
        => ((Cancelling /\ entry = "chat" /\ ~compacted) => history' = base)
  <2> SUFFICES ASSUME Typed, OnTop, [Next]_vars, Cancelling, entry = "chat", ~compacted
               PROVE  history' = base
    OBVIOUS
  <2>1. turnStart <= Len(history) /\ base = SubSeq(history, 1, turnStart)
    BY DEF OnTop, Cancelling
  <2>2. history' = Truncate(history, turnStart)
    BY CancellingIs DEF CancelTurn, AbandonTurn
  <2>3. history \in Seq(Message) /\ Len(history) \in Nat /\ turnStart \in Nat
    BY DEF Typed, TextOK, Conversation, Control, LoopOK
  <2>4. SubSeq(history, 1, Len(history)) = history
    BY <2>3
  <2>5. turnStart < Len(history) \/ turnStart = Len(history)
    BY <2>1, <2>3
  <2> QED
    BY <2>1, <2>2, <2>4, <2>5 DEF Truncate
<1> QED
  BY <1>1, <1>2, TypedInit, TypedStep, OnTopStep, PTL DEF Spec, CancelRestores

-----------------------------------------------------------------------------
\* The receipts of a turn

\* Each result in l stands behind its call, and each call but the last event of l
\* before its result.
Paired(l) ==
    /\ \A i \in 1..Len(l) : l[i] = "tool_result" => i > 1 /\ l[i - 1] = "tool_call"
    /\ \A i \in 1..Len(l) : (l[i] = "tool_call" /\ i < Len(l)) => l[i + 1] = "tool_result"

Calling(l) == l # <<>> /\ l[Len(l)] = "tool_call"

LEMMA PairedAppend ==
    ASSUME NEW l \in Seq(Events), Paired(l), NEW e \in Events,
           e = "tool_result" <=> Calling(l)
    PROVE  /\ Paired(Append(l, e))
           /\ Append(l, e) \in Seq(Events)
           /\ Calling(Append(l, e)) <=> e = "tool_call"
<1> DEFINE n == Len(l)
           m == Append(l, e)
<1>1. /\ n \in Nat /\ Len(m) = n + 1 /\ m[n + 1] = e /\ \A i \in 1..n : m[i] = l[i]
      /\ m \in Seq(Events) /\ m # <<>>
  OBVIOUS
<1>2. e = "tool_result" <=> n # 0 /\ l[n] = "tool_call"
  BY <1>1 DEF Calling
<1> HIDE DEF m
<1>3. ASSUME NEW i \in 1..(n + 1), m[i] = "tool_result" PROVE i > 1 /\ m[i - 1] = "tool_call"
  <2>1. CASE i = n + 1
    <3>1. n # 0 /\ l[n] = "tool_call" /\ n \in 1..n /\ i - 1 = n
      BY <1>1, <1>2, <1>3, <2>1
    <3> QED
      BY <1>1, <3>1
  <2>2. CASE i # n + 1
    <3>1. i \in 1..n /\ l[i] = "tool_result"
      BY <1>1, <1>3, <2>2
    <3>2. i > 1 /\ l[i - 1] = "tool_call" /\ i - 1 \in 1..n
      BY <3>1 DEF Paired
    <3> QED
      BY <1>1, <3>2
  <2> QED
    BY <2>1, <2>2
<1>4. ASSUME NEW i \in 1..(n + 1), m[i] = "tool_call", i < n + 1 PROVE m[i + 1] = "tool_result"
  <2>1. i \in 1..n /\ l[i] = "tool_call"
    BY <1>1, <1>4
  <2>2. CASE i = n
    <3>1. e = "tool_result"
      BY <1>1, <1>2, <2>1, <2>2
    <3> QED
      BY <1>1, <2>2, <3>1
  <2>3. CASE i # n
    <3>1. i < n /\ i + 1 \in 1..n
      BY <1>1, <2>1, <2>3
    <3>2. l[i + 1] = "tool_result"
      BY <2>1, <3>1 DEF Paired
    <3> QED
      BY <1>1, <3>1, <3>2
  <2> QED
    BY <2>2, <2>3
<1>5. Paired(m)
  BY <1>1, <1>3, <1>4 DEF Paired
<1>6. Calling(m) <=> e = "tool_call"
  BY <1>1 DEF Calling
<1> QED
  BY <1>1, <1>5, <1>6 DEF m

\* The log of a turn is paired, and ends in a call exactly while one runs, unless
\* the turn was dropped then.
LogOK ==
    /\ Paired(log)
    /\ pc \in Running => Calling(log)
    /\ Calling(log) => pc \in Running \/ outcome \in {"cancelled", "timeout"}

LEMMA FreshLog ==
    ASSUME NEW l, l = <<>> \/ l = <<"user_message">>
    PROVE  Paired(l) /\ ~Calling(l)
<1>1. Len(l) \in {0, 1} /\ \A i \in 1..Len(l) : l[i] = "user_message"
  OBVIOUS
<1> QED
  BY <1>1 DEF Paired, Calling

LEMMA LogStep == ASSUME Typed, LogOK, [Next]_vars PROVE LogOK'
<1> USE DEF loop, ghosts
<1>0. /\ log \in Seq(Events) /\ Events = {"user_message", "tool_call", "tool_result", "assistant_message"}
      /\ pc \in Open <=> outcome = "running"
  BY DEF Typed, LeftOK, Control, PhaseOK, Events
<1>1. CASE log' = <<>> /\ pc' \notin Running
  BY <1>1, FreshLog DEF LogOK
<1>2. CASE UNCHANGED <<log, pc, outcome>>
  BY <1>2 DEF LogOK
<1>3. ASSUME NEW kind, Submit(kind) PROVE LogOK'
  BY <1>1, <1>3 DEF Submit, Running
<1>4. CASE QuickCommand \/ Review \/ Restart
  <2>1. log' = <<>> /\ pc' \notin Running
    <3>1. CASE QuickCommand
      BY <3>1, QuickCommands DEF Quick, Command, Running
    <3>2. CASE Review \/ Restart
      BY <3>2 DEF Review, Command, Restart, Running
    <3> QED
      BY <1>4, <3>1, <3>2
  <2> QED
    BY <1>1, <2>1
<1>5. CASE AutoCompactSkip \/ AutoCompactDone \/ SubReply \/ SubToolsDone
  <2>1. UNCHANGED <<log, outcome>> /\ (pc' \in Running <=> pc \in Running)
    BY <1>5 DEF AutoCompactSkip, AutoCompactDone, SubReply, SubToolsDone, Running
  <2> QED
    BY <2>1 DEF LogOK
<1>6. CASE BeginTurn
  <2>1. (log' = <<"user_message">> \/ log' = <<>>) /\ pc' \notin Running
    BY <1>6 DEF BeginTurn, Running
  <2> QED
    BY <2>1, FreshLog DEF LogOK
<1>7. ASSUME NEW k \in 0..MaxCalls, ModelReply(k) PROVE LogOK'
  <2>1. pc = "model" /\ ~Calling(log)
    BY <1>0, <1>7 DEF ModelReply, LogOK, Open, Running
  <2>2. CASE k = 0
    <3>1. log' = Append(log, "assistant_message") /\ pc' \notin Running
      BY <1>7, <2>2 DEF ModelReply, EndTurn, Leave, Running
    <3> QED
      BY <1>0, <2>1, <3>1, PairedAppend DEF LogOK
  <2>3. CASE k # 0
    <3>1. log' = Append(log, "tool_call") /\ pc' \in Running
      BY <1>7, <2>3 DEF ModelReply, CallStarts, Running
    <3>2. Paired(log') /\ Calling(log')
      BY <1>0, <2>1, <3>1, PairedAppend DEF LogOK
    <3> QED
      BY <3>1, <3>2 DEF LogOK
  <2> QED
    BY <2>2, <2>3
<1>8. ASSUME NEW tag \in Results[mode], ToolReturns(tag) PROVE LogOK'
  <2> DEFINE l == Append(log, "tool_result")
  <2>1. Calling(log)
    BY <1>8 DEF ToolReturns, CallEnds, LogOK, Running
  <2>2. Paired(l) /\ l \in Seq(Events) /\ ~Calling(l)
    BY <1>0, <2>1, PairedAppend DEF LogOK
  <2>3. \/ log' = l \o <<>> /\ pc' \notin Running
        \/ log' = l \o <<"tool_call">> /\ pc' \in Running
    <3>1. CASE pc' \in Running
      BY <1>8, <3>1 DEF ToolReturns, EndTurn, Leave, Running
    <3>2. CASE pc' \notin Running
      BY <1>8, <3>2 DEF ToolReturns, CallStarts, Running
    <3> QED
      BY <3>1, <3>2
  <2>4. l \o <<>> = l /\ l \o <<"tool_call">> = Append(l, "tool_call")
    BY <2>2
  <2> HIDE DEF l
  <2>5. Paired(Append(l, "tool_call")) /\ Calling(Append(l, "tool_call"))
    BY <1>0, <2>2, PairedAppend
  <2> QED
    BY <2>2, <2>3, <2>4, <2>5 DEF LogOK
<1>9. CASE Drops
  <2>1. CASE BudgetRefuse \/ ModelFails
    <3>1. ~Calling(log) /\ log' = log /\ pc' \notin Running
      BY <1>0, <2>1 DEF BudgetRefuse, ModelFails, Leave, LogOK, Open, Running
    <3> QED
      BY <3>1 DEF LogOK
  <2>2. CASE CancelTurn \/ TimeCapHit
    <3>1. log' = log /\ pc' \notin Running /\ outcome' \in {"cancelled", "timeout"}
      BY <2>2 DEF CancelTurn, TimeCapHit, Leave, Running
    <3> QED
      BY <3>1 DEF LogOK
  <2> QED
    BY <1>9, <2>1, <2>2 DEF Drops
<1>10. CASE ReviewEnds
  <2>1. UNCHANGED <<log, outcome>> /\ pc' \notin Running /\ pc \notin Running
    BY <1>10 DEF ReviewEnds, Running
  <2> QED
    BY <2>1 DEF LogOK
<1>11. CASE ToolWrites \/ PressCtrlC \/ Idles
  <2>1. UNCHANGED <<log, pc, outcome>>
    BY <1>11 DEF ToolWrites, PressCtrlC, Idles, UserEdits, Exited, vars
  <2> QED
    BY <1>2, <2>1
<1> QED
  BY <1>3, <1>4, <1>5, <1>6, <1>7, <1>8, <1>9, <1>10, <1>11, StepKinds
     DEF ReviewReply, ReviewDropped

\* The tool messages of h behind its first n messages, and the results in l.
ToolsPast(h, n) == {i \in (n + 1)..Len(h) : IsTool(h[i])}
ResultsIn(l) == {i \in 1..Len(l) : l[i] = "tool_result"}

LEMMA ToolsPastAppend ==
    ASSUME NEW h \in Conversation, NEW n \in Nat, n <= Len(h), NEW m \in Message
    PROVE  /\ ~IsTool(m) => ToolsPast(Append(h, m), n) = ToolsPast(h, n)
           /\ IsTool(m) =>
                Cardinality(ToolsPast(Append(h, m), n)) = Cardinality(ToolsPast(h, n)) + 1
<1> DEFINE k == Len(h)
           g == Append(h, m)
<1>1. k \in Nat /\ Len(g) = k + 1 /\ g[k + 1] = m /\ \A i \in 1..k : g[i] = h[i]
  BY DEF Conversation
<1> HIDE DEF g
<1>2. \A i : i \in (n + 1)..(k + 1) <=> i = k + 1 \/ i \in (n + 1)..k
  BY <1>1
<1>3. \A i \in (n + 1)..k : g[i] = h[i]
  BY <1>1
<1>4. ~IsTool(m) => ToolsPast(g, n) = ToolsPast(h, n)
  BY <1>1, <1>2, <1>3 DEF ToolsPast
<1>5. IsTool(m) => ToolsPast(g, n) = ToolsPast(h, n) \cup {k + 1}
  BY <1>1, <1>2, <1>3 DEF ToolsPast
<1>6. k + 1 \notin ToolsPast(h, n)
  BY <1>1 DEF ToolsPast
<1>7. IsFiniteSet(ToolsPast(h, n))
  <2>1. IsFiniteSet((n + 1)..k) /\ ToolsPast(h, n) \subseteq (n + 1)..k
    BY <1>1, FS_Interval DEF ToolsPast
  <2> QED
    BY <2>1, FS_Subset
<1>8. IsTool(m) => Cardinality(ToolsPast(g, n)) = Cardinality(ToolsPast(h, n)) + 1
  BY <1>5, <1>6, <1>7, FS_AddElement
<1> QED
  BY <1>4, <1>8 DEF g

LEMMA ResultsInAppend ==
    ASSUME NEW l \in Seq(Events), NEW e \in Events
    PROVE  /\ e # "tool_result" => ResultsIn(Append(l, e)) = ResultsIn(l)
           /\ e = "tool_result" =>
                Cardinality(ResultsIn(Append(l, e))) = Cardinality(ResultsIn(l)) + 1
<1> DEFINE k == Len(l)
           g == Append(l, e)
<1>1. k \in Nat /\ Len(g) = k + 1 /\ g[k + 1] = e /\ \A i \in 1..k : g[i] = l[i]
  OBVIOUS
<1> HIDE DEF g
<1>2. \A i : i \in 1..(k + 1) <=> i = k + 1 \/ i \in 1..k
  BY <1>1
<1>4. e # "tool_result" => ResultsIn(g) = ResultsIn(l)
  BY <1>1, <1>2 DEF ResultsIn
<1>5. e = "tool_result" => ResultsIn(g) = ResultsIn(l) \cup {k + 1}
  BY <1>1, <1>2 DEF ResultsIn
<1>6. k + 1 \notin ResultsIn(l)
  BY <1>1 DEF ResultsIn
<1>7. IsFiniteSet(ResultsIn(l))
  <2>1. IsFiniteSet(1..k) /\ ResultsIn(l) \subseteq 1..k
    BY <1>1, FS_Interval DEF ResultsIn
  <2> QED
    BY <2>1, FS_Subset
<1>8. e = "tool_result" => Cardinality(ResultsIn(g)) = Cardinality(ResultsIn(l)) + 1
  BY <1>5, <1>6, <1>7, FS_AddElement
<1> QED
  BY <1>4, <1>8 DEF g

\* A turn that did not compact has as many tool messages as results logged.
CountOK ==
    ~compacted =>
        /\ pc \in {"compacting", "begin"} => ToolsPast(history, turnStart) = {}
        /\ pc \in {"model"} \cup Running =>
              Cardinality(ToolsPast(history, turnStart)) = Cardinality(ResultsIn(log))

LEMMA CountStep == ASSUME Typed, OnTop, CountOK, [Next]_vars PROVE CountOK'
<1> USE DEF loop, ghosts
<1>0. /\ log \in Seq(Events) /\ history \in Conversation /\ turnStart \in Nat
      /\ pc \in Open <=> outcome = "running"
      /\ history \in Seq(Message) /\ Len(history) \in Nat
  BY DEF Typed, LeftOK, TextOK, Conversation, Control, PhaseOK, LoopOK
<1>1. SUFFICES ASSUME pc' \in Open, ~compacted' PROVE CountOK'
  BY DEF CountOK, Open
<1>2. outcome' = "running"
  BY <1>1, TypedStep DEF Typed, Control, PhaseOK
<1>3. ASSUME NEW kind, Submit(kind) PROVE CountOK'
  <2>1. pc' = "compacting"
    BY <1>3 DEF Submit
  <2>2. CASE turnStart' = Len(history')
    <3>1. Len(history') \in Nat
      BY TypedStep DEF Typed, TextOK, Conversation
    <3>2. ToolsPast(history', turnStart') = {}
      BY <2>2, <3>1 DEF ToolsPast
    <3> QED
      BY <2>1, <3>2 DEF CountOK, Running
  <2>3. CASE history' = Append(history, User) /\ turnStart' = Len(history)
    <3>1. User \in Message /\ ~IsTool(User)
      BY MessageTypes DEF User, IsTool
    <3>2. ToolsPast(history', Len(history)) = ToolsPast(history, Len(history))
      BY <1>0, <2>3, <3>1, ToolsPastAppend
    <3>3. ToolsPast(history, Len(history)) = {}
      BY <1>0 DEF ToolsPast
    <3> QED
      BY <2>1, <2>3, <3>2, <3>3 DEF CountOK, Running
  <2> QED
    BY <1>3, <2>2, <2>3, SubmitIs
<1>4. ASSUME Proceeds, outcome = "running", turnStart' = turnStart PROVE CountOK'
  <2>1. ~AutoCompactDone
    BY <1>1 DEF AutoCompactDone
  <2>2. ~compacted
    BY <1>1, <1>2, <1>4, <2>1, HistoryGrows
  <2>3. turnStart <= Len(history)
    BY <1>4, <2>2 DEF OnTop
  <2>4. CASE BeginTurn
    <3>1. /\ pc = "begin" /\ pc' = "model" /\ history' = history
          /\ log' = <<"user_message">> \/ log' = <<>>
      BY <2>4 DEF BeginTurn
    <3>2. ToolsPast(history, turnStart) = {}
      BY <2>2, <3>1 DEF CountOK
    <3>3. ResultsIn(log') = {}
      BY <3>1 DEF ResultsIn
    <3> QED
      BY <1>4, <3>1, <3>2, <3>3 DEF CountOK
  <2>5. ASSUME NEW k \in 1..MaxCalls, ModelReply(k) PROVE CountOK'
    <3>1. /\ pc = "model" /\ pc' \in Running /\ log' = Append(log, "tool_call")
          /\ history' = Append(history, Assistant(k))
      BY <2>5 DEF ModelReply, CallStarts, Running
    <3>2. Assistant(k) \in Message /\ ~IsTool(Assistant(k))
      BY MessageTypes, Caps DEF Assistant, IsTool
    <3>3. ToolsPast(history', turnStart) = ToolsPast(history, turnStart)
      BY <1>0, <2>3, <3>1, <3>2, ToolsPastAppend
    <3>4. ResultsIn(log') = ResultsIn(log)
      BY <1>0, <3>1, ResultsInAppend DEF Events
    <3> QED
      BY <1>4, <2>2, <3>1, <3>3, <3>4 DEF CountOK, Running
  <2>6. ASSUME NEW tag \in Results[mode], ToolReturns(tag) PROVE CountOK'
    <3> DEFINE l == Append(log, "tool_result")
    <3>1. pc \in Running
      BY <2>6 DEF ToolReturns, CallEnds, Running
    <3>2. history' = Append(history, Tool(tag, call))
      BY <1>1, <2>6 DEF ToolReturns, EndTurn, Leave, Open, Running
    <3>3. pc' \in {"model"} \cup Running
      BY <1>1, <2>6 DEF ToolReturns, EndTurn, Leave, CallStarts, Open, Running
    <3>4. IsTool(Tool(tag, call)) /\ Tool(tag, call) \in Message
      BY <3>1, CallTypes DEF IsTool, Tool
    <3>5. Cardinality(ToolsPast(history', turnStart))
            = Cardinality(ToolsPast(history, turnStart)) + 1
      BY <1>0, <2>3, <3>2, <3>4, ToolsPastAppend
    <3>6. l \in Seq(Events) /\ Cardinality(ResultsIn(l)) = Cardinality(ResultsIn(log)) + 1
      BY <1>0, ResultsInAppend DEF Events
    <3>7. log' = l \o <<>> \/ log' = l \o <<"tool_call">>
      BY <2>6 DEF ToolReturns
    <3>8. l \o <<>> = l /\ l \o <<"tool_call">> = Append(l, "tool_call")
      BY <3>6
    <3> HIDE DEF l
    <3>9. ResultsIn(log') = ResultsIn(l)
      BY <3>6, <3>7, <3>8, ResultsInAppend DEF Events
    <3>10. Cardinality(ToolsPast(history, turnStart)) = Cardinality(ResultsIn(log))
      BY <2>2, <3>1 DEF CountOK
    <3>11. Cardinality(ToolsPast(history', turnStart')) = Cardinality(ResultsIn(log'))
      BY <1>4, <3>5, <3>6, <3>9, <3>10
    <3> QED
      BY <3>3, <3>11 DEF CountOK, Running
  <2>7. CASE AutoCompactSkip \/ SubReply \/ SubToolsDone \/ ToolWrites \/ PressCtrlC
             \/ UNCHANGED vars
    <3>1. /\ UNCHANGED <<history, log>>
          /\ (pc' \in {"compacting", "begin"} <=> pc \in {"compacting", "begin"})
          /\ (pc' \in {"model"} \cup Running <=> pc \in {"model"} \cup Running)
      BY <2>7 DEF AutoCompactSkip, SubReply, SubToolsDone, ToolWrites, PressCtrlC, vars, Running
    <3> QED
      BY <1>4, <2>2, <3>1 DEF CountOK
  <2> QED
    BY <1>4, <2>1, <2>4, <2>5, <2>6, <2>7 DEF Proceeds
<1> QED
  BY <1>2, <1>3, <1>4, TurnGoesOn

LEMMA TraceIs == ASSUME Typed, LogOK, CountOK PROVE ReceiptsTrace
<1> DEFINE is(e) == {i \in 1..Len(log) : log[i] = e}
           answers == {i \in (turnStart + 1)..Len(history) : IsTool(history[i])}
<1>0. Len(log) \in Nat
  BY DEF Typed, LeftOK
<1>1. ASSUME NEW i \in is("tool_result") PROVE i - 1 \in is("tool_call")
  BY <1>0 DEF LogOK, Paired
<1>2. ASSUME NEW i \in is("tool_call")
      PROVE  \/ i + 1 \in is("tool_result")
             \/ i = Len(log) /\ (pc \in Running \/ outcome \in {"cancelled", "timeout"})
  <2>1. CASE i < Len(log)
    BY <1>0, <2>1 DEF LogOK, Paired
  <2>2. CASE ~(i < Len(log))
    <3>1. i = Len(log) /\ log # <<>>
      BY <1>0, <2>2
    <3> QED
      BY <3>1 DEF LogOK, Calling
  <2> QED
    BY <2>1, <2>2
<1>3. (pc \in {"model"} \cup Running /\ ~compacted) =>
          Cardinality(answers) = Cardinality(is("tool_result"))
  BY DEF CountOK, ToolsPast, ResultsIn
<1> QED
  BY <1>1, <1>2, <1>3 DEF ReceiptsTrace

\* The receipts of a turn tell what it did: calls and results alternate, only a
\* call that runs or was dropped has no result, and the conversation got as many
\* results as were logged.  (agent_turn's appends to the receipts log.)
THEOREM ReceiptsTellTheTurn == Spec => []ReceiptsTrace
<1>1. Init => OnTop /\ LogOK /\ CountOK
  BY FreshLog DEF Init, OnTop, LogOK, CountOK, Running
<1>2. Spec => [](Typed /\ OnTop /\ LogOK /\ CountOK)
  BY <1>1, TypedInit, TypedStep, OnTopStep, LogStep, CountStep, PTL DEF Spec
<1> QED
  BY <1>2, TraceIs, PTL

-----------------------------------------------------------------------------
\* Giving up on errors

LEMMA LastErrorsAppend ==
    ASSUME NEW h \in Conversation, NEW m \in Message
    PROVE  /\ ~IsUser(m) /\ ~IsTool(m) => LastErrors(Append(h, m)) = LastErrors(h)
           /\ IsTool(m) /\ m.tag = "error" =>
                Cardinality(LastErrors(Append(h, m))) = Cardinality(LastErrors(h)) + 1
           /\ IsTool(m) /\ m.tag # "error" => LastErrors(Append(h, m)) = {}
<1> DEFINE k == Len(h)
           g == Append(h, m)
           Bad(x) == ~IsUser(x) /\ (IsTool(x) => x.tag = "error")
<1>1. k \in Nat /\ Len(g) = k + 1 /\ g[k + 1] = m /\ \A i \in 1..k : g[i] = h[i]
  BY DEF Conversation
<1> HIDE DEF g
<1>2. \A i \in 1..k : (\A j \in i..(k + 1) : Bad(g[j])) <=> Bad(m) /\ \A j \in i..k : Bad(h[j])
  <2> TAKE i \in 1..k
  <2>1. \A j \in i..k : g[j] = h[j]
    BY <1>1
  <2>2. \A j : j \in i..(k + 1) <=> j = k + 1 \/ j \in i..k
    BY <1>1
  <2> HIDE DEF Bad
  <2> QED
    BY <1>1, <2>1, <2>2
<1>3. (\A j \in (k + 1)..(k + 1) : Bad(g[j])) <=> Bad(m)
  <2>1. \A j : j \in (k + 1)..(k + 1) <=> j = k + 1
    BY <1>1
  <2> HIDE DEF Bad
  <2> QED
    BY <1>1, <2>1
<1>4. \A i : i \in LastErrors(g) <=>
               i \in 1..(k + 1) /\ IsTool(g[i]) /\ \A j \in i..(k + 1) : Bad(g[j])
  BY <1>1 DEF LastErrors
<1>5. \A i : i \in LastErrors(h) <=> i \in 1..k /\ IsTool(h[i]) /\ \A j \in i..k : Bad(h[j])
  BY DEF LastErrors
<1>6. \A i : i \in LastErrors(g) <=>
               Bad(m) /\ (i \in LastErrors(h) \/ (i = k + 1 /\ IsTool(m)))
  <2> TAKE i
  <2> HIDE DEF Bad
  <2>1. CASE i \in 1..k
    <3>1. i # k + 1 /\ i \in 1..(k + 1)
      BY <1>1, <2>1
    <3> QED
      BY <1>1, <1>2, <1>4, <1>5, <2>1, <3>1
  <2>2. CASE i = k + 1
    <3>1. i \notin 1..k /\ i \in 1..(k + 1)
      BY <1>1, <2>2
    <3> QED
      BY <1>1, <1>3, <1>4, <1>5, <2>2, <3>1
  <2>3. CASE i \notin 1..k /\ i # k + 1
    <3>1. i \notin 1..(k + 1)
      BY <1>1, <2>3
    <3> QED
      BY <1>4, <1>5, <2>3, <3>1
  <2> QED
    BY <2>1, <2>2, <2>3
<1>7. ~IsUser(m) /\ ~IsTool(m) => LastErrors(g) = LastErrors(h)
  BY <1>6
<1>8. IsTool(m) /\ m.tag # "error" => LastErrors(g) = {}
  BY <1>6
<1>9. IsTool(m) /\ m.tag = "error" => LastErrors(g) = LastErrors(h) \cup {k + 1}
  BY <1>6 DEF IsTool, IsUser
<1>10. k + 1 \notin LastErrors(h)
  BY <1>1, <1>5
<1>11. IsFiniteSet(LastErrors(h))
  <2>1. IsFiniteSet(1..k) /\ LastErrors(h) \subseteq 1..k
    BY <1>1, <1>5, FS_Interval
  <2> QED
    BY <2>1, FS_Subset
<1>12. IsTool(m) /\ m.tag = "error" =>
          Cardinality(LastErrors(g)) = Cardinality(LastErrors(h)) + 1
  BY <1>9, <1>10, <1>11, FS_AddElement
<1> QED
  BY <1>7, <1>8, <1>12 DEF g

\* Every conversation that may be cut off here has fewer errors at its end than
\* a run gives up on.
Bearable(h) == \A n \in 0..Len(h) : Cardinality(LastErrors(SubSeq(h, 1, n))) < ErrCap

LEMMA BearableAppend ==
    ASSUME NEW h \in Conversation, NEW m \in Message, Bearable(h),
           Cardinality(LastErrors(Append(h, m))) < ErrCap
    PROVE  Bearable(Append(h, m))
<1>1. Len(h) \in Nat /\ Len(Append(h, m)) = Len(h) + 1
      /\ SubSeq(Append(h, m), 1, Len(h) + 1) = Append(h, m)
      /\ \A n \in 0..Len(h) : SubSeq(Append(h, m), 1, n) = SubSeq(h, 1, n)
  BY DEF Conversation
<1>2. ASSUME NEW n \in 0..(Len(h) + 1)
      PROVE  Cardinality(LastErrors(SubSeq(Append(h, m), 1, n))) < ErrCap
  <2>1. CASE n \in 0..Len(h)
    <3>1. SubSeq(Append(h, m), 1, n) = SubSeq(h, 1, n)
      BY <1>1, <2>1
    <3> QED
      BY <2>1, <3>1 DEF Bearable
  <2>2. CASE n = Len(h) + 1
    BY <1>1, <2>2
  <2> QED
    BY <1>1, <2>1, <2>2
<1> QED
  BY <1>1, <1>2 DEF Bearable

\* Messages that outlast a turn, and those of them that are no results.
Lasting == {m \in Message : NotSingle(m)}
Quiet == {m \in Lasting : ~IsTool(m)}

LEMMA QuietBears ==
    ASSUME NEW h \in Seq(Quiet)
    PROVE  LastErrors(h) = {} /\ Bearable(h)
<1>1. ASSUME NEW g \in Seq(Quiet) PROVE LastErrors(g) = {}
  <2>1. \A i \in 1..Len(g) : ~IsTool(g[i])
    BY DEF Quiet
  <2> QED
    BY <2>1 DEF LastErrors
<1>2. ASSUME NEW n \in 0..Len(h) PROVE Cardinality(LastErrors(SubSeq(h, 1, n))) < ErrCap
  <2>1. SubSeq(h, 1, n) \in Seq(Quiet)
    OBVIOUS
  <2>2. LastErrors(SubSeq(h, 1, n)) = {}
    BY <1>1, <2>1
  <2>3. ErrCap \in Nat \ {0} /\ Cardinality({}) = 0
    BY FS_EmptySet, AgentAssumption
  <2>4. Cardinality(LastErrors(SubSeq(h, 1, n))) = 0
    BY <2>2, <2>3
  <2> HIDE DEF LastErrors
  <2> QED
    BY <2>3, <2>4
<1> QED
  BY <1>1, <1>2 DEF Bearable

\* Nothing goes when every position stays.
LEMMA KeptAll ==
    ASSUME NEW S, NEW I PROVE \A h \in Seq(S) : (1..Len(h)) \subseteq I => Kept(h, I) = h
<1> DEFINE T == {h \in Seq(S) : (1..Len(h)) \subseteq I => Kept(h, I) = h}
<1>1. <<>> \in T
  BY KeptEmpty, EmptySeq
<1>2. ASSUME NEW h \in Seq(S), NEW e \in S, h \in T PROVE Append(h, e) \in T
  <2> SUFFICES ASSUME (1..Len(Append(h, e))) \subseteq I PROVE Kept(Append(h, e), I) = Append(h, e)
    OBVIOUS
  <2>1. Len(h) \in Nat /\ Len(Append(h, e)) = Len(h) + 1
    OBVIOUS
  <2>2. (1..Len(h)) \subseteq I /\ Len(h) + 1 \in I
    BY <2>1
  <2>3. Kept(h, I) = h
    BY <1>2, <2>2
  <2> QED
    BY <2>2, <2>3, KeptAppend
<1>3. Seq(S) \subseteq T
  <2> HIDE DEF T
  <2> QED
    BY <1>1, <1>2, AllSeqs
<1> QED
  BY <1>3

LEMMA NothingToStrip == ASSUME NEW h \in Seq(Lasting) PROVE Unhinted(h) = h
<1>1. (1..Len(h)) \subseteq {i \in 1..Len(h) : NotSingle(h[i])}
  BY DEF Lasting
<1> QED
  BY <1>1, KeptAll DEF Unhinted

\* A one-shot run counts the errors at the end of its conversation, and stops as
\* soon as there are too many.
ValveOK ==
    Headless =>
        /\ pc # "exit" => history \in Seq(Lasting)
        /\ pc \in {"idle", "compacting", "begin"} => history \in Seq(Quiet)
        /\ pc \in {"model"} \cup Running =>
              errs = Cardinality(LastErrors(history)) /\ Bearable(history)
        /\ pc = "exit" => (Cardinality(LastErrors(history)) >= ErrCap <=> outcome = "stuck")

\* A one-shot run does one of these.
LEMMA OneShot ==
    ASSUME Typed, Headless, [Next]_vars
    PROVE  \/ \E kind \in {"chat"} \cup Entries : Submit(kind)
           \/ AutoCompactSkip \/ AutoCompactDone \/ BeginTurn
           \/ \E k \in 0..MaxCalls : ModelReply(k)
           \/ Drops
           \/ SubReply \/ SubToolsDone \/ ToolWrites \/ PressCtrlC
           \/ \E tag \in Results[mode] : ToolReturns(tag)
           \/ Idles
<1>1. ~QuickCommand
  BY QuickCommands DEF Quick, Command
<1>2. ~ReviewEnds /\ ~Review /\ ~Restart
  BY DEF ReviewEnds, Review, Command, Restart, Typed, Control, PhaseOK
<1> QED
  BY <1>1, <1>2, StepKinds DEF ReviewReply, ReviewDropped

LEMMA ValveStep == ASSUME Typed, ValveOK, [Next]_vars PROVE ValveOK'
<1> USE DEF loop
<1>0. /\ history \in Conversation /\ pc \in {"idle", "review", "exit"} \cup Open
      /\ pc \in Open <=> outcome = "running"
      /\ ErrCap \in Nat \ {0}
  BY AgentAssumption DEF Typed, TextOK, Control, PhaseOK
<1>m. mode' = mode
  BY StepKinds, QuickCommands
     DEF Submit, AutoCompactSkip, AutoCompactDone, BeginTurn, ModelReply, ReviewReply, ReviewEnds,
         ReviewDropped, Review, Drops, BudgetRefuse, ModelFails, CancelTurn, TimeCapHit, SubReply,
         SubToolsDone, ToolWrites, PressCtrlC, ToolReturns, Quick, Command, Restart, Idles,
         UserEdits, Exited, vars
<1> SUFFICES ASSUME Headless PROVE ValveOK'
  BY <1>m DEF ValveOK, Headless
<1>a. /\ System("note") \in Quiet /\ System("memory") \in Quiet /\ User \in Quiet
      /\ \A k \in 0..MaxCalls : Assistant(k) \in Lasting
      /\ Quiet \subseteq Lasting /\ Lasting \subseteq Message
  BY MessageTypes
     DEF Quiet, Lasting, NotSingle, IsSystem, IsTool, System, User, Assistant, SystemTags
<1>q. \A h \in Seq(Quiet) : h \in Seq(Lasting)
  BY <1>a
<1>1. ASSUME NEW kind, Submit(kind) PROVE ValveOK'
  <2>1. pc = "idle" /\ pc' = "compacting" /\ history' = Append(history, User)
    BY <1>1 DEF Submit
  <2>2. history \in Seq(Quiet)
    BY <2>1 DEF ValveOK
  <2>3. history' \in Seq(Quiet)
    BY <1>a, <2>1, <2>2
  <2> QED
    BY <1>q, <2>1, <2>3 DEF ValveOK, Running
<1>2. CASE AutoCompactSkip
  <2>1. pc = "compacting" /\ pc' = "begin" /\ history' = history
    BY <1>2 DEF AutoCompactSkip
  <2> QED
    BY <2>1 DEF ValveOK, Running
<1>3. CASE AutoCompactDone
  <2> DEFINE c == CutAt(history, KeepRecent)
             short == Compacted(history, c)
  <2>1. pc = "compacting" /\ pc' = "begin" /\ Compact
    BY <1>3 DEF AutoCompactDone
  <2>2. history \in Seq(Quiet)
    BY <2>1 DEF ValveOK
  <2>3. c \in 1..Len(history)
    BY <2>1, CompactCut DEF Typed
  <2>4. short \in Seq(Quiet)
    BY <1>a, <2>2, <2>3, CompactedIn
  <2>5. Without(short, "memory") \in Seq(Quiet)
    BY <1>a, <2>4, InsertIn
  <2>6. Inserted(Without(short, "memory"), "memory") \in Seq(Quiet)
    BY <1>a, <2>5, InsertIn
  <2>7. history' \in {short, Inserted(Without(short, "memory"), "memory")}
    BY <2>1 DEF Compact
  <2>8. history' \in Seq(Quiet)
    BY <2>4, <2>6, <2>7
  <2> QED
    BY <1>q, <2>1, <2>8 DEF ValveOK, Running
<1>4. CASE BeginTurn
  <2>1. pc = "begin" /\ pc' = "model" /\ history' = history /\ errs' = 0
    BY <1>4 DEF BeginTurn
  <2>2. history \in Seq(Quiet)
    BY <2>1 DEF ValveOK
  <2>3. Cardinality(LastErrors(history)) = 0 /\ Bearable(history)
    BY <2>2, QuietBears, FS_EmptySet
  <2> QED
    BY <1>q, <2>1, <2>2, <2>3 DEF ValveOK, Running
<1>b. \A h \in Conversation : Bearable(h) => Cardinality(LastErrors(h)) < ErrCap
  <2> TAKE h \in Conversation
  <2>1. SubSeq(h, 1, Len(h)) = h /\ Len(h) \in 0..Len(h)
    BY DEF Conversation
  <2> QED
    BY <2>1 DEF Bearable
<1>c. \A h \in Conversation : Cardinality(LastErrors(h)) \in Nat
  <2> TAKE h \in Conversation
  <2>1. IsFiniteSet(1..Len(h)) /\ LastErrors(h) \subseteq 1..Len(h)
    BY FS_Interval DEF Conversation, LastErrors
  <2> QED
    BY <2>1, FS_Subset, FS_CardinalityType
\* A turn that ends otherwise than stuck ends on few errors.
<1>d. ASSUME pc' = "exit", outcome' # "stuck", history' \in Conversation,
             Cardinality(LastErrors(history')) < ErrCap
      PROVE  ValveOK'
  BY <1>0, <1>c, <1>d DEF ValveOK, Running
<1>5. ASSUME NEW k \in 0..MaxCalls, ModelReply(k) PROVE ValveOK'
  <2> DEFINE h == Append(history, Assistant(k))
  <2>1. /\ pc = "model" /\ history \in Seq(Lasting) /\ Assistant(k) \in Lasting
        /\ errs = Cardinality(LastErrors(history)) /\ Bearable(history)
    BY <1>a, <1>5 DEF ModelReply, ValveOK
  <2>2. h \in Seq(Lasting) /\ h \in Conversation
    BY <1>0, <1>a, <2>1 DEF Conversation
  <2>3. LastErrors(h) = LastErrors(history)
    <3>1. ~IsUser(Assistant(k)) /\ ~IsTool(Assistant(k)) /\ Assistant(k) \in Message
      BY <1>a, <2>1 DEF Assistant, IsUser, IsTool
    <3> QED
      BY <1>0, <3>1, LastErrorsAppend
  <2>4. Cardinality(LastErrors(h)) < ErrCap
    BY <1>0, <1>b, <2>1, <2>3
  <2>5. Bearable(h)
    BY <1>0, <1>a, <2>1, <2>4, BearableAppend
  <2>6. CASE k = 0
    <3>1. history' = Unhinted(h) /\ pc' = "exit" /\ outcome' = "done"
      BY <1>5, <2>6 DEF ModelReply, EndTurn, Leave
    <3>2. Unhinted(h) = h
      <4> HIDE DEF h
      <4> QED
        BY <2>2, NothingToStrip
    <3> QED
      BY <1>d, <2>2, <2>4, <3>1, <3>2
  <2>7. CASE k # 0
    <3>1. history' = h /\ errs' = errs /\ pc' \in Running
      BY <1>5, <2>7 DEF ModelReply, CallStarts, Running
    <3> HIDE DEF h
    <3> QED
      BY <2>1, <2>2, <2>3, <2>5, <3>1 DEF ValveOK, Running
  <2> QED
    BY <2>6, <2>7
<1>6. ASSUME NEW tag \in Results[mode], ToolReturns(tag) PROVE ValveOK'
  <2> DEFINE t == Tool(tag, call)
             h == Append(history, t)
             bad == ErrorsAfter(tag)
  <2>1. /\ pc \in Running /\ history \in Seq(Lasting)
        /\ errs = Cardinality(LastErrors(history)) /\ Bearable(history)
    BY <1>6 DEF ToolReturns, CallEnds, ValveOK, Running
  <2>2. t \in Message /\ t \in Lasting /\ IsTool(t) /\ t.tag = tag
    <3>1. t \in Message
      BY <2>1, CallTypes
    <3> QED
      BY <3>1 DEF Lasting, NotSingle, IsSystem, IsTool, Tool
  <2>3. h \in Seq(Lasting) /\ h \in Conversation
    BY <1>0, <2>1, <2>2 DEF Conversation
  <2> HIDE DEF t
  <2>4. Cardinality(LastErrors(h)) = bad
    <3>1. CASE tag = "error"
      <4>1. Cardinality(LastErrors(h)) = Cardinality(LastErrors(history)) + 1
        BY <1>0, <2>2, <3>1, LastErrorsAppend
      <4> QED
        BY <2>1, <3>1, <4>1 DEF ErrorsAfter
    <3>2. CASE tag # "error"
      <4>1. LastErrors(h) = {}
        BY <1>0, <2>2, <3>2, LastErrorsAppend
      <4> QED
        BY <3>2, <4>1, FS_EmptySet DEF ErrorsAfter
    <3> QED
      BY <3>1, <3>2
  <2>5. CASE ~(bad >= ErrCap)
    <3>1. Cardinality(LastErrors(h)) < ErrCap
      <4>1. bad \in Nat
        BY <1>c, <2>3, <2>4
      <4> HIDE DEF bad, h
      <4> QED
        BY <1>0, <2>4, <2>5, <4>1
    <3>2. Bearable(h)
      BY <1>0, <2>1, <2>2, <3>1, BearableAppend
    <3>3. \/ pc' \in {"model"} \cup Running /\ history' = h /\ errs' = bad
          \/ pc' = "exit" /\ outcome' = "capped" /\ history' = Unhinted(h)
      BY <1>6, <2>5 DEF ToolReturns, EndTurn, Leave, CallStarts, Running, t
    <3>4. Unhinted(h) = h
      <4> HIDE DEF h
      <4> QED
        BY <2>3, NothingToStrip
    <3> HIDE DEF h, bad
    <3>5. CASE pc' = "exit" /\ outcome' = "capped" /\ history' = Unhinted(h)
      BY <1>d, <2>3, <3>1, <3>4, <3>5
    <3>6. CASE pc' \in {"model"} \cup Running /\ history' = h /\ errs' = bad
      BY <2>3, <2>4, <3>2, <3>6 DEF ValveOK, Running
    <3> QED
      BY <3>3, <3>5, <3>6
  <2>6. CASE bad >= ErrCap
    <3>1. pc' = "exit" /\ outcome' = "stuck" /\ history' = h
      BY <1>6, <2>6 DEF ToolReturns, Leave, t
    <3>2. Cardinality(LastErrors(history')) >= ErrCap
      BY <2>4, <2>6, <3>1
    <3> QED
      BY <3>1, <3>2 DEF ValveOK, Running
  <2> QED
    BY <2>5, <2>6
<1>7. CASE BudgetRefuse
  <2>1. pc = "begin" /\ pc' = "exit" /\ outcome' = "refused" /\ history' = history
    BY <1>7 DEF BudgetRefuse, Leave
  <2>2. LastErrors(history) = {}
    BY <2>1, QuietBears DEF ValveOK
  <2>3. Cardinality(LastErrors(history)) < ErrCap
    <3>1. Cardinality(LastErrors(history)) = 0
      BY <2>2, FS_EmptySet
    <3> QED
      BY <1>0, <3>1
  <2> QED
    BY <1>0, <1>d, <2>1, <2>3
<1>8. CASE ModelFails \/ CancelTurn \/ TimeCapHit
  <2>1. /\ pc \in {"model"} \cup Running /\ pc' = "exit"
        /\ outcome' \in {"failed", "cancelled", "timeout"}
        /\ history' = history \/ history' = Truncate(history, turnStart)
    BY <1>8 DEF ModelFails, CancelTurn, TimeCapHit, AbandonTurn, Leave
  <2>2. Bearable(history) /\ turnStart \in Nat /\ Len(history) \in Nat
    BY <2>1 DEF ValveOK, Typed, Control, LoopOK, TextOK, Conversation
  <2>3. history' = history \/ \E n \in 0..Len(history) : history' = SubSeq(history, 1, n)
    BY <2>1, <2>2 DEF Truncate
  <2>4. Cardinality(LastErrors(history')) < ErrCap
    BY <1>0, <1>b, <2>2, <2>3 DEF Bearable
  <2>5. history' \in Conversation
    BY TextStep DEF Typed, TextOK
  <2> QED
    BY <1>d, <2>1, <2>4, <2>5
<1>9. CASE SubReply \/ SubToolsDone
  <2>1. pc \in Running /\ pc' \in Running /\ history' = history /\ errs' = errs
    BY <1>9 DEF SubReply, SubToolsDone, Running
  <2> QED
    BY <2>1 DEF ValveOK, Running
<1>10. CASE ToolWrites \/ PressCtrlC \/ Idles
  <2>1. UNCHANGED <<pc, history, errs, outcome>>
    BY <1>10 DEF ToolWrites, PressCtrlC, Idles, UserEdits, Exited, vars
  <2> QED
    BY <2>1 DEF ValveOK
<1> QED
  BY <1>1, <1>2, <1>3, <1>4, <1>5, <1>6, <1>7, <1>8, <1>9, <1>10, OneShot DEF Drops

LEMMA ValveInit == Init => ValveOK
<1> SUFFICES ASSUME Init, Headless PROVE ValveOK
  BY DEF ValveOK
<1>1. pc = "idle" /\ history \in {<<>>, <<System("memory")>>, <<User, Assistant(0)>>}
  BY DEF Init, Openings
<1>2. System("memory") \in Quiet /\ User \in Quiet /\ Assistant(0) \in Quiet
  BY MessageTypes, Caps
     DEF Quiet, Lasting, NotSingle, IsSystem, IsTool, System, User, Assistant, SystemTags
<1>3. history \in Seq(Quiet)
  <2>1. {<<>>, <<System("memory")>>, <<User, Assistant(0)>>} \subseteq Seq(Quiet)
    BY <1>2, EmptySeq
  <2> QED
    BY <1>1, <2>1
<1>4. history \in Seq(Lasting)
  BY <1>3 DEF Quiet
<1> QED
  BY <1>1, <1>3, <1>4 DEF ValveOK, Running

\* A one-shot run gives up exactly when the results at the end of its conversation
\* are so many errors, however they are spread over its messages and whatever came
\* before; an interactive one never does.  (consecutive_tool_errors, agent_turn.)
THEOREM ErrorsStopARun == Spec => []ErrorValve
<1>1. Typed /\ ValveOK => ErrorValve
  <2> SUFFICES ASSUME Typed, ValveOK PROVE ErrorValve
    OBVIOUS
  <2>1. CASE ~Headless
    BY <2>1 DEF ErrorValve, Typed, Control, PhaseOK
  <2>2. CASE Headless /\ pc = "exit"
    BY <2>2 DEF ErrorValve, ValveOK
  <2>3. CASE Headless /\ pc \in {"model"} \cup Running
    <3>1. Bearable(history) /\ outcome = "running"
      BY <2>3 DEF ValveOK, Typed, Control, PhaseOK, Open
    <3>2. SubSeq(history, 1, Len(history)) = history /\ Len(history) \in 0..Len(history)
      BY DEF Typed, TextOK, Conversation
    <3>3. Cardinality(LastErrors(history)) < ErrCap
      BY <3>1, <3>2 DEF Bearable
    <3>4. Cardinality(LastErrors(history)) \in Nat /\ ErrCap \in Nat
      BY <2>3, AgentAssumption DEF ValveOK, Typed, Control, LoopOK
    <3>5. ~(Cardinality(LastErrors(history)) >= ErrCap)
      BY <3>3, <3>4
    <3> QED
      BY <2>3, <3>1, <3>5 DEF ErrorValve
  <2>4. CASE Headless /\ pc \notin {"model", "exit"} \cup Running
    BY <2>4 DEF ErrorValve
  <2> QED
    BY <2>1, <2>2, <2>3, <2>4
<1> QED
  BY <1>1, TypedInit, TypedStep, ValveInit, ValveStep, PTL DEF Spec

-----------------------------------------------------------------------------
\* Calls and their answers

LEMMA MessageFacts ==
    ASSUME NEW m \in Message
    PROVE  /\ m.n \in Nat
           /\ IsTool(m) => m.n >= 1 /\ m.role # "assistant" /\ ~IsSystem(m)
           /\ m.role = "assistant" => ~IsSystem(m)
           /\ m.role \notin {"tool", "assistant"} => IsSystem(m) \/ IsUser(m)
  BY Caps DEF Message, IsTool, IsSystem, IsUser

\* Behind a call come its answers, without a gap.
LEMMA BlockBehind ==
    ASSUME NEW h \in Conversation, Answered(h), NEW i \in 1..Len(h), IsTool(h[i])
    PROVE  /\ h[i].n \in Nat /\ h[i].n >= 1 /\ i - h[i].n \in 1..Len(h)
           /\ h[i - h[i].n].role = "assistant"
           /\ h[i].n <= h[i - h[i].n].n
           /\ \A d \in 0..(h[i].n - 1) :
                 i - d \in 1..Len(h) /\ IsTool(h[i - d]) /\ h[i - d].n = h[i].n - d
<1> DEFINE n == h[i].n
           a == i - n
<1>1. Len(h) \in Nat /\ \A j \in 1..Len(h) : h[j] \in Message
  BY DEF Conversation
<1>2. n \in Nat /\ n >= 1
  BY <1>1, MessageFacts
<1>3. n < i /\ h[a].role = "assistant" /\ n <= h[a].n
  BY DEF Answered, AnswersACall
<1>4. a \in 1..Len(h)
  BY <1>1, <1>2, <1>3
<1>5. h[a].n \in Nat /\ \A j \in 1..h[a].n : IsTool(h[a + j]) /\ h[a + j].n = j
  BY <1>1, <1>3, <1>4, MessageFacts DEF Answered, CallsAnswered
<1>6. ASSUME NEW d \in 0..(n - 1)
      PROVE  i - d \in 1..Len(h) /\ IsTool(h[i - d]) /\ h[i - d].n = n - d
  <2>1. n - d \in 1..h[a].n /\ a + (n - d) = i - d /\ i - d \in 1..Len(h)
    BY <1>2, <1>3, <1>5, SMTT(30)
  <2> HIDE DEF n, a
  <2>2. IsTool(h[a + (n - d)]) /\ h[a + (n - d)].n = n - d
    BY <1>5, <2>1
  <2> QED
    BY <2>1, <2>2
<1> QED
  BY <1>2, <1>3, <1>4, <1>6

\* A cut that does not begin at an answer has a call and its answers on one side.
LEMMA BlockSide ==
    ASSUME NEW h \in Conversation, Answered(h), NEW c \in 1..Len(h), ~IsTool(h[c]),
           NEW i \in 1..Len(h), IsTool(h[i])
    PROVE  i < c <=> i - h[i].n < c
<1>1. h[i].n \in Nat
  BY BlockBehind
<1>2. i < c => i - h[i].n < c
  BY <1>1
<1>3. ASSUME ~(i < c), i - h[i].n < c PROVE FALSE
  <2>1. i - c \in 0..(h[i].n - 1) /\ i - (i - c) = c
    BY <1>1, <1>3
  <2>2. IsTool(h[i - (i - c)])
    BY <2>1, BlockBehind
  <2> QED
    BY <2>1, <2>2
<1> QED
  BY <1>2, <1>3

\* What stays well formed when calls go, if at all, with all their answers.
LEMMA AnsweredKept ==
    ASSUME NEW h \in Conversation, Answered(h), NEW I, I \subseteq 1..Len(h),
           \A i \in 1..Len(h) : IsTool(h[i]) => (i \in I <=> i - h[i].n \in I)
    PROVE  Answered(Kept(h, I))
<1> DEFINE r == Kept(h, I)
<1>1. Len(h) \in Nat /\ \A j \in 1..Len(h) : h[j] \in Message
  BY DEF Conversation
<1>2. PICK e : Runs(r, h, I, e)
  BY KeptRuns DEF Conversation
<1> HIDE DEF r
<1>3. /\ Len(r) \in Nat
      /\ \A k \in 1..Len(r) : e[k] \in I /\ e[k] \in 1..Len(h) /\ r[k] = h[e[k]]
  BY <1>2 DEF Runs, Places, Embeds
<1>e. \A k \in 1..Len(r) : \A d \in Nat :
         /\ (\A x \in 1..d : e[k] - x \in I) => d < k /\ e[k - d] = e[k] - d
         /\ (\A x \in 1..d : e[k] + x \in I) => k + d <= Len(r) /\ e[k + d] = e[k] + d
  BY <1>2 DEF Runs
<1>4. ASSUME NEW k \in 1..Len(r), IsTool(r[k]) PROVE AnswersACall(r, k)
  <2> DEFINE i == e[k]
             n == h[i].n
  <2>1. i \in 1..Len(h) /\ i \in I /\ r[k] = h[i] /\ IsTool(h[i])
    BY <1>3, <1>4
  <2> HIDE DEF i
  <2>2. /\ n \in Nat /\ n >= 1 /\ i - n \in 1..Len(h)
        /\ h[i - n].role = "assistant" /\ n <= h[i - n].n
        /\ \A d \in 0..(n - 1) :
              i - d \in 1..Len(h) /\ IsTool(h[i - d]) /\ h[i - d].n = n - d
    BY <2>1, BlockBehind
  <2>3. i - n \in I
    BY <2>1
  <2>4. ASSUME NEW x \in 1..n PROVE i - x \in I
    <3>1. CASE x = n
      BY <2>3, <3>1
    <3>2. CASE x # n
      <4> DEFINE y == i - x
      <4>1. x \in 0..(n - 1)
        BY <2>2, <3>2
      <4>2. y \in 1..Len(h) /\ IsTool(h[y]) /\ h[y].n = n - x
        BY <2>2, <4>1
      <4>3. y - h[y].n = i - n
        BY <2>1, <2>2, <4>1, <4>2
      <4> HIDE DEF y
      <4>4. y \in I
        BY <2>3, <4>2, <4>3
      <4> QED
        BY <4>4 DEF y
    <3> QED
      BY <3>1, <3>2
  <2>5. n < k /\ e[k - n] = i - n
    <3>1. n \in Nat /\ \A x \in 1..n : e[k] - x \in I
      BY <2>2, <2>4 DEF i
    <3> HIDE DEF n
    <3>2. n < k /\ e[k - n] = e[k] - n
      BY <1>e, <3>1
    <3> QED
      BY <3>2 DEF i
  <2>6. k - n \in 1..Len(r) /\ r[k - n] = h[i - n]
    BY <1>3, <2>2, <2>5
  <2> QED
    BY <2>1, <2>2, <2>5, <2>6 DEF AnswersACall
<1>5. ASSUME NEW k \in 1..Len(r), r[k].role = "assistant" PROVE CallsAnswered(r, k)
  <2> DEFINE i == e[k]
             n == h[i].n
  <2>1. i \in 1..Len(h) /\ i \in I /\ r[k] = h[i] /\ h[i].role = "assistant"
    BY <1>3, <1>5
  <2> HIDE DEF i
  <2>2. n \in Nat /\ CallsAnswered(h, i)
    BY <1>1, <2>1, MessageFacts DEF Answered
  <2>3. ASSUME NEW x \in 1..n
        PROVE  i + x \in I /\ IsTool(h[i + x]) /\ h[i + x].n = x
    <3> DEFINE y == i + x
    <3>1. y <= Len(h) /\ IsTool(h[y]) /\ h[y].n = x
      BY <2>2 DEF CallsAnswered
    <3>2. y \in 1..Len(h) /\ y - h[y].n = i
      BY <1>1, <2>1, <3>1
    <3> HIDE DEF y
    <3>3. y \in I
      BY <2>1, <3>1, <3>2
    <3> QED
      BY <3>1, <3>3 DEF y
  <2>4. ASSUME NEW j \in 1..n
        PROVE  k + j <= Len(r) /\ IsTool(r[k + j]) /\ r[k + j].n = j
    <3>1. j \in Nat /\ \A x \in 1..j : i + x \in I
      BY <2>2, <2>3
    <3>2. k + j <= Len(r) /\ e[k + j] = i + j
      BY <1>e, <3>1 DEF i
    <3>3. k + j \in 1..Len(r)
      BY <1>3, <3>2
    <3>4. r[k + j] = h[i + j]
      BY <1>3, <3>2, <3>3
    <3> QED
      BY <2>3, <3>2, <3>4
  <2> QED
    BY <2>1, <2>4 DEF CallsAnswered
<1>6. Answered(r)
  BY <1>4, <1>5 DEF Answered
<1> QED
  BY <1>6 DEF r

\* No call and no answer goes, or all of them do.
LEMMA AnsweredSifted ==
    ASSUME NEW h \in Conversation, Answered(h), NEW I, I \subseteq 1..Len(h),
           NonSystem(h) \subseteq I \/ I \subseteq Systems(h)
    PROVE  Answered(Kept(h, I))
<1>1. \A j \in 1..Len(h) : h[j] \in Message
  BY DEF Conversation
<1>2. ASSUME NEW i \in 1..Len(h), IsTool(h[i]) PROVE i \in I <=> i - h[i].n \in I
  <2> DEFINE a == i - h[i].n
  <2>1. a \in 1..Len(h) /\ h[a].role = "assistant"
    BY <1>2, BlockBehind
  <2> HIDE DEF a
  <2>2. ~IsSystem(h[a]) /\ ~IsSystem(h[i])
    BY <1>1, <1>2, <2>1, MessageFacts
  <2>3. a \in NonSystem(h) /\ i \in NonSystem(h) /\ a \notin Systems(h) /\ i \notin Systems(h)
    BY <2>1, <2>2 DEF NonSystem, Systems
  <2>4. i \in I <=> a \in I
    BY <2>3
  <2> QED
    BY <2>4 DEF a
<1> QED
  BY <1>2, AnsweredKept

LEMMA AnsweredRewound ==
    ASSUME NEW h \in Conversation, Answered(h), NEW c \in 1..Len(h), ~IsTool(h[c])
    PROVE  /\ Answered(Rewound(h, c))
           /\ Answered(Kept(h, Systems(h) \cup (c..Len(h))))
<1>1. Len(h) \in Nat /\ \A j \in 1..Len(h) : h[j] \in Message
  BY DEF Conversation
<1>2. ASSUME NEW i \in 1..Len(h), IsTool(h[i])
      PROVE  /\ i \in (1..(c - 1)) \cup Systems(h) <=> i - h[i].n \in (1..(c - 1)) \cup Systems(h)
             /\ i \in Systems(h) \cup (c..Len(h)) <=> i - h[i].n \in Systems(h) \cup (c..Len(h))
  <2> DEFINE a == i - h[i].n
  <2>1. a \in 1..Len(h) /\ h[a].role = "assistant"
    BY <1>2, BlockBehind
  <2>2. i < c <=> a < c
    BY <1>2, BlockSide
  <2> HIDE DEF a
  <2>3. ~IsSystem(h[a]) /\ ~IsSystem(h[i])
    BY <1>1, <1>2, <2>1, MessageFacts
  <2>4. a \notin Systems(h) /\ i \notin Systems(h)
    BY <2>3 DEF Systems
  <2>5. /\ i \in 1..(c - 1) <=> a \in 1..(c - 1)
        /\ i \in c..Len(h) <=> a \in c..Len(h)
    BY <1>1, <2>1, <2>2
  <2>6. /\ i \in (1..(c - 1)) \cup Systems(h) <=> a \in (1..(c - 1)) \cup Systems(h)
        /\ i \in Systems(h) \cup (c..Len(h)) <=> a \in Systems(h) \cup (c..Len(h))
    BY <2>4, <2>5
  <2> QED
    BY <2>6 DEF a
<1>3. (1..(c - 1)) \cup Systems(h) \subseteq 1..Len(h)
      /\ Systems(h) \cup (c..Len(h)) \subseteq 1..Len(h)
  BY <1>1 DEF Systems
<1>4. Answered(Kept(h, (1..(c - 1)) \cup Systems(h)))
  BY <1>2, <1>3, AnsweredKept
<1>5. Answered(Kept(h, Systems(h) \cup (c..Len(h))))
  BY <1>2, <1>3, AnsweredKept
<1> QED
  BY <1>4, <1>5 DEF Rewound

LEMMA AnsweredSystems ==
    ASSUME NEW h, \A i \in 1..Len(h) : IsSystem(h[i]) PROVE Answered(h)
  BY DEF Answered, IsSystem, IsTool

LEMMA AnsweredPrefix ==
    ASSUME NEW h \in Conversation, Answered(h), NEW n \in 0..Len(h),
           n = Len(h) \/ ~IsTool(h[n + 1])
    PROVE  Answered(SubSeq(h, 1, n))
<1> DEFINE r == SubSeq(h, 1, n)
<1>1. Len(h) \in Nat /\ \A j \in 1..Len(h) : h[j] \in Message
  BY DEF Conversation
<1>2. Len(r) = n /\ \A i \in 1..n : r[i] = h[i]
  BY <1>1 DEF Conversation
<1>3. CASE n = Len(h)
  <2>1. r = h
    BY <1>3 DEF Conversation
  <2> QED
    BY <2>1
<1>4. CASE n # Len(h)
  <2>0. n + 1 \in 1..Len(h) /\ ~IsTool(h[n + 1])
    BY <1>1, <1>4
  <2>1. ASSUME NEW i \in 1..n, IsTool(r[i]) PROVE AnswersACall(r, i)
    <3>1. i \in 1..Len(h) /\ IsTool(h[i]) /\ r[i] = h[i]
      BY <1>1, <1>2, <2>1
    <3>2. /\ h[i].n \in Nat /\ i - h[i].n \in 1..Len(h) /\ h[i].n >= 1
          /\ h[i - h[i].n].role = "assistant" /\ h[i].n <= h[i - h[i].n].n
      BY <3>1, BlockBehind
    <3>3. i - h[i].n \in 1..n
      BY <3>1, <3>2
    <3>4. r[i - h[i].n] = h[i - h[i].n] /\ h[i].n < i
      BY <1>2, <3>1, <3>2, <3>3
    <3> HIDE DEF r
    <3> QED
      BY <3>1, <3>2, <3>4 DEF AnswersACall
  <2>2. ASSUME NEW i \in 1..n, r[i].role = "assistant" PROVE CallsAnswered(r, i)
    <3>1. i \in 1..Len(h) /\ h[i].role = "assistant" /\ r[i] = h[i]
      BY <1>1, <1>2, <2>2
    <3>2. h[i].n \in Nat
      BY <1>1, <3>1, MessageFacts
    <3>3. ASSUME NEW j \in 1..h[i].n PROVE i + j <= n /\ IsTool(r[i + j]) /\ r[i + j].n = j
      <4> DEFINE k == i + j
      <4>1. k <= Len(h) /\ IsTool(h[k]) /\ h[k].n = j
        BY <3>1 DEF Answered, CallsAnswered
      <4>2. k \in 1..Len(h) /\ k - h[k].n = i
        BY <1>1, <3>1, <3>2, <4>1
      <4> HIDE DEF k
      <4>3. k < n + 1 <=> i < n + 1
        BY <2>0, <4>1, <4>2, BlockSide
      <4>4. k \in 1..n
        BY <4>2, <4>3
      <4>5. r[k] = h[k]
        BY <1>2, <4>4
      <4>6. k <= n /\ IsTool(r[k]) /\ r[k].n = j
        BY <4>1, <4>4, <4>5
      <4> QED
        BY <4>6 DEF k
    <3> HIDE DEF r
    <3> QED
      BY <1>2, <3>1, <3>3 DEF CallsAnswered
  <2> HIDE DEF r
  <2>3. Answered(r)
    BY <1>2, <2>1, <2>2 DEF Answered
  <2> QED
    BY <2>3 DEF r
<1> QED
  BY <1>3, <1>4

LEMMA AnsweredSuffix ==
    ASSUME NEW h \in Conversation, Answered(h), NEW c \in 1..Len(h), ~IsTool(h[c])
    PROVE  Answered(SubSeq(h, c, Len(h)))
<1> DEFINE r == SubSeq(h, c, Len(h))
           m == Len(h) - c + 1
           b == c - 1
<1>1. Len(h) \in Nat /\ \A j \in 1..Len(h) : h[j] \in Message
  BY DEF Conversation
<1>2. Len(r) = m /\ m \in Nat /\ b \in Nat /\ \A i \in 1..m : r[i] = h[i + b] /\ i + b \in 1..Len(h)
  BY <1>1 DEF Conversation
<1>3. ASSUME NEW i \in 1..m, IsTool(r[i]) PROVE AnswersACall(r, i)
  <2> DEFINE k == i + b
             n == h[k].n
  <2>1. k \in 1..Len(h) /\ IsTool(h[k]) /\ r[i] = h[k]
    BY <1>2, <1>3
  <2>a. ~(k < c)
    BY <1>2
  <2>b. k = i + b
    OBVIOUS
  <2> HIDE DEF k
  <2>2. /\ n \in Nat /\ n >= 1 /\ k - n \in 1..Len(h)
        /\ h[k - n].role = "assistant" /\ n <= h[k - n].n
    BY <2>1, BlockBehind
  <2>3. ~(k - n < c)
    BY <2>1, <2>a, BlockSide
  <2>4. i - n \in 1..m /\ (i - n) + b = k - n /\ n < i
    BY <1>1, <2>2, <2>3, <2>b, SMTT(30)
  <2>5. r[i - n] = h[k - n]
    BY <1>2, <2>4
  <2> HIDE DEF r, n
  <2>6. r[i].n = n
    BY <2>1 DEF n
  <2> QED
    BY <2>2, <2>4, <2>5, <2>6 DEF AnswersACall
<1>4. ASSUME NEW i \in 1..m, r[i].role = "assistant" PROVE CallsAnswered(r, i)
  <2> DEFINE k == i + b
  <2>1. k \in 1..Len(h) /\ h[k].role = "assistant" /\ r[i] = h[k]
    BY <1>2, <1>4
  <2>b. k = i + b
    OBVIOUS
  <2> HIDE DEF k
  <2>2. h[k].n \in Nat
    BY <1>1, <2>1, MessageFacts
  <2>3. ASSUME NEW j \in 1..h[k].n PROVE i + j <= m /\ IsTool(r[i + j]) /\ r[i + j].n = j
    <3>1. k + j <= Len(h) /\ IsTool(h[k + j]) /\ h[k + j].n = j
      BY <2>1 DEF Answered, CallsAnswered
    <3>2. i + j \in 1..m /\ (i + j) + b = k + j
      <4>1. j \in Nat /\ j >= 1 /\ i \in Nat /\ i >= 1
        BY <2>2
      <4> QED
        BY <1>1, <2>b, <3>1, <4>1
    <3>3. r[i + j] = h[k + j]
      BY <1>2, <3>2
    <3> QED
      BY <3>1, <3>2, <3>3
  <2> HIDE DEF r, m
  <2> QED
    BY <1>2, <2>1, <2>3 DEF CallsAnswered
<1> HIDE DEF r, m
<1>5. Answered(r)
  BY <1>2, <1>3, <1>4 DEF Answered
<1> QED
  BY <1>5 DEF r

LEMMA AnsweredConcat ==
    ASSUME NEW f \in Conversation, NEW g \in Conversation, Answered(f), Answered(g)
    PROVE  Answered(f \o g)
<1> DEFINE h == f \o g
           m == Len(f)
           n == Len(g)
<1>1. /\ m \in Nat /\ n \in Nat /\ Len(h) = m + n
      /\ \A i \in 1..m : h[i] = f[i] /\ f[i] \in Message
      /\ \A i \in 1..n : h[m + i] = g[i] /\ g[i] \in Message
  BY DEF Conversation
<1> HIDE DEF h
<1>2. ASSUME NEW i \in 1..(m + n), IsTool(h[i]) PROVE AnswersACall(h, i)
  <2>1. CASE i \in 1..m
    <3>1. h[i] = f[i] /\ IsTool(f[i])
      BY <1>1, <1>2, <2>1
    <3>2. /\ f[i].n \in Nat /\ f[i].n >= 1 /\ i - f[i].n \in 1..m
          /\ f[i - f[i].n].role = "assistant" /\ f[i].n <= f[i - f[i].n].n
      BY <2>1, <3>1, BlockBehind
    <3>3. h[i - f[i].n] = f[i - f[i].n] /\ f[i].n < i
      BY <1>1, <2>1, <3>2
    <3> QED
      BY <3>1, <3>2, <3>3 DEF AnswersACall
  <2>2. CASE i \notin 1..m
    <3> DEFINE k == i - m
               c == g[k].n
    <3>1. k \in 1..n /\ m + k = i
      BY <1>1, <2>2
    <3>2. h[i] = g[k] /\ IsTool(g[k])
      BY <1>1, <1>2, <3>1
    <3> HIDE DEF k
    <3>3. c \in Nat /\ c >= 1 /\ k - c \in 1..n /\ g[k - c].role = "assistant" /\ c <= g[k - c].n
      BY <3>1, <3>2, BlockBehind
    <3>4. m + (k - c) = i - c /\ c < i
      BY <1>1, <3>1, <3>3
    <3>5. h[i - c] = g[k - c]
      BY <1>1, <3>3, <3>4
    <3> QED
      BY <3>2, <3>3, <3>4, <3>5 DEF AnswersACall
  <2> QED
    BY <2>1, <2>2
<1>3. ASSUME NEW i \in 1..(m + n), h[i].role = "assistant" PROVE CallsAnswered(h, i)
  <2>1. CASE i \in 1..m
    <3>1. h[i] = f[i] /\ f[i].role = "assistant" /\ f[i].n \in Nat
      BY <1>1, <1>3, <2>1, MessageFacts
    <3>2. ASSUME NEW j \in 1..f[i].n
          PROVE  i + j <= Len(h) /\ IsTool(h[i + j]) /\ h[i + j].n = j
      <4>1. i + j <= m /\ IsTool(f[i + j]) /\ f[i + j].n = j
        BY <2>1, <3>1 DEF Answered, CallsAnswered
      <4>2. i + j \in 1..m
        BY <2>1, <3>1, <4>1
      <4> QED
        BY <1>1, <4>1, <4>2
    <3> QED
      BY <3>1, <3>2 DEF CallsAnswered
  <2>2. CASE i \notin 1..m
    <3> DEFINE k == i - m
    <3>1. k \in 1..n /\ m + k = i
      BY <1>1, <2>2
    <3>2. h[i] = g[k] /\ g[k].role = "assistant" /\ g[k].n \in Nat
      BY <1>1, <1>3, <3>1, MessageFacts
    <3> HIDE DEF k
    <3>3. ASSUME NEW j \in 1..g[k].n
          PROVE  i + j <= Len(h) /\ IsTool(h[i + j]) /\ h[i + j].n = j
      <4>1. k + j <= n /\ IsTool(g[k + j]) /\ g[k + j].n = j
        BY <3>1, <3>2 DEF Answered, CallsAnswered
      <4>0. k \in Nat \ {0} /\ j \in Nat \ {0} /\ m \in Nat /\ n \in Nat
        BY <1>1, <3>1, <3>2
      <4>a. k + j <= n /\ m + k = i
        BY <3>1, <4>1
      <4>2. k + j \in 1..n /\ m + (k + j) = i + j /\ i + j <= m + n
        BY ONLY <4>0, <4>a
      <4>3. h[i + j] = g[k + j]
        BY <1>1, <4>2
      <4> QED
        BY <1>1, <4>1, <4>2, <4>3
    <3> QED
      BY <3>2, <3>3 DEF CallsAnswered
  <2> QED
    BY <2>1, <2>2
<1>4. Answered(h)
  BY <1>1, <1>2, <1>3 DEF Answered
<1> QED
  BY <1>4 DEF h

LEMMA AnsweredInserted ==
    ASSUME NEW h \in Conversation, Answered(h), NEW tag \in SystemTags
    PROVE  /\ Answered(Inserted(h, tag))
           /\ Answered(Without(h, tag))
<1> DEFINE p == Preamble(h)
           s == <<System(tag)>>
           f == SubSeq(h, 1, p)
           g == SubSeq(h, p + 1, Len(h))
<1>1. Len(h) \in Nat /\ \A j \in 1..Len(h) : h[j] \in Message
  BY DEF Conversation
<1>2. p \in 0..Len(h) /\ (\A j \in 1..p : IsSystem(h[j])) /\ (p = Len(h) \/ ~IsSystem(h[p + 1]))
  BY <1>1, PreambleIs
<1> HIDE DEF p
<1>3. f \in Conversation /\ s \in Conversation /\ g \in Conversation
  BY <1>1, <1>2, MessageTypes DEF Conversation
<1>4. Answered(f)
  <2>1. Len(f) = p /\ \A i \in 1..p : f[i] = h[i]
    BY <1>1, <1>2 DEF Conversation
  <2> HIDE DEF f
  <2>2. \A i \in 1..Len(f) : IsSystem(f[i])
    BY <1>2, <2>1
  <2> QED
    BY <2>2, AnsweredSystems
<1>5. Answered(s)
  <2>1. \A i \in 1..Len(s) : IsSystem(s[i])
    BY DEF System, IsSystem
  <2> HIDE DEF s
  <2> QED
    BY <2>1, AnsweredSystems
<1>6. Answered(g)
  <2>1. CASE p = Len(h)
    <3>1. Len(g) = 0
      BY <1>1, <2>1 DEF Conversation
    <3> HIDE DEF g
    <3>2. \A i \in 1..Len(g) : IsSystem(g[i])
      BY <3>1
    <3>3. Answered(g)
      BY <3>2, AnsweredSystems
    <3> QED
      BY <3>3 DEF g
  <2>2. CASE p # Len(h)
    <3> DEFINE c == p + 1
    <3>1. c \in 1..Len(h) /\ ~IsSystem(h[c])
      BY <1>1, <1>2, <2>2
    <3> HIDE DEF c
    <3>2. ~IsTool(h[c])
      <4> SUFFICES ASSUME IsTool(h[c]) PROVE FALSE
        OBVIOUS
      <4> DEFINE a == c - h[c].n
      <4>1. a \in 1..Len(h) /\ h[a].role = "assistant" /\ h[c].n \in Nat /\ h[c].n >= 1
        BY <3>1, BlockBehind
      <4>2. a \in 1..p
        BY <1>1, <1>2, <3>1, <4>1 DEF c
      <4> HIDE DEF a
      <4>3. IsSystem(h[a]) /\ ~IsSystem(h[a])
        BY <1>1, <1>2, <4>1, <4>2, MessageFacts
      <4> QED
        BY <4>3
    <3>3. Answered(SubSeq(h, c, Len(h)))
      BY <3>1, <3>2, AnsweredSuffix
    <3>4. g = SubSeq(h, c, Len(h))
      BY DEF c
    <3> HIDE DEF g
    <3>5. Answered(g)
      BY <3>3, <3>4
    <3> QED
      BY <3>5 DEF g
  <2> QED
    BY <2>1, <2>2
<1> HIDE DEF f, g, s
<1>7. f \o s \in Conversation /\ Answered(f \o s)
  <2>1. f \o s \in Conversation
    BY <1>3 DEF Conversation
  <2> QED
    BY <1>3, <1>4, <1>5, <2>1, AnsweredConcat
<1>8. Answered((f \o s) \o g)
  BY <1>3, <1>6, <1>7, AnsweredConcat
<1>9. Inserted(h, tag) = (f \o s) \o g
  BY DEF Inserted, f, g, s, p
<1>10. Answered(Without(h, tag))
  <2> DEFINE I == {i \in 1..Len(h) : ~Tagged(tag, h[i])}
  <2>1. I \subseteq 1..Len(h) /\ NonSystem(h) \subseteq I
    BY DEF NonSystem, Tagged
  <2> HIDE DEF I
  <2>2. Answered(Kept(h, I))
    BY <2>1, AnsweredSifted
  <2> QED
    BY <2>2 DEF Without, I
<1> QED
  BY <1>8, <1>9, <1>10

LEMMA AnsweredCompacted ==
    ASSUME NEW h \in Conversation, Answered(h), NEW c \in 1..Len(h), ~IsTool(h[c])
    PROVE  Answered(Compacted(h, c))
<1> DEFINE I == Systems(h) \cap (1..(c - 1))
           f == Kept(h, I)
           s == <<System("note")>>
           g == SubSeq(h, c, Len(h))
<1>1. Len(h) \in Nat
  BY DEF Conversation
<1>2. I \subseteq 1..Len(h) /\ I \subseteq Systems(h)
  BY DEF Systems
<1>3. f \in Conversation /\ Answered(f)
  <2> HIDE DEF I
  <2> QED
    BY <1>2, KeptType, AnsweredSifted
<1>4. s \in Conversation /\ Answered(s)
  <2>1. s \in Conversation
    BY MessageTypes DEF Conversation, SystemTags
  <2>2. \A i \in 1..Len(s) : IsSystem(s[i])
    BY DEF System, IsSystem
  <2> HIDE DEF s
  <2> QED
    BY <2>1, <2>2, AnsweredSystems
<1>5. g \in Conversation /\ Answered(g)
  BY <1>1, AnsweredSuffix DEF Conversation
<1> HIDE DEF f, g, s
<1>6. f \o s \in Conversation /\ Answered(f \o s)
  <2>1. f \o s \in Conversation
    BY <1>3, <1>4 DEF Conversation
  <2> QED
    BY <1>3, <1>4, <2>1, AnsweredConcat
<1>7. Answered((f \o s) \o g)
  BY <1>5, <1>6, AnsweredConcat
<1> QED
  BY <1>7 DEF Compacted, f, g, s, I

LEMMA AnsweredInjected ==
    ASSUME NEW h \in Conversation, Answered(h)
    PROVE  \A g \in Injected(h) : Answered(g)
<1>1. Without(h, "memory") \in Conversation /\ Answered(Without(h, "memory"))
  BY InsertTypes, AnsweredInserted DEF SystemTags
<1>2. Answered(Inserted(Without(h, "memory"), "memory"))
  BY <1>1, AnsweredInserted DEF SystemTags
<1> QED
  BY <1>1, <1>2 DEF Injected

LEMMA AnsweredUnhinted ==
    ASSUME NEW h \in Conversation, Answered(h) PROVE Answered(Unhinted(h))
<1> DEFINE I == {i \in 1..Len(h) : NotSingle(h[i])}
<1>1. I \subseteq 1..Len(h) /\ NonSystem(h) \subseteq I
  BY DEF NonSystem, NotSingle
<1> HIDE DEF I
<1>2. Answered(Kept(h, I))
  BY <1>1, AnsweredSifted
<1> QED
  BY <1>2 DEF Unhinted, I

LEMMA AnsweredTrimmed ==
    ASSUME NEW h \in Conversation, Answered(h), NEW n \in Nat PROVE Answered(Trimmed(h, n))
<1> DEFINE c == FromEnd(Users(h), n)
<1>1. CASE n = 0
  <2>1. Answered(Kept(h, Systems(h)))
    BY AnsweredSifted DEF Systems
  <2> QED
    BY <1>1, <2>1 DEF Trimmed
<1>2. CASE n # 0 /\ Cardinality(Users(h)) <= n
  BY <1>2 DEF Trimmed
<1>3. CASE n # 0 /\ ~(Cardinality(Users(h)) <= n)
  <2>1. IsFiniteSet(1..Len(h)) /\ Users(h) \subseteq 1..Len(h) /\ Len(h) \in Nat
    BY FS_Interval DEF Conversation, Users
  <2>2. Cardinality(Users(h)) \in Nat
    BY <2>1, FS_Subset, FS_CardinalityType
  <2>3. n \in 1..Cardinality(Users(h))
    BY <1>3, <2>2
  <2>4. c \in Users(h)
    BY <2>1, <2>3, Ranked
  <2> HIDE DEF c
  <2>5. c \in 1..Len(h) /\ ~IsTool(h[c])
    BY <2>4 DEF Users, IsUser, IsTool
  <2>6. Answered(Kept(h, Systems(h) \cup (c..Len(h))))
    BY <2>5, AnsweredRewound
  <2> QED
    BY <1>3, <2>6 DEF Trimmed, c
<1> QED
  BY <1>1, <1>2, <1>3

\* A message that answers nothing and calls nothing.
LEMMA AnsweredAppend ==
    ASSUME NEW h \in Conversation, Answered(h), NEW m \in Message, ~IsTool(m),
           m.role = "assistant" => m.n = 0
    PROVE  Answered(Append(h, m))
<1>1. Append(h, m) = h \o <<m>> /\ <<m>> \in Conversation
  BY DEF Conversation
<1>2. Answered(<<m>>)
  BY DEF Answered, CallsAnswered
<1> QED
  BY <1>1, <1>2, AnsweredConcat

\* The message at q calls k tools, of which those before c have answered; nothing
\* else is open.
Owing(h, q, k, c) ==
    /\ q \in 1..Len(h) /\ Len(h) = q + c - 1
    /\ h[q].role = "assistant" /\ h[q].n = k
    /\ \A i \in 1..Len(h) :
          /\ IsTool(h[i]) => AnswersACall(h, i)
          /\ (h[i].role = "assistant" /\ i # q) => CallsAnswered(h, i)
    /\ \A j \in 1..(c - 1) : IsTool(h[q + j]) /\ h[q + j].n = j

LEMMA OwingOpens ==
    ASSUME NEW h \in Conversation, Answered(h), NEW k \in 1..MaxCalls
    PROVE  Owing(Append(h, Assistant(k)), Len(h) + 1, k, 1)
<1> DEFINE g == Append(h, Assistant(k))
           n == Len(h)
<1>1. /\ n \in Nat /\ Len(g) = n + 1 /\ \A i \in 1..n : g[i] = h[i] /\ h[i] \in Message
      /\ g[n + 1].role = "assistant" /\ g[n + 1].n = k
  BY MessageTypes, Caps DEF Conversation, Assistant
<1> HIDE DEF g
<1>2. ASSUME NEW i \in 1..(n + 1), IsTool(g[i]) PROVE AnswersACall(g, i)
  <2>1. i # n + 1
    BY <1>1, <1>2 DEF IsTool
  <2>2. i \in 1..n /\ g[i] = h[i] /\ IsTool(h[i])
    BY <1>1, <1>2, <2>1
  <2>3. /\ h[i].n \in Nat /\ h[i].n >= 1 /\ i - h[i].n \in 1..n
        /\ h[i - h[i].n].role = "assistant" /\ h[i].n <= h[i - h[i].n].n
    BY <2>2, BlockBehind
  <2>4. g[i - h[i].n] = h[i - h[i].n] /\ h[i].n < i
    BY <1>1, <2>2, <2>3
  <2> QED
    BY <2>2, <2>3, <2>4 DEF AnswersACall
<1>3. ASSUME NEW i \in 1..(n + 1), g[i].role = "assistant", i # n + 1 PROVE CallsAnswered(g, i)
  <2>1. i \in 1..n /\ g[i] = h[i] /\ h[i].n \in Nat
    BY <1>1, <1>3, MessageFacts
  <2>2. ASSUME NEW j \in 1..h[i].n PROVE i + j <= Len(g) /\ IsTool(g[i + j]) /\ g[i + j].n = j
    <3>1. i + j <= n /\ IsTool(h[i + j]) /\ h[i + j].n = j
      BY <1>3, <2>1 DEF Answered, CallsAnswered
    <3>2. i + j \in 1..n
      BY <2>1, <3>1
    <3> QED
      BY <1>1, <3>1, <3>2
  <2> QED
    BY <2>1, <2>2 DEF CallsAnswered
<1>4. Owing(g, n + 1, k, 1)
  BY <1>1, <1>2, <1>3 DEF Owing
<1> QED
  BY <1>4 DEF g

LEMMA OwingOn ==
    ASSUME NEW h \in Conversation, NEW q, NEW k \in 1..MaxCalls, NEW c \in 1..k, Owing(h, q, k, c),
           NEW tag, Tool(tag, c) \in Message
    PROVE  /\ c # k => Owing(Append(h, Tool(tag, c)), q, k, c + 1)
           /\ c = k => Answered(Append(h, Tool(tag, c)))
<1> DEFINE g == Append(h, Tool(tag, c))
           n == Len(h)
<1>0. k \in Nat /\ c \in Nat /\ c >= 1
  BY Caps
<1>1. /\ n \in Nat /\ Len(g) = n + 1 /\ \A i \in 1..n : g[i] = h[i] /\ h[i] \in Message
      /\ IsTool(g[n + 1]) /\ g[n + 1].n = c /\ g[n + 1].role # "assistant"
  BY DEF Conversation, Tool, IsTool
<1> HIDE DEF g
<1>2. /\ q \in 1..n /\ n = q + c - 1
      /\ h[q].role = "assistant" /\ h[q].n = k
      /\ \A i \in 1..n :
          /\ IsTool(h[i]) => AnswersACall(h, i)
          /\ (h[i].role = "assistant" /\ i # q) => CallsAnswered(h, i)
      /\ \A j \in 1..(c - 1) : IsTool(h[q + j]) /\ h[q + j].n = j
  BY DEF Owing
<1>3. ASSUME NEW i \in 1..(n + 1), IsTool(g[i]) PROVE AnswersACall(g, i)
  <2>1. CASE i = n + 1
    <3>1. i - c = q /\ c < i
      BY <1>0, <1>2, <2>1
    <3>2. g[q] = h[q]
      BY <1>1, <1>2
    <3> QED
      BY <1>1, <1>2, <2>1, <3>1, <3>2 DEF AnswersACall
  <2>2. CASE i # n + 1
    <3>1. i \in 1..n /\ g[i] = h[i] /\ IsTool(h[i])
      BY <1>1, <1>3, <2>2
    <3>2. /\ h[i].n \in Nat /\ h[i].n >= 1
          /\ h[i].n < i /\ h[i - h[i].n].role = "assistant" /\ h[i].n <= h[i - h[i].n].n
      BY <1>1, <1>2, <3>1, MessageFacts DEF AnswersACall
    <3>3. i - h[i].n \in 1..n
      BY <3>1, <3>2
    <3>4. g[i - h[i].n] = h[i - h[i].n]
      BY <1>1, <3>3
    <3> QED
      BY <3>1, <3>2, <3>4 DEF AnswersACall
  <2> QED
    BY <2>1, <2>2
<1>4. ASSUME NEW i \in 1..(n + 1), g[i].role = "assistant", i # q PROVE CallsAnswered(g, i)
  <2>1. i \in 1..n /\ g[i] = h[i] /\ h[i].n \in Nat
    <3>1. i # n + 1
      BY <1>1, <1>4
    <3>2. i \in 1..n
      BY <1>1, <3>1
    <3> QED
      BY <1>1, <3>2, MessageFacts
  <2>2. ASSUME NEW j \in 1..h[i].n PROVE i + j <= Len(g) /\ IsTool(g[i + j]) /\ g[i + j].n = j
    <3>1. i + j <= n /\ IsTool(h[i + j]) /\ h[i + j].n = j
      BY <1>2, <1>4, <2>1 DEF CallsAnswered
    <3>2. i + j \in 1..n
      BY <2>1, <3>1
    <3> QED
      BY <1>1, <3>1, <3>2
  <2> QED
    BY <2>1, <2>2 DEF CallsAnswered
<1>5. ASSUME NEW j \in 1..c PROVE q + j <= Len(g) /\ IsTool(g[q + j]) /\ g[q + j].n = j
  <2>1. CASE j = c
    <3>1. q + j = n + 1
      BY <1>0, <1>2, <2>1
    <3> QED
      BY <1>1, <2>1, <3>1
  <2>2. CASE j # c
    <3>1. j \in 1..(c - 1) /\ q + j \in 1..n
      BY <1>0, <1>2, <2>2
    <3> QED
      BY <1>1, <1>2, <3>1
  <2> QED
    BY <2>1, <2>2
<1>6. g[q] = h[q] /\ q \in 1..(n + 1)
  BY <1>1, <1>2
<1>7. c # k => Owing(g, q, k, c + 1)
  <2>1. Len(g) = q + (c + 1) - 1 /\ (c + 1) - 1 = c
    BY <1>0, <1>1, <1>2
  <2> QED
    BY <1>1, <1>2, <1>3, <1>4, <1>5, <1>6, <2>1 DEF Owing
<1>8. ASSUME c = k PROVE Answered(g)
  <2>1. CallsAnswered(g, q)
    BY <1>2, <1>5, <1>6, <1>8 DEF CallsAnswered
  <2> QED
    BY <1>1, <1>3, <1>4, <2>1 DEF Answered
<1> QED
  BY <1>7, <1>8 DEF g

\* Unless a cut has parted calls from answers: at rest and at a request every call
\* is answered, and so it was when the turn began; while a tool runs, only its
\* message has calls to be answered.
AnsweredOK ==
    ~severed =>
        /\ Answered(saved)
        /\ pc \notin Running \cup {"exit"} => Answered(history)
        /\ pc \in Running => Owing(history, Len(history) - call + 1, calls, call)
        /\ ((pc \in Open /\ ~compacted) \/ pc = "review") =>
              turnStart <= Len(history) /\ Answered(SubSeq(history, 1, turnStart))

LEMMA CompactAnswers ==
    ASSUME TextOK, Compact, ~severed', ~severed => Answered(history)
    PROVE  Answered(history') /\ ~severed
<1> DEFINE c == CutAt(history, KeepRecent)
           short == Compacted(history, c)
<1>1. c \in 1..Len(history)
  BY CompactCut
<1>2. ~severed /\ ~IsTool(history[c])
  BY DEF Compact
<1>3. short \in Conversation /\ Answered(short)
  BY <1>1, <1>2, CutAtTypes, AnsweredCompacted DEF TextOK
<1>4. history' \in {short, Inserted(Without(short, "memory"), "memory")}
  BY DEF Compact
<1> HIDE DEF short
<1>5. Answered(Inserted(Without(short, "memory"), "memory"))
  BY <1>3, AnsweredInjected DEF Injected
<1> QED
  BY <1>2, <1>3, <1>4, <1>5

\* The commands that are over at once leave no call without its answer.
LEMMA QuickAnswers ==
    ASSUME Typed, AnsweredOK, QuickCommand, ~severed'
    PROVE  Answered(history') /\ Answered(saved')
<1> USE DEF session
<1>0. pc = "idle" /\ history \in Conversation /\ saved \in Conversation
  BY QuickCommands DEF Quick, Command, Typed, TextOK
<1>1. ~severed => Answered(history) /\ Answered(saved)
  BY <1>0 DEF AnsweredOK, Running
<1>2. CASE Clear \/ SwitchModel
  <2>1. history' = <<>> /\ saved' = <<>>
    BY <1>2 DEF Clear, SwitchModel, DropConversation
  <2> QED
    BY <2>1, AnsweredSystems
<1>3. CASE Ask \/ TogglePlan
  <2>1. /\ history' \in {Append(history, System("single")), Append(history, System("note"))}
        /\ saved' = saved /\ severed' = severed
    BY <1>3 DEF Ask, TogglePlan, Tell
  <2>2. ASSUME NEW tag \in {"single", "note"} PROVE Answered(Append(history, System(tag)))
    <3>1. /\ System(tag) \in Message /\ ~IsTool(System(tag))
          /\ System(tag).role # "assistant"
      BY MessageTypes DEF SystemTags, System, IsTool
    <3> QED
      BY <1>0, <1>1, <2>1, <3>1, AnsweredAppend
  <2> QED
    BY <1>1, <2>1, <2>2
<1>4. CASE MemoryCommand
  <2>1. history' \in Injected(history) /\ saved' = saved /\ severed' = severed
    BY <1>4 DEF MemoryCommand, Tell
  <2> QED
    BY <1>0, <1>1, <2>1, AnsweredInjected
<1>5. CASE CompactCommand
  <2>1. Compact
    BY <1>5 DEF CompactCommand
  <2>2. Answered(history') /\ saved' = history'
    BY <1>1, <2>1, CompactAnswers, CompactTypes DEF Typed
  <2> QED
    BY <2>2
<1>6. CASE ReloadTools
  BY <1>1, <1>6 DEF ReloadTools
<1>7. ASSUME NEW n \in 1..MaxRewind, RewindCommand(n) PROVE Answered(history') /\ Answered(saved')
  <2> DEFINE k == Cardinality(NonSystem(history))
             m == IF 2 * n < k THEN 2 * n ELSE k
             c == CutAt(history, m)
  <2>1. Len(history) \in Nat /\ NonSystem(history) \subseteq 1..Len(history)
    BY <1>0 DEF Conversation, NonSystem
  <2>2. k \in Nat /\ k # 0
    <3>1. IsFiniteSet(1..Len(history))
      BY <2>1, FS_Interval
    <3>2. IsFiniteSet(NonSystem(history))
      BY <2>1, <3>1, FS_Subset
    <3> QED
      BY <1>7, <3>2, FS_CardinalityType, FS_EmptySet DEF RewindCommand
  <2>3. m \in 1..k
    BY <1>7, <2>2, AgentAssumption
  <2>4. c \in 1..Len(history)
    BY <2>1, <2>3, CutIsThere
  <2>5. /\ history' = Rewound(history, c) /\ saved' = history'
        /\ severed' = (severed \/ IsTool(history[c]))
    BY <1>7 DEF RewindCommand, Checkpoint
  <2> HIDE DEF c
  <2>6. Answered(Rewound(history, c))
    BY <1>0, <1>1, <2>4, <2>5, AnsweredRewound
  <2> QED
    BY <2>5, <2>6
<1>8. ASSUME NEW n \in 0..MaxRewind, TrimHistory(n) PROVE Answered(history') /\ Answered(saved')
  <2>1. history' = Trimmed(history, n) /\ saved' = history' /\ severed' = severed /\ n \in Nat
    BY <1>8 DEF TrimHistory, Checkpoint
  <2> QED
    BY <1>0, <1>1, <2>1, AnsweredTrimmed
<1>9. CASE Pin
  <2>1. history' = Inserted(history, "pin") /\ saved' = history' /\ severed' = severed
    BY <1>9 DEF Pin, Checkpoint
  <2> QED
    BY <1>0, <1>1, <2>1, AnsweredInserted DEF SystemTags
<1>10. CASE Unpin
  <2> DEFINE at == {i \in 1..Len(history) : Tagged("pin", history[i])}
             I == {i \in 1..Len(history) : i \in at => \E j \in at : j < i}
  <2>1. history' = Kept(history, I) /\ saved' = history' /\ severed' = severed
    BY <1>10 DEF Unpin, Checkpoint
  <2>2. I \subseteq 1..Len(history) /\ NonSystem(history) \subseteq I
    BY DEF NonSystem, Tagged
  <2> HIDE DEF I
  <2>3. Answered(Kept(history, I))
    BY <1>0, <1>1, <2>1, <2>2, AnsweredSifted
  <2> QED
    BY <2>1, <2>3
<1>11. CASE Load
  <2>1. history' = <<User, Assistant(0)>> /\ saved' = saved /\ severed' = severed
    BY <1>11 DEF Load, Earlier
  <2>2. Answered(<<User, Assistant(0)>>)
    BY DEF Answered, CallsAnswered, User, Assistant, IsTool
  <2> QED
    BY <1>1, <2>1, <2>2
<1>12. CASE Resume
  <2>1. history' \in Injected(saved) /\ saved' = saved /\ severed' = severed
    BY <1>12 DEF Resume, Reopened
  <2> QED
    BY <1>0, <1>1, <2>1, AnsweredInjected
<1>13. CASE Fork
  <2> DEFINE ends == {i \in 1..Len(history) : IsReply(history[i])}
             last == CHOOSE i \in ends : \A j \in ends : j <= i
  <2>0. Len(history) \in Nat
    BY <1>0 DEF Conversation
  <2>1. ends # {} /\ history' = SubSeq(history, 1, last) /\ saved' = history' /\ severed' = severed
    BY <1>13 DEF Fork, Checkpoint
  <2>2. last \in ends
    <3>1. ends \subseteq 1..Len(history)
      OBVIOUS
    <3>2. \E i \in ends : \A j \in ends : j <= i
      <4> HIDE DEF ends
      <4> QED
        BY <2>0, <2>1, <3>1, GreatestNat
    <3> HIDE DEF ends
    <3> QED
      BY <3>2
  <2>3. last \in 1..Len(history) /\ IsReply(history[last])
    BY <2>2
  <2> HIDE DEF last
  <2>4. last = Len(history) \/ ~IsTool(history[last + 1])
    <3> SUFFICES ASSUME last # Len(history), IsTool(history[last + 1]) PROVE FALSE
      OBVIOUS
    <3> DEFINE i == last + 1
    <3>1. i \in 1..Len(history) /\ IsTool(history[i])
      BY <2>0, <2>3
    <3>a. i - 1 = last
      BY <2>3
    <3> HIDE DEF i
    <3>2. /\ history[i].n \in Nat /\ history[i].n >= 1
          /\ history[i - history[i].n].role = "assistant"
          /\ history[i].n <= history[i - history[i].n].n
          /\ \A d \in 0..(history[i].n - 1) : IsTool(history[i - d])
      BY <1>0, <1>1, <2>1, <3>1, BlockBehind
    <3>3. CASE history[i].n = 1
      BY <2>3, <3>2, <3>3, <3>a DEF IsReply
    <3>4. CASE history[i].n # 1
      <4>1. 1 \in 0..(history[i].n - 1)
        BY <3>2, <3>4
      <4>2. IsTool(history[i - 1])
        BY <3>2, <4>1
      <4> QED
        BY <2>3, <3>a, <4>2 DEF IsReply, IsTool
    <3> QED
      BY <3>3, <3>4
  <2>5. Answered(SubSeq(history, 1, last))
    <3>1. last \in 0..Len(history)
      BY <2>3
    <3> QED
      BY <1>0, <1>1, <2>1, <2>4, <3>1, AnsweredPrefix
  <2> QED
    BY <2>1, <2>5
<1> QED
  BY <1>2, <1>3, <1>4, <1>5, <1>6, <1>7, <1>8, <1>9, <1>10, <1>11, <1>12, <1>13 DEF QuickCommand

LEMMA Behind ==
    ASSUME NEW h \in Conversation, NEW n \in Nat, n <= Len(h), NEW m \in Message
    PROVE  /\ SubSeq(Append(h, m), 1, n) = SubSeq(h, 1, n)
           /\ Len(Append(h, m)) = Len(h) + 1
           /\ SubSeq(h, 1, Len(h)) = h
           /\ Truncate(h, n) = SubSeq(h, 1, n)
<1>1. h \in Seq(Message) /\ Len(h) \in Nat
  BY DEF Conversation
<1>2. SubSeq(h, 1, Len(h)) = h
  BY <1>1
<1>3. n < Len(h) \/ n = Len(h)
  BY <1>1
<1>4. Truncate(h, n) = SubSeq(h, 1, n)
  BY <1>2, <1>3 DEF Truncate
<1>5. SubSeq(Append(h, m), 1, n) = SubSeq(h, 1, n) /\ Len(Append(h, m)) = Len(h) + 1
  BY <1>1
<1> QED
  BY <1>2, <1>4, <1>5

\* What the invariant says of a conversation at rest.
LEMMA AtRest ==
    ASSUME ~severed' => Answered(saved') /\ Answered(history'),
           pc' \in {"idle", "exit"}
    PROVE  AnsweredOK'
  BY DEF AnsweredOK, Open, Running

LEMMA AnsweredDrop == ASSUME Typed, AnsweredOK, Drops PROVE AnsweredOK'
<1> USE DEF session, loop, ghosts
<1>0. history \in Conversation /\ turnStart \in Nat
  BY DEF Typed, TextOK, Control, LoopOK
<1>1. pc' = IF Headless THEN "exit" ELSE "idle"
  BY DEF Drops, BudgetRefuse, ModelFails, CancelTurn, TimeCapHit, Leave
<1>2. saved' = saved
  BY DEF Drops, BudgetRefuse, ModelFails, CancelTurn, TimeCapHit
<1>3. \/ pc \in {"begin", "model"} /\ history' = history /\ severed' = severed
      \/ pc \in {"model"} \cup Running /\ AbandonTurn
  BY DEF Drops, BudgetRefuse, ModelFails, CancelTurn, TimeCapHit
<1>4. CASE pc \in {"begin", "model"} /\ history' = history /\ severed' = severed
  <2>1. ~severed => Answered(saved) /\ Answered(history)
    BY <1>4 DEF AnsweredOK, Running
  <2> QED
    BY <1>1, <1>2, <1>4, <2>1, AtRest
<1>5. CASE pc \in {"model"} \cup Running /\ AbandonTurn
  <2>1. history' = Truncate(history, turnStart) /\ severed' = (severed \/ compacted)
    BY <1>5 DEF AbandonTurn
  <2>2. ASSUME ~severed' PROVE Answered(saved') /\ Answered(history')
    <3>1. /\ Answered(saved) /\ turnStart <= Len(history)
          /\ Answered(SubSeq(history, 1, turnStart))
      BY <1>5, <2>1, <2>2 DEF AnsweredOK, Open
    <3>2. Truncate(history, turnStart) = SubSeq(history, 1, turnStart)
      BY <1>0, <3>1, Behind, MessageTypes
    <3> QED
      BY <1>2, <2>1, <3>1, <3>2
  <2> QED
    BY <1>1, <2>2, AtRest
<1> QED
  BY <1>3, <1>4, <1>5

\* A turn opens, or a review.
LEMMA AnsweredOpen ==
    ASSUME Typed, AnsweredOK, Review \/ \E kind \in {"chat"} \cup Entries : Submit(kind)
    PROVE  AnsweredOK'
<1> USE DEF session
<1>0. history \in Conversation /\ history \in Seq(Message) /\ Len(history) \in Nat
  BY DEF Typed, TextOK, Conversation
<1>1. /\ User \in Message /\ System("single") \in Message
      /\ ~IsTool(User) /\ ~IsTool(System("single"))
      /\ User.role # "assistant" /\ System("single").role # "assistant"
  BY MessageTypes DEF SystemTags, IsTool, User, System
<1>2. severed' = severed /\ saved' = saved /\ pc' \in {"compacting", "review"}
      /\ (~severed => Answered(saved) /\ Answered(history))
  BY DEF AnsweredOK, Submit, Review, Command, Running
<1>3. \/ history' = Append(history, User) /\ turnStart' = Len(history)
      \/ /\ turnStart' = Len(history')
         /\ \/ history' = Append(history, System("single"))
            \/ history' = Append(Append(history, System("single")), User)
  <2>1. history \o <<System("single"), User>> = Append(Append(history, System("single")), User)
    BY <1>0, <1>1
  <2> QED
    BY <2>1, SubmitIs DEF Review
<1>4. history' \in Conversation
  BY <1>0, <1>1, <1>3, AppendTypes
<1>5. ASSUME ~severed' PROVE Answered(history')
  <2>1. Answered(Append(history, User)) /\ Answered(Append(history, System("single")))
    BY <1>0, <1>1, <1>2, <1>5, AnsweredAppend
  <2>2. Append(history, System("single")) \in Conversation
    BY <1>0, <1>1, AppendTypes
  <2>3. Answered(Append(Append(history, System("single")), User))
    BY <1>1, <2>1, <2>2, AnsweredAppend
  <2> QED
    BY <1>3, <2>1, <2>3
<1>6. ASSUME ~severed'
      PROVE  turnStart' <= Len(history') /\ Answered(SubSeq(history', 1, turnStart'))
  <2>1. CASE history' = Append(history, User) /\ turnStart' = Len(history)
    <3>1. Len(history) <= Len(history)
      BY <1>0
    <3>2. SubSeq(Append(history, User), 1, Len(history)) = history
          /\ Len(Append(history, User)) = Len(history) + 1
      BY <1>0, <1>1, <3>1, Behind
    <3>3. SubSeq(history', 1, turnStart') = history /\ turnStart' <= Len(history')
      BY <1>0, <2>1, <3>2
    <3> QED
      BY <1>2, <1>6, <3>3
  <2>2. CASE turnStart' = Len(history')
    <3>1. Len(history') \in Nat /\ SubSeq(history', 1, Len(history')) = history'
      BY <1>4 DEF Conversation
    <3>2. turnStart' <= Len(history') /\ SubSeq(history', 1, turnStart') = history'
      BY <2>2, <3>1
    <3> QED
      BY <1>5, <1>6, <3>2
  <2> QED
    BY <1>3, <2>1, <2>2
<1> QED
  BY <1>2, <1>5, <1>6 DEF AnsweredOK, Running, Open

\* Steps that leave the conversation and the calls of a message in hand alone.
LEMMA AnsweredQuiet ==
    ASSUME Typed, AnsweredOK,
           AutoCompactSkip \/ BeginTurn \/ SubReply \/ SubToolsDone \/ ToolWrites \/ PressCtrlC
             \/ Idles
    PROVE  AnsweredOK'
<1> USE DEF loop, ghosts, session, Idles
<1>1. UNCHANGED <<history, saved, severed, compacted, turnStart>>
  BY DEF AutoCompactSkip, BeginTurn, SubReply, SubToolsDone, ToolWrites, PressCtrlC, UserEdits,
         Exited, vars
<1>2. \/ pc' = pc /\ UNCHANGED <<calls, call>>
      \/ pc \in Running /\ pc' \in Running /\ UNCHANGED <<calls, call>>
      \/ pc \in {"compacting", "begin"} /\ pc' \in {"begin", "model"}
  BY DEF AutoCompactSkip, BeginTurn, SubReply, SubToolsDone, ToolWrites, PressCtrlC, UserEdits,
         Exited, vars, Running
<1> QED
  BY <1>1, <1>2 DEF AnsweredOK, Running, Open

LEMMA AnsweredReply ==
    ASSUME Typed, AnsweredOK, NEW k \in 0..MaxCalls, ModelReply(k) PROVE AnsweredOK'
<1> USE DEF session, ghosts
<1> DEFINE h == Append(history, Assistant(k))
<1>0. history \in Conversation /\ Len(history) \in Nat /\ turnStart \in Nat
      /\ Assistant(k) \in Message
  BY MessageTypes DEF Typed, TextOK, Control, LoopOK, Conversation
<1>1. pc = "model" /\ severed' = severed
  BY DEF ModelReply
<1>2. ~severed => Answered(saved) /\ Answered(history)
  BY <1>1 DEF AnsweredOK, Running
<1>3. CASE k = 0
  <2>1. history' = Unhinted(h) /\ saved' = history' /\ pc' \in {"idle", "exit"}
    BY <1>3 DEF ModelReply, EndTurn, Checkpoint, Leave
  <2>2. ASSUME ~severed PROVE Answered(Unhinted(h))
    <3>1. ~IsTool(Assistant(k)) /\ (Assistant(k)).n = 0
      BY <1>3 DEF Assistant, IsTool
    <3>2. h \in Conversation /\ Answered(h)
      BY <1>0, <1>2, <2>2, <3>1, AnsweredAppend, AppendTypes
    <3> QED
      BY <3>2, AnsweredUnhinted
  <2> QED
    BY <1>1, <2>1, <2>2, AtRest
<1>4. CASE k # 0
  <2>1. /\ history' = h /\ calls' = k /\ call' = 1 /\ pc' \in {"tool", "submodel"}
        /\ UNCHANGED <<turnStart, saved, compacted>>
    BY <1>4 DEF ModelReply, CallStarts
  <2>2. k \in 1..MaxCalls
    BY <1>4, Caps
  <2>3. ASSUME ~severed
        PROVE  Owing(history', Len(history') - call' + 1, calls', call')
    <3>1. Owing(h, Len(history) + 1, k, 1)
      BY <1>0, <1>2, <2>2, <2>3, OwingOpens
    <3>2. Len(h) - 1 + 1 = Len(history) + 1
      BY <1>0 DEF Conversation
    <3> HIDE DEF h
    <3> QED
      BY <2>1, <3>1, <3>2
  <2>4. ASSUME ~severed, ~compacted
        PROVE  turnStart <= Len(h) /\ Answered(SubSeq(h, 1, turnStart))
    <3>1. turnStart <= Len(history) /\ Answered(SubSeq(history, 1, turnStart))
      BY <1>1, <2>4 DEF AnsweredOK, Open
    <3>2. SubSeq(h, 1, turnStart) = SubSeq(history, 1, turnStart) /\ Len(h) = Len(history) + 1
      BY <1>0, <3>1, Behind
    <3> HIDE DEF h
    <3>3. Answered(SubSeq(h, 1, turnStart))
      BY <3>1, <3>2
    <3>4. turnStart <= Len(h)
      BY <1>0, <3>1, <3>2
    <3> QED
      BY <3>3, <3>4
  <2> HIDE DEF h
  <2> QED
    BY <1>1, <1>2, <2>1, <2>3, <2>4 DEF AnsweredOK, Running, Open
<1> QED
  BY <1>3, <1>4

LEMMA AnsweredReturn ==
    ASSUME Typed, AnsweredOK, NEW tag \in Results[mode], ToolReturns(tag) PROVE AnsweredOK'
<1> USE DEF session, ghosts
<1> DEFINE m == Tool(tag, call)
           h == Append(history, m)
<1>1. pc \in Running /\ severed' = severed
  BY DEF ToolReturns, CallEnds, Running
<1>0. /\ history \in Conversation /\ Len(history) \in Nat /\ turnStart \in Nat
      /\ m \in Message /\ call \in 1..MaxCalls
      /\ calls \in 0..MaxCalls /\ call \in 0..calls
  BY <1>1, CallTypes DEF Typed, TextOK, Control, LoopOK, Conversation
<1>2. calls \in 1..MaxCalls /\ call \in 1..calls /\ call \in Nat
  BY <1>0, Caps
<1>3. h \in Conversation /\ Len(h) = Len(history) + 1
  BY <1>0, AppendTypes DEF Conversation
<1>4. ASSUME ~severed
      PROVE  /\ Answered(saved)
             /\ call # calls => Owing(h, Len(history) - call + 1, calls, call + 1)
             /\ call = calls => Answered(h)
  <2>1. Answered(saved) /\ Owing(history, Len(history) - call + 1, calls, call)
    BY <1>1, <1>4 DEF AnsweredOK
  <2> QED
    BY <1>0, <1>2, <2>1, OwingOn
<1>5. ASSUME ~severed, ~compacted
      PROVE  turnStart <= Len(h) /\ Answered(SubSeq(h, 1, turnStart))
  <2>1. turnStart <= Len(history) /\ Answered(SubSeq(history, 1, turnStart))
    BY <1>1, <1>5 DEF AnsweredOK, Open
  <2>2. SubSeq(h, 1, turnStart) = SubSeq(history, 1, turnStart)
    BY <1>0, <2>1, Behind
  <2> HIDE DEF h
  <2>3. Answered(SubSeq(h, 1, turnStart))
    BY <2>1, <2>2
  <2>4. turnStart <= Len(h)
    BY <1>0, <1>3, <2>1
  <2> QED
    BY <2>3, <2>4
<1>6. \/ pc' = "exit" /\ saved' = saved
      \/ /\ history' = h /\ call # calls /\ call' = call + 1 /\ pc' \in {"tool", "submodel"}
         /\ UNCHANGED <<turnStart, calls, saved, compacted>>
      \/ /\ history' = h /\ call = calls /\ pc' = "model"
         /\ UNCHANGED <<turnStart, saved, compacted>>
      \/ /\ call = calls /\ history' = Unhinted(h) /\ saved' = history'
         /\ pc' \in {"idle", "exit"}
  BY DEF ToolReturns, EndTurn, Checkpoint, Leave, CallStarts
<1> HIDE DEF h, m
<1>7. CASE pc' = "exit" /\ saved' = saved
  BY <1>1, <1>4, <1>7 DEF AnsweredOK, Running, Open
<1>8. CASE /\ history' = h /\ call # calls /\ call' = call + 1 /\ pc' \in {"tool", "submodel"}
           /\ UNCHANGED <<turnStart, calls, saved, compacted>>
  <2>1. Len(history') - call' + 1 = Len(history) - call + 1
    BY <1>0, <1>2, <1>3, <1>8
  <2> QED
    BY <1>1, <1>4, <1>5, <1>8, <2>1 DEF AnsweredOK, Running, Open
<1>9. CASE /\ history' = h /\ call = calls /\ pc' = "model"
           /\ UNCHANGED <<turnStart, saved, compacted>>
  BY <1>1, <1>4, <1>5, <1>9 DEF AnsweredOK, Running, Open
<1>10. CASE /\ call = calls /\ history' = Unhinted(h) /\ saved' = history'
            /\ pc' \in {"idle", "exit"}
  BY <1>1, <1>3, <1>4, <1>10, AnsweredUnhinted, AtRest
<1> QED
  BY <1>6, <1>7, <1>8, <1>9, <1>10

LEMMA AnsweredReview ==
    ASSUME Typed, AnsweredOK, ReviewDropped \/ \E k \in 0..MaxCalls : ReviewReply(k)
    PROVE  AnsweredOK'
<1> USE DEF session, ghosts
<1>0. history \in Conversation /\ turnStart \in Nat
  BY DEF Typed, TextOK, Control, LoopOK
<1>1. pc = "review" /\ pc' = "idle" /\ saved' = saved
  BY DEF ReviewDropped, ReviewReply, ReviewEnds
<1>2. ~severed => /\ Answered(saved) /\ Answered(history) /\ turnStart <= Len(history)
                  /\ Answered(SubSeq(history, 1, turnStart))
  BY <1>1 DEF AnsweredOK, Running, Open
<1>3. CASE ReviewDropped
  <2>1. history' = Truncate(history, turnStart) /\ severed' = severed
    BY <1>3 DEF ReviewDropped
  <2>2. ~severed => Truncate(history, turnStart) = SubSeq(history, 1, turnStart)
    BY <1>0, <1>2, Behind, MessageTypes
  <2> QED
    BY <1>1, <1>2, <2>1, <2>2, AtRest
<1>4. ASSUME NEW k \in 0..MaxCalls, ReviewReply(k) PROVE AnsweredOK'
  <2>1. history' = Append(history, Assistant(k)) /\ severed' = (severed \/ k # 0)
    BY <1>4 DEF ReviewReply
  <2>2. ASSUME ~severed' PROVE Answered(history')
    <3>1. /\ Assistant(k) \in Message /\ ~IsTool(Assistant(k)) /\ (Assistant(k)).n = 0
      BY <2>1, <2>2, MessageTypes DEF Assistant, IsTool
    <3> QED
      BY <1>0, <1>2, <2>1, <2>2, <3>1, AnsweredAppend
  <2> QED
    BY <1>1, <1>2, <2>1, <2>2, AtRest
<1> QED
  BY <1>3, <1>4

LEMMA AnsweredStep == ASSUME Typed, AnsweredOK, [Next]_vars PROVE AnsweredOK'
<1>1. CASE QuickCommand
  <2>1. pc' = "idle"
    BY <1>1, QuickCommands DEF Quick, Command
  <2> QED
    BY <1>1, <2>1, QuickAnswers, AtRest
<1>2. CASE Restart
  <2>1. history' \in Injected(saved) /\ pc' = "idle" /\ saved' = saved /\ severed' = severed
    BY <1>2 DEF Restart, Reopened, session
  <2>2. ~severed => Answered(saved) /\ Answered(history')
    BY <2>1, AnsweredInjected DEF AnsweredOK, Typed, TextOK
  <2> QED
    BY <2>1, <2>2, AtRest
<1>3. CASE AutoCompactDone
  <2>1. pc = "compacting" /\ pc' = "begin" /\ compacted' = TRUE /\ Compact
    BY <1>3 DEF AutoCompactDone
  <2>2. ~severed => Answered(history)
    BY <2>1 DEF AnsweredOK, Running
  <2>3. ~severed' => Answered(history') /\ Answered(saved')
    BY <2>1, <2>2, CompactAnswers, CompactTypes DEF Typed
  <2> QED
    BY <2>1, <2>3 DEF AnsweredOK, Running, Open
<1> QED
  BY <1>1, <1>2, <1>3, StepKinds, AnsweredOpen, AnsweredDrop, AnsweredQuiet, AnsweredReply,
     AnsweredReturn, AnsweredReview

LEMMA AnsweredInit == Init => AnsweredOK
<1> SUFFICES ASSUME Init PROVE AnsweredOK
  OBVIOUS
<1>1. Answered(<<>>)
  BY AnsweredSystems
<1>2. Answered(<<System("memory")>>)
  BY AnsweredSystems DEF System, IsSystem
<1>3. Answered(<<User, Assistant(0)>>)
  BY DEF Answered, CallsAnswered, User, Assistant, IsTool
<1> QED
  BY <1>1, <1>2, <1>3 DEF Init, Openings, AnsweredOK, Running, Open

-----------------------------------------------------------------------------
\* Pinned items

PinsOf(h) == {i \in 1..Len(h) : Tagged("pin", h[i])}

\* Nothing but system messages stands before a pinned item.
PinsFirst(h) == \A i \in PinsOf(h) : \A j \in 1..i : IsSystem(h[j])

\* g has the pinned items of h, ahead like those, and none further back.
Carried(h, g) ==
    /\ PinsFirst(g)
    /\ Cardinality(PinsOf(g)) = Cardinality(PinsOf(h))
    /\ \A n \in Nat : PinsOf(h) \subseteq 1..n => PinsOf(g) \subseteq 1..n

LEMMA PinFacts ==
    ASSUME NEW h \in Conversation
    PROVE  /\ Len(h) \in Nat /\ \A i \in 1..Len(h) : h[i] \in Message
           /\ PinsOf(h) \subseteq 1..Len(h) /\ PinsOf(h) \subseteq Systems(h)
           /\ IsFiniteSet(PinsOf(h)) /\ Cardinality(PinsOf(h)) \in Nat
<1>1. Len(h) \in Nat /\ \A i \in 1..Len(h) : h[i] \in Message
  BY DEF Conversation
<1>2. PinsOf(h) \subseteq 1..Len(h) /\ PinsOf(h) \subseteq Systems(h)
  BY DEF PinsOf, Systems, Tagged
<1>3. IsFiniteSet(1..Len(h))
  BY <1>1, FS_Interval
<1>4. IsFiniteSet(PinsOf(h))
  BY <1>2, <1>3, FS_Subset
<1> QED
  BY <1>1, <1>2, <1>4, FS_CardinalityType

\* Of the pinned items those at the positions that are kept are left.
LEMMA KeptPins ==
    ASSUME NEW h \in Conversation, PinsFirst(h), NEW I, I \subseteq 1..Len(h)
    PROVE  /\ PinsFirst(Kept(h, I))
           /\ Cardinality(PinsOf(Kept(h, I))) = Cardinality(PinsOf(h) \cap I)
           /\ \A n \in Nat : PinsOf(h) \subseteq 1..n => PinsOf(Kept(h, I)) \subseteq 1..n
<1> DEFINE r == Kept(h, I)
<1>1. r \in Conversation
  BY KeptType
<1>2. PICK e : Places(r, h, I, e)
  BY KeptPlaces DEF Conversation
<1>3. \A k \in 1..Len(r) : k <= e[k]
  BY <1>2, EmbedsBelow
<1> HIDE DEF r
<1>4. /\ e \in [1..Len(r) -> I]
      /\ \A k \in 1..Len(r) : r[k] = h[e[k]]
      /\ \A j, k \in 1..Len(r) : j < k => e[j] < e[k]
      /\ \A i \in I : \E k \in 1..Len(r) : e[k] = i
  BY <1>2 DEF Places, Embeds
<1>0. Len(r) \in Nat /\ Len(h) \in Nat
  BY <1>1, PinFacts
<1>5. \A k \in 1..Len(r) : e[k] \in I /\ e[k] \in 1..Len(h) /\ (k \in PinsOf(r) <=> e[k] \in PinsOf(h))
  BY <1>4 DEF PinsOf
<1>6. ASSUME NEW i \in PinsOf(r), NEW j \in 1..i PROVE IsSystem(r[j])
  <2>1. i \in 1..Len(r) /\ j \in 1..Len(r)
    BY <1>0, <1>6 DEF PinsOf
  <2>2. j = i \/ j < i
    BY <2>1
  <2>3. e[j] \in 1..Len(h) /\ e[i] \in PinsOf(h) /\ e[i] \in 1..Len(h)
    BY <1>5, <1>6, <2>1
  <2>4. e[j] \in 1..e[i]
    BY <1>0, <1>4, <2>1, <2>2, <2>3
  <2>5. IsSystem(h[e[j]])
    BY <2>3, <2>4 DEF PinsFirst
  <2> QED
    BY <1>4, <2>1, <2>5
<1>7. Cardinality(PinsOf(r)) = Cardinality(PinsOf(h) \cap I)
  <2> DEFINE P == PinsOf(r)
             Q == PinsOf(h) \cap I
             f == [k \in P |-> e[k]]
  <2>1. P \subseteq 1..Len(r) /\ P \subseteq Nat
    BY <1>0 DEF PinsOf
  <2>2. f \in [P -> Q]
    BY <1>5, <2>1
  <2>3. ASSUME NEW a \in P, NEW b \in P, f[a] = f[b] PROVE a = b
    <3>1. a \in 1..Len(r) /\ b \in 1..Len(r) /\ e[a] = e[b] /\ e[a] \in 1..Len(h)
      BY <1>5, <2>1, <2>3
    <3>2. a = b \/ a < b \/ b < a
      BY <1>0, <3>1
    <3>3. ~(e[a] < e[b]) /\ ~(e[b] < e[a])
      BY <1>0, <3>1
    <3> QED
      BY <1>4, <3>1, <3>2, <3>3
  <2>4. ASSUME NEW i \in Q PROVE \E k \in P : f[k] = i
    BY <1>4, <1>5
  <2>5. f \in Bijection(P, Q)
    <3> HIDE DEF f, P, Q
    <3> QED
      BY <2>2, <2>3, <2>4 DEF Bijection, Injection, Surjection, IsInjective
  <2>6. ExistsBijection(P, Q)
    BY <2>5 DEF ExistsBijection
  <2>7. IsFiniteSet(P)
    BY <1>1, PinFacts
  <2> HIDE DEF P, Q
  <2>8. Cardinality(Q) = Cardinality(P)
    BY <2>6, <2>7, FS_Bijection
  <2> QED
    BY <2>8 DEF P, Q
<1>8. ASSUME NEW n \in Nat, PinsOf(h) \subseteq 1..n PROVE PinsOf(r) \subseteq 1..n
  <2> SUFFICES ASSUME NEW k \in PinsOf(r) PROVE k \in 1..n
    OBVIOUS
  <2>1. k \in 1..Len(r)
    BY DEF PinsOf
  <2>2. e[k] \in 1..n /\ k <= e[k]
    BY <1>3, <1>5, <1>8, <2>1 DEF r
  <2> QED
    BY <1>0, <2>1, <2>2
<1> QED
  BY <1>6, <1>7, <1>8 DEF PinsFirst, r

LEMMA CarriedKept ==
    ASSUME NEW h \in Conversation, PinsFirst(h), NEW I, I \subseteq 1..Len(h), PinsOf(h) \subseteq I
    PROVE  Carried(h, Kept(h, I))
<1>1. PinsOf(h) \cap I = PinsOf(h)
  OBVIOUS
<1> QED
  BY <1>1, KeptPins DEF Carried

LEMMA CarriedOn ==
    ASSUME NEW f, NEW g, NEW h, Carried(f, g), Carried(g, h) PROVE Carried(f, h)
  BY DEF Carried

\* The same pinned items at the same positions, and what precedes them the same.
LEMMA CarriedSame ==
    ASSUME NEW h \in Conversation, PinsFirst(h), NEW g, PinsOf(g) = PinsOf(h),
           \A i \in PinsOf(h) : \A j \in 1..i : g[j] = h[j]
    PROVE  Carried(h, g)
  BY DEF Carried, PinsFirst

LEMMA CarriedAppend ==
    ASSUME NEW h \in Conversation, PinsFirst(h), NEW m \in Message, ~Tagged("pin", m)
    PROVE  Carried(h, Append(h, m))
<1> DEFINE g == Append(h, m)
<1>1. /\ Len(h) \in Nat /\ Len(g) = Len(h) + 1 /\ g[Len(h) + 1] = m
      /\ \A i \in 1..Len(h) : g[i] = h[i]
  BY DEF Conversation
<1> HIDE DEF g
<1>2. PinsOf(g) = PinsOf(h)
  BY <1>1 DEF PinsOf
<1>3. \A i \in PinsOf(h) : \A j \in 1..i : g[j] = h[j]
  BY <1>1 DEF PinsOf
<1>4. Carried(h, g)
  BY <1>2, <1>3, CarriedSame
<1> QED
  BY <1>4 DEF g

LEMMA CarriedPrefix ==
    ASSUME NEW h \in Conversation, PinsFirst(h), NEW n \in 0..Len(h), PinsOf(h) \subseteq 1..n
    PROVE  Carried(h, SubSeq(h, 1, n))
<1> DEFINE g == SubSeq(h, 1, n)
<1>1. Len(h) \in Nat /\ Len(g) = n /\ \A i \in 1..n : g[i] = h[i]
  BY DEF Conversation
<1> HIDE DEF g
<1>2. PinsOf(g) = PinsOf(h)
  BY <1>1 DEF PinsOf
<1>3. \A i \in PinsOf(h) : \A j \in 1..i : g[j] = h[j]
  BY <1>1, <1>2 DEF PinsOf
<1>4. Carried(h, g)
  BY <1>2, <1>3, CarriedSame
<1> QED
  BY <1>4 DEF g

LEMMA Joined ==
    ASSUME NEW S, NEW f \in Seq(S), NEW g \in Seq(S)
    PROVE  /\ f \o g \in Seq(S) /\ Len(f \o g) = Len(f) + Len(g)
           /\ Len(f) \in Nat /\ Len(g) \in Nat
           /\ \A i \in 1..Len(f) : (f \o g)[i] = f[i]
           /\ \A i \in 1..Len(g) : (f \o g)[Len(f) + i] = g[i]
  OBVIOUS

LEMMA InsertedAt ==
    ASSUME NEW h \in Conversation, NEW tag \in SystemTags
    PROVE  LET p == Preamble(h)
               g == Inserted(h, tag)
           IN  /\ p \in 0..Len(h) /\ Len(g) = Len(h) + 1
               /\ \A i \in 1..p : g[i] = h[i] /\ IsSystem(h[i])
               /\ g[p + 1] = System(tag)
               /\ \A i \in (p + 1)..Len(h) : g[i + 1] = h[i]
               /\ p = Len(h) \/ ~IsSystem(h[p + 1])
<1> DEFINE p == Preamble(h)
           f == SubSeq(h, 1, p)
           s == <<System(tag)>>
           b == SubSeq(h, p + 1, Len(h))
           g == (f \o s) \o b
<1>1. Len(h) \in Nat
  BY PinFacts
<1>2. /\ p \in 0..Len(h) /\ \A i \in 1..p : IsSystem(h[i])
      /\ p = Len(h) \/ ~IsSystem(h[p + 1])
  BY <1>1, PreambleIs
<1>3. Inserted(h, tag) = g
  BY DEF Inserted
<1>4. System(tag) \in Message
  BY MessageTypes
<1> HIDE DEF p
<1>5. f \in Seq(Message) /\ Len(f) = p /\ \A i \in 1..p : f[i] = h[i]
  BY <1>1, <1>2 DEF Conversation
<1>6. s \in Seq(Message) /\ Len(s) = 1 /\ s[1] = System(tag)
  BY <1>4
<1>7. b \in Seq(Message) /\ Len(b) = Len(h) - p /\ \A i \in 1..(Len(h) - p) : b[i] = h[p + i]
  BY <1>1, <1>2 DEF Conversation
<1> HIDE DEF f, s, b
<1>8. /\ f \o s \in Seq(Message) /\ Len(f \o s) = p + 1
      /\ \A i \in 1..p : (f \o s)[i] = h[i]
      /\ (f \o s)[p + 1] = System(tag)
  <2>1. /\ f \o s \in Seq(Message) /\ Len(f \o s) = Len(f) + Len(s)
        /\ \A i \in 1..Len(f) : (f \o s)[i] = f[i]
        /\ \A i \in 1..Len(s) : (f \o s)[Len(f) + i] = s[i]
    BY <1>5, <1>6, Joined
  <2>2. 1 \in 1..Len(s)
    BY <1>6
  <2>3. (f \o s)[p + 1] = System(tag)
    BY <1>5, <1>6, <2>1, <2>2
  <2> QED
    BY <1>5, <1>6, <2>1, <2>3
<1>9. /\ Len(g) = (p + 1) + (Len(h) - p)
      /\ \A i \in 1..(p + 1) : g[i] = (f \o s)[i]
      /\ \A i \in 1..(Len(h) - p) : g[(p + 1) + i] = b[i]
  <2> DEFINE a == f \o s
  <2>1. Len(a) = p + 1
    BY <1>8
  <2>0. a \in Seq(Message) /\ b \in Seq(Message)
    BY <1>7, <1>8
  <2> HIDE DEF a
  <2>2. /\ Len(a \o b) = Len(a) + Len(b)
        /\ \A i \in 1..Len(a) : (a \o b)[i] = a[i]
        /\ \A i \in 1..Len(b) : (a \o b)[Len(a) + i] = b[i]
    BY ONLY <2>0, Joined
  <2>3. g = a \o b
    BY DEF a
  <2>4. /\ Len(g) = (p + 1) + (Len(h) - p)
        /\ \A i \in 1..(p + 1) : g[i] = a[i]
        /\ \A i \in 1..(Len(h) - p) : g[(p + 1) + i] = b[i]
    <3> HIDE DEF g
    <3> QED
      BY <1>7, <2>1, <2>2, <2>3
  <2> QED
    BY <2>4 DEF a
<1> HIDE DEF g
<1>10. Len(g) = Len(h) + 1
  BY <1>1, <1>2, <1>9
<1>11. ASSUME NEW i \in (p + 1)..Len(h) PROVE g[i + 1] = h[i]
  <2>1. i - p \in 1..(Len(h) - p) /\ (p + 1) + (i - p) = i + 1 /\ p + (i - p) = i
    BY <1>1, <1>2
  <2>2. g[(p + 1) + (i - p)] = b[i - p] /\ b[i - p] = h[p + (i - p)]
    BY <1>7, <1>9, <2>1
  <2> QED
    BY <2>1, <2>2
<1>12. (\A i \in 1..p : g[i] = h[i]) /\ g[p + 1] = System(tag)
  <2>1. p + 1 \in 1..(p + 1) /\ \A i \in 1..p : i \in 1..(p + 1)
    BY <1>1, <1>2
  <2>2. g[p + 1] = (f \o s)[p + 1] /\ \A i \in 1..p : g[i] = (f \o s)[i]
    BY <1>9, <2>1
  <2> QED
    BY <1>8, <2>2
<1> QED
  BY <1>2, <1>3, <1>10, <1>11, <1>12 DEF p

\* What is put in goes behind the pinned items, and is the last of them if it is one.
LEMMA InsertedPins ==
    ASSUME NEW h \in Conversation, PinsFirst(h), NEW tag \in SystemTags
    PROVE  /\ tag # "pin" => Carried(h, Inserted(h, tag))
           /\ tag = "pin" => /\ PinsFirst(Inserted(h, tag))
                             /\ Cardinality(PinsOf(Inserted(h, tag))) = Cardinality(PinsOf(h)) + 1
<1> DEFINE p == Preamble(h)
           g == Inserted(h, tag)
<1>1. /\ p \in 0..Len(h) /\ Len(g) = Len(h) + 1
      /\ \A i \in 1..p : g[i] = h[i] /\ IsSystem(h[i])
      /\ g[p + 1] = System(tag)
      /\ \A i \in (p + 1)..Len(h) : g[i + 1] = h[i]
      /\ p = Len(h) \/ ~IsSystem(h[p + 1])
  BY InsertedAt
<1>2. Len(h) \in Nat
  BY PinFacts
<1> HIDE DEF p, g
<1>3. PinsOf(h) \subseteq 1..p
  <2> SUFFICES ASSUME NEW i \in PinsOf(h), i \notin 1..p PROVE FALSE
    OBVIOUS
  <2>1. i \in 1..Len(h) /\ p + 1 \in 1..i /\ p # Len(h)
    BY <1>1, <1>2 DEF PinsOf
  <2>2. IsSystem(h[p + 1])
    BY <2>1 DEF PinsFirst
  <2> QED
    BY <1>1, <2>1, <2>2
<1>4. ASSUME NEW i \in 1..Len(g), i \notin 1..p, i # p + 1 PROVE ~Tagged("pin", g[i])
  <2>1. i - 1 \in (p + 1)..Len(h) /\ (i - 1) + 1 = i /\ i - 1 \in 1..Len(h) /\ i - 1 \notin 1..p
    BY <1>1, <1>2, <1>4
  <2>2. g[i] = h[i - 1]
    BY <1>1, <2>1
  <2> QED
    BY <1>3, <2>1, <2>2 DEF PinsOf
<1>5. \A i \in 1..p : i \in PinsOf(g) <=> i \in PinsOf(h)
  BY <1>1, <1>2 DEF PinsOf
<1>6. p + 1 \in 1..Len(g) /\ (p + 1 \in PinsOf(g) <=> tag = "pin") /\ IsSystem(g[p + 1])
  BY <1>1, <1>2 DEF PinsOf, Tagged, IsSystem, System
<1>7. PinsOf(g) \subseteq 1..Len(g)
  BY DEF PinsOf
<1>8. ASSUME tag # "pin" PROVE Carried(h, g)
  <2>1. PinsOf(g) \subseteq 1..p
    BY <1>4, <1>6, <1>7, <1>8 DEF PinsOf
  <2>2. PinsOf(g) = PinsOf(h)
    BY <1>3, <1>5, <2>1
  <2>3. \A i \in PinsOf(h) : \A j \in 1..i : g[j] = h[j]
    BY <1>1, <1>2, <1>3
  <2> QED
    BY <2>2, <2>3, CarriedSame
<1>9. ASSUME tag = "pin"
      PROVE  PinsFirst(g) /\ Cardinality(PinsOf(g)) = Cardinality(PinsOf(h)) + 1
  <2>1. PinsOf(g) \subseteq (1..p) \cup {p + 1}
    BY <1>4, <1>7 DEF PinsOf
  <2>2. PinsOf(g) = PinsOf(h) \cup {p + 1} /\ p + 1 \notin PinsOf(h)
    <3>1. p + 1 \notin 1..p
      BY <1>1
    <3> QED
      BY <1>3, <1>5, <1>6, <1>9, <2>1, <3>1
  <2>3. Cardinality(PinsOf(g)) = Cardinality(PinsOf(h)) + 1
    BY <2>2, PinFacts, FS_AddElement
  <2>4. ASSUME NEW i \in PinsOf(g), NEW j \in 1..i PROVE IsSystem(g[j])
    <3>1. j \in (1..p) \cup {p + 1}
      BY <1>1, <1>2, <2>1, <2>4
    <3> QED
      BY <1>1, <1>6, <3>1
  <2> QED
    BY <2>3, <2>4 DEF PinsFirst
<1> QED
  BY <1>8, <1>9 DEF g

LEMMA CarriedInjected ==
    ASSUME NEW h \in Conversation, PinsFirst(h)
    PROVE  \A g \in Injected(h) : Carried(h, g)
<1> DEFINE w == Without(h, "memory")
           I == {i \in 1..Len(h) : ~Tagged("memory", h[i])}
<1>1. I \subseteq 1..Len(h) /\ PinsOf(h) \subseteq I
  BY DEF PinsOf, Tagged
<1>2. Carried(h, w)
  <2> HIDE DEF I
  <2>1. Carried(h, Kept(h, I))
    BY <1>1, CarriedKept
  <2> QED
    BY <2>1 DEF Without, I
<1>3. w \in Conversation
  BY InsertTypes DEF SystemTags
<1> HIDE DEF w
<1>4. Carried(w, Inserted(w, "memory"))
  BY <1>2, <1>3, InsertedPins DEF SystemTags, Carried
<1>5. Carried(h, Inserted(w, "memory"))
  BY <1>2, <1>4, CarriedOn
<1> QED
  BY <1>2, <1>5 DEF Injected, w

LEMMA CarriedCut ==
    ASSUME NEW h \in Conversation, PinsFirst(h)
    PROVE  /\ Carried(h, Unhinted(h))
           /\ \A c \in 1..Len(h) : Carried(h, Rewound(h, c))
           /\ \A n \in Nat : Carried(h, Trimmed(h, n))
           /\ \A n \in Nat : PinsOf(h) \subseteq 1..n => Carried(h, Truncate(h, n))
<1>0. Len(h) \in Nat /\ PinsOf(h) \subseteq Systems(h) /\ PinsOf(h) \subseteq 1..Len(h)
  BY PinFacts
<1>1. Carried(h, Unhinted(h))
  <2> DEFINE I == {i \in 1..Len(h) : NotSingle(h[i])}
  <2>1. I \subseteq 1..Len(h) /\ PinsOf(h) \subseteq I
    BY DEF PinsOf, Tagged, NotSingle
  <2> HIDE DEF I
  <2>2. Carried(h, Kept(h, I))
    BY <2>1, CarriedKept
  <2> QED
    BY <2>2 DEF Unhinted, I
<1>2. ASSUME NEW c \in 1..Len(h) PROVE Carried(h, Rewound(h, c))
  <2>1. (1..(c - 1)) \cup Systems(h) \subseteq 1..Len(h)
    BY <1>0 DEF Systems
  <2> QED
    BY <1>0, <2>1, CarriedKept DEF Rewound
<1>3. ASSUME NEW n \in Nat PROVE Carried(h, Trimmed(h, n))
  <2> DEFINE c == FromEnd(Users(h), n)
  <2>1. Systems(h) \subseteq 1..Len(h)
    BY DEF Systems
  <2>2. CASE n = 0
    BY <1>0, <2>1, <2>2, CarriedKept DEF Trimmed
  <2>3. CASE n # 0 /\ Cardinality(Users(h)) <= n
    <3>1. Trimmed(h, n) = h
      BY <2>3 DEF Trimmed
    <3> QED
      BY <3>1 DEF Carried
  <2>4. CASE n # 0 /\ ~(Cardinality(Users(h)) <= n)
    <3>1. IsFiniteSet(1..Len(h)) /\ Users(h) \subseteq 1..Len(h)
      BY <1>0, FS_Interval DEF Users
    <3>2. Cardinality(Users(h)) \in Nat
      BY <3>1, FS_Subset, FS_CardinalityType
    <3>3. n \in 1..Cardinality(Users(h))
      BY <2>4, <3>2
    <3>4. c \in 1..Len(h)
      BY <1>0, <3>1, <3>3, Ranked
    <3> HIDE DEF c
    <3>5. Systems(h) \cup (c..Len(h)) \subseteq 1..Len(h)
      BY <1>0, <2>1, <3>4
    <3>6. Trimmed(h, n) = Kept(h, Systems(h) \cup (c..Len(h)))
      BY <2>4 DEF Trimmed, c
    <3> QED
      BY <1>0, <3>5, <3>6, CarriedKept
  <2> QED
    BY <2>2, <2>3, <2>4
<1>4. ASSUME NEW n \in Nat, PinsOf(h) \subseteq 1..n PROVE Carried(h, Truncate(h, n))
  <2>1. CASE n < Len(h)
    <3>1. n \in 0..Len(h) /\ Truncate(h, n) = SubSeq(h, 1, n)
      BY <1>0, <2>1 DEF Truncate
    <3> QED
      BY <1>4, <3>1, CarriedPrefix
  <2>2. CASE ~(n < Len(h))
    <3>1. Truncate(h, n) = h
      BY <2>2 DEF Truncate
    <3> QED
      BY <3>1 DEF Carried
  <2> QED
    BY <2>1, <2>2
<1> QED
  BY <1>1, <1>2, <1>3, <1>4

LEMMA CarriedConcat ==
    ASSUME NEW h \in Conversation, PinsFirst(h), NEW b \in Conversation, PinsOf(b) = {}
    PROVE  Carried(h, h \o b)
<1> DEFINE g == h \o b
<1>1. /\ Len(h) \in Nat /\ Len(b) \in Nat /\ Len(g) = Len(h) + Len(b)
      /\ \A i \in 1..Len(h) : g[i] = h[i]
      /\ \A i \in 1..Len(b) : g[Len(h) + i] = b[i]
  BY Joined DEF Conversation
<1> HIDE DEF g
<1>2. ASSUME NEW i \in 1..Len(g), i \notin 1..Len(h) PROVE ~Tagged("pin", g[i])
  <2>1. i - Len(h) \in 1..Len(b) /\ Len(h) + (i - Len(h)) = i
    BY <1>1, <1>2
  <2>2. g[i] = b[i - Len(h)]
    BY <1>1, <2>1
  <2> QED
    BY <2>1, <2>2 DEF PinsOf
<1>3. PinsOf(g) = PinsOf(h)
  <2>1. 1..Len(h) \subseteq 1..Len(g)
    BY <1>1
  <2> QED
    BY <1>1, <1>2, <2>1 DEF PinsOf
<1>4. \A i \in PinsOf(h) : \A j \in 1..i : g[j] = h[j]
  <2>1. \A i \in PinsOf(h) : 1..i \subseteq 1..Len(h)
    BY <1>1 DEF PinsOf
  <2> QED
    BY <1>1, <2>1
<1>5. Carried(h, g)
  BY <1>3, <1>4, CarriedSame
<1> QED
  BY <1>5 DEF g

\* No pinned item stands behind a message of the user or the model.
LEMMA PinsAhead ==
    ASSUME NEW h \in Conversation, PinsFirst(h), NEW c \in NonSystem(h)
    PROVE  PinsOf(h) \subseteq 1..(c - 1)
<1> SUFFICES ASSUME NEW i \in PinsOf(h), i \notin 1..(c - 1) PROVE FALSE
  OBVIOUS
<1>1. Len(h) \in Nat /\ i \in 1..Len(h) /\ c \in 1..Len(h) /\ ~IsSystem(h[c])
  BY PinFacts DEF NonSystem
<1>2. c \in 1..i
  BY <1>1
<1> QED
  BY <1>1, <1>2 DEF PinsFirst

LEMMA CarriedCompacted ==
    ASSUME NEW h \in Conversation, PinsFirst(h), NEW c \in NonSystem(h)
    PROVE  Carried(h, Compacted(h, c))
<1> DEFINE I == Systems(h) \cap (1..(c - 1))
           f == Kept(h, I)
           s == System("note")
           a == Append(f, s)
           b == SubSeq(h, c, Len(h))
<1>1. Len(h) \in Nat /\ c \in 1..Len(h) /\ PinsOf(h) \subseteq Systems(h)
  BY PinFacts DEF NonSystem
<1>2. I \subseteq 1..Len(h) /\ PinsOf(h) \subseteq I
  BY <1>1, PinsAhead DEF Systems
<1>3. f \in Conversation /\ Carried(h, f)
  <2> HIDE DEF I
  <2> QED
    BY <1>2, KeptType, CarriedKept
<1>4. s \in Message /\ ~Tagged("pin", s)
  BY MessageTypes DEF SystemTags, System, Tagged
<1>5. b \in Conversation /\ Len(b) = Len(h) - c + 1 /\ \A i \in 1..Len(b) : b[i] = h[c - 1 + i]
  BY <1>1 DEF Conversation
<1> HIDE DEF b
<1>6. PinsOf(b) = {}
  <2> SUFFICES ASSUME NEW i \in PinsOf(b) PROVE FALSE
    OBVIOUS
  <2>1. i \in 1..Len(b) /\ Tagged("pin", h[c - 1 + i])
    BY <1>5 DEF PinsOf
  <2>2. c - 1 + i \in 1..Len(h) /\ c - 1 + i \notin 1..(c - 1)
    BY <1>1, <1>5, <2>1
  <2>3. c - 1 + i \in PinsOf(h)
    BY <2>1, <2>2 DEF PinsOf
  <2> QED
    BY <2>2, <2>3, PinsAhead
<1> HIDE DEF f, s
<1>7. a \in Conversation /\ Carried(f, a)
  BY <1>3, <1>4, AppendTypes, CarriedAppend DEF Carried
<1>8. a = f \o <<s>>
  BY <1>3, <1>4 DEF Conversation
<1> HIDE DEF a
<1>9. Carried(a, a \o b)
  BY <1>5, <1>6, <1>7, CarriedConcat DEF Carried
<1>10. Carried(h, a \o b)
  BY <1>3, <1>7, <1>9, CarriedOn
<1>11. Compacted(h, c) = a \o b
  BY <1>8 DEF Compacted, f, s, b, I
<1> QED
  BY <1>10, <1>11

LEMMA CompactPins ==
    ASSUME TextOK, PinsFirst(history), Compact PROVE Carried(history, history')
<1> DEFINE short == Compacted(history, CutAt(history, KeepRecent))
           long == Inserted(Without(short, "memory"), "memory")
<1>1. Carried(history, short) /\ short \in Conversation
  BY CompactCut, CarriedCompacted, CutAtTypes DEF TextOK
<1>2. history' \in {short, long}
  BY DEF Compact
<1> HIDE DEF short
<1>3. Carried(short, long)
  BY <1>1, CarriedInjected DEF Injected, Carried
<1> HIDE DEF long
<1>4. Carried(history, long)
  BY <1>1, <1>3, CarriedOn
<1> QED
  BY <1>1, <1>2, <1>4

\* The pinned items stand first, in front of where the current turn begins, and are
\* as many as the list has, in the conversation and in the session's file.
PinsOK ==
    /\ PinsFirst(history) /\ PinsFirst(saved)
    /\ pc \in Open \cup {"review"} => PinsOf(history) \subseteq 1..turnStart
    /\ ~wiped => /\ Cardinality(PinsOf(history)) = pinned
                 /\ Cardinality(PinsOf(saved)) = savedPinned

\* A step that carries them on, and may save them.
LEMMA PinsGoOn ==
    ASSUME PinsOK, turnStart \in Nat, Carried(history, history'),
           UNCHANGED <<pinned, wiped>>,
           \/ UNCHANGED <<saved, savedPinned>>
           \/ saved' = history' /\ savedPinned' = pinned,
           pc' \in Open \cup {"review"} =>
              \/ pc \in Open \cup {"review"} /\ turnStart' = turnStart
              \/ PinsOf(history') \subseteq 1..(turnStart')
    PROVE  PinsOK'
<1>1. PinsFirst(history') /\ Cardinality(PinsOf(history')) = Cardinality(PinsOf(history))
  BY DEF Carried
<1>2. PinsFirst(saved')
  BY <1>1 DEF PinsOK
<1>3. ~wiped' => /\ Cardinality(PinsOf(history')) = pinned'
                 /\ Cardinality(PinsOf(saved')) = savedPinned'
  BY <1>1 DEF PinsOK
<1>4. pc' \in Open \cup {"review"} => PinsOf(history') \subseteq 1..(turnStart')
  BY DEF PinsOK, Carried
<1> QED
  BY <1>1, <1>2, <1>3, <1>4 DEF PinsOK

LEMMA PlainPins ==
    /\ PinsOf(<<>>) = {}
    /\ PinsOf(Earlier) = {}
    /\ PinsOf(<<System("memory")>>) = {}
    /\ Cardinality({}) = 0
<1>1. \A i \in 1..Len(Earlier) : ~Tagged("pin", Earlier[i])
  BY DEF Earlier, Tagged, IsSystem, User, Assistant
<1>2. \A i \in 1..Len(<<System("memory")>>) : ~Tagged("pin", <<System("memory")>>[i])
  BY DEF Tagged, System
<1>3. \A i \in 1..Len(<<>>) : FALSE
  OBVIOUS
<1> QED
  BY <1>1, <1>2, <1>3, FS_EmptySet DEF PinsOf

\* The commands that cut the conversation, or add to it, and leave the list of pins.
LEMMA QuickCarries ==
    ASSUME Typed, PinsFirst(history),
           \/ Ask \/ TogglePlan \/ MemoryCommand \/ CompactCommand \/ ReloadTools \/ Fork
           \/ \E n \in 1..MaxRewind : RewindCommand(n)
           \/ \E n \in 0..MaxRewind : TrimHistory(n)
    PROVE  /\ Carried(history, history') /\ UNCHANGED <<pinned, wiped>>
           /\ \/ UNCHANGED <<saved, savedPinned>>
              \/ saved' = history' /\ savedPinned' = pinned
<1> USE DEF session, pins, Checkpoint
<1>0. history \in Conversation /\ Len(history) \in Nat
  BY PinFacts DEF Typed, TextOK
<1>1. CASE Ask \/ TogglePlan
  <2>1. \E tag \in {"single", "note"} : history' = Append(history, System(tag))
    BY <1>1 DEF Ask, TogglePlan, Tell
  <2>2. \A tag \in {"single", "note"} :
           System(tag) \in Message /\ ~Tagged("pin", System(tag))
    BY MessageTypes DEF SystemTags, System, Tagged
  <2>3. Carried(history, history')
    BY <1>0, <2>1, <2>2, CarriedAppend
  <2> QED
    BY <1>1, <2>3 DEF Ask, TogglePlan, Tell
<1>2. CASE MemoryCommand
  <2>1. history' \in Injected(history) /\ UNCHANGED <<session, pins>>
    BY <1>2 DEF MemoryCommand, Tell
  <2> QED
    BY <1>0, <2>1, CarriedInjected
<1>3. CASE CompactCommand
  <2>1. Compact /\ UNCHANGED pins
    BY <1>3 DEF CompactCommand
  <2>2. Carried(history, history')
    BY <2>1, CompactPins DEF Typed
  <2> QED
    BY <2>1, <2>2 DEF Compact
<1>4. CASE ReloadTools
  <2>1. Carried(history, history)
    BY DEF Carried
  <2> QED
    BY <1>4, <2>1 DEF ReloadTools
<1>5. ASSUME NEW n \in 1..MaxRewind, RewindCommand(n)
      PROVE  /\ Carried(history, history') /\ UNCHANGED <<pinned, wiped>>
             /\ saved' = history' /\ savedPinned' = pinned
  <2> DEFINE k == Cardinality(NonSystem(history))
             m == IF 2 * n < k THEN 2 * n ELSE k
  <2>1. NonSystem(history) \subseteq 1..Len(history)
    BY DEF NonSystem
  <2>2. k \in Nat /\ k # 0
    <3>1. IsFiniteSet(1..Len(history))
      BY <1>0, FS_Interval
    <3>2. IsFiniteSet(NonSystem(history))
      BY <2>1, <3>1, FS_Subset
    <3> QED
      BY <1>5, <3>2, FS_CardinalityType, FS_EmptySet DEF RewindCommand
  <2>3. m \in 1..k
    BY <1>5, <2>2, AgentAssumption
  <2>4. CutAt(history, m) \in 1..Len(history)
    BY <1>0, <2>3, CutIsThere
  <2>5. history' = Rewound(history, CutAt(history, m)) /\ saved' = history'
        /\ savedPinned' = pinned /\ UNCHANGED <<pinned, wiped>>
    BY <1>5 DEF RewindCommand
  <2>6. Carried(history, Rewound(history, CutAt(history, m)))
    BY <1>0, <2>4, CarriedCut
  <2> QED
    BY <2>5, <2>6
<1>6. ASSUME NEW n \in 0..MaxRewind, TrimHistory(n)
      PROVE  /\ Carried(history, history') /\ UNCHANGED <<pinned, wiped>>
             /\ saved' = history' /\ savedPinned' = pinned
  <2>1. history' = Trimmed(history, n) /\ n \in Nat
    BY <1>6 DEF TrimHistory
  <2>2. Carried(history, Trimmed(history, n))
    BY <1>0, <2>1, CarriedCut
  <2> QED
    BY <1>6, <2>1, <2>2 DEF TrimHistory
<1>7. CASE Fork
  <2> DEFINE ends == {i \in 1..Len(history) : IsReply(history[i])}
             last == CHOOSE i \in ends : \A j \in ends : j <= i
  <2>1. ends # {} /\ history' = SubSeq(history, 1, last) /\ saved' = history'
        /\ savedPinned' = pinned /\ UNCHANGED <<pinned, wiped>>
    BY <1>7 DEF Fork
  <2>2. last \in ends
    <3>1. ends \subseteq 1..Len(history)
      OBVIOUS
    <3> HIDE DEF ends
    <3>2. \E i \in ends : \A j \in ends : j <= i
      BY <1>0, <2>1, <3>1, GreatestNat
    <3> QED
      BY <3>2
  <2>3. last \in 1..Len(history) /\ last \in NonSystem(history)
    BY <2>2 DEF IsReply, NonSystem, IsSystem
  <2> HIDE DEF last
  <2>4. PinsOf(history) \subseteq 1..(last - 1)
    BY <1>0, <2>3, PinsAhead
  <2>5. last \in 0..Len(history) /\ PinsOf(history) \subseteq 1..last
    BY <2>3, <2>4
  <2>6. Carried(history, SubSeq(history, 1, last))
    BY <1>0, <2>5, CarriedPrefix
  <2> QED
    BY <2>1, <2>6
<1> QED
  BY <1>1, <1>2, <1>3, <1>4, <1>5, <1>6, <1>7

\* The commands that change the list of pins, or take up another conversation.
LEMMA PinsChange ==
    ASSUME Typed, PinsOK,
           Clear \/ SwitchModel \/ Load \/ Resume \/ Restart \/ Pin \/ Unpin
    PROVE  PinsOK'
<1> USE DEF session, pins, Checkpoint
<1>0. history \in Conversation /\ saved \in Conversation /\ Len(history) \in Nat
      /\ pinned \in Nat /\ PinsFirst(history) /\ PinsFirst(saved)
  BY PinFacts, Caps DEF Typed, TextOK, LeftOK, PinsOK
<1>1. pc' = "idle"
  BY DEF Clear, SwitchModel, Load, Resume, Pin, Unpin, Restart, Quick, Command
<1>2. SUFFICES /\ PinsFirst(history') /\ PinsFirst(saved')
               /\ ~wiped' => /\ Cardinality(PinsOf(history')) = pinned'
                             /\ Cardinality(PinsOf(saved')) = savedPinned'
  BY <1>1 DEF PinsOK, Open, Running
<1>3. CASE Clear \/ SwitchModel
  <2>1. history' = <<>> /\ saved' = <<>> /\ savedPinned' = 0 /\ wiped' = (pinned > 0)
        /\ pinned' = pinned
    BY <1>3 DEF Clear, SwitchModel, DropConversation
  <2>4. pinned = 0 \/ pinned > 0
    BY <1>0
  <2>2. ~wiped' => pinned' = 0
    BY <2>1, <2>4, Zenon
  <2> QED
    BY <2>1, <2>2, PlainPins DEF PinsFirst
<1>4. CASE Load
  <2>1. history' = Earlier /\ wiped' = (wiped \/ pinned > 0) /\ pinned' = pinned
        /\ UNCHANGED <<saved, savedPinned>>
    BY <1>4 DEF Load
  <2>4. pinned = 0 \/ pinned > 0
    BY <1>0
  <2>2. ~wiped' => pinned' = 0
    BY <2>1, <2>4, Zenon
  <2>3. PinsFirst(Earlier) /\ Cardinality(PinsOf(Earlier)) = 0
    BY PlainPins DEF PinsFirst
  <2> QED
    BY <1>0, <2>1, <2>2, <2>3 DEF PinsOK
<1>5. CASE Resume \/ Restart
  <2>1. history' \in Injected(saved) /\ pinned' = savedPinned
        /\ UNCHANGED <<saved, savedPinned, wiped>>
    BY <1>5 DEF Resume, Restart, Reopened
  <2>2. Carried(saved, history')
    BY <1>0, <2>1, CarriedInjected
  <2> QED
    BY <1>0, <2>1, <2>2 DEF PinsOK, Carried
<1>6. CASE Pin
  <2>1. history' = Inserted(history, "pin") /\ saved' = history' /\ pinned' = pinned + 1
        /\ savedPinned' = pinned + 1 /\ wiped' = wiped
    BY <1>6 DEF Pin
  <2>2. /\ PinsFirst(Inserted(history, "pin"))
        /\ Cardinality(PinsOf(Inserted(history, "pin"))) = Cardinality(PinsOf(history)) + 1
    BY <1>0, InsertedPins DEF SystemTags
  <2> QED
    BY <2>1, <2>2 DEF PinsOK
<1>7. CASE Unpin
  <2> DEFINE at == PinsOf(history)
             I == {i \in 1..Len(history) : i \in at => \E j \in at : j < i}
  <2>1. history' = Kept(history, I) /\ saved' = history' /\ pinned' = pinned - 1
        /\ savedPinned' = pinned - 1 /\ wiped' = wiped /\ pinned > 0
    BY <1>7 DEF Unpin, PinsOf
  <2>2. I \subseteq 1..Len(history)
    OBVIOUS
  <2>3. /\ PinsFirst(Kept(history, I))
        /\ Cardinality(PinsOf(Kept(history, I))) = Cardinality(at \cap I)
    <3> HIDE DEF I
    <3> QED
      BY <1>0, <2>2, KeptPins
  <2>4. ASSUME ~wiped PROVE Cardinality(at \cap I) = pinned - 1
    <3>1. IsFiniteSet(at) /\ Cardinality(at) = pinned /\ at \subseteq 1..Len(history)
      BY <1>0, <2>4, PinFacts DEF PinsOK
    <3>2. at # {} /\ at \subseteq Nat
      BY <1>0, <2>1, <3>1, FS_EmptySet
    <3>3. PICK x \in at : \A y \in at : x <= y
      <4> HIDE DEF at
      <4> QED
        BY <3>2, LeastNat
    <3>4. at \cap I = at \ {x}
      <4>1. ASSUME NEW i \in at PROVE i \in I <=> i # x
        <5>1. i \in I <=> \E j \in at : j < i
          BY <3>1, <4>1
        <5>2. i # x => x < i
          BY <3>2, <3>3, <4>1
        <5>3. (\E j \in at : j < x) => FALSE
          BY <3>2, <3>3
        <5> HIDE DEF at, I
        <5> QED
          BY <3>3, <5>1, <5>2, <5>3
      <4> HIDE DEF at, I
      <4> QED
        BY <4>1
    <3> HIDE DEF at, I
    <3> QED
      BY <3>1, <3>3, <3>4, FS_RemoveElement
  <2> HIDE DEF I, at
  <2> QED
    BY <2>1, <2>3, <2>4
<1> QED
  BY <1>3, <1>4, <1>5, <1>6, <1>7

LEMMA PinsStep == ASSUME Typed, PinsOK, [Next]_vars PROVE PinsOK'
<1> USE DEF session, pins, loop, Checkpoint
<1>0. history \in Conversation /\ Len(history) \in Nat /\ turnStart \in Nat
      /\ PinsFirst(history) /\ PinsOf(history) \subseteq 1..Len(history)
  BY PinFacts DEF Typed, TextOK, Control, LoopOK, PinsOK
<1>a. Carried(history, history)
  BY <1>0 DEF Carried
<1>b. /\ User \in Message /\ ~Tagged("pin", User)
      /\ System("single") \in Message /\ ~Tagged("pin", System("single"))
      /\ \A k \in 0..MaxCalls : Assistant(k) \in Message /\ ~Tagged("pin", Assistant(k))
  BY MessageTypes DEF SystemTags, Tagged, System, User, Assistant, IsSystem
<1>1. ASSUME NEW kind \in {"chat"} \cup Entries, Submit(kind) PROVE PinsOK'
  <2>1. \/ history' = Append(history, User) /\ turnStart' = Len(history)
        \/ /\ turnStart' = Len(history')
           /\ \/ history' = Append(history, System("single"))
              \/ history' = Append(Append(history, System("single")), User)
    <3>1. history \o <<System("single"), User>> = Append(Append(history, System("single")), User)
      BY <1>0, <1>b DEF Conversation
    <3> QED
      BY <1>1, <3>1, SubmitIs
  <2>2. /\ Carried(history, Append(history, User))
        /\ Carried(history, Append(history, System("single")))
    BY <1>0, <1>b, CarriedAppend
  <2>3. Append(history, System("single")) \in Conversation
    BY <1>0, <1>b, AppendTypes
  <2>4. Carried(history, Append(Append(history, System("single")), User))
    <3>1. PinsFirst(Append(history, System("single")))
      BY <2>2 DEF Carried
    <3> QED
      BY <1>b, <2>2, <2>3, <3>1, CarriedAppend, CarriedOn
  <2>5. Carried(history, history')
    BY <2>1, <2>2, <2>4
  <2>6. PinsOf(history') \subseteq 1..(turnStart')
    <3>1. PinsOf(history') \subseteq 1..Len(history')
      BY DEF PinsOf
    <3>2. PinsOf(history') \subseteq 1..Len(history)
      BY <1>0, <2>5 DEF Carried
    <3> QED
      BY <2>1, <3>1, <3>2
  <2>7. UNCHANGED <<pinned, wiped, saved, savedPinned>>
    BY <1>1 DEF Submit
  <2> QED
    BY <1>0, <2>5, <2>6, <2>7, PinsGoOn
<1>2. CASE Review
  <2>1. history' = Append(history, User) /\ turnStart' = Len(history)
        /\ UNCHANGED <<pinned, wiped, saved, savedPinned>>
    BY <1>2 DEF Review
  <2>2. Carried(history, Append(history, User))
    BY <1>0, <1>b, CarriedAppend
  <2>3. PinsOf(history') \subseteq 1..(turnStart')
    BY <1>0, <2>1, <2>2 DEF Carried
  <2> QED
    BY <1>0, <2>1, <2>2, <2>3, PinsGoOn
<1>3. CASE AutoCompactDone
  <2>1. Compact /\ UNCHANGED <<turnStart, pinned, wiped>> /\ pc \in Open
    BY <1>3 DEF AutoCompactDone, Open
  <2>2. Carried(history, history')
    BY <1>0, <2>1, CompactPins DEF Typed
  <2> QED
    BY <1>0, <2>1, <2>2, PinsGoOn DEF Compact
<1>4. CASE AutoCompactSkip \/ BeginTurn \/ SubReply \/ SubToolsDone \/ ToolWrites \/ PressCtrlC
           \/ Idles
  <2>1. UNCHANGED <<history, turnStart, pinned, wiped, saved, savedPinned>>
        /\ (pc' = pc \/ pc \in Open)
    BY <1>4 DEF AutoCompactSkip, BeginTurn, SubReply, SubToolsDone, ToolWrites, PressCtrlC, Idles,
                UserEdits, Exited, vars, Open, Running
  <2> QED
    BY <1>0, <1>a, <2>1, PinsGoOn
<1>5. ASSUME NEW m \in Message, ~Tagged("pin", m), NEW h, h = Append(history, m),
             pc \in Open \cup {"review"},
             history' \in {h, Unhinted(h)}, UNCHANGED <<pinned, wiped>>,
             \/ UNCHANGED <<saved, savedPinned>>
             \/ saved' = history' /\ savedPinned' = pinned,
             pc' \in Open \cup {"review"} => turnStart' = turnStart
      PROVE  PinsOK'
  <2>1. h \in Conversation /\ Carried(history, h)
    BY <1>0, <1>5, AppendTypes, CarriedAppend
  <2>2. Carried(h, Unhinted(h))
    BY <2>1, CarriedCut DEF Carried
  <2>4. Carried(history, Unhinted(h))
    BY ONLY <2>1, <2>2, CarriedOn
  <2>3. Carried(history, history')
    BY <1>5, <2>1, <2>4
  <2> QED
    BY <1>0, <1>5, <2>3, PinsGoOn
<1>6. ASSUME NEW k \in 0..MaxCalls, ModelReply(k) PROVE PinsOK'
  <2>1. pc \in Open \cup {"review"} /\ UNCHANGED <<pinned, wiped>>
        /\ history' \in {Append(history, Assistant(k)), Unhinted(Append(history, Assistant(k)))}
        /\ (UNCHANGED <<saved, savedPinned>> \/ (saved' = history' /\ savedPinned' = pinned))
    BY <1>6 DEF ModelReply, EndTurn, Open
  <2>2. pc' \in Open \cup {"review"} => turnStart' = turnStart
    BY <1>6 DEF ModelReply, EndTurn, Leave, Open, Running
  <2> QED
    BY <1>5, <1>b, <2>1, <2>2
<1>7. ASSUME NEW k \in 0..MaxCalls, ReviewReply(k) PROVE PinsOK'
  <2>1. pc = "review" /\ pc' = "idle" /\ UNCHANGED <<pinned, wiped, saved, savedPinned>>
        /\ history' = Append(history, Assistant(k))
    BY <1>7 DEF ReviewReply, ReviewEnds
  <2> QED
    BY <1>5, <1>b, <2>1 DEF Open, Running
<1>8. ASSUME NEW tag \in Results[mode], ToolReturns(tag) PROVE PinsOK'
  <2> DEFINE m == Tool(tag, call)
  <2>1. pc \in Running
    BY <1>8 DEF ToolReturns, CallEnds, Running
  <2>2. m \in Message /\ ~Tagged("pin", m)
    BY <2>1, CallTypes DEF Tool, Tagged, IsSystem
  <2>3. UNCHANGED <<pinned, wiped>> /\ history' \in {Append(history, m), Unhinted(Append(history, m))}
        /\ (UNCHANGED <<saved, savedPinned>> \/ (saved' = history' /\ savedPinned' = pinned))
    BY <1>8 DEF ToolReturns, EndTurn
  <2>4. pc' \in Open \cup {"review"} => turnStart' = turnStart
    BY <1>8 DEF ToolReturns, EndTurn, Leave, Open, Running
  <2> QED
    BY <1>5, <2>1, <2>2, <2>3, <2>4 DEF Open
<1>9. CASE Drops \/ ReviewDropped
  <2>1. /\ history' = history \/ (pc \in Open \cup {"review"} /\ history' = Truncate(history, turnStart))
        /\ UNCHANGED <<pinned, wiped, saved, savedPinned>>
        /\ pc' \in {"idle", "exit"}
    BY <1>9 DEF Drops, BudgetRefuse, ModelFails, CancelTurn, TimeCapHit, Leave, AbandonTurn,
                ReviewDropped, ReviewEnds, Open
  <2>2. pc \in Open \cup {"review"} => Carried(history, Truncate(history, turnStart))
    BY <1>0, CarriedCut DEF PinsOK
  <2>3. Carried(history, history')
    BY <1>a, <2>1, <2>2
  <2> QED
    BY <1>0, <2>1, <2>3, PinsGoOn DEF Open, Running
<1>10. CASE QuickCommand \/ Restart
  <2>1. CASE Clear \/ SwitchModel \/ Load \/ Resume \/ Restart \/ Pin \/ Unpin
    BY <2>1, PinsChange
  <2>2. CASE \/ Ask \/ TogglePlan \/ MemoryCommand \/ CompactCommand \/ ReloadTools \/ Fork
             \/ \E n \in 1..MaxRewind : RewindCommand(n)
             \/ \E n \in 0..MaxRewind : TrimHistory(n)
    <3>1. QuickCommand
      BY <2>2 DEF QuickCommand
    <3>2. pc' = "idle"
      BY <3>1, QuickCommands DEF Quick, Command
    <3>3. /\ Carried(history, history') /\ UNCHANGED <<pinned, wiped>>
          /\ \/ UNCHANGED <<saved, savedPinned>>
             \/ saved' = history' /\ savedPinned' = pinned
      BY <1>0, <2>2, QuickCarries
    <3> QED
      BY <1>0, <3>2, <3>3, PinsGoOn DEF Open, Running
  <2> QED
    BY <1>10, <2>1, <2>2 DEF QuickCommand
<1> QED
  BY <1>1, <1>2, <1>3, <1>4, <1>6, <1>7, <1>8, <1>9, <1>10, StepKinds

LEMMA PinsInit == Init => PinsOK
<1> SUFFICES ASSUME Init PROVE PinsOK
  OBVIOUS
<1>1. history \in {<<>>, <<System("memory")>>, Earlier} /\ saved = <<>> /\ pc = "idle"
      /\ pinned = 0 /\ savedPinned = 0
  BY DEF Init, Openings, Earlier
<1>2. PinsOf(history) = {} /\ PinsOf(saved) = {}
  BY <1>1, PlainPins
<1> QED
  BY <1>1, <1>2, PlainPins DEF PinsOK, PinsFirst, Open, Running

-----------------------------------------------------------------------------
\* The end of a turn

\* A turn that ran to its end has left what it saved, until something else happens.
EndedOK ==
    outcome \in {"done", "capped"} => pc \in {"idle", "exit"} /\ EndedTurnSaved

LEMMA UnhintedIs ==
    ASSUME NEW h \in Conversation
    PROVE  \A i \in 1..Len(Unhinted(h)) : NotSingle(Unhinted(h)[i])
<1> DEFINE I == {i \in 1..Len(h) : NotSingle(h[i])}
<1>1. I \subseteq 1..Len(h)
  OBVIOUS
<1>2. PICK e : Embeds(Kept(h, I), h, I, e)
  <2> HIDE DEF I
  <2> QED
    BY <1>1, KeptEmbeds DEF Conversation
<1>3. \A i \in 1..Len(Kept(h, I)) : e[i] \in I /\ Kept(h, I)[i] = h[e[i]]
  <2> HIDE DEF I
  <2> QED
    BY <1>2 DEF Embeds
<1> QED
  BY <1>3 DEF Unhinted

LEMMA EndedStep == ASSUME Typed, EndedOK, [Next]_vars PROVE EndedOK'
<1> SUFFICES ASSUME outcome' \in {"done", "capped"}
             PROVE  /\ pc' \in {"idle", "exit"} /\ saved' = history'
                    /\ \A i \in 1..Len(history') : NotSingle(history'[i])
  BY DEF EndedOK, EndedTurnSaved
<1> USE DEF session, ghosts
<1>0. (pc \in Open <=> outcome = "running") /\ history \in Conversation
  BY DEF Typed, Control, PhaseOK, TextOK
<1>1. CASE QuickCommand \/ Review \/ Restart \/ Drops
           \/ \E kind \in {"chat"} \cup Entries : Submit(kind)
  BY <1>1, QuickCommands DEF Quick, Review, Command, Restart, Drops, BudgetRefuse, ModelFails,
     CancelTurn, TimeCapHit, Leave, Submit
<1>2. CASE AutoCompactSkip \/ AutoCompactDone \/ BeginTurn \/ SubReply \/ SubToolsDone
           \/ ToolWrites \/ ReviewEnds
  <2>1. outcome' = outcome /\ pc \in Open \cup {"review"}
    BY <1>2 DEF AutoCompactSkip, AutoCompactDone, BeginTurn, SubReply, SubToolsDone, ToolWrites,
                ReviewEnds, Open, Running
  <2> QED
    BY <1>0, <2>1 DEF EndedOK, Open, Running
<1>3. CASE PressCtrlC \/ Idles
  <2>1. UNCHANGED <<outcome, pc, saved, history>>
    BY <1>3 DEF PressCtrlC, Idles, UserEdits, Exited, vars
  <2> QED
    BY <2>1 DEF EndedOK, EndedTurnSaved
<1>4. ASSUME NEW h \in Conversation, NEW how, EndTurn(h, how)
      PROVE  /\ pc' \in {"idle", "exit"} /\ saved' = history'
             /\ \A i \in 1..Len(history') : NotSingle(history'[i])
  BY <1>4, UnhintedIs DEF EndTurn, Checkpoint, Leave
<1>5. ASSUME NEW k \in 0..MaxCalls, ModelReply(k)
      PROVE  \E h \in Conversation, how \in {"done", "capped"} : EndTurn(h, how)
  <2>1. EndTurn(Append(history, Assistant(k)), "done")
    BY <1>0, <1>5 DEF ModelReply, Open, Running
  <2>2. Append(history, Assistant(k)) \in Conversation
    BY <1>0, MessageTypes, AppendTypes
  <2> QED
    BY <2>1, <2>2
<1>6. ASSUME NEW tag \in Results[mode], ToolReturns(tag)
      PROVE  \E h \in Conversation, how \in {"done", "capped"} : EndTurn(h, how)
  <2>1. pc \in Running
    BY <1>6 DEF ToolReturns, CallEnds, Running
  <2>2. outcome = "running"
    BY <1>0, <2>1 DEF Open
  <2>3. EndTurn(Append(history, Tool(tag, call)), "capped")
    BY <1>6, <2>2 DEF ToolReturns, Leave
  <2>4. Append(history, Tool(tag, call)) \in Conversation
    BY <1>0, <2>1, CallTypes, AppendTypes
  <2> QED
    BY <2>3, <2>4
<1> QED
  BY <1>1, <1>2, <1>3, <1>4, <1>5, <1>6, StepKinds DEF ReviewReply, ReviewDropped

\* Whatever turns, cancels, compactions, rewinds, trims, pins, forks, resumes and kills
\* follow one another: what is sent to the model and what a resume finds answers every
\* call in its place, unless a cut has parted the two; every pinned item is in it, once;
\* and a turn that ended is on disk as it is in memory, its single-turn hints gone.
\* (agent_turn, and every command that cuts, grows or restores history.)
THEOREM ConversationIsWell == Spec => []ConversationWell
<1>1. Init => EndedOK
  BY DEF Init, EndedOK
<1>2. Typed /\ AnsweredOK /\ PinsOK /\ EndedOK => ConversationWell
  <2> SUFFICES ASSUME Typed, AnsweredOK, PinsOK, EndedOK PROVE ConversationWell
    OBVIOUS
  <2>1. RequestAnswered /\ SavedAnswered
    BY DEF RequestAnswered, SavedAnswered, AnsweredOK, Running
  <2>2. PinsCarried
    BY DEF PinsCarried, PinsOK, PinsOf
  <2>3. EndedTurnSaved
    BY DEF EndedOK, EndedTurnSaved
  <2> QED
    BY <2>1, <2>2, <2>3 DEF ConversationWell
<1> QED
  BY <1>1, <1>2, TypedInit, TypedStep, AnsweredInit, AnsweredStep, PinsInit, PinsStep, EndedStep,
     PTL DEF Spec
=============================================================================
