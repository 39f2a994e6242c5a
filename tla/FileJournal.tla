---------------------------- MODULE FileJournal ----------------------------
(***************************************************************************)
(* The file-mutation journal behind /rewind (src/src/file_rollback.rs) and *)
(* the two built-in tools that feed it, write_file and edit_file           *)
(* (src/src/builtin_tools.rs).  A bucket is opened at each agent entry     *)
(* point; the first pre-image of a path in a bucket is kept; /rewind n     *)
(* drops the last n buckets and restores the oldest pre-image of every     *)
(* path they name.                                                         *)
(*                                                                         *)
(* The journal sees only what the two tools do.  `bash`, a subprocess, the *)
(* user's editor, a write that failed half way and a restore that failed   *)
(* change files behind its back: the ghost `drift` names those paths.      *)
(***************************************************************************)
EXTENDS Naturals, Sequences

CONSTANTS Paths,        \* the files the tools write
          Contents,     \* what a file can hold
          Absent,       \* the file does not exist (previous_contents: None)
          NoSnap,       \* the bucket has no snapshot of the path
          MaxTurns      \* bound: buckets open at once

ASSUME JournalAssumption ==
    /\ Absent \notin Contents
    /\ NoSnap \notin Contents \cup {Absent}
    /\ MaxTurns \in Nat

VARIABLES files,    \* path -> what is on disk
          turns,    \* JournalInner.turns: a bucket per turn, path -> pre-image
          starts,   \* ghost: what was on disk when each bucket was opened
          drift     \* ghost: paths changed since without the journal's knowledge

jvars == <<files, turns, starts, drift>>

Images == Contents \cup {Absent}
Bucket == [Paths -> Images \cup {NoSnap}]
EmptyBucket == [p \in Paths |-> NoSnap]

JTypeOK ==
    /\ files \in [Paths -> Images]
    /\ turns \in Seq(Bucket)
    /\ starts \in Seq([Paths -> Images])
    /\ Len(starts) = Len(turns)
    /\ drift \in SUBSET Paths

JInit ==
    /\ files \in [Paths -> Images]
    /\ turns = <<>>
    /\ starts = <<>>
    /\ drift = {}

-----------------------------------------------------------------------------
\* What rewinding down to bucket k would write, with buckets ts and files fs.

Snapped(ts, k, p) == {i \in k..Len(ts) : ts[i][p] # NoSnap}

Oldest(ts, k, p) ==
    CHOOSE i \in Snapped(ts, k, p) : \A j \in Snapped(ts, k, p) : i <= j

Restored(ts, fs, k, p) ==
    IF Snapped(ts, k, p) = {} THEN fs[p] ELSE ts[Oldest(ts, k, p)][p]

\* The paths whose pre-image some dropped bucket holds.
ToRestore(k) == {p \in Paths : Snapped(turns, k, p) # {}}

FirstDropped(n) == IF n >= Len(turns) THEN 1 ELSE Len(turns) - n + 1

-----------------------------------------------------------------------------

StartTurn ==
    /\ Len(turns) < MaxTurns
    /\ turns' = Append(turns, EmptyBucket)
    /\ starts' = Append(starts, files)
    /\ UNCHANGED <<files, drift>>

\* A wrong record: a later write replaces the snapshot of an earlier one.
RecordLatest(p, previous) ==
    turns' = IF turns = <<>>
               THEN turns
               ELSE [turns EXCEPT ![Len(turns)][p] = previous]

\* record(): no-op with no bucket open, or when the bucket already has p.
Record(p, previous) ==
    turns' = IF turns = <<>> \/ turns[Len(turns)][p] # NoSnap
               THEN turns
               ELSE [turns EXCEPT ![Len(turns)][p] = previous]

WriteFile(p, c) ==
    /\ files' = [files EXCEPT ![p] = c]
    /\ Record(p, files[p])
    /\ UNCHANGED <<starts, drift>>

EditFile(p, c) ==
    /\ files[p] # Absent
    /\ WriteFile(p, c)

\* fs::write returned an error: the file may have been created or cut short
\* and nothing is recorded.
WriteFails(p, left) ==
    /\ files' = [files EXCEPT ![p] = left]
    /\ drift' = IF left = files[p] THEN drift ELSE drift \cup {p}
    /\ UNCHANGED <<turns, starts>>

\* A change by anything but the two tools.
ForeignWrite(p, left) ==
    /\ left # files[p]
    /\ files' = [files EXCEPT ![p] = left]
    /\ drift' = drift \cup {p}
    /\ UNCHANGED <<turns, starts>>

\* A wrong rewind: the first failure abandons the other files.
RewindGivesUp(n, failed) ==
    LET k == FirstDropped(n) IN
    /\ failed \subseteq ToRestore(k)
    /\ files' = [p \in Paths |->
                    IF failed # {} THEN files[p] ELSE Restored(turns, files, k, p)]
    /\ turns' = SubSeq(turns, 1, k - 1)
    /\ starts' = SubSeq(starts, 1, k - 1)
    /\ drift' = drift \cup failed

\* rewind(n): restore_one fails on the paths of `failed`, which keep what they
\* hold; the buckets are gone all the same.
Rewind(n, failed) ==
    LET k == FirstDropped(n) IN
    /\ failed \subseteq ToRestore(k)
    /\ files' = [p \in Paths |->
                    IF p \in failed THEN files[p] ELSE Restored(turns, files, k, p)]
    /\ turns' = SubSeq(turns, 1, k - 1)
    /\ starts' = SubSeq(starts, 1, k - 1)
    /\ drift' = drift \cup failed

\* A wrong discard: the newest bucket goes even when it holds snapshots.
DiscardLastTurn ==
    IF turns # <<>>
      THEN /\ turns' = SubSeq(turns, 1, Len(turns) - 1)
           /\ starts' = SubSeq(starts, 1, Len(starts) - 1)
           /\ UNCHANGED <<files, drift>>
      ELSE UNCHANGED jvars

DiscardLastTurnIfEmpty ==
    IF turns # <<>> /\ turns[Len(turns)] = EmptyBucket
      THEN /\ turns' = SubSeq(turns, 1, Len(turns) - 1)
           /\ starts' = SubSeq(starts, 1, Len(starts) - 1)
           /\ UNCHANGED <<files, drift>>
      ELSE UNCHANGED jvars

Reset ==
    /\ turns' = <<>>
    /\ starts' = <<>>
    /\ drift' = {}
    /\ UNCHANGED files

JNext ==
    \/ StartTurn
    \/ \E p \in Paths, c \in Contents : WriteFile(p, c) \/ EditFile(p, c)
    \/ \E p \in Paths, left \in Images : WriteFails(p, left) \/ ForeignWrite(p, left)
    \/ \E n \in 1..MaxTurns : \E failed \in SUBSET Paths : Rewind(n, failed)
    \/ DiscardLastTurnIfEmpty
    \/ Reset

JSpec == JInit /\ [][JNext]_jvars

-----------------------------------------------------------------------------
\* At every moment, rewinding down to any open bucket k would put every file
\* back to what it held when that turn began: the oldest pre-image wins over
\* the later ones, whatever writes, cancelled turns and earlier rewinds came
\* between.  (FileJournal::rewind, record.)
RewindExact ==
    \A k \in 1..Len(turns) : \A p \in Paths \ drift :
        Restored(turns, files, k, p) = starts[k][p]

\* Whenever buckets are dropped other than by /clear, every file the journal
\* knows all about holds what it held when the oldest dropped turn began; a
\* restore that fails on one path stops nothing else.  (FileJournal::rewind,
\* discard_last_turn_if_empty.)
DroppedTurnsUndone ==
    [][(Len(turns') < Len(turns) /\ ~Reset) =>
          \A p \in Paths \ drift' : files'[p] = starts[Len(turns') + 1][p]]_jvars
=============================================================================
