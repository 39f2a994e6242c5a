------------------------------ MODULE Receipts ------------------------------
(***************************************************************************)
(* The hash-chained receipts log (src/src/receipts.rs) and the sessions    *)
(* that write it.  A session opens the file, takes over the chain's tip,   *)
(* queues one line per event in a userspace buffer that is written out     *)
(* every FlushEvery records and at SessionEnd, and stores each payload in  *)
(* a sidecar file named by its hash, unless that file exists.              *)
(*                                                                         *)
(* A hash is the sequence of what it covers, so equal hashes mean equal    *)
(* histories.  Timestamps, signatures and the per-event columns are left   *)
(* out.  A write that fails may leave part of a line: the file is its      *)
(* newline-terminated lines and the `cut` one that may follow them.        *)
(***************************************************************************)
EXTENDS Naturals, Sequences

CONSTANTS Sessions,     \* processes given this --receipts path, each run once
          Payloads,
          None,         \* no payload
          Torn,         \* a line that is not JSON
          NoCut,        \* the file ends with a newline, or is empty
          FlushEvery,   \* RECEIPTS_FLUSH_EVERY
          MaxRecords    \* bound: records one chain is extended to

\* What a hash covers of each record, and the records.
Entry == [seq : Nat, payload : Payloads]
Rec == [seq : Nat, prev : Seq(Entry), payload : Payloads]

\* A record on its way into the file.
Part == [by : Sessions, rec : Rec, whole : BOOLEAN]

ASSUME ReceiptsAssumption ==
    /\ None \notin Payloads \cup Rec \cup {Torn}
    /\ Torn \notin Rec \cup Part
    /\ NoCut \notin Part \cup {Torn}
    /\ FlushEvery \in Nat \ {0}
    /\ MaxRecords \in Nat

VARIABLES lines,    \* the terminated lines of the file
          cut,      \* what follows them: NoCut, Torn or part of a record's line
          sidecar,  \* payload -> its file: "absent", "torn" or "whole"
          spoilt,   \* ghost: payloads whose file a session failed to finish
          w,        \* session -> its ReceiptsWriter
          overlapped, failed    \* ghosts: two sessions were live, a write failed

rvars == <<lines, cut, sidecar, spoilt, w, overlapped, failed>>

Writer == [state : {"new", "open", "ended", "off", "gone"},
           seq : Nat, prev : Seq(Entry), buf : Seq(Rec), pending : 0..(FlushEvery - 1),
           begun : BOOLEAN, making : Payloads \cup {None}, created : BOOLEAN]

\* A wrong hash: it does not cover the payload.
HashOfSeq(r) == Append(r.prev, [seq |-> r.seq, payload |-> None])

\* prev_hash covers all that came before; so does Hash(r), with r itself.
Hash(r) == Append(r.prev, [seq |-> r.seq, payload |-> r.payload])

Closed == [state |-> "new", seq |-> 0, prev |-> <<>>, buf |-> <<>>, pending |-> 0,
           begun |-> FALSE, making |-> None, created |-> FALSE]

Live(s) == w[s].state \in {"open", "ended", "off"}

Init ==
    /\ lines = <<>> /\ cut = NoCut
    /\ sidecar = [p \in Payloads |-> "absent"]
    /\ spoilt = {}
    /\ w = [s \in Sessions |-> Closed]
    /\ overlapped = FALSE /\ failed = FALSE

-----------------------------------------------------------------------------
\* The file

\* recover_tail(): the last line, whether or not a newline ends it.
LastLine ==
    IF cut = NoCut
      THEN IF lines = <<>> THEN None ELSE lines[Len(lines)]
      ELSE IF cut # Torn /\ cut.whole THEN cut.rec ELSE Torn

\* What s writes next goes where it belongs: after a newline, or after the
\* part of its own line that is already out.
Clean(s) == IF w[s].begun THEN cut # NoCut /\ cut # Torn /\ cut.by = s ELSE cut = NoCut

\* The buffer b of s goes out up to its k-th line, and `part` of the next one:
\* "none", "some" of its bytes, or "all" of them but the newline.
Out(s, b, k, part) ==
    /\ lines' = lines \o [i \in 1..k |-> IF i = 1 /\ ~Clean(s) THEN Torn ELSE b[i]]
    /\ cut' = IF part = "none"
                THEN IF k = 0 THEN cut ELSE NoCut
                ELSE IF k = 0 /\ ~Clean(s)
                       THEN Torn
                       ELSE [by |-> s, rec |-> b[k + 1], whole |-> part = "all"]

AllOut(s, b) == Out(s, b, Len(b), "none")

-----------------------------------------------------------------------------
\* A session

\* A wrong open: the chain always starts anew.
OpenFresh(s) ==
    /\ w[s].state = "new"
    /\ overlapped' = (overlapped \/ \E t \in Sessions : Live(t))
    /\ w' = [w EXCEPT ![s] = [Closed EXCEPT !.state = "open"]]
    /\ UNCHANGED <<lines, cut, sidecar, spoilt, failed>>

\* ReceiptsWriter::open: with a last line that does not parse the session goes
\* without a log.
Open(s) ==
    /\ w[s].state = "new"
    /\ overlapped' = (overlapped \/ \E t \in Sessions : Live(t))
    /\ w' = [w EXCEPT ![s] =
               CASE LastLine = None -> [Closed EXCEPT !.state = "open"]
                 [] LastLine = Torn -> [Closed EXCEPT !.state = "gone"]
                 [] OTHER -> [Closed EXCEPT !.state = "open", !.seq = LastLine.seq,
                                            !.prev = Hash(LastLine)]]
    /\ UNCHANGED <<lines, cut, sidecar, spoilt, failed>>

\* write() finds no sidecar for p, and will write one ...
Decide(s, p) ==
    /\ w[s].state = "open" /\ w[s].making = None /\ sidecar[p] = "absent"
    /\ w[s].seq < MaxRecords
    /\ w' = [w EXCEPT ![s].making = p]
    /\ UNCHANGED <<lines, cut, sidecar, spoilt, overlapped, failed>>

\* ... which fs::write first creates, or truncates ...
Create(s) ==
    /\ w[s].making # None /\ ~w[s].created
    /\ sidecar' = [sidecar EXCEPT ![w[s].making] = "torn"]
    /\ w' = [w EXCEPT ![s].created = TRUE]
    /\ UNCHANGED <<lines, cut, spoilt, overlapped, failed>>

\* ... or it fails, and the writer is disabled.
PayloadFails(s) ==
    /\ w[s].making # None
    /\ failed' = TRUE
    /\ spoilt' = IF w[s].created THEN spoilt \cup {w[s].making} ELSE spoilt
    /\ w' = [w EXCEPT ![s].state = "off", ![s].making = None, ![s].created = FALSE]
    /\ UNCHANGED <<lines, cut, sidecar, overlapped>>

Record(s, p) == [seq |-> w[s].seq + 1, prev |-> w[s].prev, payload |-> p]

\* A wrong queue: a full buffer is replaced by the new line.
QueueOver(s, p, end, spill) ==
    /\ w' = [w EXCEPT ![s].seq = @ + 1, ![s].prev = Hash(Record(s, p)),
                      ![s].making = None, ![s].created = FALSE,
                      ![s].buf = IF spill THEN <<Record(s, p)>> ELSE Append(@, Record(s, p))]
    /\ UNCHANGED <<lines, cut>>

\* write()'s line is queued; the buffer goes out first if the line does not fit
\* (spill), and with it when the flush is due.
Queue(s, p, end, spill) ==
    LET r == Record(s, p)
        all == Append(w[s].buf, r)
        due == end \/ w[s].pending + 1 >= FlushEvery
    IN
    /\ w' = [w EXCEPT ![s] =
               [Closed EXCEPT !.state = IF end THEN "ended" ELSE "open",
                              !.seq = r.seq, !.prev = Hash(r),
                              !.pending = IF due THEN 0 ELSE w[s].pending + 1,
                              !.buf = CASE due -> <<>> [] spill /\ ~due -> <<r>>
                                        [] OTHER -> all]]
    /\ IF due THEN AllOut(s, all)
       ELSE IF spill THEN AllOut(s, w[s].buf)
       ELSE UNCHANGED <<lines, cut>>

\* The flush fails part of the way: the rest stays in the buffer, the line only
\* if the buffer had room for it, and the writer is disabled.
QueueFails(s, p, end) ==
    /\ failed' = TRUE
    /\ \E all \in {w[s].buf} \cup {Append(w[s].buf, Record(s, p))},
          part \in {"none", "some", "all"} : \E k \in 0..(Len(all) - 1) :
          /\ all = w[s].buf \/ end \/ w[s].pending + 1 >= FlushEvery
          /\ Out(s, all, k, part)
          /\ w' = [w EXCEPT ![s] =
                     [Closed EXCEPT !.state = "off",
                                    !.buf = SubSeq(all, k + 1, Len(all)),
                                    !.begun = part # "none" \/ (k = 0 /\ w[s].begun)]]

\* A wrong write: the payload's file is left empty.
WriteUnstored(s, p, end) ==
    /\ w[s].state = "open" /\ w[s].seq < MaxRecords
    /\ w[s].making \in {p, None}
    /\ \E spill \in BOOLEAN : Queue(s, p, end, spill)
    /\ UNCHANGED <<sidecar, spoilt, overlapped, failed>>

\* write(): the payload's file is finished, or there already, then the line.
Write(s, p, end) ==
    /\ w[s].state = "open" /\ w[s].seq < MaxRecords
    /\ \/ /\ w[s].making = p /\ w[s].created
          /\ sidecar' = [sidecar EXCEPT ![p] = "whole"]
       \/ /\ w[s].making = None /\ sidecar[p] # "absent"
          /\ UNCHANGED sidecar
    /\ \/ UNCHANGED failed /\ \E spill \in BOOLEAN : Queue(s, p, end, spill)
       \/ QueueFails(s, p, end)
    /\ UNCHANGED <<spoilt, overlapped>>

Gone == [Closed EXCEPT !.state = "gone"]

\* Drop: what is left in the buffer goes out, as far as the disk takes it.
Close(s) ==
    /\ w[s].state \in {"ended", "off"}
    /\ LET b == w[s].buf IN
          \/ AllOut(s, b) /\ UNCHANGED failed
          \/ /\ failed' = TRUE
             /\ \E k \in 0..(Len(b) - 1), part \in {"none", "some", "all"} :
                   Out(s, b, k, part)
    /\ w' = [w EXCEPT ![s] = Gone]
    /\ UNCHANGED <<sidecar, spoilt, overlapped>>

\* The process is killed, or leaves by process::exit: no Drop runs.
Die(s) ==
    /\ Live(s)
    /\ spoilt' = IF w[s].created THEN spoilt \cup {w[s].making} ELSE spoilt
    /\ w' = [w EXCEPT ![s] = Gone]
    /\ UNCHANGED <<lines, cut, sidecar, overlapped, failed>>

Next ==
    \E s \in Sessions :
        \/ Open(s)
        \/ \E p \in Payloads : Decide(s, p) \/ \E end \in BOOLEAN : Write(s, p, end)
        \/ Create(s) \/ PayloadFails(s)
        \/ Close(s)
        \/ Die(s)

Spec == Init /\ [][Next]_rvars

-----------------------------------------------------------------------------
\* verify_file()

Linked(d, i) ==
    /\ d[i] # Torn
    /\ d[i].seq = i
    /\ d[i].prev = IF i = 1 THEN <<>> ELSE Hash(d[i - 1])

IsChain(d) == \A i \in 1..Len(d) : Linked(d, i)

File == IF cut = NoCut THEN lines ELSE Append(lines, LastLine)

Verified ==
    \A i \in 1..Len(File) : Linked(File, i) /\ sidecar[File[i].payload] = "whole"

-----------------------------------------------------------------------------

FileTypes ==
    /\ lines \in Seq(Rec \cup {Torn})
    /\ cut \in {NoCut, Torn} \cup Part

\* While the writer is on, what it has buffered is counted in pending.
WriterTypes ==
    /\ w \in [Sessions -> Writer]
    /\ \A s \in Sessions :
          /\ w[s].created => w[s].making # None
          /\ w[s].state # "off" => Len(w[s].buf) <= w[s].pending

RTypeOK ==
    /\ FileTypes
    /\ WriterTypes
    /\ sidecar \in [Payloads -> {"absent", "torn", "whole"}]
    /\ spoilt \subseteq Payloads
    /\ overlapped \in BOOLEAN /\ failed \in BOOLEAN

\* Sessions that follow one another extend one chain, whenever they die: no
\* line is torn and each links to the one before.  (ReceiptsWriter::open,
\* write, recover_tail.)
OneChain ==
    ~overlapped /\ ~failed =>
        /\ cut = NoCut
        /\ IsChain(lines)

\* However writes fail, the lines before the first torn one are a chain that a
\* verifier follows.  ("The on-disk chain is still verifiable up to the last
\* successful write", DEVELOPMENT.md.)
VerifiableUpToTear ==
    ~overlapped =>
        \A i \in 1..Len(lines) :
            (\A j \in 1..i : lines[j] # Torn) => Linked(lines, i)

\* A line never names a payload that is not stored, unless the session storing
\* it died or failed half way; one may still be storing it.  (write(): the
\* sidecar comes first.)
PayloadStored ==
    \A i \in 1..Len(lines) :
        lines[i] # Torn =>
            \/ sidecar[lines[i].payload] = "whole"
            \/ lines[i].payload \in spoilt
            \/ \E s \in Sessions : w[s].making = lines[i].payload /\ w[s].created

\* A file that no failure, overlap or half-written payload has touched passes
\* the verifier: nobody is told of a tampering that did not happen.
\* (verify_file.)
NoFalseAlarm ==
    ~overlapped /\ ~failed /\ spoilt = {} /\ (\A s \in Sessions : ~Live(s)) => Verified

\* What a verifier reads holds up, as far as the disk did.
Verifiable == VerifiableUpToTear /\ PayloadStored /\ NoFalseAlarm

PayloadsOf(d) == [i \in 1..Len(d) |-> IF d[i] = Torn THEN Torn ELSE d[i].payload]

\* Edits of d before its last line, each edited line given the hash that its
\* content asks for: one line out, two swapped, another payload.
Edits(d) ==
    LET Without(i) == [j \in 1..(Len(d) - 1) |-> d[IF j < i THEN j ELSE j + 1]]
        Swapped(i) == [d EXCEPT ![i] = d[i + 1], ![i + 1] = d[i]]
        Paid(i, p) == [d EXCEPT ![i].payload = p]
    IN  UNION {{Without(i), Swapped(i)} \cup {Paid(i, p) : p \in Payloads} :
                  i \in 1..(Len(d) - 1)}

\* No edit of a chain before its last line is a chain: the verifier sees it.
\* (chain_input_bytes, verify_file.)
TamperEvident == IsChain(lines) => \A d \in Edits(lines) \ {lines} : ~IsChain(d)

Promise == INSTANCE AuditLog WITH
    Limit <- FlushEvery,
    log <- PayloadsOf(lines),
    broken <- failed,
    queue <- [s \in Sessions |-> PayloadsOf(w[s].buf)]

\* What a session reports reaches the log in order, without a gap, and for
\* good, until a write fails; its death costs fewer than FlushEvery events.
\* (The comment on ReceiptsWriter.)
KeepsPromise == Promise!Spec

=============================================================================
