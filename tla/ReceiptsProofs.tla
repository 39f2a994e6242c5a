--------------------------- MODULE ReceiptsProofs ---------------------------
(***************************************************************************)
(* Proofs about the receipts log, for any sessions, payloads and flush     *)
(* interval: its types; that sessions which follow one another and whose   *)
(* writes succeed extend one chain; that the log then keeps the promise of *)
(* AuditLog; what a verifier reads after writes have failed; and that a    *)
(* chain cannot be rewritten behind its last line.                         *)
(***************************************************************************)
EXTENDS Receipts, SubsequencesProofs

\* What Out appends is a sequence of records and torn lines.
LEMMA OutType ==
    ASSUME RTypeOK, NEW s \in Sessions, NEW b \in Seq(Rec), NEW k \in 0..Len(b),
           NEW part \in {"none", "some", "all"}, part # "none" => k < Len(b),
           Out(s, b, k, part)
    PROVE  FileTypes'
  <1> DEFINE new == [i \in 1..k |-> IF i = 1 /\ ~Clean(s) THEN Torn ELSE b[i]]
  <1>1. new \in Seq(Rec \cup {Torn})
    <2>1. \A i \in 1..k : new[i] \in Rec \cup {Torn}
      <3>1. \A i \in 1..k : b[i] \in Rec
        OBVIOUS
      <3> QED BY <3>1
    <2>2. k \in Nat
      OBVIOUS
    <2> HIDE DEF new
    <2>3. new = [i \in 1..k |-> new[i]]
      BY DEF new
    <2> QED BY <2>1, <2>2, <2>3
  <1>2. lines' = lines \o new
    BY DEF Out
  <1>3. part # "none" => b[k + 1] \in Rec
    OBVIOUS
  <1>4. cut' \in {NoCut, Torn} \cup Part
    BY <1>3 DEF Out, RTypeOK, FileTypes, Part
  <1> HIDE DEF new
  <1> QED BY <1>1, <1>2, <1>4, ConcatProperties DEF RTypeOK, FileTypes

\* The record a session queues next, and what its hash covers.
LEMMA RecordType ==
    ASSUME RTypeOK, NEW s \in Sessions, NEW p \in Payloads
    PROVE  Record(s, p) \in Rec /\ Hash(Record(s, p)) \in Seq(Entry)
  <1>1. w[s].seq \in Nat /\ w[s].prev \in Seq(Entry)
    BY DEF RTypeOK, WriterTypes, Writer
  <1>2. Record(s, p) \in Rec
    BY <1>1 DEF Record, Rec
  <1>3. [seq |-> w[s].seq + 1, payload |-> p] \in Entry
    BY <1>1 DEF Entry
  <1>4. Hash(Record(s, p)) = Append(w[s].prev, [seq |-> w[s].seq + 1, payload |-> p])
    BY DEF Hash, Record
  <1> QED BY <1>1, <1>2, <1>3, <1>4

\* Where open() finds a record it is one, and has a hash.
LEMMA LastLineType ==
    ASSUME RTypeOK, LastLine # None, LastLine # Torn
    PROVE  LastLine \in Rec /\ Hash(LastLine) \in Seq(Entry)
  <1>1. LastLine \in Rec
    <2>1. CASE cut = NoCut
      <3>1. lines # <<>> /\ LastLine = lines[Len(lines)]
        BY <2>1 DEF LastLine
      <3>2. lines[Len(lines)] \in Rec \cup {Torn}
        BY <3>1 DEF RTypeOK, FileTypes
      <3> QED BY <3>1, <3>2
    <2>2. CASE cut # NoCut
      <3>1. cut # Torn /\ LastLine = cut.rec
        BY <2>2 DEF LastLine
      <3>2. cut \in Part
        BY <2>2, <3>1 DEF RTypeOK, FileTypes
      <3> QED BY <3>1, <3>2 DEF Part
    <2> QED BY <2>1, <2>2
  <1>2. LastLine.seq \in Nat /\ LastLine.prev \in Seq(Entry) /\ LastLine.payload \in Payloads
    BY <1>1 DEF Rec
  <1>3. [seq |-> LastLine.seq, payload |-> LastLine.payload] \in Entry
    BY <1>2 DEF Entry
  <1>4. Append(LastLine.prev, [seq |-> LastLine.seq, payload |-> LastLine.payload]) \in Seq(Entry)
    BY <1>2, <1>3
  <1> QED BY <1>1, <1>4 DEF Hash

\* A writer that has nothing in the making, whatever its other fields.
LEMMA ClosedType ==
    /\ Closed \in Writer /\ Closed.created = FALSE /\ Closed.making = None
    /\ Closed.buf = <<>> /\ Closed.pending = 0
  BY ReceiptsAssumption DEF Closed, Writer

\* A step that gives s a writer of the right type keeps the types of all.
LEMMA WriterStep ==
    ASSUME RTypeOK, NEW s \in Sessions, NEW v \in Writer, w' = [w EXCEPT ![s] = v],
           v.created => v.making # None,
           v.state # "off" => Len(v.buf) <= v.pending
    PROVE  WriterTypes'
  BY DEF RTypeOK, WriterTypes

LEMMA QueueTypes ==
    ASSUME RTypeOK, NEW s \in Sessions, NEW p \in Payloads, NEW end \in BOOLEAN,
           NEW spill \in BOOLEAN, w[s].state = "open", Queue(s, p, end, spill)
    PROVE  FileTypes' /\ WriterTypes'
  <1> DEFINE r == Record(s, p)
             all == Append(w[s].buf, r)
             due == end \/ w[s].pending + 1 >= FlushEvery
             b == CASE due -> <<>> [] spill /\ ~due -> <<r>> [] OTHER -> all
             n == IF due THEN 0 ELSE w[s].pending + 1
             v == [Closed EXCEPT !.state = IF end THEN "ended" ELSE "open",
                                 !.seq = r.seq, !.prev = Hash(r), !.pending = n, !.buf = b]
  <1>1. r \in Rec /\ Hash(r) \in Seq(Entry) /\ r.seq \in Nat
    BY RecordType DEF Rec
  <1>2. w[s].buf \in Seq(Rec) /\ w[s].pending \in Nat /\ Len(w[s].buf) <= w[s].pending
    BY ReceiptsAssumption DEF RTypeOK, WriterTypes, Writer
  <1>3. all \in Seq(Rec) /\ <<r>> \in Seq(Rec)
    BY <1>1, <1>2
  <1>4. FileTypes'
    <2>1. ASSUME NEW q \in Seq(Rec), AllOut(s, q)
          PROVE  FileTypes'
      <3>1. Len(q) \in 0..Len(q)
        OBVIOUS
      <3> QED BY <2>1, <3>1, OutType DEF AllOut
    <2>2. CASE due
      <3> HIDE DEF all
      <3> QED BY <2>1, <2>2, <1>3 DEF Queue, all
    <2>3. CASE ~due /\ spill
      BY <2>1, <2>3, <1>2 DEF Queue
    <2>4. CASE ~due /\ ~spill
      BY <2>4 DEF Queue, RTypeOK, FileTypes
    <2> QED BY <2>2, <2>3, <2>4
  <1>5. b \in Seq(Rec) /\ n \in 0..(FlushEvery - 1) /\ Len(b) <= n
    <2>1. CASE due
      BY <2>1, ReceiptsAssumption
    <2>2. CASE ~due /\ spill
      <3>1. b = <<r>> /\ n = w[s].pending + 1
        BY <2>2
      <3>2. n \in 0..(FlushEvery - 1)
        BY <2>2, <3>1, <1>2, ReceiptsAssumption
      <3> QED BY <3>1, <3>2, <1>2, <1>3
    <2>3. CASE ~due /\ ~spill
      <3>1. b = all /\ n = w[s].pending + 1
        BY <2>3
      <3>2. n \in 0..(FlushEvery - 1)
        BY <2>3, <3>1, <1>2, ReceiptsAssumption
      <3>3. Len(all) = Len(w[s].buf) + 1
        BY <1>1, <1>2
      <3> QED BY <3>1, <3>2, <3>3, <1>2, <1>3
    <2> QED BY <2>1, <2>2, <2>3
  <1>6. w' = [w EXCEPT ![s] = v]
    BY DEF Queue
  <1> HIDE DEF b, n, r
  <1>7. /\ v \in Writer
        /\ v.created = FALSE /\ v.buf = b /\ v.pending = n
    BY <1>1, <1>5 DEF Closed, Writer
  <1> HIDE DEF v
  <1> QED BY <1>4, <1>5, <1>6, <1>7, WriterStep

LEMMA QueueFailsTypes ==
    ASSUME RTypeOK, NEW s \in Sessions, NEW p \in Payloads, NEW end \in BOOLEAN,
           QueueFails(s, p, end)
    PROVE  FileTypes' /\ WriterTypes'
  <1>1. w[s].buf \in Seq(Rec) /\ Append(w[s].buf, Record(s, p)) \in Seq(Rec)
    BY RecordType DEF RTypeOK, WriterTypes, Writer
  <1>2. PICK all \in {w[s].buf} \cup {Append(w[s].buf, Record(s, p))},
             part \in {"none", "some", "all"} : \E k \in 0..(Len(all) - 1) :
          /\ all = w[s].buf \/ end \/ w[s].pending + 1 >= FlushEvery
          /\ Out(s, all, k, part)
          /\ w' = [w EXCEPT ![s] =
                     [Closed EXCEPT !.state = "off",
                                    !.buf = SubSeq(all, k + 1, Len(all)),
                                    !.begun = part # "none" \/ (k = 0 /\ w[s].begun)]]
    BY Zenon DEF QueueFails
  <1>3. PICK k \in 0..(Len(all) - 1) :
          /\ Out(s, all, k, part)
          /\ w' = [w EXCEPT ![s] =
                     [Closed EXCEPT !.state = "off",
                                    !.buf = SubSeq(all, k + 1, Len(all)),
                                    !.begun = part # "none" \/ (k = 0 /\ w[s].begun)]]
    BY <1>2
  <1>a. all \in Seq(Rec)
    BY <1>1
  <1> DEFINE v == [Closed EXCEPT !.state = "off",
                                 !.buf = SubSeq(all, k + 1, Len(all)),
                                 !.begun = part # "none" \/ (k = 0 /\ w[s].begun)]
  <1>4. k \in 0..Len(all) /\ k < Len(all)
    BY <1>a
  <1>5. FileTypes'
    BY <1>3, <1>4, <1>a, OutType
  <1>6. SubSeq(all, k + 1, Len(all)) \in Seq(Rec)
    BY <1>4, <1>a, SubSeqProperties
  <1>7. (part # "none" \/ (k = 0 /\ w[s].begun)) \in BOOLEAN
    OBVIOUS
  <1>8. v \in Writer
    BY <1>6, <1>7, ClosedType DEF Writer
  <1>9. v.created = FALSE /\ v.state = "off"
    BY DEF Closed
  <1>10. w' = [w EXCEPT ![s] = v]
    BY <1>3
  <1> HIDE DEF v
  <1> QED BY <1>5, <1>8, <1>9, <1>10, WriterStep

LEMMA TypesStep ==
    ASSUME RTypeOK, [Next]_rvars
    PROVE  RTypeOK'
  <1>a. ASSUME NEW s \in Sessions
        PROVE  /\ w[s] \in Writer /\ w[s].buf \in Seq(Rec)
               /\ w[s].created => w[s].making \in Payloads
    BY DEF RTypeOK, WriterTypes, Writer
  <1>b. ASSUME UNCHANGED <<lines, cut>> PROVE FileTypes'
    BY <1>b DEF RTypeOK, FileTypes
  <1>1. ASSUME NEW s \in Sessions, Open(s) PROVE RTypeOK'
    <2> DEFINE v == CASE LastLine = None -> [Closed EXCEPT !.state = "open"]
                      [] LastLine = Torn -> [Closed EXCEPT !.state = "gone"]
                      [] OTHER -> [Closed EXCEPT !.state = "open", !.seq = LastLine.seq,
                                                 !.prev = Hash(LastLine)]
    <2>1. v \in Writer /\ v.created = FALSE /\ v.buf = <<>> /\ v.pending = 0
      <3>1. CASE LastLine = None
        <4>1. v = [Closed EXCEPT !.state = "open"]
          BY <3>1, ReceiptsAssumption
        <4> QED BY <4>1, ClosedType DEF Writer
      <3>2. CASE LastLine = Torn
        <4>1. v = [Closed EXCEPT !.state = "gone"]
          BY <3>2, ReceiptsAssumption
        <4> QED BY <4>1, ClosedType DEF Writer
      <3>3. CASE LastLine # None /\ LastLine # Torn
        <4>1. LastLine.seq \in Nat /\ Hash(LastLine) \in Seq(Entry)
          BY <3>3, LastLineType DEF Rec
        <4>2. v = [Closed EXCEPT !.state = "open", !.seq = LastLine.seq,
                                 !.prev = Hash(LastLine)]
          BY <3>3
        <4> QED BY <4>1, <4>2, ClosedType DEF Writer
      <3> QED BY <3>1, <3>2, <3>3
    <2>2. w' = [w EXCEPT ![s] = v]
      BY <1>1 DEF Open
    <2> HIDE DEF v
    <2>3. WriterTypes'
      <3>1. Len(v.buf) <= v.pending
        BY <2>1
      <3> QED BY <2>1, <2>2, <3>1, WriterStep
    <2>4. overlapped' \in BOOLEAN
      BY <1>1 DEF Open, RTypeOK
    <2> QED BY <1>1, <1>b, <2>3, <2>4 DEF Open, RTypeOK
  <1>2. ASSUME NEW s \in Sessions, NEW p \in Payloads, Decide(s, p) PROVE RTypeOK'
    <2> DEFINE v == [w[s] EXCEPT !.making = p]
    <2>1. w' = [w EXCEPT ![s] = v]
      BY <1>2 DEF Decide
    <2>2. /\ v \in Writer /\ v.making = p /\ v.state = w[s].state
          /\ v.buf = w[s].buf /\ v.pending = w[s].pending
      <3>1. p \in Payloads \cup {None}
        OBVIOUS
      <3> QED BY <1>a, <3>1 DEF Writer
    <2>p. p # None
      BY ReceiptsAssumption
    <2> HIDE DEF v
    <2>3. WriterTypes'
      BY <2>1, <2>2, <2>p, WriterStep DEF RTypeOK, WriterTypes
    <2> QED BY <1>2, <1>b, <2>3 DEF Decide, RTypeOK
  <1>3. ASSUME NEW s \in Sessions, NEW p \in Payloads, NEW end \in BOOLEAN, Write(s, p, end)
        PROVE  RTypeOK'
    <2>1. /\ sidecar' \in [Payloads -> {"absent", "torn", "whole"}] /\ spoilt' = spoilt
          /\ overlapped' = overlapped /\ w[s].state = "open"
      BY <1>3 DEF Write, RTypeOK
    <2>2. FileTypes' /\ WriterTypes' /\ failed' \in BOOLEAN
      <3>1. CASE UNCHANGED failed /\ \E spill \in BOOLEAN : Queue(s, p, end, spill)
        BY <2>1, <3>1, QueueTypes DEF RTypeOK
      <3>2. CASE QueueFails(s, p, end)
        <4>1. failed' = TRUE
          BY <3>2 DEF QueueFails
        <4> QED BY <3>2, <4>1, QueueFailsTypes
      <3> QED BY <1>3, <3>1, <3>2 DEF Write
    <2> QED BY <2>1, <2>2 DEF RTypeOK
  <1>4. ASSUME NEW s \in Sessions, Create(s) PROVE RTypeOK'
    <2> DEFINE v == [w[s] EXCEPT !.created = TRUE]
    <2>1. w' = [w EXCEPT ![s] = v] /\ w[s].making # None
      BY <1>4 DEF Create
    <2>2. /\ v \in Writer /\ v.making = w[s].making /\ v.state = w[s].state
          /\ v.buf = w[s].buf /\ v.pending = w[s].pending
      BY <1>a DEF Writer
    <2> HIDE DEF v
    <2>3. WriterTypes'
      BY <2>1, <2>2, WriterStep DEF RTypeOK, WriterTypes
    <2>4. sidecar' \in [Payloads -> {"absent", "torn", "whole"}]
      BY <1>4 DEF Create, RTypeOK
    <2> QED BY <1>4, <1>b, <2>3, <2>4 DEF Create, RTypeOK
  <1>5. ASSUME NEW s \in Sessions, PayloadFails(s) PROVE RTypeOK'
    <2> DEFINE v == [w[s] EXCEPT !.state = "off", !.making = None, !.created = FALSE]
    <2>1. w' = [w EXCEPT ![s] = v]
      BY <1>5 DEF PayloadFails, RTypeOK, WriterTypes
    <2>2. v \in Writer /\ v.created = FALSE /\ v.state = "off"
      <3>1. FALSE \in BOOLEAN /\ None \in Payloads \cup {None}
        OBVIOUS
      <3> QED BY <1>a, <3>1 DEF Writer
    <2> HIDE DEF v
    <2>3. WriterTypes'
      BY <2>1, <2>2, WriterStep
    <2>4. spoilt' \subseteq Payloads
      BY <1>5, <1>a DEF PayloadFails, RTypeOK
    <2> QED BY <1>5, <1>b, <2>3, <2>4 DEF PayloadFails, RTypeOK
  <1>6. ASSUME NEW s \in Sessions, w' = [w EXCEPT ![s] = Gone]
        PROVE  WriterTypes'
    <2>1. Gone \in Writer /\ Gone.created = FALSE /\ Gone.buf = <<>> /\ Gone.pending = 0
      BY ClosedType DEF Gone, Writer
    <2>2. Len(<<>>) <= 0
      OBVIOUS
    <2> QED BY <1>6, <2>1, <2>2, WriterStep
  <1>7. ASSUME NEW s \in Sessions, Close(s) PROVE RTypeOK'
    <2>1. FileTypes'
      <3>1. CASE AllOut(s, w[s].buf)
        BY <1>a, <3>1, OutType DEF AllOut
      <3>2. CASE \E k \in 0..(Len(w[s].buf) - 1), part \in {"none", "some", "all"} :
                    Out(s, w[s].buf, k, part)
        BY <1>a, <3>2, OutType
      <3> QED BY <1>7, <3>1, <3>2 DEF Close
    <2>3. failed' \in BOOLEAN
      BY <1>7 DEF Close, RTypeOK
    <2>2. WriterTypes'
      BY <1>6, <1>7 DEF Close
    <2> QED BY <1>7, <2>1, <2>2, <2>3 DEF Close, RTypeOK
  <1>8. ASSUME NEW s \in Sessions, Die(s) PROVE RTypeOK'
    <2>1. WriterTypes'
      BY <1>6, <1>8 DEF Die
    <2> QED BY <1>8, <1>a, <1>b, <2>1 DEF Die, RTypeOK
  <1>9. CASE UNCHANGED rvars
    BY <1>9 DEF rvars, RTypeOK, FileTypes, WriterTypes
  <1> QED
    BY <1>1, <1>2, <1>3, <1>4, <1>5, <1>7, <1>8, <1>9 DEF Next

LEMMA TypesInit ==
    ASSUME Init
    PROVE  RTypeOK /\ \A s \in Sessions : w[s] = Closed
  <1>1. \A s \in Sessions : w[s] = Closed
    BY DEF Init
  <1>2. WriterTypes
    <2>1. Len(<<>>) <= 0
      OBVIOUS
    <2> QED BY <1>1, <2>1, ClosedType DEF Init, WriterTypes
  <1>3. FileTypes
    BY DEF Init, FileTypes
  <1> QED BY <1>1, <1>2, <1>3 DEF Init, RTypeOK

\* The types of the receipts log, whatever overlaps and whatever fails.
THEOREM ReceiptsTypes == Spec => []RTypeOK
  BY TypesInit, TypesStep, PTL DEF Spec

-----------------------------------------------------------------------------
(***************************************************************************)
(* One chain.  With sessions one after the other and no failing write, the *)
(* file is a chain, and what a live session has buffered continues it up   *)
(* to the tip it holds.                                                    *)
(***************************************************************************)

Line == Rec \cup {Torn}

\* Queueing a line at the end of a session's part of the log queues it at the
\* end of the log.
LEMMA AppendInside ==
    ASSUME NEW l \in Seq(Line), NEW b \in Seq(Line), NEW x \in Line
    PROVE  Append(l \o b, x) = l \o Append(b, x)
  <1>1. l \o b \in Seq(Line) /\ <<x>> \in Seq(Line)
    BY ConcatProperties
  <1>2. Append(l \o b, x) = (l \o b) \o <<x>>
    BY <1>1, AppendIsConcat
  <1>3. Append(b, x) = b \o <<x>>
    BY AppendIsConcat
  <1>4. (l \o b) \o <<x>> = l \o (b \o <<x>>)
    BY <1>1, ConcatAssociative
  <1> QED BY <1>2, <1>3, <1>4

\* The hash that the next line has to link to.
Tip(d) == IF d = <<>> THEN <<>> ELSE Hash(d[Len(d)])

Holds(s) ==
    /\ IsChain(lines \o w[s].buf)
    /\ w[s].seq = Len(lines \o w[s].buf)
    /\ w[s].prev = Tip(lines \o w[s].buf)
    /\ w[s].begun = FALSE

Chained ==
    /\ cut = NoCut
    /\ IsChain(lines)
    /\ \A s, t \in Sessions : Live(s) /\ Live(t) => s = t
    /\ \A s \in Sessions : Live(s) => Holds(s)

ChainInv == RTypeOK /\ (~overlapped /\ ~failed => Chained)

\* A chain is extended by a record with its length and its tip.
LEMMA ExtendChain ==
    ASSUME NEW d \in Seq(Line), IsChain(d), NEW r \in Rec,
           r.seq = Len(d) + 1, r.prev = Tip(d)
    PROVE  IsChain(Append(d, r)) /\ Tip(Append(d, r)) = Hash(r)
  <1> DEFINE e == Append(d, r)
  <1>1. /\ Len(e) = Len(d) + 1 /\ e # <<>>
        /\ \A i \in 1..Len(d) : e[i] = d[i]
        /\ e[Len(d) + 1] = r
    OBVIOUS
  <1>2. ASSUME NEW i \in 1..Len(e) PROVE Linked(e, i)
    <2>1. CASE i \in 1..Len(d)
      <3>1. Linked(d, i) /\ e[i] = d[i]
        BY <2>1, <1>1 DEF IsChain
      <3>2. i # 1 => e[i - 1] = d[i - 1]
        BY <2>1, <1>1
      <3> QED BY <3>1, <3>2 DEF Linked
    <2>2. CASE i = Len(d) + 1
      <3>1. r # Torn
        BY ReceiptsAssumption
      <3>2. IF i = 1 THEN d = <<>> ELSE d # <<>> /\ e[i - 1] = d[Len(d)]
        BY <2>2, <1>1
      <3> QED BY <2>2, <1>1, <3>1, <3>2 DEF Linked, Tip
    <2> QED BY <1>1, <2>1, <2>2
  <1> QED BY <1>1, <1>2 DEF IsChain, Tip

\* What is on disk of a chain is one.
LEMMA ChainPrefix ==
    ASSUME NEW d \in Seq(Line), NEW b \in Seq(Line), IsChain(d \o b)
    PROVE  IsChain(d)
  <1>1. /\ Len(d \o b) = Len(d) + Len(b)
        /\ \A i \in 1..Len(d) : (d \o b)[i] = d[i]
    OBVIOUS
  <1>2. ASSUME NEW i \in 1..Len(d) PROVE Linked(d, i)
    <2>1. Linked(d \o b, i) /\ (d \o b)[i] = d[i]
      BY <1>1 DEF IsChain
    <2>2. i # 1 => (d \o b)[i - 1] = d[i - 1]
      BY <1>1
    <2> QED BY <2>1, <2>2 DEF Linked
  <1> QED BY <1>2 DEF IsChain

\* To a file that ends with a newline the lines go as they are.
LEMMA AllOutAppends ==
    ASSUME NEW s \in Sessions, NEW b \in Seq(Rec), cut = NoCut, w[s].begun = FALSE,
           AllOut(s, b)
    PROVE  lines' = lines \o b /\ cut' = NoCut
  <1>1. Clean(s)
    BY DEF Clean
  <1>2. [i \in 1..Len(b) |-> IF i = 1 /\ ~Clean(s) THEN Torn ELSE b[i]] = b
    BY <1>1
  <1> QED BY <1>2 DEF AllOut, Out

\* The three ways write() leaves its line: on disk, alone in the buffer after
\* the rest went out, or at the end of the buffer.
LEMMA QueueKeepsChain ==
    ASSUME RTypeOK, Chained, NEW s \in Sessions, NEW p \in Payloads, NEW end \in BOOLEAN,
           NEW spill \in BOOLEAN, w[s].state = "open", Queue(s, p, end, spill)
    PROVE  /\ cut' = NoCut /\ IsChain(lines')
           /\ Holds(s)'
           /\ \A t \in Sessions \ {s} : w'[t] = w[t]
  <1> DEFINE r == Record(s, p)
             b == w[s].buf
             all == Append(b, r)
  <1>1. /\ r \in Rec /\ r.seq = w[s].seq + 1 /\ r.prev = w[s].prev
        /\ b \in Seq(Rec) /\ lines \in Seq(Line) /\ w \in [Sessions -> Writer]
    BY RecordType DEF RTypeOK, FileTypes, WriterTypes, Writer, Record, Line
  <1>2. Live(s) /\ Holds(s)
    BY DEF Live, Chained
  <1>3. b \in Seq(Line) /\ <<r>> \in Seq(Line) /\ all \in Seq(Rec) /\ all \in Seq(Line)
    BY <1>1 DEF Line
  <1> DEFINE d == lines \o b
  <1>4. d \in Seq(Line) /\ IsChain(d) /\ w[s].seq = Len(d) /\ w[s].prev = Tip(d)
    BY <1>1, <1>2, <1>3, ConcatProperties DEF Holds
  <1> HIDE DEF r, d
  <1>5. /\ IsChain(Append(d, r)) /\ Tip(Append(d, r)) = Hash(r)
        /\ Len(Append(d, r)) = r.seq
    <2>1. r.seq = Len(d) + 1 /\ r.prev = Tip(d)
      BY <1>1, <1>4
    <2>2. IsChain(Append(d, r)) /\ Tip(Append(d, r)) = Hash(r)
      BY <1>1, <1>4, <2>1, ExtendChain
    <2> QED BY <1>4, <2>1, <2>2
  <1>6. Append(d, r) = lines \o all
    <2>1. r \in Line /\ b \in Seq(Line) /\ lines \in Seq(Line)
      BY <1>1, <1>3 DEF Line
    <2> HIDE DEF b
    <2>2. Append(lines \o b, r) = lines \o Append(b, r)
      BY <2>1, AppendInside
    <2> QED BY <2>2 DEF d
  <1>7. /\ w'[s].seq = r.seq /\ w'[s].prev = Hash(r) /\ w'[s].begun = FALSE
        /\ \A t \in Sessions \ {s} : w'[t] = w[t]
    BY <1>1 DEF Queue, Closed, r
  <1>8. /\ cut' = NoCut /\ lines' \o w'[s].buf = lines \o all
        /\ lines' \in Seq(Line) /\ w'[s].buf \in Seq(Line)
    <2> DEFINE due == end \/ w[s].pending + 1 >= FlushEvery
    <2>0. cut = NoCut /\ w[s].begun = FALSE
      BY <1>2 DEF Chained, Holds
    <2>1. CASE due
      <3>1. w'[s].buf = <<>> /\ AllOut(s, all)
        BY <2>1, <1>1 DEF Queue, Closed, r
      <3>2. lines' = lines \o all /\ cut' = NoCut
        BY <3>1, <2>0, <1>3, AllOutAppends
      <3> QED BY <3>1, <3>2, <1>1, <1>3, ConcatProperties
    <2>2. CASE ~due /\ spill
      <3>1. w'[s].buf = <<r>> /\ AllOut(s, b)
        BY <2>2, <1>1 DEF Queue, Closed, r
      <3>2. lines' = lines \o b /\ cut' = NoCut
        BY <3>1, <2>0, <1>1, AllOutAppends
      <3>3. (lines \o b) \o <<r>> = lines \o all
        <4>1. (lines \o b) \o <<r>> = Append(d, r)
          BY <1>1, <1>4, AppendIsConcat DEF d, Line
        <4> QED BY <4>1, <1>6
      <3> QED BY <3>1, <3>2, <3>3, <1>1, <1>3, ConcatProperties
    <2>3. CASE ~due /\ ~spill
      <3>1. w'[s].buf = all /\ lines' = lines /\ cut' = cut
        BY <2>3, <1>1 DEF Queue, Closed, r
      <3> QED BY <3>1, <2>0, <1>1, <1>3
    <2> QED BY <2>1, <2>2, <2>3
  <1>9. IsChain(lines')
    BY <1>5, <1>6, <1>8, ChainPrefix
  <1>10. Holds(s)'
    BY <1>5, <1>6, <1>7, <1>8 DEF Holds
  <1> QED BY <1>7, <1>8, <1>9, <1>10

LEMMA ChainStep ==
    ASSUME RTypeOK, Chained, [Next]_rvars, ~overlapped', ~failed'
    PROVE  Chained'
  <1>a. /\ lines \in Seq(Line) /\ w \in [Sessions -> Writer]
        /\ \A s \in Sessions : w[s].buf \in Seq(Rec) /\ w[s].buf \in Seq(Line)
    BY DEF RTypeOK, FileTypes, WriterTypes, Writer, Line
  <1>1. ASSUME NEW s \in Sessions, Open(s) PROVE Chained'
    <2>1. \A t \in Sessions : ~Live(t)
      BY <1>1 DEF Open
    <2>2. lines' = lines /\ cut' = cut /\ cut = NoCut
      BY <1>1 DEF Open, Chained
    <2>3. w'[s].state = "open" => Holds(s)'
      <3> SUFFICES ASSUME w'[s].state = "open" PROVE Holds(s)'
        OBVIOUS
      <3>1. w'[s].buf = <<>> /\ w'[s].begun = FALSE
        BY <1>1, <1>a DEF Open, Closed
      <3>2. lines' \o w'[s].buf = lines
        BY <2>2, <3>1, <1>a
      <3>3. w'[s].seq = Len(lines) /\ w'[s].prev = Tip(lines)
        <4>1. CASE lines = <<>>
          BY <4>1, <1>1, <1>a, <2>2 DEF Open, Closed, LastLine, Tip
        <4>2. CASE lines # <<>>
          <5>1. Len(lines) \in 1..Len(lines) /\ LastLine = lines[Len(lines)]
            BY <4>2, <1>a, <2>2 DEF LastLine
          <5>2. LastLine # Torn /\ LastLine.seq = Len(lines)
            BY <5>1 DEF Chained, IsChain, Linked
          <5>3. LastLine # None
            BY <5>1, <5>2, <1>a, ReceiptsAssumption DEF Line
          <5> QED BY <1>1, <1>a, <4>2, <5>1, <5>2, <5>3 DEF Open, Closed, Tip
        <4> QED BY <4>1, <4>2
      <3> QED BY <3>1, <3>2, <3>3 DEF Holds, Chained
    <2>4. w'[s].state \in {"open", "gone"}
      BY <1>1, <1>a DEF Open, Closed
    <2>5. \A t \in Sessions \ {s} : w'[t] = w[t]
      BY <1>1, <1>a DEF Open
    <2> QED BY <2>1, <2>2, <2>3, <2>4, <2>5 DEF Chained, Live
  <1>2. ASSUME NEW s \in Sessions, NEW p \in Payloads, NEW end \in BOOLEAN, Write(s, p, end)
        PROVE  Chained'
    <2>1. PICK spill \in BOOLEAN : Queue(s, p, end, spill)
      BY <1>2 DEF Write, QueueFails
    <2>2. w[s].state = "open"
      BY <1>2 DEF Write
    <2>3. /\ cut' = NoCut /\ IsChain(lines') /\ Holds(s)'
          /\ \A t \in Sessions \ {s} : w'[t] = w[t]
      BY <2>1, <2>2, QueueKeepsChain
    <2>4. \A t \in Sessions : Live(t)' => t = s
      BY <2>2, <2>3 DEF Live, Chained
    <2> QED BY <2>3, <2>4 DEF Chained
  <1>3. ASSUME NEW s \in Sessions,
               w' = [w EXCEPT ![s] = Gone], IsChain(lines'), cut' = NoCut,
               Live(s)
        PROVE  Chained'
    <2>1. ~Live(s)' /\ \A t \in Sessions \ {s} : w'[t] = w[t]
      BY <1>3, <1>a DEF Live, Gone, Closed
    <2>2. \A t \in Sessions : ~Live(t)'
      BY <1>3, <2>1 DEF Live, Chained
    <2> QED BY <1>3, <2>2 DEF Chained
  <1>4. ASSUME NEW s \in Sessions, Close(s) PROVE Chained'
    <2>1. Live(s) /\ Holds(s) /\ cut = NoCut
      BY <1>4 DEF Close, Live, Chained
    <2>2. AllOut(s, w[s].buf)
      BY <1>4 DEF Close
    <2>3. lines' = lines \o w[s].buf /\ cut' = NoCut
      BY <1>a, <2>1, <2>2, AllOutAppends DEF Holds
    <2>4. IsChain(lines')
      BY <2>1, <2>3 DEF Holds
    <2> QED BY <1>3, <1>4, <2>1, <2>3, <2>4 DEF Close
  <1>5. ASSUME NEW s \in Sessions, Die(s) PROVE Chained'
    BY <1>3, <1>5 DEF Die, Chained
  <1>6. ASSUME NEW s \in Sessions, UNCHANGED <<lines, cut>>,
               \A t \in Sessions : /\ w'[t].state = w[t].state /\ w'[t].buf = w[t].buf
                                  /\ w'[t].seq = w[t].seq /\ w'[t].prev = w[t].prev
                                  /\ w'[t].begun = w[t].begun
        PROVE  Chained'
    BY <1>6 DEF Chained, Live, Holds
  <1>7. ASSUME NEW s \in Sessions, NEW p \in Payloads, Decide(s, p) PROVE Chained'
    BY <1>6, <1>7, <1>a DEF Decide, Writer
  <1>8. ASSUME NEW s \in Sessions, Create(s) PROVE Chained'
    BY <1>6, <1>8, <1>a DEF Create, Writer
  <1>9. ASSUME NEW s \in Sessions, PayloadFails(s) PROVE Chained'
    BY <1>9 DEF PayloadFails
  <1>10. CASE UNCHANGED rvars
    BY <1>10 DEF rvars, Chained, Live, Holds
  <1> QED
    BY <1>1, <1>2, <1>4, <1>5, <1>7, <1>8, <1>9, <1>10 DEF Next

\* What has overlapped or failed stays so.
LEMMA GhostsStay ==
    ASSUME [Next]_rvars
    PROVE  (overlapped => overlapped') /\ (failed => failed')
  <1>1. ASSUME NEW s \in Sessions, Open(s) PROVE (overlapped => overlapped') /\ failed' = failed
    BY <1>1 DEF Open
  <1>2. ASSUME NEW s \in Sessions, NEW p \in Payloads, NEW end \in BOOLEAN, Write(s, p, end)
        PROVE  overlapped' = overlapped /\ (failed' = failed \/ failed' = TRUE)
    BY <1>2 DEF Write, QueueFails
  <1>3. ASSUME NEW s \in Sessions, Create(s) \/ PayloadFails(s) \/ Close(s) \/ Die(s)
        PROVE  overlapped' = overlapped /\ (failed' = failed \/ failed' = TRUE)
    BY <1>3 DEF Create, PayloadFails, Close, Die
  <1>4. ASSUME NEW s \in Sessions, NEW p \in Payloads, Decide(s, p)
        PROVE  overlapped' = overlapped /\ failed' = failed
    BY <1>4 DEF Decide
  <1>5. CASE UNCHANGED rvars
    BY <1>5 DEF rvars
  <1> QED BY <1>1, <1>2, <1>3, <1>4, <1>5 DEF Next

\* Sessions that follow one another, with a disk that takes their writes, keep
\* one unbroken chain in the file, wherever each of them is killed.
THEOREM OneChainHolds == Spec => []OneChain
  <1>1. Init => ChainInv
    <2> SUFFICES ASSUME Init PROVE ChainInv
      OBVIOUS
    <2>1. RTypeOK /\ \A s \in Sessions : w[s] = Closed
      BY TypesInit
    <2>2. Closed.state = "new"
      BY DEF Closed
    <2>3. \A s \in Sessions : ~Live(s)
      BY <2>1, <2>2 DEF Live
    <2> QED BY <2>1, <2>3 DEF Init, ChainInv, Chained, IsChain
  <1>2. ChainInv /\ [Next]_rvars => ChainInv'
    <2> SUFFICES ASSUME ChainInv, [Next]_rvars PROVE ChainInv'
      OBVIOUS
    <2> QED BY GhostsStay, TypesStep, ChainStep DEF ChainInv
  <1>3. ChainInv => OneChain
    BY DEF ChainInv, Chained, OneChain
  <1> QED
    BY <1>1, <1>2, <1>3, PTL DEF Spec

-----------------------------------------------------------------------------
(***************************************************************************)
(* The promise.  As long as writes succeed the file holds whole records    *)
(* only, whoever writes them, and each step of a session is one of         *)
(* AuditLog's: Write and Close advance, Open and Die lose the queue.       *)
(***************************************************************************)

Whole ==
    /\ cut = NoCut /\ lines \in Seq(Rec)
    /\ \A s \in Sessions : w[s].begun = FALSE

WholeInv == RTypeOK /\ (~failed => Whole)

LEMMA PayloadsOfType ==
    ASSUME NEW d \in Seq(Rec)
    PROVE  /\ PayloadsOf(d) \in Seq(Payloads) /\ Len(PayloadsOf(d)) = Len(d)
           /\ \A i \in 1..Len(d) : PayloadsOf(d)[i] = d[i].payload
  <1> DEFINE f == [i \in 1..Len(d) |-> IF d[i] = Torn THEN Torn ELSE d[i].payload]
  <1>1. Len(d) \in Nat /\ \A i \in 1..Len(d) : d[i] \in Rec
    OBVIOUS
  <1>2. \A i \in 1..Len(d) : f[i] = d[i].payload
    BY <1>1, ReceiptsAssumption
  <1>3. \A i \in 1..Len(d) : f[i] \in Payloads
    BY <1>1, <1>2 DEF Rec
  <1>4. f = [i \in 1..Len(d) |-> f[i]]
    OBVIOUS
  <1>5. PayloadsOf(d) = f
    BY DEF PayloadsOf
  <1> HIDE DEF f
  <1>6. f \in Seq(Payloads) /\ Len(f) = Len(d)
    BY <1>1, <1>3, <1>4
  <1> QED BY <1>2, <1>5, <1>6

LEMMA PayloadsOfOne ==
    ASSUME NEW r \in Rec
    PROVE  PayloadsOf(<<r>>) = <<r.payload>>
  BY ReceiptsAssumption DEF PayloadsOf

LEMMA PayloadsOfConcat ==
    ASSUME NEW d \in Seq(Rec), NEW e \in Seq(Rec)
    PROVE  PayloadsOf(d \o e) = PayloadsOf(d) \o PayloadsOf(e)
  <1>1. /\ d \o e \in Seq(Rec) /\ Len(d \o e) = Len(d) + Len(e)
        /\ \A i \in 1..Len(d \o e) :
              (d \o e)[i] = IF i <= Len(d) THEN d[i] ELSE e[i - Len(d)]
    OBVIOUS
  <1>2. /\ PayloadsOf(d) \in Seq(Payloads) /\ PayloadsOf(e) \in Seq(Payloads)
        /\ Len(PayloadsOf(d)) = Len(d) /\ Len(PayloadsOf(e)) = Len(e)
        /\ \A i \in 1..Len(d) : PayloadsOf(d)[i] = d[i].payload
        /\ \A i \in 1..Len(e) : PayloadsOf(e)[i] = e[i].payload
    BY PayloadsOfType
  <1> DEFINE one == PayloadsOf(d \o e)
             two == PayloadsOf(d) \o PayloadsOf(e)
  <1>3. /\ one \in Seq(Payloads) /\ Len(one) = Len(d) + Len(e)
        /\ \A i \in 1..Len(one) : one[i] = (d \o e)[i].payload
    BY <1>1, PayloadsOfType
  <1>4. /\ two \in Seq(Payloads) /\ Len(two) = Len(d) + Len(e)
        /\ \A i \in 1..Len(two) :
              two[i] = IF i <= Len(d) THEN d[i].payload ELSE e[i - Len(d)].payload
    <2> DEFINE P == PayloadsOf(d)
               Q == PayloadsOf(e)
    <2>1. /\ P \in Seq(Payloads) /\ Q \in Seq(Payloads)
          /\ Len(P) = Len(d) /\ Len(Q) = Len(e)
      BY <1>2
    <2>2. Len(d) \in Nat /\ Len(e) \in Nat
      OBVIOUS
    <2> HIDE DEF P, Q
    <2>3. /\ P \o Q \in Seq(Payloads) /\ Len(P \o Q) = Len(P) + Len(Q)
          /\ \A i \in 1..Len(P) + Len(Q) :
                (P \o Q)[i] = IF i <= Len(P) THEN P[i] ELSE Q[i - Len(P)]
      BY <2>1, ConcatProperties
    <2>4. ASSUME NEW i \in 1..Len(P \o Q)
          PROVE  (P \o Q)[i] = IF i <= Len(d) THEN d[i].payload ELSE e[i - Len(d)].payload
      <3>1. (P \o Q)[i] = IF i <= Len(d) THEN P[i] ELSE Q[i - Len(d)]
        BY <2>1, <2>3
      <3>2. \A j \in 1..Len(d) : P[j] = d[j].payload
        BY <1>2 DEF P
      <3>3. \A j \in 1..Len(e) : Q[j] = e[j].payload
        BY <1>2 DEF Q
      <3>4. i \in Nat /\ i >= 1 /\ i <= Len(d) + Len(e)
        BY <2>1, <2>2, <2>3
      <3> QED BY <2>2, <3>1, <3>2, <3>3, <3>4
    <2> QED BY <2>1, <2>3, <2>4 DEF P, Q
  <1>5. \A i \in 1..Len(one) : one[i] = two[i]
    BY <1>1, <1>3, <1>4
  <1> HIDE DEF one, two
  <1>6. one = two
    BY <1>3, <1>4, <1>5, SeqEqual
  <1> QED BY <1>6 DEF one, two

LEMMA PayloadsOfAppend ==
    ASSUME NEW d \in Seq(Rec), NEW r \in Rec
    PROVE  PayloadsOf(Append(d, r)) = PayloadsOf(d) \o <<r.payload>>
  <1>1. <<r>> \in Seq(Rec) /\ Append(d, r) = d \o <<r>>
    BY AppendIsConcat
  <1>2. PayloadsOf(<<r>>) = <<r.payload>>
    BY PayloadsOfOne
  <1> QED BY <1>1, <1>2, PayloadsOfConcat

\* A buffer and the line queued after it, split at either end and before r.
LEMMA SplitAppend ==
    ASSUME NEW S, NEW b \in Seq(S), NEW r \in S
    PROVE  LET all == Append(b, r)
           IN  /\ all \in Seq(S) /\ Len(all) = Len(b) + 1 /\ Len(b) \in Nat
               /\ SubSeq(all, 1, Len(all)) = all
               /\ SubSeq(all, Len(all) + 1, Len(all)) = <<>>
               /\ SubSeq(all, 1, Len(b)) = b
               /\ SubSeq(all, Len(b) + 1, Len(all)) = <<r>>
               /\ SubSeq(all, 1, 0) = <<>>
  <1> DEFINE all == Append(b, r)
  <1>1. /\ all \in Seq(S) /\ Len(all) = Len(b) + 1 /\ Len(b) \in Nat
        /\ all[Len(b) + 1] = r /\ \A i \in 1..Len(b) : all[i] = b[i]
    OBVIOUS
  <1> HIDE DEF all
  <1>2. SubSeq(all, 1, Len(all)) = all
    BY <1>1, SubSeqFull
  <1>3. SubSeq(all, Len(all) + 1, Len(all)) = <<>> /\ SubSeq(all, 1, 0) = <<>>
    BY <1>1, SubSeqEmpty
  <1>4. SubSeq(all, 1, Len(b)) = b
    <2>1. /\ SubSeq(all, 1, Len(b)) \in Seq(S) /\ Len(SubSeq(all, 1, Len(b))) = Len(b)
          /\ \A i \in 1..Len(b) : SubSeq(all, 1, Len(b))[i] = all[i]
      BY <1>1, SubSeqProperties
    <2> QED BY <1>1, <2>1, SeqEqual
  <1>5. SubSeq(all, Len(b) + 1, Len(all)) = <<r>>
    <2>1. /\ SubSeq(all, Len(b) + 1, Len(all)) \in Seq(S)
          /\ Len(SubSeq(all, Len(b) + 1, Len(all))) = 1
          /\ SubSeq(all, Len(b) + 1, Len(all))[1] = r
      BY <1>1, SubSeqProperties
    <2>2. <<r>> \in Seq(S) /\ Len(<<r>>) = 1 /\ <<r>>[1] = r
      OBVIOUS
    <2> DEFINE x == SubSeq(all, Len(b) + 1, Len(all))
    <2>3. /\ x \in Seq(S) /\ Len(x) = Len(<<r>>)
          /\ \A i \in 1..Len(x) : x[i] = <<r>>[i]
      BY <2>1, <2>2
    <2> HIDE DEF x
    <2>4. x = <<r>>
      BY <2>2, <2>3, SeqEqual
    <2> QED BY <2>4 DEF x
  <1> QED BY <1>1, <1>2, <1>3, <1>4, <1>5 DEF all

\* The steps of one session s: what the log gains, and its queue.
LEMMA WholeQueue ==
    ASSUME RTypeOK, Whole, NEW s \in Sessions, NEW p \in Payloads, NEW end \in BOOLEAN,
           NEW spill \in BOOLEAN, w[s].state = "open", Queue(s, p, end, spill)
    PROVE  /\ cut' = NoCut /\ lines' \in Seq(Rec) /\ w'[s].begun = FALSE
           /\ \A t \in Sessions \ {s} : w'[t] = w[t]
           /\ LET all == Append(w[s].buf, Record(s, p))
              IN  \E k \in 0..Len(all) : /\ lines' = lines \o SubSeq(all, 1, k)
                                         /\ w'[s].buf = SubSeq(all, k + 1, Len(all))
  <1> DEFINE r == Record(s, p)
             b == w[s].buf
             all == Append(b, r)
             due == end \/ w[s].pending + 1 >= FlushEvery
  <1>1. /\ r \in Rec /\ b \in Seq(Rec) /\ w \in [Sessions -> Writer]
        /\ cut = NoCut /\ w[s].begun = FALSE /\ lines \in Seq(Rec)
    BY RecordType DEF Whole, RTypeOK, WriterTypes, Writer
  <1> HIDE DEF r
  <1>2. /\ all \in Seq(Rec) /\ Len(all) = Len(b) + 1 /\ Len(b) \in Nat
        /\ SubSeq(all, 1, Len(all)) = all /\ SubSeq(all, Len(all) + 1, Len(all)) = <<>>
        /\ SubSeq(all, 1, Len(b)) = b /\ SubSeq(all, Len(b) + 1, Len(all)) = <<r>>
        /\ SubSeq(all, 1, 0) = <<>>
    BY <1>1, SplitAppend
  <1>3. w'[s].begun = FALSE /\ \A t \in Sessions \ {s} : w'[t] = w[t]
    BY <1>1 DEF Queue, Closed, r
  <1>4. CASE due
    <2>1. w'[s].buf = <<>> /\ AllOut(s, all)
      BY <1>4, <1>1 DEF Queue, Closed, r
    <2>2. lines' = lines \o all /\ cut' = NoCut
      BY <2>1, <1>1, <1>2, AllOutAppends
    <2>3. Len(all) \in 0..Len(all)
      BY <1>2
    <2>4. lines' \in Seq(Rec)
      BY <2>2, <1>1, <1>2, ConcatProperties
    <2> HIDE DEF all
    <2> QED BY <2>1, <2>2, <2>3, <2>4, <1>2, <1>3 DEF all, r
  <1>5. CASE ~due /\ spill
    <2>1. w'[s].buf = <<r>> /\ AllOut(s, b)
      BY <1>5, <1>1 DEF Queue, Closed, r
    <2>2. lines' = lines \o b /\ cut' = NoCut
      BY <2>1, <1>1, AllOutAppends
    <2>3. Len(b) \in 0..Len(all)
      BY <1>2
    <2>4. lines' \in Seq(Rec)
      BY <2>2, <1>1, ConcatProperties
    <2> HIDE DEF all
    <2> QED BY <2>1, <2>2, <2>3, <2>4, <1>2, <1>3 DEF all, r
  <1>6. CASE ~due /\ ~spill
    <2>1. w'[s].buf = all /\ lines' = lines /\ cut' = cut
      BY <1>6, <1>1 DEF Queue, Closed, r
    <2>2. lines \o <<>> = lines /\ SubSeq(all, 0 + 1, Len(all)) = all
      BY <1>1, <1>2
    <2>3. 0 \in 0..Len(all)
      BY <1>2
    <2> HIDE DEF all
    <2> QED BY <2>1, <2>2, <2>3, <1>1, <1>2, <1>3 DEF all, r
  <1> QED BY <1>4, <1>5, <1>6

LEMMA PayloadsOfSubSeq ==
    ASSUME NEW d \in Seq(Rec), NEW m \in 1..(Len(d) + 1), NEW n \in 0..Len(d)
    PROVE  PayloadsOf(SubSeq(d, m, n)) = SubSeq(PayloadsOf(d), m, n)
  <1> DEFINE P == PayloadsOf(d)
             sub == SubSeq(d, m, n)
             one == PayloadsOf(sub)
             two == SubSeq(P, m, n)
  <1>1. /\ P \in Seq(Payloads) /\ Len(P) = Len(d)
        /\ \A i \in 1..Len(d) : P[i] = d[i].payload
    BY PayloadsOfType
  <1>2. Len(d) \in Nat /\ m \in Int /\ n \in Int /\ \A i \in m..n : i \in 1..Len(d)
    OBVIOUS
  <1>3. /\ sub \in Seq(Rec) /\ Len(sub) = IF m <= n THEN n - m + 1 ELSE 0
        /\ \A i \in 1..(n - m + 1) : sub[i] = d[m + i - 1]
    <2>1. \A i \in m..n : d[i] \in Rec
      BY <1>2
    <2> QED BY <1>2, <2>1, SubSeqProperties
  <1> HIDE DEF P
  <1>4. /\ two \in Seq(Payloads) /\ Len(two) = IF m <= n THEN n - m + 1 ELSE 0
        /\ \A i \in 1..(n - m + 1) : two[i] = P[m + i - 1]
    <2>1. \A i \in m..n : P[i] \in Payloads
      BY <1>1, <1>2
    <2> QED BY <1>2, <2>1, SubSeqProperties
  <1> HIDE DEF sub, two
  <1>5. /\ one \in Seq(Payloads) /\ Len(one) = Len(sub)
        /\ \A i \in 1..Len(sub) : one[i] = sub[i].payload
    BY <1>3, PayloadsOfType
  <1>6. ASSUME NEW i \in 1..Len(one) PROVE one[i] = two[i]
    <2>1. i \in 1..Len(sub) /\ i \in 1..(n - m + 1) /\ m + i - 1 \in 1..Len(d)
      BY <1>2, <1>3, <1>5
    <2>2. one[i] = d[m + i - 1].payload
      BY <1>3, <1>5, <2>1
    <2>3. two[i] = d[m + i - 1].payload
      BY <1>1, <1>4, <2>1
    <2> QED BY <2>2, <2>3
  <1> HIDE DEF one
  <1>7. one = two
    BY <1>3, <1>4, <1>5, <1>6, SeqEqual
  <1> QED BY <1>7 DEF one, two, sub, P

\* A step that moves the first k of s's lines to the file is an Advance.
LEMMA AdvanceStep ==
    ASSUME RTypeOK, Whole, NEW s \in Sessions, NEW x \in Seq(Rec),
           NEW k \in 0..Len(w[s].buf \o x),
           lines' = lines \o SubSeq(w[s].buf \o x, 1, k),
           w'[s].buf = SubSeq(w[s].buf \o x, k + 1, Len(w[s].buf \o x)),
           Len(w'[s].buf) < FlushEvery, failed' = failed,
           \A t \in Sessions \ {s} : w'[t] = w[t]
    PROVE  Promise!Advance(s, PayloadsOf(x), k)
  <1> DEFINE b == w[s].buf
             all == b \o x
             log == PayloadsOf(lines)
             queue == [t \in Sessions |-> PayloadsOf(w[t].buf)]
  <1>1. b \in Seq(Rec) /\ lines \in Seq(Rec)
    BY DEF Whole, RTypeOK, WriterTypes, Writer
  <1>2. all \in Seq(Rec) /\ Len(all) \in Nat
    BY <1>1, ConcatProperties
  <1>3. PayloadsOf(all) = queue[s] \o PayloadsOf(x)
    BY <1>1, PayloadsOfConcat
  <1>4. PayloadsOf(all) \in Seq(Payloads) /\ Len(PayloadsOf(all)) = Len(all)
    BY <1>2, PayloadsOfType
  <1> HIDE DEF b, all
  <1>a. k \in 0..Len(all)
    BY DEF all, b
  <1>b. /\ 1 \in 1..(Len(all) + 1) /\ k + 1 \in 1..(Len(all) + 1)
        /\ Len(all) \in 0..Len(all)
    BY <1>2, <1>a, SMTT(30)
  <1>5. log' = log \o SubSeq(PayloadsOf(all), 1, k)
    <2>1. SubSeq(all, 1, k) \in Seq(Rec)
      BY <1>2, <1>a, SubSeqProperties
    <2>2. PayloadsOf(SubSeq(all, 1, k)) = SubSeq(PayloadsOf(all), 1, k)
      BY <1>2, <1>a, <1>b, PayloadsOfSubSeq
    <2>3. lines' = lines \o SubSeq(all, 1, k)
      BY DEF all, b
    <2> QED BY <1>1, <2>1, <2>2, <2>3, PayloadsOfConcat
  <1>6. PayloadsOf(w'[s].buf) = SubSeq(PayloadsOf(all), k + 1, Len(PayloadsOf(all)))
    <2>1. w'[s].buf = SubSeq(all, k + 1, Len(all))
      BY DEF all, b
    <2>2. PayloadsOf(SubSeq(all, k + 1, Len(all))) = SubSeq(PayloadsOf(all), k + 1, Len(all))
      BY <1>2, <1>a, <1>b, PayloadsOfSubSeq
    <2> QED BY <1>4, <2>1, <2>2
  <1>7. queue' = [queue EXCEPT ![s] = PayloadsOf(w'[s].buf)]
    OBVIOUS
  <1>8. Len(queue'[s]) < FlushEvery
    <2>1. w'[s].buf \in Seq(Rec)
      BY <1>2, <1>a, SubSeqProperties, SMTT(30) DEF all, b
    <2> QED BY <2>1, PayloadsOfType
  <1> QED BY <1>3, <1>5, <1>6, <1>7, <1>8 DEF Promise!Advance

\* A step that empties s's buffer and leaves the file alone is a Lose.
LEMMA LoseStep ==
    ASSUME NEW s \in Sessions, lines' = lines, failed' = failed, w'[s].buf = <<>>,
           \A t \in Sessions \ {s} : w'[t] = w[t]
    PROVE  Promise!Lose(s)
  <1>1. PayloadsOf(<<>>) = <<>>
    BY DEF PayloadsOf
  <1>2. PayloadsOf(lines)' = PayloadsOf(lines)
    OBVIOUS
  <1>3. [t \in Sessions |-> PayloadsOf(w[t].buf)]'
          = [[t \in Sessions |-> PayloadsOf(w[t].buf)] EXCEPT ![s] = <<>>]
    BY <1>1
  <1> QED BY <1>2, <1>3 DEF Promise!Lose

LEMMA PromiseStep ==
    ASSUME RTypeOK, Whole, [Next]_rvars, failed = FALSE, failed' = FALSE
    PROVE  Whole' /\ [Promise!Next]_(Promise!logVars)
  <1> DEFINE Goal == Whole' /\ [Promise!Next]_(Promise!logVars)
  <1>0. RTypeOK'
    BY TypesStep
  <1>a. /\ cut = NoCut /\ lines \in Seq(Rec) /\ w \in [Sessions -> Writer]
        /\ \A s \in Sessions : w[s].buf \in Seq(Rec) /\ w[s].begun = FALSE
    BY DEF Whole, RTypeOK, WriterTypes, Writer
  <1>1. ASSUME NEW s \in Sessions, lines' = lines, cut' = cut, w'[s].buf = <<>>,
               w'[s].begun = FALSE, \A t \in Sessions \ {s} : w'[t] = w[t]
        PROVE  Goal
    <2>1. Whole'
      BY <1>0, <1>1, <1>a DEF Whole
    <2>2. Promise!Lose(s)
      BY <1>1, LoseStep
    <2> QED BY <2>1, <2>2 DEF Promise!Next
  <1>2. ASSUME NEW s \in Sessions, Open(s) PROVE Goal
    BY <1>1, <1>2, <1>a DEF Open, Closed
  <1>3. ASSUME NEW s \in Sessions, Die(s) PROVE Goal
    BY <1>1, <1>3, <1>a DEF Die, Gone, Closed
  <1>4. ASSUME NEW s \in Sessions, NEW p \in Payloads, NEW end \in BOOLEAN, Write(s, p, end)
        PROVE  Goal
    <2> DEFINE r == Record(s, p)
               all == Append(w[s].buf, r)
    <2>1. PICK spill \in BOOLEAN : Queue(s, p, end, spill)
      BY <1>4 DEF Write, QueueFails
    <2>2. w[s].state = "open"
      BY <1>4 DEF Write
    <2>3. r \in Rec /\ r.payload = p
      BY RecordType DEF Whole, Record
    <2> HIDE DEF r
    <2>4. all \in Seq(Rec) /\ all = w[s].buf \o <<r>> /\ <<r>> \in Seq(Rec)
      BY <1>a, <2>3, AppendIsConcat
    <2>5. /\ cut' = NoCut /\ lines' \in Seq(Rec) /\ w'[s].begun = FALSE
          /\ \A t \in Sessions \ {s} : w'[t] = w[t]
          /\ \E k \in 0..Len(all) : /\ lines' = lines \o SubSeq(all, 1, k)
                                    /\ w'[s].buf = SubSeq(all, k + 1, Len(all))
      BY <2>1, <2>2, WholeQueue DEF r
    <2>6. Whole'
      BY <1>0, <1>a, <2>5 DEF Whole
    <2>7. Len(w'[s].buf) < FlushEvery
      <3>1. w'[s] \in Writer /\ (w'[s].state # "off" => Len(w'[s].buf) <= w'[s].pending)
        BY <1>0 DEF RTypeOK, WriterTypes
      <3>2. w'[s].pending \in 0..(FlushEvery - 1) /\ Len(w'[s].buf) \in Nat
        BY <3>1 DEF Writer
      <3>3. w'[s].state # "off"
        BY <1>a, <2>1 DEF Queue, Closed
      <3> QED BY <3>1, <3>2, <3>3, ReceiptsAssumption
    <2>8. PayloadsOf(<<r>>) = <<p>>
      BY <2>3, PayloadsOfOne
    <2> HIDE DEF all
    <2>9. PICK k \in 0..Len(all) : /\ lines' = lines \o SubSeq(all, 1, k)
                                  /\ w'[s].buf = SubSeq(all, k + 1, Len(all))
      BY <2>5
    <2>10. Promise!Advance(s, <<p>>, k)
      BY <2>4, <2>5, <2>7, <2>8, <2>9, AdvanceStep
    <2>11. Len(all) = Len(PayloadsOf(w[s].buf) \o <<p>>)
      <3>1. PayloadsOf(all) = PayloadsOf(w[s].buf) \o <<p>>
        BY <1>a, <2>4, <2>8, PayloadsOfConcat, ZenonT(40)
      <3> QED BY <2>4, <3>1, PayloadsOfType
    <2> QED BY <2>6, <2>9, <2>10, <2>11 DEF Promise!Next
  <1>5. ASSUME NEW s \in Sessions, Close(s) PROVE Goal
    <2> DEFINE b == w[s].buf
    <2>1. AllOut(s, b) /\ w' = [w EXCEPT ![s] = Gone]
      BY <1>5 DEF Close
    <2>2. lines' = lines \o b /\ cut' = NoCut
      BY <1>a, <2>1, AllOutAppends
    <2>3. /\ w'[s].buf = <<>> /\ w'[s].begun = FALSE
          /\ \A t \in Sessions \ {s} : w'[t] = w[t]
      BY <1>a, <2>1 DEF Gone, Closed
    <2>4. b \in Seq(Rec) /\ lines' \in Seq(Rec)
      BY <1>a, <2>2, ConcatProperties
    <2>5. Whole'
      BY <1>0, <1>a, <2>2, <2>3, <2>4 DEF Whole
    <2> HIDE DEF b
    <2>6. /\ Len(b) \in Nat /\ b \o <<>> = b
          /\ SubSeq(b, 1, Len(b)) = b /\ SubSeq(b, Len(b) + 1, Len(b)) = <<>>
      BY <2>4, SubSeqFull, SubSeqEmpty, ConcatEmptySeq
    <2>7. Promise!Advance(s, PayloadsOf(<<>>), Len(b))
      <3>1. <<>> \in Seq(Rec) /\ Len(b) \in 0..Len(b) /\ Len(<<>>) < FlushEvery
        BY <2>6, ReceiptsAssumption
      <3> QED BY <2>2, <2>3, <2>6, <3>1, AdvanceStep DEF b
    <2>8. PayloadsOf(<<>>) = <<>> /\ PayloadsOf(b) \o <<>> = PayloadsOf(b)
          /\ Len(PayloadsOf(b)) = Len(b)
      <3>1. PayloadsOf(b) \in Seq(Payloads) /\ Len(PayloadsOf(b)) = Len(b)
        BY <2>4, PayloadsOfType
      <3>2. PayloadsOf(<<>>) = <<>>
        BY DEF PayloadsOf
      <3> QED BY <3>1, <3>2, ConcatEmptySeq
    <2>9. Len(b) \in 0..Len(PayloadsOf(b) \o <<>>)
      BY <2>6, <2>8
    <2> QED BY <2>5, <2>7, <2>8, <2>9 DEF Promise!Next, b
  <1>6. ASSUME UNCHANGED <<lines, cut>>,
               \A t \in Sessions : w'[t].buf = w[t].buf /\ w'[t].begun = w[t].begun
        PROVE  Goal
    <2>1. Whole'
      BY <1>0, <1>6 DEF Whole
    <2>2. [t \in Sessions |-> PayloadsOf(w[t].buf)]' = [t \in Sessions |-> PayloadsOf(w[t].buf)]
      BY <1>6
    <2>3. PayloadsOf(lines)' = PayloadsOf(lines)
      BY <1>6
    <2> QED BY <2>1, <2>2, <2>3 DEF Promise!logVars
  <1>7. ASSUME NEW s \in Sessions, NEW p \in Payloads, Decide(s, p) PROVE Goal
    BY <1>6, <1>7, <1>a DEF Decide, Writer
  <1>8. ASSUME NEW s \in Sessions, Create(s) PROVE Goal
    BY <1>6, <1>8, <1>a DEF Create, Writer
  <1>9. ASSUME NEW s \in Sessions, PayloadFails(s) PROVE Goal
    BY <1>9 DEF PayloadFails
  <1>10. ASSUME UNCHANGED rvars PROVE Goal
    BY <1>6, <1>10 DEF rvars
  <1> HIDE DEF Goal
  <1>11. Goal
    BY <1>2, <1>3, <1>4, <1>5, <1>7, <1>8, <1>9, <1>10 DEF Next
  <1> QED BY <1>11 DEF Goal

\* As long as writes succeed, the receipts log is the log AuditLog describes,
\* for any number of sessions, also at the same time: what one reports is read
\* back in its order and without a gap, and a session that is killed loses
\* fewer than RECEIPTS_FLUSH_EVERY events.
THEOREM PromiseIsKept == Spec => KeepsPromise
  <1>1. Init => WholeInv /\ Promise!Init
    <2> SUFFICES ASSUME Init PROVE WholeInv /\ Promise!Init
      OBVIOUS
    <2>1. RTypeOK /\ \A s \in Sessions : w[s] = Closed
      BY TypesInit
    <2>2. WholeInv
      BY <2>1 DEF Init, WholeInv, Whole, Closed
    <2>3. PayloadsOf(<<>>) = <<>>
      BY DEF PayloadsOf
    <2>4. PayloadsOf(lines) = <<>>
      BY <2>3 DEF Init
    <2>5. [s \in Sessions |-> PayloadsOf(w[s].buf)] = [s \in Sessions |-> <<>>]
      BY <2>1, <2>3, ClosedType
    <2>6. failed = FALSE
      BY DEF Init
    <2> QED BY <2>2, <2>4, <2>5, <2>6 DEF Promise!Init
  <1>2. WholeInv /\ [Next]_rvars => WholeInv' /\ [Promise!Next]_(Promise!logVars)
    <2> SUFFICES ASSUME WholeInv, [Next]_rvars
                 PROVE  WholeInv' /\ [Promise!Next]_(Promise!logVars)
      OBVIOUS
    <2>0. RTypeOK' /\ failed' \in BOOLEAN
      BY TypesStep DEF WholeInv, RTypeOK
    <2>1. CASE failed'
      BY <2>0, <2>1 DEF WholeInv, Promise!Next, Promise!Break
    <2>2. CASE ~failed'
      <3>1. ~failed
        BY <2>2, GhostsStay
      <3>2. failed = FALSE /\ failed' = FALSE
        BY <2>0, <3>1, <2>2 DEF WholeInv, RTypeOK
      <3> QED BY <2>0, <3>1, <3>2, PromiseStep DEF WholeInv
    <2> QED BY <2>1, <2>2
  <1> QED
    BY <1>1, <1>2, PTL DEF Spec, KeepsPromise, Promise!Spec

-----------------------------------------------------------------------------
(***************************************************************************)
(* What a verifier reads, also after a write has failed.  The lines before *)
(* the first torn one are a chain.  A session that would still continue it *)
(* (its next bytes go where they belong, and nothing is torn yet) holds    *)
(* exactly the records that do: the rest of the chain, after a failure the *)
(* line it has half written first.  Any other session tears the file with  *)
(* the first thing it writes.                                              *)
(***************************************************************************)

Intact == \A i \in 1..Len(lines) : lines[i] # Torn

Continues(s) ==
    Live(s) /\ Clean(s) /\ Intact =>
        /\ IsChain(lines \o w[s].buf)
        /\ w[s].state # "off" => /\ w[s].seq = Len(lines \o w[s].buf)
                                 /\ w[s].prev = Tip(lines \o w[s].buf)

OneAtATime == \A s, t \in Sessions : Live(s) /\ Live(t) => s = t

Tears ==
    /\ VerifiableUpToTear
    /\ \A s \in Sessions : w[s].begun => w[s].state = "off"
    /\ ~overlapped => OneAtATime /\ \A s \in Sessions : Continues(s)

\* What the lines d hold before their first torn one is linked.
UpToTear(d) == \A i \in 1..Len(d) : (\A j \in 1..i : d[j] # Torn) => Linked(d, i)

\* The lines that go out, after those that are there: a chain if they continue
\* one, a torn line first if they do not go where they belong.
LEMMA OutUpToTear ==
    ASSUME NEW d \in Seq(Line), UpToTear(d), NEW new \in Seq(Line),
           \/ new = <<>>
           \/ new # <<>> /\ new[1] = Torn
           \/ (\A i \in 1..Len(d) : d[i] # Torn) => IsChain(d \o new)
    PROVE  UpToTear(d \o new)
  <1> DEFINE e == d \o new
  <1>1. /\ Len(e) = Len(d) + Len(new) /\ Len(d) \in Nat /\ Len(new) \in Nat
        /\ \A i \in 1..Len(d) : e[i] = d[i]
        /\ new # <<>> => e[Len(d) + 1] = new[1]
    OBVIOUS
  <1> HIDE DEF e
  <1>2. ASSUME NEW i \in 1..Len(d), \A j \in 1..i : e[j] # Torn
        PROVE  Linked(e, i)
    <2>1. \A j \in 1..i : d[j] # Torn
      BY <1>1, <1>2
    <2>2. Linked(d, i) /\ e[i] = d[i]
      BY <1>1, <2>1 DEF UpToTear
    <2>3. i # 1 => e[i - 1] = d[i - 1]
      BY <1>1
    <2> QED BY <2>2, <2>3 DEF Linked
  <1>3. ASSUME NEW i \in 1..Len(e), i \notin 1..Len(d), \A j \in 1..i : e[j] # Torn
        PROVE  Linked(e, i)
    <2>1. i \in Nat /\ i >= Len(d) + 1 /\ Len(new) > 0
      BY <1>1, <1>3
    <2>2. new # <<>>
      BY <2>1
    <2>3. Len(d) + 1 \in 1..i /\ e[Len(d) + 1] = new[1]
      BY <1>1, <2>1, <2>2
    <2>4. new[1] # Torn
      BY <1>3, <2>3
    <2>5. \A j \in 1..Len(d) : j \in 1..i
      BY <1>1, <2>1
    <2>6. \A j \in 1..Len(d) : d[j] # Torn
      BY <1>1, <1>3, <2>5
    <2>7. IsChain(e)
      BY <2>2, <2>4, <2>6 DEF e
    <2> QED BY <2>7 DEF IsChain
  <1>4. UpToTear(e)
    BY <1>2, <1>3 DEF UpToTear
  <1> QED BY <1>4 DEF e

\* An intact file that holds up to its first torn line is a chain.
LEMMA IntactIsChain ==
    ASSUME lines \in Seq(Line), UpToTear(lines), Intact
    PROVE  IsChain(lines)
  BY DEF UpToTear, Intact, IsChain

\* A sequence is what comes up to k and what follows.
LEMMA SplitSeq ==
    ASSUME NEW S, NEW b \in Seq(S), NEW k \in 0..Len(b)
    PROVE  /\ SubSeq(b, 1, k) \in Seq(S) /\ SubSeq(b, k + 1, Len(b)) \in Seq(S)
           /\ b = SubSeq(b, 1, k) \o SubSeq(b, k + 1, Len(b))
  <1>1. /\ Len(b) \in Nat /\ k \in Int /\ Len(b) \in Int /\ k + 1 \in Int /\ 1 \in Int
        /\ 1 \in 1..(Len(b) + 1) /\ k \in (1 - 1)..Len(b) /\ Len(b) \in k..Len(b)
    OBVIOUS
  <1>2. SubSeq(b, 1, k) \o SubSeq(b, k + 1, Len(b)) = SubSeq(b, 1, Len(b))
    BY <1>1, ConcatAdjacentSubSeq
  <1>3. SubSeq(b, 1, Len(b)) = b
    BY SubSeqFull
  <1>4. (\A i \in 1..k : b[i] \in S) /\ (\A i \in (k + 1)..Len(b) : b[i] \in S)
    OBVIOUS
  <1>5. SubSeq(b, 1, k) \in Seq(S) /\ SubSeq(b, k + 1, Len(b)) \in Seq(S)
    BY <1>1, <1>4, SubSeqProperties
  <1> QED BY <1>2, <1>3, <1>5

\* What Out does to the file, by whether what s writes goes where it belongs.
LEMMA OutLines ==
    ASSUME RTypeOK, NEW s \in Sessions, NEW b \in Seq(Rec), NEW k \in 0..Len(b),
           NEW part \in {"none", "some", "all"}, Out(s, b, k, part)
    PROVE  /\ lines' \in Seq(Line)
           /\ k = 0 => lines' = lines
           /\ Clean(s) => lines' = lines \o SubSeq(b, 1, k)
           /\ ~Clean(s) /\ k > 0 => ~Intact'
           /\ k > 0 /\ part = "none" => cut' = NoCut
           /\ k = 0 /\ part = "none" => cut' = cut
           /\ k = 0 /\ part # "none" /\ ~Clean(s) => cut' = Torn
           /\ Intact' => Intact
           /\ UpToTear(lines) /\ (Clean(s) /\ Intact => IsChain(lines \o b)) =>
                 UpToTear(lines')
  <1> DEFINE new == [i \in 1..k |-> IF i = 1 /\ ~Clean(s) THEN Torn ELSE b[i]]
  <1>1. /\ k \in Nat /\ k <= Len(b) /\ Len(b) \in Nat
        /\ \A i \in 1..k : i \in 1..Len(b)
        /\ lines \in Seq(Line) /\ b \in Seq(Line)
    BY DEF RTypeOK, FileTypes, Line
  <1>2. lines' = lines \o new
    BY DEF Out
  <1>3. /\ new \in Seq(Line) /\ Len(new) = k
        /\ \A i \in 1..k : new[i] = IF i = 1 /\ ~Clean(s) THEN Torn ELSE b[i]
    <2>1. \A i \in 1..k : new[i] \in Line
      <3>1. \A i \in 1..k : b[i] \in Rec
        BY <1>1
      <3> QED BY <3>1 DEF Line
    <2>2. new = [i \in 1..k |-> new[i]]
      OBVIOUS
    <2>3. \A i \in 1..k : new[i] = IF i = 1 /\ ~Clean(s) THEN Torn ELSE b[i]
      OBVIOUS
    <2> HIDE DEF new
    <2>4. k \in Nat
      BY <1>1
    <2>5. new \in Seq(Line)
      BY <2>1, <2>2, <2>4
    <2>6. Len(new) = k
      BY <2>2, <2>4
    <2> QED BY <2>3, <2>5, <2>6
  <1> HIDE DEF new
  <1>4. /\ lines' \in Seq(Line) /\ Len(lines') = Len(lines) + k /\ Len(lines) \in Nat
        /\ \A i \in 1..Len(lines) : lines'[i] = lines[i]
        /\ \A i \in 1..k : lines'[Len(lines) + i] = new[i]
    <2>1. /\ lines \o new \in Seq(Line) /\ Len(lines \o new) = Len(lines) + Len(new)
          /\ \A i \in 1..(Len(lines) + Len(new)) :
                (lines \o new)[i] = IF i <= Len(lines) THEN lines[i] ELSE new[i - Len(lines)]
      BY <1>1, <1>3, ConcatProperties
    <2>2. Len(lines) \in Nat
      BY <1>1
    <2>3. \A i \in 1..k : /\ Len(lines) + i \in 1..(Len(lines) + Len(new))
                          /\ ~(Len(lines) + i <= Len(lines))
                          /\ (Len(lines) + i) - Len(lines) = i
      BY <1>1, <1>3, <2>2
    <2>4. \A i \in 1..Len(lines) : i \in 1..(Len(lines) + Len(new)) /\ i <= Len(lines)
      BY <1>1, <1>3, <2>2
    <2> QED BY <1>2, <1>3, <2>1, <2>2, <2>3, <2>4
  <1>5. k = 0 => lines' = lines
    <2>1. k = 0 => new = <<>>
      BY <1>3
    <2> QED BY <1>1, <1>2, <2>1
  <1>6. Clean(s) => new = SubSeq(b, 1, k)
    <2> SUFFICES ASSUME Clean(s) PROVE new = SubSeq(b, 1, k)
      OBVIOUS
    <2>1. /\ SubSeq(b, 1, k) \in Seq(Rec) /\ Len(SubSeq(b, 1, k)) = k
          /\ \A i \in 1..k : SubSeq(b, 1, k)[i] = b[i]
      <3>1. \A i \in 1..k : b[i] \in Rec
        BY <1>1
      <3> QED BY <1>1, <3>1, SubSeqProperties
    <2>2. SubSeq(b, 1, k) \in Seq(Line)
      BY <2>1 DEF Line
    <2> QED BY <1>3, <2>1, <2>2, SeqEqual
  <1>7. ~Clean(s) /\ k > 0 => new # <<>> /\ new[1] = Torn
    BY <1>1, <1>3
  <1>8. ~Clean(s) /\ k > 0 => ~Intact'
    <2> SUFFICES ASSUME ~Clean(s), k > 0 PROVE ~Intact'
      OBVIOUS
    <2>1. 1 \in 1..k /\ Len(lines) + 1 \in 1..Len(lines')
      BY <1>1, <1>4
    <2>2. lines'[Len(lines) + 1] = Torn
      BY <1>4, <1>7, <2>1
    <2> QED BY <2>1, <2>2 DEF Intact
  <1>9. Intact' => Intact
    BY <1>4 DEF Intact
  <1>10. /\ k > 0 /\ part = "none" => cut' = NoCut
         /\ k = 0 /\ part = "none" => cut' = cut
         /\ k = 0 /\ part # "none" /\ ~Clean(s) => cut' = Torn
    BY <1>1 DEF Out
  <1>11. ASSUME UpToTear(lines), Clean(s) /\ Intact => IsChain(lines \o b)
         PROVE  UpToTear(lines')
    <2>1. CASE k = 0
      BY <1>5, <1>11, <2>1
    <2>2. CASE k > 0 /\ ~Clean(s)
      BY <1>1, <1>2, <1>3, <1>7, <1>11, <2>2, OutUpToTear
    <2>3. CASE Clean(s)
      <3>1. ASSUME \A i \in 1..Len(lines) : lines[i] # Torn
            PROVE  IsChain(lines \o new)
        <4>1. IsChain(lines \o b)
          BY <1>11, <2>3, <3>1 DEF Intact
        <4> DEFINE rest == SubSeq(b, k + 1, Len(b))
        <4>2. new = SubSeq(b, 1, k)
          BY <1>6, <2>3
        <4>3. rest \in Seq(Line) /\ b = new \o rest
          BY <1>1, <4>2, SplitSeq
        <4> HIDE DEF rest
        <4>5. lines \o b = (lines \o new) \o rest
          <5>1. lines \in Seq(Line) /\ new \in Seq(Line) /\ rest \in Seq(Line)
            BY <1>1, <1>3, <4>3
          <5>2. (lines \o new) \o rest = lines \o (new \o rest)
            BY ONLY <5>1, ConcatAssociative, SMTT(30)
          <5> QED BY <4>3, <5>2
        <4>6. lines \o new \in Seq(Line)
          BY <1>1, <1>3, ConcatProperties
        <4> QED BY <4>1, <4>3, <4>5, <4>6, ChainPrefix
      <3> QED BY <1>1, <1>2, <1>3, <1>11, <3>1, OutUpToTear
    <2> QED BY <1>1, <2>1, <2>2, <2>3
  <1>12. Clean(s) => lines' = lines \o SubSeq(b, 1, k)
    BY <1>2, <1>6
  <1> QED BY <1>4, <1>5, <1>8, <1>9, <1>10, <1>11, <1>12

\* A session's writer after a step that leaves nothing in it.
LEMMA GoneIsGone ==
    ASSUME RTypeOK, NEW s \in Sessions, w' = [w EXCEPT ![s] = Gone]
    PROVE  /\ ~Live(s)' /\ w'[s].begun = FALSE /\ w'[s].created = FALSE /\ w'[s].buf = <<>>
           /\ \A t \in Sessions \ {s} : w'[t] = w[t]
  BY DEF RTypeOK, WriterTypes, Gone, Closed, Live

\* A step of s, with the rest of the file's sessions as they were.
LEMMA TearsBy ==
    ASSUME RTypeOK, Tears, NEW s \in Sessions, Live(s), overlapped' = overlapped,
           \A t \in Sessions \ {s} : w'[t] = w[t],
           VerifiableUpToTear', w'[s].begun => w'[s].state = "off",
           ~overlapped => Continues(s)'
    PROVE  Tears'
  <1>1. ASSUME ~overlapped
        PROVE  OneAtATime' /\ \A t \in Sessions : Continues(t)'
    <2>1. \A t \in Sessions \ {s} : ~Live(t)
      BY <1>1 DEF Tears, OneAtATime
    <2>2. \A t \in Sessions \ {s} : ~Live(t)'
      BY <2>1 DEF Live
    <2>3. \A t \in Sessions \ {s} : Continues(t)'
      BY <2>2 DEF Continues
    <2> QED BY <1>1, <2>2, <2>3 DEF OneAtATime
  <1>2. \A t \in Sessions : w'[t].begun => w'[t].state = "off"
    BY DEF Tears
  <1> QED BY <1>1, <1>2 DEF Tears

\* The flush of b, up to its k-th line: what is on disk afterwards holds up to
\* its first torn line, and what is left of b still continues it.
LEMMA FlushTears ==
    ASSUME RTypeOK, Tears, ~overlapped, NEW s \in Sessions, NEW b \in Seq(Rec),
           NEW k \in 0..Len(b), NEW part \in {"none", "some", "all"},
           part # "none" => k < Len(b), Out(s, b, k, part),
           Clean(s) /\ Intact => IsChain(lines \o b)
    PROVE  /\ VerifiableUpToTear'
           /\ Clean(s) /\ Intact' =>
                 lines' \o SubSeq(b, k + 1, Len(b)) = lines \o b
           /\ Intact' => Intact /\ (k > 0 => Clean(s))
  <1>1. UpToTear(lines)
    BY DEF Tears, VerifiableUpToTear, UpToTear
  <1>2. UpToTear(lines')
    BY <1>1, OutLines
  <1>3. VerifiableUpToTear'
    BY <1>2 DEF VerifiableUpToTear, UpToTear
  <1>4. Intact' => Intact /\ (k > 0 => Clean(s))
    BY OutLines
  <1>5. ASSUME Clean(s)
        PROVE  lines' \o SubSeq(b, k + 1, Len(b)) = lines \o b
    <2> DEFINE new == SubSeq(b, 1, k)
               rest == SubSeq(b, k + 1, Len(b))
    <2>1. lines' = lines \o new
      BY <1>5, OutLines
    <2>2. new \in Seq(Rec) /\ rest \in Seq(Rec) /\ b = new \o rest
      BY SplitSeq
    <2> HIDE DEF new, rest
    <2>3. new \in Seq(Line) /\ rest \in Seq(Line) /\ lines \in Seq(Line)
      BY <2>2 DEF Line, RTypeOK, FileTypes
    <2>4. (lines \o new) \o rest = lines \o (new \o rest)
      BY ONLY <2>3, ConcatAssociative
    <2>5. lines' \o rest = lines \o b
      BY <2>1, <2>2, <2>4
    <2> QED BY <2>5 DEF rest
  <1> QED BY <1>3, <1>4, <1>5

\* The session that writes a line next holds the chain's tip: the line extends it.
LEMMA NextContinues ==
    ASSUME RTypeOK, Tears, ~overlapped, NEW s \in Sessions, NEW p \in Payloads,
           w[s].state = "open"
    PROVE  Clean(s) /\ Intact =>
              LET all == Append(w[s].buf, Record(s, p))
              IN  /\ IsChain(lines \o w[s].buf) /\ IsChain(lines \o all)
                  /\ Len(lines \o all) = Record(s, p).seq
                  /\ Tip(lines \o all) = Hash(Record(s, p))
  <1> DEFINE r == Record(s, p)
             b == w[s].buf
             all == Append(b, r)
             d == lines \o b
  <1> SUFFICES ASSUME Clean(s), Intact
               PROVE  /\ IsChain(d) /\ IsChain(lines \o all)
                      /\ Len(lines \o all) = r.seq /\ Tip(lines \o all) = Hash(r)
    OBVIOUS
  <1>1. /\ r \in Rec /\ r.seq = w[s].seq + 1 /\ r.prev = w[s].prev
        /\ b \in Seq(Rec) /\ lines \in Seq(Line)
    BY RecordType DEF RTypeOK, FileTypes, WriterTypes, Writer, Record, Line
  <1>2. b \in Seq(Line) /\ r \in Line
    BY <1>1 DEF Line
  <1>3. Live(s) /\ Continues(s)
    BY DEF Live, Tears
  <1>4. d \in Seq(Line) /\ IsChain(d) /\ w[s].seq = Len(d) /\ w[s].prev = Tip(d)
    BY <1>1, <1>2, <1>3, ConcatProperties DEF Continues
  <1> HIDE DEF r, b
  <1>5. Append(d, r) = lines \o all
    BY <1>1, <1>2, AppendInside
  <1> HIDE DEF d, all
  <1>6. IsChain(Append(d, r)) /\ Tip(Append(d, r)) = Hash(r) /\ Len(Append(d, r)) = r.seq
    <2>1. r.seq = Len(d) + 1 /\ r.prev = Tip(d)
      BY <1>1, <1>4
    <2>2. IsChain(Append(d, r)) /\ Tip(Append(d, r)) = Hash(r)
      BY <1>1, <1>4, <2>1, ExtendChain
    <2> QED BY <1>1, <1>4, <2>1, <2>2, AppendProperties
  <1> QED BY <1>4, <1>5, <1>6 DEF d

\* After the last line of a buffer there is none.
LEMMA NothingLeft ==
    ASSUME NEW S, NEW b \in Seq(S)
    PROVE  SubSeq(b, Len(b) + 1, Len(b)) = <<>>
  <1>1. Len(b) \in Int /\ Len(b) + 1 \in Int /\ Len(b) < Len(b) + 1
    OBVIOUS
  <1> QED BY <1>1, SubSeqEmpty

\* write() of a line that is queued.
LEMMA QueueTears ==
    ASSUME RTypeOK, Tears, ~overlapped, NEW s \in Sessions, NEW p \in Payloads,
           NEW end \in BOOLEAN, NEW spill \in BOOLEAN, w[s].state = "open",
           Queue(s, p, end, spill)
    PROVE  /\ VerifiableUpToTear' /\ Continues(s)' /\ w'[s].begun = FALSE
           /\ \A t \in Sessions \ {s} : w'[t] = w[t]
  <1> DEFINE r == Record(s, p)
             b == w[s].buf
             all == Append(b, r)
             due == end \/ w[s].pending + 1 >= FlushEvery
  <1>1. /\ r \in Rec /\ b \in Seq(Rec) /\ w \in [Sessions -> Writer] /\ lines \in Seq(Line)
        /\ w[s].begun = FALSE /\ Live(s)
    <2>1. w[s] \in Writer /\ (w[s].begun => w[s].state = "off")
      BY DEF RTypeOK, WriterTypes, Tears
    <2>2. w[s].begun \in BOOLEAN /\ w[s].buf \in Seq(Rec)
      BY <2>1 DEF Writer
    <2> QED BY <2>1, <2>2, RecordType DEF RTypeOK, FileTypes, WriterTypes, Line, Live
  <1>2. /\ w'[s].seq = r.seq /\ w'[s].prev = Hash(r) /\ w'[s].begun = FALSE
        /\ w'[s].state # "off"
        /\ \A t \in Sessions \ {s} : w'[t] = w[t]
    BY <1>1 DEF Queue, Closed
  <1>3. Clean(s) /\ Intact => /\ IsChain(lines \o b) /\ IsChain(lines \o all)
                             /\ Len(lines \o all) = r.seq /\ Tip(lines \o all) = Hash(r)
    BY NextContinues
  <1> HIDE DEF r
  <1>4. /\ all \in Seq(Rec) /\ Len(all) = Len(b) + 1 /\ Len(b) \in Nat
        /\ Len(all) \in 0..Len(all) /\ Len(all) > 0 /\ Len(b) \in 0..Len(b)
    BY <1>1
  <1>5. Clean(s)' <=> cut' = NoCut
    BY <1>2 DEF Clean
  <1>6. Clean(s) <=> cut = NoCut
    BY <1>1 DEF Clean
  \* Enough: what is on disk and in the buffer is the chain with r, if anything is.
  <1>7. ASSUME VerifiableUpToTear',
               Clean(s)' /\ Intact' => Clean(s) /\ Intact /\ lines' \o w'[s].buf = lines \o all
        PROVE  VerifiableUpToTear' /\ Continues(s)'
    BY <1>2, <1>3, <1>7 DEF Continues
  <1>8. CASE due
    <2>1. w'[s].buf = <<>> /\ AllOut(s, all)
      BY <1>8, <1>1 DEF Queue, Closed, r
    <2> HIDE DEF all, b
    <2>2. Out(s, all, Len(all), "none")
      BY <2>1 DEF AllOut
    <2>3. /\ VerifiableUpToTear' /\ (Intact' => Intact /\ Clean(s))
          /\ (Clean(s) /\ Intact' => lines' \o SubSeq(all, Len(all) + 1, Len(all)) = lines \o all)
      BY <1>3, <1>4, <2>2, FlushTears
    <2>4. SubSeq(all, Len(all) + 1, Len(all)) = <<>>
      BY <1>4, NothingLeft
    <2> QED BY <1>2, <1>7, <2>1, <2>3, <2>4
  <1>9. CASE ~due /\ spill
    <2>1. w'[s].buf = <<r>> /\ AllOut(s, b)
      BY <1>9, <1>1 DEF Queue, Closed, r
    <2>2. lines \o all = (lines \o b) \o <<r>>
      <3>1. b \in Seq(Line) /\ r \in Line /\ lines \in Seq(Line)
        BY <1>1 DEF Line
      <3> HIDE DEF b
      <3>2. Append(lines \o b, r) = lines \o Append(b, r)
        BY <3>1, AppendInside
      <3>3. lines \o b \in Seq(Line)
        BY <3>1, ConcatProperties
      <3>4. Append(lines \o b, r) = (lines \o b) \o <<r>>
        BY <3>1, <3>3, AppendIsConcat
      <3> QED BY <3>2, <3>4
    <2> HIDE DEF all, b
    <2>3. Out(s, b, Len(b), "none")
      BY <2>1 DEF AllOut
    <2>4. /\ VerifiableUpToTear' /\ (Intact' => Intact /\ (Len(b) > 0 => Clean(s)))
          /\ (Clean(s) /\ Intact' => lines' \o SubSeq(b, Len(b) + 1, Len(b)) = lines \o b)
      BY <1>1, <1>3, <1>4, <2>3, FlushTears
    <2>5. Len(b) = 0 => cut' = cut
      BY <1>1, <1>4, <2>3, OutLines
    <2>6. Clean(s)' /\ Intact' => Clean(s)
      BY <1>4, <1>5, <1>6, <2>4, <2>5
    <2>7. SubSeq(b, Len(b) + 1, Len(b)) = <<>>
      BY <1>1, NothingLeft
    <2> HIDE DEF due
    <2>8. Clean(s) /\ Intact' => lines' = lines \o b
      <3>1. lines' \in Seq(Line)
        BY <1>1, <1>4, <2>3, OutLines
      <3>2. lines' \o <<>> = lines'
        BY ONLY <3>1, ConcatEmptySeq
      <3>3. Clean(s) /\ Intact' => lines' \o <<>> = lines \o b
        BY <2>4, <2>7
      <3> QED BY <3>2, <3>3
    <2> QED BY <1>2, <1>7, <2>1, <2>2, <2>4, <2>6, <2>8
  <1>10. CASE ~due /\ ~spill
    <2>1. w'[s].buf = all /\ lines' = lines /\ cut' = cut
      BY <1>10, <1>1 DEF Queue, Closed, r
    <2> HIDE DEF all, b
    <2>2. VerifiableUpToTear'
      BY <2>1 DEF Tears, VerifiableUpToTear, Linked
    <2> HIDE DEF due
    <2>3. Clean(s)' /\ Intact' => Clean(s) /\ Intact
      <3>0. cut' = cut
        BY <2>1
      <3>1. Clean(s)' => Clean(s)
        BY <1>5, <1>6, <3>0
      <3>2. Intact' => Intact
        BY <2>1 DEF Intact
      <3> QED BY <3>1, <3>2
    <2> QED BY <1>2, <1>7, <2>1, <2>2, <2>3
  <1> QED BY <1>2, <1>8, <1>9, <1>10

\* write() of a line whose flush fails.
LEMMA FailingTears ==
    ASSUME RTypeOK, Tears, ~overlapped, NEW s \in Sessions, NEW p \in Payloads,
           NEW end \in BOOLEAN, w[s].state = "open", QueueFails(s, p, end)
    PROVE  /\ VerifiableUpToTear' /\ Continues(s)' /\ w'[s].state = "off"
           /\ \A t \in Sessions \ {s} : w'[t] = w[t]
  <1>1. /\ w[s].buf \in Seq(Rec) /\ Append(w[s].buf, Record(s, p)) \in Seq(Rec)
        /\ w \in [Sessions -> Writer]
    BY RecordType DEF RTypeOK, WriterTypes, Writer
  <1>2. PICK all \in {w[s].buf} \cup {Append(w[s].buf, Record(s, p))},
             part \in {"none", "some", "all"} : \E k \in 0..(Len(all) - 1) :
          /\ all = w[s].buf \/ end \/ w[s].pending + 1 >= FlushEvery
          /\ Out(s, all, k, part)
          /\ w' = [w EXCEPT ![s] =
                     [Closed EXCEPT !.state = "off",
                                    !.buf = SubSeq(all, k + 1, Len(all)),
                                    !.begun = part # "none" \/ (k = 0 /\ w[s].begun)]]
    BY Zenon DEF QueueFails
  <1>3. PICK k \in 0..(Len(all) - 1) :
          /\ Out(s, all, k, part)
          /\ w' = [w EXCEPT ![s] =
                     [Closed EXCEPT !.state = "off",
                                    !.buf = SubSeq(all, k + 1, Len(all)),
                                    !.begun = part # "none" \/ (k = 0 /\ w[s].begun)]]
    BY <1>2
  <1>4. /\ w'[s].state = "off" /\ w'[s].buf = SubSeq(all, k + 1, Len(all))
        /\ w'[s].begun = (part # "none" \/ (k = 0 /\ w[s].begun))
        /\ \A t \in Sessions \ {s} : w'[t] = w[t]
    BY <1>1, <1>3 DEF Closed
  <1>5. all \in Seq(Rec) /\ Len(all) \in Nat /\ k \in 0..Len(all) /\ k < Len(all)
    BY <1>1, SMTT(30)
  <1>6. Clean(s) /\ Intact => IsChain(lines \o all)
    BY NextContinues
  <1>7. Out(s, all, k, part)
    BY <1>3
  <1>8. /\ VerifiableUpToTear'
        /\ Clean(s) /\ Intact' => lines' \o SubSeq(all, k + 1, Len(all)) = lines \o all
        /\ Intact' => Intact /\ (k > 0 => Clean(s))
    BY <1>5, <1>6, <1>7, FlushTears
  <1>9. Clean(s)' /\ Intact' => Clean(s)
    <2> SUFFICES ASSUME Clean(s)', Intact', ~Clean(s) PROVE FALSE
      OBVIOUS
    <2>1. k = 0
      BY <1>5, <1>8
    <2>2. part # "none" => cut' = Torn /\ w'[s].begun
      BY <1>4, <1>5, <1>7, <2>1, OutLines
    <2>3. part = "none"
      BY <2>2 DEF Clean
    <2>4. cut' = cut
      BY <1>5, <1>7, <2>1, <2>3, OutLines
    <2>5. w[s].begun = FALSE
      <3>1. w[s] \in Writer /\ (w[s].begun => w[s].state = "off")
        BY DEF RTypeOK, WriterTypes, Tears
      <3> QED BY <3>1 DEF Writer
    <2>6. w'[s].begun = FALSE
      BY <1>4, <2>3, <2>5
    <2> QED BY <2>4, <2>5, <2>6 DEF Clean
  <1>10. Continues(s)'
    BY <1>4, <1>6, <1>8, <1>9 DEF Continues
  <1> QED BY <1>4, <1>8, <1>10

\* Only a session that is on stores a payload.
OpenMakes == \A s \in Sessions : w[s].making # None => w[s].state = "open"

\* The step of s leaves it so.
LEMMA OpenMakesBy ==
    ASSUME OpenMakes, NEW s \in Sessions, w'[s].making # None => w'[s].state = "open",
           \A t \in Sessions \ {s} : w'[t] = w[t]
    PROVE  OpenMakes'
  BY DEF OpenMakes

LEMMA OpenMakesStep ==
    ASSUME RTypeOK, OpenMakes, [Next]_rvars
    PROVE  OpenMakes'
  <1>a. w \in [Sessions -> Writer] /\ \A t \in Sessions : w[t] \in Writer
    BY DEF RTypeOK, WriterTypes
  <1>1. ASSUME NEW s \in Sessions, Open(s) PROVE OpenMakes'
    BY <1>1, <1>a, OpenMakesBy DEF Open, Closed
  <1>2. ASSUME NEW s \in Sessions, NEW p \in Payloads, NEW end \in BOOLEAN, Write(s, p, end)
        PROVE  OpenMakes'
    <2>1. ASSUME NEW spill \in BOOLEAN, Queue(s, p, end, spill) PROVE OpenMakes'
      BY <1>a, <2>1, OpenMakesBy DEF Queue, Closed
    <2>2. CASE QueueFails(s, p, end)
      BY <1>a, <2>2, OpenMakesBy DEF QueueFails, Closed
    <2> QED BY <1>2, <2>1, <2>2 DEF Write
  <1>3. ASSUME NEW s \in Sessions, Create(s) PROVE OpenMakes'
    BY <1>3, <1>a, OpenMakesBy DEF Create, Writer, OpenMakes
  <1>4. ASSUME NEW s \in Sessions, PayloadFails(s) PROVE OpenMakes'
    BY <1>4, <1>a, OpenMakesBy DEF PayloadFails, Writer
  <1>5. ASSUME NEW s \in Sessions, Close(s) \/ Die(s) PROVE OpenMakes'
    BY <1>5, <1>a, OpenMakesBy DEF Close, Die, Gone, Closed
  <1>6. ASSUME NEW s \in Sessions, NEW p \in Payloads, Decide(s, p) PROVE OpenMakes'
    BY <1>6, <1>a, OpenMakesBy DEF Decide, Writer
  <1>7. CASE UNCHANGED rvars
    BY <1>7 DEF rvars, OpenMakes
  <1> QED
    BY <1>1, <1>2, <1>3, <1>4, <1>5, <1>6, <1>7 DEF Next

\* Where no writer changes, nor the file, neither does what they would write.
LEMMA TearsElsewhere ==
    ASSUME Tears, UNCHANGED <<lines, cut>>, overlapped' = overlapped,
           \A t \in Sessions : /\ w'[t].state = w[t].state /\ w'[t].buf = w[t].buf
                              /\ w'[t].seq = w[t].seq /\ w'[t].prev = w[t].prev
                              /\ w'[t].begun = w[t].begun
    PROVE  Tears'
  <1>1. /\ \A t \in Sessions : (Live(t)' <=> Live(t)) /\ (Clean(t)' <=> Clean(t))
        /\ Intact' <=> Intact
    BY DEF Live, Clean, Intact
  <1>2. VerifiableUpToTear'
    BY DEF Tears, VerifiableUpToTear, Linked
  <1>3. \A t \in Sessions : Continues(t) => Continues(t)'
    BY <1>1 DEF Continues
  <1>4. OneAtATime => OneAtATime'
    BY <1>1 DEF OneAtATime
  <1>5. \A t \in Sessions : w'[t].begun => w'[t].state = "off"
    BY DEF Tears
  <1> QED BY <1>2, <1>3, <1>4, <1>5 DEF Tears

\* A step that leaves s without a writer, after what it still put out.
LEMMA TearsGone ==
    ASSUME RTypeOK, Tears, NEW s \in Sessions, Live(s), overlapped' = overlapped,
           w' = [w EXCEPT ![s] = Gone], VerifiableUpToTear'
    PROVE  Tears'
  <1>1. /\ ~Live(s)' /\ w'[s].begun = FALSE
        /\ \A t \in Sessions \ {s} : w'[t] = w[t]
    BY GoneIsGone
  <1>2. Continues(s)'
    BY <1>1 DEF Continues
  <1> QED BY <1>1, <1>2, TearsBy

\* open() takes over the tip of what it finds.
LEMMA OpenTears ==
    ASSUME RTypeOK, Tears, NEW s \in Sessions, Open(s)
    PROVE  Tears'
  <1>a. w \in [Sessions -> Writer] /\ lines \in Seq(Line) /\ overlapped \in BOOLEAN
    BY DEF RTypeOK, WriterTypes, FileTypes, Line
  <1>1. /\ lines' = lines /\ cut' = cut
        /\ overlapped' = (overlapped \/ \E t \in Sessions : Live(t))
        /\ \A t \in Sessions \ {s} : w'[t] = w[t]
    BY <1>a DEF Open
  <1>2. /\ w'[s].buf = <<>> /\ w'[s].begun = FALSE /\ w'[s].state \in {"open", "gone"}
        /\ LastLine = None => w'[s].seq = 0 /\ w'[s].prev = <<>>
        /\ LastLine # None /\ LastLine # Torn =>
              w'[s].seq = LastLine.seq /\ w'[s].prev = Hash(LastLine)
        /\ LastLine = Torn => w'[s].state = "gone"
    BY <1>a, ReceiptsAssumption DEF Open, Closed
  <1>3. VerifiableUpToTear'
    <2>1. overlapped => overlapped'
      BY <1>1
    <2> QED BY <1>1, <2>1 DEF Tears, VerifiableUpToTear, Linked
  <1>4. ASSUME ~overlapped' PROVE OneAtATime' /\ \A t \in Sessions : Continues(t)'
    <2>1. ~overlapped /\ \A t \in Sessions : ~Live(t)
      BY <1>1, <1>4
    <2>2. \A t \in Sessions \ {s} : ~Live(t)'
      BY <1>1, <2>1 DEF Live
    <2>3. Continues(s)'
      <3> SUFFICES ASSUME Live(s)', Clean(s)', Intact'
                   PROVE  /\ IsChain(lines' \o w'[s].buf)
                          /\ w'[s].seq = Len(lines' \o w'[s].buf)
                          /\ w'[s].prev = Tip(lines' \o w'[s].buf)
        BY DEF Continues
      <3>1. lines' \o w'[s].buf = lines
        BY <1>1, <1>2, <1>a, ConcatEmptySeq
      <3>2. cut = NoCut
        BY <1>1, <1>2 DEF Clean
      <3>3. Intact
        BY <1>1 DEF Intact
      <3>4. IsChain(lines)
        BY <1>a, <2>1, <3>3, IntactIsChain DEF Tears, VerifiableUpToTear, UpToTear
      <3>5. w'[s].seq = Len(lines) /\ w'[s].prev = Tip(lines)
        <4>1. CASE lines = <<>>
          <5>1. LastLine = None
            BY <3>2, <4>1 DEF LastLine
          <5> QED BY <1>2, <4>1, <5>1 DEF Tip
        <4>2. CASE lines # <<>>
          <5>1. Len(lines) \in 1..Len(lines) /\ LastLine = lines[Len(lines)]
            BY <4>2, <1>a, <3>2 DEF LastLine
          <5>2. LastLine # Torn /\ LastLine.seq = Len(lines)
            BY <5>1, <3>4 DEF IsChain, Linked
          <5>3. LastLine # None
            BY <5>1, <5>2, <1>a, ReceiptsAssumption DEF Line
          <5> QED BY <1>2, <4>2, <5>1, <5>2, <5>3 DEF Tip
        <4> QED BY <4>1, <4>2
      <3> QED BY <3>1, <3>4, <3>5
    <2>4. \A t \in Sessions \ {s} : Continues(t)'
      BY <2>2 DEF Continues
    <2> QED BY <2>2, <2>3, <2>4 DEF OneAtATime
  <1>5. \A t \in Sessions : w'[t].begun => w'[t].state = "off"
    BY <1>1, <1>2 DEF Tears
  <1> QED BY <1>3, <1>4, <1>5 DEF Tears

\* Overlapping sessions are beyond the claim: what is left is that only a
\* disabled writer has begun a line.
LEMMA TearsOverlapped ==
    ASSUME RTypeOK, Tears, overlapped, overlapped', NEW s \in Sessions,
           w'[s].begun => w'[s].state = "off",
           \A t \in Sessions \ {s} : w'[t] = w[t]
    PROVE  Tears'
  <1>1. VerifiableUpToTear'
    BY DEF VerifiableUpToTear
  <1> QED BY <1>1 DEF Tears

LEMMA TearsStep ==
    ASSUME RTypeOK, Tears, OpenMakes, [Next]_rvars
    PROVE  Tears'
  <1>a. /\ w \in [Sessions -> Writer] /\ overlapped \in BOOLEAN
        /\ \A t \in Sessions : w[t] \in Writer /\ w[t].buf \in Seq(Rec)
    BY DEF RTypeOK, WriterTypes, Writer
  <1>1. ASSUME NEW s \in Sessions, Open(s) PROVE Tears'
    BY <1>1, OpenTears
  <1>2. ASSUME NEW s \in Sessions, NEW p \in Payloads, NEW end \in BOOLEAN, Write(s, p, end)
        PROVE  Tears'
    <2>1. w[s].state = "open" /\ Live(s) /\ overlapped' = overlapped
      BY <1>2 DEF Write, Live
    <2>2. ASSUME NEW spill \in BOOLEAN, Queue(s, p, end, spill) PROVE Tears'
      <3>1. w'[s].begun = FALSE /\ \A t \in Sessions \ {s} : w'[t] = w[t]
        BY <1>a, <2>2 DEF Queue, Closed
      <3>2. CASE overlapped
        BY <2>1, <3>1, <3>2, TearsOverlapped
      <3>3. CASE ~overlapped
        <4>1. VerifiableUpToTear' /\ Continues(s)'
          BY <2>1, <2>2, <3>3, QueueTears
        <4> QED BY <2>1, <3>1, <4>1, TearsBy
      <3> QED BY <3>2, <3>3
    <2>3. CASE QueueFails(s, p, end)
      <3>1. w'[s].state = "off" /\ \A t \in Sessions \ {s} : w'[t] = w[t]
        BY <1>a, <2>3 DEF QueueFails, Closed
      <3>2. CASE overlapped
        BY <2>1, <3>1, <3>2, TearsOverlapped
      <3>3. CASE ~overlapped
        <4>1. VerifiableUpToTear' /\ Continues(s)'
          BY <2>1, <2>3, <3>3, FailingTears
        <4> QED BY <2>1, <3>1, <4>1, TearsBy
      <3> QED BY <3>2, <3>3
    <2> QED BY <1>2, <2>2, <2>3 DEF Write
  <1>3. ASSUME NEW s \in Sessions, Close(s) PROVE Tears'
    <2>1. /\ Live(s) /\ overlapped' = overlapped /\ w' = [w EXCEPT ![s] = Gone]
          /\ w[s].buf \in Seq(Rec)
      BY <1>3, <1>a DEF Close, Live
    <2>2. VerifiableUpToTear'
      <3>1. CASE overlapped
        BY <2>1, <3>1 DEF VerifiableUpToTear
      <3>2. CASE ~overlapped
        <4>1. Clean(s) /\ Intact => IsChain(lines \o w[s].buf)
          BY <2>1, <3>2 DEF Tears, Continues
        <4>2. CASE AllOut(s, w[s].buf)
          <5>1. Len(w[s].buf) \in 0..Len(w[s].buf) /\ Out(s, w[s].buf, Len(w[s].buf), "none")
            BY <2>1, <4>2 DEF AllOut
          <5> QED BY <2>1, <3>2, <4>1, <5>1, FlushTears
        <4>3. ASSUME NEW k \in 0..(Len(w[s].buf) - 1), NEW part \in {"none", "some", "all"},
                     Out(s, w[s].buf, k, part)
              PROVE  VerifiableUpToTear'
          <5>1. k \in 0..Len(w[s].buf) /\ k < Len(w[s].buf)
            BY <2>1
          <5> QED BY <2>1, <3>2, <4>1, <4>3, <5>1, FlushTears
        <4> QED BY <1>3, <4>2, <4>3 DEF Close
      <3> QED BY <3>1, <3>2
    <2> QED BY <2>1, <2>2, TearsGone
  <1>4. ASSUME NEW s \in Sessions, Die(s) PROVE Tears'
    <2>1. /\ Live(s) /\ overlapped' = overlapped /\ w' = [w EXCEPT ![s] = Gone]
          /\ lines' = lines
      BY <1>4 DEF Die
    <2>2. VerifiableUpToTear'
      BY <2>1 DEF Tears, VerifiableUpToTear, Linked
    <2> QED BY <2>1, <2>2, TearsGone
  <1>5. ASSUME NEW s \in Sessions, NEW p \in Payloads, Decide(s, p) PROVE Tears'
    BY <1>5, <1>a, TearsElsewhere DEF Decide, Writer
  <1>6. ASSUME NEW s \in Sessions, Create(s) PROVE Tears'
    BY <1>6, <1>a, TearsElsewhere DEF Create, Writer
  <1>7. ASSUME NEW s \in Sessions, PayloadFails(s) PROVE Tears'
    <2>0. w[s].state = "open"
      BY <1>7 DEF PayloadFails, OpenMakes
    <2>1. /\ UNCHANGED <<lines, cut>> /\ overlapped' = overlapped /\ Live(s)
          /\ \A t \in Sessions \ {s} : w'[t] = w[t]
          /\ w'[s].state = "off" /\ w'[s].buf = w[s].buf /\ w'[s].begun = w[s].begun
      BY <1>7, <1>a, <2>0 DEF PayloadFails, Live, Writer
    <2>2. VerifiableUpToTear'
      BY <2>1 DEF Tears, VerifiableUpToTear, Linked
    <2>3. (Clean(s)' <=> Clean(s)) /\ (Intact' <=> Intact)
      BY <2>1 DEF Clean, Intact
    <2>4. ~overlapped => Continues(s)'
      BY <2>1, <2>3 DEF Tears, Continues
    <2> QED BY <2>1, <2>2, <2>4, TearsBy
  <1>8. CASE UNCHANGED rvars
    BY <1>8, TearsElsewhere DEF rvars
  <1> QED
    BY <1>1, <1>2, <1>3, <1>4, <1>5, <1>6, <1>7, <1>8 DEF Next

-----------------------------------------------------------------------------
(***************************************************************************)
(* The payloads.  A payload that a line names, on disk or in a buffer, has *)
(* a file; and a file that is not whole is one that a session is writing,  *)
(* or failed to.                                                           *)
(***************************************************************************)

Held(p) == p \in spoilt \/ \E s \in Sessions : w[s].making = p /\ w[s].created

Filed(d) == \A i \in 1..Len(d) : d[i] # Torn => sidecar[d[i].payload] # "absent"

Stored ==
    /\ \A p \in Payloads : sidecar[p] = "torn" => Held(p)
    /\ Filed(lines)
    /\ \A s \in Sessions : Filed(w[s].buf)

\* What goes out, and what is left in the buffer, are lines of the buffer.
LEMMA FiledOut ==
    ASSUME RTypeOK, NEW s \in Sessions, NEW b \in Seq(Rec), NEW k \in 0..Len(b),
           NEW part, Out(s, b, k, part),
           \A i \in 1..Len(lines) : lines[i] # Torn => sidecar'[lines[i].payload] # "absent",
           \A i \in 1..Len(b) : sidecar'[b[i].payload] # "absent"
    PROVE  /\ Filed(lines)'
           /\ \A q : q = SubSeq(b, k + 1, Len(b)) => Filed(q)'
  <1> DEFINE new == [i \in 1..k |-> IF i = 1 /\ ~Clean(s) THEN Torn ELSE b[i]]
  <1>1. /\ k \in Nat /\ k <= Len(b) /\ Len(b) \in Nat /\ Len(lines) \in Nat
        /\ \A i \in 1..k : i \in 1..Len(b) /\ b[i] \in Rec
        /\ lines \in Seq(Line)
    BY DEF RTypeOK, FileTypes, Line
  <1>2. \A i \in 1..k : new[i] \in {Torn, b[i]}
    OBVIOUS
  <1>3. new \in Seq(Line) /\ Len(new) = k
    <2>1. \A i \in 1..k : new[i] \in Line
      BY <1>1, <1>2 DEF Line
    <2>2. new = [i \in 1..k |-> new[i]] /\ k \in Nat
      BY <1>1
    <2> HIDE DEF new
    <2>3. new \in Seq(Line)
      BY <2>1, <2>2
    <2>4. Len(new) = k
      BY <2>2
    <2> QED BY <2>3, <2>4
  <1>4. lines' = lines \o new
    BY DEF Out
  <1> HIDE DEF new
  <1>5. /\ Len(lines') = Len(lines) + k
        /\ \A i \in 1..(Len(lines) + k) :
              lines'[i] = IF i <= Len(lines) THEN lines[i] ELSE new[i - Len(lines)]
    BY <1>1, <1>3, <1>4, ConcatProperties
  <1>6. ASSUME NEW i \in 1..Len(lines'), lines'[i] # Torn
        PROVE  sidecar'[lines'[i].payload] # "absent"
    <2>1. CASE i <= Len(lines)
      BY <1>1, <1>5, <1>6, <2>1
    <2>2. CASE ~(i <= Len(lines))
      <3>1. i - Len(lines) \in 1..k /\ lines'[i] = new[i - Len(lines)]
        BY <1>1, <1>5, <2>2
      <3>2. lines'[i] = b[i - Len(lines)]
        BY <1>2, <1>6, <3>1
      <3> QED BY <1>1, <3>1, <3>2
    <2> QED BY <2>1, <2>2
  <1>7. ASSUME NEW i \in 1..Len(SubSeq(b, k + 1, Len(b)))
        PROVE  sidecar'[SubSeq(b, k + 1, Len(b))[i].payload] # "absent"
    <2>1. /\ Len(SubSeq(b, k + 1, Len(b))) = IF k + 1 <= Len(b) THEN Len(b) - (k + 1) + 1 ELSE 0
          /\ \A j \in 1..(Len(b) - (k + 1) + 1) : SubSeq(b, k + 1, Len(b))[j] = b[(k + 1) + j - 1]
      <3>1. \A j \in (k + 1)..Len(b) : b[j] \in Rec
        BY <1>1
      <3> QED BY <1>1, <3>1, SubSeqProperties
    <2>2. k + 1 <= Len(b) /\ i \in 1..(Len(b) - (k + 1) + 1) /\ (k + 1) + i - 1 \in 1..Len(b)
      BY <1>1, <2>1
    <2> QED BY <2>1, <2>2
  <1> QED BY <1>6, <1>7 DEF Filed

\* The buffer of s with the line that names p, once p has a file.
LEMMA FiledNext ==
    ASSUME RTypeOK, Stored, NEW s \in Sessions, NEW p \in Payloads, sidecar'[p] # "absent",
           \A q \in Payloads : sidecar[q] # "absent" => sidecar'[q] # "absent"
    PROVE  /\ \A i \in 1..Len(lines) :
                 lines[i] # Torn => sidecar'[lines[i].payload] # "absent"
           /\ \A i \in 1..Len(w[s].buf) : sidecar'[w[s].buf[i].payload] # "absent"
           /\ \A i \in 1..Len(Append(w[s].buf, Record(s, p))) :
                 sidecar'[Append(w[s].buf, Record(s, p))[i].payload] # "absent"
  <1> DEFINE b == w[s].buf
             r == Record(s, p)
  <1>1. b \in Seq(Rec) /\ r \in Rec /\ r.payload = p /\ lines \in Seq(Line)
    BY RecordType DEF RTypeOK, FileTypes, WriterTypes, Writer, Record, Line
  <1>2. \A x \in Line : x # Torn => x.payload \in Payloads
    BY DEF Line, Rec
  <1>3. Filed(lines) /\ Filed(b)
    BY DEF Stored
  <1> HIDE DEF b, r
  <1>4. ASSUME NEW i \in 1..Len(lines), lines[i] # Torn
        PROVE  sidecar'[lines[i].payload] # "absent"
    <2>1. lines[i] \in Line
      BY <1>1
    <2> QED BY <1>2, <1>3, <1>4, <2>1 DEF Filed
  <1>5. ASSUME NEW i \in 1..Len(b)
        PROVE  sidecar'[b[i].payload] # "absent"
    <2>1. b[i] \in Rec /\ b[i] # Torn
      <3>1. b[i] \in Rec
        BY <1>1
      <3> QED BY <3>1, ReceiptsAssumption
    <2> QED BY <1>2, <1>3, <2>1 DEF Filed, Line
  <1>6. /\ Len(Append(b, r)) = Len(b) + 1 /\ Append(b, r)[Len(b) + 1] = r /\ Len(b) \in Nat
        /\ \A i \in 1..Len(b) : Append(b, r)[i] = b[i]
    BY <1>1
  <1>7. ASSUME NEW i \in 1..Len(Append(b, r))
        PROVE  sidecar'[Append(b, r)[i].payload] # "absent"
    <2>1. CASE i \in 1..Len(b)
      BY <1>5, <1>6, <2>1
    <2>2. CASE i = Len(b) + 1
      BY <1>1, <1>6, <2>2
    <2> QED BY <1>6, <2>1, <2>2
  <1> QED BY <1>4, <1>5, <1>7 DEF b, r

\* A step of s, with the other writers as they were.
LEMMA StoredBy ==
    ASSUME RTypeOK, Stored, NEW s \in Sessions,
           \A t \in Sessions \ {s} : w'[t] = w[t],
           \A q \in Payloads : sidecar[q] # "absent" => sidecar'[q] # "absent",
           Filed(lines)', Filed(w[s].buf)',
           \A q \in Payloads : sidecar'[q] = "torn" => Held(q)'
    PROVE  Stored'
  <1>1. ASSUME NEW t \in Sessions \ {s} PROVE Filed(w[t].buf)'
    <2>1. w'[t] = w[t] /\ w[t].buf \in Seq(Line) /\ Filed(w[t].buf)
      BY DEF RTypeOK, WriterTypes, Writer, Line, Stored
    <2>2. \A i \in 1..Len(w[t].buf) :
             w[t].buf[i] # Torn => sidecar'[w[t].buf[i].payload] # "absent"
      <3> DEFINE d == w[t].buf
      <3>1. d \in Seq(Line) /\ Filed(d)
        BY <2>1
      <3>2. \A i \in 1..Len(d) : d[i] \in Line
        BY <3>1
      <3> QED BY <3>1, <3>2 DEF Filed, Line, Rec
    <2> QED BY <2>1, <2>2 DEF Filed
  <1> QED BY <1>1 DEF Stored

\* A step that leaves the files of payloads and of lines as they are, and what
\* the writers hold, but for a writer s that lets go of its buffer or keeps it.
LEMMA StoredAside ==
    ASSUME RTypeOK, Stored, NEW s \in Sessions, UNCHANGED lines,
           \A t \in Sessions \ {s} : w'[t] = w[t],
           w'[s].buf = <<>> \/ w'[s].buf = w[s].buf,
           \A q \in Payloads : sidecar'[q] # sidecar[q] => sidecar'[q] = "torn" /\ Held(q)',
           spoilt \subseteq spoilt',
           w[s].created => \/ w'[s].created /\ w'[s].making = w[s].making
                           \/ w[s].making \in spoilt'
    PROVE  Stored'
  <1>1. \A q \in Payloads : Held(q) => Held(q)'
    <2> SUFFICES ASSUME NEW q \in Payloads, Held(q) PROVE Held(q)'
      OBVIOUS
    <2>1. CASE q \in spoilt
      BY <2>1 DEF Held
    <2>2. ASSUME NEW t \in Sessions, w[t].making = q, w[t].created PROVE Held(q)'
      BY <2>2 DEF Held
    <2> QED BY <2>1, <2>2 DEF Held
  <1>2. \A q \in Payloads : sidecar'[q] = "torn" => Held(q)'
    BY <1>1 DEF Stored
  <1>3. \A q \in Payloads : sidecar[q] # "absent" => sidecar'[q] # "absent"
    OBVIOUS
  <1>4. lines \in Seq(Line) /\ w[s].buf \in Seq(Line)
    BY DEF RTypeOK, FileTypes, WriterTypes, Writer, Line
  <1>5. \A d \in Seq(Line) : Filed(d) =>
           \A i \in 1..Len(d) : d[i] # Torn => sidecar'[d[i].payload] # "absent"
    <2> SUFFICES ASSUME NEW d \in Seq(Line), Filed(d), NEW i \in 1..Len(d), d[i] # Torn
                 PROVE  sidecar'[d[i].payload] # "absent"
      OBVIOUS
    <2>1. d[i] \in Line
      OBVIOUS
    <2>2. d[i].payload \in Payloads
      BY <2>1 DEF Line, Rec
    <2> QED BY <1>3, <2>2 DEF Filed
  <1>6. Filed(lines)'
    BY <1>4, <1>5 DEF Filed, Stored
  <1>7. Filed(w[s].buf)'
    <2>1. CASE w'[s].buf = <<>>
      BY <2>1 DEF Filed
    <2>2. CASE w'[s].buf = w[s].buf
      BY <1>4, <1>5, <2>2, SMTT(30) DEF Filed, Stored
    <2> QED BY <2>1, <2>2
  <1> QED BY <1>2, <1>3, <1>6, <1>7, StoredBy

\* write() names p once p has a file; what it writes out or keeps was queued.
LEMMA StoredWrite ==
    ASSUME RTypeOK, Stored, NEW s \in Sessions, NEW p \in Payloads, NEW end \in BOOLEAN,
           Write(s, p, end)
    PROVE  Stored'
  <1> DEFINE r == Record(s, p)
             b == w[s].buf
             all == Append(b, r)
  <1>1. /\ w \in [Sessions -> Writer] /\ b \in Seq(Rec) /\ r \in Rec /\ all \in Seq(Rec)
        /\ w[s].created \in BOOLEAN /\ (w[s].created => w[s].making # None)
        /\ sidecar \in [Payloads -> {"absent", "torn", "whole"}]
    BY RecordType DEF RTypeOK, WriterTypes, Writer
  <1>2. /\ spoilt' = spoilt
        /\ sidecar'[p] # "absent"
        /\ \A q \in Payloads : sidecar[q] # "absent" => sidecar'[q] # "absent"
        /\ \A q \in Payloads : sidecar'[q] = "torn" => sidecar[q] = "torn"
        /\ w[s].created => w[s].making = p /\ sidecar'[p] = "whole"
    BY <1>1 DEF Write
  <1>3. /\ \A i \in 1..Len(lines) : lines[i] # Torn => sidecar'[lines[i].payload] # "absent"
        /\ \A i \in 1..Len(b) : sidecar'[b[i].payload] # "absent"
        /\ \A i \in 1..Len(all) : sidecar'[all[i].payload] # "absent"
    BY <1>2, FiledNext
  <1> HIDE DEF r, b, all
  <1>4. Filed(lines)' /\ Filed(w[s].buf)' /\ \A t \in Sessions \ {s} : w'[t] = w[t]
    <2>1. ASSUME NEW x \in Seq(Rec), x = b \/ x = all,
                 NEW k \in 0..Len(x), NEW part, Out(s, x, k, part)
          PROVE  Filed(lines)' /\ \A q : q = SubSeq(x, k + 1, Len(x)) => Filed(q)'
      BY <1>3, <2>1, FiledOut
    <2>2. ASSUME NEW x, x = b \/ x = all PROVE Len(x) \in 0..Len(x) /\ x \in Seq(Rec)
      BY <1>1, <2>2
    <2>3. ASSUME NEW spill \in BOOLEAN, Queue(s, p, end, spill)
          PROVE  Filed(lines)' /\ Filed(w[s].buf)' /\ \A t \in Sessions \ {s} : w'[t] = w[t]
      <3> DEFINE due == end \/ w[s].pending + 1 >= FlushEvery
      <3>1. \A t \in Sessions \ {s} : w'[t] = w[t]
        BY <1>1, <2>3 DEF Queue
      <3>2. Filed(lines)'
        <4>1. ASSUME NEW x, x = b \/ x = all, AllOut(s, x) PROVE Filed(lines)'
          BY <2>1, <2>2, <4>1 DEF AllOut
        <4>2. CASE AllOut(s, all) \/ AllOut(s, b)
          BY <4>1, <4>2
        <4>3. CASE lines' = lines
          BY <1>3, <4>3 DEF Filed
        <4> QED BY <2>3, <4>2, <4>3 DEF Queue, all, b, r
      <3>3. w'[s].buf = <<>> \/ w'[s].buf = <<r>> \/ w'[s].buf = all
        BY <1>1, <2>3 DEF Queue, Closed, all, b, r
      <3>4. sidecar'[r.payload] # "absent"
        BY <1>2 DEF r, Record
      <3>5. \A i \in 1..Len(w'[s].buf) : sidecar'[w'[s].buf[i].payload] # "absent"
        <4>1. CASE w'[s].buf = <<>>
          BY <4>1
        <4>2. CASE w'[s].buf = <<r>>
          BY <3>4, <4>2
        <4>3. CASE w'[s].buf = all
          BY <1>3, <4>3
        <4> QED BY <3>3, <4>1, <4>2, <4>3
      <3> QED BY <3>1, <3>2, <3>5 DEF Filed
    <2>4. CASE QueueFails(s, p, end)
      <3>1. PICK x \in {b} \cup {all}, part \in {"none", "some", "all"} :
              \E k \in 0..(Len(x) - 1) :
                /\ x = b \/ end \/ w[s].pending + 1 >= FlushEvery
                /\ Out(s, x, k, part)
                /\ w' = [w EXCEPT ![s] =
                           [Closed EXCEPT !.state = "off",
                                          !.buf = SubSeq(x, k + 1, Len(x)),
                                          !.begun = part # "none" \/ (k = 0 /\ w[s].begun)]]
        BY <2>4, Zenon DEF QueueFails, b, all, r
      <3>2. PICK k \in 0..(Len(x) - 1) :
                /\ Out(s, x, k, part)
                /\ w' = [w EXCEPT ![s] =
                           [Closed EXCEPT !.state = "off",
                                          !.buf = SubSeq(x, k + 1, Len(x)),
                                          !.begun = part # "none" \/ (k = 0 /\ w[s].begun)]]
        BY <3>1
      <3>3. /\ w'[s].buf = SubSeq(x, k + 1, Len(x))
            /\ \A t \in Sessions \ {s} : w'[t] = w[t]
        BY <1>1, <3>2 DEF Closed
      <3>4. x \in Seq(Rec) /\ (x = b \/ x = all)
        BY <1>1
      <3>5. k \in 0..Len(x)
        BY <3>4
      <3>6. Filed(lines)' /\ \A q : q = SubSeq(x, k + 1, Len(x)) => Filed(q)'
        BY <2>1, <3>2, <3>4, <3>5
      <3>7. \A i \in 1..Len(SubSeq(x, k + 1, Len(x))) :
               SubSeq(x, k + 1, Len(x))[i] # Torn =>
                 sidecar'[SubSeq(x, k + 1, Len(x))[i].payload] # "absent"
        BY <3>6 DEF Filed
      <3> QED BY <3>3, <3>6, <3>7 DEF Filed
    <2> QED BY <1>1, <2>3, <2>4 DEF Write
  <1>5. \A q \in Payloads : sidecar'[q] = "torn" => Held(q)'
    <2> SUFFICES ASSUME NEW q \in Payloads, sidecar'[q] = "torn" PROVE Held(q)'
      OBVIOUS
    <2>1. Held(q)
      BY <1>2 DEF Stored
    <2>2. ASSUME NEW t \in Sessions, w[t].making = q, w[t].created PROVE Held(q)'
      <3>1. t # s
        BY <1>2, <2>2
      <3> QED BY <1>4, <2>2, <3>1 DEF Held
    <2> QED BY <1>2, <2>1, <2>2 DEF Held
  <1> QED BY <1>2, <1>4, <1>5, StoredBy

LEMMA StoredStep ==
    ASSUME RTypeOK, OpenMakes, Stored, [Next]_rvars
    PROVE  Stored'
  <1>a. /\ w \in [Sessions -> Writer] /\ sidecar \in [Payloads -> {"absent", "torn", "whole"}]
        /\ \A t \in Sessions : /\ w[t] \in Writer /\ w[t].created \in BOOLEAN
                               /\ w[t].created => w[t].making \in Payloads
                               /\ w[t].created => w[t].state = "open"
                               /\ w[t].making \in Payloads \cup {None}
    BY DEF RTypeOK, WriterTypes, Writer, OpenMakes
  <1>1. ASSUME NEW s \in Sessions, Open(s) PROVE Stored'
    <2>1. /\ UNCHANGED lines /\ sidecar' = sidecar /\ spoilt' = spoilt
          /\ w'[s].buf = <<>> /\ ~w[s].created
          /\ \A t \in Sessions \ {s} : w'[t] = w[t]
      BY <1>1, <1>a DEF Open, Closed
    <2> QED BY <2>1, StoredAside
  <1>2. ASSUME NEW s \in Sessions, NEW p \in Payloads, NEW end \in BOOLEAN, Write(s, p, end)
        PROVE  Stored'
    BY <1>2, StoredWrite
  <1>3. ASSUME NEW s \in Sessions, Create(s) PROVE Stored'
    <2>1. /\ UNCHANGED lines /\ spoilt' = spoilt
          /\ sidecar' = [sidecar EXCEPT ![w[s].making] = "torn"]
          /\ w'[s].buf = w[s].buf /\ w'[s].making = w[s].making /\ w'[s].created
          /\ \A t \in Sessions \ {s} : w'[t] = w[t]
      BY <1>3, <1>a DEF Create, Writer
    <2>2. \A q \in Payloads : sidecar'[q] # sidecar[q] => sidecar'[q] = "torn" /\ Held(q)'
      BY <2>1, <1>a DEF Held
    <2> QED BY <2>1, <2>2, StoredAside
  <1>4. ASSUME NEW s \in Sessions, PayloadFails(s) PROVE Stored'
    <2>1. /\ UNCHANGED lines /\ sidecar' = sidecar /\ spoilt \subseteq spoilt'
          /\ w[s].created => w[s].making \in spoilt'
          /\ w'[s].buf = w[s].buf
          /\ \A t \in Sessions \ {s} : w'[t] = w[t]
      BY <1>4, <1>a DEF PayloadFails, Writer
    <2> QED BY <2>1, StoredAside
  <1>5. ASSUME NEW s \in Sessions, Close(s) PROVE Stored'
    <2>1. /\ sidecar' = sidecar /\ spoilt' = spoilt /\ ~w[s].created
          /\ w'[s].buf = <<>> /\ w[s].buf \in Seq(Rec)
          /\ \A t \in Sessions \ {s} : w'[t] = w[t]
      BY <1>5, <1>a DEF Close, Gone, Closed, Writer
    <2>2. /\ \A i \in 1..Len(lines) : lines[i] # Torn => sidecar'[lines[i].payload] # "absent"
          /\ \A i \in 1..Len(w[s].buf) : sidecar'[w[s].buf[i].payload] # "absent"
      <3>1. \A i \in 1..Len(w[s].buf) : w[s].buf[i] # Torn
        <4>1. \A i \in 1..Len(w[s].buf) : w[s].buf[i] \in Rec
          BY <2>1
        <4> QED BY <4>1, ReceiptsAssumption
      <3> QED BY <2>1, <3>1 DEF Stored, Filed
    <2>3. \E k \in 0..Len(w[s].buf), part \in {"none", "some", "all"} : Out(s, w[s].buf, k, part)
      <3>1. CASE AllOut(s, w[s].buf)
        <4>1. Len(w[s].buf) \in 0..Len(w[s].buf)
          BY <2>1
        <4> QED BY <3>1, <4>1 DEF AllOut
      <3>2. CASE \E k \in 0..(Len(w[s].buf) - 1), part \in {"none", "some", "all"} :
                    Out(s, w[s].buf, k, part)
        <4>1. \A k \in 0..(Len(w[s].buf) - 1) : k \in 0..Len(w[s].buf)
          BY <2>1
        <4> QED BY <3>2, <4>1
      <3> QED BY <1>5, <3>1, <3>2 DEF Close
    <2>4. Filed(lines)'
      BY <2>1, <2>2, <2>3, FiledOut
    <2>5. Filed(w[s].buf)'
      BY <2>1 DEF Filed
    <2>6. \A q \in Payloads : sidecar'[q] = "torn" => Held(q)'
      <3> SUFFICES ASSUME NEW q \in Payloads, sidecar'[q] = "torn" PROVE Held(q)'
        OBVIOUS
      <3>1. Held(q)
        BY <2>1 DEF Stored
      <3> QED BY <2>1, <3>1 DEF Held
    <2> QED BY <2>1, <2>4, <2>5, <2>6, StoredBy
  <1>6. ASSUME NEW s \in Sessions, Die(s) PROVE Stored'
    <2>1. /\ UNCHANGED lines /\ sidecar' = sidecar /\ spoilt \subseteq spoilt'
          /\ w[s].created => w[s].making \in spoilt'
          /\ w'[s].buf = <<>>
          /\ \A t \in Sessions \ {s} : w'[t] = w[t]
      BY <1>6, <1>a DEF Die, Gone, Closed
    <2> QED BY <2>1, StoredAside
  <1>7. ASSUME NEW s \in Sessions, NEW p \in Payloads, Decide(s, p) PROVE Stored'
    <2>1. /\ UNCHANGED lines /\ sidecar' = sidecar /\ spoilt' = spoilt
          /\ w'[s].buf = w[s].buf /\ w[s].making = None
          /\ \A t \in Sessions \ {s} : w'[t] = w[t]
      BY <1>7, <1>a DEF Decide, Writer
    <2>2. ~w[s].created
      BY <2>1, <1>a, ReceiptsAssumption
    <2> QED BY <2>1, <2>2, StoredAside
  <1>8. CASE UNCHANGED rvars
    BY <1>8 DEF rvars, Stored, Filed, Held
  <1> QED
    BY <1>1, <1>2, <1>3, <1>4, <1>5, <1>6, <1>7, <1>8 DEF Next

\* Without a failure the file is a chain of lines that end in newlines, all of
\* whose payloads are stored: it passes.
LEMMA NoAlarm ==
    ASSUME RTypeOK, OneChain, OpenMakes, Stored
    PROVE  NoFalseAlarm
  <1> SUFFICES ASSUME ~overlapped, ~failed, spoilt = {}, \A s \in Sessions : ~Live(s)
               PROVE  Verified
    BY DEF NoFalseAlarm
  <1>1. File = lines /\ \A i \in 1..Len(lines) : Linked(lines, i)
    BY DEF OneChain, File, IsChain
  <1>2. \A s \in Sessions : ~w[s].created
    BY DEF OpenMakes, RTypeOK, WriterTypes, Live
  <1>3. \A p \in Payloads : sidecar[p] # "torn"
    BY <1>2 DEF Stored, Held
  <1>4. ASSUME NEW i \in 1..Len(lines) PROVE sidecar[lines[i].payload] = "whole"
    <2>1. lines[i] # Torn /\ lines[i] \in Rec \cup {Torn}
      BY <1>1 DEF Linked, RTypeOK, FileTypes
    <2>2. lines[i].payload \in Payloads
      BY <2>1 DEF Rec
    <2>3. sidecar[lines[i].payload] # "absent"
      BY <2>1 DEF Stored, Filed
    <2> QED BY <1>3, <2>2, <2>3 DEF RTypeOK
  <1> QED BY <1>1, <1>4 DEF Verified

\* What a verifier reads holds up, as far as the disk did: the lines before the
\* first torn one are a chain, whichever writes fail and wherever a session is
\* killed; a line's payload is stored, unless the session storing it died or
\* failed; and a log that nothing has touched passes.
THEOREM VerifierIsRight == Spec => []Verifiable
  <1> DEFINE Inv == RTypeOK /\ OpenMakes /\ Tears /\ Stored
  <1>1. Init => Inv
    <2> SUFFICES ASSUME Init PROVE Inv
      OBVIOUS
    <2>1. RTypeOK /\ \A s \in Sessions : w[s] = Closed
      BY TypesInit
    <2>2. \A s \in Sessions : /\ ~Live(s) /\ w[s].begun = FALSE /\ w[s].making = None
                              /\ w[s].buf = <<>>
      <3>1. /\ Closed.state = "new" /\ Closed.begun = FALSE /\ Closed.making = None
            /\ Closed.buf = <<>>
        BY DEF Closed
      <3> QED BY <2>1, <3>1 DEF Live
    <2>3. lines = <<>> /\ \A p \in Payloads : sidecar[p] = "absent"
      BY DEF Init
    <2>4. VerifiableUpToTear
      BY <2>3 DEF VerifiableUpToTear
    <2>5. Stored
      BY <2>2, <2>3 DEF Stored, Filed
    <2> QED BY <2>1, <2>2, <2>4, <2>5 DEF OpenMakes, Tears, OneAtATime, Continues
  <1>2. Inv /\ [Next]_rvars => Inv'
    BY TypesStep, OpenMakesStep, TearsStep, StoredStep
  <1>3. Inv /\ OneChain => Verifiable
    <2> SUFFICES ASSUME Inv, OneChain PROVE Verifiable
      OBVIOUS
    <2>1. PayloadStored
      <3> SUFFICES ASSUME NEW i \in 1..Len(lines), lines[i] # Torn
                   PROVE  \/ sidecar[lines[i].payload] = "whole"
                          \/ Held(lines[i].payload)
        BY DEF PayloadStored, Held
      <3>1. lines[i].payload \in Payloads
        <4>1. lines[i] \in Rec \cup {Torn}
          BY DEF RTypeOK, FileTypes
        <4> QED BY <4>1 DEF Rec
      <3>2. sidecar[lines[i].payload] \in {"torn", "whole"}
        BY <3>1 DEF Stored, Filed, RTypeOK
      <3> QED BY <3>1, <3>2 DEF Stored
    <2> QED BY <2>1, NoAlarm DEF Verifiable, Tears
  <1>4. Spec => []Inv
    <2> HIDE DEF Inv
    <2> QED BY <1>1, <1>2, PTL DEF Spec
  <1> HIDE DEF Inv
  <1> QED
    BY <1>3, <1>4, OneChainHolds, PTL

-----------------------------------------------------------------------------
(***************************************************************************)
(* Tampering.  What a line's prev_hash covers is what came before it, so a *)
(* chain can be read off its last line.                                    *)
(***************************************************************************)

\* The line at i covers the number and the payload of each line before it.
Covers(d, i) ==
    /\ Len(d[i].prev) = i - 1
    /\ \A j \in 1..(i - 1) : d[i].prev[j] = [seq |-> j, payload |-> d[j].payload]

\* Appending tells what was appended to, and what.
LEMMA AppendTells ==
    ASSUME NEW S, NEW x \in Seq(S), NEW y \in Seq(S), NEW a \in S, NEW b \in S,
           Append(x, a) = Append(y, b)
    PROVE  x = y /\ a = b
  <1>1. /\ Len(Append(x, a)) = Len(x) + 1 /\ Len(Append(y, b)) = Len(y) + 1
        /\ Append(x, a)[Len(x) + 1] = a /\ Append(y, b)[Len(y) + 1] = b
        /\ \A i \in 1..Len(x) : Append(x, a)[i] = x[i]
        /\ \A i \in 1..Len(y) : Append(y, b)[i] = y[i]
        /\ Len(x) \in Nat /\ Len(y) \in Nat
    OBVIOUS
  <1>2. Len(x) = Len(y)
    BY <1>1
  <1>3. a = b
    BY <1>1, <1>2
  <1>4. \A i \in 1..Len(x) : x[i] = y[i]
    BY <1>1, <1>2
  <1> QED BY <1>2, <1>3, <1>4, SeqEqual

\* The lines of a chain, and what they are hashed from.
LEMMA ChainLines ==
    ASSUME NEW d \in Seq(Line), IsChain(d), NEW i \in 1..Len(d)
    PROVE  /\ d[i] \in Rec /\ d[i] # Torn /\ d[i].seq = i
           /\ d[i].payload \in Payloads /\ d[i].prev \in Seq(Entry)
           /\ [seq |-> d[i].seq, payload |-> d[i].payload] \in Entry
           /\ d[i].prev = IF i = 1 THEN <<>> ELSE Hash(d[i - 1])
  <1>1. d[i] \in Line /\ Linked(d, i)
    BY DEF IsChain
  <1>2. d[i] \in Rec
    BY <1>1 DEF Linked, Line
  <1> QED BY <1>1, <1>2 DEF Linked, Rec, Entry

LEMMA ChainCovers ==
    ASSUME NEW d \in Seq(Line), IsChain(d)
    PROVE  \A i \in 1..Len(d) : Covers(d, i)
  <1> DEFINE T == {n \in Nat : n + 1 \in 1..Len(d) => Covers(d, n + 1)}
  <1>1. 0 \in T
    <2> SUFFICES ASSUME 1 \in 1..Len(d) PROVE Covers(d, 1)
      OBVIOUS
    <2>1. d[1].prev = <<>>
      BY ChainLines
    <2> QED BY <2>1 DEF Covers
  <1>2. ASSUME NEW n \in Nat, n \in T PROVE n + 1 \in T
    <2> SUFFICES ASSUME (n + 1) + 1 \in 1..Len(d) PROVE Covers(d, (n + 1) + 1)
      OBVIOUS
    <2> DEFINE i == n + 1
    <2>1. i \in 1..Len(d) /\ i + 1 \in 1..Len(d) /\ i \in Nat /\ i >= 1 /\ Len(d) \in Nat
      OBVIOUS
    <2>2. Covers(d, i)
      BY <1>2, <2>1
    <2> HIDE DEF i, T
    <2> DEFINE p == d[i].prev
               a == [seq |-> d[i].seq, payload |-> d[i].payload]
    <2>3. p \in Seq(Entry) /\ a \in Entry /\ d[i].seq = i
      BY <2>1, ChainLines
    <2>4. d[i + 1].prev = Append(p, a)
      <3>1. i + 1 # 1 /\ (i + 1) - 1 = i
        BY <2>1
      <3>2. d[i + 1].prev = Hash(d[i])
        BY <2>1, <3>1, ChainLines, ZenonT(40)
      <3> QED BY <3>2 DEF Hash
    <2>5. Len(p) = i - 1 /\ \A j \in 1..(i - 1) : p[j] = [seq |-> j, payload |-> d[j].payload]
      BY <2>2 DEF Covers
    <2>6. a = [seq |-> i, payload |-> d[i].payload]
      BY <2>3
    <2> HIDE DEF p, a
    <2>7. /\ Len(Append(p, a)) = Len(p) + 1 /\ Append(p, a)[Len(p) + 1] = a
          /\ \A j \in 1..Len(p) : Append(p, a)[j] = p[j]
      BY <2>3
    <2>8. Covers(d, i + 1)
      <3>1. Len(d[i + 1].prev) = (i + 1) - 1
        BY <2>1, <2>4, <2>5, <2>7
      <3>2. ASSUME NEW j \in 1..((i + 1) - 1)
            PROVE  d[i + 1].prev[j] = [seq |-> j, payload |-> d[j].payload]
        <4>1. CASE j = i
          BY <2>1, <2>4, <2>5, <2>6, <2>7, <4>1
        <4>2. CASE j # i
          <5>1. j \in 1..(i - 1) /\ j \in 1..Len(p)
            BY <2>1, <2>5, <4>2
          <5> QED BY <2>4, <2>5, <2>7, <5>1
        <4> QED BY <4>1, <4>2
      <3> QED BY <3>1, <3>2 DEF Covers
    <2> QED BY <2>8 DEF i
  <1>3. Nat \subseteq T
    <2> HIDE DEF T
    <2> QED BY <1>1, <1>2, AllNat
  <1>4. ASSUME NEW i \in 1..Len(d) PROVE Covers(d, i)
    <2>1. i - 1 \in Nat /\ (i - 1) + 1 = i
      OBVIOUS
    <2>2. i - 1 \in T
      BY <1>3, <2>1
    <2> QED BY <2>1, <2>2
  <1> QED BY <1>4

\* Whoever rewrites a log, in any way, has to change its last line: two files
\* that verify and end in the same record are the same file.  (The signature
\* and the hash of that record vouch for all of them.)
THEOREM LastLineFixesLog ==
    ASSUME NEW d \in Seq(Line), NEW e \in Seq(Line), IsChain(d), IsChain(e),
           d # <<>>, e # <<>>, d[Len(d)] = e[Len(e)]
    PROVE  d = e
  <1>1. Len(d) \in 1..Len(d) /\ Len(e) \in 1..Len(e) /\ Len(d) \in Nat /\ Len(e) \in Nat
    OBVIOUS
  <1>2. Len(d) = Len(e)
    <2>1. d[Len(d)].seq = Len(d) /\ e[Len(e)].seq = Len(e)
      BY <1>1, ChainLines
    <2> QED BY <2>1
  <1> DEFINE n == Len(d)
  <1>3. n \in Nat /\ n \in 1..Len(d) /\ n \in 1..Len(e) /\ d[n] = e[n]
    BY <1>1, <1>2
  <1> HIDE DEF n
  <1>4. Covers(d, n) /\ Covers(e, n)
    BY <1>3, ChainCovers
  <1>5. ASSUME NEW i \in 1..n PROVE d[i].payload = e[i].payload
    <2>1. CASE i = n
      BY <1>3, <2>1
    <2>2. CASE i # n
      <3>1. i \in 1..(n - 1)
        BY <1>3, <2>2
      <3>2. d[n].prev[i] = [seq |-> i, payload |-> d[i].payload]
        BY <1>4, <3>1 DEF Covers
      <3>3. e[n].prev[i] = [seq |-> i, payload |-> e[i].payload]
        BY <1>4, <3>1 DEF Covers
      <3>4. [seq |-> i, payload |-> d[i].payload] = [seq |-> i, payload |-> e[i].payload]
        BY <1>3, <3>2, <3>3
      <3> QED BY <3>4
    <2> QED BY <2>1, <2>2
  <1>6. ASSUME NEW i \in 1..n PROVE d[i] = e[i]
    <2>1. /\ i \in 1..Len(d) /\ i \in 1..Len(e) /\ i \in Nat /\ i <= n
      BY <1>2, <1>3 DEF n
    <2>2. /\ d[i] \in Rec /\ d[i].seq = i /\ d[i].prev \in Seq(Entry)
          /\ e[i] \in Rec /\ e[i].seq = i /\ e[i].prev \in Seq(Entry)
      BY <2>1, ChainLines
    <2>3. Covers(d, i) /\ Covers(e, i)
      BY <2>1, ChainCovers
    <2>4. Len(d[i].prev) = Len(e[i].prev) /\ Len(d[i].prev) = i - 1
      BY <2>3 DEF Covers
    <2>5. \A j \in 1..(i - 1) : d[i].prev[j] = e[i].prev[j]
      <3>1. \A j \in 1..(i - 1) : j \in 1..n
        BY <1>3, <2>1
      <3>2. \A j \in 1..(i - 1) : d[j].payload = e[j].payload
        BY <1>5, <3>1
      <3> QED BY <2>3, <3>2 DEF Covers
    <2>6. d[i].prev = e[i].prev
      BY <2>2, <2>4, <2>5, SeqEqual
    <2>7. d[i].payload = e[i].payload
      BY <1>5
    <2> QED BY <2>2, <2>6, <2>7, SMTT(30) DEF Rec
  <1> QED BY <1>2, <1>6, SeqEqual DEF n

LEMMA EditsShow ==
    ASSUME NEW d \in Seq(Line), IsChain(d), NEW e \in Edits(d) \ {d}
    PROVE  ~IsChain(e)
  <1> DEFINE Without(i) == [j \in 1..(Len(d) - 1) |-> d[IF j < i THEN j ELSE j + 1]]
             Swapped(i) == [d EXCEPT ![i] = d[i + 1], ![i + 1] = d[i]]
             Paid(i, p) == [d EXCEPT ![i].payload = p]
  <1>1. PICK i \in 1..(Len(d) - 1) :
           e = Without(i) \/ e = Swapped(i) \/ \E p \in Payloads : e = Paid(i, p)
    BY DEF Edits
  <1>2. /\ Len(d) \in Nat /\ i \in 1..Len(d) /\ i + 1 \in 1..Len(d) /\ i \in Nat /\ i >= 1
        /\ DOMAIN d = 1..Len(d) /\ Len(d) - 1 \in Nat
    OBVIOUS
  <1>3. d[i + 1].seq = i + 1 /\ d[i].seq = i
    BY <1>2, ChainLines
  \* The next line has moved to i.
  <1>4. ASSUME i \in 1..Len(e), e[i] = d[i + 1]
        PROVE  ~IsChain(e)
    <2>1. ~(e[i].seq = i)
      BY <1>2, <1>3, <1>4
    <2> QED BY <1>4, <2>1 DEF IsChain, Linked
  <1>5. CASE e = Without(i)
    <2> DEFINE at(j) == IF j < i THEN j ELSE j + 1
    <2>1. e = [j \in 1..(Len(d) - 1) |-> d[at(j)]]
      BY <1>5
    <2>2. at(i) = i + 1
      BY <1>2
    <2>3. \A j \in 1..(Len(d) - 1) : d[at(j)] \in Line
      <3>1. \A j \in 1..(Len(d) - 1) : at(j) \in 1..Len(d)
        BY <1>2
      <3> HIDE DEF at
      <3> QED BY <3>1
    <2> HIDE DEF at
    <2> DEFINE n == Len(d) - 1
    <2>n. n \in Nat /\ i \in 1..n
      BY <1>2
    <2>4. e \in Seq(Line) /\ DOMAIN e = 1..n
      <3>1. e = [j \in 1..n |-> d[at(j)]]
        BY <2>1
      <3>2. \A j \in 1..n : d[at(j)] \in Line
        BY <2>3
      <3> HIDE DEF n
      <3>3. DOMAIN e = 1..n
        BY <3>1
      <3>4. e \in [1..n -> Line]
        BY <3>1, <3>2
      <3> QED BY <2>n, <3>3, <3>4
    <2>5. e[i] = d[i + 1]
      BY <2>1, <2>2
    <2>6. i \in 1..Len(e)
      BY <2>n, <2>4
    <2> QED BY <1>4, <2>5, <2>6
  <1>6. CASE e = Swapped(i)
    <2>1. DOMAIN e = 1..Len(d) /\ e[i] = d[i + 1]
      BY <1>2, <1>6
    <2>2. Len(e) = Len(d)
      BY <1>2, <1>6
    <2> QED BY <1>2, <1>4, <2>1, <2>2
  <1>7. ASSUME NEW p \in Payloads, e = Paid(i, p)
        PROVE  ~IsChain(e)
    <2>1. /\ e = [d EXCEPT ![i] = [d[i] EXCEPT !.payload = p]]
          /\ d[i] \in Rec
      BY <1>2, <1>7, ChainLines
    <2>2. Len(e) = Len(d) /\ e[i] = [d[i] EXCEPT !.payload = p] /\ e[i + 1] = d[i + 1]
      BY <1>2, <2>1
    <2>3. /\ e[i].seq = d[i].seq /\ e[i].prev = d[i].prev /\ e[i].payload = p
      BY <2>1, <2>2 DEF Rec
    <2>4. p # d[i].payload
      <3> SUFFICES ASSUME p = d[i].payload PROVE e = d
        OBVIOUS
      <3>1. [d[i] EXCEPT !.payload = p] = d[i]
        BY <2>1 DEF Rec
      <3> QED BY <1>2, <2>1, <3>1
    <2>5. d[i + 1].prev = Hash(d[i])
      <3> DEFINE k == i + 1
      <3>1. k # 1 /\ k - 1 = i /\ k \in 1..Len(d)
        BY <1>2
      <3> HIDE DEF k
      <3>2. d[k].prev = IF k = 1 THEN <<>> ELSE Hash(d[k - 1])
        BY <3>1, ChainLines
      <3>3. d[k].prev = Hash(d[i])
        BY <3>1, <3>2
      <3> QED BY <3>3 DEF k
    <2>6. Hash(e[i]) # Hash(d[i])
      <3> DEFINE a == [seq |-> d[i].seq, payload |-> d[i].payload]
                 b == [seq |-> d[i].seq, payload |-> p]
      <3>1. /\ d[i].prev \in Seq(Entry) /\ a \in Entry
        BY <1>2, ChainLines
      <3>2. b \in Entry /\ a # b
        BY <2>4, <3>1 DEF Entry
      <3>3. Hash(d[i]) = Append(d[i].prev, a) /\ Hash(e[i]) = Append(d[i].prev, b)
        BY <2>3 DEF Hash
      <3> HIDE DEF a, b
      <3> QED BY <3>1, <3>2, <3>3, AppendTells
    <2>7. e[i + 1].prev # Hash(e[i])
      BY <2>2, <2>5, <2>6
    <2>8. ~Linked(e, i + 1)
      <3>1. i + 1 # 1 /\ (i + 1) - 1 = i
        BY <1>2
      <3> QED BY <2>7, <3>1 DEF Linked
    <2> QED BY <1>2, <2>2, <2>8 DEF IsChain
  <1> QED BY <1>1, <1>5, <1>6, <1>7

\* No line before the last can be left out, swapped with the next or given
\* another payload without the verifier seeing it.
THEOREM EditsAreSeen == Spec => []TamperEvident
  <1>1. RTypeOK => TamperEvident
    BY EditsShow DEF RTypeOK, FileTypes, Line, TamperEvident
  <1> QED BY <1>1, ReceiptsTypes, PTL
=============================================================================
