------------------------------ MODULE AuditLog ------------------------------
(***************************************************************************)
(* What the receipts log promises, whatever it is written with: the events *)
(* of each session reach the log in order and without a gap, nothing that  *)
(* is in the log ever leaves it, and a session that dies loses fewer than  *)
(* Limit events, the last ones it reported.  All this holds until a write  *)
(* to the disk fails.                                                      *)
(***************************************************************************)
EXTENDS Naturals, Sequences

CONSTANTS Sessions, Payloads, Limit

VARIABLES log,      \* the payloads of the entries that can be read back
          queue,    \* session -> payloads reported and not in the log yet
          broken    \* a write has failed

logVars == <<log, queue, broken>>

Init ==
    /\ log = <<>>
    /\ queue = [s \in Sessions |-> <<>>]
    /\ broken = FALSE

\* s reports `new`, at most one event, and all it has queued up to place k
\* becomes readable.
Advance(s, new, k) ==
    LET all == queue[s] \o new IN
    /\ log' = log \o SubSeq(all, 1, k)
    /\ queue' = [queue EXCEPT ![s] = SubSeq(all, k + 1, Len(all))]
    /\ Len(queue'[s]) < Limit
    /\ UNCHANGED broken

Lose(s) ==
    /\ queue' = [queue EXCEPT ![s] = <<>>]
    /\ UNCHANGED <<log, broken>>

\* With a disk that fails there is no promise.
Break == broken' = TRUE

Next ==
    \/ \E s \in Sessions :
          \/ \E new \in {<<>>} \cup {<<p>> : p \in Payloads} :
                \E k \in 0..Len(queue[s] \o new) : Advance(s, new, k)
          \/ Lose(s)
    \/ Break

Spec == Init /\ [][Next]_logVars
=============================================================================
