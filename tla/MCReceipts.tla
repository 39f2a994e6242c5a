----------------------------- MODULE MCReceipts -----------------------------
\* Small instances of Receipts.
EXTENDS Receipts, TLC

Symmetry == Permutations(Sessions) \cup Permutations(Payloads)
=============================================================================
