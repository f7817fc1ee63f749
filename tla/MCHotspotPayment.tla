-------------------------- MODULE MCHotspotPayment --------------------------
(***************************************************************************)
(* Model checking of HotspotPayment.                                       *)
(***************************************************************************)
EXTENDS HotspotPayment, TLC

\* Handlers, rows and transactions are interchangeable: no definition tells
\* two of them apart.
Symmetry ==
    Permutations(Session) \cup Permutations(Txn)
    \cup Permutations(Request) \cup Permutations(Callback)
=============================================================================
