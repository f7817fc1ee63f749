------------------------ MODULE MCPlatformInvoice ------------------------
(* Instances of PlatformInvoice for TLC. *)
EXTENDS PlatformInvoice, TLC

Symmetry == Permutations(Txn) \cup Permutations(Clerk)

=============================================================================
