--------------------------- MODULE MCRedemption ---------------------------
(* Instances of Redemption for TLC. *)
EXTENDS Redemption, TLC

Symmetry == Permutations(Token) \cup Permutations(Session)
              \cup Permutations(Redeemer) \cup Permutations(Clerk)

=============================================================================
