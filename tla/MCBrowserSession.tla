-------------------------- MODULE MCBrowserSession --------------------------
(* Model values for BrowserSession *)
EXTENDS BrowserSession, TLC

Symmetry == Permutations(Tab) \cup Permutations(Isp)

=============================================================================
