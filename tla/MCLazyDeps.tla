------------------------------ MODULE MCLazyDeps ------------------------------
(* Small instances of LazyDeps.                                             *)
EXTENDS LazyDeps

CONSTANTS g1, g2, a, b, c, s1, s2

=============================================================================
