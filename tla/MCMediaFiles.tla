------------------------------ MODULE MCMediaFiles ------------------------------
(* Two goroutines that store three files, under their IDs or one shared key.   *)
EXTENDS MediaFiles, TLC

CONSTANTS g1, g2, x1, x2

Alike == Permutations({g1, g2}) \cup Permutations({x1, x2})
=============================================================================
