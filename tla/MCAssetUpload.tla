------------------------------ MODULE MCAssetUpload ------------------------------
(* Two processes of one build, or one of each of two builds that share an      *)
(* asset; the builds have their own migrations, or are given one ID.           *)
EXTENDS AssetUpload, TLC

CONSTANTS p1, p2, b1, b2, h1, h2, a, m1, m2

Pairs == {p1 :> b1 @@ p2 :> b1, p1 :> b1 @@ p2 :> b2}
Changed == b1 :> <<[path |-> a, hash |-> h1]>> @@ b2 :> <<[path |-> a, hash |-> h2]>>
Names == {b1 :> m1 @@ b2 :> m2, b1 :> m1 @@ b2 :> m1}
\* The clock of p2 is ahead.
Skew == p1 :> 0 @@ p2 :> 1
=============================================================================
