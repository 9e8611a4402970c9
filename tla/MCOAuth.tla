-------------------------------- MODULE MCOAuth --------------------------------
(* A small instance of OAuth.                                                 *)
EXTENDS OAuth

CONSTANTS r1, r2, c1, noClient, noRequest
=============================================================================
