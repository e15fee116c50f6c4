------------------------------ MODULE MCArchive ------------------------------
(* A small instance of Archive.                                            *)
EXTENDS Archive

CONSTANTS w1, w2, k1, k2
=============================================================================
