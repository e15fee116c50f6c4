--------------------------- MODULE MCSatnogsClient ---------------------------
(* A small instance of SatnogsClient.                                      *)
EXTENDS SatnogsClient

AnyHeader == {-1, 0, 1, 9, NaN, Unparsed}
=============================================================================
