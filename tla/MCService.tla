------------------------------ MODULE MCService ------------------------------
(* Two satellites; a round of fetches may take longer than the refresh.    *)
EXTENDS Service

=============================================================================
