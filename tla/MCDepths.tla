------------------------------ MODULE MCDepths ------------------------------
(* Two pods of each service while the depths are read once.                *)
EXTENDS Depths, MCPipeline

FirstFrame == <<r1, 0>>
=============================================================================
