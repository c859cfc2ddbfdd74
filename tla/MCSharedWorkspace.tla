------------------------- MODULE MCSharedWorkspace -------------------------
(* Instances of SharedWorkspace for TLC. *)
EXTENDS SharedWorkspace

CONSTANTS c1, c2, orig, w1, w2
=============================================================================
