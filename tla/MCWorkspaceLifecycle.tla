------------------------ MODULE MCWorkspaceLifecycle ------------------------
(* Instances of WorkspaceLifecycle for TLC. *)
EXTENDS WorkspaceLifecycle

CONSTANTS e1, e2, u1, s1, s2, d1, d2, w1, w2
=============================================================================
