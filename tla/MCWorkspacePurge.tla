------------------------ MODULE MCWorkspacePurge ------------------------
(* Instances of WorkspacePurge.                                          *)
EXTENDS WorkspacePurge

CONSTANTS e1, e2, e3, r1, r2, k1, k2, c1, v1, v2

=============================================================================
