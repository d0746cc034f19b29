--------------------------- MODULE MCUploadSession ---------------------------
(* Instances of UploadSession for TLC.                                      *)
EXTENDS UploadSession

CONSTANTS u1, u2
=============================================================================
