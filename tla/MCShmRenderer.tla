---------------------------- MODULE MCShmRenderer ----------------------------
(* Instances of ShmRenderer for TLC. *)
EXTENDS ShmRenderer

Both == {"same", "other"}
=============================================================================
