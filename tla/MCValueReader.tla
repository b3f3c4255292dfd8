---------------------------- MODULE MCValueReader ----------------------------
(* Instances of ValueReader for TLC.                                       *)
EXTENDS ValueReader

=============================================================================
