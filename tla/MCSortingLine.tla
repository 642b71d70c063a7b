---------------------------- MODULE MCSortingLine ----------------------------
(* Instances of SortingLine for TLC. *)
EXTENDS SortingLine
=============================================================================
