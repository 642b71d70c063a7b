---------------------------- MODULE MCSupervisor ----------------------------
(* Supervisor with a small set of interchangeable children.                *)
EXTENDS Supervisor, TLC

ChildSymmetry == Permutations(Child)
=============================================================================
