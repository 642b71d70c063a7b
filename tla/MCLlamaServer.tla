---------------------------- MODULE MCLlamaServer ----------------------------
(* Instances of LlamaServer for TLC. *)
EXTENDS LlamaServer, TLC

CONSTANTS r1, r2, r3

Gen(s, k, stream) == [kind |-> "gen", slot |-> s, kids |-> k, stream |-> stream]
Op(s) == [kind |-> "op", slot |-> s, kids |-> 0, stream |-> FALSE]

\* A completion with two choices, a streamed chat completion, and a completion
\* pinned to a slot or an erase of a slot.
MixedShapes ==
    r1 :> {Gen(AnySlot, 1, FALSE)} @@ r2 :> {Gen(AnySlot, 0, TRUE)}
      @@ r3 :> {Gen(2, 0, FALSE), Op(1)}
TwoShapes ==
    r1 :> {Gen(AnySlot, 1, FALSE)} @@ r2 :> {Gen(AnySlot, 0, TRUE), Op(1), Gen(2, 0, TRUE)}
FamilyShapes ==
    r1 :> {Gen(AnySlot, 1, FALSE)} @@ r2 :> {Gen(AnySlot, 0, FALSE)}
PlainShapes == [r \in Request |-> {Gen(AnySlot, 0, FALSE)}]
=============================================================================
