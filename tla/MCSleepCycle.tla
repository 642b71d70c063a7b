---------------------------- MODULE MCSleepCycle ----------------------------
(* SleepCycle with interchangeable conversations and request slots; facts may *)
(* be exchanged as far as that leaves the similar pairs as they are.        *)
EXTENDS SleepCycle, TLC

KeepsSimilar(perm) == {{perm[f] : f \in pair} : pair \in Similar} = Similar
Symmetry == Permutations(Conv) \cup Permutations(Request)
                \cup {perm \in Permutations(Fact) : KeepsSimilar(perm)}
=============================================================================
