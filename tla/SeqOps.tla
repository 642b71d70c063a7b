-------------------------------- MODULE SeqOps --------------------------------
(***************************************************************************)
(* Two operators on sequences, defined by recursive functions so that what *)
(* they compute can be proved (SeqOpsProofs) as well as evaluated.         *)
(***************************************************************************)
EXTENDS Integers, Sequences

\* The elements of s that are in T, up to each position, in order.
FilterUpTo(s, T) ==
    LET f[n \in 0 .. Len(s)] ==
            IF n = 0 THEN <<>>
            ELSE IF s[n] \in T THEN Append(f[n - 1], s[n]) ELSE f[n - 1]
    IN  f

\* The elements of s that are in T, in order.
Filter(s, T) == FilterUpTo(s, T)[Len(s)]

\* The sum of the numbers of w from each position on.
SuffixSums(w) ==
    LET f[k \in 1 .. Len(w) + 1] == IF k > Len(w) THEN 0 ELSE w[k] + f[k + 1]
    IN  f
=============================================================================
