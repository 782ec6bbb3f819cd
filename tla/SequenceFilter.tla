--------------------------- MODULE SequenceFilter ---------------------------
(***************************************************************************)
(* The elements of a sequence that are in a given set, in their order: a   *)
(* recursive function, which both TLC and the proofs can work with.        *)
(***************************************************************************)
EXTENDS Integers, Sequences

\* What is kept when x comes behind what was kept before.
KeepNext(before, x, S) == IF x \in S THEN Append(before, x) ELSE before

Keep(s, S) ==
  LET kept[n \in 0..Len(s)] ==
        IF n = 0 THEN <<>> ELSE KeepNext(kept[n - 1], s[n], S)
  IN kept[Len(s)]
=============================================================================
