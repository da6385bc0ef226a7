----------------------------- MODULE Selection -----------------------------
(***************************************************************************)
(* What a loop takes of a sequence: the elements that are in a set, in     *)
(* their order, or the position of the first, 0 if there is none.  They    *)
(* are SelectSeq and SelectInSeq with a set for the test, so that proofs   *)
(* can speak of them.                                                      *)
(***************************************************************************)
EXTENDS SequencesExt

Only(s, S) ==
  FlattenSeq([i \in DOMAIN s |-> IF s[i] \in S THEN <<s[i]>> ELSE <<>>])

First(s, S) ==
  LET at == {i \in DOMAIN s : s[i] \in S}
  IN  IF at = {} THEN 0 ELSE Min(at)
=============================================================================
