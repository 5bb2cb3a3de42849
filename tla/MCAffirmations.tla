--------------------------- MODULE MCAffirmations ---------------------------
(* Instances of Affirmations for TLC.                                      *)
EXTENDS Affirmations, TLC

Interchangeable == Permutations(Quotes)
=============================================================================
