-------------------------- MODULE MCBackgroundImage --------------------------
(***************************************************************************)
(* Instances of BackgroundImage for TLC: two quotes of one tradition share *)
(* their prompts, the third has one of its own.                            *)
(***************************************************************************)
EXTENDS BackgroundImage, TLC

MCPromptsOf == [q \in Quotes |-> IF q = "s1" THEN {"flute"} ELSE Prompts \ {"flute"}]
MCLookupKeys ==
    [q \in Quotes |-> IF q = "s1" THEN {"_sufi_1", "_sufi_2"} ELSE {"_buddhist_1", "_buddhist_2"}]

Interchangeable == Permutations(Slots)
=============================================================================
