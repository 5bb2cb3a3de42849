--------------------------- MODULE VarietyWindow ---------------------------
(***************************************************************************)
(* What the app promises wherever it "avoids repetition": items are picked *)
(* one after the other, and no item is picked while it is among the last   *)
(* Window picks.  AudioService keeps this promise for local audio files    *)
(* (_recentAudioFiles), QuoteScreen for traditions (_recentTraditions).    *)
(***************************************************************************)
EXTENDS Naturals, Sequences

CONSTANTS Items, Window

VARIABLE recent     \* the last picks, oldest first

Init == recent = <<>>

Pick(x) ==
    /\ \A i \in DOMAIN recent : recent[i] # x
    /\ recent' = IF Len(recent) < Window
                   THEN Append(recent, x)
                   ELSE Append(Tail(recent), x)

Next == \E x \in Items : Pick(x)

Spec == Init /\ [][Next]_recent
=============================================================================
