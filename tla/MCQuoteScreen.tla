---------------------------- MODULE MCQuoteScreen ----------------------------
(***************************************************************************)
(* Instances of QuoteScreen for TLC: one local quote per tradition, and AI *)
(* quotes of the first two traditions.                                     *)
(***************************************************************************)
EXTENDS QuoteScreen

MCTraditionOf ==
    [q \in Quotes |->
        CASE q = "b1" -> "Buddhist" [] q = "s1" -> "Sufi"
          [] q = "t1" -> "Taoism"   [] q = "z1" -> "Stoicism"
          [] q = "aiB" -> "Buddhist" [] q = "aiS" -> "Sufi"]

=============================================================================
