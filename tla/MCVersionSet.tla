---------------------------- MODULE MCVersionSet ----------------------------
EXTENDS VersionSet

(* Two files in level 0, or two entries in level 1, call for a compaction. *)
TheLimits == [l \in 0..(NumLevels - 2) |-> 2]

AnyOf(n, ks) == [i \in 1..n |-> ks]

(* Snapshots hold back what compactions drop; a flush goes to level 1.     *)
Snapshots == [writes |-> AnyOf(4, {1, 2}), snapshots |-> 1, errors |-> 0,
              manual |-> FALSE, memLevel |-> 1]
(* Compactions fail and are tried again; every flush goes to level 0.      *)
Failing == [writes |-> AnyOf(4, {1, 2}), snapshots |-> 0, errors |-> 1,
            manual |-> FALSE, memLevel |-> 0]
(* CompactRange is called, of any level and any range.                     *)
ByHand == [writes |-> AnyOf(3, Keys), snapshots |-> 0, errors |-> 0,
           manual |-> TRUE, memLevel |-> 2]
(* Files of level 0 that touch each other in a chain.                      *)
Chain == [writes |-> <<{2}, {3}, {1}, {3}, {1}>>, snapshots |-> 0, errors |-> 0,
          manual |-> FALSE, memLevel |-> 0]
ThePlans == {Snapshots, Failing, ByHand, Chain}
(* As Snapshots, with the level leveldb is built with.                     *)
Splitting == {[Snapshots EXCEPT !.memLevel = 2]}
=============================================================================
