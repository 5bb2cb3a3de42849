------------------------------ MODULE MCDBIter ------------------------------
EXTENDS DBIter

Entry(w, s) == [ik |-> <<w[s][1], s>>, val |-> w[s][2]]
InOrder(S) == SetToSortSeq(S, LAMBDA a, b : Less(a.ik, b.ik))
Content(w, n, sn, sh) ==
  [mem |-> {Entry(w, s) : s \in (n + 1)..4}, table |-> InOrder({Entry(w, s) : s \in 1..n}),
   snap |-> sn, shorten |-> sh]

(* Every history of four writes to both of two keys that begins with a put *)
(* and has one more.                                                       *)
Histories ==
  {w \in [1..4 -> {1, 3} \X BOOLEAN] :
     ~w[1][2] /\ {w[s][1] : s \in 1..4} = {1, 3} /\ \E s \in 2..4 : ~w[s][2]}

(* Two of the writes in the table and all of them visible; or all of them  *)
(* in the table and the last, a put, behind the snapshot.                  *)
TheContents ==
  {Content(w, 2, 4, FALSE) : w \in Histories}
    \cup {Content(w, 4, 3, TRUE) : w \in {v \in Histories : ~v[4][2]}}
=============================================================================
