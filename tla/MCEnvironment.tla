--------------------------- MODULE MCEnvironment ----------------------------
EXTENDS Environment

NoOps == [locks |-> 0, exits |-> 0, items |-> 0, finds |-> 0, deletes |-> 0,
          closes |-> 0, mems |-> 0, unmounts |-> 0, errors |-> 0]

(* Two clients in one process and one in another, on one lock file. *)
TheHome == [c \in {"a1", "a2", "b1"} |-> IF c = "b1" THEN "b" ELSE "a"]

(* Four questions, each with its own operations: who is in the database,     *)
(* what the background thread does, what the cache of tables holds, and what *)
(* the files in memory are.                                                  *)
ThePlans ==
  {[NoOps EXCEPT !.locks = 5, !.exits = 1, !.errors = 1],
   [NoOps EXCEPT !.items = 4],
   [NoOps EXCEPT !.finds = 4, !.deletes = 1, !.closes = 1, !.errors = 1],
   [NoOps EXCEPT !.mems = 5, !.unmounts = 1]}
=============================================================================
