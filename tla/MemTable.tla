------------------------------ MODULE MemTable ------------------------------
(***************************************************************************)
(* A memtable of LevelDB: a skip list that one writer inserts into while   *)
(* readers walk it without a lock (db/skiplist.h, db/memtable.cc).  A step *)
(* of a reader reads one link, a step of the writer stores one.            *)
(*                                                                         *)
(* A link of a node that no store has reached holds Junk, what was in the  *)
(* arena.  SetNext is a release store and Next an acquire load, so that    *)
(* who reads a link to a node sees what was stored into it before; a read  *)
(* of max_height_ is relaxed and gives any value it has had.               *)
(***************************************************************************)
EXTENDS Naturals, Sequences, FiniteSets, FiniteSetsExt

CONSTANTS
  Keys,        \* user keys, numbers
  MaxHeight,   \* kMaxHeight
  MaxEntries,  \* bound on the entries added
  MaxBatch     \* bound on the entries of a write batch

ASSUME MemAssumption ==
  Keys \subseteq Nat /\ MaxHeight \in Nat \ {0} /\ {MaxEntries, MaxBatch} \subseteq Nat

HeadNode == <<"head">>
Nil == <<"nil">>
Junk == <<"junk">>
Levels == 0..(MaxHeight - 1)

VARIABLES
  entries,   \* the nodes made so far, as <<user key, sequence number>>
  next,      \* [HeadNode and nodes -> [Levels -> link]]
  maxHeight, \* max_height_
  w,         \* the Insert at work
  batch,     \* entries of the batch that are still to be added
  visible,   \* VersionSet::last_sequence_: what readers ask for
  rd         \* the reader: its node_, and the operation at work

vars == <<entries, next, maxHeight, w, batch, visible, rd>>

(* Internal keys: by user key, then newest first. *)
Less(a, b) == a[1] < b[1] \/ (a[1] = b[1] /\ a[2] > b[2])

NoInsert == [on |-> FALSE]
NoOp == [phase |-> "none"]

Init ==
  /\ entries = {} /\ maxHeight = 1
  /\ next = [n \in {HeadNode} |-> [l \in Levels |-> Nil]]
  /\ w = NoInsert /\ batch = 0 /\ visible = 0
  /\ rd = [node |-> Nil, op |-> NoOp]

(***************************************************************************)
(* The writer                                                              *)
(***************************************************************************)
(* DBImpl::Write: a batch is added, then its last sequence number becomes  *)
(* visible.                                                                *)
BeginBatch(n) ==
  /\ ~w.on /\ batch = 0 /\ Cardinality(entries) = visible
  /\ visible + n <= MaxEntries
  /\ batch' = n
  /\ UNCHANGED <<entries, next, maxHeight, w, visible, rd>>

(* Mutant: readers are sent to entries that are not yet in the list.       *)
SetLastSequenceEarly ==
  /\ visible < Cardinality(entries)
  /\ visible' = Cardinality(entries)
  /\ UNCHANGED <<entries, next, maxHeight, w, batch, rd>>

SetLastSequence ==
  /\ ~w.on /\ batch = 0 /\ visible < Cardinality(entries)
  /\ visible' = Cardinality(entries)
  /\ UNCHANGED <<entries, next, maxHeight, w, batch, rd>>

(* The last node before key e at a level; no one else writes.              *)
PrevAt(e, l) ==
  LET before == {n \in DOMAIN next : n # HeadNode /\ Less(n, e) /\ next[n][l] # Junk}
  IN IF before = {} THEN HeadNode ELSE CHOOSE n \in before : \A m \in before : m = n \/ Less(m, n)

(* MemTable::Add: the entry gets its node, the list its height.            *)
Add(k, h) ==
  /\ ~w.on /\ batch > 0
  /\ LET e == <<k, Cardinality(entries) + 1>>
     IN /\ entries' = entries \cup {e}
        /\ next' = [n \in DOMAIN next \cup {e} |-> IF n = e THEN [l \in Levels |-> Junk] ELSE next[n]]
        /\ w' = [on |-> TRUE, node |-> e, height |-> h, level |-> 0, linked |-> FALSE,
                 prev |-> [l \in Levels |-> PrevAt(e, l)]]
  /\ maxHeight' = Max({maxHeight, h})
  /\ batch' = batch - 1
  /\ UNCHANGED <<visible, rd>>

(* Mutant: the levels are linked from the top.                             *)
LevelFromTop(i) == w.height - 1 - i

(* The order in which Insert's loop links the levels: from the lowest.     *)
LevelAt(i) == i

(* Mutant: the node is published first, and then takes its successor.      *)
OwnLinkLast(l) ==
  LET p == w.prev[l]
  IN IF ~w.linked THEN [next EXCEPT ![p][l] = w.node]
     ELSE [next EXCEPT ![w.node][l] = next[p][l]]

(* First the node's own link, then the link to the node.                   *)
Linked(l) ==
  LET p == w.prev[l]
  IN IF ~w.linked THEN [next EXCEPT ![w.node][l] = next[p][l]]
     ELSE [next EXCEPT ![p][l] = w.node]

(* One store of Insert's loop.                                             *)
LinkLevel ==
  /\ w.on
  /\ next' = Linked(LevelAt(w.level))
  /\ w' = IF ~w.linked THEN [w EXCEPT !.linked = TRUE]
          ELSE IF w.level + 1 = w.height THEN NoInsert
          ELSE [w EXCEPT !.linked = FALSE, !.level = @ + 1]
  /\ UNCHANGED <<entries, maxHeight, batch, visible, rd>>

(***************************************************************************)
(* Readers                                                                 *)
(***************************************************************************)
(* The entries whose insertion is complete. *)
Inserted == IF w.on THEN entries \ {w.node} ELSE entries

(* An operation starts at node x and a level; kind is the search it makes, *)
(* target its key.                                                         *)
Start(kind, target, x, level) ==
  /\ rd.op.phase = "none"
  /\ rd' = [rd EXCEPT !.op = [phase |-> "walk", kind |-> kind, target |-> target, x |-> x,
                              level |-> level, known |-> Inserted, from |-> rd.node]]
  /\ UNCHANGED <<entries, next, maxHeight, w, batch, visible>>

(* A search begins at the head, at a height the list has had.  The key of  *)
(* a LookupKey sorts before what the snapshot sees of its user key, and    *)
(* behind what is newer.                                                   *)
LookupKey(k) == <<k, visible>>
Seek(k, h) == h <= maxHeight /\ Start("seek", LookupKey(k), HeadNode, h - 1)
Get(k, h) == h <= maxHeight /\ Start("get", LookupKey(k), HeadNode, h - 1)
SeekToLast(h) == h <= maxHeight /\ Start("last", Nil, HeadNode, h - 1)
Prev(h) == h <= maxHeight /\ rd.node # Nil /\ Start("prev", rd.node, HeadNode, h - 1)

(* SeekToFirst and Next read one link. *)
SeekToFirst == Start("first", Nil, HeadNode, 0)
NextEntry == rd.node # Nil /\ Start("next", Nil, rd.node, 0)

(* Mutant: a search passes the key it looks for.                           *)
GoesPast(op, n) ==
  /\ n # Nil
  /\ \/ op.kind \in {"seek", "get", "prev"} /\ ~Less(op.target, n)
     \/ op.kind = "last"

(* Whether the search moves on to node n: KeyIsAfterNode and its likes.    *)
GoesOn(op, n) ==
  /\ n # Nil
  /\ \/ op.kind \in {"seek", "get", "prev"} /\ Less(n, op.target)
     \/ op.kind = "last"

(* Where an iterator ends up: at the node before, or at the one after.     *)
Result(op, n) ==
  IF op.kind \in {"prev", "last"} THEN (IF op.x = HeadNode THEN Nil ELSE op.x) ELSE n

(* One link of FindGreaterOrEqual, FindLessThan or FindLast.               *)
ReadLink ==
  /\ rd.op.phase = "walk"
  /\ LET n == next[rd.op.x][rd.op.level]
     IN rd' = IF n = Junk THEN [rd EXCEPT !.op.phase = "lost"]
              ELSE IF GoesOn(rd.op, n) THEN [rd EXCEPT !.op.x = n]
              ELSE IF rd.op.level > 0 THEN [rd EXCEPT !.op.level = @ - 1]
              ELSE [rd EXCEPT !.node = Result(rd.op, n), !.op.phase = "done"]
  /\ UNCHANGED <<entries, next, maxHeight, w, batch, visible>>

(* The caller has the answer; Get leaves no iterator behind. *)
Return ==
  /\ rd.op.phase = "done"
  /\ rd' = [node |-> IF rd.op.kind = "get" THEN Nil ELSE rd.node, op |-> NoOp]
  /\ UNCHANGED <<entries, next, maxHeight, w, batch, visible>>

Next ==
  \/ \E n \in 1..MaxBatch : BeginBatch(n)
  \/ SetLastSequence
  \/ \E k \in Keys, h \in 1..MaxHeight : Add(k, h)
  \/ LinkLevel
  \/ \E k \in Keys, h \in 1..MaxHeight : Seek(k, h) \/ Get(k, h)
  \/ \E h \in 1..MaxHeight : SeekToLast(h) \/ Prev(h)
  \/ SeekToFirst \/ NextEntry
  \/ ReadLink \/ Return

Spec == Init /\ [][Next]_vars /\ WF_vars(ReadLink)

-----------------------------------------------------------------------------
Node == Keys \X (1..MaxEntries)

(* The types of the list, the writer and the reader. *)
TypeOK ==
  /\ entries \subseteq Node
  /\ next \in [entries \cup {HeadNode} -> [Levels -> entries \cup {Nil, Junk}]]
  /\ maxHeight \in 1..MaxHeight /\ batch \in 0..MaxBatch /\ visible \in 0..Cardinality(entries)
  /\ w.on => /\ w.node \in entries /\ w.height \in 1..maxHeight /\ w.level \in 0..(w.height - 1)
             /\ w.prev \in [Levels -> entries \cup {HeadNode}] /\ w.linked \in BOOLEAN
  /\ rd.node \in entries \cup {Nil} /\ rd.op.phase \in {"none", "walk", "done", "lost"}

(* A link leads to a later node, and one whose own links are set from the  *)
(* link's level down: what a reader can follow it may also follow on.      *)
LinksAreSet ==
  \A n \in DOMAIN next : \A l \in Levels :
    next[n][l] \in entries =>
      /\ n # HeadNode => Less(n, next[n][l])
      /\ \A j \in 0..l : next[next[n][l]][j] # Junk

(* No reader follows a link that was never stored, in whatever order it    *)
(* sees the stores of an Insert that is going on.                          *)
NoReaderIsLost == rd.op.phase # "lost"

(* At every moment of an Insert the list is one that a reader may walk.    *)
ListOK == TypeOK /\ LinksAreSet /\ NoReaderIsLost

(* The entries an operation may not pass over: those between where it      *)
(* started (or what it looked for) and where it ended.                     *)
Between(op, n) ==
  CASE op.kind \in {"seek", "get"} -> {e \in op.known : ~Less(e, op.target) /\ (n # Nil => Less(e, n))}
    [] op.kind = "first" -> {e \in op.known : n # Nil => Less(e, n)}
    [] op.kind = "next" -> {e \in op.known : Less(op.from, e) /\ (n # Nil => Less(e, n))}
    [] op.kind = "prev" -> {e \in op.known : Less(e, op.from) /\ (n # Nil => Less(n, e))}
    [] op.kind = "last" -> {e \in op.known : n # Nil => Less(n, e)}

(* However Insert and a reader interleave, an operation does not pass over *)
(* an entry that was complete when the operation began.                    *)
NothingSkipped == rd.op.phase = "done" => Between(rd.op, rd.node) = {}

(* Get finds the newest entry its snapshot may see, whatever is inserted   *)
(* meanwhile.                                                              *)
GetIsRight ==
  rd.op.phase = "done" /\ rd.op.kind = "get" =>
    LET seen == {e \in entries : e[1] = rd.op.target[1] /\ e[2] <= rd.op.target[2]}
    IN IF seen = {} THEN rd.node = Nil \/ rd.node[1] # rd.op.target[1]
       ELSE rd.node \in seen /\ \A e \in seen : e[2] <= rd.node[2]

(* A search ends although the list grows under it. *)
SearchesEnd == (rd.op.phase = "walk") ~> (rd.op.phase # "walk")
=============================================================================
