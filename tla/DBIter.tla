------------------------------- MODULE DBIter -------------------------------
(***************************************************************************)
(* The iterator a user of LevelDB gets (db/db_iter.cc), over the merging   *)
(* iterator (table/merger.cc), over a memtable that goes on growing and a  *)
(* table of which blocks may become unreadable.  It shows the newest entry *)
(* of each user key at its snapshot, and may be turned round at any point. *)
(***************************************************************************)
EXTENDS SSTable

CONSTANTS
  Contents,   \* what the memtable, the table and the snapshot may be
  MaxAdded,   \* bound on the entries added while the iterator lives
  MaxBroken   \* bound on the changes of what can be read

ASSUME IterAssumption == {MaxAdded, MaxBroken} \subseteq Nat

VARIABLES
  mem,       \* the entries of the memtable, [ik, val]; val: a deletion
  table,     \* the table
  bad,       \* its blocks that cannot be read now
  snap,      \* sequence_
  children,  \* the iterators of the memtable and the table
  current,   \* current_: 0 for none
  forward,   \* the merging iterator's direction_
  it,        \* DBIter: direction_, valid_, saved_key_, saved_value_
  added, broken,
  want       \* history: the user key the operation should end at, 0 for none

vars == <<mem, table, bad, snap, children, current, forward, it, added, broken, want>>
data == <<mem, table, bad, snap, added, broken>>

(***************************************************************************)
(* The children: 1 is the memtable's iterator, 2 the table's               *)
(***************************************************************************)
MemKeys == {e.ik : e \in mem}
FirstOf(S) == IF S = {} THEN <<>> ELSE CHOOSE a \in S : \A b \in S : Leq(a, b)
LastOf(S) == IF S = {} THEN <<>> ELSE CHOOSE a \in S : \A b \in S : Leq(b, a)

CValid(c, n) == IF n = 1 THEN c[1] # <<>> ELSE TwoLevelValid(table, c[2])
CKey(c, n) == IF n = 1 THEN c[1] ELSE TwoLevelKey(c[2])
CDeletes(c, n) ==
  IF n = 1 THEN (CHOOSE e \in mem : e.ik = c[1]).val ELSE TwoLevelVal(table, c[2])
CSeek(c, n, t) ==
  [c EXCEPT ![n] = IF n = 1 THEN FirstOf({a \in MemKeys : Leq(t, a)})
                   ELSE TwoLevelSeek(table, bad, @, t)]
CFirst(c, n) ==
  [c EXCEPT ![n] = IF n = 1 THEN FirstOf(MemKeys) ELSE TwoLevelFirst(table, bad, @)]
CLast(c, n) ==
  [c EXCEPT ![n] = IF n = 1 THEN LastOf(MemKeys) ELSE TwoLevelLast(table, bad, @)]
CNext(c, n) ==
  [c EXCEPT ![n] = IF n = 1 THEN FirstOf({a \in MemKeys : Less(c[1], a)})
                   ELSE TwoLevelNext(table, bad, @)]
CPrev(c, n) ==
  [c EXCEPT ![n] = IF n = 1 THEN LastOf({a \in MemKeys : Less(a, c[1])})
                   ELSE TwoLevelPrev(table, bad, @)]

(***************************************************************************)
(* MergingIterator, as [c: children, cur: current_, fwd: direction_]       *)
(***************************************************************************)
Merging == [c |-> children, cur |-> current, fwd |-> forward]
MValid(m) == m.cur # 0
MKey(m) == CKey(m.c, m.cur)

FindSmallest(c) ==
  LET v == {n \in 1..2 : CValid(c, n)}
  IN IF v = {} THEN 0
     ELSE CHOOSE n \in v : \A o \in v : o = n \/ Less(CKey(c, n), CKey(c, o))
                                       \/ (CKey(c, n) = CKey(c, o) /\ n < o)
FindLargest(c) ==
  LET v == {n \in 1..2 : CValid(c, n)}
  IN IF v = {} THEN 0
     ELSE CHOOSE n \in v : \A o \in v : o = n \/ Less(CKey(c, o), CKey(c, n))
                                       \/ (CKey(c, n) = CKey(c, o) /\ n > o)

Smallest(c) == [c |-> c, cur |-> FindSmallest(c), fwd |-> TRUE]
Largest(c) == [c |-> c, cur |-> FindLargest(c), fwd |-> FALSE]

MFirst(m) == Smallest(CFirst(CFirst(m.c, 1), 2))
MLast(m) == Largest(CLast(CLast(m.c, 1), 2))
MSeek(m, t) == Smallest(CSeek(CSeek(m.c, 1, t), 2, t))

(* The children that are not the current one are put behind its key ...    *)
TurnForward(m) ==
  LET o == 3 - m.cur
      s == CSeek(m.c, o, MKey(m))
  IN IF m.fwd THEN m.c
     ELSE IF CValid(s, o) /\ CKey(s, o) = MKey(m) THEN CNext(s, o) ELSE s

(* ... or before it.                                                       *)
TurnBack(m) ==
  LET o == 3 - m.cur
      s == CSeek(m.c, o, MKey(m))
  IN IF ~m.fwd THEN m.c ELSE IF CValid(s, o) THEN CPrev(s, o) ELSE CLast(s, o)

MNext(m) == Smallest(CNext(TurnForward(m), m.cur))
MPrev(m) == Largest(CPrev(TurnBack(m), m.cur))

(***************************************************************************)
(* DBIter                                                                  *)
(***************************************************************************)
(* A bound on the entries a loop passes. *)
Bound == Cardinality(mem) + FoldLeft(LAMBDA n, b : n + Len(b.ents), 0, table.blocks) + 1

Parsed(m) == MValid(m) /\ MKey(m)[2] <= snap

(* FindNextUserEntry: s is [m, skip (0: not skipping), found].  A deletion *)
(* hides what follows of its user key.                                     *)
StepForward(s) ==
  LET k == MKey(s.m)[1]
      del == CDeletes(s.m.c, s.m.cur)
  IN IF s.found \/ ~MValid(s.m) THEN s
     ELSE IF Parsed(s.m) /\ ~del /\ k > s.skip THEN [s EXCEPT !.found = TRUE]
     ELSE [s EXCEPT !.m = MNext(s.m), !.skip = IF Parsed(s.m) /\ del THEN k ELSE @]

FindNextUserEntry(m, skip) ==
  LET s == Repeat(StepForward, [m |-> m, skip |-> skip, found |-> FALSE], Bound)
  IN [m |-> s.m, it |-> [fwd |-> TRUE, valid |-> s.found, key |-> 0, val |-> 0]]

(* FindPrevUserEntry: s is [m, val (0: none or a deletion), key, stop].    *)
(* The last entry of a user key that is seen on the way back is its newest.*)
StepBack(s) ==
  LET k == MKey(s.m)[1]
      del == CDeletes(s.m.c, s.m.cur)
      n == IF ~Parsed(s.m) THEN s
           ELSE IF del THEN [s EXCEPT !.val = 0, !.key = 0]
           ELSE [s EXCEPT !.val = MKey(s.m)[2], !.key = k]
  IN IF s.stop \/ ~MValid(s.m) THEN s
     ELSE IF Parsed(s.m) /\ s.val # 0 /\ k < s.key THEN [s EXCEPT !.stop = TRUE]
     ELSE [n EXCEPT !.m = MPrev(s.m)]

FindPrevUserEntry(m) ==
  LET s == Repeat(StepBack, [m |-> m, val |-> 0, key |-> 0, stop |-> FALSE], Bound)
  IN [m |-> s.m, it |-> [fwd |-> s.val = 0, valid |-> s.val # 0, key |-> s.key, val |-> s.val]]

Invalid(m, fwd) == [m |-> m, it |-> [fwd |-> fwd, valid |-> FALSE, key |-> 0, val |-> 0]]

UserKey == IF it.fwd THEN MKey(Merging)[1] ELSE it.key
UserValue == IF it.fwd THEN MKey(Merging)[2] ELSE it.val

(* Prev from an entry: back until the user key changes.                    *)
BeforeKey(m) ==
  LET k == MKey(m)[1]
  IN Repeat(LAMBDA x : IF MValid(x) /\ MKey(x)[1] >= k THEN MPrev(x) ELSE x, MPrev(m), Bound)

(* Mutant: Next goes on from where Prev has left the merging iterator.     *)
NextFromHere(m) == m

(* Next after Prev: into the entries of the key again.                     *)
IntoKey(m) == IF MValid(m) THEN MNext(m) ELSE MFirst(m)

DoSeek(m, k) == LET s == MSeek(m, <<k, snap>>) IN IF MValid(s) THEN FindNextUserEntry(s, 0) ELSE Invalid(s, TRUE)
DoFirst(m) == LET s == MFirst(m) IN IF MValid(s) THEN FindNextUserEntry(s, 0) ELSE Invalid(s, TRUE)
DoLast(m) == FindPrevUserEntry(MLast(m))
DoNext(m) ==
  LET s == IF it.fwd THEN m ELSE IntoKey(m)
  IN IF MValid(s) THEN FindNextUserEntry(s, UserKey) ELSE Invalid(s, TRUE)
DoPrev(m) ==
  LET s == IF it.fwd THEN BeforeKey(m) ELSE m
  IN IF it.fwd /\ ~MValid(s) THEN Invalid(s, TRUE) ELSE FindPrevUserEntry(s)

(***************************************************************************)
(* What the iterator is to show                                            *)
(***************************************************************************)
Entries == mem \cup UNION {Range(b.ents) : b \in Range(table.blocks)}
Newest(k) ==
  LET old == {e \in Entries : e.ik[1] = k /\ e.ik[2] <= snap}
  IN {e \in old : \A o \in old : o.ik[2] <= e.ik[2]}
Shown == {k \in Keys : \E e \in Newest(k) : ~e.val}
LowestOf(S) == IF S = {} THEN 0 ELSE Min(S)
HighestOf(S) == IF S = {} THEN 0 ELSE Max(S)

(***************************************************************************)
(* The operations                                                          *)
(***************************************************************************)
Becomes(r) ==
  /\ children' = r.m.c /\ current' = r.m.cur /\ forward' = r.m.fwd /\ it' = r.it
  /\ UNCHANGED data

Seek(k) == Becomes(DoSeek(Merging, k)) /\ want' = LowestOf({x \in Shown : x >= k})
SeekToFirst == Becomes(DoFirst(Merging)) /\ want' = LowestOf(Shown)
SeekToLast == Becomes(DoLast(Merging)) /\ want' = HighestOf(Shown)
NextKey == it.valid /\ Becomes(DoNext(Merging)) /\ want' = LowestOf({x \in Shown : x > UserKey})
PrevKey == it.valid /\ Becomes(DoPrev(Merging)) /\ want' = HighestOf({x \in Shown : x < UserKey})

(* A writer adds to the memtable, with later sequence numbers.             *)
AddEntry(k, del) ==
  /\ added < MaxAdded
  /\ added' = added + 1
  /\ mem' = mem \cup {[ik |-> <<k, Max({snap} \cup {e.ik[2] : e \in Entries}) + 1>>, val |-> del]}
  /\ UNCHANGED <<table, bad, snap, children, current, forward, it, broken, want>>

(* Reads of a block begin to fail, or no longer fail. *)
BreakBlocks(b) ==
  /\ broken < MaxBroken /\ bad # b
  /\ bad' = b /\ broken' = broken + 1
  /\ UNCHANGED <<mem, table, snap, children, current, forward, it, added, want>>

Init ==
  /\ \E c \in Contents : mem = c.mem /\ table = BuildTable(c.table, c.shorten) /\ snap = c.snap
  /\ bad = {} /\ added = 0 /\ broken = 0 /\ want = 0
  /\ children = <<<<>>, NewTwoLevel(table)>> /\ current = 0 /\ forward = TRUE
  /\ it = [fwd |-> TRUE, valid |-> FALSE, key |-> 0, val |-> 0]

Next ==
  \/ \E k \in Keys : Seek(k)
  \/ SeekToFirst \/ SeekToLast \/ NextKey \/ PrevKey
  \/ \E k \in Keys, del \in BOOLEAN : AddEntry(k, del)
  \/ \E b \in SUBSET DOMAIN table.blocks : BreakBlocks(b)

Spec == Init /\ [][Next]_vars

-----------------------------------------------------------------------------
(* The types of the iterator's state. *)
TypeOK ==
  /\ current \in 0..2 /\ forward \in BOOLEAN
  /\ (current # 0 => CValid(children, current) /\ MKey(Merging) # Garbage)
  /\ it.fwd \in BOOLEAN /\ it.valid \in BOOLEAN /\ it.key \in Keys \cup {0}
  /\ want \in Keys \cup {0}

Status == TwoLevelStatus(children[2])

(* Wherever it comes from and in whichever direction, an iterator whose    *)
(* status is ok is at the key the snapshot has there, with the newest      *)
(* value the snapshot sees, and at none when there is none.                *)
CursorIsRight ==
  Status =>
    /\ it.valid <=> want # 0
    /\ it.valid => UserKey = want /\ \E e \in Newest(want) : UserValue = e.ik[2]

(* Once a block could not be read, status() says so for good: no sequence  *)
(* of operations passes over the block in silence.                         *)
ErrorIsKept == [][~Status => ~Status']_vars

(* InternalGet finds the newest entry of a table for every key and every   *)
(* sequence number, past index keys that no entry has and stretches of    *)
(* the file without a filter of their own, whatever the filters say of     *)
(* keys that are not there; or it reports an error.  A Get has nothing to  *)
(* do with the iterator, so it is asked only while that is nowhere.        *)
TableGetIsRight ==
  current = 0 => \A k \in Keys, s \in 0..MaxSeq, how \in Filters :
    LET g == InternalGet(table, bad, <<k, s>>, how)
        old == {e.ik[2] : e \in {x \in Entries \ mem : x.ik[1] = k /\ x.ik[2] <= s}}
        hit == g.key # <<>> /\ g.key[1] = k
    IN g.ok => IF old = {} THEN ~hit ELSE hit /\ g.key[2] = Max(old)

(* The cursor and what is below it: the merging iterator stands on a valid *)
(* child and never shows the key of a block entry it could not decode.     *)
IteratorOK == TypeOK /\ CursorIsRight
=============================================================================
