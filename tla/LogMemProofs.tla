---------------------------- MODULE LogMemProofs ----------------------------
(***************************************************************************)
(* Proofs about the two places a write goes to.                            *)
(*                                                                         *)
(* The skip list of MemTable: whatever the keys, the heights and the       *)
(* length of the batches, one writer and a reader without a lock.          *)
(*                                                                         *)
(* The log of LogFile: whatever the sizes of blocks, headers and records,  *)
(* where writes stop, what a crash leaves and how often the log is         *)
(* reopened.                                                               *)
(***************************************************************************)
EXTENDS MemTable, LogFile, FiniteSetTheorems, SequenceTheorems, WellFoundedInduction, TLAPS

(* A set of natural numbers that is not empty has a least element.         *)
LEMMA NatMinimum ==
    ASSUME NEW T, T \subseteq Nat, T # {}
    PROVE  \E x \in T : \A y \in T : x <= y
<1> DEFINE R == OpToRel(<, Nat)
<1>1. IsWellFoundedOn(R, Nat)
  BY NatLessThanWellFounded
<1>2. \A x, y \in Nat : x < y => <<x, y>> \in R
  BY DEF OpToRel
<1> HIDE DEF R
<1>3. PICK x \in T : \A y \in T : ~(<<y, x>> \in R)
  BY <1>1, WFMin
<1>4. \A y \in T : ~(y < x)
  BY <1>2, <1>3
<1>5. \A y \in T : y \in Nat /\ x \in Nat
  OBVIOUS
<1> QED  BY <1>4, <1>5

-----------------------------------------------------------------------------

(* Keys that are compared: of the entries, and of lookups. *)
IKey == Keys \X Nat

(* The nodes that a level's list holds: those with a link there, but not   *)
(* the one whose own link is stored and whose predecessor's is not.        *)
Published(l) ==
  {n \in entries : next[n][l] # Junk /\ ~(w.on /\ w.linked /\ w.level = l /\ n = w.node)}

Inserts ==
  [on : {TRUE}, node : entries, height : 1..maxHeight, level : Levels, linked : BOOLEAN,
   prev : [Levels -> entries \cup {HeadNode}]]

SearchKinds == {"seek", "get", "first", "next", "prev", "last"}

Operations ==
  [phase : {"walk", "done", "lost"}, kind : SearchKinds, target : IKey \cup {Nil},
   x : entries \cup {HeadNode}, level : Levels, known : SUBSET entries,
   from : entries \cup {Nil}]

(* The entries are numbered in the order of their addition, and the one    *)
(* that is being inserted is newer than what readers ask for.              *)
EntriesInv ==
  /\ entries \subseteq Node /\ IsFiniteSet(entries)
  /\ next \in [entries \cup {HeadNode} -> [Levels -> entries \cup {Nil, Junk}]]
  /\ maxHeight \in 1..MaxHeight /\ batch \in 0..MaxBatch
  /\ visible \in 0..Cardinality(entries)
  /\ Cardinality(entries) + batch <= MaxEntries
  /\ \A e \in entries : e[2] <= Cardinality(entries)
  /\ w = NoInsert \/ w \in Inserts
  /\ w.on => w.level < w.height /\ w.node[2] = Cardinality(entries) /\ visible < Cardinality(entries)

(* The links of a node are set from the lowest level up, as far as the     *)
(* Insert has come.                                                        *)
LinksInv ==
  /\ \A l \in Levels : next[HeadNode][l] # Junk
  /\ \A n \in entries, l, j \in Levels : j <= l /\ next[n][l] # Junk => next[n][j] # Junk
  /\ \A n \in Inserted : next[n][0] # Junk
  /\ w.on => \A l \in Levels :
       (next[w.node][l] # Junk) <=> (l < w.level \/ (l = w.level /\ w.linked))

(* s is what comes right after n among the nodes P of a level.             *)
Follows(P, n, s) ==
  /\ s \in P \cup {Nil}
  /\ n # HeadNode /\ s # Nil => Less(n, s)
  /\ \A m \in P : n = HeadNode \/ Less(n, m) => s # Nil /\ (m = s \/ Less(s, m))

(* p is the last of the nodes P before e.                                  *)
Precedes(P, p, e) ==
  /\ p \in P \cup {HeadNode}
  /\ p # HeadNode => Less(p, e)
  /\ \A m \in P : Less(m, e) => p # HeadNode /\ (m = p \/ Less(m, p))

(* Each level is a sorted list of what is published there.                 *)
SortedInv ==
  \A l \in Levels : \A n \in Published(l) \cup {HeadNode} : Follows(Published(l), n, next[n][l])

(* What Insert found out before its loop is still true when it is used.    *)
PrevInv ==
  w.on => /\ \A l \in Levels : l >= w.level => Precedes(Published(l), w.prev[l], w.node)
          /\ w.linked => next[w.node][w.level] = next[w.prev[w.level]][w.level]

MemInv == EntriesInv /\ LinksInv /\ SortedInv /\ PrevInv

(* Where a walk may be.                                                    *)
WalkInv(op) ==
  /\ op.x \in Published(op.level) \cup {HeadNode}
  /\ op.kind \in {"seek", "get", "prev"} =>
       op.target \in IKey /\ (op.x # HeadNode => Less(op.x, op.target))
  /\ op.kind = "first" => op.x = HeadNode /\ op.level = 0
  /\ op.kind = "next" => op.x = op.from /\ op.x # HeadNode /\ op.level = 0
  /\ op.kind = "prev" => op.target = op.from

(* What an operation knows, and how it ends.                               *)
ReaderInv ==
  /\ DOMAIN rd = {"node", "op"} /\ rd.node \in Published(0) \cup {Nil}
  /\ rd.op = NoOp \/ rd.op \in Operations
  /\ rd.op # NoOp =>
       /\ rd.op.phase # "lost"
       /\ rd.op.known \subseteq Published(0)
       /\ rd.op.phase = "walk" => WalkInv(rd.op)
       /\ rd.op.kind = "get" =>
            /\ rd.op.target \in IKey /\ rd.op.target[2] <= visible
            /\ \A e \in entries : e[2] <= rd.op.target[2] => e \in rd.op.known
       /\ rd.op.phase = "done" /\ rd.op.kind \in {"seek", "get"} =>
            rd.node = Nil \/ ~Less(rd.node, rd.op.target)
  /\ NothingSkipped

IInv == MemInv /\ ReaderInv

-----------------------------------------------------------------------------
(* The order and the nodes.                                                *)

(* No entry is one of the three marks.                                     *)
LEMMA NodesAndMarks ==
    /\ HeadNode # Nil /\ HeadNode # Junk /\ Nil # Junk
    /\ \A n \in IKey : n # HeadNode /\ n # Nil /\ n # Junk
    /\ Node \subseteq IKey
<1>1. HeadNode # Nil /\ HeadNode # Junk /\ Nil # Junk
  BY DEF HeadNode, Nil, Junk
<1>2. Len(HeadNode) = 1 /\ Len(Nil) = 1 /\ Len(Junk) = 1
  BY DEF HeadNode, Nil, Junk
<1>3. \A n \in IKey : Len(n) = 2
  BY DEF IKey
<1>4. Node \subseteq IKey
  BY MemAssumption DEF Node, IKey
<1> QED  BY <1>1, <1>2, <1>3, <1>4

(* Internal keys are totally ordered.                                      *)
LEMMA LessIsTotalOrder ==
    /\ \A a \in IKey : ~Less(a, a)
    /\ \A a, b \in IKey : Less(a, b) => ~Less(b, a)
    /\ \A a, b \in IKey : a = b \/ Less(a, b) \/ Less(b, a)
    /\ \A a, b, c \in IKey : Less(a, b) /\ Less(b, c) => Less(a, c)
<1>1. \A a \in IKey : a[1] \in Nat /\ a[2] \in Nat
  BY MemAssumption DEF IKey
<1>2. \A a, b \in IKey : a[1] = b[1] /\ a[2] = b[2] => a = b
  BY DEF IKey
<1> QED  BY <1>1, <1>2 DEF Less

(* Of some entries before e one is the last.                               *)
LEMMA LastBefore ==
    ASSUME NEW Low, Low \subseteq IKey, Low # {}, NEW e \in IKey, \A n \in Low : Less(n, e)
    PROVE  \E n \in Low : \A m \in Low : m = n \/ Less(m, n)
<1>1. \A a \in IKey : a[1] \in Nat /\ a[2] \in Nat
  BY MemAssumption DEF IKey
<1> DEFINE D == {e[1] - n[1] : n \in Low}
<1>2. D \subseteq Nat /\ D # {}
  BY <1>1 DEF Less
<1>3. PICK d \in D : \A y \in D : d <= y
  BY <1>2, NatMinimum
<1>4. PICK n \in Low : d = e[1] - n[1]
  BY <1>3
<1>5. \A m \in Low : m[1] <= n[1]
  <2> TAKE m \in Low
  <2>1. e[1] - m[1] \in D
    OBVIOUS
  <2>2. e[1] - n[1] <= e[1] - m[1]
    BY <1>3, <1>4, <2>1
  <2> QED  BY <1>1, <2>2
<1> HIDE DEF D
<1> DEFINE S == {m[2] : m \in {o \in Low : o[1] = n[1]}}
<1>6. S \subseteq Nat /\ S # {}
  BY <1>1
<1>7. PICK s \in S : \A y \in S : s <= y
  BY <1>6, NatMinimum
<1>8. PICK o \in Low : o[1] = n[1] /\ o[2] = s
  BY <1>7
<1>9. \A m \in Low : m = o \/ Less(m, o)
  <2> TAKE m \in Low
  <2>1. m[1] <= o[1]
    BY <1>5, <1>8
  <2>2. m[1] = o[1] => m[2] \in S
    BY <1>8
  <2>3. m[1] = o[1] => o[2] <= m[2]
    BY <1>7, <1>8, <2>2
  <2>4. ~Less(o, m)
    BY <1>1, <2>1, <2>3 DEF Less
  <2> QED  BY <2>4, LessIsTotalOrder
<1> QED  BY <1>9

(* A new node between its predecessor and what followed that one.          *)
LEMMA Splice ==
    ASSUME NEW P, P \subseteq IKey, NEW e \in IKey, e \notin P,
           NEW p, Precedes(P, p, e), NEW s, Follows(P, p, s)
    PROVE  /\ Follows(P \cup {e}, p, e)
           /\ Follows(P \cup {e}, e, s)
           /\ s \in P => Less(e, s)
           /\ \A n \in P \cup {HeadNode} : \A t : n # p /\ Follows(P, n, t) => Follows(P \cup {e}, n, t)
<1>1. \A a \in IKey : a # HeadNode /\ a # Nil
  BY NodesAndMarks
<1>2. p \in P \cup {HeadNode} /\ (p # HeadNode => Less(p, e))
  BY DEF Precedes
<1>3. \A m \in P : Less(m, e) => p # HeadNode /\ (m = p \/ Less(m, p))
  BY DEF Precedes
<1>4. s \in P \cup {Nil}
  BY DEF Follows
<1>5. \A m \in P : p = HeadNode \/ Less(p, m) => Less(e, m) /\ s # Nil /\ (m = s \/ Less(s, m))
  <2> TAKE m \in P
  <2> HAVE p = HeadNode \/ Less(p, m)
  <2>1. ~Less(m, e)
    BY <1>2, <1>3, LessIsTotalOrder
  <2> QED  BY <2>1, LessIsTotalOrder DEF Follows
<1>6. Follows(P \cup {e}, p, e)
  BY <1>1, <1>2, <1>5 DEF Follows
<1>7. s \in P => Less(e, s)
  <2>1. s \in P => p = HeadNode \/ Less(p, s)
    BY <1>1 DEF Follows
  <2> QED  BY <1>5, <2>1
<1>8. Follows(P \cup {e}, e, s)
  <2>1. \A m \in P : Less(e, m) => p = HeadNode \/ Less(p, m)
    BY <1>2, LessIsTotalOrder
  <2>2. ~Less(e, e)
    BY LessIsTotalOrder
  <2> QED  BY <1>1, <1>4, <1>5, <1>7, <2>1, <2>2 DEF Follows
<1>9. \A n \in P \cup {HeadNode} : \A t : n # p /\ Follows(P, n, t) => Follows(P \cup {e}, n, t)
  <2> TAKE n \in P \cup {HeadNode}
  <2> TAKE t
  <2> HAVE n # p /\ Follows(P, n, t)
  <2>1. ASSUME n = HeadNode \/ Less(n, e)  PROVE t # Nil /\ Less(t, e)
    <3>1. p \in P /\ (n = HeadNode \/ Less(n, p))
      BY <1>2, <1>3, <2>1
    <3>2. t # Nil /\ t \in P /\ (p = t \/ Less(t, p))
      BY <3>1 DEF Follows
    <3> QED  BY <1>1, <1>2, <3>1, <3>2, LessIsTotalOrder
  <2> QED  BY <2>1 DEF Follows
<1> QED  BY <1>6, <1>7, <1>8, <1>9

-----------------------------------------------------------------------------
(* The writer.                                                             *)

(* What a step of the writer never takes back from the readers.            *)
Grows ==
  /\ entries \subseteq entries' /\ visible <= visible'
  /\ \A l \in Levels : Published(l) \subseteq Published(l)'
  /\ \A e \in entries' \ entries : e[2] > visible

(* What holds of nodes and levels whenever MemInv does.                    *)
LEMMA MemTypes ==
    ASSUME MemInv
    PROVE  /\ Levels \subseteq Nat /\ 0 \in Levels
           /\ \A l \in Levels : Published(l) \subseteq entries
           /\ entries \subseteq IKey /\ HeadNode \notin entries
           /\ Nil \notin entries /\ Junk \notin entries
           /\ Cardinality(entries) \in Nat
           /\ w.on \in BOOLEAN
           /\ ~w.on => w = NoInsert
           /\ w.on => /\ w \in Inserts
                      /\ \A l \in Levels : l >= w.level => w.node \notin Published(l)
<1>1. Levels \subseteq Nat /\ 0 \in Levels
  BY MemAssumption DEF Levels
<1>2. \A l \in Levels : Published(l) \subseteq entries
  BY DEF Published
<1>3. entries \subseteq IKey
  BY NodesAndMarks DEF MemInv, EntriesInv
<1>4. HeadNode \notin entries /\ Nil \notin entries /\ Junk \notin entries
  BY <1>3, NodesAndMarks
<1>5. Cardinality(entries) \in Nat
  BY FS_CardinalityType DEF MemInv, EntriesInv
<1>6. w.on \in BOOLEAN /\ (~w.on => w = NoInsert) /\ (w.on => w \in Inserts)
  <2>1. w = NoInsert => w.on = FALSE
    BY DEF NoInsert
  <2>2. w \in Inserts => w.on = TRUE
    BY DEF Inserts
  <2> QED  BY <2>1, <2>2 DEF MemInv, EntriesInv
<1>7. ASSUME w.on, NEW l \in Levels, l >= w.level  PROVE w.node \notin Published(l)
  <2>1. w.level \in Nat
    BY <1>1, <1>6, <1>7 DEF Inserts
  <2>2. (next[w.node][l] # Junk) <=> (l < w.level \/ (l = w.level /\ w.linked))
    BY <1>7 DEF MemInv, LinksInv
  <2> QED  BY <1>1, <1>7, <2>1, <2>2 DEF Published
<1> QED  BY <1>1, <1>2, <1>3, <1>4, <1>5, <1>6, <1>7

(* The list starts out empty.                                              *)
LEMMA MemInit == Init => MemInv
<1> SUFFICES ASSUME Init  PROVE MemInv
  OBVIOUS
<1>1. IsFiniteSet(entries) /\ Cardinality(entries) = 0
  BY FS_EmptySet DEF Init
<1>2. Levels \subseteq Nat
  BY MemAssumption DEF Levels
<1>3. EntriesInv
  BY <1>1, MemAssumption DEF Init, EntriesInv, NoInsert
<1>4. LinksInv
  BY NodesAndMarks DEF Init, LinksInv, NoInsert, Inserted
<1>5. \A l \in Levels : Published(l) = {} /\ next[HeadNode][l] = Nil
  BY DEF Published, Init
<1>6. SortedInv
  BY <1>5 DEF SortedInv, Follows
<1>7. PrevInv
  BY DEF PrevInv, Init, NoInsert
<1> QED  BY <1>3, <1>4, <1>6, <1>7 DEF MemInv

(* A batch begins, or its last sequence number becomes visible: the list   *)
(* stays as it is.                                                         *)
LEMMA BatchStep ==
    ASSUME MemInv, SetLastSequence \/ \E n \in 1..MaxBatch : BeginBatch(n)
    PROVE  MemInv' /\ Grows
<1>1. UNCHANGED <<entries, next, maxHeight, w>>
  BY DEF SetLastSequence, BeginBatch
<1>2. /\ visible \in Nat /\ visible <= Cardinality(entries)
      /\ visible' \in 0..Cardinality(entries) /\ visible <= visible' /\ batch' \in 0..MaxBatch
      /\ Cardinality(entries) + batch' <= MaxEntries /\ ~w.on
  BY MemTypes, MemAssumption DEF SetLastSequence, BeginBatch, MemInv, EntriesInv
<1>3. EntriesInv'
  BY <1>1, <1>2 DEF MemInv, EntriesInv, Inserts
<1>4. LinksInv'
  BY <1>1 DEF MemInv, LinksInv, Inserted
<1>5. \A l \in Levels : Published(l)' = Published(l)
  BY <1>1 DEF Published
<1>6. SortedInv'
  BY <1>1, <1>5 DEF MemInv, SortedInv
<1>7. PrevInv'
  BY <1>1, <1>2 DEF PrevInv
<1> QED  BY <1>1, <1>2, <1>3, <1>4, <1>5, <1>6, <1>7 DEF MemInv, Grows

(* An entry gets its node, which no link leads to yet.                     *)
LEMMA AddStep ==
    ASSUME MemInv, NEW k \in Keys, NEW h \in 1..MaxHeight, Add(k, h)
    PROVE  MemInv' /\ Grows
<1> DEFINE c == Cardinality(entries)
           e == <<k, c + 1>>
<1>1. /\ ~w.on /\ batch > 0 /\ batch' = batch - 1
      /\ entries' = entries \cup {e}
      /\ next' = [n \in DOMAIN next \cup {e} |-> IF n = e THEN [l \in Levels |-> Junk] ELSE next[n]]
      /\ w' = [on |-> TRUE, node |-> e, height |-> h, level |-> 0, linked |-> FALSE,
               prev |-> [l \in Levels |-> PrevAt(e, l)]]
      /\ maxHeight' = Max({maxHeight, h}) /\ UNCHANGED <<visible, rd>>
  BY DEF Add
<1>2. /\ Levels \subseteq Nat /\ 0 \in Levels /\ entries \subseteq IKey /\ c \in Nat
      /\ \A l \in Levels : Published(l) \subseteq entries
      /\ HeadNode \notin entries
  BY MemTypes
<1>3. /\ entries \subseteq Node /\ IsFiniteSet(entries)
      /\ next \in [entries \cup {HeadNode} -> [Levels -> entries \cup {Nil, Junk}]]
      /\ DOMAIN next = entries \cup {HeadNode}
      /\ maxHeight \in 1..MaxHeight /\ batch \in 0..MaxBatch /\ visible \in 0..c
      /\ c + batch <= MaxEntries /\ \A n \in entries : n[2] <= c
  BY DEF MemInv, EntriesInv
<1>4. e \in Node /\ e \in IKey /\ e \notin entries /\ e # HeadNode /\ e[2] = c + 1
  <2>1. e \in Node
    BY <1>1, <1>2, <1>3, MemAssumption DEF Node
  <2>2. e[2] = c + 1
    OBVIOUS
  <2>3. e \notin entries
    BY <1>2, <1>3, <2>2
  <2> QED  BY <2>1, <2>2, <2>3, NodesAndMarks
<1>5. IsFiniteSet(entries') /\ Cardinality(entries') = c + 1
  BY <1>1, <1>3, <1>4, FS_AddElement
<1>6. maxHeight' \in 1..MaxHeight /\ h <= maxHeight' /\ h \in 1..maxHeight'
  <2> DEFINE Two == {maxHeight, h}
  <2>1. maxHeight \in Nat /\ h \in Nat
    BY <1>3
  <2>2. \E x \in Two : \A y \in Two : x >= y
    <3>1. CASE maxHeight >= h
      BY <2>1, <3>1
    <3>2. CASE ~(maxHeight >= h)
      BY <2>1, <3>2
    <3> QED  BY <3>1, <3>2
  <2>3. Max(Two) \in Two /\ \A y \in Two : Max(Two) >= y
    BY <2>2 DEF Max
  <2> QED  BY <1>1, <1>3, <2>3, MemAssumption
<1>7. \A l \in Levels : Published(l) = {n \in entries : next[n][l] # Junk}
  BY <1>1 DEF Published
<1> HIDE DEF e
<1>8. \A l \in Levels : Precedes(Published(l), PrevAt(e, l), e)
  <2> TAKE l \in Levels
  <2> DEFINE Low == {n \in DOMAIN next : n # HeadNode /\ Less(n, e) /\ next[n][l] # Junk}
  <2>1. Low = {n \in Published(l) : Less(n, e)}
    BY <1>2, <1>3, <1>7
  <2>2. PrevAt(e, l) = IF Low = {} THEN HeadNode ELSE CHOOSE n \in Low : \A m \in Low : m = n \/ Less(m, n)
    BY DEF PrevAt
  <2> HIDE DEF Low
  <2>3. CASE Low = {}
    BY <2>1, <2>2, <2>3 DEF Precedes
  <2>4. CASE Low # {}
    <3>1. Low \subseteq IKey /\ \A n \in Low : Less(n, e)
      BY <1>2, <2>1
    <3>2. \E n \in Low : \A m \in Low : m = n \/ Less(m, n)
      BY <1>4, <2>4, <3>1, LastBefore
    <3>3. PrevAt(e, l) \in Low /\ \A m \in Low : m = PrevAt(e, l) \/ Less(m, PrevAt(e, l))
      BY <2>2, <2>4, <3>2
    <3> QED  BY <1>2, <2>1, <3>1, <3>3, NodesAndMarks DEF Precedes
  <2> QED  BY <2>3, <2>4
<1>9. [l \in Levels |-> PrevAt(e, l)] \in [Levels -> entries' \cup {HeadNode}]
  BY <1>1, <1>2, <1>8 DEF Precedes
<1>10. next' \in [entries' \cup {HeadNode} -> [Levels -> entries' \cup {Nil, Junk}]]
  BY <1>1, <1>3
<1>11. EntriesInv'
  <2>1. w' \in Inserts'
    BY <1>1, <1>2, <1>6, <1>9 DEF Inserts
  <2>2. w'.on /\ w'.level = 0 /\ w'.height = h /\ w'.node = e
    BY <1>1
  <2>3. entries' \subseteq Node /\ \A n \in entries' : n[2] <= c + 1
    BY <1>1, <1>2, <1>3, <1>4 DEF Node
  <2>4. /\ visible' \in 0..(c + 1) /\ visible' < c + 1 /\ batch' \in 0..MaxBatch
        /\ c + 1 + batch' <= MaxEntries /\ 0 < h
    BY <1>1, <1>2, <1>3, MemAssumption
  <2> QED  BY <1>4, <1>5, <1>6, <1>10, <2>1, <2>2, <2>3, <2>4 DEF EntriesInv
<1>12. /\ \A n \in entries \cup {HeadNode} : next'[n] = next[n]
       /\ \A l \in Levels : next'[e][l] = Junk
  BY <1>1, <1>3, <1>4
<1>13. \A l \in Levels : Published(l)' = Published(l)
  BY <1>1, <1>7, <1>12 DEF Published
<1>14. LinksInv'
  <2>1. Inserted' = entries /\ Inserted = entries
    BY <1>1, <1>4 DEF Inserted
  <2>2. \A l \in Levels : next'[HeadNode][l] # Junk
    BY <1>12 DEF MemInv, LinksInv
  <2>3. \A n \in entries', l, j \in Levels : j <= l /\ next'[n][l] # Junk => next'[n][j] # Junk
    <3> TAKE n \in entries', l, j \in Levels
    <3>1. entries' = entries \cup {e}
      BY <1>1
    <3>2. CASE n = e
      BY <1>12, <3>2
    <3>3. CASE n \in entries
      BY <1>12, <3>3 DEF MemInv, LinksInv
    <3> QED  BY <3>1, <3>2, <3>3
  <2>4. \A n \in Inserted' : next'[n][0] # Junk
    BY <1>12, <2>1 DEF MemInv, LinksInv
  <2>5. w'.node = e /\ w'.level = 0 /\ w'.linked = FALSE
    BY <1>1
  <2>6. \A l \in Levels : (next'[w'.node][l] # Junk) <=> (l < w'.level \/ (l = w'.level /\ w'.linked))
    <3> TAKE l \in Levels
    <3>1. ~(l < 0) /\ next'[w'.node][l] = Junk
      BY <1>2, <1>12, <2>5
    <3> QED  BY <2>5, <3>1
  <2> QED  BY <2>2, <2>3, <2>4, <2>6 DEF LinksInv
<1>15. SortedInv'
  BY <1>2, <1>12, <1>13 DEF MemInv, SortedInv
<1>16. PrevInv'
  <2>1. w'.node = e /\ w'.linked = FALSE /\ \A l \in Levels : w'.prev[l] = PrevAt(e, l)
    BY <1>1
  <2> QED  BY <1>8, <1>13, <2>1 DEF PrevInv
<1>17. Grows
  BY <1>1, <1>2, <1>3, <1>4, <1>13 DEF Grows
<1> QED  BY <1>11, <1>14, <1>15, <1>16, <1>17 DEF MemInv

(* What every store of Insert's loop starts from.                          *)
LEMMA LinkTypes ==
    ASSUME MemInv, LinkLevel
    PROVE  /\ w.on /\ w \in Inserts /\ UNCHANGED <<entries, maxHeight, batch, visible, rd>>
           /\ w.level \in Levels /\ w.level \in Nat /\ w.height \in Nat /\ w.level < w.height
           /\ w.height <= maxHeight /\ maxHeight \in 1..MaxHeight
           /\ w.node \in entries /\ w.node \in IKey /\ w.linked \in BOOLEAN
           /\ DOMAIN next = entries \cup {HeadNode}
           /\ \A n \in entries \cup {HeadNode} : DOMAIN next[n] = Levels
           /\ \A n \in entries \cup {HeadNode}, l \in Levels :
                 next[n][l] \in entries \cup {Nil, Junk}
           /\ w.prev[w.level] \in entries \cup {HeadNode} /\ w.prev[w.level] # w.node
           /\ w.prev[w.level] \in Published(w.level) \cup {HeadNode}
           /\ next[w.prev[w.level]][w.level] \in Published(w.level) \cup {Nil}
           /\ Precedes(Published(w.level), w.prev[w.level], w.node)
<1>1. w.on /\ UNCHANGED <<entries, maxHeight, batch, visible, rd>>
  BY DEF LinkLevel
<1>2. w \in Inserts /\ Levels \subseteq Nat /\ entries \subseteq IKey /\ HeadNode \notin entries
  BY <1>1, MemTypes
<1>3. /\ w.level \in Levels /\ w.node \in entries /\ w.linked \in BOOLEAN
      /\ w.height \in 1..maxHeight
  BY <1>2 DEF Inserts
<1>4. /\ next \in [entries \cup {HeadNode} -> [Levels -> entries \cup {Nil, Junk}]]
      /\ w.level < w.height /\ maxHeight \in 1..MaxHeight
  BY <1>1 DEF MemInv, EntriesInv
<1>a. /\ w.level \in Nat /\ w.height \in Nat /\ w.height <= maxHeight
      /\ w.node \in IKey
  <2>1. w.level \in Nat /\ w.node \in IKey
    BY <1>2, <1>3 DEF Levels
  <2>2. w.height \in Nat /\ w.height <= maxHeight
    BY <1>3, <1>4
  <2> QED  BY <2>1, <2>2
<1>5. w.level >= w.level
  BY <1>a
<1>6. Precedes(Published(w.level), w.prev[w.level], w.node) /\ w.node \notin Published(w.level)
  BY <1>1, <1>3, <1>5, MemTypes DEF MemInv, PrevInv
<1>7. w.prev[w.level] \in Published(w.level) \cup {HeadNode}
  BY <1>6 DEF Precedes
<1>8. next[w.prev[w.level]][w.level] \in Published(w.level) \cup {Nil}
  BY <1>3, <1>7 DEF MemInv, SortedInv, Follows
<1>9. Published(w.level) \subseteq entries
  BY <1>3, MemTypes
<1>10. /\ DOMAIN next = entries \cup {HeadNode}
       /\ \A n \in entries \cup {HeadNode} : DOMAIN next[n] = Levels
       /\ \A n \in entries \cup {HeadNode}, l \in Levels : next[n][l] \in entries \cup {Nil, Junk}
  BY <1>4
<1>11. w.prev[w.level] \in entries \cup {HeadNode} /\ w.prev[w.level] # w.node
  BY <1>2, <1>3, <1>6, <1>7, <1>9
<1> QED  BY <1>1, <1>2, <1>3, <1>4, <1>a, <1>6, <1>7, <1>8, <1>10, <1>11

(* The node's own link: no list changes.                                   *)
LEMMA OwnLinkStep ==
    ASSUME MemInv, LinkLevel, ~w.linked
    PROVE  MemInv' /\ Grows
<1> DEFINE l == w.level
           p == w.prev[l]
           e == w.node
<1>1. /\ w.on /\ w \in Inserts /\ UNCHANGED <<entries, maxHeight, batch, visible, rd>>
      /\ l \in Levels /\ l \in Nat /\ e \in entries /\ e # p
      /\ DOMAIN next = entries \cup {HeadNode}
      /\ \A n \in entries \cup {HeadNode} : DOMAIN next[n] = Levels
      /\ \A n \in entries \cup {HeadNode}, j \in Levels : next[n][j] \in entries \cup {Nil, Junk}
      /\ p \in entries \cup {HeadNode} /\ next[p][l] \in Published(l) \cup {Nil}
  BY LinkTypes
<1>2. /\ Levels \subseteq Nat /\ 0 \in Levels /\ entries \subseteq IKey
      /\ HeadNode \notin entries /\ Junk \notin entries /\ Nil # Junk
      /\ Published(l) \subseteq entries
  BY <1>1, MemTypes, NodesAndMarks
<1>3. next' = [next EXCEPT ![e][l] = next[p][l]] /\ w' = [w EXCEPT !.linked = TRUE]
  BY DEF LinkLevel, Linked, LevelAt
<1>4. /\ w' \in Inserts' /\ w'.on = TRUE /\ w'.linked = TRUE /\ w'.node = e /\ w'.level = l
      /\ w'.height = w.height /\ w'.prev = w.prev
  BY <1>1, <1>3 DEF Inserts
<1>5. /\ \A n \in entries \cup {HeadNode}, j \in Levels :
            next'[n][j] = IF n = e /\ j = l THEN next[p][l] ELSE next[n][j]
      /\ next' \in [entries \cup {HeadNode} -> [Levels -> entries \cup {Nil, Junk}]]
  <2>1. next \in [entries \cup {HeadNode} -> [Levels -> entries \cup {Nil, Junk}]]
    BY DEF MemInv, EntriesInv
  <2> QED  BY <1>1, <1>2, <1>3, <2>1
<1> HIDE DEF l, p, e
<1>6. next[p][l] # Junk /\ next'[e][l] = next[p][l] /\ next'[p][l] = next[p][l]
  BY <1>1, <1>2, <1>5
<1>7. EntriesInv'
  BY <1>1, <1>4, <1>5 DEF MemInv, EntriesInv, e, l
<1>8. /\ \A j \in Levels : (next[e][j] # Junk) <=> j < l
      /\ \A n \in entries, j, i \in Levels : i <= j /\ next[n][j] # Junk => next[n][i] # Junk
      /\ \A n \in Inserted : next[n][0] # Junk
      /\ \A j \in Levels : next[HeadNode][j] # Junk
  BY <1>1 DEF MemInv, LinksInv, l, e
<1>9. LinksInv'
  <2>1. Inserted' = Inserted /\ Inserted = entries \ {e}
    BY <1>1, <1>4 DEF Inserted, e
  <2>2. \A j \in Levels : next'[HeadNode][j] # Junk
    BY <1>1, <1>2, <1>5, <1>8
  <2>3. \A j \in Levels : (next'[e][j] # Junk) <=> (j < l \/ j = l)
    BY <1>1, <1>2, <1>5, <1>6, <1>8
  <2>4. \A n \in entries, j, i \in Levels : i <= j /\ next'[n][j] # Junk => next'[n][i] # Junk
    <3> TAKE n \in entries, j, i \in Levels
    <3>1. CASE n = e
      BY <1>1, <1>2, <2>3, <3>1
    <3>2. CASE n # e
      BY <1>5, <1>8, <3>2
    <3> QED  BY <3>1, <3>2
  <2>5. \A n \in Inserted : next'[n][0] # Junk
    BY <1>2, <1>5, <1>8, <2>1
  <2> QED  BY <1>1, <1>4, <2>1, <2>2, <2>3, <2>4, <2>5 DEF LinksInv
<1>10. \A j \in Levels : Published(j)' = Published(j)
  <2> TAKE j \in Levels
  <2>1. Published(j) = {n \in entries : next[n][j] # Junk}
    BY DEF Published
  <2>2. Published(j)' = {n \in entries : next'[n][j] # Junk /\ ~(l = j /\ n = e)}
    BY <1>1, <1>4 DEF Published
  <2> QED  BY <1>1, <1>2, <1>5, <1>8, <2>1, <2>2
<1>11. SortedInv'
  <2> SUFFICES ASSUME NEW j \in Levels, NEW n \in Published(j) \cup {HeadNode}
               PROVE  Follows(Published(j), n, next'[n][j])
    BY <1>10 DEF SortedInv
  <2>1. next'[n][j] = next[n][j]
    BY <1>1, <1>2, <1>5, <1>8 DEF Published
  <2> QED  BY <2>1 DEF MemInv, SortedInv
<1>12. PrevInv'
  <2>1. \A j \in Levels : j >= l => Precedes(Published(j), w.prev[j], e)
    BY <1>1 DEF MemInv, PrevInv, l, e
  <2>2. w'.prev[l] = p
    BY <1>4 DEF p
  <2> QED  BY <1>4, <1>6, <1>10, <2>1, <2>2 DEF PrevInv
<1>13. Grows
  BY <1>1, <1>10 DEF Grows, MemInv, EntriesInv
<1> QED  BY <1>7, <1>9, <1>11, <1>12, <1>13 DEF MemInv

(* The predecessor's link: the node is published.                          *)
LEMMA PrevLinkStep ==
    ASSUME MemInv, LinkLevel, w.linked
    PROVE  MemInv' /\ Grows
<1> DEFINE l == w.level
           p == w.prev[l]
           e == w.node
<1>1. /\ w.on /\ w \in Inserts /\ UNCHANGED <<entries, maxHeight, batch, visible, rd>>
      /\ l \in Levels /\ l \in Nat /\ e \in entries /\ e \in IKey /\ e # p
      /\ w.height \in Nat /\ l < w.height /\ w.height <= maxHeight /\ maxHeight \in 1..MaxHeight
      /\ DOMAIN next = entries \cup {HeadNode}
      /\ \A n \in entries \cup {HeadNode} : DOMAIN next[n] = Levels
      /\ p \in entries \cup {HeadNode} /\ p \in Published(l) \cup {HeadNode}
      /\ Precedes(Published(l), p, e)
  BY LinkTypes
<1>2. /\ Levels \subseteq Nat /\ 0 \in Levels /\ entries \subseteq IKey
      /\ HeadNode \notin entries /\ Junk \notin entries /\ Nil # Junk
      /\ \A j \in Levels : Published(j) \subseteq entries
      /\ e \notin Published(l)
  BY <1>1, MemTypes, NodesAndMarks
<1>3. /\ next' = [next EXCEPT ![p][l] = e]
      /\ w' = IF l + 1 = w.height THEN NoInsert ELSE [w EXCEPT !.linked = FALSE, !.level = @ + 1]
  BY DEF LinkLevel, Linked, LevelAt
<1>4. /\ \A n \in entries \cup {HeadNode}, j \in Levels :
            next'[n][j] = IF n = p /\ j = l THEN e ELSE next[n][j]
      /\ next' \in [entries \cup {HeadNode} -> [Levels -> entries \cup {Nil, Junk}]]
  <2>1. next \in [entries \cup {HeadNode} -> [Levels -> entries \cup {Nil, Junk}]]
    BY DEF MemInv, EntriesInv
  <2> QED  BY <1>1, <1>2, <1>3, <2>1
<1>5. next[e][l] = next[p][l] /\ next'[e][l] = next[p][l] /\ next'[p][l] = e
  <2>1. next[e][l] = next[p][l]
    BY <1>1 DEF MemInv, PrevInv
  <2> QED  BY <1>1, <1>4, <2>1
<1> HIDE DEF l, p, e
<1>6. /\ w'.on \in BOOLEAN /\ (w' = NoInsert \/ w' \in Inserts')
      /\ w'.on => /\ w'.linked = FALSE /\ w'.node = e /\ w'.level = l + 1
                  /\ w'.height = w.height /\ w'.prev = w.prev /\ l + 1 < w.height
  <2>1. CASE l + 1 = w.height
    <3>1. w' = NoInsert /\ NoInsert.on = FALSE
      BY <1>3, <2>1 DEF NoInsert
    <3> QED  BY <3>1
  <2>2. CASE l + 1 # w.height
    <3>1. w' = [w EXCEPT !.linked = FALSE, !.level = l + 1]
      BY <1>3, <2>2 DEF l
    <3>2. l + 1 < w.height /\ l + 1 \in Levels
      BY <1>1, <2>2, MemAssumption DEF Levels
    <3>3. /\ w' \in Inserts' /\ w'.on = TRUE /\ w'.linked = FALSE /\ w'.node = e
          /\ w'.level = l + 1 /\ w'.height = w.height /\ w'.prev = w.prev
      BY <1>1, <3>1, <3>2 DEF Inserts, e
    <3> QED  BY <3>2, <3>3
  <2> QED  BY <2>1, <2>2
<1>7. EntriesInv'
  <2>1. /\ w.node[2] = Cardinality(entries) /\ visible < Cardinality(entries)
    BY <1>1 DEF MemInv, EntriesInv
  <2> QED  BY <1>1, <1>4, <1>6, <2>1 DEF MemInv, EntriesInv, e
<1>8. /\ \A j \in Levels : (next[e][j] # Junk) <=> (j < l \/ j = l)
      /\ \A n \in entries, j, i \in Levels : i <= j /\ next[n][j] # Junk => next[n][i] # Junk
      /\ \A n \in Inserted : next[n][0] # Junk
      /\ \A j \in Levels : next[HeadNode][j] # Junk
  BY <1>1 DEF MemInv, LinksInv, l, e
<1>9. next[p][l] # Junk
  BY <1>1, <1>8 DEF Published
<1>10. \A n \in entries \cup {HeadNode}, j \in Levels : (next'[n][j] # Junk) <=> (next[n][j] # Junk)
  BY <1>1, <1>2, <1>4, <1>9
<1>11. LinksInv'
  <2>1. \A n \in Inserted' : next'[n][0] # Junk
    <3>1. Inserted' \subseteq Inserted \cup {e} /\ Inserted \subseteq entries
      BY <1>1 DEF Inserted, e
    <3>2. 0 < l \/ 0 = l
      BY <1>1
    <3> QED  BY <1>1, <1>2, <1>8, <1>10, <3>1, <3>2
  <2>2. w'.on => \A j \in Levels :
          (next'[w'.node][j] # Junk) <=> (j < w'.level \/ (j = w'.level /\ w'.linked))
    <3>1. \A j \in Levels : (j < l \/ j = l) <=> j < l + 1
      BY <1>1, <1>2
    <3> QED  BY <1>1, <1>6, <1>8, <1>10, <3>1
  <2>3. \A j \in Levels : next'[HeadNode][j] # Junk
    BY <1>8, <1>10
  <2>4. \A n \in entries', j, i \in Levels : i <= j /\ next'[n][j] # Junk => next'[n][i] # Junk
    BY <1>1, <1>8, <1>10
  <2> QED  BY <2>1, <2>2, <2>3, <2>4 DEF LinksInv
<1>12. \A j \in Levels : Published(j)' = IF j = l THEN Published(j) \cup {e} ELSE Published(j)
  <2> TAKE j \in Levels
  <2>1. Published(j) = {n \in entries : next[n][j] # Junk /\ ~(l = j /\ n = e)}
    BY <1>1 DEF Published, l, e
  <2>2. Published(j)' = {n \in entries : next'[n][j] # Junk}
    BY <1>1, <1>6 DEF Published
  <2>3. next[e][l] # Junk
    BY <1>1, <1>8
  <2> QED  BY <1>1, <1>10, <2>1, <2>2, <2>3
<1>13. SortedInv'
  <2> SUFFICES ASSUME NEW j \in Levels, NEW n \in Published(j)' \cup {HeadNode}
               PROVE  Follows(Published(j)', n, next'[n][j])
    BY DEF SortedInv
  <2>1. \A m \in Published(j) \cup {HeadNode} : Follows(Published(j), m, next[m][j])
    BY DEF MemInv, SortedInv
  <2>2. CASE j # l
    <3>1. Published(j)' = Published(j) /\ n \in entries \cup {HeadNode}
      BY <1>2, <1>12, <2>2
    <3> QED  BY <1>4, <2>1, <2>2, <3>1
  <2>3. CASE j = l
    <3> DEFINE P == Published(j)
    <3>1. /\ P \subseteq IKey /\ e \notin P /\ Precedes(P, p, e) /\ Published(j)' = P \cup {e}
          /\ P \subseteq entries /\ p \in P \cup {HeadNode}
      BY <1>1, <1>2, <1>12, <2>3
    <3>2. Follows(P, p, next[p][j])
      BY <2>1, <3>1
    <3> HIDE DEF P
    <3>3. /\ Follows(P \cup {e}, p, e)
          /\ Follows(P \cup {e}, e, next[p][j])
          /\ \A m \in P \cup {HeadNode} : \A t : m # p /\ Follows(P, m, t) => Follows(P \cup {e}, m, t)
      BY <1>1, <3>1, <3>2, Splice
    <3>4. CASE n = p
      BY <1>5, <2>3, <3>1, <3>3, <3>4
    <3>5. CASE n = e
      BY <1>5, <2>3, <3>1, <3>3, <3>5
    <3>6. CASE n # p /\ n # e
      <4>1. n \in P \cup {HeadNode} /\ n \in entries \cup {HeadNode}
        BY <3>1, <3>6
      <4>2. next'[n][j] = next[n][j]
        BY <1>4, <3>6, <4>1
      <4>3. Follows(P, n, next[n][j])
        BY <2>1, <4>1 DEF P
      <4> QED  BY <3>1, <3>3, <3>6, <4>1, <4>2, <4>3
    <3> QED  BY <3>4, <3>5, <3>6
  <2> QED  BY <2>2, <2>3
<1>14. PrevInv'
  <2> SUFFICES ASSUME w'.on, NEW j \in Levels, j >= w'.level
               PROVE  Precedes(Published(j)', w'.prev[j], w'.node)
    BY <1>6 DEF PrevInv
  <2>1. j >= l /\ j # l
    BY <1>1, <1>2, <1>6
  <2>2. Precedes(Published(j), w.prev[j], e)
    BY <1>1, <2>1 DEF MemInv, PrevInv, l, e
  <2> QED  BY <1>6, <1>12, <2>1, <2>2
<1>15. Grows
  BY <1>1, <1>12 DEF Grows, MemInv, EntriesInv
<1> QED  BY <1>7, <1>11, <1>13, <1>14, <1>15 DEF MemInv

(* Everything the writer does.                                             *)
Writes ==
  \/ SetLastSequence \/ \E n \in 1..MaxBatch : BeginBatch(n)
  \/ \E k \in Keys, h \in 1..MaxHeight : Add(k, h)
  \/ LinkLevel

(* The writer keeps the list in order, and only adds to it.                *)
LEMMA WriterStep ==
    ASSUME MemInv, Writes
    PROVE  MemInv' /\ Grows /\ rd' = rd
<1>1. rd' = rd
  BY DEF Writes, SetLastSequence, BeginBatch, Add, LinkLevel
<1>2. CASE SetLastSequence \/ \E n \in 1..MaxBatch : BeginBatch(n)
  BY <1>1, <1>2, BatchStep
<1>3. CASE \E k \in Keys, h \in 1..MaxHeight : Add(k, h)
  BY <1>1, <1>3, AddStep
<1>4. CASE LinkLevel
  BY <1>1, <1>4, OwnLinkStep, PrevLinkStep
<1> QED  BY <1>2, <1>3, <1>4 DEF Writes

-----------------------------------------------------------------------------
(* The reader.                                                             *)

(* A level holds what the levels above it hold.                            *)
LEMMA PublishedBelow ==
    ASSUME MemInv, NEW l \in Levels, NEW j \in Levels, j <= l
    PROVE  Published(l) \subseteq Published(j)
<1> SUFFICES ASSUME NEW n \in Published(l)  PROVE n \in Published(j)
  OBVIOUS
<1>1. n \in entries /\ next[n][l] # Junk /\ next[n][j] # Junk
  BY DEF Published, MemInv, LinksInv
<1>2. CASE w.on /\ w.linked /\ w.level = j /\ n = w.node
  <2>1. l \in Nat /\ j \in Nat
    BY MemTypes
  <2>2. l < j \/ l = j
    BY <1>1, <1>2 DEF MemInv, LinksInv
  <2>3. l = j
    BY <2>1, <2>2
  <2> QED  BY <2>3
<1>3. CASE ~(w.on /\ w.linked /\ w.level = j /\ n = w.node)
  BY <1>1, <1>3 DEF Published
<1> QED  BY <1>2, <1>3

(* A complete entry is in the lowest list.                                 *)
LEMMA InsertedIsPublished ==
    ASSUME MemInv
    PROVE  Inserted \subseteq Published(0)
BY DEF MemInv, LinksInv, Inserted, Published

(* What the writer does never disturbs the reader.                         *)
LEMMA ReaderUndisturbed ==
    ASSUME MemInv, MemInv', ReaderInv, Grows, rd' = rd
    PROVE  ReaderInv'
<1>1. /\ entries \subseteq entries' /\ visible <= visible'
      /\ \A l \in Levels : Published(l) \subseteq Published(l)'
      /\ \A e \in entries' \ entries : e[2] > visible
      /\ 0 \in Levels /\ visible \in Nat /\ visible' \in Nat
      /\ \A e \in entries' : e[2] \in Nat
  <2>1. 0 \in Levels
    BY MemTypes
  <2>2. visible \in Nat /\ visible' \in Nat
    BY MemTypes DEF MemInv, EntriesInv
  <2>3. \A e \in entries' : e[2] \in Nat
    BY DEF MemInv, EntriesInv, Node
  <2> QED  BY <2>1, <2>2, <2>3 DEF Grows
<1>2. rd'.node \in Published(0)' \cup {Nil} /\ DOMAIN rd' = {"node", "op"} /\ NothingSkipped'
  BY <1>1 DEF ReaderInv, NothingSkipped
<1>3. CASE rd.op = NoOp
  BY <1>2, <1>3 DEF ReaderInv
<1>4. CASE rd.op # NoOp
  <2> DEFINE o == rd.op
  <2>1. o' = o
    OBVIOUS
  <2>2. o \in Operations
    BY <1>4 DEF ReaderInv
  <2>3. o \in Operations'
    BY <1>1, <2>2 DEF Operations
  <2>4. /\ o.phase # "lost" /\ o.known \subseteq Published(0)
        /\ o.phase = "walk" => WalkInv(o)
        /\ o.kind = "get" => /\ o.target \in IKey /\ o.target[2] <= visible
                             /\ \A e \in entries : e[2] <= o.target[2] => e \in o.known
        /\ o.phase = "done" /\ o.kind \in {"seek", "get"} => rd.node = Nil \/ ~Less(rd.node, o.target)
    BY <1>4 DEF ReaderInv
  <2>5. o.level \in Levels
    BY <2>2 DEF Operations
  <2> HIDE DEF o
  <2>6. o.phase = "walk" => WalkInv(o)'
    BY <1>1, <2>1, <2>4, <2>5 DEF WalkInv
  <2>7. o.kind = "get" => /\ o.target[2] <= visible'
                          /\ \A e \in entries' : e[2] <= o.target[2] => e \in o.known
    <3> SUFFICES ASSUME o.kind = "get"
                 PROVE  /\ o.target[2] <= visible'
                        /\ \A e \in entries' : e[2] <= o.target[2] => e \in o.known
      OBVIOUS
    <3>1. o.target[2] \in Nat /\ o.target[2] <= visible
      BY <2>4 DEF IKey
    <3>2. \A e \in entries' : e[2] <= o.target[2] => e \in entries
      BY <1>1, <3>1
    <3> QED  BY <1>1, <2>4, <3>1, <3>2
  <2>8. o.known \subseteq Published(0)'
    BY <1>1, <2>4
  <2> QED  BY <1>2, <2>1, <2>3, <2>4, <2>6, <2>7, <2>8 DEF ReaderInv, o
<1> QED  BY <1>3, <1>4

(* A step of the reader leaves the list alone.                             *)
LEMMA ListUntouched ==
    ASSUME MemInv, UNCHANGED <<entries, next, maxHeight, w, batch, visible>>
    PROVE  MemInv' /\ \A l \in Levels : Published(l)' = Published(l)
BY DEF MemInv, EntriesInv, LinksInv, SortedInv, PrevInv, Inserts, Inserted, Published

(* An operation begins at the head or at the node of the iterator.         *)
LEMMA StartStep ==
    ASSUME MemInv, ReaderInv,
           NEW kind \in SearchKinds, NEW target \in IKey \cup {Nil}, NEW x, NEW level \in Levels,
           Start(kind, target, x, level),
           x = HeadNode \/ (kind = "next" /\ x = rd.node /\ rd.node # Nil),
           kind \in {"seek", "get", "prev"} => target \in IKey,
           kind \in {"first", "next"} => level = 0,
           kind = "next" => x = rd.node /\ rd.node # Nil,
           kind = "prev" => target = rd.node,
           kind = "get" => target[2] = visible
    PROVE  MemInv' /\ ReaderInv'
<1> DEFINE o == [phase |-> "walk", kind |-> kind, target |-> target, x |-> x,
                 level |-> level, known |-> Inserted, from |-> rd.node]
<1>1. /\ rd' = [rd EXCEPT !.op = o]
      /\ UNCHANGED <<entries, next, maxHeight, w, batch, visible>>
  BY DEF Start
<1>2. MemInv' /\ \A l \in Levels : Published(l)' = Published(l)
  BY <1>1, ListUntouched
<1>3. /\ Published(0) \subseteq entries /\ entries \subseteq IKey /\ 0 \in Levels
      /\ HeadNode \notin entries /\ Nil \notin entries
  BY MemTypes
<1>4. Inserted \subseteq Published(0)
  BY InsertedIsPublished
<1>5. rd.node \in Published(0) \cup {Nil} /\ DOMAIN rd = {"node", "op"}
  BY DEF ReaderInv
<1>6. rd'.op = o /\ rd'.node = rd.node /\ DOMAIN rd' = {"node", "op"}
  BY <1>1, <1>5
<1>7. /\ o.phase = "walk" /\ o.kind = kind /\ o.target = target /\ o.x = x /\ o.level = level
      /\ o.known = Inserted /\ o.from = rd.node /\ o \in Operations
  BY <1>3, <1>4, <1>5 DEF Operations
<1> HIDE DEF o
<1>8. WalkInv(o)
  BY <1>3, <1>5, <1>7 DEF WalkInv
<1>9. kind = "get" => \A e \in entries : e[2] <= target[2] => e \in Inserted
  <2> SUFFICES ASSUME kind = "get", NEW e \in entries, e[2] <= target[2]  PROVE e \in Inserted
    OBVIOUS
  <2>1. e[2] <= visible /\ visible \in Nat
    BY DEF MemInv, EntriesInv
  <2>2. w.on => w.node[2] = Cardinality(entries) /\ visible < Cardinality(entries)
    BY DEF MemInv, EntriesInv
  <2>3. w.on => e # w.node
    BY <2>1, <2>2, MemTypes
  <2> QED  BY <2>3 DEF Inserted
<1>10. kind = "get" => target[2] <= visible
  BY DEF MemInv, EntriesInv
<1>11. NothingSkipped'
  BY <1>6, <1>7 DEF NothingSkipped
<1>12. rd'.op \in Operations' /\ rd'.op # NoOp
  <2>1. rd'.op \in Operations
    BY <1>6, <1>7
  <2>2. rd'.op.phase = "walk" /\ NoOp.phase = "none"
    BY <1>6, <1>7 DEF NoOp
  <2> QED  BY <1>1, <2>1, <2>2 DEF Operations
<1>13. WalkInv(rd.op)'
  BY <1>2, <1>6, <1>7, <1>8 DEF WalkInv
<1>14. rd'.node \in Published(0)' \cup {Nil} /\ rd'.op.known \subseteq Published(0)'
  BY <1>2, <1>3, <1>4, <1>5, <1>6, <1>7
<1>15. rd'.op.phase = "walk" /\ rd'.op.target = target /\ rd'.op.kind = kind
       /\ rd'.op.known = Inserted
  BY <1>6, <1>7
<1> QED  BY <1>1, <1>2, <1>6, <1>9, <1>10, <1>11, <1>12, <1>13, <1>14, <1>15 DEF ReaderInv

(* What a walk reads is what follows the node it is at.                    *)
LEMMA WalkReads ==
    ASSUME MemInv, ReaderInv, rd.op.phase = "walk"
    PROVE  LET o == rd.op
               n == next[o.x][o.level]
           IN /\ o \in Operations /\ o # NoOp /\ WalkInv(o) /\ o.level \in Levels
              /\ o.x \in Published(o.level) \cup {HeadNode}
              /\ Follows(Published(o.level), o.x, n) /\ n \in Published(o.level) \cup {Nil}
              /\ n # Junk /\ n # HeadNode
<1> DEFINE o == rd.op
           n == next[o.x][o.level]
<1>1. o # NoOp
  BY DEF NoOp
<1>2. o \in Operations /\ WalkInv(o)
  BY <1>1 DEF ReaderInv
<1>3. o.level \in Levels /\ o.x \in Published(o.level) \cup {HeadNode}
  BY <1>2 DEF Operations, WalkInv
<1>4. Follows(Published(o.level), o.x, n)
  BY <1>3 DEF MemInv, SortedInv
<1>5. n \in Published(o.level) \cup {Nil}
  BY <1>4 DEF Follows
<1>6. n # Junk /\ n # HeadNode
  BY <1>3, <1>5, MemTypes, NodesAndMarks
<1> QED  BY <1>1, <1>2, <1>3, <1>4, <1>5, <1>6

(* Where a walk ends it has passed over nothing that it knows of.          *)
LEMMA WalkEnds ==
    ASSUME MemInv, NEW o \in Operations, NEW n, WalkInv(o), o.level = 0,
           o.known \subseteq Published(0),
           Follows(Published(0), o.x, n), ~GoesOn(o, n)
    PROVE  /\ Between([o EXCEPT !.phase = "done"], Result(o, n)) = {}
           /\ o.kind \in {"seek", "get"} => n = Nil \/ ~Less(n, o.target)
           /\ Result(o, n) \in Published(0) \cup {Nil}
<1> DEFINE P == Published(0)
           r == Result(o, n)
           d == [o EXCEPT !.phase = "done"]
<1>1. /\ P \subseteq IKey /\ \A a \in IKey : a # HeadNode /\ a # Nil
  BY MemTypes, NodesAndMarks
<1>2. /\ o.kind \in SearchKinds /\ o.from \in entries \cup {Nil}
      /\ d.kind = o.kind /\ d.known = o.known /\ d.target = o.target /\ d.from = o.from
  BY DEF Operations
<1>3. /\ n \in P \cup {Nil} /\ o.x \in P \cup {HeadNode}
      /\ \A m \in P : o.x = HeadNode \/ Less(o.x, m) => n # Nil /\ (m = n \/ Less(n, m))
  BY DEF Follows, WalkInv
<1>4. o.kind \in {"seek", "get", "prev"} => n = Nil \/ ~Less(n, o.target)
  BY DEF GoesOn
<1>5. r \in P \cup {Nil}
  BY <1>3 DEF Result
<1>6. o.known \subseteq P
  OBVIOUS
<1> HIDE DEF P, d
<1>7. CASE o.kind \in {"seek", "get"}
  <2>1. o.target \in IKey /\ (o.x # HeadNode => Less(o.x, o.target)) /\ r = n
    BY <1>7 DEF WalkInv, Result
  <2>2. ASSUME NEW e \in o.known, ~Less(e, o.target), n # Nil => Less(e, n)  PROVE FALSE
    <3>1. e \in IKey /\ e \in P /\ (n # Nil => n \in IKey)
      BY <1>1, <1>3, <1>6, <2>2
    <3>2. o.x = HeadNode \/ Less(o.x, e)
      BY <1>1, <1>3, <2>1, <2>2, <3>1, LessIsTotalOrder
    <3>3. n # Nil /\ (e = n \/ Less(n, e))
      BY <1>3, <3>1, <3>2
    <3> QED  BY <2>2, <3>1, <3>3, LessIsTotalOrder
  <2>3. Between(d, n) = {e \in o.known : ~Less(e, o.target) /\ (n # Nil => Less(e, n))}
    BY <1>2, <1>7 DEF Between
  <2>4. Between(d, n) = {}
    BY <2>2, <2>3
  <2> QED  BY <1>4, <1>5, <1>7, <2>1, <2>4 DEF d, P
<1>8. CASE o.kind = "first"
  <2>1. o.x = HeadNode /\ r = n
    BY <1>8 DEF WalkInv, Result
  <2>2. ASSUME NEW e \in o.known, n # Nil => Less(e, n)  PROVE FALSE
    <3>1. e \in IKey /\ e \in P /\ n # Nil /\ n \in IKey /\ (e = n \/ Less(n, e))
      BY <1>1, <1>3, <1>6, <2>1
    <3> QED  BY <2>2, <3>1, LessIsTotalOrder
  <2>3. Between(d, n) = {e \in o.known : n # Nil => Less(e, n)}
    BY <1>2, <1>8 DEF Between
  <2>4. Between(d, n) = {}
    BY <2>2, <2>3
  <2> QED  BY <1>5, <1>8, <2>1, <2>4 DEF d, P
<1>9. CASE o.kind = "next"
  <2>1. o.x = o.from /\ r = n
    BY <1>9 DEF WalkInv, Result
  <2>2. ASSUME NEW e \in o.known, Less(o.from, e), n # Nil => Less(e, n)  PROVE FALSE
    <3>1. e \in IKey /\ e \in P /\ n # Nil /\ n \in IKey /\ (e = n \/ Less(n, e))
      BY <1>1, <1>3, <1>6, <2>1, <2>2
    <3> QED  BY <2>2, <3>1, LessIsTotalOrder
  <2>3. Between(d, n) = {e \in o.known : Less(o.from, e) /\ (n # Nil => Less(e, n))}
    BY <1>2, <1>9 DEF Between
  <2>4. Between(d, n) = {}
    BY <2>2, <2>3
  <2> QED  BY <1>5, <1>9, <2>1, <2>4 DEF d, P
<1>10. CASE o.kind = "prev"
  <2>1. /\ o.from \in IKey /\ o.target = o.from /\ (o.x # HeadNode => Less(o.x, o.from))
        /\ r = IF o.x = HeadNode THEN Nil ELSE o.x
    BY <1>10 DEF WalkInv, Result
  <2>2. ASSUME NEW e \in o.known, Less(e, o.from), r # Nil => Less(r, e)  PROVE FALSE
    <3>1. e \in IKey /\ e \in P /\ (o.x = HeadNode \/ Less(o.x, e))
      BY <1>1, <1>3, <1>6, <2>1, <2>2
    <3>2. n # Nil /\ n \in IKey /\ (e = n \/ Less(n, e))
      BY <1>1, <1>3, <3>1
    <3>3. ~Less(n, o.from)
      BY <1>4, <1>10, <2>1, <3>2
    <3> QED  BY <2>1, <2>2, <3>1, <3>2, <3>3, LessIsTotalOrder
  <2>3. Between(d, r) = {e \in o.known : Less(e, o.from) /\ (r # Nil => Less(r, e))}
    BY <1>2, <1>10 DEF Between
  <2>4. Between(d, r) = {}
    BY <2>2, <2>3
  <2> QED  BY <1>5, <1>10, <2>4 DEF d, P
<1>11. CASE o.kind = "last"
  <2>1. n = Nil /\ r = IF o.x = HeadNode THEN Nil ELSE o.x
    BY <1>11 DEF GoesOn, Result
  <2>2. ASSUME NEW e \in o.known, r # Nil => Less(r, e)  PROVE FALSE
    BY <1>1, <1>3, <1>6, <2>1, <2>2
  <2>3. Between(d, r) = {e \in o.known : r # Nil => Less(r, e)}
    BY <1>2, <1>11 DEF Between
  <2>4. Between(d, r) = {}
    BY <2>2, <2>3
  <2> QED  BY <1>5, <1>11, <2>4 DEF d, P
<1> QED  BY <1>2, <1>7, <1>8, <1>9, <1>10, <1>11 DEF SearchKinds

(* A reader reads one link.                                                *)
LEMMA ReadLinkStep ==
    ASSUME MemInv, ReaderInv, ReadLink
    PROVE  MemInv' /\ ReaderInv'
<1> DEFINE o == rd.op
           n == next[o.x][o.level]
<1>1. /\ o.phase = "walk"
      /\ UNCHANGED <<entries, next, maxHeight, w, batch, visible>>
      /\ rd' = IF n = Junk THEN [rd EXCEPT !.op.phase = "lost"]
               ELSE IF GoesOn(o, n) THEN [rd EXCEPT !.op.x = n]
               ELSE IF o.level > 0 THEN [rd EXCEPT !.op.level = @ - 1]
               ELSE [rd EXCEPT !.node = Result(o, n), !.op.phase = "done"]
  BY DEF ReadLink
<1>2. MemInv' /\ \A l \in Levels : Published(l)' = Published(l)
  BY <1>1, ListUntouched
<1>3. /\ o \in Operations /\ WalkInv(o) /\ o.level \in Levels /\ o # NoOp
      /\ o.x \in Published(o.level) \cup {HeadNode}
      /\ Follows(Published(o.level), o.x, n) /\ n \in Published(o.level) \cup {Nil}
      /\ n # Junk /\ n # HeadNode
  BY <1>1, WalkReads
<1>4. /\ Levels \subseteq Nat /\ 0 \in Levels /\ Published(o.level) \subseteq entries
  BY <1>3, MemTypes
<1>5. /\ DOMAIN rd = {"node", "op"} /\ rd.node \in Published(0) \cup {Nil}
      /\ o.known \subseteq Published(0)
      /\ o.kind = "get" =>
            /\ o.target \in IKey /\ o.target[2] <= visible
            /\ \A e \in entries : e[2] <= o.target[2] => e \in o.known
  BY <1>3 DEF ReaderInv
<1>6. /\ o.kind \in {"seek", "get", "prev"} =>
            o.target \in IKey /\ (o.x # HeadNode => Less(o.x, o.target))
      /\ o.kind = "first" => o.x = HeadNode /\ o.level = 0
      /\ o.kind = "next" => o.x = o.from /\ o.x # HeadNode /\ o.level = 0
      /\ o.kind = "prev" => o.target = o.from
  BY <1>3 DEF WalkInv
<1>7. NoOp.phase = "none"
  BY DEF NoOp
<1> HIDE DEF o, n
<1>8. CASE GoesOn(o, n)
  <2> DEFINE q == [o EXCEPT !.x = n]
  <2>1. rd' = [rd EXCEPT !.op.x = n]
    BY <1>1, <1>3, <1>8
  <2>2. rd'.op = q /\ rd'.node = rd.node /\ DOMAIN rd' = {"node", "op"}
    BY <1>5, <2>1 DEF o
  <2>3. n # Nil /\ (o.kind \in {"seek", "get", "prev"} => Less(n, o.target))
        /\ o.kind # "first" /\ o.kind # "next"
    BY <1>8 DEF GoesOn
  <2>4. /\ q \in Operations /\ q.phase = "walk" /\ q.kind = o.kind /\ q.x = n /\ q.level = o.level
        /\ q.known = o.known /\ q.target = o.target /\ q.from = o.from
    BY <1>1, <1>3, <1>4, <2>3 DEF Operations
  <2> HIDE DEF q
  <2>5. WalkInv(rd.op)'
    BY <1>2, <1>3, <1>6, <2>2, <2>3, <2>4 DEF WalkInv
  <2>6. rd'.op \in Operations' /\ rd'.op # NoOp
    BY <1>1, <1>7, <2>2, <2>4 DEF Operations
  <2>7. NothingSkipped'
    BY <2>2, <2>4 DEF NothingSkipped
  <2> QED  BY <1>1, <1>2, <1>4, <1>5, <2>2, <2>4, <2>5, <2>6, <2>7 DEF ReaderInv
<1>9. CASE ~GoesOn(o, n) /\ o.level > 0
  <2> DEFINE q == [o EXCEPT !.level = o.level - 1]
  <2>1. rd' = [rd EXCEPT !.op.level = o.level - 1]
    BY <1>1, <1>3, <1>9 DEF o
  <2>2. rd'.op = q /\ rd'.node = rd.node /\ DOMAIN rd' = {"node", "op"}
    BY <1>5, <2>1 DEF o
  <2>3. o.level \in Nat /\ o.level - 1 \in Levels /\ o.level - 1 <= o.level
    BY <1>3, <1>9, MemAssumption DEF Levels
  <2>4. /\ q \in Operations /\ q.phase = "walk" /\ q.kind = o.kind /\ q.x = o.x
        /\ q.level = o.level - 1
        /\ q.known = o.known /\ q.target = o.target /\ q.from = o.from
    BY <1>1, <1>3, <2>3 DEF Operations
  <2>5. o.x \in Published(o.level - 1) \cup {HeadNode}
    BY <1>3, <2>3, PublishedBelow
  <2>6. o.kind # "first" /\ o.kind # "next"
    BY <1>6, <1>9
  <2> HIDE DEF q
  <2>7. WalkInv(rd.op)'
    BY <1>2, <1>6, <2>2, <2>3, <2>4, <2>5, <2>6 DEF WalkInv
  <2>8. rd'.op \in Operations' /\ rd'.op # NoOp
    BY <1>1, <1>7, <2>2, <2>4 DEF Operations
  <2>9. NothingSkipped'
    BY <2>2, <2>4 DEF NothingSkipped
  <2> QED  BY <1>1, <1>2, <1>4, <1>5, <2>2, <2>4, <2>7, <2>8, <2>9 DEF ReaderInv
<1>10. CASE ~GoesOn(o, n) /\ ~(o.level > 0)
  <2> DEFINE q == [o EXCEPT !.phase = "done"]
             r == Result(o, n)
  <2>1. o.level = 0
    <3>1. o.level \in Nat
      BY <1>3, <1>4
    <3> QED  BY <1>10, <3>1
  <2>2. rd' = [rd EXCEPT !.node = r, !.op.phase = "done"]
    BY <1>1, <1>3, <1>10
  <2>3. rd'.op = q /\ rd'.node = r /\ DOMAIN rd' = {"node", "op"}
    BY <1>5, <2>2 DEF o
  <2>4. /\ q \in Operations /\ q.phase = "done" /\ q.kind = o.kind
        /\ q.known = o.known /\ q.target = o.target
    BY <1>3 DEF Operations
  <2>5. /\ Between(q, r) = {}
        /\ o.kind \in {"seek", "get"} => n = Nil \/ ~Less(n, o.target)
        /\ r \in Published(0) \cup {Nil}
    BY <1>3, <1>5, <1>10, <2>1, WalkEnds
  <2>6. o.kind \in {"seek", "get"} => r = n
    BY DEF Result
  <2> HIDE DEF q, r
  <2>7. rd'.op \in Operations' /\ rd'.op # NoOp
    BY <1>1, <1>7, <2>3, <2>4 DEF Operations
  <2>8. NothingSkipped'
    BY <2>3, <2>5 DEF NothingSkipped, Between
  <2> QED  BY <1>1, <1>2, <1>4, <1>5, <2>3, <2>4, <2>5, <2>6, <2>7, <2>8, ZenonT(30) DEF ReaderInv
<1> QED  BY <1>8, <1>9, <1>10

(* Everything a reader does.                                               *)
LEMMA ReaderStep ==
    ASSUME MemInv, ReaderInv, Next
    PROVE  Writes \/ (MemInv' /\ ReaderInv')
<1>1. /\ 0 \in Levels /\ \A h \in 1..MaxHeight : h - 1 \in Levels
      /\ visible \in Nat /\ Published(0) \subseteq entries /\ entries \subseteq IKey
      /\ rd.node \in Published(0) \cup {Nil}
  <2>1. visible \in Nat
    BY MemTypes DEF MemInv, EntriesInv
  <2> QED  BY <2>1, MemTypes, MemAssumption DEF Levels, ReaderInv
<1>2. ASSUME NEW k \in Keys, NEW h \in 1..MaxHeight, Seek(k, h) \/ Get(k, h)
      PROVE  MemInv' /\ ReaderInv'
  <2>1. LookupKey(k) \in IKey /\ LookupKey(k)[2] = visible
    BY <1>1 DEF LookupKey, IKey
  <2>2. CASE Seek(k, h)
    <3>1. Start("seek", LookupKey(k), HeadNode, h - 1)
      BY <2>2 DEF Seek
    <3> QED  BY <1>1, <2>1, <3>1, StartStep DEF SearchKinds
  <2>3. CASE Get(k, h)
    <3>1. Start("get", LookupKey(k), HeadNode, h - 1)
      BY <2>3 DEF Get
    <3> QED  BY <1>1, <2>1, <3>1, StartStep DEF SearchKinds
  <2> QED  BY <1>2, <2>2, <2>3
<1>3. ASSUME NEW h \in 1..MaxHeight, SeekToLast(h) \/ Prev(h)
      PROVE  MemInv' /\ ReaderInv'
  <2>1. CASE SeekToLast(h)
    <3>1. Start("last", Nil, HeadNode, h - 1)
      BY <2>1 DEF SeekToLast
    <3> QED  BY <1>1, <3>1, StartStep DEF SearchKinds
  <2>2. CASE Prev(h)
    <3>1. rd.node # Nil /\ Start("prev", rd.node, HeadNode, h - 1)
      BY <2>2 DEF Prev
    <3>2. rd.node \in IKey
      BY <1>1, <3>1
    <3> QED  BY <1>1, <3>1, <3>2, StartStep DEF SearchKinds
  <2> QED  BY <1>3, <2>1, <2>2
<1>4. CASE SeekToFirst
  <2>1. Start("first", Nil, HeadNode, 0)
    BY <1>4 DEF SeekToFirst
  <2> QED  BY <1>1, <2>1, StartStep DEF SearchKinds
<1>5. CASE NextEntry
  <2>1. rd.node # Nil /\ Start("next", Nil, rd.node, 0)
    BY <1>5 DEF NextEntry
  <2> QED  BY <1>1, <2>1, StartStep DEF SearchKinds
<1>6. CASE ReadLink
  BY <1>6, ReadLinkStep
<1>7. CASE Return
  <2>1. /\ rd' = [node |-> IF rd.op.kind = "get" THEN Nil ELSE rd.node, op |-> NoOp]
        /\ UNCHANGED <<entries, next, maxHeight, w, batch, visible>>
    BY <1>7 DEF Return
  <2>2. MemInv' /\ \A l \in Levels : Published(l)' = Published(l)
    BY <2>1, ListUntouched
  <2>3. rd'.node \in {Nil, rd.node} /\ rd'.op = NoOp /\ DOMAIN rd' = {"node", "op"}
    BY <2>1
  <2>4. NothingSkipped'
    BY <2>3 DEF NothingSkipped, NoOp
  <2> QED  BY <1>1, <2>2, <2>3, <2>4 DEF ReaderInv
<1> QED  BY <1>2, <1>3, <1>4, <1>5, <1>6, <1>7 DEF Next, Writes

-----------------------------------------------------------------------------
(* The theorems.                                                           *)

(* The invariant holds when the table is made, and every step keeps it.    *)
LEMMA Inductive ==
    /\ Init => IInv
    /\ IInv /\ [Next]_vars => IInv'
<1>1. Init => IInv
  <2> SUFFICES ASSUME Init  PROVE IInv
    OBVIOUS
  <2>1. DOMAIN rd = {"node", "op"} /\ rd.node = Nil /\ rd.op = NoOp
    BY DEF Init
  <2>2. NothingSkipped
    BY <2>1 DEF NothingSkipped, NoOp
  <2> QED  BY <2>1, <2>2, MemInit DEF IInv, ReaderInv
<1>2. ASSUME IInv, Next  PROVE IInv'
  <2>1. MemInv /\ ReaderInv
    BY <1>2 DEF IInv
  <2>2. CASE Writes
    BY <2>1, <2>2, WriterStep, ReaderUndisturbed DEF IInv
  <2> QED  BY <1>2, <2>1, <2>2, ReaderStep DEF IInv
<1>3. ASSUME IInv, UNCHANGED vars  PROVE IInv'
  <2>1. MemInv /\ ReaderInv /\ UNCHANGED <<entries, next, maxHeight, w, batch, visible, rd>>
    BY <1>3 DEF IInv, vars
  <2>2. MemInv' /\ \A l \in Levels : Published(l)' = Published(l)
    BY <2>1, ListUntouched
  <2>3. Grows
    BY <2>1, <2>2 DEF Grows, MemInv, EntriesInv
  <2> QED  BY <2>1, <2>2, <2>3, ReaderUndisturbed DEF IInv
<1> QED  BY <1>1, <1>2, <1>3

(* At every moment of an Insert, whatever the keys and the heights, each   *)
(* link of the skip list leads to a later node with its own links set, and *)
(* a reader without a lock never follows a link that was not stored.       *)
THEOREM ListIsRight == Spec => []ListOK
<1>1. IInv => ListOK
  <2> SUFFICES ASSUME IInv  PROVE ListOK
    OBVIOUS
  <2> USE DEF IInv
  <2>1. /\ Levels \subseteq Nat /\ 0 \in Levels /\ entries \subseteq IKey
        /\ Nil \notin entries /\ Junk \notin entries /\ HeadNode \notin entries
        /\ \A l \in Levels : Published(l) \subseteq entries
        /\ w.on => w \in Inserts
    BY MemTypes
  <2>2. TypeOK
    <3>1. w.on => /\ w.node \in entries /\ w.height \in 1..maxHeight /\ w.level \in 0..(w.height - 1)
                  /\ w.prev \in [Levels -> entries \cup {HeadNode}] /\ w.linked \in BOOLEAN
      <4> SUFFICES ASSUME w.on  PROVE
                  /\ w.node \in entries /\ w.height \in 1..maxHeight /\ w.level \in 0..(w.height - 1)
                  /\ w.prev \in [Levels -> entries \cup {HeadNode}] /\ w.linked \in BOOLEAN
        OBVIOUS
      <4>1. /\ w.node \in entries /\ w.height \in 1..maxHeight /\ w.level \in Levels
            /\ w.prev \in [Levels -> entries \cup {HeadNode}] /\ w.linked \in BOOLEAN
        BY <2>1 DEF Inserts
      <4>2. w.level < w.height
        BY DEF MemInv, EntriesInv
      <4>3. w.level \in Nat
        BY <2>1, <4>1
      <4> QED  BY <4>1, <4>2, <4>3
    <3>2. rd.node \in entries \cup {Nil} /\ rd.op.phase \in {"none", "walk", "done", "lost"}
      BY <2>1 DEF ReaderInv, NoOp, Operations
    <3> QED  BY <3>1, <3>2 DEF TypeOK, MemInv, EntriesInv
  <2>3. LinksAreSet
    <3> SUFFICES ASSUME NEW n \in entries \cup {HeadNode}, NEW l \in Levels, next[n][l] \in entries
                 PROVE  /\ n # HeadNode => Less(n, next[n][l])
                        /\ \A j \in 0..l : next[next[n][l]][j] # Junk
      <4>1. DOMAIN next = entries \cup {HeadNode}
        BY DEF MemInv, EntriesInv
      <4> QED  BY <4>1 DEF LinksAreSet
    <3> DEFINE s == next[n][l]
    <3>1. s # Nil /\ s # Junk
      BY <2>1
    <3>2. s \in Published(l) /\ (n # HeadNode => Less(n, s))
      <4>1. CASE n \in Published(l) \cup {HeadNode}
        BY <3>1, <4>1 DEF MemInv, SortedInv, Follows
      <4>2. CASE n \notin Published(l) \cup {HeadNode}
        <5>1. n \in entries /\ w.on /\ w.linked /\ w.level = l /\ n = w.node
          BY <3>1, <4>2 DEF Published
        <5>2. l >= l
          BY <2>1
        <5>3. Precedes(Published(l), w.prev[l], n) /\ next[w.prev[l]][l] = s
          BY <5>1, <5>2 DEF MemInv, PrevInv
        <5>4. w.prev[l] \in Published(l) \cup {HeadNode}
          BY <5>3 DEF Precedes
        <5>5. Follows(Published(l), w.prev[l], s)
          BY <5>3, <5>4 DEF MemInv, SortedInv
        <5>6. s \in Published(l)
          BY <3>1, <5>5 DEF Follows
        <5>7. Less(n, s)
          BY <2>1, <4>2, <5>1, <5>3, <5>5, <5>6, Splice
        <5> QED  BY <5>6, <5>7
      <4> QED  BY <4>1, <4>2
    <3>3. \A j \in 0..l : j \in Levels /\ j <= l
      <4>1. l \in Nat /\ l <= MaxHeight - 1
        BY MemAssumption DEF Levels
      <4> QED  BY <4>1, MemAssumption DEF Levels
    <3>4. s \in entries /\ next[s][l] # Junk
      BY <3>2 DEF Published
    <3> HIDE DEF s
    <3>5. \A j \in 0..l : next[s][j] # Junk
      BY <3>3, <3>4 DEF MemInv, LinksInv
    <3> QED  BY <3>2, <3>5 DEF s
  <2>4. NoReaderIsLost
    BY DEF NoReaderIsLost, ReaderInv, NoOp
  <2> QED  BY <2>2, <2>3, <2>4 DEF ListOK
<1> QED  BY <1>1, Inductive, PTL DEF Spec

(* However the stores of Inserts and the loads of a walk interleave, the   *)
(* walk does not pass over an entry that was complete when it began.       *)
THEOREM WalksSkipNothing == Spec => []NothingSkipped
<1>1. IInv => NothingSkipped
  BY DEF IInv, ReaderInv
<1> QED  BY <1>1, Inductive, PTL DEF Spec

(* Get answers with the newest entry its snapshot may see, for any number  *)
(* of keys, entries and levels.                                            *)
THEOREM GetsAreRight == Spec => []GetIsRight
<1>1. IInv => GetIsRight
  <2> SUFFICES ASSUME IInv, rd.op.phase = "done", rd.op.kind = "get"
               PROVE  LET seen == {e \in entries : e[1] = rd.op.target[1] /\ e[2] <= rd.op.target[2]}
                      IN IF seen = {} THEN rd.node = Nil \/ rd.node[1] # rd.op.target[1]
                         ELSE rd.node \in seen /\ \A e \in seen : e[2] <= rd.node[2]
    BY DEF GetIsRight
  <2> DEFINE t == rd.op.target
             r == rd.node
             seen == {e \in entries : e[1] = t[1] /\ e[2] <= t[2]}
  <2>1. rd.op # NoOp
    BY DEF NoOp
  <2>2. /\ t \in IKey /\ \A e \in entries : e[2] <= t[2] => e \in rd.op.known
        /\ r = Nil \/ ~Less(r, t)
        /\ r \in Published(0) \cup {Nil} /\ NothingSkipped
    BY <2>1 DEF IInv, ReaderInv
  <2>3. entries \subseteq IKey /\ Published(0) \subseteq entries
    BY MemTypes DEF IInv
  <2>4. \A a \in IKey : a[1] \in Nat /\ a[2] \in Nat
    BY MemAssumption DEF IKey
  <2>5. {e \in rd.op.known : ~Less(e, t) /\ (r # Nil => Less(e, r))} = {}
    BY <2>2 DEF NothingSkipped, Between
  <2> HIDE DEF t, r
  <2>6. r # Nil => r \in entries /\ r \in IKey /\ (r[1] = t[1] => r \in seen)
    BY <2>2, <2>3, <2>4 DEF Less
  <2>7. \A e \in seen : r # Nil /\ r[1] = t[1] /\ e[2] <= r[2]
    <3> TAKE e \in seen
    <3>1. e \in IKey /\ e \in rd.op.known /\ e[1] = t[1] /\ e[2] <= t[2]
      BY <2>2, <2>3
    <3>2. ~Less(e, t)
      BY <2>2, <2>4, <3>1 DEF Less
    <3>3. r # Nil /\ ~Less(e, r)
      BY <2>5, <3>1, <3>2
    <3> QED  BY <2>2, <2>4, <2>6, <3>1, <3>3 DEF Less
  <2>8. CASE seen = {}
    BY <2>6, <2>8 DEF t, r
  <2>9. CASE seen # {}
    <3>1. r \in seen /\ \A e \in seen : e[2] <= r[2]
      BY <2>6, <2>7, <2>9
    <3> QED  BY <2>9, <3>1 DEF t, r
  <2> QED  BY <2>8, <2>9
<1> QED  BY <1>1, Inductive, PTL DEF Spec

(***************************************************************************)
(* The log                                                                 *)
(***************************************************************************)
FragType == [rec : Nat \ {0}, type : {"full", "first", "middle", "last"}, len : Nat]
RecordType == [frags : Seq(Nat), start : Int, state : {"adding", "added", "failed"}, synced : BOOLEAN]
WriterType == [off : 0..B, rec : Nat, left : Nat, begin : BOOLEAN]
ReaderType == [pos : Nat, buf : Seq(Nat \X Nat), eof : BOOLEAN, end : Nat, inFrag : BOOLEAN,
               scratch : Seq(Nat), resync : BOOLEAN]

LogTypes ==
  /\ disk \in Seq(Nat \X Nat) /\ synced \in 0..Len(disk)
  /\ frags \in Seq(FragType) /\ recs \in Seq(RecordType)
  /\ writer \in WriterType /\ reader \in ReaderType
  /\ got \in Seq(Seq(Nat)) /\ reports \in Nat /\ offset \in Nat
  /\ phase \in {"writing", "reading", "done"} /\ torn \in BOOLEAN /\ skewed \in BOOLEAN

Size(f) == H + frags[f].len
Starts(f) == frags[f].type \in {"full", "first"}
Ends(f) == frags[f].type \in {"full", "last"}

(* Its last byte is on the disk.                                           *)
Whole(f) == \E i \in 1..Len(disk) : disk[i] = <<f, Size(f)>>

(* The bytes of the fragments follow each other in the order in which the  *)
(* fragments were emitted, those of one fragment without a gap and from    *)
(* its first one on.                                                       *)
BytesInv ==
  /\ \A i \in 1..Len(disk) :
       disk[i] # Zero => disk[i][1] \in 1..Len(frags) /\ disk[i][2] \in 1..Size(disk[i][1])
  /\ \A i, j \in 1..Len(disk) :
       i < j /\ disk[i] # Zero /\ disk[j] # Zero =>
         disk[i][1] < disk[j][1] \/ (disk[i][1] = disk[j][1] /\ disk[i][2] < disk[j][2])
  /\ \A i \in 1..Len(disk) :
       disk[i] # Zero => /\ disk[i][2] <= i
                         /\ \A b \in 1..disk[i][2] : disk[i - disk[i][2] + b] = <<disk[i][1], b>>

(* The fragments of a record are emitted one after the other, from the one *)
(* that starts it to the one that ends it.                                 *)
FragsInv ==
  /\ \A f \in 1..Len(frags) : frags[f].rec \in 1..Len(recs) /\ frags[f].len <= B - H
  /\ \A f, g \in 1..Len(frags) :
       f < g => /\ frags[f].rec <= frags[g].rec
                /\ Starts(g) \/ Ends(f) => frags[f].rec < frags[g].rec
  /\ \A f \in 1..Len(frags) : ~Starts(f) => f > 1 /\ frags[f - 1].rec = frags[f].rec
RecOK(fs, fr, r) ==
  \A j \in 1..Len(fs) : /\ fs[j] \in 1..Len(fr) /\ fr[fs[j]].rec = r
                        /\ fs[j] = fs[1] + j - 1
                        /\ fr[fs[j]].type \in {"full", "first"} <=> j = 1
                        /\ fr[fs[j]].type \in {"full", "last"} => j = Len(fs)
RecsInv ==
  /\ \A r \in 1..Len(recs) : RecOK(recs[r].frags, frags, r)
  /\ \A f \in 1..Len(frags) :
       \E j \in 1..Len(recs[frags[f].rec].frags) : recs[frags[f].rec].frags[j] = f

(* The record at work is the last one, and what was emitted of it is whole.*)
WriterInv ==
  writer.rec # 0 =>
    /\ phase = "writing" /\ writer.rec = Len(recs) /\ recs[writer.rec].state = "adding"
    /\ writer.begin => recs[writer.rec].frags = <<>>
    /\ ~writer.begin => /\ recs[writer.rec].frags # <<>>
                        /\ recs[writer.rec].frags[Len(recs[writer.rec].frags)] = Len(frags)
                        /\ ~Ends(Len(frags))
    /\ \A f \in 1..Len(frags) : frags[f].rec = writer.rec => Whole(f)

(* A record whose end is on the disk was added; a byte of a fragment is    *)
(* there only behind all that was emitted of the record before.            *)
StateInv ==
  \A f \in 1..Len(frags) :
    /\ Ends(f) /\ Whole(f) => recs[frags[f].rec].state = "added"
    /\ \A i \in 1..Len(disk) : disk[i] # Zero /\ disk[i][1] = f =>
         \A g \in 1..(f - 1) : frags[g].rec = frags[f].rec => Whole(g)

(* The reader's buffer is the disk behind what it has parsed.              *)
Parsed(r) == r.pos - Len(r.buf)
BufferOK(r) ==
  /\ Len(r.buf) <= r.pos
  /\ \A i \in 1..Len(r.buf) : Parsed(r) + i <= Len(disk) /\ r.buf[i] = disk[Parsed(r) + i]

(* What it has collected is the beginning of a record, and the last of it  *)
(* ends where it goes on.                                                  *)
Collected(s, p) ==
  /\ s # <<>>
  /\ \A j \in 1..Len(s) : /\ s[j] \in 1..Len(frags) /\ s[j] = s[1] + j - 1
                          /\ frags[s[j]].rec = frags[s[1]].rec
  /\ Starts(s[1])
  /\ p \in 1..Len(disk) /\ disk[p] = <<s[Len(s)], Size(s[Len(s)])>>
ReadInv ==
  phase = "reading" => /\ reader.inFrag => ~reader.resync /\ Collected(reader.scratch, Parsed(reader))
                       /\ \A i \in 1..Len(got) : \A q \in 1..Len(disk) :
                            q > Parsed(reader) /\ disk[q] # Zero => frags[disk[q][1]].rec > RecordRead(i)

GotInv ==
  /\ \A i \in 1..Len(got) : /\ got[i] # <<>> /\ got[i][1] \in 1..Len(frags)
                            /\ recs[RecordRead(i)].frags = got[i] /\ recs[RecordRead(i)].state = "added"
  /\ \A i, j \in 1..Len(got) : i < j => RecordRead(i) < RecordRead(j)

OnDisk == BytesInv /\ FragsInv /\ RecsInv /\ WriterInv /\ StateInv
LogInv == LogTypes /\ OnDisk /\ BufferOK(reader) /\ ReadInv /\ GotInv

-----------------------------------------------------------------------------
(* The smaller of two numbers.                                             *)
LEMMA MinOfTwo ==
  ASSUME NEW a \in Int, NEW b \in Int
  PROVE  Min({a, b}) = IF a <= b THEN a ELSE b
BY DEF Min

(* A new file is empty, and has been read by nobody.                       *)
LEMMA LogInitInv == LogInit => LogInv
<1> SUFFICES ASSUME LogInit PROVE LogInv
  OBVIOUS
<1>1. /\ disk = <<>> /\ synced = 0 /\ frags = <<>> /\ recs = <<>> /\ writer = Idle(0) /\ reader = NewReader
      /\ got = <<>> /\ reports = 0 /\ offset = 0 /\ phase = "writing" /\ torn = FALSE /\ skewed = FALSE
  BY DEF LogInit
<1>2. LogTypes
  <2>1. writer \in WriterType
    BY <1>1, LogAssumption DEF Idle, WriterType
  <2>2. reader \in ReaderType
    BY <1>1 DEF NewReader, ReaderType
  <2>3. /\ <<>> \in Seq(Nat \X Nat) /\ <<>> \in Seq(FragType) /\ <<>> \in Seq(RecordType)
        /\ <<>> \in Seq(Seq(Nat)) /\ Len(<<>>) = 0
    OBVIOUS
  <2>4. disk \in Seq(Nat \X Nat) /\ frags \in Seq(FragType) /\ recs \in Seq(RecordType) /\ got \in Seq(Seq(Nat))
    BY <1>1, <2>3
  <2>5. synced \in 0..Len(disk)
    BY <1>1, <2>3
  <2> QED  BY <1>1, <2>1, <2>2, <2>4, <2>5 DEF LogTypes
<1>3. OnDisk
  BY <1>1 DEF OnDisk, BytesInv, FragsInv, RecsInv, WriterInv, StateInv, Idle
<1>4. BufferOK(reader)
  BY <1>1 DEF BufferOK, NewReader
<1>5. ReadInv /\ GotInv
  BY <1>1 DEF ReadInv, GotInv
<1> QED  BY <1>2, <1>3, <1>4, <1>5 DEF LogInv

(* The types of the invariant are those that the runs check.               *)
LEMMA LogTypesImply == LogInv => LogTypeOK
<1> SUFFICES ASSUME LogInv PROVE LogTypeOK
  OBVIOUS
<1>0. LogTypes /\ BytesInv /\ FragsInv /\ RecsInv /\ WriterInv /\ BufferOK(reader)
  BY DEF LogInv, OnDisk
<1>1. /\ disk \in Seq(Nat \X Nat) /\ Len(disk) \in Nat /\ Len(frags) \in Nat /\ Len(recs) \in Nat
      /\ DOMAIN frags = 1..Len(frags) /\ DOMAIN recs = 1..Len(recs) /\ DOMAIN disk = 1..Len(disk)
      /\ \A f \in 1..Len(frags) : frags[f] \in FragType
  BY <1>0 DEF LogTypes
<1>2. ASSUME NEW i \in 1..Len(disk) PROVE disk[i] \in Byte
  <2>1. disk[i] \in Nat \X Nat /\ disk[i] = <<disk[i][1], disk[i][2]>>
    BY <1>1, <1>2
  <2>2. CASE disk[i] = Zero
    BY <2>2 DEF Byte
  <2>3. CASE disk[i] # Zero
    <3>1. disk[i][1] \in 1..Len(frags) /\ disk[i][2] \in 1..Size(disk[i][1])
      BY <1>0, <2>3 DEF BytesInv
    <3> DEFINE f == disk[i][1]
    <3>4. frags[f].len \in Nat /\ frags[f].len <= B - H
      BY <1>0, <1>1, <3>1 DEF FragsInv, FragType
    <3>2. Size(f) \in Nat /\ Size(f) <= B
      BY <3>4, LogAssumption, SMTT(30) DEF Size
    <3>3. disk[i][2] \in 1..B
      BY <3>1, <3>2, LogAssumption
    <3> QED  BY <1>1, <2>1, <3>1, <3>3 DEF Byte
  <2> QED  BY <2>2, <2>3
<1>3. Range(disk) \subseteq Byte
  BY <1>1, <1>2 DEF Range
<1>4. Range(reader.buf) \subseteq Byte
  <2>1. reader.buf \in Seq(Nat \X Nat) /\ reader.pos \in Nat
    BY <1>0 DEF LogTypes, ReaderType
  <2>2. ASSUME NEW i \in DOMAIN reader.buf PROVE reader.buf[i] \in Byte
    <3>1. i \in 1..Len(reader.buf) /\ Len(reader.buf) \in Nat
      BY <2>1
    <3>2. Parsed(reader) + i <= Len(disk) /\ reader.buf[i] = disk[Parsed(reader) + i]
      BY <1>0, <3>1 DEF BufferOK
    <3>3. Parsed(reader) \in Nat
      BY <1>0, <2>1, <3>1, SMTT(30) DEF BufferOK, Parsed
    <3>4. Parsed(reader) + i \in 1..Len(disk)
      BY <1>1, <3>1, <3>2, <3>3, SMTT(30)
    <3> QED  BY <1>2, <3>2, <3>4
  <2> QED  BY <2>2 DEF Range
<1>5. \A f \in Range(frags) :
        f.rec \in DOMAIN recs /\ f.type \in {"full", "first", "middle", "last"} /\ f.len \in 0..(B - H)
  BY <1>0, <1>1, LogAssumption DEF FragsInv, FragType, Range
<1>6. \A r \in Range(recs) : r.state \in {"adding", "added", "failed"} /\ Range(r.frags) \subseteq DOMAIN frags
  <2>1. ASSUME NEW r \in 1..Len(recs)
        PROVE  recs[r].state \in {"adding", "added", "failed"} /\ Range(recs[r].frags) \subseteq DOMAIN frags
    <3>1. recs[r] \in RecordType
      BY <1>0, <1>1 DEF LogTypes
    <3>2. DOMAIN recs[r].frags = 1..Len(recs[r].frags)
      BY <3>1 DEF RecordType
    <3>3. \A j \in 1..Len(recs[r].frags) : recs[r].frags[j] \in 1..Len(frags)
      <4>1. RecOK(recs[r].frags, frags, r)
        BY <1>0, <2>1 DEF RecsInv
      <4> QED  BY <4>1 DEF RecOK
    <3>4. Range(recs[r].frags) \subseteq DOMAIN frags
      BY <1>1, <3>2, <3>3 DEF Range
    <3> QED  BY <3>1, <3>4 DEF RecordType
  <2> QED  BY <1>1, <2>1 DEF Range
<1>7. writer.off \in 0..B /\ writer.rec \in 0..Len(recs)
  BY <1>0, <1>1, LogAssumption DEF LogTypes, WriterType, WriterInv
<1>8. reader.pos \in Nat /\ {reader.eof, reader.inFrag, reader.resync} \subseteq BOOLEAN
  BY <1>0 DEF LogTypes, ReaderType
<1> QED  BY <1>0, <1>3, <1>4, <1>5, <1>6, <1>7, <1>8 DEF LogTypeOK, LogTypes

-----------------------------------------------------------------------------
(* AddRecord begins: a record without fragments.                           *)
LEMMA AddRecordStep ==
  ASSUME LogInv, NEW n \in Sizes, AddRecord(n)
  PROVE  LogInv'
<1> DEFINE new == [frags |-> <<>>, start |-> -1, state |-> "adding", synced |-> FALSE]
           l == Len(recs)
<1>0. LogTypes /\ OnDisk /\ BufferOK(reader) /\ GotInv /\ n \in Nat
  BY LogAssumption DEF LogInv
<1>1. /\ phase = "writing" /\ writer.rec = 0 /\ recs' = Append(recs, new)
      /\ writer' = [writer EXCEPT !.rec = l + 1, !.left = n, !.begin = TRUE] /\ torn' \in BOOLEAN /\ skewed' \in BOOLEAN
      /\ UNCHANGED <<disk, synced, frags, reader, got, reports, offset, phase>>
  BY <1>0 DEF AddRecord, LogTypes
<1>2. new \in RecordType /\ new.frags = <<>> /\ new.state = "adding"
  BY DEF RecordType
<1> HIDE DEF new
<1>3. /\ l \in Nat /\ recs' \in Seq(RecordType) /\ Len(recs') = l + 1 /\ recs'[l + 1] = new
      /\ \A r \in 1..l : recs'[r] = recs[r]
  BY <1>0, <1>1, <1>2 DEF LogTypes
<1> HIDE DEF l
<1>4. writer' \in WriterType /\ writer'.rec = l + 1 /\ writer'.begin
  <2> DEFINE m == l + 1
  <2>1. m \in Nat /\ writer \in WriterType /\ writer.off \in 0..B
    BY <1>0, <1>3 DEF LogTypes, WriterType
  <2>2. writer' = [writer EXCEPT !.rec = m, !.left = n, !.begin = TRUE]
    BY <1>1
  <2> HIDE DEF m
  <2>3. writer' = [off |-> writer.off, rec |-> m, left |-> n, begin |-> TRUE]
    BY <2>1, <2>2 DEF WriterType
  <2>4. writer' \in WriterType /\ writer'.rec = m /\ writer'.begin
    BY <1>0, <2>1, <2>3 DEF WriterType
  <2> QED  BY <2>4 DEF m
<1>5. LogTypes'
  BY <1>0, <1>1, <1>3, <1>4 DEF LogTypes
<1>6. BytesInv'
  BY <1>0, <1>1 DEF OnDisk, BytesInv, Size
<1>7. \A f \in 1..Len(frags) : frags[f].rec \in 1..l
  BY <1>0 DEF OnDisk, FragsInv, l
<1>8. FragsInv'
  <2>1. \A f \in 1..Len(frags) : frags[f].rec \in 1..Len(recs')
    BY <1>3, <1>7
  <2> QED  BY <1>0, <1>1, <2>1 DEF OnDisk, FragsInv, Starts, Ends
<1>9. RecsInv'
  <2>0. frags' = frags
    BY <1>1
  <2>1. ASSUME NEW r \in 1..Len(recs')
        PROVE  RecOK(recs'[r].frags, frags, r)
    <3>1. CASE r = l + 1
      BY <1>2, <1>3, <3>1 DEF RecOK
    <3>2. CASE r \in 1..l
      BY <1>0, <1>3, <3>2 DEF OnDisk, RecsInv, l
    <3> QED  BY <1>3, <3>1, <3>2
  <2>2. \A f \in 1..Len(frags) : \E j \in 1..Len(recs[frags[f].rec].frags) : recs[frags[f].rec].frags[j] = f
    BY <1>0 DEF OnDisk, RecsInv
  <2>3. \A f \in 1..Len(frags) : recs'[frags[f].rec] = recs[frags[f].rec]
    BY <1>3, <1>7
  <2> QED  BY <2>0, <2>1, <2>2, <2>3 DEF RecsInv
<1>10. WriterInv'
  <2>1. \A f \in 1..Len(frags) : frags[f].rec # l + 1
    BY <1>3, <1>7
  <2> QED  BY <1>1, <1>2, <1>3, <1>4, <2>1 DEF WriterInv
<1>11. StateInv'
  <2>1. \A f \in 1..Len(frags) : recs'[frags[f].rec] = recs[frags[f].rec]
    BY <1>3, <1>7
  <2>2. frags' = frags /\ disk' = disk
    BY <1>1
  <2>3. \A f \in 1..Len(frags) : (Ends(f)' <=> Ends(f)) /\ (Whole(f)' <=> Whole(f))
    BY <2>2 DEF Ends, Whole, Size
  <2>4. \A f \in 1..Len(frags) : \A g \in 1..(f - 1) : g \in 1..Len(frags)
    BY <1>0 DEF LogTypes
  <2> QED  BY <1>0, <2>1, <2>2, <2>3, <2>4 DEF OnDisk, StateInv
<1>12. BufferOK(reader)'
  BY <1>0, <1>1 DEF BufferOK, Parsed
<1>13. GotInv'
  <2>1. \A i \in 1..Len(got) : RecordRead(i) \in 1..l /\ RecordRead(i)' = RecordRead(i)
    BY <1>0, <1>1, <1>7 DEF GotInv, RecordRead
  <2> QED  BY <1>0, <1>1, <1>3, <2>1 DEF GotInv
<1>14. ReadInv'
  BY <1>1 DEF ReadInv
<1> QED  BY <1>5, <1>6, <1>8, <1>9, <1>10, <1>11, <1>12, <1>13, <1>14 DEF LogInv, OnDisk

(* A sync marks the records that it reached.                               *)
LEMMA SyncStep ==
  ASSUME LogInv, Sync
  PROVE  LogInv'
<1>0. LogTypes /\ OnDisk /\ BufferOK(reader) /\ ReadInv /\ GotInv
  BY DEF LogInv
<1>1. /\ phase = "writing" /\ writer.rec = 0 /\ synced' = Len(disk)
      /\ UNCHANGED <<disk, frags, writer, reader, got, reports, offset, phase, torn, skewed>>
  BY DEF Sync
<1>2. ASSUME NEW r \in 1..Len(recs)
      PROVE  recs'[r] \in RecordType /\ recs'[r].frags = recs[r].frags /\ recs'[r].state = recs[r].state
  <2> DEFINE b == recs[r].state = "added"
  <2>1. recs[r] \in RecordType /\ DOMAIN recs = 1..Len(recs) /\ b \in BOOLEAN
    BY <1>0 DEF LogTypes
  <2>2. recs'[r] = [recs[r] EXCEPT !.synced = b]
    BY <2>1 DEF Sync
  <2> HIDE DEF b
  <2> QED  BY <2>1, <2>2 DEF RecordType
<1>3. recs' \in Seq(RecordType) /\ Len(recs') = Len(recs)
  <2>1. DOMAIN recs = 1..Len(recs) /\ Len(recs) \in Nat
    BY <1>0 DEF LogTypes
  <2>2. recs' = [i \in 1..Len(recs) |-> recs'[i]]
    BY <2>1 DEF Sync
  <2> QED  BY <1>2, <2>1, <2>2
<1>4. LogTypes'
  <2>1. Len(disk) \in Nat
    BY <1>0 DEF LogTypes
  <2> QED  BY <1>0, <1>1, <1>3, <2>1 DEF LogTypes
<1>5. BytesInv' /\ FragsInv' /\ BufferOK(reader)'
  BY <1>0, <1>1, <1>3 DEF OnDisk, BytesInv, Size, FragsInv, Starts, Ends, BufferOK, Parsed
<1>6. \A f \in 1..Len(frags) : frags[f].rec \in 1..Len(recs)
  BY <1>0 DEF OnDisk, FragsInv
<1>7. RecsInv'
  <2>1. \A r \in 1..Len(recs) : RecOK(recs'[r].frags, frags, r)
    BY <1>0, <1>2 DEF OnDisk, RecsInv
  <2>2. \A f \in 1..Len(frags) :
          \E j \in 1..Len(recs'[frags[f].rec].frags) : recs'[frags[f].rec].frags[j] = f
    BY <1>0, <1>2, <1>6 DEF OnDisk, RecsInv
  <2> QED  BY <1>1, <1>3, <2>1, <2>2 DEF RecsInv
<1>8. WriterInv'
  BY <1>1 DEF WriterInv
<1>9. StateInv'
  <2>1. \A f \in 1..Len(frags) : recs'[frags[f].rec].state = recs[frags[f].rec].state
    BY <1>2, <1>6
  <2>2. frags' = frags /\ disk' = disk
    BY <1>1
  <2>3. \A f \in 1..Len(frags) : (Ends(f)' <=> Ends(f)) /\ (Whole(f)' <=> Whole(f))
    BY <2>2 DEF Ends, Whole, Size
  <2>4. \A f \in 1..Len(frags) : \A g \in 1..(f - 1) : g \in 1..Len(frags)
    BY <1>0 DEF LogTypes
  <2> QED  BY <1>0, <2>1, <2>2, <2>3, <2>4 DEF OnDisk, StateInv
<1>10. ReadInv'
  BY <1>1 DEF ReadInv
<1>11. GotInv'
  <2>1. \A i \in 1..Len(got) : RecordRead(i) \in 1..Len(recs) /\ RecordRead(i)' = RecordRead(i)
    BY <1>0, <1>1, <1>6 DEF GotInv, RecordRead
  <2>2. \A i \in 1..Len(got) : /\ recs'[RecordRead(i)].frags = recs[RecordRead(i)].frags
                                /\ recs'[RecordRead(i)].state = recs[RecordRead(i)].state
    BY <1>2, <2>1
  <2>3. got' = got /\ frags' = frags
    BY <1>1
  <2> QED  BY <1>0, <2>1, <2>2, <2>3 DEF GotInv
<1> QED  BY <1>4, <1>5, <1>7, <1>8, <1>9, <1>10, <1>11 DEF LogInv, OnDisk

-----------------------------------------------------------------------------
(* The step of EmitPhysicalRecord: behind the file, and perhaps a trailer, *)
(* begin the bytes of the new fragment, at p, as many as were written.     *)
Emitted(k, p, n) ==
  /\ k \in Nat /\ p \in Nat /\ n \in Nat /\ Len(disk) <= p /\ n <= B - H
  /\ disk' \in Seq(Nat \X Nat) /\ Len(disk') = Len(disk) + k /\ Len(disk') <= p + H + n
  /\ \A i \in 1..Len(disk) : disk'[i] = disk[i]
  /\ \A i \in (Len(disk) + 1)..Len(disk') :
       (i <= p /\ disk'[i] = Zero) \/ (i > p /\ disk'[i] = <<Len(frags) + 1, i - p>>)
  /\ frags' \in Seq(FragType) /\ Len(frags') = Len(frags) + 1 /\ \A f \in 1..Len(frags) : frags'[f] = frags[f]
  /\ frags'[Len(frags) + 1].rec = writer.rec /\ frags'[Len(frags) + 1].len = n
  /\ frags'[Len(frags) + 1].type \in {"full", "first"} <=> writer.begin
  /\ recs' \in Seq(RecordType) /\ Len(recs') = Len(recs)
  /\ \A q \in 1..Len(recs) : q # writer.rec => recs'[q] = recs[q]
  /\ recs'[writer.rec].frags = Append(recs[writer.rec].frags, Len(frags) + 1)
  /\ frags'[Len(frags) + 1].type \in {"full", "last"} /\ Len(disk') = p + H + n => recs'[writer.rec].state = "added"
  /\ writer' \in WriterType
  /\ writer'.rec # 0 => /\ writer'.rec = writer.rec /\ ~writer'.begin /\ recs'[writer.rec].state = "adding"
                        /\ Len(disk') = p + H + n /\ frags'[Len(frags) + 1].type \notin {"full", "last"}
  /\ phase = "writing" /\ writer.rec \in 1..Len(recs) /\ writer.rec = Len(recs)
  /\ UNCHANGED <<synced, reader, got, reports, offset, phase, torn, skewed>>

(* EmitPhysicalRecord appends in this way, however much is written.        *)
LEMMA EmitFacts ==
  ASSUME LogInv, NEW k \in Nat, EmitPhysicalRecord(k)
  PROVE  \E p, n : Emitted(k, p, n)
<1> DEFINE pad == Padding(writer.off)
           n == Min({writer.left, B - BlockStart(writer.off) - H})
           id == Len(frags) + 1
           data == [i \in 1..pad |-> Zero] \o [i \in 1..(H + n) |-> <<id, i>>]
           ok == k = Len(data)
           end == writer.left = n
           off == BlockStart(writer.off) + H + n
           type == TypeOfFragment(writer.begin, end)
           new == [rec |-> writer.rec, type |-> type, len |-> n]
           p == Len(disk) + pad
           r == writer.rec
           start == IF writer.begin THEN Len(disk) + pad ELSE recs[r].start
           state == IF ~ok THEN "failed" ELSE IF end THEN "added" ELSE "adding"
           x == [frags |-> Append(recs[r].frags, id), start |-> start, state |-> state, synced |-> recs[r].synced]
<1>0. /\ LogTypes /\ WriterInv /\ B \in Nat /\ H \in Nat /\ H > 1 /\ H < B
      /\ writer \in WriterType /\ writer.off \in 0..B /\ writer.left \in Nat /\ writer.begin \in BOOLEAN
  BY LogAssumption DEF LogInv, OnDisk, LogTypes, WriterType
<1>1. /\ phase = "writing" /\ r > 0 /\ r = Len(recs) /\ r \in 1..Len(recs) /\ r \in Nat
  <2>1. phase = "writing" /\ writer.rec > 0
    BY DEF EmitPhysicalRecord
  <2>2. writer.rec \in Nat /\ Len(recs) \in Nat
    BY <1>0 DEF LogTypes, WriterType
  <2>3. writer.rec = Len(recs)
    BY <1>0, <2>1, <2>2 DEF WriterInv
  <2> QED  BY <2>1, <2>2, <2>3
<1>2. pad \in 0..(H - 1) /\ n \in Nat /\ n <= B - H /\ n <= writer.left /\ off \in 0..B
  <2>1. /\ BlockStart(writer.off) \in 0..(B - H) /\ pad \in 0..(H - 1)
    BY <1>0 DEF BlockStart, Padding
  <2>2. B - BlockStart(writer.off) - H \in Nat
    BY <1>0, <2>1
  <2>3. n \in Nat /\ n <= writer.left /\ n <= B - BlockStart(writer.off) - H
    BY <1>0, <2>2, MinOfTwo
  <2> QED  BY <1>0, <2>1, <2>3
<1>3. /\ k <= Len(data) /\ disk' = disk \o SubSeq(data, 1, k) /\ frags' = Append(frags, new)
      /\ recs' = [recs EXCEPT ![r] = x]
      /\ writer' = IF ok /\ ~end THEN [off |-> off, rec |-> r, left |-> writer.left - n, begin |-> FALSE]
                   ELSE Idle(off)
      /\ UNCHANGED <<synced, reader, got, reports, offset, phase, torn, skewed>>
  <2>1. k <= Len(data) /\ disk' = disk \o SubSeq(data, 1, k)
    BY DEF EmitPhysicalRecord
  <2>2. frags' = Append(frags, new)
    BY DEF EmitPhysicalRecord
  <2>3. recs' = [recs EXCEPT ![r] = x]
    BY DEF EmitPhysicalRecord
  <2>4. writer' = IF ok /\ ~end THEN [off |-> off, rec |-> r, left |-> writer.left - n, begin |-> FALSE]
                   ELSE Idle(off)
    BY DEF EmitPhysicalRecord
  <2>5. UNCHANGED <<synced, reader, got, reports, offset, phase, torn, skewed>>
    BY DEF EmitPhysicalRecord
  <2> QED  BY <2>1, <2>2, <2>3, <2>4, <2>5
<1>4. id \in Nat /\ id = Len(frags) + 1 /\ p \in Nat /\ p = Len(disk) + pad /\ Len(disk) \in Nat
  BY <1>0, <1>2, SMTT(30) DEF LogTypes
<1> HIDE DEF pad, n, off, type, p, x, start, state
<1>5. /\ data \in Seq(Nat \X Nat) /\ Len(data) = pad + H + n
      /\ \A i \in 1..pad : data[i] = Zero
      /\ \A i \in (pad + 1)..(pad + H + n) : data[i] = <<id, i - pad>>
  <2> DEFINE s == [i \in 1..pad |-> Zero]
             t == [i \in 1..(H + n) |-> <<id, i>>]
  <2> HIDE DEF id
  <2>1. s \in Seq(Nat \X Nat) /\ Len(s) = pad /\ \A i \in 1..pad : s[i] = Zero
    BY <1>2 DEF Zero
  <2>2. t \in Seq(Nat \X Nat) /\ Len(t) = H + n /\ \A i \in 1..(H + n) : t[i] = <<id, i>>
    BY <1>0, <1>2, <1>4
  <2> HIDE DEF s, t
  <2>3. /\ s \o t \in Seq(Nat \X Nat) /\ Len(s \o t) = pad + (H + n)
        /\ \A i \in 1..pad : (s \o t)[i] = s[i]
        /\ \A i \in (pad + 1)..(pad + (H + n)) : (s \o t)[i] = t[i - pad]
    <3> DEFINE m == H + n
    <3>1. m \in Nat /\ pad \in Nat /\ Len(s) = pad /\ Len(t) = m
      BY <1>0, <1>2, <2>1, <2>2
    <3> HIDE DEF m
    <3>2. /\ s \o t \in Seq(Nat \X Nat) /\ Len(s \o t) = pad + m
          /\ \A i \in 1..pad : (s \o t)[i] = s[i]
          /\ \A i \in (pad + 1)..(pad + m) : (s \o t)[i] = t[i - pad]
      <4>1. /\ s \o t \in Seq(Nat \X Nat) /\ Len(s \o t) = Len(s) + Len(t)
            /\ \A i \in 1..Len(s) + Len(t) : (s \o t)[i] = IF i <= Len(s) THEN s[i] ELSE t[i - Len(s)]
        BY <2>1, <2>2, ConcatProperties
      <4>2. \A i \in 1..pad : i \in 1..(pad + m) /\ i <= pad
        BY <3>1
      <4>3. \A i \in (pad + 1)..(pad + m) : i \in 1..(pad + m) /\ ~(i <= pad)
        BY <3>1
      <4> QED  BY <3>1, <4>1, <4>2, <4>3
    <3> QED  BY <3>2 DEF m
  <2>4. data = s \o t
    BY DEF s, t
  <2> HIDE DEF data
  <2>5. \A i \in (pad + 1)..(pad + (H + n)) : i - pad \in 1..(H + n)
    BY <1>0, <1>2
  <2>6. pad + (H + n) = pad + H + n
    BY <1>0, <1>2
  <2> QED  BY <2>1, <2>2, <2>3, <2>4, <2>5, <2>6
<1> HIDE DEF data, id
<1>5a. data \in Seq(Nat \X Nat) /\ k \in 0..Len(data)
  BY <1>3, <1>5
<1>6. /\ disk' \in Seq(Nat \X Nat) /\ Len(disk') = Len(disk) + k
      /\ \A i \in 1..Len(disk) : disk'[i] = disk[i]
      /\ \A i \in (Len(disk) + 1)..(Len(disk) + k) : disk'[i] = data[i - Len(disk)]
  <2> DEFINE d == SubSeq(data, 1, k)
  <2>1. d \in Seq(Nat \X Nat) /\ Len(d) = k /\ \A i \in 1..k : d[i] = data[i]
    BY <1>5a
  <2>2. disk \in Seq(Nat \X Nat) /\ disk' = disk \o d
    BY <1>0, <1>3 DEF LogTypes
  <2>3. \A i \in (Len(disk) + 1)..(Len(disk) + k) : i - Len(disk) \in 1..k
    BY <1>4
  <2> HIDE DEF d
  <2>4. /\ disk' \in Seq(Nat \X Nat) /\ Len(disk') = Len(disk) + k
        /\ \A i \in 1..Len(disk) : disk'[i] = disk[i]
        /\ \A i \in (Len(disk) + 1)..(Len(disk) + k) : disk'[i] = d[i - Len(disk)]
    BY <2>1, <2>2
  <2> QED  BY <2>1, <2>3, <2>4
<1>7. \A i \in (Len(disk) + 1)..Len(disk') :
        (i <= p /\ disk'[i] = Zero) \/ (i > p /\ disk'[i] = <<id, i - p>>)
  <2> SUFFICES ASSUME NEW i \in (Len(disk) + 1)..Len(disk')
               PROVE  (i <= p /\ disk'[i] = Zero) \/ (i > p /\ disk'[i] = <<id, i - p>>)
    OBVIOUS
  <2> DEFINE j == i - Len(disk)
  <2>1. disk'[i] = data[j] /\ j \in 1..k
    BY <1>4, <1>6
  <2>2. j \in 1..(pad + H + n)
    BY <1>0, <1>2, <1>5, <1>5a, <2>1
  <2>4. j \in 1..pad \/ j \in (pad + 1)..(pad + H + n)
    BY <1>0, <1>2, <2>2
  <2> HIDE DEF j
  <2>5. (j <= pad /\ data[j] = Zero) \/ (j > pad /\ data[j] = <<id, j - pad>>)
    <3>1. CASE j \in 1..pad
      BY <1>2, <1>5, <3>1
    <3>2. CASE j \in (pad + 1)..(pad + H + n)
      <4>1. j > pad
        BY <1>0, <1>2, <3>2
      <4>2. data[j] = <<id, j - pad>>
        BY <1>5, <3>2
      <4> QED  BY <4>1, <4>2
    <3> QED  BY <2>4, <3>1, <3>2
  <2> USE DEF j
  <2>3. (j <= pad <=> i <= p) /\ (j > pad <=> i > p) /\ j - pad = i - p
    BY <1>2, <1>4
  <2> HIDE DEF j
  <2> QED  BY <2>1, <2>3, <2>5
<1>8. /\ type \in {"full", "first", "middle", "last"}
      /\ type \in {"full", "first"} <=> writer.begin
      /\ type \in {"full", "last"} <=> end
  BY <1>0 DEF type, TypeOfFragment
<1>9. /\ frags' \in Seq(FragType) /\ Len(frags') = Len(frags) + 1 /\ frags'[id] = new
      /\ \A f \in 1..Len(frags) : frags'[f] = frags[f]
  <2>1. new \in FragType
    BY <1>1, <1>2, <1>8 DEF FragType
  <2>2. frags \in Seq(FragType) /\ frags' = Append(frags, new)
    BY <1>0, <1>3 DEF LogTypes
  <2> HIDE DEF new
  <2> QED  BY <1>4, <2>1, <2>2
<1>10. /\ recs' \in Seq(RecordType) /\ Len(recs') = Len(recs)
       /\ \A q \in 1..Len(recs) : q # r => recs'[q] = recs[q]
       /\ recs'[r].frags = Append(recs[r].frags, id) /\ recs'[r].state = state
  <2>1. recs \in Seq(RecordType) /\ recs[r] \in RecordType
    BY <1>0, <1>1 DEF LogTypes
  <2>2. recs[r].start \in Int /\ recs[r].synced \in BOOLEAN /\ recs[r].frags \in Seq(Nat)
    BY <2>1 DEF RecordType
  <2>3. start \in Int /\ state \in {"adding", "added", "failed"} /\ Append(recs[r].frags, id) \in Seq(Nat)
    BY <1>0, <1>2, <1>4, <2>2 DEF start, state, p
  <2>5. x \in RecordType /\ x.frags = Append(recs[r].frags, id) /\ x.state = state
    BY <2>2, <2>3 DEF RecordType, x
  <2>7. recs' \in Seq(RecordType) /\ Len(recs') = Len(recs) /\ recs'[r] = x
        /\ \A q \in 1..Len(recs) : q # r => recs'[q] = recs[q]
    BY <1>1, <1>3, <2>1, <2>5
  <2> QED  BY <2>5, <2>7
<1>11. writer' \in WriterType /\ (writer'.rec # 0 => ok /\ ~end /\ writer'.rec = r /\ ~writer'.begin)
  <2>1. CASE ok /\ ~end
    <3> DEFINE left == writer.left - n
    <3>1. left \in Nat
      BY <1>0, <1>2
    <3>2. writer' = [off |-> off, rec |-> r, left |-> left, begin |-> FALSE]
      BY <1>3, <2>1
    <3> HIDE DEF left, r
    <3> QED  BY <1>1, <1>2, <2>1, <3>1, <3>2 DEF WriterType
  <2>2. CASE ~(ok /\ ~end)
    <3>1. writer' = [off |-> off, rec |-> 0, left |-> 0, begin |-> FALSE]
      BY <1>3, <2>2 DEF Idle
    <3> QED  BY <1>2, <3>1 DEF WriterType
  <2> QED  BY <2>1, <2>2
<1>12. Len(disk') <= p + H + n /\ (Len(disk') = p + H + n <=> ok)
  <2>1. ok <=> k = pad + H + n
    BY <1>5
  <2>2. k <= pad + H + n
    BY <1>5, <1>5a
  <2> DEFINE t == pad + H + n
             e == p + H + n
  <2>3. t \in Nat /\ e = Len(disk) + t
    BY <1>0, <1>2, <1>4
  <2>4. Len(disk') = Len(disk) + k
    BY <1>6
  <2>5. (ok <=> k = t) /\ k <= t
    BY <2>1, <2>2
  <2> HIDE DEF ok, t, e
  <2>6. Len(disk') <= e /\ (Len(disk') = e <=> ok)
    BY <1>4, <2>3, <2>4, <2>5
  <2> QED  BY <2>6 DEF e
<1>13. /\ end /\ ok => state = "added"
       /\ ok /\ ~end => state = "adding"
  BY DEF state
<1>14. frags'[id].rec = r /\ frags'[id].type = type /\ frags'[id].len = n
  BY <1>9
<1> HIDE DEF ok, end, new
<1>15. /\ frags'[id].rec = r /\ frags'[id].len = n
       /\ frags'[id].type \in {"full", "first"} <=> writer.begin
       /\ frags'[id].type \in {"full", "last"} /\ Len(disk') = p + H + n => recs'[r].state = "added"
       /\ writer'.rec # 0 => /\ writer'.rec = r /\ ~writer'.begin /\ recs'[r].state = "adding"
                             /\ Len(disk') = p + H + n /\ frags'[id].type \notin {"full", "last"}
  BY <1>8, <1>10, <1>11, <1>12, <1>13, <1>14
<1>16. k \in Nat /\ p \in Nat /\ n \in Nat /\ Len(disk) <= p /\ n <= B - H
  BY <1>2, <1>4
<1>17. Emitted(k, p, n)
  BY <1>1, <1>3, <1>6, <1>7, <1>9, <1>10, <1>11, <1>12, <1>15, <1>16 DEF Emitted, id
<1> QED  BY <1>17

(* The bytes of the new fragment lie behind all others.                    *)
LEMMA EmitBytes ==
  ASSUME LogTypes, BytesInv, FragsInv, NEW k, NEW p, NEW n, Emitted(k, p, n)
  PROVE  /\ BytesInv'
         /\ \A f \in 1..Len(frags) : Whole(f)' <=> Whole(f)
         /\ \A i \in 1..Len(disk') : disk'[i] # Zero =>
              (i \in 1..Len(disk) /\ disk'[i] = disk[i]) \/ (i > Len(disk) /\ disk'[i][1] = Len(frags) + 1)
         /\ \A f : f = Len(frags) + 1 => (Whole(f)' <=> Len(disk') = p + H + n)
<1> DEFINE id == Len(frags) + 1
           L == Len(disk)
           M == Len(disk')
           e == p + H + n
           d == disk'
<1>0. /\ L \in Nat /\ M \in Nat /\ p \in Nat /\ n \in Nat /\ H \in Nat /\ H > 1 /\ L <= p /\ M <= e /\ e \in Nat
      /\ L <= M /\ Len(frags) \in Nat /\ id \in Nat /\ disk \in Seq(Nat \X Nat) /\ d \in Seq(Nat \X Nat)
      /\ Len(frags') = id /\ e = p + (H + n)
  <2>1. /\ disk \in Seq(Nat \X Nat) /\ L \in Nat /\ Len(frags) \in Nat /\ id \in Nat /\ H \in Nat /\ H > 1
    BY LogAssumption DEF LogTypes
  <2>2. /\ k \in Nat /\ p \in Nat /\ n \in Nat /\ L <= p /\ M <= e /\ M = L + k
        /\ Len(frags') = id /\ d \in Seq(Nat \X Nat)
    BY DEF Emitted
  <2> HIDE DEF L, M, id, d
  <2>3. L <= M /\ M \in Nat /\ e \in Nat /\ e = p + (H + n)
    BY <2>1, <2>2
  <2> QED  BY <2>1, <2>2, <2>3
<1>1. /\ \A i \in 1..L : d[i] = disk[i]
      /\ \A i \in (L + 1)..M : (i <= p /\ d[i] = Zero) \/ (i > p /\ d[i] = <<id, i - p>>)
      /\ \A f \in 1..Len(frags) : frags'[f] = frags[f]
      /\ frags'[id].len = n
  BY DEF Emitted
<1>2. /\ \A f \in 1..Len(frags) : Size(f)' = Size(f)
      /\ H + frags'[id].len = H + n
  BY <1>1 DEF Size
<1> HIDE DEF d, M, e, L
<1>3. \A i \in 1..M : i \in 1..L \/ i \in (L + 1)..M
  BY <1>0
<1>4. \A i \in 1..L : disk[i] # Zero => disk[i][1] \in 1..Len(frags) /\ disk[i][2] \in 1..Size(disk[i][1])
  BY DEF BytesInv, L
<1>5. \A i \in 1..M : d[i] # Zero =>
        (i \in 1..L /\ d[i] = disk[i]) \/ (i > L /\ i > p /\ d[i] = <<id, i - p>>)
  BY <1>0, <1>1, <1>3
<1>6. \A i \in 1..M : d[i] # Zero => (i \in 1..L /\ d[i] = disk[i]) \/ (i > L /\ d[i][1] = id)
  BY <1>5
<1>7. ASSUME NEW f \in 1..Len(frags) PROVE Whole(f)' <=> Whole(f)
  <2>1. f # id /\ f # 0 /\ Size(f)' = Size(f)
    BY <1>0, <1>2
  <2>2. Whole(f)' <=> \E i \in 1..M : d[i] = <<f, Size(f)>>
    BY <2>1 DEF Whole, M, d
  <2>3. Whole(f) <=> \E i \in 1..L : disk[i] = <<f, Size(f)>>
    BY DEF Whole, L
  <2>4. \A i \in 1..L : i \in 1..M /\ d[i] = disk[i]
    BY <1>0, <1>1
  <2>5. \A i \in 1..M : d[i] = <<f, Size(f)>> => i \in 1..L /\ d[i] = disk[i]
    BY <1>6, <2>1 DEF Zero
  <2> QED  BY <2>2, <2>3, <2>4, <2>5
<1>8. ASSUME NEW f, f = id PROVE Whole(f)' <=> M = e
  <2>1. Whole(f)' <=> \E i \in 1..M : d[i] = <<id, H + n>>
    <3>1. Whole(f)' <=> \E i \in 1..M : d[i] = <<f, H + frags'[f].len>>
      BY DEF Whole, M, d, Size
    <3> QED  BY <1>2, <1>8, <3>1
  <2>2. ASSUME M = e PROVE \E i \in 1..M : d[i] = <<id, H + n>>
    <3>1. e \in (L + 1)..M /\ e > p /\ e - p = H + n
      BY <1>0, <2>2
    <3>2. d[e] = <<id, H + n>>
      BY <1>0, <1>1, <3>1
    <3>3. e \in 1..M
      BY <1>0, <3>1
    <3> QED  BY <3>2, <3>3
  <2>3. ASSUME NEW i \in 1..M, d[i] = <<id, H + n>> PROVE M = e
    <3>1. d[i] # Zero /\ d[i][1] = id /\ d[i][2] = H + n
      BY <1>0, <2>3 DEF Zero
    <3>2. ~(i \in 1..L /\ d[i] = disk[i])
      <4> SUFFICES ASSUME i \in 1..L, d[i] = disk[i] PROVE FALSE
        OBVIOUS
      <4>1. disk[i][1] \in 1..Len(frags)
        BY <1>4, <3>1
      <4> QED  BY <1>0, <3>1, <4>1
    <3>3. d[i] = <<id, i - p>> /\ i - p = d[i][2]
      BY <1>5, <3>1, <3>2
    <3> QED  BY <1>0, <3>1, <3>3
  <2> QED  BY <2>1, <2>2, <2>3
<1>9. BytesInv'
  <2>1. ASSUME NEW i \in 1..M, d[i] # Zero
        PROVE  d[i][1] \in 1..id /\ d[i][2] \in 1..(H + frags'[d[i][1]].len)
    <3>1. CASE i \in 1..L /\ d[i] = disk[i]
      <4> DEFINE f == disk[i][1]
      <4>1. f \in 1..Len(frags) /\ disk[i][2] \in 1..Size(f)
        BY <1>4, <2>1, <3>1
      <4> HIDE DEF f
      <4>2. f \in 1..id /\ H + frags'[f].len = Size(f)
        BY <1>0, <1>1, <4>1, SMTT(30) DEF Size
      <4> QED  BY <3>1, <4>1, <4>2 DEF f
    <3>2. CASE i > p /\ d[i] = <<id, i - p>>
      <4>1. d[i][1] = id /\ d[i][2] = i - p
        BY <3>2
      <4>2. i - p \in 1..(H + n) /\ id \in 1..id
        <5>1. i \in Nat /\ i > p /\ i <= M
          BY <1>0, <2>1, <3>2
        <5> QED  BY <1>0, <5>1
      <4> QED  BY <1>2, <4>1, <4>2
    <3> QED  BY <1>5, <2>1, <3>1, <3>2
  <2>2. ASSUME NEW i \in 1..M, NEW j \in 1..M, i < j, d[i] # Zero, d[j] # Zero
        PROVE  d[i][1] < d[j][1] \/ (d[i][1] = d[j][1] /\ d[i][2] < d[j][2])
    <3>1. CASE j \in 1..L
      <4>1. i \in 1..L /\ d[i] = disk[i] /\ d[j] = disk[j]
        BY <1>0, <1>1, <2>2, <3>1
      <4>2. \A a, b \in 1..L : a < b /\ disk[a] # Zero /\ disk[b] # Zero =>
              disk[a][1] < disk[b][1] \/ (disk[a][1] = disk[b][1] /\ disk[a][2] < disk[b][2])
        BY DEF BytesInv, L
      <4>3. disk[i][1] < disk[j][1] \/ (disk[i][1] = disk[j][1] /\ disk[i][2] < disk[j][2])
        BY <2>2, <3>1, <4>1, <4>2
      <4> QED  BY <4>1, <4>3
    <3>2. CASE j \notin 1..L
      <4>1. j > p /\ d[j][1] = id /\ d[j][2] = j - p
        BY <1>5, <2>2, <3>2
      <4>2. CASE i \in 1..L /\ d[i] = disk[i]
        <5>1. disk[i][1] \in 1..Len(frags)
          BY <1>4, <2>2, <4>2
        <5>2. disk[i][1] < id
          BY <1>0, <5>1
        <5> QED  BY <4>1, <4>2, <5>2
      <4>3. CASE i > p /\ d[i] = <<id, i - p>>
        <5>1. d[i][1] = id /\ d[i][2] = i - p
          BY <4>3
        <5>2. i - p < j - p
          BY <1>0, <2>2
        <5> QED  BY <4>1, <5>1, <5>2
      <4> QED  BY <1>5, <2>2, <4>2, <4>3
    <3> QED  BY <3>1, <3>2
  <2>3. ASSUME NEW i \in 1..M, d[i] # Zero
        PROVE  d[i][2] <= i /\ \A b \in 1..d[i][2] : d[i - d[i][2] + b] = <<d[i][1], b>>
    <3>1. CASE i \in 1..L /\ d[i] = disk[i]
      <4> DEFINE m == disk[i][2]
                 f == disk[i][1]
      <4>1. m <= i /\ \A b \in 1..m : disk[i - m + b] = <<f, b>>
        BY <2>3, <3>1 DEF BytesInv, L
      <4>2. m \in Nat
        BY <1>0, <3>1 DEF L
      <4> HIDE DEF m, f
      <4>3. \A b \in 1..m : i - m + b \in 1..L
        <5>1. i \in Nat /\ i <= L /\ L \in Nat /\ m <= i
          BY <1>0, <3>1, <4>1
        <5> QED  BY <4>2, <5>1
      <4>4. \A b \in 1..m : d[i - m + b] = <<f, b>>
        BY <1>1, <4>1, <4>3
      <4> QED  BY <3>1, <4>1, <4>4 DEF m, f
    <3>2. CASE i > p /\ d[i] = <<id, i - p>>
      <4> DEFINE m == i - p
      <4>1. d[i][1] = id /\ d[i][2] = m
        BY <3>2
      <4>2. m <= i
        BY <1>0, <2>3, <3>2
      <4> HIDE DEF m, id
      <4>3. ASSUME NEW b \in 1..m PROVE d[i - m + b] = <<id, b>>
        <5> DEFINE x == i - m + b
        <5>0. m \in Nat /\ m = i - p /\ i \in 1..M /\ i > p
          BY <1>0, <3>2, <2>3 DEF m
        <5>1. x \in (L + 1)..M /\ x > p /\ x - p = b
          BY <1>0, <5>0
        <5> HIDE DEF x
        <5>2. d[x] = <<id, x - p>>
          <6>1. x \in Nat /\ ~(x <= p)
            BY <1>0, <5>1
          <6> QED  BY <1>1, <5>1, <6>1 DEF id
        <5>3. d[x] = <<id, b>>
          BY <5>1, <5>2
        <5> QED  BY <5>3 DEF x
      <4> QED  BY <4>1, <4>2, <4>3
    <3> QED  BY <1>5, <2>3, <3>1, <3>2
  <2>4. BytesInv' <=>
          /\ \A i \in 1..M : d[i] # Zero => d[i][1] \in 1..id /\ d[i][2] \in 1..(H + frags'[d[i][1]].len)
          /\ \A i, j \in 1..M : i < j /\ d[i] # Zero /\ d[j] # Zero =>
               d[i][1] < d[j][1] \/ (d[i][1] = d[j][1] /\ d[i][2] < d[j][2])
          /\ \A i \in 1..M : d[i] # Zero =>
               d[i][2] <= i /\ \A b \in 1..d[i][2] : d[i - d[i][2] + b] = <<d[i][1], b>>
    BY <1>0 DEF BytesInv, Size, d, M
  <2> QED  BY <2>1, <2>2, <2>3, <2>4
<1> QED  BY <1>6, <1>7, <1>8, <1>9 DEF d, L, M, e

(* The new fragment continues its record, or begins the last one.          *)
LEMMA EmitFragments ==
  ASSUME LogInv, NEW k, NEW p, NEW n, Emitted(k, p, n)
  PROVE  /\ FragsInv' /\ RecsInv'
         /\ \A f \in 1..Len(frags) : frags[f].rec = writer.rec => ~Ends(f)
<1> DEFINE id == Len(frags) + 1
           N == Len(frags)
           r == writer.rec
           fs == recs[r].frags
           gs == recs'[r].frags
<1>0. /\ LogTypes /\ FragsInv /\ RecsInv /\ WriterInv /\ N \in Nat /\ id \in Nat /\ id = N + 1
      /\ r \in 1..Len(recs) /\ r = Len(recs) /\ Len(recs) \in Nat /\ r # 0
  BY DEF LogInv, OnDisk, LogTypes, Emitted
<1>1. /\ Len(frags') = id /\ Len(recs') = Len(recs) /\ n \in Nat /\ n <= B - H
      /\ \A f \in 1..N : frags'[f] = frags[f]
      /\ frags'[id].rec = r /\ frags'[id].len = n
      /\ frags'[id].type \in {"full", "first"} <=> writer.begin
      /\ \A q \in 1..Len(recs) : q # r => recs'[q] = recs[q]
      /\ gs = Append(fs, id)
  BY DEF Emitted
<1>2. /\ fs \in Seq(Nat) /\ Len(fs) \in Nat /\ writer.begin \in BOOLEAN
  <2>1. recs \in Seq(RecordType) /\ writer \in WriterType
    BY <1>0 DEF LogTypes
  <2>2. recs[r] \in RecordType
    BY <1>0, <2>1
  <2>3. fs \in Seq(Nat) /\ writer.begin \in BOOLEAN
    BY <2>1, <2>2 DEF RecordType, WriterType
  <2> QED  BY <2>3
<1>3. /\ writer.begin => fs = <<>>
      /\ ~writer.begin => fs # <<>> /\ fs[Len(fs)] = N /\ ~Ends(N)
  BY <1>0 DEF WriterInv
<1>4. RecOK(fs, frags, r) /\ \A f \in 1..N : frags[f].rec = r => \E j \in 1..Len(fs) : fs[j] = f
  BY <1>0 DEF RecsInv
<1> HIDE DEF r, fs, gs, id, N
<1>5. \A f \in 1..N : frags[f].rec = r => ~Ends(f) /\ ~writer.begin
  <2> SUFFICES ASSUME NEW f \in 1..N, frags[f].rec = r PROVE ~Ends(f) /\ ~writer.begin
    OBVIOUS
  <2>1. PICK j \in 1..Len(fs) : fs[j] = f
    BY <1>4
  <2>2. ~writer.begin
    BY <1>3, <2>1
  <2>3. Ends(f) => j = Len(fs)
    BY <1>4, <2>1 DEF RecOK, Ends
  <2> QED  BY <1>3, <2>1, <2>2, <2>3
<1>6. FragsInv'
  <2>1. ASSUME NEW f \in 1..id PROVE frags'[f].rec \in 1..Len(recs) /\ frags'[f].len <= B - H
    <3>1. CASE f = id
      BY <1>0, <1>1, <3>1
    <3>2. CASE f \in 1..N
      BY <1>0, <1>1, <3>2 DEF FragsInv, N
    <3> QED  BY <1>0, <3>1, <3>2
  <2>2. ASSUME NEW f \in 1..id, NEW g \in 1..id, f < g
        PROVE  /\ frags'[f].rec <= frags'[g].rec
               /\ frags'[g].type \in {"full", "first"} \/ frags'[f].type \in {"full", "last"} =>
                    frags'[f].rec < frags'[g].rec
    <3>0. f \in 1..N /\ frags'[f] = frags[f]
      BY <1>0, <1>1, <2>2
    <3>1. CASE g = id
      <4>1. frags[f].rec \in 1..Len(recs) /\ frags[f].rec <= r
        BY <1>0, <3>0 DEF FragsInv, N
      <4>2. frags'[g].type \in {"full", "first"} \/ Ends(f) => frags[f].rec # r
        BY <1>1, <1>5, <3>0, <3>1
      <4> QED  BY <1>0, <1>1, <3>0, <3>1, <4>1, <4>2 DEF Ends
    <3>2. CASE g \in 1..N
      <4>1. frags'[g] = frags[g]
        BY <1>1, <3>2
      <4>2. frags[f].rec <= frags[g].rec /\ (Starts(g) \/ Ends(f) => frags[f].rec < frags[g].rec)
        BY <1>0, <2>2, <3>0, <3>2 DEF FragsInv, N
      <4> QED  BY <3>0, <4>1, <4>2 DEF Starts, Ends
    <3> QED  BY <1>0, <3>1, <3>2
  <2>3. ASSUME NEW f \in 1..id, frags'[f].type \notin {"full", "first"}
        PROVE  f > 1 /\ frags'[f - 1].rec = frags'[f].rec
    <3>1. CASE f = id
      <4>1. fs # <<>> /\ fs[Len(fs)] = N /\ ~writer.begin
        BY <1>1, <1>2, <1>3, <2>3, <3>1
      <4>2. Len(fs) \in 1..Len(fs)
        BY <1>2, <4>1
      <4>3. N \in 1..N /\ frags[N].rec = r
        BY <1>4, <4>1, <4>2 DEF RecOK, N
      <4>4. id - 1 = N /\ id > 1
        BY <1>0, <4>3
      <4> QED  BY <1>1, <3>1, <4>3, <4>4
    <3>2. CASE f \in 1..N
      <4>1. frags'[f] = frags[f]
        BY <1>1, <3>2
      <4>2. f > 1 /\ frags[f - 1].rec = frags[f].rec
        BY <1>0, <2>3, <3>2, <4>1 DEF FragsInv, N, Starts
      <4>3. f - 1 \in 1..N
        BY <1>0, <3>2, <4>2
      <4> QED  BY <1>1, <4>1, <4>2, <4>3
    <3> QED  BY <1>0, <3>1, <3>2
  <2>4. FragsInv' <=>
          /\ \A f \in 1..id : frags'[f].rec \in 1..Len(recs) /\ frags'[f].len <= B - H
          /\ \A f, g \in 1..id :
               f < g => /\ frags'[f].rec <= frags'[g].rec
                        /\ frags'[g].type \in {"full", "first"} \/ frags'[f].type \in {"full", "last"} =>
                             frags'[f].rec < frags'[g].rec
          /\ \A f \in 1..id : frags'[f].type \notin {"full", "first"} =>
                                f > 1 /\ frags'[f - 1].rec = frags'[f].rec
    BY <1>1 DEF FragsInv, Starts, Ends
  <2> QED  BY <2>1, <2>2, <2>3, <2>4
<1>7. /\ Len(gs) = Len(fs) + 1 /\ gs[Len(fs) + 1] = id /\ \A j \in 1..Len(fs) : gs[j] = fs[j]
  BY <1>0, <1>1, <1>2
<1>8. RecOK(gs, frags', r)
  <2> SUFFICES ASSUME NEW j \in 1..(Len(fs) + 1)
               PROVE  /\ gs[j] \in 1..id /\ frags'[gs[j]].rec = r
                      /\ gs[j] = gs[1] + j - 1
                      /\ frags'[gs[j]].type \in {"full", "first"} <=> j = 1
                      /\ frags'[gs[j]].type \in {"full", "last"} => j = Len(fs) + 1
    BY <1>1, <1>7, ZenonT(30) DEF RecOK
  <2>1. CASE j = Len(fs) + 1
    <3>1. gs[j] = id /\ id \in 1..id
      BY <1>0, <1>7, <2>1
    <3>2. CASE writer.begin
      <4>1. j = 1
        BY <1>3, <2>1, <3>2
      <4> QED  BY <1>0, <1>1, <1>7, <2>1, <3>1, <3>2, <4>1
    <3>3. CASE ~writer.begin
      <4>1. fs # <<>> /\ fs[Len(fs)] = N /\ Len(fs) >= 1 /\ j # 1
        BY <1>2, <1>3, <2>1, <3>3
      <4>2. Len(fs) \in 1..Len(fs) /\ 1 \in 1..Len(fs)
        BY <1>2, <4>1
      <4>3. fs[Len(fs)] = fs[1] + Len(fs) - 1 /\ fs[1] \in Nat
        <5>1. fs[Len(fs)] = fs[1] + Len(fs) - 1
          BY <1>4, <4>2 DEF RecOK
        <5> QED  BY <1>2, <4>2, <5>1
      <4>4. gs[1] = fs[1]
        BY <1>7, <4>2
      <4>5. id = gs[1] + j - 1
        BY <1>0, <1>2, <2>1, <4>1, <4>3, <4>4
      <4> QED  BY <1>1, <2>1, <3>1, <3>3, <4>1, <4>5
    <3> QED  BY <1>2, <3>2, <3>3
  <2>2. CASE j \in 1..Len(fs)
    <3>1. /\ fs[j] \in 1..N /\ frags[fs[j]].rec = r /\ fs[j] = fs[1] + j - 1
          /\ frags[fs[j]].type \in {"full", "first"} <=> j = 1
      BY <1>4, <2>2 DEF RecOK, N
    <3>2. frags[fs[j]].type \notin {"full", "last"}
      BY <1>5, <3>1 DEF Ends
    <3>3. gs[j] = fs[j] /\ gs[1] = fs[1] /\ frags'[fs[j]] = frags[fs[j]] /\ fs[j] \in 1..id
      BY <1>0, <1>1, <1>2, <1>7, <2>2, <3>1
    <3> QED  BY <3>1, <3>2, <3>3
  <2> QED  BY <1>2, <2>1, <2>2
<1>9. RecsInv'
  <2>1. ASSUME NEW q \in 1..Len(recs) PROVE RecOK(recs'[q].frags, frags', q)
    <3>1. CASE q = r
      BY <1>8, <3>1 DEF gs
    <3>2. CASE q # r
      <4> DEFINE hs == recs[q].frags
      <4>1. recs'[q].frags = hs
        BY <1>1, <2>1, <3>2
      <4>2. RecOK(hs, frags, q)
        BY <1>0 DEF RecsInv
      <4> HIDE DEF hs
      <4>3. \A j \in 1..Len(hs) : hs[j] \in 1..N
        BY <4>2 DEF RecOK, N
      <4>4. \A j \in 1..Len(hs) : frags'[hs[j]] = frags[hs[j]] /\ hs[j] \in 1..id
        BY <1>0, <1>1, <4>3
      <4>5. RecOK(hs, frags', q)
        BY <1>1, <4>2, <4>4, ZenonT(30) DEF RecOK
      <4> QED  BY <4>1, <4>5
    <3> QED  BY <3>1, <3>2
  <2>2. ASSUME NEW f \in 1..id
        PROVE  \E j \in 1..Len(recs'[frags'[f].rec].frags) : recs'[frags'[f].rec].frags[j] = f
    <3>1. CASE f = id
      <4>1. frags'[f].rec = r
        BY <1>1, <3>1
      <4>2. Len(fs) + 1 \in 1..Len(gs)
        BY <1>2, <1>7
      <4> QED  BY <1>7, <3>1, <4>1, <4>2 DEF gs
    <3>2. CASE f \in 1..N
      <4> DEFINE q == frags[f].rec
      <4>1. frags'[f].rec = q /\ q \in 1..Len(recs)
        BY <1>0, <1>1, <3>2 DEF FragsInv, N
      <4>2. PICK j \in 1..Len(recs[q].frags) : recs[q].frags[j] = f
        BY <1>0, <3>2 DEF RecsInv, N
      <4>3. CASE q = r
        <5>1. j \in 1..Len(fs) /\ fs[j] = f
          BY <4>2, <4>3 DEF fs
        <5>2. j \in 1..Len(gs) /\ gs[j] = f
          BY <1>2, <1>7, <5>1
        <5> QED  BY <4>1, <4>3, <5>2 DEF gs
      <4>4. CASE q # r
        <5>1. recs'[q] = recs[q]
          BY <1>1, <4>1, <4>4
        <5> QED  BY <4>1, <4>2, <5>1
      <4> QED  BY <4>3, <4>4
    <3> QED  BY <1>0, <3>1, <3>2
  <2> QED  BY <1>1, <2>1, <2>2 DEF RecsInv
<1> QED  BY <1>5, <1>6, <1>9 DEF N, r

(* EmitPhysicalRecord keeps the invariant.                                 *)
LEMMA EmitStep ==
  ASSUME LogInv, NEW k \in Nat, EmitPhysicalRecord(k)
  PROVE  LogInv'
<1>1. PICK p, n : Emitted(k, p, n)
  BY EmitFacts
<1> DEFINE id == Len(frags) + 1
           N == Len(frags)
           r == writer.rec
           t == frags'[id].type
<1>0. /\ LogTypes /\ BytesInv /\ FragsInv /\ RecsInv /\ WriterInv /\ StateInv /\ BufferOK(reader) /\ GotInv
      /\ N \in Nat /\ id = N + 1 /\ disk \in Seq(Nat \X Nat) /\ Len(disk) \in Nat
  BY DEF LogInv, OnDisk, LogTypes
<1>2. BytesInv' /\ FragsInv' /\ RecsInv'
  BY <1>0, <1>1, EmitBytes, EmitFragments
<1>3. /\ \A f \in 1..N : Whole(f)' <=> Whole(f)
      /\ \A i \in 1..Len(disk') : disk'[i] # Zero =>
              (i \in 1..Len(disk) /\ disk'[i] = disk[i]) \/ (i > Len(disk) /\ disk'[i][1] = id)
      /\ \A f : f = id => (Whole(f)' <=> Len(disk') = p + H + n)
      /\ \A f \in 1..N : frags[f].rec = r => ~Ends(f)
  BY <1>0, <1>1, EmitBytes, EmitFragments
<1>4. /\ k \in Nat /\ disk' \in Seq(Nat \X Nat) /\ Len(disk') = Len(disk) + k
      /\ \A i \in 1..Len(disk) : disk'[i] = disk[i]
      /\ frags' \in Seq(FragType) /\ Len(frags') = id /\ recs' \in Seq(RecordType) /\ writer' \in WriterType
      /\ phase' = "writing" /\ phase = "writing" /\ r \in 1..Len(recs) /\ r = Len(recs) /\ Len(recs') = Len(recs)
      /\ synced' = synced /\ reader' = reader /\ got' = got /\ reports' = reports /\ offset' = offset
      /\ torn' = torn /\ skewed' = skewed
  BY <1>1 DEF Emitted
<1>5. /\ \A f \in 1..N : frags'[f] = frags[f]
      /\ frags'[id].rec = r
      /\ \A q \in 1..Len(recs) : q # r => recs'[q] = recs[q]
      /\ recs'[r].frags = Append(recs[r].frags, id)
      /\ t \in {"full", "last"} /\ Len(disk') = p + H + n => recs'[r].state = "added"
      /\ writer'.rec # 0 => /\ writer'.rec = r /\ ~writer'.begin /\ recs'[r].state = "adding"
                            /\ Len(disk') = p + H + n /\ t \notin {"full", "last"}
  BY <1>1 DEF Emitted
<1> HIDE DEF id, N, r, t
<1>6. /\ r # 0 => recs[r].state = "adding" /\ \A f \in 1..N : frags[f].rec = r => Whole(f)
      /\ r # 0
      /\ recs[r].frags \in Seq(Nat)
  <2>1. recs[r] \in RecordType /\ Len(recs) \in Nat
    BY <1>0, <1>4 DEF LogTypes
  <2>2. recs[r].frags \in Seq(Nat) /\ r # 0
    BY <1>4, <2>1 DEF RecordType
  <2> QED  BY <1>0, <2>2 DEF WriterInv, r, N
<1>7. \A f \in 1..N : frags[f].rec \in 1..Len(recs)
  BY <1>0 DEF FragsInv, N
<1>8. LogTypes'
  <2>1. synced' \in 0..Len(disk')
    BY <1>0, <1>4 DEF LogTypes
  <2> QED  BY <1>0, <1>4, <2>1 DEF LogTypes
<1>9. WriterInv'
  <2> SUFFICES ASSUME writer'.rec # 0
               PROVE  /\ writer'.rec = Len(recs) /\ recs'[r].state = "adding" /\ ~writer'.begin /\ writer'.rec = r
                      /\ recs'[r].frags # <<>> /\ recs'[r].frags[Len(recs'[r].frags)] = id
                      /\ t \notin {"full", "last"}
                      /\ \A f \in 1..id : frags'[f].rec = r => Whole(f)'
    BY <1>4 DEF WriterInv, Ends, t, id
  <2>1. writer'.rec = r /\ ~writer'.begin /\ recs'[r].state = "adding" /\ Len(disk') = p + H + n /\ t \notin {"full", "last"}
    BY <1>5
  <2>2. recs'[r].frags # <<>> /\ recs'[r].frags[Len(recs'[r].frags)] = id
    <3> DEFINE fs == recs[r].frags
    <3>1. fs \in Seq(Nat) /\ recs'[r].frags = Append(fs, id)
      BY <1>5, <1>6
    <3> HIDE DEF fs
    <3>2. Append(fs, id) # <<>> /\ Append(fs, id)[Len(Append(fs, id))] = id
      BY <3>1
    <3> QED  BY <3>1, <3>2
  <2>3. ASSUME NEW f \in 1..id, frags'[f].rec = r PROVE Whole(f)'
    <3>1. CASE f = id
      BY <1>3, <2>1, <3>1
    <3>2. CASE f \in 1..N
      BY <1>3, <1>5, <1>6, <2>3, <3>2
    <3> QED  BY <1>0, <3>1, <3>2
  <2> QED  BY <1>4, <2>1, <2>2, <2>3
<1>10. StateInv'
  <2>1. ASSUME NEW f \in 1..id, frags'[f].type \in {"full", "last"}, Whole(f)'
        PROVE  recs'[frags'[f].rec].state = "added"
    <3>1. CASE f = id
      BY <1>3, <1>5, <2>1, <3>1 DEF t
    <3>2. CASE f \in 1..N
      <4>1. frags'[f] = frags[f] /\ Ends(f) /\ Whole(f)
        BY <1>3, <1>5, <2>1, <3>2 DEF Ends
      <4>2. recs[frags[f].rec].state = "added"
        BY <1>0, <3>2, <4>1 DEF StateInv, N
      <4>3. frags[f].rec # r
        BY <1>3, <3>2, <4>1
      <4> QED  BY <1>5, <1>7, <3>2, <4>1, <4>2, <4>3
    <3> QED  BY <1>0, <3>1, <3>2
  <2>2. ASSUME NEW f \in 1..id, NEW i \in 1..Len(disk'), disk'[i] # Zero, disk'[i][1] = f,
               NEW g \in 1..(f - 1), frags'[g].rec = frags'[f].rec
        PROVE  Whole(g)'
    <3>0. g \in 1..N /\ frags'[g] = frags[g] /\ g # id
      BY <1>0, <1>5
    <3>1. CASE f = id
      BY <1>3, <1>5, <1>6, <2>2, <3>0, <3>1
    <3>2. CASE f \in 1..N
      <4>1. f # id /\ frags'[f] = frags[f]
        BY <1>0, <1>5, <3>2
      <4>2. i \in 1..Len(disk) /\ disk'[i] = disk[i]
        BY <1>3, <2>2, <4>1
      <4>3. Whole(g)
        BY <1>0, <2>2, <3>0, <3>2, <4>1, <4>2 DEF StateInv, N
      <4> QED  BY <1>3, <3>0, <4>3
    <3> QED  BY <1>0, <3>1, <3>2
  <2>3. StateInv' <=>
          \A f \in 1..id :
            /\ frags'[f].type \in {"full", "last"} /\ Whole(f)' => recs'[frags'[f].rec].state = "added"
            /\ \A i \in 1..Len(disk') : disk'[i] # Zero /\ disk'[i][1] = f =>
                 \A g \in 1..(f - 1) : frags'[g].rec = frags'[f].rec => Whole(g)'
    BY <1>4 DEF StateInv, Ends
  <2> QED  BY <2>1, <2>2, <2>3
<1>11. BufferOK(reader)'
  <2> DEFINE b == reader.buf
             x == reader.pos - Len(b)
  <2>1. Len(b) <= reader.pos /\ \A i \in 1..Len(b) : x + i <= Len(disk) /\ b[i] = disk[x + i]
    BY <1>0 DEF BufferOK, Parsed
  <2>2. x \in Nat
    <3>1. reader \in ReaderType
      BY <1>0 DEF LogTypes
    <3>2. reader.pos \in Nat /\ b \in Seq(Nat \X Nat)
      BY <3>1 DEF ReaderType
    <3>3. Len(b) \in Nat
      BY <3>2
    <3> QED  BY <2>1, <3>2, <3>3
  <2> HIDE DEF x
  <2>3. ASSUME NEW i \in 1..Len(b) PROVE x + i <= Len(disk') /\ disk'[x + i] = disk[x + i]
    <3>1. x + i <= Len(disk) /\ Len(disk) \in Nat
      BY <1>0, <2>1
    <3>2. x + i \in 1..Len(disk)
      BY <2>2, <3>1
    <3>3. Len(disk) <= Len(disk') /\ Len(disk') \in Nat
      BY <1>4, <3>1
    <3>4. disk'[x + i] = disk[x + i]
      BY <1>4, <3>2
    <3>5. x + i \in Nat
      BY <2>2
    <3> HIDE DEF x
    <3> QED  BY <3>1, <3>3, <3>4, <3>5
  <2>4. BufferOK(reader)' <=> Len(b) <= reader.pos /\ \A i \in 1..Len(b) : x + i <= Len(disk') /\ b[i] = disk'[x + i]
    BY <1>4 DEF BufferOK, Parsed, x
  <2> QED  BY <2>1, <2>3, <2>4
<1>12. GotInv'
  <2>1. \A i \in 1..Len(got) : /\ got[i] # <<>> /\ got[i][1] \in 1..N
                              /\ recs[RecordRead(i)].frags = got[i] /\ recs[RecordRead(i)].state = "added"
    BY <1>0 DEF GotInv, N
  <2>2. \A i, j \in 1..Len(got) : i < j => RecordRead(i) < RecordRead(j)
    BY <1>0 DEF GotInv
  <2>3. \A i \in 1..Len(got) : RecordRead(i)' = RecordRead(i)
    BY <1>4, <1>5, <2>1 DEF RecordRead
  <2>4. \A i \in 1..Len(got) : RecordRead(i) \in 1..Len(recs) /\ RecordRead(i) # r
    BY <1>6, <1>7, <2>1 DEF RecordRead
  <2>5. \A i \in 1..Len(got) : recs'[RecordRead(i)] = recs[RecordRead(i)] /\ got[i][1] \in 1..id
    <3>1. \A i \in 1..Len(got) : recs'[RecordRead(i)] = recs[RecordRead(i)]
      BY <1>5, <2>4
    <3>2. \A i \in 1..Len(got) : got[i][1] \in 1..id
      BY <1>0, <2>1
    <3> QED  BY <3>1, <3>2
  <2>6. GotInv' <=>
          /\ \A i \in 1..Len(got) : /\ got[i] # <<>> /\ got[i][1] \in 1..id
                                    /\ recs'[RecordRead(i)'].frags = got[i] /\ recs'[RecordRead(i)'].state = "added"
          /\ \A i, j \in 1..Len(got) : i < j => RecordRead(i)' < RecordRead(j)'
    BY <1>4 DEF GotInv, RecordRead
  <2> QED  BY <2>1, <2>2, <2>3, <2>5, <2>6
<1>13. ReadInv'
  BY <1>4 DEF ReadInv
<1> QED  BY <1>2, <1>8, <1>9, <1>10, <1>11, <1>12, <1>13 DEF LogInv, OnDisk

-----------------------------------------------------------------------------
(* The initial block is a position in the file.                            *)
LEMMA InitialBlockNat ==
  ASSUME NEW o \in Nat
  PROVE  InitialBlock(o) \in Nat
<1>1. B \in Nat /\ B > 0 /\ o % B \in 0..(B - 1) /\ o % B <= o
  BY LogAssumption
<1> DEFINE m == o % B
<1> HIDE DEF m
<1>2. m \in Nat /\ m <= o /\ o - m \in Nat
  BY <1>1 DEF m
<1>3. InitialBlock(o) = (o - m) + (IF m > B - (H - 1) THEN B ELSE 0)
  BY DEF InitialBlock, m
<1> QED  BY <1>1, <1>2, <1>3

(* After a crash the first bytes are left; a record without its last one   *)
(* has failed.  The reader begins.                                         *)
LEMMA CrashStep ==
  ASSUME LogInv, NEW n \in 0..Len(disk), NEW o \in Offsets, Crash(n, o)
  PROVE  LogInv'
<1> DEFINE L == Len(disk)
           N == Len(frags)
           kept(r) == /\ recs[r].state = "added"
                      /\ \A f \in Range(recs[r].frags) : <<f, H + frags[f].len>> \in Range(SubSeq(disk, 1, n))
<1>0. /\ LogTypes /\ BytesInv /\ FragsInv /\ RecsInv /\ WriterInv /\ StateInv
      /\ L \in Nat /\ N \in Nat /\ disk \in Seq(Nat \X Nat) /\ n \in Nat /\ n <= L
  BY DEF LogInv, OnDisk, LogTypes
<1>1. /\ disk' = SubSeq(disk, 1, n) /\ synced' = n /\ writer' = Idle(writer.off) /\ phase' = "reading"
      /\ offset' = o /\ got' = <<>> /\ reports' = 0 /\ frags' = frags /\ torn' = torn /\ skewed' = skewed
  BY DEF Crash
<1>2. /\ disk' \in Seq(Nat \X Nat) /\ Len(disk') = n /\ \A i \in 1..n : disk'[i] = disk[i]
  BY <1>0, <1>1
<1>3. ASSUME NEW r \in 1..Len(recs)
      PROVE  /\ recs'[r] \in RecordType /\ recs'[r].frags = recs[r].frags
             /\ recs'[r].state = IF kept(r) THEN "added" ELSE "failed"
  <2> DEFINE st == IF kept(r) THEN "added" ELSE "failed"
  <2>1. recs[r] \in RecordType /\ DOMAIN recs = 1..Len(recs) /\ st \in {"added", "failed"}
    BY <1>0 DEF LogTypes
  <2>2. recs'[r] = [recs[r] EXCEPT !.state = st]
    BY <2>1 DEF Crash
  <2> HIDE DEF st
  <2>3. recs'[r] \in RecordType /\ recs'[r].frags = recs[r].frags /\ recs'[r].state = st
    BY <2>1, <2>2 DEF RecordType
  <2> QED  BY <2>3 DEF st
<1>4. recs' \in Seq(RecordType) /\ Len(recs') = Len(recs)
  <2>1. DOMAIN recs = 1..Len(recs) /\ Len(recs) \in Nat
    BY <1>0 DEF LogTypes
  <2>2. recs' = [i \in 1..Len(recs) |-> recs'[i]]
    BY <2>1 DEF Crash
  <2> QED  BY <1>3, <2>1, <2>2
<1>5. writer' \in WriterType /\ writer'.rec = 0
  <2>1. writer.off \in 0..B
    BY <1>0 DEF LogTypes, WriterType
  <2> QED  BY <1>1, <2>1 DEF Idle, WriterType
<1>6. /\ reader' \in ReaderType /\ reader'.buf = <<>> /\ ~reader'.inFrag
  <2> DEFINE b == InitialBlock(o)
             y == o > 0
  <2>1. b \in Nat /\ y \in BOOLEAN
    BY LogAssumption, InitialBlockNat
  <2>2. reader' = [NewReader EXCEPT !.resync = y, !.pos = b, !.end = b]
    BY DEF Crash
  <2> HIDE DEF b, y
  <2>3. reader' = [pos |-> b, buf |-> <<>>, eof |-> FALSE, end |-> b, inFrag |-> FALSE, scratch |-> <<>>, resync |-> y]
    BY <2>2 DEF NewReader
  <2>4. <<>> \in Seq(Nat \X Nat) /\ <<>> \in Seq(Nat)
    OBVIOUS
  <2> QED  BY <2>1, <2>3, <2>4 DEF ReaderType
<1>7. LogTypes'
  <2>1. synced' \in 0..Len(disk') /\ got' \in Seq(Seq(Nat)) /\ reports' \in Nat /\ offset' \in Nat
    BY <1>0, <1>1, <1>2, LogAssumption
  <2> QED  BY <1>0, <1>1, <1>2, <1>4, <1>5, <1>6, <2>1 DEF LogTypes
<1>8. BytesInv'
  <2>1. \A i \in 1..n : i \in 1..L
    BY <1>0
  <2>2. \A i \in 1..n : disk[i] # Zero => disk[i][1] \in 1..N /\ disk[i][2] \in 1..Size(disk[i][1])
    BY <1>0, <2>1 DEF BytesInv
  <2>3. \A i, j \in 1..n : i < j /\ disk[i] # Zero /\ disk[j] # Zero =>
          disk[i][1] < disk[j][1] \/ (disk[i][1] = disk[j][1] /\ disk[i][2] < disk[j][2])
    BY <1>0, <2>1 DEF BytesInv
  <2>4. ASSUME NEW i \in 1..n, disk[i] # Zero
        PROVE  disk[i][2] <= i /\ \A b \in 1..disk[i][2] : disk'[i - disk[i][2] + b] = <<disk[i][1], b>>
    <3> DEFINE m == disk[i][2]
    <3>1. m <= i /\ \A b \in 1..m : disk[i - m + b] = <<disk[i][1], b>>
      BY <1>0, <2>1, <2>4 DEF BytesInv
    <3>2. m \in Nat
      BY <1>0
    <3> HIDE DEF m
    <3>3. ASSUME NEW b \in 1..m PROVE i - m + b \in 1..n
      BY <1>0, <3>1, <3>2
    <3>4. \A b \in 1..m : disk'[i - m + b] = <<disk[i][1], b>>
      BY <1>2, <3>1, <3>3
    <3> QED  BY <3>1, <3>4 DEF m
  <2>5. BytesInv' <=>
          /\ \A i \in 1..n : disk'[i] # Zero => disk'[i][1] \in 1..N /\ disk'[i][2] \in 1..Size(disk'[i][1])
          /\ \A i, j \in 1..n : i < j /\ disk'[i] # Zero /\ disk'[j] # Zero =>
               disk'[i][1] < disk'[j][1] \/ (disk'[i][1] = disk'[j][1] /\ disk'[i][2] < disk'[j][2])
          /\ \A i \in 1..n : disk'[i] # Zero =>
               disk'[i][2] <= i /\ \A b \in 1..disk'[i][2] : disk'[i - disk'[i][2] + b] = <<disk'[i][1], b>>
    BY <1>1, <1>2 DEF BytesInv, Size
  <2>6. \A i \in 1..n : disk'[i] # Zero => disk'[i][1] \in 1..N /\ disk'[i][2] \in 1..Size(disk'[i][1])
    BY <1>2, <2>2
  <2>7. \A i, j \in 1..n : i < j /\ disk'[i] # Zero /\ disk'[j] # Zero =>
          disk'[i][1] < disk'[j][1] \/ (disk'[i][1] = disk'[j][1] /\ disk'[i][2] < disk'[j][2])
    <3> SUFFICES ASSUME NEW i \in 1..n, NEW j \in 1..n, i < j /\ disk'[i] # Zero /\ disk'[j] # Zero
                 PROVE  disk'[i][1] < disk'[j][1] \/ (disk'[i][1] = disk'[j][1] /\ disk'[i][2] < disk'[j][2])
      OBVIOUS
    <3>1. disk'[i] = disk[i] /\ disk'[j] = disk[j]
      BY <1>2
    <3> QED  BY <2>3, <3>1
  <2>8. \A i \in 1..n : disk'[i] # Zero =>
          disk'[i][2] <= i /\ \A b \in 1..disk'[i][2] : disk'[i - disk'[i][2] + b] = <<disk'[i][1], b>>
    BY <1>2, <2>4
  <2> QED  BY <2>5, <2>6, <2>7, <2>8
<1>9. FragsInv'
  BY <1>0, <1>1, <1>4 DEF FragsInv, Starts, Ends
<1>10. \A f \in 1..N : frags[f].rec \in 1..Len(recs)
  BY <1>0 DEF FragsInv
<1>11. RecsInv'
  <2>1. \A r \in 1..Len(recs) : RecOK(recs'[r].frags, frags, r)
    BY <1>0, <1>3 DEF RecsInv
  <2>2. \A f \in 1..N :
          \E j \in 1..Len(recs'[frags[f].rec].frags) : recs'[frags[f].rec].frags[j] = f
    BY <1>0, <1>3, <1>10 DEF RecsInv
  <2> QED  BY <1>1, <1>4, <2>1, <2>2 DEF RecsInv
<1>12. WriterInv'
  BY <1>5 DEF WriterInv
<1>13. ASSUME NEW f \in 1..N, NEW i \in 1..n, disk[i] # Zero, disk[i][1] = f,
              NEW g \in 1..(f - 1), Whole(g)
       PROVE  Whole(g)'
  <2>1. PICK x \in 1..L : disk[x] = <<g, Size(g)>>
    BY <1>13 DEF Whole
  <2>2. disk[x] # Zero /\ disk[x][1] = g /\ g < f /\ i \in 1..L /\ x # i
    <3>1. disk[x][1] = g /\ g < f /\ g # 0 /\ i \in 1..L
      BY <1>0, <2>1, SMTT(30)
    <3>2. x # i
      BY <1>13, <3>1
    <3> QED  BY <3>1, <3>2 DEF Zero
  <2>3. ~(i < x)
    <3> SUFFICES ASSUME i < x PROVE FALSE
      OBVIOUS
    <3>1. disk[i][1] < disk[x][1] \/ disk[i][1] = disk[x][1]
      <4>1. BytesInv /\ i \in 1..Len(disk) /\ x \in 1..Len(disk) /\ disk[i] # Zero /\ disk[x] # Zero
        BY <1>0, <1>13, <2>2
      <4> QED  BY <4>1 DEF BytesInv
    <3>2. f \in Nat /\ g \in Nat /\ g < f
      BY <1>0, <2>2
    <3>3. f < g \/ f = g
      BY <1>13, <2>2, <3>1
    <3> QED  BY <3>2, <3>3
  <2>4. x \in 1..n
    BY <1>0, <2>2, <2>3
  <2>5. disk'[x] = <<g, Size(g)>>
    BY <1>2, <2>1, <2>4
  <2> QED  BY <1>1, <1>2, <2>4, <2>5 DEF Whole, Size
<1>14. ASSUME NEW f \in 1..N, Whole(f)' PROVE Whole(f) /\ \E i \in 1..n : disk[i] # Zero /\ disk[i][1] = f
  <2>1. PICK i \in 1..n : disk'[i] = <<f, Size(f)>>
    BY <1>1, <1>2, <1>14 DEF Whole, Size
  <2>2. i \in 1..L /\ disk[i] = <<f, Size(f)>>
    <3>1. i \in 1..L /\ disk'[i] = disk[i]
      BY <1>0, <1>2
    <3> QED  BY <2>1, <3>1
  <2>3. disk[i] # Zero /\ disk[i][1] = f
    BY <1>0, <2>2 DEF Zero
  <2> QED  BY <2>2, <2>3 DEF Whole
<1>15. ASSUME NEW f \in 1..N, NEW i \in 1..n, disk[i] # Zero, disk[i][1] = f,
              NEW g \in 1..(f - 1), frags[g].rec = frags[f].rec
       PROVE  Whole(g)'
  <2>1. Whole(g)
    <3>1. i \in 1..L
      BY <1>0
    <3> QED  BY <1>0, <1>15, <3>1 DEF StateInv
  <2> QED  BY <1>13, <1>15, <2>1
<1>16. StateInv'
  <2>1. ASSUME NEW f \in 1..N, Ends(f), Whole(f)'
        PROVE  recs'[frags[f].rec].state = "added"
    <3> DEFINE r == frags[f].rec
               fs == recs[r].frags
    <3>1. r \in 1..Len(recs) /\ recs[r].state = "added"
      BY <1>0, <1>10, <1>14, <2>1 DEF StateInv
    <3>2. PICK i \in 1..n : disk[i] # Zero /\ disk[i][1] = f
      BY <1>14, <2>1
    <3>3. RecOK(fs, frags, r)
      BY <1>0, <3>1 DEF RecsInv
    <3>4. PICK last \in 1..Len(fs) : fs[last] = f
      BY <1>0 DEF RecsInv
    <3>5. last = Len(fs) /\ fs \in Seq(Nat)
      <4>0. recs \in Seq(RecordType)
        BY <1>0 DEF LogTypes
      <4>1. recs[r] \in RecordType
        BY <3>1, <4>0
      <4> QED  BY <2>1, <3>3, <3>4, <4>1 DEF RecOK, Ends, RecordType
    <3>6. ASSUME NEW g \in Range(fs) PROVE Whole(g)'
      <4>1. PICK j \in 1..Len(fs) : g = fs[j]
        <5>1. DOMAIN fs = 1..Len(fs)
          BY <3>5
        <5> QED  BY <5>1 DEF Range
      <4> HIDE DEF fs, r
      <4>2. fs[j] = fs[1] + j - 1 /\ fs[last] = fs[1] + last - 1 /\ fs[j] \in 1..N /\ frags[fs[j]].rec = r
        BY <3>3 DEF RecOK
      <4>4. Len(fs) \in Nat /\ j <= last /\ 1 \in 1..Len(fs)
        BY <3>5
      <4>5. fs[1] \in Nat
        BY <3>5, <4>4
      <4>3. g = f \/ g \in 1..(f - 1)
        <5>1. f = fs[1] + last - 1 /\ g = fs[1] + j - 1 /\ g \in 1..N
          BY <3>4, <4>1, <4>2
        <5>2. g <= f /\ g \in Nat /\ g >= 1 /\ f \in Nat
          <6> DEFINE a == fs[1]
          <6>1. j \in Nat /\ last \in Nat /\ j <= last /\ a \in Nat
            BY <4>4, <4>5
          <6>2. f = a + last - 1 /\ g = a + j - 1
            BY <5>1
          <6>3. N \in Nat /\ f \in 1..N /\ g \in 1..N
            BY <1>0, <5>1
          <6> HIDE DEF a, N
          <6> QED  BY <6>1, <6>2, <6>3
        <5> QED  BY <5>2
      <4> USE DEF fs, r
      <4> QED  BY <1>15, <2>1, <3>2, <4>1, <4>2, <4>3
    <3>7. ASSUME NEW g \in Range(fs) PROVE <<g, H + frags[g].len>> \in Range(SubSeq(disk, 1, n))
      <4>1. PICK x \in 1..n : disk'[x] = <<g, H + frags[g].len>>
        BY <1>1, <1>2, <3>6 DEF Whole, Size
      <4>2. x \in DOMAIN disk'
        BY <1>2, <4>1
      <4> QED  BY <1>1, <4>1, <4>2 DEF Range
    <3> QED  BY <1>3, <3>1, <3>7
  <2>2. \A f \in 1..N : \A i \in 1..n : disk'[i] # Zero /\ disk'[i][1] = f =>
          \A g \in 1..(f - 1) : frags[g].rec = frags[f].rec => Whole(g)'
    BY <1>2, <1>15
  <2>3. StateInv' <=>
          \A f \in 1..N :
            /\ Ends(f) /\ Whole(f)' => recs'[frags[f].rec].state = "added"
            /\ \A i \in 1..n : disk'[i] # Zero /\ disk'[i][1] = f =>
                 \A g \in 1..(f - 1) : frags[g].rec = frags[f].rec => Whole(g)'
    BY <1>1, <1>2 DEF StateInv, Ends
  <2> QED  BY <2>1, <2>2, <2>3
<1>17. BufferOK(reader)' /\ ReadInv' /\ GotInv'
  <2>1. Len(reader'.buf) = 0 /\ reader'.pos \in Nat /\ Len(got') = 0
    BY <1>1, <1>6 DEF ReaderType
  <2> QED  BY <1>6, <2>1 DEF BufferOK, ReadInv, GotInv
<1> QED  BY <1>7, <1>8, <1>9, <1>11, <1>12, <1>16, <1>17 DEF LogInv, OnDisk

-----------------------------------------------------------------------------
(* A part of a sequence.                                                   *)
LEMMA PartOfSeq ==
  ASSUME NEW S, NEW s \in Seq(S), NEW lo \in Nat, NEW hi \in Nat, hi <= Len(s)
  PROVE  /\ SubSeq(s, lo + 1, hi) \in Seq(S)
         /\ Len(SubSeq(s, lo + 1, hi)) = IF lo <= hi THEN hi - lo ELSE 0
         /\ \A i \in 1..Len(SubSeq(s, lo + 1, hi)) : SubSeq(s, lo + 1, hi)[i] = s[lo + i] /\ lo + i <= hi
<1> DEFINE m == lo + 1
           t == SubSeq(s, m, hi)
<1>1. m \in Int /\ hi \in Int /\ \A i \in m..hi : s[i] \in S
  <2>1. \A i \in m..hi : i \in 1..Len(s)
    OBVIOUS
  <2> QED  BY <2>1
<1> HIDE DEF m
<1>2. /\ t \in Seq(S)
      /\ Len(t) = IF m <= hi THEN hi - m + 1 ELSE 0
      /\ \A i \in 1..(hi - m + 1) : t[i] = s[m + i - 1]
  BY <1>1, SubSeqProperties
<1> HIDE DEF t
<1>3. Len(t) = IF lo <= hi THEN hi - lo ELSE 0
  BY <1>2 DEF m
<1>4. ASSUME NEW i \in 1..Len(t) PROVE t[i] = s[lo + i] /\ lo + i <= hi
  <2>1. i \in 1..(hi - m + 1) /\ m + i - 1 = lo + i /\ lo + i <= hi
    BY <1>3 DEF m
  <2>2. t[i] = s[m + i - 1]
    BY <1>2, <2>1
  <2> QED  BY <2>1, <2>2
<1> QED  BY <1>2, <1>3, <1>4 DEF t, m
(* The reader goes on with less than a header dropped, and keeps what it   *)
(* has collected.                                                          *)
LEMMA RefillFacts ==
  ASSUME LogTypes, BufferOK(reader), NEW r, r = Refill(reader)
  PROVE  /\ r \in ReaderType /\ BufferOK(r)
         /\ r.inFrag = reader.inFrag /\ r.scratch = reader.scratch /\ r.resync = reader.resync
         /\ Parsed(reader) \in Nat /\ Parsed(r) \in Nat
         /\ Parsed(reader) <= Parsed(r) /\ Parsed(r) < Parsed(reader) + H
<1> DEFINE top == Min({reader.pos + B, Len(disk)})
           block == SubSeq(disk, reader.pos + 1, top)
           m == Len(block)
<1>0. /\ reader \in ReaderType /\ disk \in Seq(Nat \X Nat) /\ Len(disk) \in Nat /\ B \in Nat /\ H \in Nat /\ H > 1
  BY LogAssumption DEF LogTypes
<1>1. /\ reader.pos \in Nat /\ reader.buf \in Seq(Nat \X Nat) /\ reader.eof \in BOOLEAN /\ reader.end \in Nat
      /\ reader.inFrag \in BOOLEAN /\ reader.scratch \in Seq(Nat) /\ reader.resync \in BOOLEAN
  BY <1>0 DEF ReaderType
<1>2. Len(reader.buf) \in Nat /\ Len(reader.buf) <= reader.pos
  BY <1>1 DEF BufferOK
<1>3. Parsed(reader) \in Nat /\ Parsed(reader) = reader.pos - Len(reader.buf)
  BY <1>1, <1>2 DEF Parsed
<1>4. CASE Len(reader.buf) >= H \/ reader.eof
  <2>1. r = reader
    BY <1>4 DEF Refill
  <2> QED  BY <1>0, <1>3, <2>1
<1>5. CASE ~(Len(reader.buf) >= H \/ reader.eof)
  <2> DEFINE e == m < B
             q == reader.pos + m
             z == reader.end + m
  <2>1. top \in Nat /\ top <= Len(disk)
    <3>1. reader.pos + B \in Int /\ Len(disk) \in Int /\ reader.pos + B \in Nat
      BY <1>0, <1>1
    <3>2. top = IF reader.pos + B <= Len(disk) THEN reader.pos + B ELSE Len(disk)
      BY <3>1, MinOfTwo
    <3> QED  BY <1>0, <3>1, <3>2
  <2> HIDE DEF top
  <2>3. /\ block \in Seq(Nat \X Nat)
        /\ m = IF reader.pos <= top THEN top - reader.pos ELSE 0
        /\ \A i \in 1..m : block[i] = disk[reader.pos + i] /\ reader.pos + i <= top
    <3> DEFINE lo == reader.pos
               T == Nat \X Nat
    <3>1. disk \in Seq(T) /\ lo \in Nat /\ top \in Nat /\ top <= Len(disk)
      BY <1>0, <1>1, <2>1
    <3> HIDE DEF lo, T
    <3>2. /\ SubSeq(disk, lo + 1, top) \in Seq(T)
          /\ Len(SubSeq(disk, lo + 1, top)) = IF lo <= top THEN top - lo ELSE 0
          /\ \A i \in 1..Len(SubSeq(disk, lo + 1, top)) : SubSeq(disk, lo + 1, top)[i] = disk[lo + i] /\ lo + i <= top
      BY <3>1, PartOfSeq
    <3> QED  BY <3>2 DEF lo, T
  <2>4. m \in Nat
    BY <2>3
  <2> HIDE DEF block
  <2>5. ASSUME NEW i \in 1..m PROVE block[i] = disk[reader.pos + i] /\ reader.pos + i <= Len(disk)
    <3>1. block[i] = disk[reader.pos + i] /\ reader.pos + i <= top
      BY <2>3
    <3> QED  BY <1>0, <1>1, <2>1, <2>4, <3>1
  <2>6. r = [reader EXCEPT !.buf = block, !.pos = q, !.end = z, !.eof = e]
    BY <1>5 DEF Refill, top, block
  <2>7. q \in Nat /\ z \in Nat /\ e \in BOOLEAN /\ q - m = reader.pos /\ m <= q
    BY <1>1, <2>4
  <2> HIDE DEF q, z, e, block
  <2>8. r = [pos |-> q, buf |-> block, eof |-> e, end |-> z, inFrag |-> reader.inFrag,
             scratch |-> reader.scratch, resync |-> reader.resync]
    BY <1>0, <2>6 DEF ReaderType
  <2>9. r \in ReaderType
    BY <1>1, <2>3, <2>7, <2>8 DEF ReaderType
  <2>10. r.pos = q /\ r.buf = block /\ r.inFrag = reader.inFrag /\ r.scratch = reader.scratch /\ r.resync = reader.resync
    BY <2>8
  <2>11. Parsed(r) = reader.pos
    BY <2>7, <2>10 DEF Parsed
  <2>12. BufferOK(r)
    BY <2>5, <2>7, <2>10, <2>11 DEF BufferOK
  <2>13. Parsed(reader) <= reader.pos /\ reader.pos < Parsed(reader) + H
    BY <1>0, <1>1, <1>2, <1>3, <1>5
  <2> QED  BY <1>1, <1>3, <2>9, <2>10, <2>11, <2>12, <2>13
<1> QED  BY <1>4, <1>5

(* The reader drops k bytes of its buffer.                                 *)
LEMMA ConsumedFacts ==
  ASSUME disk \in Seq(Nat \X Nat), NEW r \in ReaderType, BufferOK(r), NEW k \in 0..Len(r.buf), NEW s,
         s = [r EXCEPT !.buf = SubSeq(r.buf, k + 1, Len(r.buf))]
  PROVE  /\ s \in ReaderType /\ BufferOK(s) /\ Parsed(s) = Parsed(r) + k
         /\ s.inFrag = r.inFrag /\ s.scratch = r.scratch /\ s.resync = r.resync
<1> DEFINE n == Len(r.buf)
           b == SubSeq(r.buf, k + 1, n)
<1>1. /\ r.pos \in Nat /\ r.buf \in Seq(Nat \X Nat) /\ r.eof \in BOOLEAN /\ r.end \in Nat
      /\ r.inFrag \in BOOLEAN /\ r.scratch \in Seq(Nat) /\ r.resync \in BOOLEAN /\ n \in Nat
  BY DEF ReaderType
<1>2. n <= r.pos /\ Len(disk) \in Nat /\ \A i \in 1..n : (r.pos - n) + i <= Len(disk) /\ r.buf[i] = disk[(r.pos - n) + i]
  BY DEF BufferOK, Parsed
<1>3. b \in Seq(Nat \X Nat) /\ Len(b) = n - k /\ \A i \in 1..(n - k) : b[i] = r.buf[k + i]
  <2>1. k \in Nat /\ n \in Nat /\ k <= n
    BY <1>1
  <2>2. /\ b \in Seq(Nat \X Nat) /\ Len(b) = n - k
        /\ \A i \in 1..Len(b) : b[i] = r.buf[k + i]
    <3> DEFINE T == Nat \X Nat
               u == r.buf
    <3>1. u \in Seq(T) /\ n \in Nat /\ k \in Nat /\ n <= Len(u)
      BY <1>1, <2>1
    <3> HIDE DEF T, u
    <3>2. /\ SubSeq(u, k + 1, n) \in Seq(T)
          /\ Len(SubSeq(u, k + 1, n)) = IF k <= n THEN n - k ELSE 0
          /\ \A i \in 1..Len(SubSeq(u, k + 1, n)) : SubSeq(u, k + 1, n)[i] = u[k + i] /\ k + i <= n
      BY <3>1, PartOfSeq
    <3>3. b = SubSeq(u, k + 1, n)
      BY DEF u
    <3> HIDE DEF b
    <3> QED  BY <2>1, <3>2, <3>3 DEF T, u
  <2> QED  BY <2>2
<1> HIDE DEF b, n
<1>4. s = [pos |-> r.pos, buf |-> b, eof |-> r.eof, end |-> r.end, inFrag |-> r.inFrag,
           scratch |-> r.scratch, resync |-> r.resync]
  BY DEF ReaderType, b, n
<1>5. s \in ReaderType /\ s.pos = r.pos /\ s.buf = b /\ s.inFrag = r.inFrag /\ s.scratch = r.scratch /\ s.resync = r.resync
  <2>1. s.pos = r.pos /\ s.buf = b /\ s.inFrag = r.inFrag /\ s.scratch = r.scratch /\ s.resync = r.resync
    BY <1>4
  <2>2. s \in ReaderType
    <3>1. b \in Seq(Nat \X Nat)
      BY <1>3
    <3>2. s = [r EXCEPT !.buf = b]
      BY DEF b, n
    <3>3. [r EXCEPT !.buf = b] \in ReaderType
      BY <3>1 DEF ReaderType
    <3> QED  BY <3>2, <3>3
  <2> QED  BY <2>1, <2>2
<1>6. Parsed(r) = r.pos - n
  BY DEF Parsed, n
<1>7. k \in Nat /\ k <= n
  BY <1>1 DEF n
<1>8. Parsed(s) = Parsed(r) + k /\ Len(b) <= s.pos
  <2>1. Parsed(s) = r.pos - Len(b) /\ Len(b) = n - k /\ r.pos \in Nat /\ n \in Nat /\ n <= r.pos
    BY <1>1, <1>2, <1>3, <1>5 DEF Parsed, n
  <2> QED  BY <1>5, <1>6, <1>7, <2>1
<1>9. ASSUME NEW i \in 1..Len(b) PROVE Parsed(s) + i <= Len(disk) /\ b[i] = disk[Parsed(s) + i]
  <2> DEFINE j == k + i
  <2>1. j \in 1..n /\ i \in 1..(n - k) /\ (r.pos - n) + j = Parsed(s) + i
    <3>1. Len(b) = n - k /\ n \in Nat /\ r.pos \in Nat
      BY <1>1, <1>3 DEF n
    <3> QED  BY <1>6, <1>7, <1>8, <3>1
  <2>2. b[i] = r.buf[j]
    BY <1>3, <2>1
  <2> HIDE DEF j
  <2>3. (r.pos - n) + j <= Len(disk) /\ r.buf[j] = disk[(r.pos - n) + j]
    BY <1>2, <2>1
  <2> QED  BY <2>1, <2>2, <2>3
<1> QED  BY <1>5, <1>8, <1>9 DEF BufferOK

(* What ReadPhysicalRecord returns: when it is a fragment, its bytes are   *)
(* those that the reader went over, in their order.                        *)
PhysicalOK(r, p) ==
  /\ p.r \in ReaderType /\ BufferOK(p.r) /\ Parsed(r) <= Parsed(p.r) /\ p.rep \in Nat
  /\ p.r.inFrag = r.inFrag /\ p.r.scratch = r.scratch
  /\ p.type \notin {"eof", "bad"} =>
       /\ p.frag \in 1..Len(frags) /\ p.type = frags[p.frag].type
       /\ Parsed(p.r) = Parsed(r) + Size(p.frag)
       /\ \A i \in 1..Size(p.frag) : Parsed(r) + i \in 1..Len(disk) /\ disk[Parsed(r) + i] = <<p.frag, i>>

(* The bytes that ReadPhysicalRecord drops are gone over.                  *)
LEMMA DropFacts ==
  ASSUME disk \in Seq(Nat \X Nat), NEW r \in ReaderType, BufferOK(r), NEW report \in BOOLEAN,
         NEW type \in {"eof", "bad"}, NEW p, p = Drop(r, type, report)
  PROVE  PhysicalOK(r, p)
<1> DEFINE s == [r EXCEPT !.buf = <<>>]
           n == Len(r.buf)
<1>1. r.buf \in Seq(Nat \X Nat) /\ n \in Nat /\ n \in 0..n /\ r.pos \in Nat
  BY DEF ReaderType
<1>2. SubSeq(r.buf, n + 1, n) = <<>>
  BY <1>1, SubSeqEmpty
<1>3. s = [r EXCEPT !.buf = SubSeq(r.buf, n + 1, Len(r.buf))]
  BY <1>2
<1>4. p.type = type /\ p.r = s /\ p.rep \in Nat
  BY DEF Drop, Reported
<1> HIDE DEF s
<1>5. /\ s \in ReaderType /\ BufferOK(s) /\ Parsed(s) = Parsed(r) + n
      /\ s.inFrag = r.inFrag /\ s.scratch = r.scratch
  BY <1>1, <1>3, ConsumedFacts
<1>6. Parsed(r) \in Int
  BY <1>1 DEF Parsed
<1>7. Parsed(r) <= Parsed(s)
  BY <1>1, <1>5, <1>6
<1> QED  BY <1>4, <1>5, <1>7 DEF PhysicalOK

(* Every way out of ReadPhysicalRecord is of that kind.                    *)
LEMMA PhysicalRecord ==
  ASSUME LogTypes, BytesInv, NEW r \in ReaderType, BufferOK(r), NEW p \in ReadPhysicalRecord(r)
  PROVE  PhysicalOK(r, p)
<1> DEFINE f == HeaderOf(r.buf)
           len == frags[f].len
           rest == [r EXCEPT !.buf = SubSeq(@, H + len + 1, Len(@))]
<1>0. /\ disk \in Seq(Nat \X Nat) /\ H \in Nat /\ H > 1 /\ Len(frags) \in Nat /\ Len(disk) \in Nat
      /\ r.buf \in Seq(Nat \X Nat) /\ Len(r.buf) \in Nat /\ r.pos \in Nat
  BY LogAssumption, SMTT(30) DEF LogTypes, ReaderType
<1>1. \A report \in BOOLEAN, type \in {"eof", "bad"} : p = Drop(r, type, report) => PhysicalOK(r, p)
  BY <1>0, DropFacts
<1>2. p = TooLong(r) => PhysicalOK(r, p)
  BY <1>1 DEF TooLong
<1>3. \/ \E report \in BOOLEAN, type \in {"eof", "bad"} : p = Drop(r, type, report)
      \/ p = TooLong(r)
      \/ /\ ~(Len(r.buf) < H) /\ IsHeader(r.buf) /\ ~(H + len > Len(r.buf)) /\ Matches(r.buf, len)
         /\ \/ p = [type |-> "bad", frag |-> 0, r |-> rest, rep |-> 0]
            \/ p = [type |-> frags[f].type, frag |-> f, r |-> rest, rep |-> 0]
  <2> HIDE DEF rest
  <2> QED  BY DEF ReadPhysicalRecord, rest
<1>4. CASE /\ ~(Len(r.buf) < H) /\ IsHeader(r.buf) /\ ~(H + len > Len(r.buf)) /\ Matches(r.buf, len)
           /\ \/ p = [type |-> "bad", frag |-> 0, r |-> rest, rep |-> 0]
              \/ p = [type |-> frags[f].type, frag |-> f, r |-> rest, rep |-> 0]
  <2>1. Parsed(r) \in Nat /\ \A i \in 1..Len(r.buf) : Parsed(r) + i <= Len(disk) /\ r.buf[i] = disk[Parsed(r) + i]
    <3>1. \A i \in 1..Len(r.buf) : Parsed(r) + i <= Len(disk) /\ r.buf[i] = disk[Parsed(r) + i]
      BY DEF BufferOK
    <3>2. Len(r.buf) <= r.pos
      BY DEF BufferOK
    <3>3. Parsed(r) \in Nat
      BY <1>0, <3>2 DEF Parsed
    <3> QED  BY <3>1, <3>3
  <2>2. 1 \in 1..Len(r.buf) /\ r.buf[1] # Zero /\ f = r.buf[1][1]
    <3>1. ~(Len(r.buf) < H) /\ IsHeader(r.buf)
      BY <1>4
    <3>2. Len(r.buf) >= 1
      BY <1>0, <3>1
    <3>3. r.buf[1] # Zero
      BY <3>1 DEF IsHeader
    <3>4. f = r.buf[1][1]
      BY DEF HeaderOf
    <3> QED  BY <1>0, <3>2, <3>3, <3>4
  <2>3. Parsed(r) + 1 \in 1..Len(disk) /\ disk[Parsed(r) + 1] # Zero /\ f = disk[Parsed(r) + 1][1]
    <3> DEFINE P == Parsed(r)
    <3>1. P \in Nat /\ P + 1 <= Len(disk) /\ r.buf[1] = disk[P + 1]
      BY <2>1, <2>2
    <3> HIDE DEF P
    <3>2. P + 1 \in 1..Len(disk)
      BY <1>0, <3>1
    <3> QED  BY <2>2, <3>1, <3>2 DEF P
  <2> HIDE DEF f
  <2>4. f \in 1..Len(frags)
    BY <2>3 DEF BytesInv
  <2>5. frags[f] \in FragType /\ len \in Nat
    <3>1. frags \in Seq(FragType)
      BY DEF LogTypes
    <3>2. frags[f] \in FragType
      BY <2>4, <3>1
    <3> QED  BY <3>2 DEF FragType
  <2> DEFINE k == H + len
  <2>6. k \in Nat /\ k <= Len(r.buf) /\ k = Size(f)
    <3>1. ~(k > Len(r.buf))
      BY <1>4 DEF f
    <3>2. k \in Nat
      BY <1>0, <2>5
    <3>3. k = Size(f)
      BY DEF Size
    <3> HIDE DEF k
    <3> QED  BY <1>0, <3>1, <3>2, <3>3
  <2>7. \A i \in 1..k : r.buf[i] = <<f, i>>
    BY <1>4 DEF Matches, f
  <2>8. ASSUME NEW i \in 1..k PROVE Parsed(r) + i \in 1..Len(disk) /\ disk[Parsed(r) + i] = <<f, i>>
    <3>1. i \in 1..Len(r.buf)
      BY <1>0, <2>6
    <3>2. Parsed(r) + i <= Len(disk) /\ r.buf[i] = disk[Parsed(r) + i]
      BY <2>1, <3>1
    <3>3. Parsed(r) + i \in 1..Len(disk)
      <4> DEFINE P == Parsed(r)
      <4>1. P \in Nat /\ P + i <= Len(disk) /\ i \in Nat /\ i >= 1
        BY <2>1, <2>6, <3>2
      <4> HIDE DEF P
      <4>2. P + i \in 1..Len(disk)
        BY <1>0, <4>1
      <4> QED  BY <4>2 DEF P
    <3> QED  BY <2>7, <3>2, <3>3
  <2>9. rest = [r EXCEPT !.buf = SubSeq(r.buf, k + 1, Len(r.buf))] /\ k \in 0..Len(r.buf)
    BY <1>0, <2>6
  <2> HIDE DEF rest, k
  <2>10. /\ rest \in ReaderType /\ BufferOK(rest) /\ Parsed(rest) = Parsed(r) + k
         /\ rest.inFrag = r.inFrag /\ rest.scratch = r.scratch
    BY <1>0, <2>9, ConsumedFacts
  <2>11. Parsed(r) <= Parsed(rest)
    BY <2>1, <2>6, <2>10
  <2>12. CASE p = [type |-> "bad", frag |-> 0, r |-> rest, rep |-> 0]
    <3>1. p.type = "bad" /\ p.r = rest /\ p.rep = 0
      BY <2>12
    <3> QED  BY <2>10, <2>11, <3>1 DEF PhysicalOK
  <2>13. CASE p = [type |-> frags[f].type, frag |-> f, r |-> rest, rep |-> 0]
    <3>1. p.type = frags[f].type /\ p.r = rest /\ p.rep = 0 /\ p.frag = f
      BY <2>13
    <3> QED  BY <2>4, <2>6, <2>8, <2>10, <2>11, <3>1 DEF PhysicalOK
  <2> QED  BY <1>4, <2>12, <2>13
<1> QED  BY <1>1, <1>2, <1>3, <1>4

(* A fragment is at least as long as its header.                           *)
LEMMA Lengths ==
  ASSUME LogTypes
  PROVE  /\ Len(disk) \in Nat /\ Len(frags) \in Nat /\ H \in Nat /\ H > 1
         /\ \A x \in 1..Len(frags) : Size(x) \in Nat /\ Size(x) >= H
<1>1. disk \in Seq(Nat \X Nat) /\ frags \in Seq(FragType)
  BY DEF LogTypes
<1>2. Len(disk) \in Nat /\ Len(frags) \in Nat /\ H \in Nat /\ H > 1
  BY <1>1, LogAssumption
<1>3. ASSUME NEW x \in 1..Len(frags) PROVE Size(x) \in Nat /\ Size(x) >= H
  <2> DEFINE l == frags[x].len
  <2>1. frags[x] \in FragType
    BY <1>1
  <2>2. l \in Nat /\ Size(x) = H + l
    BY <2>1 DEF FragType, Size
  <2> HIDE DEF l
  <2> QED  BY <1>2, <2>2
<1> QED  BY <1>2, <1>3

(* A middle or a last fragment behind what was collected continues it: the *)
(* one before it is on the disk, too long to be lost in between.           *)
LEMMA NextFragment ==
  ASSUME LogTypes, OnDisk, NEW g \in 1..Len(frags), NEW f \in 1..Len(frags), ~Starts(f),
         NEW P \in 1..Len(disk), disk[P] = <<g, Size(g)>>,
         NEW Q \in Nat, P <= Q, Q < P + H, Q + 1 \in 1..Len(disk), disk[Q + 1] = <<f, 1>>
  PROVE  f = g + 1 /\ frags[f].rec = frags[g].rec
<1> DEFINE h == f - 1
           L == Len(disk)
           N == Len(frags)
           q == Q + 1
<1>0. /\ BytesInv /\ FragsInv /\ StateInv /\ L \in Nat /\ N \in Nat /\ H \in Nat /\ H > 1
      /\ P \in Nat /\ f \in Nat /\ g \in Nat
  <2>1. BytesInv /\ FragsInv /\ StateInv
    BY DEF OnDisk
  <2>2. L \in Nat /\ N \in Nat /\ H \in Nat /\ H > 1
    BY Lengths
  <2>3. P \in Nat /\ f \in Nat /\ g \in Nat
    BY <2>2
  <2> QED  BY <2>1, <2>2, <2>3
<1> HIDE DEF L, N
<1>1. \A x \in 1..N : Size(x) \in Nat /\ Size(x) >= H
  BY Lengths DEF N
<1>2. f > 1 /\ h \in 1..N /\ frags[h].rec = frags[f].rec /\ h \in 1..(f - 1)
  <2>1. f > 1 /\ frags[f - 1].rec = frags[f].rec
    BY <1>0 DEF FragsInv
  <2> QED  BY <1>0, <2>1 DEF N
<1>3. q \in 1..L /\ disk[q] = <<f, 1>> /\ disk[q] # Zero /\ disk[q][1] = f /\ disk[q][2] = 1
  BY <1>0 DEF Zero, L
<1>4. P \in 1..L /\ disk[P] # Zero /\ disk[P][1] = g /\ disk[P][2] = Size(g) /\ P < q
  BY <1>0 DEF Zero, L
<1> HIDE DEF h, q
<1>5. Whole(h)
  BY <1>0, <1>2, <1>3 DEF StateInv, L
<1>6. PICK x \in 1..L : disk[x] = <<h, Size(h)>>
  BY <1>5 DEF Whole, L
<1>7. disk[x] # Zero /\ disk[x][1] = h /\ disk[x][2] = Size(h) /\ h # 0
  BY <1>2, <1>6 DEF Zero
<1>8. ASSUME NEW i \in 1..L, NEW j \in 1..L, i < j, disk[i] # Zero, disk[j] # Zero
      PROVE  disk[i][1] < disk[j][1] \/ (disk[i][1] = disk[j][1] /\ disk[i][2] < disk[j][2])
  BY <1>0, <1>8 DEF BytesInv, L
<1>9. g < f
  <2>1. g < f \/ (g = f /\ Size(g) < 1)
    BY <1>3, <1>4, <1>8
  <2>2. Size(g) \in Nat /\ Size(g) >= H
    BY <1>1 DEF N
  <2> QED  BY <1>0, <2>1, <2>2
<1>10. h = f - 1 /\ g <= h /\ h \in Nat
  BY <1>0, <1>2, <1>9 DEF h
<1>11. ~(g < h)
  <2> SUFFICES ASSUME g < h PROVE FALSE
    OBVIOUS
  <2>1. x < q
    <3>1. ~(q < x)
      <4>1. q < x => f < h \/ f = h
        BY <1>3, <1>7, <1>8
      <4> QED  BY <1>0, <1>10, <4>1
    <3>2. x # q
      <4>1. h # f
        BY <1>0, <1>10
      <4> QED  BY <1>3, <1>7, <4>1
    <3>3. x \in Nat /\ q \in Nat
      BY <1>0, <1>3
    <3> QED  BY <3>1, <3>2, <3>3
  <2>2. x - Size(h) \in Nat /\ disk[x - Size(h) + 1] = <<h, 1>>
    <3>1. Size(h) \in Nat /\ Size(h) >= H
      BY <1>1, <1>2
    <3>2. Size(h) <= x /\ \A b \in 1..Size(h) : disk[x - Size(h) + b] = <<h, b>>
      BY <1>0, <1>7, ZenonT(30) DEF BytesInv, L
    <3>3. 1 \in 1..Size(h)
      BY <1>0, <3>1
    <3> QED  BY <1>0, <3>1, <3>2, <3>3
  <2> DEFINE y == x - Size(h) + 1
  <2>3. y \in 1..L /\ y <= P
    <3>1. Size(h) \in Nat /\ Size(h) >= H /\ x \in Nat /\ x <= L /\ q = Q + 1
      BY <1>0, <1>1, <1>2 DEF q
    <3> QED  BY <1>0, <2>1, <2>2, <3>1, SMTT(30)
  <2>4. disk[y] = <<h, 1>>
    BY <2>2
  <2> HIDE DEF y
  <2>5. disk[y] # Zero /\ disk[y][1] = h
    BY <1>7, <2>4 DEF Zero
  <2>6. y # P
    BY <1>0, <1>4, <1>10, <2>5
  <2>7. y < P
    BY <1>0, <2>3, <2>6
  <2>8. h < g \/ h = g
    BY <1>4, <1>8, <2>3, <2>5, <2>7
  <2> QED  BY <1>0, <1>10, <2>8
<1>12. g = h
  BY <1>0, <1>10, <1>11
<1> QED  BY <1>0, <1>2, <1>10, <1>12

(* A fragment that ends a record ends it whole, and the record was added.  *)
(* What lies behind it belongs to later records.                           *)
LEMMA RecordEnds ==
  ASSUME LogTypes, OnDisk, NEW f \in 1..Len(frags), Ends(f), Whole(f), NEW s \in Seq(Nat),
         s # <<>>, s[Len(s)] = f, s[1] \in 1..Len(frags), Starts(s[1]), frags[s[1]].rec = frags[f].rec,
         \A j \in 1..Len(s) : s[j] = s[1] + j - 1
  PROVE  recs[frags[f].rec].frags = s /\ recs[frags[f].rec].state = "added"
<1> DEFINE r == frags[f].rec
           fs == recs[r].frags
           a == s[1]
<1>0. /\ FragsInv /\ RecsInv /\ StateInv /\ Len(s) \in Nat /\ Len(s) >= 1 /\ Len(frags) \in Nat
      /\ recs \in Seq(RecordType)
  BY DEF OnDisk, LogTypes
<1>1. r \in 1..Len(recs)
  BY <1>0 DEF FragsInv
<1>2. recs[r] \in RecordType
  BY <1>0, <1>1
<1>3. fs \in Seq(Nat) /\ Len(fs) \in Nat
  BY <1>2 DEF RecordType
<1>4. RecOK(fs, frags, r) /\ recs[r].state = "added"
  BY <1>0, <1>1 DEF RecsInv, StateInv
<1>5. PICK j \in 1..Len(fs) : fs[j] = f
  BY <1>0 DEF RecsInv
<1>6. PICK i \in 1..Len(fs) : fs[i] = a
  BY <1>0, ZenonT(30) DEF RecsInv
<1> HIDE DEF fs, r, a
<1>7. j = Len(fs)
  BY <1>4, <1>5 DEF RecOK, Ends
<1>8. i = 1
  <2>1. frags[a].type \in {"full", "first"}
    BY DEF Starts, a
  <2> QED  BY <1>4, <1>6, <2>1 DEF RecOK
<1>9. \A m \in 1..Len(fs) : fs[m] = a + m - 1
  <2>1. \A m \in 1..Len(fs) : fs[m] = fs[1] + m - 1
    BY <1>4 DEF RecOK
  <2> QED  BY <1>6, <1>8, <2>1
<1>10. Len(fs) = Len(s)
  <2>1. f = a + Len(fs) - 1
    BY <1>5, <1>7, <1>9
  <2>2. f = a + Len(s) - 1
    <3>1. Len(s) \in 1..Len(s)
      BY <1>0
    <3>2. s[Len(s)] = a + Len(s) - 1
      BY <3>1 DEF a
    <3> QED  BY <3>2
  <2>3. a \in Nat
    BY <1>0 DEF a
  <2> QED  BY <1>0, <1>3, <2>1, <2>2, <2>3
<1>11. \A m \in 1..Len(fs) : fs[m] = s[m]
  BY <1>9, <1>10 DEF a
<1>12. fs = s
  BY <1>3, <1>10, <1>11, SeqEqual
<1> QED  BY <1>4, <1>12 DEF fs, r

-----------------------------------------------------------------------------
(* What one round makes of a physical record: nothing, a new or a longer   *)
(* beginning, or a record.                                                 *)
RoundOK(r, p, o) ==
  /\ o.r \in ReaderType /\ o.r.pos = p.r.pos /\ o.r.buf = p.r.buf /\ o.rep \in Nat
  /\ \/ ~o.r.inFrag /\ o.out = <<>>
     \/ p.type = "first" /\ o.r.inFrag /\ o.r.scratch = <<p.frag>> /\ o.out = <<>>
     \/ p.type = "middle" /\ r.inFrag /\ o.r.inFrag /\ o.r.scratch = r.scratch \o <<p.frag>> /\ o.out = <<>>
     \/ p.type = "full" /\ ~o.r.inFrag /\ o.out = <<<<p.frag>>>>
     \/ p.type = "last" /\ r.inFrag /\ ~o.r.inFrag /\ o.out = <<r.scratch \o <<p.frag>>>>

(* Every round of ReadRecord is of that kind.                              *)
LEMMA RoundFacts ==
  ASSUME NEW r, NEW p, p.r \in ReaderType, r.inFrag \in BOOLEAN, r.scratch \in Seq(Nat),
         p.r.inFrag = r.inFrag, p.r.scratch = r.scratch,
         p.type \in {"full", "first", "middle", "last", "bad"}, p.type # "bad" => p.frag \in Nat,
         NEW o, o = Round(r, p)
  PROVE  RoundOK(r, p, o)
<1> DEFINE s == p.r
           f == <<p.frag>>
           t == r.scratch \o f
           e == <<>>
           open == r.inFrag /\ SizeOf(r.scratch) > 0
<1>0. \A c, n : Reported(c, n) \in Nat
  BY DEF Reported
<1>1. e \in Seq(Nat) /\ [s EXCEPT !.inFrag = FALSE, !.scratch = e] \in ReaderType
  <2>1. e \in Seq(Nat)
    OBVIOUS
  <2> HIDE DEF e
  <2> QED  BY <2>1 DEF ReaderType
<1>2. [s EXCEPT !.inFrag = FALSE, !.scratch = e].pos = s.pos /\ [s EXCEPT !.inFrag = FALSE, !.scratch = e].buf = s.buf
      /\ ~[s EXCEPT !.inFrag = FALSE, !.scratch = e].inFrag
  BY DEF ReaderType
<1> DEFINE c == [s EXCEPT !.inFrag = FALSE, !.scratch = e]
<1> HIDE DEF c
<1>3. c \in ReaderType /\ c.pos = s.pos /\ c.buf = s.buf /\ ~c.inFrag
  BY <1>1, <1>2 DEF c
<1>4. CASE p.type = "full"
  <2> DEFINE x == IF open THEN Reported(s, SizeOf(r.scratch)) ELSE 0
  <2>1. o = [r |-> c, out |-> <<f>>, rep |-> x]
    BY <1>4 DEF Round, c
  <2>2. x \in Nat
    BY <1>0
  <2> HIDE DEF x, f
  <2>3. o.r = c /\ o.out = <<f>> /\ o.rep = x
    BY <2>1
  <2> QED  BY <1>3, <1>4, <2>2, <2>3 DEF RoundOK, f
<1>5. CASE p.type = "first"
  <2> DEFINE x == IF open THEN Reported(s, SizeOf(r.scratch)) ELSE 0
             b == [s EXCEPT !.inFrag = TRUE, !.scratch = f]
  <2>1. o = [r |-> b, out |-> <<>>, rep |-> x]
    BY <1>5 DEF Round
  <2>2. x \in Nat /\ f \in Seq(Nat)
    BY <1>0, <1>5
  <2> HIDE DEF x, f
  <2>3. b \in ReaderType /\ b.pos = s.pos /\ b.buf = s.buf /\ b.inFrag /\ b.scratch = f
    BY <2>2 DEF ReaderType
  <2> HIDE DEF b
  <2>4. o.r = b /\ o.out = <<>> /\ o.rep = x
    BY <2>1
  <2> QED  BY <1>5, <2>2, <2>3, <2>4 DEF RoundOK, f
<1>6. CASE p.type \in {"middle", "last"} /\ ~r.inFrag
  <2> DEFINE x == Reported(s, SizeOf(f))
  <2>1. o = [r |-> s, out |-> <<>>, rep |-> x]
    BY <1>6 DEF Round
  <2>2. x \in Nat
    BY <1>0
  <2> HIDE DEF x, f
  <2>3. o.r = s /\ o.out = <<>> /\ o.rep = x
    BY <2>1
  <2> QED  BY <1>6, <2>2, <2>3 DEF RoundOK
<1>7. CASE p.type = "middle" /\ r.inFrag
  <2> DEFINE b == [s EXCEPT !.scratch = t]
  <2>0. r.scratch = s.scratch
    OBVIOUS
  <2>1. o = [r |-> b, out |-> <<>>, rep |-> 0]
    BY <1>7, <2>0 DEF Round
  <2>2. t \in Seq(Nat)
    BY <1>7
  <2> HIDE DEF t
  <2>3. b \in ReaderType /\ b.pos = s.pos /\ b.buf = s.buf /\ b.inFrag /\ b.scratch = t
    BY <1>7, <2>2 DEF ReaderType
  <2> HIDE DEF b
  <2>4. o.r = b /\ o.out = <<>> /\ o.rep = 0
    BY <2>1
  <2> QED  BY <1>7, <2>3, <2>4 DEF RoundOK, t
<1>8. CASE p.type = "last" /\ r.inFrag
  <2>1. o = [r |-> c, out |-> <<t>>, rep |-> 0]
    BY <1>8 DEF Round, c
  <2> HIDE DEF t
  <2>2. o.r = c /\ o.out = <<t>> /\ o.rep = 0
    BY <2>1
  <2> QED  BY <1>3, <1>8, <2>2 DEF RoundOK, t
<1>9. CASE p.type = "bad"
  <2> DEFINE x == IF r.inFrag THEN Reported(s, SizeOf(r.scratch)) ELSE 0
  <2>1. o = [r |-> c, out |-> <<>>, rep |-> x]
    BY <1>9 DEF Round, ForgetScratch, c
  <2>2. x \in Nat
    BY <1>0
  <2> HIDE DEF x
  <2>3. o.r = c /\ o.out = <<>> /\ o.rep = x
    BY <2>1
  <2> QED  BY <1>3, <2>2, <2>3 DEF RoundOK
<1> QED  BY <1>4, <1>5, <1>6, <1>7, <1>8, <1>9

(* Reading leaves the log as it is.                                        *)
LEMMA OnDiskKept ==
  ASSUME OnDisk, disk' = disk, frags' = frags, recs' = recs, writer'.rec = 0
  PROVE  OnDisk'
<1>1. BytesInv' /\ FragsInv' /\ RecsInv'
  BY DEF OnDisk, BytesInv, Size, FragsInv, Starts, Ends, RecsInv
<1>2. WriterInv'
  BY DEF WriterInv
<1>3. StateInv'
  <2>1. \A f : (Whole(f)' <=> Whole(f)) /\ (Ends(f)' <=> Ends(f))
    BY DEF Whole, Size, Ends
  <2> QED  BY <2>1 DEF OnDisk, StateInv
<1> QED  BY <1>1, <1>2, <1>3 DEF OnDisk

(* The bytes behind the end of a record belong to later ones.              *)
LEMMA LaterRecords ==
  ASSUME LogTypes, OnDisk, NEW f \in 1..Len(frags), Ends(f), NEW P \in 1..Len(disk), disk[P] = <<f, Size(f)>>,
         NEW q \in 1..Len(disk), q > P, disk[q] # Zero
  PROVE  frags[disk[q][1]].rec > frags[f].rec
<1> DEFINE g == disk[q][1]
<1>0. BytesInv /\ FragsInv /\ Len(disk) \in Nat /\ Len(frags) \in Nat /\ Size(f) \in Nat /\ H \in Nat /\ H > 1 /\ Size(f) >= H
  BY Lengths DEF OnDisk
<1>1. disk[P] # Zero /\ disk[P][1] = f /\ disk[P][2] = Size(f)
  BY <1>0 DEF Zero
<1>2. g \in 1..Len(frags) /\ disk[q][2] \in 1..Size(g)
  BY <1>0 DEF BytesInv
<1>3. P < q
  BY <1>0
<1>4. f < g \/ (f = g /\ Size(f) < disk[q][2])
  BY <1>0, <1>1, <1>3 DEF BytesInv
<1> HIDE DEF g
<1>5. f < g
  BY <1>0, <1>2, <1>4
<1>6. frags[f].rec < frags[g].rec
  BY <1>0, <1>2, <1>5 DEF FragsInv
<1>7. frags[f].rec \in 1..Len(recs) /\ frags[g].rec \in 1..Len(recs)
  BY <1>0, <1>2 DEF FragsInv
<1>8. Len(recs) \in Nat
  BY DEF LogTypes
<1> DEFINE a == frags[f].rec
           b == frags[g].rec
<1> HIDE DEF a, b
<1>9. a < b /\ a \in 1..Len(recs) /\ b \in 1..Len(recs)
  BY <1>6, <1>7 DEF a, b
<1>10. b > a
  BY <1>8, <1>9
<1> QED  BY <1>10 DEF a, b, g

(* The bytes of one physical record: its first, its last.                  *)
LEMMA PhysicalEnds ==
  ASSUME LogTypes, OnDisk, NEW r \in ReaderType, Parsed(r) \in Nat, NEW p, PhysicalOK(r, p), p.type \notin {"eof", "bad"}
  PROVE  /\ Parsed(p.r) \in 1..Len(disk) /\ disk[Parsed(p.r)] = <<p.frag, Size(p.frag)>> /\ Whole(p.frag)
         /\ Parsed(r) + 1 \in 1..Len(disk) /\ disk[Parsed(r) + 1] = <<p.frag, 1>>
         /\ p.frag \in 1..Len(frags) /\ Parsed(r) < Parsed(p.r)
<1> DEFINE f == p.frag
           P == Parsed(r)
           Q == Parsed(p.r)
           z == Size(f)
<1>1. f \in 1..Len(frags) /\ Q = P + z /\ \A i \in 1..z : P + i \in 1..Len(disk) /\ disk[P + i] = <<f, i>>
  BY DEF PhysicalOK
<1>2. z \in Nat /\ z > 1 /\ Len(disk) \in Nat /\ P \in Nat
  <2>1. H \in Nat /\ H > 1 /\ z \in Nat /\ z >= H /\ Len(disk) \in Nat
    BY <1>1, Lengths
  <2> QED  BY <2>1
<1> HIDE DEF f, P, Q, z
<1>3. 1 \in 1..z /\ z \in 1..z
  BY <1>2
<1>4. P + 1 \in 1..Len(disk) /\ disk[P + 1] = <<f, 1>> /\ P + z \in 1..Len(disk) /\ disk[P + z] = <<f, z>>
  BY <1>1, <1>3
<1>5. P < Q
  BY <1>1, <1>2
<1>6. disk[Q] = <<f, z>> /\ Q \in 1..Len(disk)
  BY <1>1, <1>4
<1>7. Whole(f)
  BY <1>6 DEF Whole, z
<1> QED  BY <1>1, <1>4, <1>5, <1>6, <1>7 DEF f, P, Q, z

(* What ReadRecord makes of the reader, with the fragment p.               *)
ReadOutcome(p) ==
  /\ reader' \in ReaderType /\ reader'.pos = p.r.pos /\ reader'.buf = p.r.buf /\ reports' \in Nat
  /\ \/ ~reader'.inFrag /\ got' = got
     \/ /\ p.type = "first" /\ got' = got
        /\ reader'.inFrag /\ ~reader'.resync /\ reader'.scratch = <<p.frag>>
     \/ /\ p.type = "middle" /\ reader.inFrag /\ got' = got
        /\ reader'.inFrag /\ ~reader'.resync /\ reader'.scratch = reader.scratch \o <<p.frag>>
     \/ /\ p.type = "full" /\ ~reader'.inFrag /\ got' = Append(got, <<p.frag>>)
     \/ /\ p.type = "last" /\ reader.inFrag /\ ~reader'.inFrag
        /\ got' = Append(got, reader.scratch \o <<p.frag>>)

(* ReadRecord comes to such a fragment from a place less than a header     *)
(* ahead of where the reader was.                                          *)
LEMMA ReadFacts ==
  ASSUME LogInv, ReadRecord
  PROVE  \E r, p : /\ r \in ReaderType /\ Parsed(reader) \in Nat /\ Parsed(r) \in Nat
                   /\ Parsed(reader) <= Parsed(r) /\ Parsed(r) < Parsed(reader) + H
                   /\ PhysicalOK(r, p) /\ p.type # "eof" /\ ReadOutcome(p)
<1> DEFINE r == Refill(reader)
<1>0. LogTypes /\ OnDisk /\ BytesInv /\ BufferOK(reader) /\ ReadInv /\ phase = "reading" /\ reader \in ReaderType
  BY DEF LogInv, OnDisk, LogTypes, ReadRecord
<1>1. PICK p \in ReadPhysicalRecord(r) :
        /\ p.type # "eof"
        /\ IF Skipped(p)
           THEN reader' = [p.r EXCEPT !.resync = (p.type = "middle")] /\ UNCHANGED <<got, reports>>
           ELSE LET o == Round(reader, p)
                IN /\ reader' = [o.r EXCEPT !.resync = FALSE]
                   /\ got' = got \o o.out
                   /\ reports' = reports + p.rep + o.rep
  BY DEF ReadRecord
<1> HIDE DEF r
<1>2. /\ r \in ReaderType /\ BufferOK(r)
      /\ r.inFrag = reader.inFrag /\ r.scratch = reader.scratch
      /\ Parsed(reader) \in Nat /\ Parsed(r) \in Nat
      /\ Parsed(reader) <= Parsed(r) /\ Parsed(r) < Parsed(reader) + H
  BY <1>0, RefillFacts DEF r
<1>3. PhysicalOK(r, p)
  BY <1>0, <1>2, PhysicalRecord
<1>4. /\ p.r \in ReaderType /\ p.r.inFrag = reader.inFrag /\ p.r.scratch = reader.scratch /\ p.rep \in Nat
      /\ p.type # "bad" => p.frag \in 1..Len(frags) /\ p.type = frags[p.frag].type
  BY <1>1, <1>2, <1>3 DEF PhysicalOK
<1>5. p.type \in {"full", "first", "middle", "last", "bad"} /\ (p.type # "bad" => p.frag \in Nat)
  <2>1. frags \in Seq(FragType) /\ Len(frags) \in Nat
    BY <1>0 DEF LogTypes
  <2>2. CASE p.type # "bad"
    <3>1. frags[p.frag] \in FragType /\ p.frag \in Nat
      BY <1>4, <2>1, <2>2
    <3> QED  BY <1>4, <2>2, <3>1 DEF FragType
  <2> QED  BY <2>2
<1>6. CASE Skipped(p)
  <2> DEFINE y == p.type = "middle"
  <2>1. reader' = [p.r EXCEPT !.resync = y] /\ got' = got /\ reports' = reports
    BY <1>1, <1>6
  <2>2. y \in BOOLEAN
    OBVIOUS
  <2> HIDE DEF y
  <2>3. reader' \in ReaderType /\ reader'.pos = p.r.pos /\ reader'.buf = p.r.buf /\ reader'.inFrag = reader.inFrag
    BY <1>4, <2>1, <2>2 DEF ReaderType
  <2>4. ~reader.inFrag
    BY <1>0, <1>6 DEF ReadInv, Skipped
  <2>5. reports' \in Nat
    BY <1>0, <2>1 DEF LogTypes
  <2>6. ReadOutcome(p)
    BY <2>1, <2>3, <2>4, <2>5 DEF ReadOutcome
  <2> QED  BY <1>1, <1>2, <1>3, <2>6
<1>7. CASE ~Skipped(p)
  <2> DEFINE o == Round(reader, p)
             s == o.r
  <2>1. reader' = [s EXCEPT !.resync = FALSE] /\ got' = got \o o.out /\ reports' = reports + p.rep + o.rep
    BY <1>1, <1>7
  <2>2. reader.inFrag \in BOOLEAN /\ reader.scratch \in Seq(Nat)
    BY <1>0 DEF ReaderType
  <2> HIDE DEF o
  <2>3. RoundOK(reader, p, o)
    BY <1>4, <1>5, <2>2, RoundFacts DEF o
  <2>4. s \in ReaderType /\ s.pos = p.r.pos /\ s.buf = p.r.buf /\ o.rep \in Nat
    BY <2>3 DEF RoundOK
  <2>5. /\ \/ ~s.inFrag /\ o.out = <<>>
           \/ p.type = "first" /\ s.inFrag /\ s.scratch = <<p.frag>> /\ o.out = <<>>
           \/ p.type = "middle" /\ reader.inFrag /\ s.inFrag /\ s.scratch = reader.scratch \o <<p.frag>> /\ o.out = <<>>
           \/ p.type = "full" /\ ~s.inFrag /\ o.out = <<<<p.frag>>>>
           \/ p.type = "last" /\ reader.inFrag /\ ~s.inFrag /\ o.out = <<reader.scratch \o <<p.frag>>>>
    BY <2>3 DEF RoundOK
  <2> HIDE DEF s
  <2>6. /\ reader' \in ReaderType /\ reader'.pos = s.pos /\ reader'.buf = s.buf /\ reader'.inFrag = s.inFrag
        /\ reader'.scratch = s.scratch /\ ~reader'.resync
    BY <2>1, <2>4 DEF ReaderType
  <2>7. reports' \in Nat
    <3>1. reports \in Nat
      BY <1>0 DEF LogTypes
    <3> QED  BY <1>4, <2>1, <2>4, <3>1
  <2>8. got \in Seq(Seq(Nat))
    BY <1>0 DEF LogTypes
  <2>9. o.out = <<>> => got' = got
    BY <2>1, <2>8, ConcatEmptySeq
  <2>10. \A x : o.out = <<x>> => got' = Append(got, x)
    <3> SUFFICES ASSUME NEW x, o.out = <<x>> PROVE got' = Append(got, x)
      OBVIOUS
    <3>1. got' = got \o <<x>>
      BY <2>1
    <3> QED  BY <2>8, <3>1, AppendProperties
  <2>11. ReadOutcome(p)
    BY <2>4, <2>5, <2>6, <2>7, <2>9, <2>10 DEF ReadOutcome
  <2> QED  BY <1>1, <1>2, <1>3, <2>11
<1> QED  BY <1>6, <1>7

(* What was collected, with the fragment read behind it.                   *)
LEMMA CollectedMore ==
  ASSUME LogTypes, OnDisk, reader.inFrag, Collected(reader.scratch, Parsed(reader)), NEW r \in ReaderType,
         Parsed(reader) \in Nat, Parsed(r) \in Nat, Parsed(reader) <= Parsed(r), Parsed(r) < Parsed(reader) + H,
         NEW p, PhysicalOK(r, p), p.type \in {"middle", "last"},
         NEW s, s = reader.scratch \o <<p.frag>>
  PROVE  Collected(s, Parsed(p.r)) /\ s[Len(s)] = p.frag /\ s \in Seq(Nat)
         /\ frags[p.frag].rec = frags[s[1]].rec
<1> DEFINE c == reader.scratch
           g == c[Len(c)]
           f == p.frag
           n == Len(c)
<1>0. c \in Seq(Nat) /\ n \in Nat /\ Len(frags) \in Nat
  <2>1. reader \in ReaderType /\ Len(frags) \in Nat
    BY Lengths DEF LogTypes
  <2> QED  BY <2>1 DEF ReaderType
<1>1. /\ c # <<>> /\ Starts(c[1])
      /\ \A j \in 1..n : /\ c[j] \in 1..Len(frags) /\ c[j] = c[1] + j - 1
                         /\ frags[c[j]].rec = frags[c[1]].rec
      /\ Parsed(reader) \in 1..Len(disk) /\ disk[Parsed(reader)] = <<g, Size(g)>>
  BY DEF Collected
<1>2. n >= 1 /\ n \in 1..n /\ 1 \in 1..n
  BY <1>0, <1>1
<1>3. g \in 1..Len(frags) /\ g = c[1] + n - 1 /\ frags[g].rec = frags[c[1]].rec /\ c[1] \in 1..Len(frags)
  BY <1>1, <1>2
<1>4. /\ Parsed(p.r) \in 1..Len(disk) /\ disk[Parsed(p.r)] = <<f, Size(f)>>
      /\ Parsed(r) + 1 \in 1..Len(disk) /\ disk[Parsed(r) + 1] = <<f, 1>> /\ f \in 1..Len(frags)
  BY PhysicalEnds
<1>5. ~Starts(f)
  BY DEF PhysicalOK, Starts
<1> HIDE DEF c, g, f
<1>6. f = g + 1 /\ frags[f].rec = frags[g].rec
  BY <1>1, <1>3, <1>4, <1>5, NextFragment
<1>7. s = Append(c, f) /\ f \in Nat
  <2>1. f \in Nat
    BY <1>0, <1>4
  <2> QED  BY <1>0, <2>1, AppendProperties DEF c, f
<1> HIDE DEF n
<1>8. /\ s \in Seq(Nat) /\ Len(s) = n + 1 /\ s[n + 1] = f /\ \A j \in 1..n : s[j] = c[j]
  <2>1. c \in Seq(Nat) /\ f \in Nat /\ s = Append(c, f) /\ n = Len(c) /\ n \in Nat
    BY <1>0, <1>7 DEF n
  <2>2. /\ Append(c, f) \in Seq(Nat) /\ Len(Append(c, f)) = Len(c) + 1
        /\ \A j \in 1..Len(c) : Append(c, f)[j] = c[j]
        /\ Append(c, f)[Len(c) + 1] = f
    BY <2>1, AppendProperties
  <2> QED  BY <2>1, <2>2
<1>9. s[1] = c[1] /\ s # <<>>
  BY <1>0, <1>2, <1>8
<1>10. c[1] \in Nat
  BY <1>0, <1>3
<1>11. ASSUME NEW j \in 1..Len(s)
       PROVE  s[j] \in 1..Len(frags) /\ s[j] = s[1] + j - 1 /\ frags[s[j]].rec = frags[s[1]].rec
  <2>1. CASE j \in 1..n
    BY <1>1, <1>8, <1>9, <2>1 DEF n
  <2>2. CASE j = n + 1
    <3>1. f = c[1] + j - 1
      BY <1>0, <1>3, <1>6, <1>10, <2>2
    <3>2. s[j] = f
      BY <1>8, <2>2
    <3>3. s[j] \in 1..Len(frags)
      BY <1>4, <3>2
    <3>4. frags[s[j]].rec = frags[s[1]].rec
      BY <1>3, <1>6, <1>9, <3>2
    <3>5. s[j] = s[1] + j - 1
      BY <1>9, <3>1, <3>2
    <3> QED  BY <3>3, <3>4, <3>5
  <2>3. n \in Nat /\ Len(s) = n + 1
    BY <1>0, <1>8
  <2>4. j \in 1..n \/ j = n + 1
    BY <2>3
  <2> QED  BY <2>1, <2>2, <2>4
<1>12. s[Len(s)] = f
  BY <1>8
<1>13. Collected(s, Parsed(p.r))
  BY <1>1, <1>4, <1>9, <1>11, <1>12 DEF Collected
<1> QED  BY <1>3, <1>6, <1>8, <1>9, <1>12, <1>13 DEF f

(* The record s was returned: it is the next one.                          *)
LEMMA GotOne ==
  ASSUME LogTypes, OnDisk, GotInv, frags' = frags, recs' = recs,
         NEW s \in Seq(Nat), s # <<>>, got' = Append(got, s), s[1] \in 1..Len(frags),
         recs[frags[s[1]].rec].frags = s, recs[frags[s[1]].rec].state = "added",
         \A i \in 1..Len(got) : frags[s[1]].rec > RecordRead(i)
  PROVE  /\ GotInv' /\ got' \in Seq(Seq(Nat)) /\ Len(got') = Len(got) + 1
         /\ \A i : i = Len(got) + 1 => RecordRead(i)' = frags[s[1]].rec
         /\ \A i \in 1..Len(got) : RecordRead(i)' = RecordRead(i)
<1> DEFINE n == Len(got)
           q == frags[s[1]].rec
<1>0. got \in Seq(Seq(Nat)) /\ n \in Nat
  BY DEF LogTypes
<1>1. /\ got' \in Seq(Seq(Nat)) /\ Len(got') = n + 1
      /\ \A i \in 1..n : got'[i] = got[i]
      /\ got'[n + 1] = s
  BY <1>0, AppendProperties
<1>2. \A i \in 1..n : RecordRead(i)' = RecordRead(i)
  BY <1>1 DEF RecordRead
<1>3. \A i : i = n + 1 => RecordRead(i)' = q
  BY <1>1 DEF RecordRead
<1>4. q \in 1..Len(recs) /\ Len(recs) \in Nat
  <2>1. Len(recs) \in Nat
    BY DEF LogTypes
  <2>2. s[1] \in 1..Len(frags) => q \in 1..Len(recs)
    BY DEF OnDisk, FragsInv
  <2> QED  BY <2>1, <2>2
<1>5. \A i \in 1..n : /\ got[i] # <<>> /\ got[i][1] \in 1..Len(frags)
                      /\ recs[RecordRead(i)].frags = got[i] /\ recs[RecordRead(i)].state = "added"
  BY DEF GotInv
<1>6. \A i \in 1..n : RecordRead(i) \in 1..Len(recs) /\ q > RecordRead(i)
  BY <1>5 DEF OnDisk, FragsInv, RecordRead
<1> HIDE DEF n, q
<1>7. ASSUME NEW i \in 1..(n + 1)
      PROVE  /\ got'[i] # <<>> /\ got'[i][1] \in 1..Len(frags)
             /\ recs[RecordRead(i)'].frags = got'[i] /\ recs[RecordRead(i)'].state = "added"
  <2>1. CASE i \in 1..n
    BY <1>1, <1>2, <1>5, <2>1
  <2>2. CASE i = n + 1
    <3>1. got'[i] = s /\ RecordRead(i)' = q
      BY <1>1, <1>3, <2>2
    <3>2. recs[q].frags = s /\ recs[q].state = "added"
      BY DEF q
    <3> QED  BY <3>1, <3>2
  <2>3. n \in Nat
    BY <1>0
  <2>4. i \in 1..n \/ i = n + 1
    BY <2>3
  <2> QED  BY <2>1, <2>2, <2>4
<1>8. ASSUME NEW i \in 1..(n + 1), NEW j \in 1..(n + 1), i < j
      PROVE  RecordRead(i)' < RecordRead(j)'
  <2>1. i \in 1..n
    BY <1>0, <1>8
  <2>2. CASE j \in 1..n
    BY <1>2, <1>8, <2>1, <2>2 DEF GotInv, n
  <2>3. CASE j = n + 1
    <3>1. RecordRead(i)' = RecordRead(i) /\ RecordRead(j)' = q
      BY <1>2, <1>3, <2>1, <2>3
    <3>2. RecordRead(i) \in Nat /\ q \in Nat /\ q > RecordRead(i)
      BY <1>4, <1>6, <2>1
    <3> QED  BY <3>1, <3>2
  <2> QED  BY <1>0, <2>2, <2>3
<1>9. GotInv' <=>
        /\ \A i \in 1..(n + 1) : /\ got'[i] # <<>> /\ got'[i][1] \in 1..Len(frags)
                                  /\ recs[RecordRead(i)'].frags = got'[i] /\ recs[RecordRead(i)'].state = "added"
        /\ \A i, j \in 1..(n + 1) : i < j => RecordRead(i)' < RecordRead(j)'
  BY <1>1 DEF GotInv, RecordRead
<1> QED  BY <1>1, <1>2, <1>3, <1>7, <1>8, <1>9 DEF n, q

(* ReadRecord keeps the invariant.                                         *)
LEMMA ReadRecordStep ==
  ASSUME LogInv, ReadRecord
  PROVE  LogInv'
<1>0. /\ LogTypes /\ OnDisk /\ BufferOK(reader) /\ ReadInv /\ GotInv /\ phase = "reading"
      /\ UNCHANGED <<disk, synced, frags, recs, writer, offset, phase, torn, skewed>>
  BY DEF LogInv, ReadRecord
<1>1. PICK r, p : /\ r \in ReaderType /\ Parsed(reader) \in Nat /\ Parsed(r) \in Nat
                   /\ Parsed(reader) <= Parsed(r) /\ Parsed(r) < Parsed(reader) + H
                   /\ PhysicalOK(r, p) /\ p.type # "eof" /\ ReadOutcome(p)
  BY ReadFacts
<1> DEFINE P == Parsed(reader)
           R == Parsed(r)
           Q == Parsed(p.r)
           f == p.frag
<1>2. /\ reader' \in ReaderType /\ reader'.pos = p.r.pos /\ reader'.buf = p.r.buf /\ reports' \in Nat
  BY <1>1 DEF ReadOutcome
<1>3. OnDisk'
  <2>1. writer'.rec = 0
    BY <1>0 DEF OnDisk, WriterInv
  <2> QED  BY <1>0, <2>1, OnDiskKept
<1>4. BufferOK(reader)' /\ Parsed(reader)' = Q
  <2>1. BufferOK(p.r)
    BY <1>1 DEF PhysicalOK
  <2> QED  BY <1>0, <1>2, <2>1 DEF BufferOK, Parsed
<1>5. P \in Nat /\ R \in Nat /\ P <= R /\ R <= Q /\ Q \in Nat
  <2>1. p.r \in ReaderType /\ BufferOK(p.r) /\ R <= Q
    BY <1>1 DEF PhysicalOK
  <2>2. p.r.pos \in Nat /\ Len(p.r.buf) \in Nat /\ Len(p.r.buf) <= p.r.pos
    BY <2>1 DEF ReaderType, BufferOK
  <2>3. Q \in Nat
    BY <2>2 DEF Parsed
  <2> QED  BY <1>1, <2>1, <2>3
<1>6. ASSUME NEW i \in 1..Len(got), NEW q \in 1..Len(disk), q > P, disk[q] # Zero
      PROVE  frags[disk[q][1]].rec > RecordRead(i)
  BY <1>0, <1>6 DEF ReadInv
<1>7. ASSUME NEW i \in 1..Len(got), NEW q \in 1..Len(disk), q > Q, disk[q] # Zero
      PROVE  frags[disk[q][1]].rec > RecordRead(i)
  <2>1. q > P /\ Len(disk) \in Nat
    BY <1>0, <1>5, <1>7, Lengths
  <2> QED  BY <1>6, <1>7, <2>1
<1>8. p.type \notin {"eof", "bad"} =>
        /\ Q \in 1..Len(disk) /\ disk[Q] = <<f, Size(f)>> /\ Whole(f)
        /\ R + 1 \in 1..Len(disk) /\ disk[R + 1] = <<f, 1>> /\ f \in 1..Len(frags)
        /\ p.type = frags[f].type
  BY <1>0, <1>1, PhysicalEnds DEF PhysicalOK
<1> HIDE DEF P, R, Q, f
<1>10. ASSUME got' = got, reader'.inFrag => ~reader'.resync /\ Collected(reader'.scratch, Q)
       PROVE  LogInv'
  <2>1. LogTypes'
    BY <1>0, <1>2, <1>10 DEF LogTypes
  <2>2. \A i \in 1..Len(got) : RecordRead(i)' = RecordRead(i)
    BY <1>0, <1>10 DEF RecordRead
  <2>3. GotInv'
    BY <1>0, <1>10, <2>2 DEF GotInv
  <2>4. Collected(reader'.scratch, Q) => Collected(reader.scratch, Parsed(reader))'
    BY <1>0, <1>4 DEF Collected, Starts, Size
  <2>5. \A i \in 1..Len(got') : \A q \in 1..Len(disk') :
          q > Q /\ disk'[q] # Zero => frags'[disk'[q][1]].rec > RecordRead(i)'
    BY <1>0, <1>7, <1>10, <2>2
  <2>6. ReadInv'
    BY <1>4, <1>10, <2>4, <2>5 DEF ReadInv
  <2> QED  BY <1>3, <1>4, <2>1, <2>3, <2>6 DEF LogInv
<1>11. ASSUME NEW s \in Seq(Nat), p.type \notin {"eof", "bad"}, Ends(f), Collected(s, Q), s[Len(s)] = f,
              frags[f].rec = frags[s[1]].rec, got' = Append(got, s), ~reader'.inFrag
       PROVE  LogInv'
  <2>0. /\ Q \in 1..Len(disk) /\ disk[Q] = <<f, Size(f)>> /\ Whole(f) /\ f \in 1..Len(frags)
        /\ R + 1 \in 1..Len(disk) /\ disk[R + 1] = <<f, 1>>
    BY <1>8, <1>11
  <2>1. s # <<>> /\ s[1] \in 1..Len(frags) /\ Starts(s[1]) /\ \A j \in 1..Len(s) : s[j] = s[1] + j - 1
    <3>1. s # <<>> /\ Starts(s[1]) /\ \A j \in 1..Len(s) : s[j] \in 1..Len(frags) /\ s[j] = s[1] + j - 1
      BY <1>11 DEF Collected
    <3>2. 1 \in 1..Len(s)
      BY <3>1
    <3> QED  BY <3>1, <3>2
  <2>2. recs[frags[f].rec].frags = s /\ recs[frags[f].rec].state = "added"
    BY <1>0, <1>11, <2>0, <2>1, RecordEnds
  <2>3. \A i \in 1..Len(got) : frags[f].rec > RecordRead(i)
    <3>1. R + 1 > P
      BY <1>5
    <3>2. disk[R + 1] # Zero /\ disk[R + 1][1] = f
      BY <2>0 DEF Zero
    <3> QED  BY <1>6, <2>0, <3>1, <3>2
  <2>4. /\ GotInv' /\ got' \in Seq(Seq(Nat)) /\ Len(got') = Len(got) + 1
        /\ \A i : i = Len(got) + 1 => RecordRead(i)' = frags[f].rec
        /\ \A i \in 1..Len(got) : RecordRead(i)' = RecordRead(i)
    BY <1>0, <1>11, <2>1, <2>2, <2>3, GotOne
  <2>5. LogTypes'
    BY <1>0, <1>2, <2>4 DEF LogTypes
  <2>6. ASSUME NEW i \in 1..Len(got'), NEW q \in 1..Len(disk), q > Q, disk[q] # Zero
        PROVE  frags[disk[q][1]].rec > RecordRead(i)'
    <3>1. CASE i \in 1..Len(got)
      BY <1>7, <2>4, <2>6, <3>1
    <3>2. CASE i = Len(got) + 1
      BY <1>0, <1>11, <2>0, <2>4, <2>6, <3>2, LaterRecords
    <3>3. Len(got) \in Nat
      BY <1>0 DEF LogTypes
    <3> QED  BY <2>4, <3>1, <3>2, <3>3
  <2>7. ReadInv'
    BY <1>0, <1>4, <1>11, <2>6 DEF ReadInv
  <2> QED  BY <1>3, <1>4, <2>4, <2>5, <2>7 DEF LogInv
<1>12. ASSUME NEW s, s = <<f>>, p.type \in {"full", "first"}
       PROVE  s \in Seq(Nat) /\ Collected(s, Q) /\ s[Len(s)] = f /\ frags[f].rec = frags[s[1]].rec
  <2>0. f \in 1..Len(frags) /\ Starts(f) /\ Q \in 1..Len(disk) /\ disk[Q] = <<f, Size(f)>> /\ Len(frags) \in Nat
    BY <1>0, <1>8, <1>12, Lengths DEF Starts
  <2>1. s # <<>> /\ Len(s) = 1 /\ s[1] = f /\ s \in Seq(Nat)
    BY <1>12, <2>0
  <2>2. \A j \in 1..Len(s) : j = 1 /\ f = f + j - 1
    BY <2>0, <2>1
  <2>3. \A j \in 1..Len(s) : s[j] \in 1..Len(frags) /\ s[j] = s[1] + j - 1 /\ frags[s[j]].rec = frags[s[1]].rec
    BY <2>0, <2>1, <2>2
  <2>4. Collected(s, Q)
    BY <2>0, <2>1, <2>3 DEF Collected
  <2> QED  BY <2>1, <2>4
<1>13. ASSUME NEW s, s = reader.scratch \o <<f>>, p.type \in {"middle", "last"}, reader.inFrag
       PROVE  s \in Seq(Nat) /\ Collected(s, Q) /\ s[Len(s)] = f /\ frags[f].rec = frags[s[1]].rec
  <2>1. Collected(reader.scratch, P)
    BY <1>0, <1>13 DEF ReadInv, P
  <2> QED  BY <1>0, <1>1, <1>13, <2>1, CollectedMore DEF P, R, Q, f
<1>14. CASE ~reader'.inFrag /\ got' = got
  BY <1>10, <1>14
<1>15. CASE /\ p.type = "first" /\ got' = got
            /\ reader'.inFrag /\ ~reader'.resync /\ reader'.scratch = <<f>>
  BY <1>10, <1>12, <1>15
<1>16. CASE /\ p.type = "middle" /\ reader.inFrag /\ got' = got
            /\ reader'.inFrag /\ ~reader'.resync /\ reader'.scratch = reader.scratch \o <<f>>
  BY <1>10, <1>13, <1>16
<1>17. CASE p.type = "full" /\ ~reader'.inFrag /\ got' = Append(got, <<f>>)
  <2>1. Ends(f)
    BY <1>8, <1>17 DEF Ends
  <2> QED  BY <1>11, <1>12, <1>17, <2>1
<1>18. CASE /\ p.type = "last" /\ reader.inFrag /\ ~reader'.inFrag
            /\ got' = Append(got, reader.scratch \o <<f>>)
  <2>1. Ends(f)
    BY <1>8, <1>18 DEF Ends
  <2> QED  BY <1>11, <1>13, <1>18, <2>1
<1> QED  BY <1>1, <1>14, <1>15, <1>16, <1>17, <1>18 DEF ReadOutcome, f

(* The end of the log, a failed read, the log opened again.                *)
LEMMA OtherSteps ==
  ASSUME LogInv, ReadToEnd \/ ReadFails \/ Reopen
  PROVE  LogInv'
<1>0. LogTypes /\ OnDisk /\ BufferOK(reader) /\ ReadInv /\ GotInv
  BY DEF LogInv
<1>1. UNCHANGED <<disk, synced, frags, recs, got, offset, torn, skewed>> /\ phase \in {"reading", "done"}
  BY DEF ReadToEnd, ReadFails, Reopen
<1>2. GotInv'
  <2>1. \A i : RecordRead(i)' = RecordRead(i)
    BY <1>1 DEF RecordRead
  <2>2. got' = got /\ frags' = frags /\ recs' = recs
    BY <1>1
  <2> QED  BY <1>0, <2>1, <2>2 DEF GotInv
<1>3. ASSUME writer' \in WriterType, writer'.rec = 0, reader' \in ReaderType, BufferOK(reader)', reports' \in Nat,
             phase' \in {"writing", "done"}
      PROVE  LogInv'
  <2>1. OnDisk'
    BY <1>0, <1>1, <1>3, OnDiskKept
  <2>2. LogTypes'
    BY <1>0, <1>1, <1>3 DEF LogTypes
  <2>3. ReadInv'
    BY <1>3 DEF ReadInv
  <2> QED  BY <1>2, <1>3, <2>1, <2>2, <2>3 DEF LogInv
<1>4. writer \in WriterType /\ writer.rec = 0 /\ reader \in ReaderType /\ reports \in Nat
  BY <1>0, <1>1 DEF LogTypes, OnDisk, WriterInv
<1>5. reader' = reader => BufferOK(reader)'
  BY <1>0, <1>1 DEF BufferOK, Parsed
<1>6. CASE ReadToEnd
  <2> DEFINE r == Refill(reader)
  <2>1. PICK p \in ReadPhysicalRecord(r) : reader' = p.r
    BY <1>6 DEF ReadToEnd
  <2> HIDE DEF r
  <2>2. r \in ReaderType /\ BufferOK(r) /\ BytesInv
    BY <1>0, RefillFacts DEF r, OnDisk
  <2>3. p.r \in ReaderType /\ BufferOK(p.r)
    BY <1>0, <2>2, PhysicalRecord DEF PhysicalOK
  <2>4. BufferOK(reader)'
    BY <1>1, <2>1, <2>3 DEF BufferOK, Parsed
  <2>5. writer' = writer /\ reports' = reports /\ phase' = "done"
    BY <1>6 DEF ReadToEnd
  <2> QED  BY <1>3, <1>4, <2>1, <2>3, <2>4, <2>5
<1>7. CASE ReadFails
  <2>1. writer' = writer /\ reader' = reader /\ phase' = "done" /\ reports' \in Nat
    BY <1>4, <1>7 DEF ReadFails, Reported
  <2> QED  BY <1>3, <1>4, <1>5, <2>1
<1>8. CASE Reopen
  <2>1. reader' = reader /\ phase' = "writing" /\ reports' = reports /\ writer' = Idle(Len(disk) % B)
    BY <1>8 DEF Reopen
  <2>2. Len(disk) % B \in 0..B
    BY <1>0, LogAssumption DEF LogTypes
  <2>3. writer' \in WriterType /\ writer'.rec = 0
    BY <2>1, <2>2 DEF Idle, WriterType
  <2> QED  BY <1>3, <1>4, <1>5, <2>1, <2>3
<1> QED  BY <1>6, <1>7, <1>8

-----------------------------------------------------------------------------
(* The invariant is kept by every step.                                    *)
LEMMA LogNextInv == LogInv /\ [LogNext]_logVars => LogInv'
<1> SUFFICES ASSUME LogInv, [LogNext]_logVars PROVE LogInv'
  OBVIOUS
<1>1. ASSUME NEW n \in Sizes, AddRecord(n) PROVE LogInv'
  BY <1>1, AddRecordStep
<1>2. ASSUME NEW k \in 0..(2 * B), EmitPhysicalRecord(k) PROVE LogInv'
  <2>1. k \in Nat
    BY LogAssumption
  <2> QED  BY <1>2, <2>1, EmitStep
<1>3. CASE Sync
  BY <1>3, SyncStep
<1>4. ASSUME NEW n \in 0..Len(disk), NEW o \in Offsets, Crash(n, o) PROVE LogInv'
  BY <1>4, CrashStep
<1>5. CASE ReadRecord
  BY <1>5, ReadRecordStep
<1>6. CASE ReadToEnd \/ ReadFails \/ Reopen
  BY <1>6, OtherSteps
<1>7. CASE UNCHANGED logVars
  <2>1. /\ disk' = disk /\ synced' = synced /\ frags' = frags /\ recs' = recs /\ writer' = writer /\ reader' = reader
        /\ got' = got /\ reports' = reports /\ offset' = offset /\ phase' = phase /\ torn' = torn /\ skewed' = skewed
    BY <1>7 DEF logVars
  <2>2. LogTypes'
    BY <2>1 DEF LogInv, LogTypes
  <2>3. OnDisk'
    <3>1. BytesInv' /\ FragsInv' /\ RecsInv'
      BY <2>1 DEF LogInv, OnDisk, BytesInv, Size, FragsInv, Starts, Ends, RecsInv
    <3>2. \A f : (Whole(f)' <=> Whole(f)) /\ (Ends(f)' <=> Ends(f))
      BY <2>1 DEF Whole, Size, Ends
    <3>3. WriterInv' /\ StateInv'
      BY <2>1, <3>2 DEF LogInv, OnDisk, WriterInv, StateInv
    <3> QED  BY <3>1, <3>3 DEF OnDisk
  <2>4. BufferOK(reader)'
    BY <2>1 DEF LogInv, BufferOK, Parsed
  <2>5. \A i : RecordRead(i)' = RecordRead(i)
    BY <2>1 DEF RecordRead
  <2>6. GotInv'
    BY <2>1, <2>5 DEF LogInv, GotInv
  <2>7. Collected(reader.scratch, Parsed(reader))' <=> Collected(reader.scratch, Parsed(reader))
    BY <2>1 DEF Collected, Starts, Size, Parsed
  <2>8. Parsed(reader)' = Parsed(reader)
    BY <2>1 DEF Parsed
  <2>9. ReadInv'
    BY <2>1, <2>5, <2>7, <2>8 DEF LogInv, ReadInv
  <2> QED  BY <2>2, <2>3, <2>4, <2>6, <2>9 DEF LogInv
<1> QED  BY <1>1, <1>2, <1>3, <1>4, <1>5, <1>6, <1>7 DEF LogNext

(* Whatever was torn, lost or misplaced: the file, the writer and the      *)
(* reader are well-formed, and what log::Reader::ReadRecord returns are    *)
(* records that were added, whole, each once and in their order.           *)
THEOREM LogIsRight == LogSpec => []LogOK
<1>1. LogInv => LogOK
  <2> SUFFICES ASSUME LogInv PROVE LogOK
    OBVIOUS
  <2>1. LogTypeOK
    BY LogTypesImply
  <2>2. DOMAIN got = 1..Len(got)
    BY DEF LogInv, LogTypes
  <2>3. OnlyWholeRecords
    BY <2>2 DEF LogInv, GotInv, OnlyWholeRecords
  <2> QED  BY <2>1, <2>3 DEF LogOK
<1>2. LogInit => LogInv
  BY LogInitInv
<1>3. LogInv /\ [LogNext]_logVars => LogInv'
  BY LogNextInv
<1> QED  BY <1>1, <1>2, <1>3, PTL DEF LogSpec
=============================================================================
