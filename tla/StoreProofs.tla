---------------------------- MODULE StoreProofs -----------------------------
(***************************************************************************)
(* What the app keeps on disk.  First, what its boxes guarantee for any    *)
(* quotes, any number of calls in flight, and any history of starts, kills *)
(* and closed windows, and what the Windows runner around them does with   *)
(* its window, its class and its engine; then the background images.       *)
(***************************************************************************)
EXTENDS WinRunner, BackgroundImage, Integers, Sequences, FiniteSets, FiniteSetTheorems,
        WellFoundedInduction, TLAPS

(* What the head and the tail of a queue are.                              *)
LEMMA TailFacts ==
    ASSUME NEW S, NEW q \in Seq(S), q # <<>>
    PROVE  /\ Len(q) \in Nat \ {0} /\ 1 \in DOMAIN q /\ Head(q) = q[1] /\ q[1] \in S
           /\ Tail(q) \in Seq(S) /\ Len(Tail(q)) = Len(q) - 1
           /\ DOMAIN Tail(q) = 1..(Len(q) - 1)
           /\ \A i \in DOMAIN Tail(q) :
                 i \in Nat \ {0} /\ i + 1 \in DOMAIN q /\ Tail(q)[i] = q[i + 1]
           /\ \A i \in DOMAIN q :
                 /\ i \in Nat \ {0}
                 /\ i # 1 => i > 1 /\ i - 1 \in DOMAIN Tail(q) /\ Tail(q)[i - 1] = q[i]
           /\ Len(q) = 1 => Tail(q) = <<>> /\ \A i \in DOMAIN q : i = 1
<1>1. /\ Len(q) \in Nat \ {0} /\ 1 \in DOMAIN q /\ Head(q) = q[1] /\ q[1] \in S
      /\ Tail(q) \in Seq(S) /\ Len(Tail(q)) = Len(q) - 1
      /\ DOMAIN q = 1..Len(q) /\ DOMAIN Tail(q) = 1..(Len(q) - 1)
      /\ \A i \in DOMAIN Tail(q) : Tail(q)[i] = q[i + 1]
  OBVIOUS
<1>2. Len(q) = 1 => Tail(q) = <<>>
  BY <1>1
<1> QED  BY <1>1, <1>2

(* What an item added to a queue changes.                                  *)
LEMMA AppendFacts ==
    ASSUME NEW S, NEW q \in Seq(S), NEW f \in S
    PROVE  /\ Append(q, f) \in Seq(S) /\ Len(Append(q, f)) = Len(q) + 1 /\ Len(q) \in Nat
           /\ DOMAIN Append(q, f) = 1..(Len(q) + 1) /\ DOMAIN q = 1..Len(q)
           /\ DOMAIN Append(q, f) = DOMAIN q \cup {Len(q) + 1}
           /\ \A i \in DOMAIN q : /\ i \in Nat /\ i < Len(q) + 1
                                  /\ i \in DOMAIN Append(q, f) /\ Append(q, f)[i] = q[i]
           /\ Append(q, f)[Len(q) + 1] = f
<1>1. /\ Append(q, f) \in Seq(S) /\ Len(Append(q, f)) = Len(q) + 1 /\ Len(q) \in Nat
      /\ DOMAIN Append(q, f) = 1..(Len(q) + 1) /\ DOMAIN q = 1..Len(q)
      /\ \A i \in DOMAIN q : Append(q, f)[i] = q[i]
      /\ Append(q, f)[Len(q) + 1] = f
  OBVIOUS
<1> QED  BY <1>1

(* A set of natural numbers that is not empty has a least element.         *)
LEMMA NatMinimum ==
    ASSUME NEW T, T \subseteq Nat, T # {}
    PROVE  \E x \in T : \A y \in T : x <= y
<1> DEFINE R == OpToRel(<, Nat)
<1>1. IsWellFoundedOn(R, Nat)
  BY NatLessThanWellFounded
<1>2. \A x, y \in Nat : x < y => <<x, y>> \in R
  BY DEF OpToRel
<1> HIDE DEF R
<1>3. PICK x \in T : \A y \in T : ~(<<y, x>> \in R)
  BY <1>1, WFMin
<1>4. \A y \in T : ~(y < x)
  BY <1>2, <1>3
<1>5. \A y \in T : y \in Nat /\ x \in Nat
  OBVIOUS
<1> QED  BY <1>4, <1>5

-----------------------------------------------------------------------------

(* Of the frames of a box that is read as m and whose file is d: the last  *)
(* one for a key has the key's value; without one the file has it.         *)
LastWins(d, m, q) ==
    \A k \in Ids :
        /\ (\A i \in DOMAIN q : q[i].key # k) => d[k] = m[k]
        /\ \A i \in DOMAIN q :
              q[i].key = k /\ (\A j \in DOMAIN q : j > i => q[j].key # k) => q[i].val = m[k]

(* A quote gains an affirmation and never loses it: in the file, then in   *)
(* the frames on their way to it, then in memory.                          *)
Monotone(d, m, q) ==
    \A k \in Ids :
        /\ d[k] = "affirmed" => m[k] = "affirmed"
        /\ m[k] = "absent" => d[k] = "absent"
        /\ \A i \in DOMAIN q : q[i].key = k =>
              /\ m[k] # "absent"
              /\ q[i].val = "affirmed" => m[k] = "affirmed"
              /\ d[k] = "affirmed" => q[i].val = "affirmed"
              /\ \A j \in DOMAIN q :
                    q[j].key = k /\ i < j /\ q[i].val = "affirmed" => q[j].val = "affirmed"

(* Whoever has a frame on its way waits for it, and has no other.          *)
OwnersInv ==
    \A b, c \in Boxes : \A i \in DOMAIN queue[b], j \in DOMAIN queue[c] :
        /\ queue[b][i].by \in busy
        /\ queue[b][i].by = queue[c][j].by => b = c /\ i = j

OnlyMaps(c) == \A k \in Ids : c[k] \in {"absent", "map"}
NoMaps(c) == \A k \in Ids : c[k] # "map"

NoFrames == queue["quotes"] = <<>> /\ queue["favorites"] = <<>> /\ busy = {}

(* Old and new formats are never mixed.  A start is alone with the boxes;  *)
(* its clear is the only frame while it lasts.                             *)
StartInv ==
    /\ phase \in {"down", "opened"} =>
          NoFrames /\ (OnlyMaps(disk["quotes"]) \/ NoMaps(disk["quotes"]))
    /\ phase \in {"opened", "clearing"} => mem = disk
    /\ phase = "clearing" =>
          /\ queue["favorites"] = <<>> /\ busy \subseteq {Boot} /\ OnlyMaps(disk["quotes"])
          /\ \/ Len(queue["quotes"]) = 1 /\ queue["quotes"][1].key = All
             \/ queue["quotes"] = <<>> /\ disk["quotes"] = Empty
    /\ phase = "seeding" => \A k \in Ids : mem["quotes"][k] # "affirmed"

(* The boxes in the new format: no value is old, none is on its way out,   *)
(* and memory, frames and files agree.                                     *)
BoxesInv ==
    /\ NoMaps(mem["quotes"]) /\ NoMaps(disk["quotes"])
    /\ \A i \in DOMAIN queue["quotes"] : /\ queue["quotes"][i].key \in Ids
                                         /\ queue["quotes"][i].val \in {"quote", "affirmed"}
    /\ \A i \in DOMAIN queue["favorites"] : queue["favorites"][i].key \in Ids
    /\ \A b \in Boxes : LastWins(disk[b], mem[b], queue[b])
    /\ Monotone(disk["quotes"], mem["quotes"], queue["quotes"])

(* From the first seeded quote on there is always one.                     *)
FilledInv == phase \in {"seeding", "up"} => Present(mem["quotes"]) # {} /\ BoxesInv

StoreInv == TypeOK /\ OwnersInv /\ StartInv /\ FilledInv

-----------------------------------------------------------------------------
(* The values of a box's keys.                                             *)
Values(b) == IF b = "quotes" THEN QuoteValues ELSE FavoriteValues

(* A put makes its frame the last one of its key.                          *)
LEMMA PutLast ==
    ASSUME NEW V, NEW d, NEW m \in [Ids -> V], NEW q \in Seq(Frames(V)),
           NEW f \in Frames(V), f.key \in Ids, LastWins(d, m, q)
    PROVE  LastWins(d, [m EXCEPT ![f.key] = f.val], Append(q, f))
<1> DEFINE m2 == [m EXCEPT ![f.key] = f.val]
           p == Append(q, f)
           n == Len(q) + 1
<1>1. /\ DOMAIN p = DOMAIN q \cup {n} /\ n \in Nat
      /\ \A i \in DOMAIN q : i \in Nat /\ i < n /\ p[i] = q[i]
      /\ p[n] = f
  BY AppendFacts
<1>2. \A k \in Ids : m2[k] = IF k = f.key THEN f.val ELSE m[k]
  OBVIOUS
<1> HIDE DEF m2, p, n
<1>3. ASSUME NEW k \in Ids, \A i \in DOMAIN p : p[i].key # k PROVE d[k] = m2[k]
  <2>1. k # f.key /\ \A i \in DOMAIN q : q[i].key # k
    BY <1>1, <1>3
  <2> QED  BY <1>2, <2>1 DEF LastWins
<1>4. ASSUME NEW k \in Ids, NEW i \in DOMAIN p, p[i].key = k,
             \A j \in DOMAIN p : j > i => p[j].key # k
      PROVE  p[i].val = m2[k]
  <2>1. CASE i = n
    BY <1>1, <1>2, <1>4, <2>1
  <2>2. CASE i # n
    <3>1. i \in DOMAIN q /\ n > i /\ p[i] = q[i]
      BY <1>1, <2>2
    <3>2. k # f.key
      BY <1>1, <1>4, <3>1
    <3>3. \A j \in DOMAIN q : j > i => q[j].key # k
      BY <1>1, <1>4
    <3> QED  BY <1>2, <1>4, <3>1, <3>2, <3>3 DEF LastWins
  <2> QED  BY <2>1, <2>2
<1>5. LastWins(d, m2, p)
  BY <1>3, <1>4 DEF LastWins
<1> QED  BY <1>5 DEF m2, p

(* The oldest frame reaches the file.                                      *)
LEMMA FlushLast ==
    ASSUME NEW V, NEW d \in [Ids -> V], NEW m, NEW q \in Seq(Frames(V)), q # <<>>,
           q[1].key \in Ids, LastWins(d, m, q)
    PROVE  LastWins([d EXCEPT ![q[1].key] = q[1].val], m, Tail(q))
<1> DEFINE d2 == [d EXCEPT ![q[1].key] = q[1].val]
           p == Tail(q)
<1>1. /\ 1 \in DOMAIN q
      /\ \A i \in DOMAIN p : i \in Nat /\ i + 1 \in DOMAIN q /\ p[i] = q[i + 1]
      /\ \A i \in DOMAIN q : i \in Nat
      /\ \A i \in DOMAIN q : i # 1 => i > 1 /\ i - 1 \in DOMAIN p /\ p[i - 1] = q[i]
  BY TailFacts
<1>2. \A k \in Ids : d2[k] = IF k = q[1].key THEN q[1].val ELSE d[k]
  OBVIOUS
<1> HIDE DEF d2, p
<1>3. ASSUME NEW k \in Ids, \A i \in DOMAIN p : p[i].key # k PROVE d2[k] = m[k]
  <2>1. \A i \in DOMAIN q : i # 1 => q[i].key # k
    BY <1>1, <1>3
  <2>2. CASE q[1].key = k
    <3>1. \A j \in DOMAIN q : j > 1 => q[j].key # k
      BY <2>1
    <3> QED  BY <1>1, <1>2, <2>2, <3>1 DEF LastWins
  <2>3. CASE q[1].key # k
    BY <1>2, <2>1, <2>3 DEF LastWins
  <2> QED  BY <2>2, <2>3
<1>4. ASSUME NEW k \in Ids, NEW i \in DOMAIN p, p[i].key = k,
             \A j \in DOMAIN p : j > i => p[j].key # k
      PROVE  p[i].val = m[k]
  <2>1. i + 1 \in DOMAIN q /\ p[i] = q[i + 1] /\ i \in Nat
    BY <1>1
  <2>2. ASSUME NEW j \in DOMAIN q, j > i + 1 PROVE q[j].key # k
    <3>1. j \in Nat /\ j # 1
      BY <1>1, <2>1, <2>2
    <3>2. j - 1 \in DOMAIN p /\ p[j - 1] = q[j] /\ j - 1 > i
      BY <1>1, <2>1, <2>2, <3>1
    <3> QED  BY <1>4, <3>2
  <2> QED  BY <1>4, <2>1, <2>2 DEF LastWins
<1>5. LastWins(d2, m, p)
  BY <1>3, <1>4 DEF LastWins
<1> QED  BY <1>5 DEF d2, p

(* A quote is put over one that has no affirmation, an affirmed one over   *)
(* any.                                                                    *)
LEMMA PutMonotone ==
    ASSUME NEW d, NEW m \in [Ids -> QuoteValues], NEW q \in Seq(Frames(QuoteValues)),
           NEW f \in Frames(QuoteValues), f.key \in Ids, Monotone(d, m, q),
           f.val = "affirmed" \/ (f.val = "quote" /\ m[f.key] # "affirmed")
    PROVE  Monotone(d, [m EXCEPT ![f.key] = f.val], Append(q, f))
<1> DEFINE m2 == [m EXCEPT ![f.key] = f.val]
           p == Append(q, f)
           n == Len(q) + 1
<1>1. /\ DOMAIN p = DOMAIN q \cup {n} /\ n \in Nat
      /\ \A i \in DOMAIN q : i \in Nat /\ i < n /\ p[i] = q[i]
      /\ p[n] = f
  BY AppendFacts
<1>2. \A k \in Ids : m2[k] = IF k = f.key THEN f.val ELSE m[k]
  OBVIOUS
<1> HIDE DEF m2, p, n
<1>3. ASSUME NEW k \in Ids
      PROVE  (d[k] = "affirmed" => m2[k] = "affirmed") /\ (m2[k] = "absent" => d[k] = "absent")
  BY <1>2 DEF Monotone
<1>4. ASSUME NEW k \in Ids, NEW i \in DOMAIN p, p[i].key = k
      PROVE  /\ m2[k] # "absent"
             /\ p[i].val = "affirmed" => m2[k] = "affirmed"
             /\ d[k] = "affirmed" => p[i].val = "affirmed"
             /\ \A j \in DOMAIN p :
                   p[j].key = k /\ i < j /\ p[i].val = "affirmed" => p[j].val = "affirmed"
  <2>1. CASE i = n
    <3>1. \A j \in DOMAIN p : ~(i < j)
      BY <1>1, <2>1
    <3> QED  BY <1>1, <1>2, <1>4, <2>1, <3>1 DEF Monotone
  <2>2. CASE i # n
    <3>1. i \in DOMAIN q /\ p[i] = q[i]
      BY <1>1, <2>2
    <3>2. ASSUME NEW j \in DOMAIN p, p[j].key = k, i < j, p[i].val = "affirmed"
          PROVE  p[j].val = "affirmed"
      <4>1. CASE j = n
        BY <1>1, <1>4, <3>1, <3>2, <4>1 DEF Monotone
      <4>2. CASE j # n
        BY <1>1, <1>4, <3>1, <3>2, <4>2 DEF Monotone
      <4> QED  BY <4>1, <4>2
    <3> QED  BY <1>2, <1>4, <3>1, <3>2 DEF Monotone
  <2> QED  BY <2>1, <2>2
<1>5. Monotone(d, m2, p)
  BY <1>3, <1>4 DEF Monotone
<1> QED  BY <1>5 DEF m2, p

(* Writing the oldest queued frame to the file leaves the rest of the      *)
(* queue as monotone as it was.                                            *)
LEMMA FlushMonotone ==
    ASSUME NEW d \in [Ids -> QuoteValues], NEW m, NEW q \in Seq(Frames(QuoteValues)), q # <<>>,
           q[1].key \in Ids, q[1].val \in {"quote", "affirmed"}, Monotone(d, m, q)
    PROVE  Monotone([d EXCEPT ![q[1].key] = q[1].val], m, Tail(q))
<1> DEFINE d2 == [d EXCEPT ![q[1].key] = q[1].val]
           p == Tail(q)
<1>1. /\ 1 \in DOMAIN q
      /\ \A i \in DOMAIN p : i \in Nat \ {0} /\ i + 1 \in DOMAIN q /\ p[i] = q[i + 1]
  BY TailFacts
<1>2. \A k \in Ids : d2[k] = IF k = q[1].key THEN q[1].val ELSE d[k]
  OBVIOUS
<1> HIDE DEF d2, p
<1>3. ASSUME NEW k \in Ids
      PROVE  (d2[k] = "affirmed" => m[k] = "affirmed") /\ (m[k] = "absent" => d2[k] = "absent")
  BY <1>1, <1>2 DEF Monotone
<1>4. ASSUME NEW k \in Ids, NEW i \in DOMAIN p, p[i].key = k
      PROVE  /\ m[k] # "absent"
             /\ p[i].val = "affirmed" => m[k] = "affirmed"
             /\ d2[k] = "affirmed" => p[i].val = "affirmed"
             /\ \A j \in DOMAIN p :
                   p[j].key = k /\ i < j /\ p[i].val = "affirmed" => p[j].val = "affirmed"
  <2>2. i + 1 \in DOMAIN q /\ p[i] = q[i + 1] /\ 1 < i + 1 /\ i \in Nat
    BY <1>1
  <2>3. d2[k] = "affirmed" => p[i].val = "affirmed"
    BY <1>1, <1>2, <1>4, <2>2 DEF Monotone
  <2>4. ASSUME NEW j \in DOMAIN p, p[j].key = k, i < j, p[i].val = "affirmed"
        PROVE  p[j].val = "affirmed"
    <3>1. j + 1 \in DOMAIN q /\ p[j] = q[j + 1] /\ i + 1 < j + 1
      BY <1>1, <2>2, <2>4
    <3> QED  BY <1>4, <2>2, <2>4, <3>1 DEF Monotone
  <2> QED  BY <1>4, <2>2, <2>3, <2>4 DEF Monotone
<1>5. Monotone(d2, m, p)
  BY <1>3, <1>4 DEF Monotone
<1> QED  BY <1>5 DEF d2, p

(* getAt(0): a box that holds old values only, and some, is recognised.    *)
LEMMA OldFormatFound ==
    ASSUME NEW c, OnlyMaps(c), Present(c) # {}
    PROVE  OldFormat(c)
<1>1. Present(c) \subseteq Nat
  BY IdsAssumption DEF Present
<1>2. \E k \in Present(c) : \A j \in Present(c) : k <= j
  BY <1>1, NatMinimum
<1> QED  BY <1>2 DEF OldFormat, OnlyMaps, Present

-----------------------------------------------------------------------------
(* What a put does to the boxes and to the frames' owners.                 *)
LEMMA IssueStep ==
    ASSUME TypeOK, OwnersInv, NEW b \in Boxes, NEW f \in Frames(Values(b)),
           f.by \notin busy, Issue(b, f)
    PROVE  /\ mem' \in Contents /\ busy' \subseteq Owners /\ OwnersInv'
           /\ queue' \in [quotes : Seq(Frames(QuoteValues)),
                          favorites : Seq(Frames(FavoriteValues))]
           /\ queue'[b] = Append(queue[b], f)
           /\ f.key \in Ids => mem'[b] = [mem[b] EXCEPT ![f.key] = f.val]
           /\ f.key = All => mem' = mem
           /\ \A c \in Boxes : c # b => mem'[c] = mem[c] /\ queue'[c] = queue[c]
           /\ busy' = busy \cup {f.by}
<1>1. /\ mem \in Contents /\ busy \subseteq Owners
      /\ queue \in [quotes : Seq(Frames(QuoteValues)), favorites : Seq(Frames(FavoriteValues))]
      /\ b = "quotes" \/ b = "favorites"
  BY DEF TypeOK, Boxes
<1>2. /\ f.key \in Ids \cup {All} /\ f.val \in Values(b) /\ f.by \in Owners
  BY DEF Frames
<1>3. /\ f.key \in Ids => mem' = [mem EXCEPT ![b] = [mem[b] EXCEPT ![f.key] = f.val]]
      /\ f.key = All => mem' = [mem EXCEPT ![b] = mem[b]]
  BY AllAssumption DEF Issue, Apply
<1>4. mem[b] \in [Ids -> Values(b)] /\ queue[b] \in Seq(Frames(Values(b)))
  BY <1>1 DEF Contents, Values
<1>5. f.key \in Ids => [mem[b] EXCEPT ![f.key] = f.val] \in [Ids -> Values(b)]
  BY <1>2, <1>4
<1>6. /\ Append(queue[b], f) \in Seq(Frames(Values(b)))
      /\ DOMAIN Append(queue[b], f) = DOMAIN queue[b] \cup {Len(queue[b]) + 1}
      /\ \A i \in DOMAIN queue[b] :
            i < Len(queue[b]) + 1 /\ i \in Nat /\ Append(queue[b], f)[i] = queue[b][i]
      /\ Append(queue[b], f)[Len(queue[b]) + 1] = f
  BY <1>4, AppendFacts
<1>7. /\ mem' \in Contents
      /\ f.key \in Ids => mem'[b] = [mem[b] EXCEPT ![f.key] = f.val]
      /\ f.key = All => mem' = mem
      /\ \A c \in Boxes : c # b => mem'[c] = mem[c]
  <2>1. CASE b = "quotes"
    BY <1>1, <1>2, <1>3, <1>4, <1>5, <2>1 DEF Contents, Boxes, Values
  <2>2. CASE b = "favorites"
    BY <1>1, <1>2, <1>3, <1>4, <1>5, <2>2 DEF Contents, Boxes, Values
  <2> QED  BY <1>1, <2>1, <2>2
<1>8. /\ queue' \in [quotes : Seq(Frames(QuoteValues)), favorites : Seq(Frames(FavoriteValues))]
      /\ queue'[b] = Append(queue[b], f)
      /\ \A c \in Boxes : c # b => queue'[c] = queue[c]
  <2>1. CASE b = "quotes"
    BY <1>1, <1>6, <2>1 DEF Issue, Boxes, Values
  <2>2. CASE b = "favorites"
    BY <1>1, <1>6, <2>2 DEF Issue, Boxes, Values
  <2> QED  BY <1>1, <2>1, <2>2
<1>9. busy' = busy \cup {f.by} /\ busy' \subseteq Owners
  BY <1>1, <1>2 DEF Issue
<1>10. OwnersInv'
  <2> DEFINE n == Len(queue[b]) + 1
  <2>1. \A c \in Boxes : \A i \in DOMAIN queue'[c] :
            \/ i \in DOMAIN queue[c] /\ queue'[c][i] = queue[c][i]
               /\ queue'[c][i].by \in busy /\ (c = b => i # n)
            \/ c = b /\ i = n /\ queue'[c][i] = f
    BY <1>6, <1>8, SMTT(30) DEF OwnersInv
  <2> HIDE DEF n
  <2> QED  BY <1>9, <2>1 DEF OwnersInv
<1> QED  BY <1>7, <1>8, <1>9, <1>10

(* What a frame that reaches the disk does.                                *)
LEMMA FlushStep ==
    ASSUME TypeOK, OwnersInv, NEW b \in Boxes, Flush(b)
    PROVE  /\ TypeOK' /\ OwnersInv' /\ phase' = phase /\ seeded' = seeded
           /\ queue[b] # <<>> /\ queue[b] \in Seq(Frames(Values(b)))
           /\ 1 \in DOMAIN queue[b] /\ queue[b][1].by \in busy
           /\ queue'[b] = Tail(queue[b]) /\ busy' = busy \ {queue[b][1].by}
           /\ queue[b][1].key \in Ids =>
                 mem' = mem /\ disk'[b] = [disk[b] EXCEPT ![queue[b][1].key] = queue[b][1].val]
           /\ queue[b][1].key = All => mem'[b] = Empty /\ disk'[b] = Empty
           /\ \A c \in Boxes : c # b => /\ disk'[c] = disk[c] /\ mem'[c] = mem[c]
                                        /\ queue'[c] = queue[c]
<1> DEFINE f == queue[b][1]
<1>1. /\ mem \in Contents /\ disk \in Contents /\ busy \subseteq Owners
      /\ queue \in [quotes : Seq(Frames(QuoteValues)), favorites : Seq(Frames(FavoriteValues))]
      /\ b = "quotes" \/ b = "favorites"
  BY DEF TypeOK, Boxes
<1>2. /\ mem[b] \in [Ids -> Values(b)] /\ disk[b] \in [Ids -> Values(b)]
      /\ queue[b] \in Seq(Frames(Values(b))) /\ queue[b] # <<>>
  BY <1>1 DEF Contents, Values, Flush
<1>3. /\ 1 \in DOMAIN queue[b] /\ Head(queue[b]) = f /\ f \in Frames(Values(b))
      /\ Tail(queue[b]) \in Seq(Frames(Values(b)))
      /\ \A i \in DOMAIN Tail(queue[b]) : /\ i \in Nat \ {0} /\ i + 1 \in DOMAIN queue[b]
                                          /\ Tail(queue[b])[i] = queue[b][i + 1]
  BY <1>2, TailFacts
<1>4. f.key \in Ids \cup {All} /\ f.val \in Values(b)
  BY <1>3 DEF Frames
<1> HIDE DEF f
<1>5. /\ f.key \in Ids => /\ disk' = [disk EXCEPT ![b] = [disk[b] EXCEPT ![f.key] = f.val]]
                          /\ mem' = [mem EXCEPT ![b] = mem[b]]
      /\ f.key = All => /\ disk' = [disk EXCEPT ![b] = Empty]
                        /\ mem' = [mem EXCEPT ![b] = Empty]
  BY <1>3, AllAssumption DEF Flush, Apply
<1>6. Empty \in [Ids -> Values(b)]
  BY DEF Empty, Values, QuoteValues, FavoriteValues
<1>7. f.key \in Ids => [disk[b] EXCEPT ![f.key] = f.val] \in [Ids -> Values(b)]
  BY <1>2, <1>4
<1>8. /\ mem' \in Contents /\ disk' \in Contents
      /\ f.key \in Ids => mem' = mem /\ disk'[b] = [disk[b] EXCEPT ![f.key] = f.val]
      /\ f.key = All => mem'[b] = Empty /\ disk'[b] = Empty
      /\ \A c \in Boxes : c # b => disk'[c] = disk[c] /\ mem'[c] = mem[c]
  <2>1. CASE b = "quotes"
    BY <1>1, <1>2, <1>4, <1>5, <1>6, <1>7, <2>1 DEF Contents, Boxes, Values
  <2>2. CASE b = "favorites"
    BY <1>1, <1>2, <1>4, <1>5, <1>6, <1>7, <2>2 DEF Contents, Boxes, Values
  <2> QED  BY <1>1, <2>1, <2>2
<1>9. /\ queue' \in [quotes : Seq(Frames(QuoteValues)), favorites : Seq(Frames(FavoriteValues))]
      /\ queue'[b] = Tail(queue[b])
      /\ \A c \in Boxes : c # b => queue'[c] = queue[c]
  <2>1. CASE b = "quotes"
    BY <1>1, <1>3, <2>1 DEF Flush, Boxes, Values
  <2>2. CASE b = "favorites"
    BY <1>1, <1>3, <2>2 DEF Flush, Boxes, Values
  <2> QED  BY <1>1, <2>1, <2>2
<1>10. phase' = phase /\ seeded' = seeded /\ busy' = busy \ {f.by} /\ f.by \in busy
  BY <1>3 DEF Flush, OwnersInv, f
<1>11. TypeOK'
  BY <1>1, <1>8, <1>9, <1>10 DEF TypeOK
<1>12. OwnersInv'
  <2>1. ASSUME NEW c \in Boxes, NEW i \in DOMAIN queue'[c]
        PROVE  \E k \in DOMAIN queue[c] :
                  /\ k = (IF c = b THEN i + 1 ELSE i) /\ (c = b => i \in Nat \ {0})
                  /\ queue'[c][i] = queue[c][k] /\ queue[c][k].by \in busy
                  /\ queue[c][k].by # f.by
    <3>1. CASE c = b
      <4>1. i \in Nat \ {0} /\ i + 1 \in DOMAIN queue[b] /\ queue'[b][i] = queue[b][i + 1]
        BY <1>3, <1>9, <2>1, <3>1
      <4>2. i + 1 # 1
        BY <4>1
      <4>3. queue[b][i + 1].by \in busy /\ queue[b][i + 1].by # f.by
        BY <1>3, <4>1, <4>2 DEF OwnersInv, f
      <4> QED  BY <3>1, <4>1, <4>3
    <3>2. CASE c # b
      BY <1>3, <1>9, <2>1, <3>2 DEF OwnersInv, f
    <3> QED  BY <3>1, <3>2
  <2> SUFFICES ASSUME NEW c \in Boxes, NEW e \in Boxes,
                      NEW i \in DOMAIN queue'[c], NEW j \in DOMAIN queue'[e]
               PROVE  /\ queue'[c][i].by \in busy'
                      /\ queue'[c][i].by = queue'[e][j].by => c = e /\ i = j
    BY DEF OwnersInv
  <2>2. PICK k \in DOMAIN queue[c] :
           /\ k = (IF c = b THEN i + 1 ELSE i) /\ (c = b => i \in Nat \ {0})
           /\ queue'[c][i] = queue[c][k] /\ queue[c][k].by \in busy
           /\ queue[c][k].by # f.by
    BY <2>1
  <2>3. PICK l \in DOMAIN queue[e] :
           /\ l = (IF e = b THEN j + 1 ELSE j) /\ (e = b => j \in Nat \ {0})
           /\ queue'[e][j] = queue[e][l]
    BY <2>1
  <2>4. queue[c][k].by = queue[e][l].by => c = e /\ k = l
    BY DEF OwnersInv
  <2>5. c = e /\ k = l => i = j
    BY <2>2, <2>3
  <2> QED  BY <1>10, <2>2, <2>3, <2>4, <2>5
<1> QED  BY <1>2, <1>3, <1>8, <1>9, <1>10, <1>11, <1>12 DEF f

(* The boxes when no frame is on its way.                                  *)
LEMMA QuietBoxes ==
    ASSUME TypeOK, mem = disk, NoMaps(disk["quotes"]),
           queue["quotes"] = <<>>, queue["favorites"] = <<>>
    PROVE  BoxesInv
<1>1. DOMAIN queue["quotes"] = {} /\ DOMAIN queue["favorites"] = {}
  OBVIOUS
<1>2. \A b \in Boxes : LastWins(disk[b], mem[b], queue[b])
  BY <1>1 DEF LastWins, Boxes
<1>3. Monotone(disk["quotes"], mem["quotes"], queue["quotes"])
  BY <1>1 DEF Monotone
<1> QED  BY <1>1, <1>2, <1>3 DEF BoxesInv

(* A quote is put: by the seeding, addQuote or saveAffirmationToQuote.     *)
LEMMA PutQuote ==
    ASSUME TypeOK, OwnersInv, BoxesInv, NEW k \in Ids, NEW v \in {"quote", "affirmed"},
           v = "quote" => mem["quotes"][k] # "affirmed",
           NEW u \in Owners, u \notin busy, Put("quotes", k, v, u), disk' = disk
    PROVE  /\ mem' \in Contents /\ busy' \subseteq Owners /\ OwnersInv'
           /\ queue' \in [quotes : Seq(Frames(QuoteValues)),
                          favorites : Seq(Frames(FavoriteValues))]
           /\ mem'["quotes"] = [mem["quotes"] EXCEPT ![k] = v]
           /\ Present(mem'["quotes"]) # {} /\ BoxesInv'
<1> DEFINE f == [key |-> k, val |-> v, by |-> u]
<1>1. /\ f \in Frames(QuoteValues) /\ f.by \notin busy /\ Issue("quotes", f)
      /\ f.key = k /\ f.val = v
      /\ "quotes" \in Boxes /\ "favorites" \in Boxes /\ Values("quotes") = QuoteValues
  BY DEF Put, Frames, QuoteValues, Boxes, Values
<1> HIDE DEF f
<1>2. /\ mem' \in Contents /\ busy' \subseteq Owners /\ OwnersInv'
      /\ queue' \in [quotes : Seq(Frames(QuoteValues)), favorites : Seq(Frames(FavoriteValues))]
      /\ queue'["quotes"] = Append(queue["quotes"], f)
      /\ mem'["quotes"] = [mem["quotes"] EXCEPT ![k] = v]
      /\ mem'["favorites"] = mem["favorites"] /\ queue'["favorites"] = queue["favorites"]
  BY <1>1, IssueStep
<1>3. mem["quotes"] \in [Ids -> QuoteValues] /\ queue["quotes"] \in Seq(Frames(QuoteValues))
  BY DEF TypeOK, Contents
<1>4. LastWins(disk'["quotes"], mem'["quotes"], queue'["quotes"])
  <2>1. LastWins(disk["quotes"], mem["quotes"], queue["quotes"])
    BY <1>1 DEF BoxesInv
  <2>2. LastWins(disk["quotes"], [mem["quotes"] EXCEPT ![f.key] = f.val],
                 Append(queue["quotes"], f))
    BY <1>1, <1>3, <2>1, PutLast
  <2> QED  BY <1>1, <1>2, <2>2
<1>5. LastWins(disk'["favorites"], mem'["favorites"], queue'["favorites"])
  BY <1>1, <1>2 DEF BoxesInv
<1>6. Monotone(disk'["quotes"], mem'["quotes"], queue'["quotes"])
  <2>1. Monotone(disk["quotes"], mem["quotes"], queue["quotes"])
    BY DEF BoxesInv
  <2>2. Monotone(disk["quotes"], [mem["quotes"] EXCEPT ![f.key] = f.val],
                 Append(queue["quotes"], f))
    BY <1>1, <1>3, <2>1, PutMonotone
  <2> QED  BY <1>1, <1>2, <2>2
<1>7. NoMaps(mem'["quotes"]) /\ NoMaps(disk'["quotes"])
  BY <1>2, <1>3 DEF BoxesInv, NoMaps
<1>8. /\ \A i \in DOMAIN queue'["quotes"] : /\ queue'["quotes"][i].key \in Ids
                                            /\ queue'["quotes"][i].val \in {"quote", "affirmed"}
      /\ \A i \in DOMAIN queue'["favorites"] : queue'["favorites"][i].key \in Ids
  BY <1>1, <1>2, <1>3, AppendFacts DEF BoxesInv
<1>9. k \in Present(mem'["quotes"])
  BY <1>2, <1>3 DEF Present
<1> QED  BY <1>2, <1>4, <1>5, <1>6, <1>7, <1>8, <1>9 DEF BoxesInv, Boxes

(* A heart is tapped.                                                      *)
LEMMA PutFavorite ==
    ASSUME TypeOK, OwnersInv, BoxesInv, NEW k \in Ids, NEW v \in {"yes", "no"},
           NEW u \in Owners, u \notin busy, Put("favorites", k, v, u), disk' = disk
    PROVE  /\ mem' \in Contents /\ busy' \subseteq Owners /\ OwnersInv'
           /\ queue' \in [quotes : Seq(Frames(QuoteValues)),
                          favorites : Seq(Frames(FavoriteValues))]
           /\ mem'["quotes"] = mem["quotes"] /\ BoxesInv'
<1> DEFINE f == [key |-> k, val |-> v, by |-> u]
<1>1. /\ f \in Frames(FavoriteValues) /\ f.by \notin busy /\ Issue("favorites", f)
      /\ f.key = k /\ f.val = v
      /\ "quotes" \in Boxes /\ "favorites" \in Boxes /\ Values("favorites") = FavoriteValues
  BY DEF Put, Frames, FavoriteValues, Boxes, Values
<1> HIDE DEF f
<1>2. /\ mem' \in Contents /\ busy' \subseteq Owners /\ OwnersInv'
      /\ queue' \in [quotes : Seq(Frames(QuoteValues)), favorites : Seq(Frames(FavoriteValues))]
      /\ queue'["favorites"] = Append(queue["favorites"], f)
      /\ mem'["favorites"] = [mem["favorites"] EXCEPT ![k] = v]
      /\ mem'["quotes"] = mem["quotes"] /\ queue'["quotes"] = queue["quotes"]
  BY <1>1, IssueStep
<1>3. /\ mem["favorites"] \in [Ids -> FavoriteValues]
      /\ queue["favorites"] \in Seq(Frames(FavoriteValues))
  BY DEF TypeOK, Contents
<1>4. LastWins(disk'["favorites"], mem'["favorites"], queue'["favorites"])
  <2>1. LastWins(disk["favorites"], mem["favorites"], queue["favorites"])
    BY <1>1 DEF BoxesInv
  <2>2. LastWins(disk["favorites"], [mem["favorites"] EXCEPT ![f.key] = f.val],
                 Append(queue["favorites"], f))
    BY <1>1, <1>3, <2>1, PutLast
  <2> QED  BY <1>1, <1>2, <2>2
<1>5. LastWins(disk'["quotes"], mem'["quotes"], queue'["quotes"])
  BY <1>1, <1>2 DEF BoxesInv
<1>6. \A i \in DOMAIN queue'["favorites"] : queue'["favorites"][i].key \in Ids
  BY <1>1, <1>2, <1>3, AppendFacts DEF BoxesInv
<1> QED  BY <1>2, <1>4, <1>5, <1>6 DEF BoxesInv, Boxes

(* A frame of the new format reaches the disk.                             *)
LEMMA FlushBoxes ==
    ASSUME TypeOK, OwnersInv, BoxesInv, NEW b \in Boxes, Flush(b)
    PROVE  /\ TypeOK' /\ OwnersInv' /\ BoxesInv' /\ mem' = mem /\ phase' = phase
           /\ busy' \subseteq busy
           /\ \A k \in Ids :
                 /\ disk["quotes"][k] \in {"quote", "affirmed"} =>
                       disk'["quotes"][k] \in {"quote", "affirmed"}
                 /\ disk["quotes"][k] = "affirmed" => disk'["quotes"][k] = "affirmed"
<1> DEFINE f == queue[b][1]
<1>1. /\ TypeOK' /\ OwnersInv' /\ phase' = phase
      /\ queue[b] # <<>> /\ queue[b] \in Seq(Frames(Values(b)))
      /\ 1 \in DOMAIN queue[b]
      /\ queue'[b] = Tail(queue[b]) /\ busy' \subseteq busy
      /\ f.key \in Ids => mem' = mem /\ disk'[b] = [disk[b] EXCEPT ![f.key] = f.val]
      /\ \A c \in Boxes : c # b => disk'[c] = disk[c] /\ queue'[c] = queue[c]
  BY FlushStep
<1>2. b = "quotes" \/ b = "favorites"
  BY DEF Boxes
<1>3. f.key \in Ids /\ (b = "quotes" => f.val \in {"quote", "affirmed"})
  BY <1>1, <1>2 DEF BoxesInv
<1>4. mem' = mem /\ disk'[b] = [disk[b] EXCEPT ![f.key] = f.val]
  BY <1>1, <1>3
<1>5. disk[b] \in [Ids -> Values(b)] /\ disk["quotes"] \in [Ids -> QuoteValues]
  BY <1>2 DEF TypeOK, Contents, Values
<1>6. \A c \in Boxes : LastWins(disk'[c], mem'[c], queue'[c])
  <2>1. LastWins(disk[b], mem[b], queue[b])
    BY DEF BoxesInv
  <2>2. LastWins([disk[b] EXCEPT ![f.key] = f.val], mem[b], Tail(queue[b]))
    BY <1>1, <1>3, <1>5, <2>1, FlushLast
  <2>3. \A c \in Boxes : c # b => LastWins(disk'[c], mem'[c], queue'[c])
    BY <1>1, <1>4 DEF BoxesInv
  <2> QED  BY <1>1, <1>4, <2>2, <2>3
<1>7. \A c \in Boxes : \A i \in DOMAIN queue'[c] :
         \E j \in DOMAIN queue[c] : queue'[c][i] = queue[c][j]
  <2>1. \A i \in DOMAIN Tail(queue[b]) :
           i + 1 \in DOMAIN queue[b] /\ Tail(queue[b])[i] = queue[b][i + 1]
    BY <1>1, TailFacts
  <2>2. ASSUME NEW i \in DOMAIN queue'[b]
        PROVE  \E j \in DOMAIN queue[b] : queue'[b][i] = queue[b][j]
    BY <1>1, <2>1
  <2>3. ASSUME NEW c \in Boxes, c # b, NEW i \in DOMAIN queue'[c]
        PROVE  \E j \in DOMAIN queue[c] : queue'[c][i] = queue[c][j]
    BY <1>1, <2>3
  <2> QED  BY <2>2, <2>3
<1>8. CASE b = "quotes"
  <2>1. Values(b) = QuoteValues
    BY <1>8 DEF Values
  <2>2. Monotone(disk["quotes"], mem["quotes"], queue["quotes"])
    BY DEF BoxesInv
  <2>3. Monotone([disk["quotes"] EXCEPT ![f.key] = f.val], mem["quotes"], Tail(queue["quotes"]))
    BY <1>1, <1>3, <1>5, <1>8, <2>1, <2>2, FlushMonotone
  <2>4. Monotone(disk'["quotes"], mem'["quotes"], queue'["quotes"])
    BY <1>1, <1>4, <1>8, <2>3
  <2>5. \A k \in Ids :
          /\ disk["quotes"][k] \in {"quote", "affirmed"} =>
                disk'["quotes"][k] \in {"quote", "affirmed"}
          /\ disk["quotes"][k] = "affirmed" => disk'["quotes"][k] = "affirmed"
    BY <1>1, <1>3, <1>4, <1>5, <1>8, <2>2 DEF Monotone
  <2>6. NoMaps(disk'["quotes"])
    BY <1>3, <1>4, <1>5, <1>8 DEF NoMaps, BoxesInv
  <2> QED  BY <1>1, <1>4, <1>6, <1>7, <2>4, <2>5, <2>6 DEF BoxesInv, Boxes
<1>9. CASE b = "favorites"
  <2>1. disk'["quotes"] = disk["quotes"] /\ queue'["quotes"] = queue["quotes"]
    BY <1>1, <1>9 DEF Boxes
  <2> QED  BY <1>1, <1>4, <1>6, <1>7, <2>1 DEF BoxesInv, Boxes
<1> QED  BY <1>2, <1>8, <1>9

-----------------------------------------------------------------------------
(* The store through its steps.                                            *)

(* The first disk is empty or holds entries in the old format only.        *)
LEMMA StoreInit == Init => StoreInv
<1> SUFFICES ASSUME Init PROVE StoreInv
  OBVIOUS
<1>1. PICK old \in SUBSET Ids :
         disk = [b \in Boxes |->
                    [k \in Ids |-> IF b = "quotes" /\ k \in old THEN "map" ELSE "absent"]]
  BY DEF Init
<1>2. mem \in Contents /\ disk \in Contents /\ OnlyMaps(disk["quotes"])
  BY <1>1 DEF Init, Contents, Boxes, Empty, QuoteValues, FavoriteValues, OnlyMaps
<1>3. queue["quotes"] = <<>> /\ queue["favorites"] = <<>> /\ queue = [b \in Boxes |-> queue[b]]
  BY DEF Init, Boxes
<1>4. queue \in [quotes : Seq(Frames(QuoteValues)), favorites : Seq(Frames(FavoriteValues))]
  <2>1. <<>> \in Seq(Frames(QuoteValues)) /\ <<>> \in Seq(Frames(FavoriteValues))
    OBVIOUS
  <2> QED  BY <1>3, <2>1 DEF Boxes
<1>5. 0 \in 0..Len(SeedOrder)
  BY IdsAssumption
<1>6. TypeOK
  BY <1>2, <1>4, <1>5 DEF Init, TypeOK
<1>7. OwnersInv
  BY <1>3 DEF OwnersInv, Boxes
<1> QED  BY <1>2, <1>3, <1>6, <1>7 DEF Init, StoreInv, StartInv, FilledInv, NoFrames

(* A crash loses memory and queue: what the file holds was monotone by     *)
(* itself.                                                                 *)
LEMMA CrashStep ==
    ASSUME StoreInv, Crash
    PROVE  StoreInv'
<1>1. mem' \in Contents /\ disk' = disk
  BY DEF Crash, Contents, Boxes, Empty, QuoteValues, FavoriteValues
<1>2. /\ queue'["quotes"] = <<>> /\ queue'["favorites"] = <<>>
      /\ queue' = [b \in Boxes |-> queue'[b]]
  BY DEF Crash, Boxes
<1>3. queue' \in [quotes : Seq(Frames(QuoteValues)), favorites : Seq(Frames(FavoriteValues))]
  <2>1. <<>> \in Seq(Frames(QuoteValues)) /\ <<>> \in Seq(Frames(FavoriteValues))
    OBVIOUS
  <2> QED  BY <1>2, <2>1 DEF Boxes
<1>4. 0 \in 0..Len(SeedOrder)
  BY IdsAssumption
<1>5. TypeOK'
  BY <1>1, <1>3, <1>4 DEF Crash, StoreInv, TypeOK
<1>6. OwnersInv'
  BY <1>2 DEF OwnersInv, Boxes
<1>7. OnlyMaps(disk["quotes"]) \/ NoMaps(disk["quotes"])
  BY DEF StoreInv, TypeOK, StartInv, FilledInv, BoxesInv
<1> QED  BY <1>1, <1>2, <1>5, <1>6, <1>7 DEF Crash, StoreInv, StartInv, FilledInv, NoFrames

(* Opening the boxes reads the files; nothing is queued.                   *)
LEMMA OpenStep ==
    ASSUME StoreInv, Open
    PROVE  StoreInv'
<1>1. TypeOK' /\ OwnersInv'
  BY DEF Open, StoreInv, TypeOK, OwnersInv
<1> QED  BY <1>1 DEF Open, StoreInv, StartInv, FilledInv, NoFrames

(* The boxes of a start whose seeding begins or goes on.                   *)
LEMMA SeedStep ==
    ASSUME StoreInv, BoxesInv, \A k \in Ids : mem["quotes"][k] # "affirmed",
           NEW n \in 1..Len(SeedOrder), Boot \notin busy, AddSeed(n), disk' = disk
    PROVE  StoreInv'
<1> DEFINE k == SeedOrder[n]
<1>1. k \in Ids /\ Boot \in Owners /\ n \in 0..Len(SeedOrder)
  BY IdsAssumption DEF Owners
<1>2. Put("quotes", k, "quote", Boot) /\ seeded' = n /\ phase' = "seeding"
  BY DEF AddSeed
<1> HIDE DEF k
<1>3. /\ mem' \in Contents /\ busy' \subseteq Owners /\ OwnersInv'
      /\ queue' \in [quotes : Seq(Frames(QuoteValues)), favorites : Seq(Frames(FavoriteValues))]
      /\ mem'["quotes"] = [mem["quotes"] EXCEPT ![k] = "quote"]
      /\ Present(mem'["quotes"]) # {} /\ BoxesInv'
  BY <1>1, <1>2, PutQuote DEF StoreInv
<1>4. \A j \in Ids : mem'["quotes"][j] # "affirmed"
  BY <1>1, <1>3 DEF StoreInv, TypeOK, Contents
<1>5. TypeOK'
  BY <1>1, <1>2, <1>3 DEF StoreInv, TypeOK
<1> QED  BY <1>2, <1>3, <1>4, <1>5 DEF StoreInv, StartInv, FilledInv

(* The migration clears a box of old entries, seeds an empty one, or       *)
(* leaves the box as it is.                                                *)
LEMMA MigrateStep ==
    ASSUME StoreInv, Migrate
    PROVE  StoreInv'
<1>1. /\ phase = "opened" /\ mem = disk /\ NoFrames /\ disk' = disk
      /\ OnlyMaps(disk["quotes"]) \/ NoMaps(disk["quotes"])
  BY DEF Migrate, StoreInv, StartInv
<1>2. CASE OldFormat(mem["quotes"])
  <2> DEFINE f == [key |-> All, val |-> "absent", by |-> Boot]
  <2>1. Issue("quotes", f) /\ phase' = "clearing" /\ seeded' = seeded
    BY <1>2 DEF Migrate
  <2>2. /\ f \in Frames(Values("quotes")) /\ f.by \notin busy /\ f.key = All /\ f.by = Boot
        /\ "quotes" \in Boxes /\ "favorites" \in Boxes
    BY <1>1 DEF Frames, Values, QuoteValues, NoFrames, Boxes, Owners
  <2> HIDE DEF f
  <2>3. /\ mem' \in Contents /\ busy' \subseteq Owners /\ OwnersInv'
        /\ queue' \in [quotes : Seq(Frames(QuoteValues)),
                       favorites : Seq(Frames(FavoriteValues))]
        /\ queue'["quotes"] = Append(queue["quotes"], f) /\ mem' = mem
        /\ queue'["favorites"] = queue["favorites"] /\ busy' = busy \cup {Boot}
    BY <2>1, <2>2, IssueStep DEF StoreInv
  <2>4. Len(queue'["quotes"]) = 1 /\ queue'["quotes"][1] = f
    BY <1>1, <2>3 DEF NoFrames
  <2>5. OnlyMaps(disk["quotes"])
    BY <1>1, <1>2 DEF OldFormat, NoMaps, Present
  <2>6. TypeOK'
    BY <1>1, <2>1, <2>3 DEF StoreInv, TypeOK
  <2> QED  BY <1>1, <2>1, <2>2, <2>3, <2>4, <2>5, <2>6
           DEF StoreInv, StartInv, FilledInv, NoFrames
<1>3. CASE ~OldFormat(mem["quotes"])
  <2>1. NoMaps(mem["quotes"])
    BY <1>1, <1>3, OldFormatFound DEF OnlyMaps, NoMaps, Present
  <2>2. BoxesInv
    BY <1>1, <2>1, QuietBoxes DEF StoreInv, NoFrames
  <2>3. CASE Present(mem["quotes"]) = {}
    <3>1. AddSeed(1) /\ Boot \notin busy
      BY <1>1, <1>3, <2>3 DEF Migrate, NoFrames
    <3>2. \A k \in Ids : mem["quotes"][k] # "affirmed"
      BY <2>3 DEF Present
    <3>3. 1 \in 1..Len(SeedOrder)
      BY IdsAssumption
    <3> QED  BY <1>1, <2>2, <3>1, <3>2, <3>3, SeedStep
  <2>4. CASE Present(mem["quotes"]) # {}
    <3>1. phase' = "up" /\ UNCHANGED <<seeded, mem, queue, busy>>
      BY <1>3, <2>4 DEF Migrate
    <3>2. TypeOK' /\ OwnersInv'
      BY <1>1, <3>1 DEF StoreInv, TypeOK, OwnersInv
    <3>3. BoxesInv'
      BY <1>1, <2>2, <3>1 DEF BoxesInv, LastWins, Monotone, NoMaps
    <3> QED  BY <2>4, <3>1, <3>2, <3>3 DEF StoreInv, StartInv, FilledInv, Present
  <2> QED  BY <2>3, <2>4
<1> QED  BY <1>2, <1>3

(* The clear is on disk before the first seed is put.                      *)
LEMMA ClearedStep ==
    ASSUME StoreInv, Cleared
    PROVE  StoreInv'
<1>1. phase = "clearing" /\ Boot \notin busy /\ AddSeed(1) /\ disk' = disk
  BY DEF Cleared
<1>2. ASSUME Len(queue["quotes"]) = 1 PROVE FALSE
  <2>1. 1 \in DOMAIN queue["quotes"] /\ "quotes" \in Boxes
    BY <1>2 DEF StoreInv, TypeOK, Boxes
  <2>2. queue["quotes"][1].by \in busy
    BY <2>1 DEF StoreInv, OwnersInv
  <2> QED  BY <1>1, <2>2 DEF StoreInv, StartInv
<1>3. /\ mem = disk /\ disk["quotes"] = Empty
      /\ queue["quotes"] = <<>> /\ queue["favorites"] = <<>>
  BY <1>1, <1>2 DEF StoreInv, StartInv
<1>4. /\ NoMaps(disk["quotes"]) /\ \A k \in Ids : mem["quotes"][k] # "affirmed"
  BY <1>3 DEF NoMaps, Empty
<1>5. BoxesInv
  BY <1>3, <1>4, QuietBoxes DEF StoreInv
<1>6. 1 \in 1..Len(SeedOrder)
  BY IdsAssumption
<1> QED  BY <1>1, <1>4, <1>5, <1>6, SeedStep

(* Seeding goes on with the next quote, or the app is up.                  *)
LEMMA SeedAddedStep ==
    ASSUME StoreInv, SeedAdded
    PROVE  StoreInv'
<1>1. /\ phase = "seeding" /\ Boot \notin busy /\ disk' = disk /\ BoxesInv
      /\ Present(mem["quotes"]) # {} /\ \A k \in Ids : mem["quotes"][k] # "affirmed"
  BY DEF SeedAdded, StoreInv, StartInv, FilledInv
<1>2. seeded \in Nat /\ Len(SeedOrder) \in Nat
  BY IdsAssumption DEF StoreInv, TypeOK
<1>3. CASE seeded < Len(SeedOrder)
  <2>1. AddSeed(seeded + 1) /\ seeded + 1 \in 1..Len(SeedOrder)
    BY <1>2, <1>3 DEF SeedAdded
  <2> QED  BY <1>1, <2>1, SeedStep
<1>4. CASE ~(seeded < Len(SeedOrder))
  <2>1. phase' = "up" /\ UNCHANGED <<seeded, mem, queue, busy>>
    BY <1>4 DEF SeedAdded
  <2>2. TypeOK' /\ OwnersInv'
    BY <1>1, <2>1 DEF StoreInv, TypeOK, OwnersInv
  <2>3. BoxesInv'
    BY <1>1, <2>1 DEF BoxesInv, LastWins, Monotone, NoMaps
  <2> QED  BY <1>1, <2>1, <2>2, <2>3 DEF StoreInv, StartInv, FilledInv, Present
<1> QED  BY <1>3, <1>4

(* Calls of the running app put quotes, affirmations and favorites, each   *)
(* at most once at a time.                                                 *)
LEMMA AppStepInv ==
    ASSUME StoreInv, AppStep
    PROVE  StoreInv'
<1>1. PICK u \in Users : \/ \E k \in NewIds : AddQuote(u, k)
                         \/ \E k \in Ids : SaveAffirmationToQuote(u, k) \/ ToggleFavorite(u, k)
  BY DEF AppStep
<1>2. /\ phase = "up" /\ u \in Owners /\ u \notin busy
      /\ phase' = phase /\ seeded' = seeded /\ disk' = disk
  BY <1>1 DEF AddQuote, SaveAffirmationToQuote, ToggleFavorite, Ready, Owners
<1>3. BoxesInv /\ TypeOK /\ OwnersInv /\ Present(mem["quotes"]) # {}
  BY <1>2 DEF StoreInv, FilledInv
<1>4. ASSUME /\ mem' \in Contents /\ busy' \subseteq Owners /\ OwnersInv'
             /\ queue' \in [quotes : Seq(Frames(QuoteValues)),
                            favorites : Seq(Frames(FavoriteValues))]
             /\ Present(mem'["quotes"]) # {} /\ BoxesInv'
      PROVE  StoreInv'
  BY <1>2, <1>3, <1>4 DEF StoreInv, TypeOK, StartInv, FilledInv
<1>5. ASSUME NEW k \in NewIds, AddQuote(u, k) PROVE StoreInv'
  <2>1. k \in Ids /\ Put("quotes", k, "quote", u) /\ mem["quotes"][k] # "affirmed"
    BY <1>5, IdsAssumption DEF AddQuote
  <2> QED  BY <1>2, <1>3, <1>4, <2>1, PutQuote
<1>6. ASSUME NEW k \in Ids, SaveAffirmationToQuote(u, k) PROVE StoreInv'
  <2>1. Put("quotes", k, "affirmed", u)
    BY <1>6 DEF SaveAffirmationToQuote
  <2> QED  BY <1>2, <1>3, <1>4, <2>1, PutQuote
<1>7. ASSUME NEW k \in Ids, ToggleFavorite(u, k) PROVE StoreInv'
  <2>1. PICK v \in {"yes", "no"} : Put("favorites", k, v, u)
    BY <1>7 DEF ToggleFavorite
  <2> QED  BY <1>2, <1>3, <1>4, <2>1, PutFavorite
<1> QED  BY <1>1, <1>5, <1>6, <1>7

(* A frame reaches the disk: the clear of a start, or one of the app.      *)
LEMMA FlushInv ==
    ASSUME StoreInv, NEW b \in Boxes, Flush(b)
    PROVE  /\ StoreInv'
           /\ \A k \in Ids :
                 /\ disk["quotes"][k] \in {"quote", "affirmed"} =>
                       disk'["quotes"][k] \in {"quote", "affirmed"}
                 /\ disk["quotes"][k] = "affirmed" => disk'["quotes"][k] = "affirmed"
<1>1. /\ TypeOK' /\ OwnersInv' /\ phase' = phase /\ seeded' = seeded
      /\ queue[b] # <<>> /\ queue[b] \in Seq(Frames(Values(b)))
      /\ 1 \in DOMAIN queue[b] /\ queue[b][1].by \in busy
      /\ queue'[b] = Tail(queue[b]) /\ busy' = busy \ {queue[b][1].by}
      /\ queue[b][1].key = All => mem'[b] = Empty /\ disk'[b] = Empty
      /\ \A c \in Boxes : c # b => /\ disk'[c] = disk[c] /\ mem'[c] = mem[c]
                                   /\ queue'[c] = queue[c]
  BY FlushStep DEF StoreInv
<1>2. phase \notin {"down", "opened"} /\ (b = "quotes" \/ b = "favorites")
  BY <1>1 DEF StoreInv, StartInv, NoFrames, Boxes
<1>3. CASE phase = "clearing"
  <2>1. b = "quotes" /\ Len(queue["quotes"]) = 1 /\ queue["quotes"][1].key = All
    BY <1>1, <1>2, <1>3 DEF StoreInv, StartInv
  <2>2. Tail(queue["quotes"]) = <<>>
    BY <1>1, <2>1, TailFacts
  <2>3. /\ queue'["quotes"] = <<>> /\ queue'["favorites"] = <<>>
        /\ mem'["quotes"] = Empty /\ disk'["quotes"] = Empty
        /\ mem'["favorites"] = disk'["favorites"]
    BY <1>1, <1>3, <2>1, <2>2 DEF StoreInv, StartInv, Boxes
  <2>4. mem' = disk'
    BY <1>1, <2>3 DEF TypeOK, Contents
  <2>5. OnlyMaps(disk'["quotes"]) /\ busy' \subseteq {Boot}
    BY <1>1, <1>3, <2>3 DEF OnlyMaps, Empty, StoreInv, StartInv
  <2>6. StoreInv'
    BY <1>1, <1>3, <2>3, <2>4, <2>5 DEF StoreInv, StartInv, FilledInv
  <2>7. \A k \in Ids : disk["quotes"][k] \notin {"quote", "affirmed"}
    BY <1>3 DEF StoreInv, StartInv, OnlyMaps
  <2> QED  BY <2>6, <2>7
<1>4. CASE phase \in {"seeding", "up"}
  <2>1. BoxesInv /\ TypeOK /\ OwnersInv
    BY <1>4 DEF StoreInv, FilledInv
  <2>2. /\ TypeOK' /\ OwnersInv' /\ BoxesInv' /\ mem' = mem /\ phase' = phase
        /\ \A k \in Ids :
              /\ disk["quotes"][k] \in {"quote", "affirmed"} =>
                    disk'["quotes"][k] \in {"quote", "affirmed"}
              /\ disk["quotes"][k] = "affirmed" => disk'["quotes"][k] = "affirmed"
    BY <2>1, FlushBoxes
  <2>3. StoreInv'
    BY <1>4, <2>2 DEF StoreInv, StartInv, FilledInv, Present
  <2> QED  BY <2>2, <2>3
<1> QED  BY <1>2, <1>3, <1>4 DEF StoreInv, TypeOK

(* Every step of the store keeps its invariant.                            *)
LEMMA StoreNext == StoreInv /\ [Next]_vars => StoreInv'
<1> SUFFICES ASSUME StoreInv, [Next]_vars PROVE StoreInv'
  OBVIOUS
<1>1. CASE UNCHANGED vars
  BY <1>1 DEF vars, StoreInv, TypeOK, OwnersInv, StartInv, FilledInv, BoxesInv, NoFrames,
              OnlyMaps, NoMaps, Present, LastWins, Monotone
<1>2. CASE Next
  BY <1>2, OpenStep, MigrateStep, ClearedStep, SeedAddedStep, AppStepInv, FlushInv, CrashStep
  DEF Next, Startup
<1> QED  BY <1>1, <1>2

(* What the app shows is on disk when nobody waits.                        *)
LEMMA StoreImplies == StoreInv => StoreOK
<1> SUFFICES ASSUME StoreInv PROVE StoreOK
  OBVIOUS
<1>1. UsableBox
  BY DEF StoreInv, FilledInv, BoxesInv, UsableBox, NoMaps
<1>2. QuietIsDurable
  <2> SUFFICES ASSUME phase = "up", busy = {} PROVE disk = mem
    BY DEF QuietIsDurable
  <2>1. \A b \in Boxes : DOMAIN queue[b] = {}
    BY DEF StoreInv, OwnersInv
  <2>2. \A b \in Boxes : \A k \in Ids : disk[b][k] = mem[b][k]
    BY <2>1 DEF StoreInv, FilledInv, BoxesInv, LastWins
  <2>3. /\ disk["quotes"] \in [Ids -> QuoteValues] /\ mem["quotes"] \in [Ids -> QuoteValues]
        /\ disk["favorites"] \in [Ids -> FavoriteValues]
        /\ mem["favorites"] \in [Ids -> FavoriteValues]
        /\ disk \in Contents /\ mem \in Contents
    BY DEF StoreInv, TypeOK, Contents
  <2>4. disk["quotes"] = mem["quotes"] /\ disk["favorites"] = mem["favorites"]
    BY <2>2, <2>3 DEF Boxes
  <2> QED  BY <2>3, <2>4 DEF Contents
<1> QED  BY <1>1, <1>2 DEF StoreOK, StoreInv

-----------------------------------------------------------------------------
(* The runner.                                                             *)

RunnerState ==
    [ count : 0..1, registered : BOOLEAN, handle : BOOLEAN, controller : BOOLEAN,
      quitOnClose : BOOLEAN, class : BOOLEAN, window : BOOLEAN, shown : BOOLEAN,
      quit : BOOLEAN, frame : {"none", "first", "drawn", "pending"},
      callback : {"none", "armed", "due"} ]

BeforeCreate(s) ==
    /\ s.count = 1 /\ s.frame = "none"
    /\ ~s.handle /\ ~s.controller /\ ~s.window /\ ~s.quit

(* Where wWinMain is tells what exists: nothing before Create, everything  *)
(* up to the message loop, and there all of it until WM_DESTROY has posted *)
(* the quit message.  Dart runs inside the engine.                         *)
RunnerInv ==
    /\ pc \in {"idle", "main", "hosted", "armed", "loop", "returned"}
    /\ w \in RunnerState
    /\ phase # "down" => w.controller
    /\ pc = "idle" => w = Gone
    /\ pc = "main" => BeforeCreate(w)
    /\ pc \in {"hosted", "armed"} =>
          /\ w.count = 1 /\ w.window /\ w.handle /\ w.controller /\ w.class /\ w.registered
          /\ ~w.quit
    /\ pc = "loop" =>
          /\ w.count = 1 /\ w.class /\ w.registered /\ w.quitOnClose
          /\ w.window = w.controller /\ w.handle = w.window /\ w.quit = ~w.window
    /\ pc = "returned" =>
          ~w.class /\ ~w.window /\ ~w.controller /\ ~w.registered /\ ~w.handle /\ w.count = 0

(* The runner's state without a process, and with its FlutterWindow just   *)
(* constructed.                                                            *)
LEMMA GoneType == /\ Gone \in RunnerState /\ [Gone EXCEPT !.count = 1] \in RunnerState
                  /\ ~Gone.controller /\ ~Gone.window /\ ~Gone.handle
                  /\ BeforeCreate([Gone EXCEPT !.count = 1])
<1>1. /\ Gone \in RunnerState
      /\ ~Gone.registered /\ ~Gone.handle /\ ~Gone.controller /\ ~Gone.window /\ ~Gone.quit
      /\ Gone.frame = "none"
  BY DEF Gone, RunnerState
<1> QED  BY <1>1 DEF RunnerState, BeforeCreate

(* What each destructor leaves.                                            *)
LEMMA DestroyWindowStep ==
    ASSUME NEW s \in RunnerState
    PROVE  LET t == DestroyWindow(s) IN
           /\ t \in RunnerState /\ t.count = s.count /\ ~t.window
           /\ s.window => ~t.handle /\ ~t.controller
           /\ ~s.window => t = s
           /\ s.window /\ s.count # 0 => /\ t.class = s.class /\ t.registered = s.registered
                                         /\ t.quitOnClose = s.quitOnClose
                                         /\ s.quitOnClose => t.quit
<1>1. OnDestroy([s EXCEPT !.handle = FALSE]) \in RunnerState
  BY DEF OnDestroy, RunnerState
<1>2. CASE s.window
  <2> DEFINE r == UnregisterIfLast(OnDestroy([s EXCEPT !.handle = FALSE]))
  <2>1. /\ r \in RunnerState /\ r.count = s.count /\ ~r.handle /\ ~r.controller
        /\ s.count # 0 => /\ r.class = s.class /\ r.registered = s.registered
        /\ r.quitOnClose = s.quitOnClose /\ r.quit = s.quit
    BY DEF OnDestroy, RunnerState, UnregisterIfLast, UnregisterWindowClass
  <2> HIDE DEF r
  <2>2. HandleDestroy(s) = [r EXCEPT !.quit = r.quit \/ r.quitOnClose]
    BY DEF HandleDestroy, r
  <2>3. DestroyWindow(s) =
          [[r EXCEPT !.quit = r.quit \/ r.quitOnClose] EXCEPT !.window = FALSE, !.shown = FALSE]
    BY <1>2, <2>2 DEF DestroyWindow
  <2> DEFINE t == [[r EXCEPT !.quit = r.quit \/ r.quitOnClose] EXCEPT !.window = FALSE, !.shown = FALSE]
  <2>4. /\ t \in RunnerState /\ t.count = r.count /\ ~t.window
        /\ t.handle = r.handle /\ t.controller = r.controller /\ t.class = r.class
        /\ t.registered = r.registered /\ t.quitOnClose = r.quitOnClose
        /\ t.quit = (r.quit \/ r.quitOnClose)
    BY <2>1 DEF RunnerState
  <2> HIDE DEF t
  <2>5. DestroyWindow(s) = t
    BY <2>3 DEF t
  <2>6. /\ ~t.handle /\ ~t.controller /\ t.count = s.count
        /\ t.quitOnClose = s.quitOnClose
        /\ s.quitOnClose => t.quit
        /\ s.count # 0 => t.class = s.class /\ t.registered = s.registered
    BY <2>1, <2>4
  <2> QED  BY <1>2, <2>4, <2>5, <2>6
<1>3. CASE ~s.window
  BY <1>3 DEF DestroyWindow
<1> QED  BY <1>2, <1>3

(* Win32Window::Destroy: neither window nor controller is left, and the    *)
(* class goes with the last window.                                        *)
LEMMA DestroyStep ==
    ASSUME NEW s \in RunnerState
    PROVE  LET t == Destroy(s) IN
           /\ t \in RunnerState /\ t.count = s.count /\ ~t.handle /\ ~t.controller
           /\ s.window = s.handle \/ ~s.window => ~t.window
           /\ (s.window = s.handle \/ ~s.window) /\ s.count = 0 => ~t.class /\ ~t.registered
<1> DEFINE r == OnDestroy(s)
           d == DestroyWindow(r)
           e == IF r.handle THEN [d EXCEPT !.handle = FALSE] ELSE r
<1>1. /\ r \in RunnerState /\ r.count = s.count /\ ~r.controller
      /\ r.window = s.window /\ r.handle = s.handle
  BY DEF OnDestroy, RunnerState
<1> HIDE DEF r
<1>2. /\ d \in RunnerState /\ d.count = r.count /\ ~d.window
      /\ r.window => ~d.controller
      /\ ~r.window => d = r
  BY <1>1, DestroyWindowStep
<1> HIDE DEF d
<1>3. /\ e \in RunnerState /\ e.count = s.count /\ ~e.handle /\ ~e.controller
      /\ s.window = s.handle \/ ~s.window => ~e.window
  <2>1. CASE r.handle
    BY <1>1, <1>2, <2>1 DEF RunnerState
  <2>2. CASE ~r.handle
    BY <1>1, <2>2 DEF RunnerState
  <2> QED  BY <2>1, <2>2
<1>4. Destroy(s) = UnregisterIfLast(e)
  BY DEF Destroy, e, d, r
<1> HIDE DEF e
<1> QED  BY <1>3, <1>4 DEF UnregisterIfLast, UnregisterWindowClass, RunnerState

(* The destructor of the last window leaves nothing behind.                *)
LEMMA DestructorStep ==
    ASSUME NEW s \in RunnerState, s.count = 1, s.window = s.handle \/ ~s.window
    PROVE  LET t == Destructor(s) IN
           /\ t \in RunnerState /\ t.count = 0
           /\ ~t.class /\ ~t.window /\ ~t.controller /\ ~t.registered /\ ~t.handle
<1> DEFINE r == [OnDestroy(s) EXCEPT !.count = @ - 1]
<1>1. /\ OnDestroy(s) \in RunnerState /\ OnDestroy(s).count = 1
      /\ OnDestroy(s).window = OnDestroy(s).handle \/ ~OnDestroy(s).window
  BY DEF OnDestroy, RunnerState
<1>a. r \in RunnerState /\ r.count = 0 /\ (r.window = r.handle \/ ~r.window)
  BY <1>1 DEF RunnerState
<1> HIDE DEF r
<1>2. Destructor(s) = Destroy(r)
  BY DEF Destructor, r
<1> QED  BY <1>a, <1>2, DestroyStep

(* No process runs at first.                                               *)
LEMMA RunnerInitInv == RunnerInit => StoreInv /\ RunnerInv
  BY StoreInit, GoneType DEF RunnerInit, RunnerInv, Init

(* When the engine goes, what Dart had in memory goes with it.             *)
LEMMA StoreFollowsStep ==
    ASSUME StoreInv, RunnerInv, StoreFollows
    PROVE  /\ [Next]_vars
           /\ ~w'.controller => phase' = "down"
           /\ phase' # "down" => phase # "down"
<1>1. CASE w.controller /\ ~w'.controller /\ phase # "down"
  BY <1>1 DEF StoreFollows, Crash, Next
<1>2. CASE ~(w.controller /\ ~w'.controller /\ phase # "down")
  BY <1>2 DEF StoreFollows, RunnerInv, vars
<1> QED  BY <1>1, <1>2

(* A step of the runner keeps its invariant and is a step of the store, or *)
(* none: Dart runs only within the engine.                                 *)
LEMMA RunnerStepInv ==
    ASSUME StoreInv, RunnerInv, [RunnerNext]_allVars
    PROVE  [Next]_vars /\ RunnerInv'
<1>1. CASE Launch
  <2>1. pc' = "main" /\ w' = [Gone EXCEPT !.count = 1] /\ UNCHANGED vars
    BY <1>1 DEF Launch
  <2>2. phase = "down" /\ phase' = phase
    BY <1>1, <2>1, GoneType DEF Launch, Running, RunnerInv, vars
  <2> QED  BY <2>1, <2>2, GoneType DEF RunnerInv
<1>2. ASSUME pc = "main"
      PROVE  LET s == GetWindowClass(Destroy(w)) IN
             /\ s \in RunnerState /\ s.count = 1 /\ s.class /\ s.registered
             /\ ~s.window /\ ~s.handle /\ ~s.quit /\ ~s.controller /\ phase = "down"
  <2>1. BeforeCreate(w) /\ w \in RunnerState /\ phase = "down"
    BY <1>2 DEF RunnerInv, BeforeCreate
  <2>2. /\ OnDestroy(w) \in RunnerState /\ BeforeCreate(OnDestroy(w))
    BY <2>1 DEF BeforeCreate, OnDestroy, RunnerState
  <2>3. Destroy(w) = OnDestroy(w)
    BY <2>2 DEF Destroy, UnregisterIfLast, BeforeCreate
  <2> QED  BY <2>1, <2>2, <2>3 DEF GetWindowClass, BeforeCreate, RunnerState
<1>3. CASE CreateFails
  <2> DEFINE s == GetWindowClass(Destroy(w))
  <2>1. pc = "main" /\ pc' = "returned" /\ UNCHANGED vars
    BY <1>3 DEF CreateFails
  <2>2. PICK f \in CreateFailed(s) \cup {WithController(s)} : w' = Destructor(f)
    BY <1>3 DEF CreateFails
  <2>3. /\ s \in RunnerState /\ s.count = 1 /\ ~s.window /\ phase = "down"
    BY <1>2, <2>1
  <2> HIDE DEF s
  <2>4. f \in RunnerState /\ f.count = 1 /\ (f.window = f.handle \/ ~f.window)
    BY <2>2, <2>3, ZenonT(30) DEF CreateFailed, WithController, RunnerState
  <2>5. /\ w' \in RunnerState /\ w'.count = 0
        /\ ~w'.class /\ ~w'.window /\ ~w'.controller /\ ~w'.registered /\ ~w'.handle
    BY <2>2, <2>4, DestructorStep
  <2> QED  BY <2>1, <2>3, <2>5 DEF RunnerInv, vars
<1>4. CASE Create
  <2> DEFINE s == GetWindowClass(Destroy(w))
  <2>1. pc = "main" /\ pc' = "hosted" /\ w' = WithController(s) /\ UNCHANGED vars
    BY <1>4 DEF Create
  <2>2. /\ s \in RunnerState /\ s.count = 1 /\ s.class /\ s.registered /\ ~s.quit
    BY <1>2, <2>1
  <2> HIDE DEF s
  <2>3. /\ w' \in RunnerState /\ w'.count = 1 /\ w'.window /\ w'.handle /\ w'.controller
        /\ w'.class /\ w'.registered /\ ~w'.quit
    BY <2>1, <2>2 DEF WithController, RunnerState
  <2> QED  BY <2>1, <2>3 DEF RunnerInv
<1>5. CASE SetNextFrameCallback
  BY <1>5 DEF SetNextFrameCallback, RunnerInv, RunnerState, vars
<1>6. CASE ForceRedraw
  BY <1>6 DEF ForceRedraw, RunnerInv, RunnerState, vars
<1>7. CASE Show
  BY <1>7 DEF Show, RunnerInv, RunnerState, vars
<1>8. CASE CloseWindow
  <2>1. pc = "loop" /\ w.window /\ w' = DestroyWindow(w) /\ StoreFollows /\ pc' = pc
    BY <1>8 DEF CloseWindow
  <2>2. w \in RunnerState /\ w.count = 1 /\ w.class /\ w.registered /\ w.quitOnClose
    BY <2>1 DEF RunnerInv
  <2>3. /\ w' \in RunnerState /\ w'.count = 1 /\ ~w'.window /\ ~w'.handle /\ ~w'.controller
        /\ w'.class /\ w'.registered /\ w'.quitOnClose /\ w'.quit
    <3>0. w.window /\ w.count # 0 /\ w.quitOnClose
      BY <2>1, <2>2 DEF RunnerState
    <3> DEFINE d == DestroyWindow(w)
    <3>1. /\ d \in RunnerState /\ d.count = w.count /\ ~d.window
          /\ w.window => ~d.handle /\ ~d.controller
          /\ w.window /\ w.count # 0 => /\ d.class = w.class /\ d.registered = w.registered
                                        /\ d.quitOnClose = w.quitOnClose
                                        /\ w.quitOnClose => d.quit
      BY <2>2, DestroyWindowStep
    <3> HIDE DEF d
    <3>2. w' = d
      BY <2>1 DEF d
    <3>3. /\ ~d.handle /\ ~d.controller
          /\ d.class = w.class /\ d.registered = w.registered
          /\ d.quitOnClose = w.quitOnClose /\ d.quit
      BY <2>2, <3>0, <3>1 DEF RunnerState
    <3> QED  BY <2>2, <3>1, <3>2, <3>3
  <2>4. [Next]_vars /\ phase' = "down"
    BY <2>1, <2>3, StoreFollowsStep
  <2>5. w'.window = w'.controller /\ w'.handle = w'.window /\ w'.quit = ~w'.window
    BY <2>3 DEF RunnerState
  <2> QED  BY <2>1, <2>3, <2>4, <2>5 DEF RunnerInv
<1>9. CASE Quit
  <2>1. pc = "loop" /\ w' = Destructor(w) /\ StoreFollows /\ pc' = "returned"
    BY <1>9 DEF Quit
  <2>2. w \in RunnerState /\ w.count = 1 /\ w.window = w.handle
    BY <2>1 DEF RunnerInv
  <2>3. /\ w' \in RunnerState /\ w'.count = 0
        /\ ~w'.class /\ ~w'.window /\ ~w'.controller /\ ~w'.registered /\ ~w'.handle
    BY <2>1, <2>2, DestructorStep
  <2>4. [Next]_vars /\ phase' = "down"
    BY <2>1, <2>3, StoreFollowsStep
  <2> QED  BY <2>1, <2>3, <2>4 DEF RunnerInv
<1>10. CASE DrawFrame
  <2>1. pc \notin {"idle", "main"}
    BY <1>10 DEF DrawFrame, RunnerInv, Gone, BeforeCreate
  <2> QED  BY <1>10, <2>1 DEF DrawFrame, RunnerInv, RunnerState, vars
<1>11. CASE ScheduleFrame
  <2>1. pc \notin {"idle", "main"}
    BY <1>11 DEF ScheduleFrame, RunnerInv, Gone, BeforeCreate
  <2> QED  BY <1>11, <2>1 DEF ScheduleFrame, RunnerInv, RunnerState, vars
<1>12. CASE Kill
  <2>1. pc' = "idle" /\ w' = Gone /\ StoreFollows
    BY <1>12 DEF Kill
  <2>2. [Next]_vars /\ phase' = "down"
    BY <2>1, GoneType, StoreFollowsStep
  <2> QED  BY <2>1, <2>2, GoneType DEF RunnerInv
<1>13. CASE DartStarts
  BY <1>13 DEF DartStarts, runnerVars, RunnerInv, BeforeCreate, Next
<1>14. CASE BoxStep
  <2>1. phase # "down"
    <3>1. CASE AppStep
      BY <3>1 DEF AppStep, AddQuote, SaveAffirmationToQuote, ToggleFavorite, Ready
    <3>2. CASE \E b \in Boxes : Flush(b)
      BY <3>2 DEF Flush, StoreInv, StartInv, NoFrames, Boxes
    <3> QED  BY <1>14, <3>1, <3>2 DEF BoxStep
  <2> QED  BY <1>14, <2>1 DEF BoxStep, runnerVars, RunnerInv, BeforeCreate, Next
<1>15. CASE UNCHANGED allVars
  BY <1>15 DEF allVars, runnerVars, vars, RunnerInv, BeforeCreate
<1> QED  BY <1>1, <1>3, <1>4, <1>5, <1>6, <1>7, <1>8, <1>9, <1>10, <1>11, <1>12, <1>13, <1>14,
            <1>15 DEF RunnerNext, MainStep

(* The runner's invariant gives the property that is checked.              *)
LEMMA RunnerImplies == RunnerInv => RunnerOK
<1> SUFFICES ASSUME RunnerInv PROVE RunnerOK
  OBVIOUS
<1>1. RunnerTypeOK
  BY DEF RunnerInv, RunnerTypeOK, RunnerState
<1>2. EngineWithWindow
  BY DEF RunnerInv, EngineWithWindow, Gone, BeforeCreate
<1>3. ExitLeavesNothing
  BY DEF RunnerInv, ExitLeavesNothing
<1> QED  BY <1>1, <1>2, <1>3 DEF RunnerOK

(* Every step keeps both invariants.                                       *)
LEMMA RunnerNextInv ==
    StoreInv /\ RunnerInv /\ [RunnerNext]_allVars => StoreInv' /\ RunnerInv'
  BY RunnerStepInv, StoreNext

(* After any history of starts, kills and closed windows, and whatever     *)
(* calls overlap: a box that is up has quotes and none in the old format,  *)
(* and what the app shows is on disk when no call waits.                   *)
THEOREM StoreIsRight == RunnerSpec => []StoreOK
<1>1. StoreInv => StoreOK
  BY StoreImplies
<1> QED  BY <1>1, RunnerInitInv, RunnerNextInv, PTL DEF RunnerSpec

(* The window, its class, the controller and the engine live and die       *)
(* together, however far a start gets and however it ends.                 *)
THEOREM RunnerIsRight == RunnerSpec => []RunnerOK
<1>1. RunnerInv => RunnerOK
  BY RunnerImplies
<1> QED  BY <1>1, RunnerInitInv, RunnerNextInv, PTL DEF RunnerSpec

(* No step takes a quote or an affirmation from the file.                  *)
LEMMA DiskStep ==
    ASSUME StoreInv, [Next]_vars
    PROVE  [\A k \in Ids :
              /\ disk["quotes"][k] \in {"quote", "affirmed"} =>
                    disk'["quotes"][k] \in {"quote", "affirmed"}
              /\ disk["quotes"][k] = "affirmed" => disk'["quotes"][k] = "affirmed"]_vars
<1>1. ASSUME NEW b \in Boxes, Flush(b)
      PROVE  \A k \in Ids :
              /\ disk["quotes"][k] \in {"quote", "affirmed"} =>
                    disk'["quotes"][k] \in {"quote", "affirmed"}
              /\ disk["quotes"][k] = "affirmed" => disk'["quotes"][k] = "affirmed"
  BY <1>1, FlushInv
<1>2. disk' = disk \/ \E b \in Boxes : Flush(b)
  BY DEF Next, Startup, AppStep, Open, Migrate, Cleared, SeedAdded, AddQuote,
         SaveAffirmationToQuote, ToggleFavorite, Crash, vars
<1> QED  BY <1>1, <1>2

(* A quote that has reached the disk is never lost and never loses its     *)
(* affirmation: not by a crash, nor by the migration or the seeding of a   *)
(* later start.                                                            *)
THEOREM QuotesAreKept == RunnerSpec => QuotesSurvive
<1>1. StoreInv /\ RunnerInv /\ [RunnerNext]_allVars =>
        [\A k \in Ids :
           /\ disk["quotes"][k] \in {"quote", "affirmed"} =>
                 disk'["quotes"][k] \in {"quote", "affirmed"}
           /\ disk["quotes"][k] = "affirmed" => disk'["quotes"][k] = "affirmed"]_vars
  BY RunnerStepInv, DiskStep
<1> QED  BY <1>1, RunnerInitInv, RunnerNextInv, PTL DEF RunnerSpec, QuotesSurvive

-----------------------------------------------------------------------------
(***************************************************************************)
(* The background images, for any quotes and prompts, any number of         *)
(* overlapping calls, and any failures and restarts.                        *)
(***************************************************************************)

(* A call in flight knows its quote, works on one of its prompts, and      *)
(* saves the image of that prompt or a default; nobody writes the file     *)
(* that a call reads undisturbed.                                          *)
CallInv ==
    \A s \in Slots :
        /\ await[s] # "idle" => quote[s] \in Quotes
        /\ await[s] \in {"read", "torn", "request", "save", "write"} => prompt[s] \in PromptsOf[quote[s]]
        /\ await[s] \in {"save", "write"} => image[s] \in {Whole(prompt[s]), Default}
        /\ await[s] = "write" => image[s] # Default
        /\ await[s] = "read" => Writing(prompt[s]) = {}

(* _imageCache holds, for a prompt, an image of that prompt or a default.  *)
CacheInv == \A k \in Prompts : cache[k] \in Image => cache[k].of = k

(* The call that cached the image of k has not returned from its save.     *)
Saving(k) == \E s \in Slots : await[s] \in {"save", "write"} /\ prompt[s] = k /\ image[s] # Default

SavedInv ==
    \A k \in Prompts : cache[k] \notin {None, Default} => files[k] = "whole" \/ k \in spoilt \/ Saving(k)

(* An image that is whole, or of a prompt to which an accident happened.   *)
Sound(img) == img \in {None, Default} \/ img.whole \/ img.of \in spoilt

ImagesSound ==
    /\ \A k \in Prompts : Sound(cache[k])
    /\ \A b \in BoxKeys : Sound(box[b])
    /\ Sound(background)

(* A file that is not whole is being written, or had an accident.          *)
FileInv ==
    \A k \in Prompts : /\ files[k] = "cut" => k \in spoilt \/ Writing(k) # {}
                       /\ files[k] = "mixed" => k \in spoilt

(* Nothing is ever stored under the keys that line 173 builds, so that the *)
(* lookup of a stored image never finds one and the prefetch never starts. *)
LookupsAreDead ==
    /\ \A k \in BoxKeys \ Quotes : box[k] = None
    /\ ~prefetching

ImageInv ==
    /\ ImageTypeOK /\ StoredImageFits /\ CallInv /\ CacheInv /\ SavedInv
    /\ ImagesSound /\ FileInv /\ LookupsAreDead

(* The inductive invariant gives the properties that are checked.          *)
LEMMA ImageInvImplies == ImageInv => ImagesOK /\ LookupsAreDead
<1> SUFFICES ASSUME ImageInv PROVE CachedIsSaved /\ UnspoiltIsWhole
  BY DEF ImageInv, ImagesOK
<1>1. CachedIsSaved
  BY DEF ImageInv, SavedInv, Saving, CachedIsSaved
<1>2. DOMAIN cache = Prompts /\ DOMAIN box = BoxKeys
  BY DEF ImageInv, ImageTypeOK
<1>3. \A img \in Range(cache) \cup Range(box) \cup {background} : Sound(img)
  BY <1>2 DEF ImageInv, ImagesSound, Range
<1>4. \A img \in Range(cache) \cup Range(box) \cup {background} :
         img \notin {None, Default} => img.whole \/ img.of \in spoilt
  BY <1>3 DEF Sound
<1>5. UnspoiltIsWhole
  BY <1>4 DEF ImageInv, FileInv, UnspoiltIsWhole
<1> QED  BY <1>1, <1>5

(* A first start: no image anywhere, no call.                              *)
LEMMA ImageInvInit == ImageInit => ImageInv
<1> SUFFICES ASSUME ImageInit PROVE ImageInv
  OBVIOUS
<1>1. ImageTypeOK /\ StoredImageFits /\ CallInv /\ LookupsAreDead
  BY DEF ImageInit, ImageTypeOK, StoredImageFits, CallInv, LookupsAreDead, Maybe, BoxKeys
<1>2. CacheInv /\ SavedInv /\ ImagesSound /\ FileInv
  BY NoneAssumption DEF ImageInit, CacheInv, SavedInv, ImagesSound, FileInv, Sound, Image
<1> QED  BY <1>1, <1>2 DEF ImageInv

Awaits == {"idle", "audio", "read", "torn", "request", "save", "write"}

CallTypes ==
    /\ await \in [Slots -> Awaits]
    /\ quote \in [Slots -> Maybe(Quotes)]
    /\ prompt \in [Slots -> Maybe(Prompts)]
    /\ image \in [Slots -> Maybe(Image \cup {Default})]

(* The other calls stay where they are.                                    *)
OthersStay(s) ==
    \A r \in Slots \ {s} : /\ await'[r] = await[r] /\ prompt'[r] = prompt[r]
                           /\ image'[r] = image[r] /\ quote'[r] = quote[r]

(* A call that moves, but not into a write, leaves the others what they    *)
(* know; files are written by the calls that wrote them before.            *)
LEMMA OthersKnow ==
    ASSUME ImageInv, NEW s \in Slots, CallTypes', OthersStay(s), await'[s] # "write",
           await'[s] # "idle" => quote'[s] \in Quotes,
           await'[s] \in {"read", "torn", "request", "save"} => prompt'[s] \in PromptsOf[quote'[s]],
           await'[s] = "save" => image'[s] \in {Whole(prompt'[s]), Default},
           await'[s] = "read" => Writing(prompt'[s]) = {}
    PROVE  /\ CallInv'
           /\ \A k \in Prompts : /\ Writing(k)' \subseteq Writing(k)
                                 /\ await[s] # "write" => Writing(k)' = Writing(k)
                                 /\ Saving(k) => Saving(k)' \/ (await[s] \in {"save", "write"} /\ prompt[s] = k /\ image[s] # Default)
<1>1. \A k : Writing(k)' \subseteq Writing(k) /\ (await[s] # "write" => Writing(k)' = Writing(k))
  BY DEF Writing, OthersStay
<1>2. CallInv'
  BY <1>1 DEF ImageInv, CallInv, OthersStay, Whole
<1>3. ASSUME NEW k \in Prompts, Saving(k)
      PROVE  Saving(k)' \/ (await[s] \in {"save", "write"} /\ prompt[s] = k /\ image[s] # Default)
  <2>1. PICK r \in Slots : await[r] \in {"save", "write"} /\ prompt[r] = k /\ image[r] # Default
    BY <1>3 DEF Saving
  <2>2. CASE r # s
    <3>1. await'[r] \in {"save", "write"} /\ prompt'[r] = k /\ image'[r] # Default
      BY <2>1, <2>2 DEF OthersStay
    <3> QED  BY <3>1 DEF Saving
  <2> QED  BY <2>1, <2>2
<1> QED  BY <1>1, <1>2, <1>3

(* What the end of a call leaves: all of the invariant but the cache and   *)
(* the files, and the other calls where they were.                         *)
ShowOK(s) ==
    /\ current' = current /\ prefetching' = prefetching
    /\ background' \in Maybe(Image)
    /\ box' \in [BoxKeys -> Maybe(Image)]
    /\ Sound(background)' /\ \A b \in BoxKeys : Sound(box[b])'
    /\ StoredImageFits' /\ LookupsAreDead'
    /\ CallTypes' /\ OthersStay(s) /\ CallInv' /\ await'[s] = "idle"
    /\ \A k \in Prompts :
          /\ Writing(k)' \subseteq Writing(k)
          /\ await[s] # "write" => Writing(k)' = Writing(k)
          /\ Saving(k) => Saving(k)' \/ (await[s] \in {"save", "write"} /\ prompt[s] = k /\ image[s] # Default)

(* Lines 210-221 store, for the quote of the call, an image of one of its  *)
(* prompts, or nothing.                                                    *)
LEMMA ShowStep ==
    ASSUME ImageInv, NEW s \in Slots, NEW q \in Quotes, NEW img \in Image \cup {Default},
           img = Default \/ img.of \in PromptsOf[q], Sound(img)', spoilt \subseteq spoilt',
           ShowImage(s, q, img)
    PROVE  ShowOK(s)
<1>1. q \in BoxKeys /\ PromptsOf[q] \subseteq Prompts
  BY PromptsAssumption DEF BoxKeys
<1>2. /\ background' \in Maybe(Image)
      /\ box' \in [BoxKeys -> Maybe(Image)]
      /\ \A k \in BoxKeys \ {q} : box'[k] = box[k]
      /\ box'[q] \in {img, box[q]} /\ (img = Default => box'[q] = box[q])
      /\ background' \in {img, None}
  BY <1>1 DEF ShowImage, ImageInv, ImageTypeOK, Maybe
<1>3. current' = current /\ prefetching' = prefetching
  BY DEF ShowImage
<1>4. StoredImageFits'
  BY <1>2 DEF StoredImageFits, ImageInv, BoxKeys
<1>5. LookupsAreDead'
  BY <1>2, <1>3 DEF LookupsAreDead, ImageInv
<1>6. Sound(None)' /\ \A b \in BoxKeys : Sound(box[b]) /\ \A x : Sound(x) => Sound(x)'
  BY DEF ImageInv, ImagesSound, Sound
<1>7. Sound(background)' /\ \A b \in BoxKeys : Sound(box[b])'
  <2>1. Sound(background)'
    BY <1>2, <1>6
  <2>2. ASSUME NEW b \in BoxKeys PROVE box'[b] \in {img, box[b]}
    BY <1>2
  <2> QED  BY <2>2, <1>2, <1>6 DEF Sound
<1>8. CallTypes' /\ OthersStay(s) /\ await'[s] = "idle"
  BY DEF ShowImage, Return, ImageInv, ImageTypeOK, CallTypes, OthersStay, Awaits, Maybe
<1>9. /\ CallInv'
      /\ \A k \in Prompts :
          /\ Writing(k)' \subseteq Writing(k)
          /\ await[s] # "write" => Writing(k)' = Writing(k)
          /\ Saving(k) => Saving(k)' \/ (await[s] \in {"save", "write"} /\ prompt[s] = k /\ image[s] # Default)
  BY <1>8, OthersKnow
<1> QED  BY <1>2, <1>3, <1>4, <1>5, <1>7, <1>8, <1>9 DEF ShowOK

(* A file that the step does not touch stays as sound as it was.           *)
LEMMA FilesKept ==
    ASSUME ImageInv, files' = files, spoilt \subseteq spoilt',
           \A k \in Prompts : Writing(k) # {} => Writing(k)' # {} \/ k \in spoilt'
    PROVE  FileInv'
  BY DEF ImageInv, FileInv

(* What memory has stays on file, in a step that keeps both.               *)
LEMMA SavedKept ==
    ASSUME ImageInv, files' = files, spoilt \subseteq spoilt',
           \A k \in Prompts : cache'[k] = cache[k] \/ cache'[k] \in {None, Default},
           \A k \in Prompts : Saving(k) => Saving(k)' \/ k \in spoilt'
    PROVE  SavedInv'
  BY DEF ImageInv, SavedInv

(* Sound images stay sound.                                                *)
LEMMA SoundKept ==
    ASSUME ImageInv, spoilt \subseteq spoilt'
    PROVE  /\ \A k \in Prompts : cache'[k] \in {cache[k], None, Default} => Sound(cache[k])'
           /\ background' = background => Sound(background)'
           /\ \A b \in BoxKeys : box'[b] = box[b] => Sound(box[b])'
  BY DEF ImageInv, ImagesSound, Sound

(* A new image is cached and its save begins.                              *)
LEMMA CacheAndSaveStep ==
    ASSUME ImageInv, NEW s \in Slots, await[s] \in {"read", "torn", "request"},
           NEW img \in {Whole(prompt[s]), Default}, CacheAndSave(s, img),
           UNCHANGED <<shownKeys, files>>, spoilt \subseteq spoilt', spoilt' \subseteq Prompts
    PROVE  ImageInv'
<1> DEFINE p == prompt[s]
<1>1. p \in PromptsOf[quote[s]] /\ quote[s] \in Quotes
  BY DEF ImageInv, CallInv
<1>2. p \in Prompts /\ img \in Image \cup {Default} /\ (img # Default => img.of = p /\ img.whole) /\ Whole(p) \in Image
  <2>1. p \in Prompts
    BY <1>1, PromptsAssumption
  <2>2. Whole(p) \in Image /\ Whole(p).of = p /\ Whole(p).whole
    BY <2>1 DEF Image, Whole
  <2> QED  BY <2>1, <2>2
<1>3. /\ cache' = [cache EXCEPT ![p] = img] /\ stale' = stale \ {p} /\ image' = [image EXCEPT ![s] = img]
      /\ await' = [await EXCEPT ![s] = "save"] /\ UNCHANGED <<current, background, prefetching, box, quote, prompt>>
  BY DEF CacheAndSave, screenVars
<1> HIDE DEF p
<1>4. CallTypes' /\ OthersStay(s)
  BY <1>2, <1>3 DEF ImageInv, ImageTypeOK, CallTypes, OthersStay, Awaits, Maybe
<1>5. await'[s] = "save" /\ prompt'[s] = p /\ quote'[s] = quote[s] /\ image'[s] = img /\ prompt[s] = p
  BY <1>3 DEF ImageInv, ImageTypeOK, p
<1>6. /\ CallInv'
      /\ \A k \in Prompts : /\ Writing(k)' = Writing(k)
                            /\ Saving(k) => Saving(k)'
  BY <1>1, <1>4, <1>5, OthersKnow
<1>7. ImageTypeOK'
  BY <1>2, <1>3, <1>4 DEF ImageInv, ImageTypeOK, CallTypes, Awaits, Maybe
<1>8. StoredImageFits' /\ LookupsAreDead'
  BY <1>3 DEF ImageInv, StoredImageFits, LookupsAreDead
<1>9. CacheInv'
  BY <1>2, <1>3, NoneAssumption DEF ImageInv, CacheInv, ImageTypeOK, Image
<1>10. ImagesSound'
  <2>1. \A k \in Prompts : cache'[k] = cache[k] \/ cache'[k] = img
    BY <1>3 DEF ImageInv, ImageTypeOK
  <2>2. \A k \in Prompts : Sound(cache[k])'
    BY <1>2, <2>1, SoundKept DEF Sound
  <2> QED  BY <1>3, <2>2, SoundKept DEF ImagesSound
<1>11. SavedInv'
  <2> SUFFICES ASSUME NEW k \in Prompts, cache'[k] \notin {None, Default}
               PROVE  (files[k] = "whole" \/ k \in spoilt \/ Saving(k))'
    BY DEF SavedInv
  <2>1. CASE k = p
    <3>1. img # Default
      BY <1>2, <1>3, <2>1 DEF ImageInv, ImageTypeOK
    <3> QED  BY <1>5, <2>1, <3>1 DEF Saving
  <2>2. CASE k # p
    <3>1. cache[k] = cache'[k]
      BY <1>3, <2>2 DEF ImageInv, ImageTypeOK
    <3> QED  BY <1>6, <3>1 DEF ImageInv, SavedInv
  <2> QED  BY <2>1, <2>2
<1>12. FileInv'
  BY <1>6, FilesKept
<1> QED  BY <1>6, <1>7, <1>8, <1>9, <1>10, <1>11, <1>12 DEF ImageInv

(* A quote is shown: a new call with nothing in hand but its quote.        *)
LEMMA ShowQuoteStep ==
    ASSUME ImageInv, NEW s \in Slots, NEW q \in Quotes, ShowQuote(s, q)
    PROVE  ImageInv'
<1>1. /\ await[s] = "idle" /\ current' = q /\ background' = None
      /\ await' = [await EXCEPT ![s] = "audio"] /\ quote' = [quote EXCEPT ![s] = q]
      /\ UNCHANGED <<shownKeys, prefetching, box, cache, stale, files, spoilt, prompt, image>>
  BY DEF ShowQuote, fileVars
<1>2. CallTypes' /\ OthersStay(s) /\ await'[s] = "audio" /\ quote'[s] = q
  BY <1>1 DEF ImageInv, ImageTypeOK, CallTypes, OthersStay, Awaits, Maybe
<1>3. CallInv' /\ \A k \in Prompts : Writing(k)' = Writing(k) /\ (Saving(k) => Saving(k)')
  BY <1>1, <1>2, OthersKnow
<1>4. ImageTypeOK'
  BY <1>1, <1>2 DEF ImageInv, ImageTypeOK, CallTypes, Awaits, Maybe
<1>5. StoredImageFits' /\ LookupsAreDead' /\ CacheInv'
  BY <1>1 DEF ImageInv, StoredImageFits, LookupsAreDead, CacheInv
<1>6. SavedInv' /\ FileInv'
  BY <1>1, <1>3, SavedKept, FilesKept
<1>7. ImagesSound'
  BY <1>1 DEF ImageInv, ImagesSound, Sound
<1> QED  BY <1>3, <1>4, <1>5, <1>6, <1>7 DEF ImageInv

(* The call has its quote's prompt answered from the cache, or goes on to  *)
(* the file.                                                               *)
LEMMA AudioDoneStep ==
    ASSUME ImageInv, NEW s \in Slots, AudioDone(s)
    PROVE  ImageInv'
<1> DEFINE q == quote[s]
<1>1. q \in Quotes /\ await[s] = "audio" /\ PromptsOf[q] \subseteq Prompts
  BY PromptsAssumption DEF AudioDone, ImageInv, CallInv
<1>2. \A k \in LookupKeys[q] : k \in BoxKeys /\ box[k] = None
  BY <1>1, LookupAssumption DEF ImageInv, LookupsAreDead, BoxKeys
<1>3. shownKeys' \subseteq BoxKeys /\ GenerateImage(s, q)
  BY <1>2 DEF AudioDone, FindImage, ImageInv, ImageTypeOK
<1>4. files' = files /\ spoilt' = spoilt
  BY DEF AudioDone, fileVars
<1>5. PICK k \in PromptsOf[q] :
        IF cache[k] # None /\ k \notin stale
          THEN /\ ShowImage(s, q, cache[k])
               /\ UNCHANGED <<cache, stale>>
          ELSE /\ cache' = [cache EXCEPT ![k] = None]
               /\ stale' = stale \ {k}
               /\ await' = [await EXCEPT ![s] = IF Writing(k) = {} THEN "read" ELSE "torn"]
               /\ quote' = [quote EXCEPT ![s] = q]
               /\ prompt' = [prompt EXCEPT ![s] = k]
               /\ UNCHANGED <<screenVars, image>>
  BY <1>3 DEF GenerateImage, BuildPrompt
<1>6. k \in Prompts
  BY <1>1
<1>7. CASE cache[k] # None /\ k \notin stale
  <2>0. PICK img : img = cache[k]
    OBVIOUS
  <2>1. img \in Image \cup {Default} /\ (img = Default \/ img.of \in PromptsOf[q]) /\ ShowImage(s, q, img)
    BY <1>5, <1>6, <1>7, <2>0 DEF ImageInv, ImageTypeOK, CacheInv, Maybe
  <2>2. cache' = cache /\ stale' = stale /\ Sound(img)'
    BY <1>4, <1>5, <1>6, <1>7, <2>0 DEF ImageInv, ImagesSound, Sound
  <2> HIDE DEF q
  <2>3. ShowOK(s)
    BY <1>1, <1>4, <2>1, <2>2, ShowStep
  <2>4. ImageTypeOK'
    BY <1>3, <1>4, <2>2, <2>3 DEF ImageInv, ImageTypeOK, ShowOK, CallTypes, Awaits
  <2>5. SavedInv' /\ FileInv' /\ CacheInv' /\ ImagesSound'
    <3>1. \A j \in Prompts : Writing(j)' = Writing(j) /\ (Saving(j) => Saving(j)')
      BY <1>1, <2>3 DEF ShowOK
    <3>2. SavedInv' /\ FileInv'
      BY <1>4, <2>2, <3>1, SavedKept, FilesKept
    <3>3. CacheInv' /\ \A j \in Prompts : Sound(cache[j])'
      BY <1>4, <2>2, SoundKept DEF ImageInv, CacheInv
    <3> QED  BY <2>3, <3>2, <3>3 DEF ImagesSound, ShowOK
  <2> QED  BY <2>3, <2>4, <2>5 DEF ImageInv, ShowOK
<1>8. CASE ~(cache[k] # None /\ k \notin stale)
  <2> DEFINE a == IF Writing(k) = {} THEN "read" ELSE "torn"
  <2>1. /\ cache' = [cache EXCEPT ![k] = None] /\ stale' = stale \ {k}
        /\ await' = [await EXCEPT ![s] = a] /\ quote' = [quote EXCEPT ![s] = q] /\ prompt' = [prompt EXCEPT ![s] = k]
        /\ UNCHANGED <<current, background, prefetching, box, image>>
    BY <1>5, <1>8 DEF screenVars
  <2>2. a \in {"read", "torn"} /\ (a = "read" => Writing(k) = {})
    OBVIOUS
  <2> HIDE DEF a
  <2>3. CallTypes' /\ OthersStay(s) /\ await'[s] = a /\ quote'[s] = q /\ prompt'[s] = k
    BY <1>1, <1>6, <2>1, <2>2 DEF ImageInv, ImageTypeOK, CallTypes, OthersStay, Awaits, Maybe
  <2> HIDE DEF q
  <2>4. CallInv' /\ \A j \in Prompts : Writing(j)' = Writing(j) /\ (Saving(j) => Saving(j)')
    BY <1>1, <2>2, <2>3, OthersKnow
  <2>5. ImageTypeOK'
    BY <1>3, <1>4, <1>6, <2>1, <2>3 DEF ImageInv, ImageTypeOK, CallTypes, Awaits, Maybe
  <2>6. StoredImageFits' /\ LookupsAreDead'
    BY <2>1 DEF ImageInv, StoredImageFits, LookupsAreDead
  <2>7. \A j \in Prompts : cache'[j] \in {cache[j], None}
    BY <2>1 DEF ImageInv, ImageTypeOK
  <2>8. CacheInv' /\ SavedInv' /\ FileInv'
    <3>1. CacheInv'
      BY <2>7, NoneAssumption DEF ImageInv, CacheInv, Image
    <3>2. SavedInv' /\ FileInv'
      BY <1>4, <2>4, <2>7, SavedKept, FilesKept
    <3> QED  BY <3>1, <3>2
  <2>9. ImagesSound'
    BY <1>4, <2>1, <2>7, SoundKept DEF ImagesSound
  <2> QED  BY <2>4, <2>5, <2>6, <2>8, <2>9 DEF ImageInv
<1> QED  BY <1>7, <1>8

(* The file was read into the cache, or there is none and the call makes a *)
(* request or takes the default.  What an undisturbed reading finds of a   *)
(* file that is not whole, an accident left there.                         *)
LEMMA FileReadStep ==
    ASSUME ImageInv, NEW s \in Slots, FileRead(s)
    PROVE  ImageInv'
<1>1. PICK k : k = prompt[s]
  OBVIOUS
<1>2. /\ await[s] \in {"read", "torn"} /\ quote[s] \in Quotes /\ k \in PromptsOf[quote[s]] /\ k \in Prompts
      /\ await[s] = "read" => Writing(k) = {}
  BY <1>1, PromptsAssumption DEF FileRead, ImageInv, CallInv
<1>3. /\ spoilt' = (IF await[s] = "torn" THEN spoilt \cup {k} ELSE spoilt) /\ shownKeys' = shownKeys /\ files' = files
      /\ spoilt \subseteq spoilt' /\ spoilt' \subseteq Prompts
  BY <1>1, <1>2 DEF FileRead, ImageInv, ImageTypeOK
<1>4. PICK img \in Read(s) :
          \/ /\ img # None
             /\ cache' = [cache EXCEPT ![k] = img]
             /\ stale' = stale \ {k}
             /\ ShowImage(s, quote[s], img)
          \/ /\ img = None /\ HasKey
             /\ await' = [await EXCEPT ![s] = "request"]
             /\ UNCHANGED <<screenVars, cache, stale, quote, prompt, image>>
          \/ /\ img = None /\ ~HasKey
             /\ CacheAndSave(s, Default)
  BY <1>1 DEF FileRead
<1>5. img # None => /\ img \in Image /\ img.of = k
                    /\ await[s] = "torn" \/ (img.whole = (files[k] = "whole") /\ files[k] # "none")
  <2>1. img # None => img \in {Whole(k), [of |-> k, whole |-> FALSE], [of |-> k, whole |-> files[k] = "whole"]}
                      /\ (await[s] = "torn" \/ (img = [of |-> k, whole |-> files[k] = "whole"] /\ files[k] # "none"))
    BY <1>1 DEF Read
  <2>2. [of |-> k, whole |-> FALSE] \in Image /\ [of |-> k, whole |-> FALSE].of = k
    BY <1>2 DEF Image
  <2>3. Whole(k) \in Image /\ Whole(k).of = k
    BY <1>2 DEF Image, Whole
  <2>4. [of |-> k, whole |-> files[k] = "whole"] \in Image /\ [of |-> k, whole |-> files[k] = "whole"].of = k
        /\ [of |-> k, whole |-> files[k] = "whole"].whole = (files[k] = "whole")
    BY <1>2 DEF Image
  <2> QED  BY <2>1, <2>2, <2>3, <2>4
<1>6. CASE img # None
  <2>1. cache' = [cache EXCEPT ![k] = img] /\ stale' = stale \ {k} /\ ShowImage(s, quote[s], img)
    BY <1>4, <1>6
  <2>2. files[k] = "whole" \/ k \in spoilt'
    <3>1. CASE await[s] = "torn"
      BY <1>3, <3>1
    <3>2. CASE await[s] = "read"
      <4>1. files[k] \in {"none", "cut", "mixed", "whole"} /\ files[k] # "none"
        BY <1>2, <1>5, <1>6, <3>2 DEF ImageInv, ImageTypeOK
      <4> QED  BY <1>2, <1>3, <3>2, <4>1 DEF ImageInv, FileInv
    <3> QED  BY <1>2, <3>1, <3>2
  <2>3. Sound(img)'
    BY <1>3, <1>5, <1>6, <2>2 DEF Sound
  <2>4. PICK q : q = quote[s]
    OBVIOUS
  <2>5. ShowOK(s)
    BY <1>2, <1>3, <1>5, <1>6, <2>1, <2>3, <2>4, ShowStep
  <2>6. cache'[k] = img /\ (\A j \in Prompts \ {k} : cache'[j] = cache[j])
        /\ cache' \in [Prompts -> Maybe(Image \cup {Default})] /\ \A j \in Prompts : cache'[j] = None => cache[j] = None
    BY <1>2, <1>5, <1>6, <2>1 DEF ImageInv, ImageTypeOK, Maybe
  <2>7. ImageTypeOK'
    BY <1>3, <2>1, <2>5, <2>6 DEF ImageInv, ImageTypeOK, ShowOK, CallTypes, Awaits
  <2>8. \A j \in Prompts : Writing(j)' = Writing(j) /\ (Saving(j) => Saving(j)')
    BY <1>2, <2>5 DEF ShowOK
  <2>9. SavedInv'
    <3> SUFFICES ASSUME NEW j \in Prompts, cache'[j] \notin {None, Default}
                 PROVE  (files[j] = "whole" \/ j \in spoilt \/ Saving(j))'
      BY DEF SavedInv
    <3>1. CASE j = k
      BY <1>3, <2>2, <3>1
    <3>2. CASE j # k
      BY <1>3, <2>6, <2>8, <3>2 DEF ImageInv, SavedInv
    <3> QED  BY <3>1, <3>2
  <2>10. FileInv'
    BY <1>3, <2>8, FilesKept
  <2>11. CacheInv'
    BY <1>5, <1>6, <2>6 DEF ImageInv, CacheInv
  <2>12. ImagesSound'
    <3>1. \A j \in Prompts : Sound(cache[j])'
      BY <1>3, <2>3, <2>6, SoundKept DEF Sound
    <3> QED  BY <2>5, <3>1 DEF ImagesSound, ShowOK
  <2> QED  BY <2>5, <2>7, <2>9, <2>10, <2>11, <2>12 DEF ImageInv, ShowOK
<1>7. CASE img = None /\ HasKey
  <2>1. /\ await' = [await EXCEPT ![s] = "request"]
        /\ UNCHANGED <<current, background, prefetching, box, cache, stale, quote, prompt, image>>
    BY <1>4, <1>7 DEF screenVars
  <2>2. CallTypes' /\ OthersStay(s) /\ await'[s] = "request" /\ quote'[s] = quote[s] /\ prompt'[s] = k
    BY <1>1, <2>1 DEF ImageInv, ImageTypeOK, CallTypes, OthersStay, Awaits
  <2>3. CallInv' /\ \A j \in Prompts : Writing(j)' = Writing(j) /\ (Saving(j) => Saving(j)')
    BY <1>2, <2>2, OthersKnow
  <2>4. ImageTypeOK'
    BY <1>3, <2>1, <2>2 DEF ImageInv, ImageTypeOK, CallTypes, Awaits
  <2>5. StoredImageFits' /\ LookupsAreDead' /\ CacheInv'
    BY <2>1 DEF ImageInv, StoredImageFits, LookupsAreDead, CacheInv
  <2>6. SavedInv' /\ FileInv'
    BY <1>3, <2>1, <2>3, SavedKept, FilesKept
  <2>7. ImagesSound'
    BY <1>3, <2>1, SoundKept DEF ImagesSound
  <2> QED  BY <2>3, <2>4, <2>5, <2>6, <2>7 DEF ImageInv
<1>8. CASE img = None /\ ~HasKey
  BY <1>2, <1>3, <1>4, <1>8, CacheAndSaveStep
<1> QED  BY <1>4, <1>6, <1>7, <1>8

(* The service answers or fails.                                           *)
LEMMA AnsweredStep ==
    ASSUME ImageInv, NEW s \in Slots, Answered(s) \/ RequestFailed(s)
    PROVE  ImageInv'
<1>1. await[s] = "request" /\ UNCHANGED <<shownKeys, files, spoilt>> /\ spoilt \subseteq Prompts
  BY DEF Answered, RequestFailed, fileVars, ImageInv, ImageTypeOK
<1>2. CacheAndSave(s, Whole(prompt[s])) \/ CacheAndSave(s, Default)
  BY DEF Answered, RequestFailed
<1> QED  BY <1>1, <1>2, CacheAndSaveStep

(* A file is opened for a save: it holds no whole image until that ends.   *)
LEMMA SaveOpensStep ==
    ASSUME ImageInv, NEW s \in Slots, SaveOpens(s)
    PROVE  ImageInv'
<1>1. PICK k : k = prompt[s]
  OBVIOUS
<1>2. /\ await[s] = "save" /\ image[s] = Whole(k) /\ image[s] # Default /\ quote[s] \in Quotes
      /\ k \in PromptsOf[quote[s]] /\ k \in Prompts
  BY <1>1, PromptsAssumption DEF SaveOpens, ImageInv, CallInv
<1>3. /\ files' = [files EXCEPT ![k] = IF Writing(k) = {} THEN "cut" ELSE "mixed"]
      /\ spoilt' = IF Writing(k) = {} THEN spoilt ELSE spoilt \cup {k}
      /\ UNCHANGED <<current, background, prefetching, box, shownKeys, cache, stale, quote, prompt, image>>
      /\ await' = [r \in Slots |-> IF r = s THEN "write"
                                   ELSE IF await[r] = "read" /\ prompt[r] = k THEN "torn" ELSE await[r]]
  BY <1>1 DEF SaveOpens, screenVars
<1>4. /\ await'[s] = "write" /\ await' \in [Slots -> Awaits]
      /\ \A r \in Slots \ {s} : \/ await'[r] = await[r] /\ (await[r] = "read" => prompt[r] # k)
                                \/ await[r] = "read" /\ await'[r] = "torn"
  BY <1>3 DEF ImageInv, ImageTypeOK, Awaits
<1>5. spoilt \subseteq spoilt' /\ spoilt' \subseteq Prompts
  BY <1>2, <1>3 DEF ImageInv, ImageTypeOK
<1>6. \A j : Writing(j)' = IF j = k THEN Writing(j) \cup {s} ELSE Writing(j)
  BY <1>1, <1>2, <1>3, <1>4 DEF Writing
<1>7. \A j : Saving(j) => Saving(j)'
  BY <1>3, <1>4 DEF Saving
<1>8. Saving(k)'
  BY <1>1, <1>2, <1>3, <1>4 DEF Saving
<1>9. CallInv'
  <2> SUFFICES ASSUME NEW r \in Slots
               PROVE  /\ await'[r] # "idle" => quote'[r] \in Quotes
                      /\ await'[r] \in {"read", "torn", "request", "save", "write"} => prompt'[r] \in PromptsOf[quote'[r]]
                      /\ await'[r] \in {"save", "write"} => image'[r] \in {Whole(prompt'[r]), Default}
                      /\ await'[r] = "write" => image'[r] # Default
                      /\ await'[r] = "read" => Writing(prompt[r])' = {}
    BY DEF CallInv, Whole
  <2>1. CASE r = s
    BY <1>1, <1>2, <1>3, <1>4, <2>1
  <2>2. CASE r # s
    BY <1>3, <1>4, <1>6, <2>2 DEF ImageInv, CallInv
  <2> QED  BY <2>1, <2>2
<1>10. ImageTypeOK'
  BY <1>3, <1>4, <1>5 DEF ImageInv, ImageTypeOK, Awaits
<1>11. StoredImageFits' /\ LookupsAreDead' /\ CacheInv'
  BY <1>3 DEF ImageInv, StoredImageFits, LookupsAreDead, CacheInv
<1>12. ImagesSound'
  BY <1>3, <1>5, SoundKept DEF ImagesSound
<1>13. \A j \in Prompts \ {k} : files'[j] = files[j]
  BY <1>3 DEF ImageInv, ImageTypeOK
<1>14. SavedInv'
  <2>1. \A j \in Prompts : cache[j] \notin {None, Default} => j = k \/ files'[j] = "whole" \/ j \in spoilt' \/ Saving(j)'
    BY <1>5, <1>7, <1>13 DEF ImageInv, SavedInv
  <2> QED  BY <1>3, <1>8, <2>1 DEF SavedInv
<1>15. FileInv'
  <2>1. ASSUME NEW j \in Prompts \ {k}
        PROVE  (files'[j] = "cut" => j \in spoilt' \/ Writing(j)' # {}) /\ (files'[j] = "mixed" => j \in spoilt')
    BY <1>5, <1>6, <1>13 DEF ImageInv, FileInv
  <2>2. (files'[k] = "cut" => k \in spoilt' \/ Writing(k)' # {}) /\ (files'[k] = "mixed" => k \in spoilt')
    <3>1. Writing(k)' # {}
      BY <1>6
    <3>2. files'[k] = IF Writing(k) = {} THEN "cut" ELSE "mixed"
      BY <1>2, <1>3 DEF ImageInv, ImageTypeOK
    <3> QED  BY <1>3, <3>1, <3>2
  <2> QED  BY <2>1, <2>2 DEF FileInv
<1> QED  BY <1>9, <1>10, <1>11, <1>12, <1>14, <1>15 DEF ImageInv

(* A save has returned: what it was for is on file, or known to have had   *)
(* an accident; a default goes nowhere.                                    *)
LEMMA SaveEndsStep ==
    ASSUME ImageInv, NEW s \in Slots, NotSaved(s) \/ Saved(s) \/ SaveFailed(s)
    PROVE  ImageInv'
<1>1. PICK k, q, img : k = prompt[s] /\ q = quote[s] /\ img = image[s]
  OBVIOUS
<1>2. /\ await[s] \in {"save", "write"} /\ q \in Quotes /\ k \in PromptsOf[q] /\ k \in Prompts
      /\ img \in {Whole(k), Default}
      /\ await[s] = "write" => img # Default
  BY <1>1, PromptsAssumption DEF NotSaved, Saved, SaveFailed, ImageInv, CallInv
<1>3. Whole(k) \in Image /\ Whole(k).of = k /\ Whole(k).whole
  BY <1>2 DEF Image, Whole
<1>4. ShowImage(s, q, img) /\ UNCHANGED <<shownKeys, cache, stale>>
  BY <1>1 DEF NotSaved, Saved, SaveFailed
<1>5. \/ img = Default /\ UNCHANGED <<files, spoilt>> /\ await[s] = "save"
      \/ files[k] = "mixed" /\ UNCHANGED <<files, spoilt>>
      \/ files' = [files EXCEPT ![k] = "whole"] /\ UNCHANGED spoilt
      \/ UNCHANGED files /\ spoilt' = spoilt \cup {k}
  BY <1>1 DEF NotSaved, Saved, SaveFailed, fileVars
<1>6. spoilt \subseteq spoilt' /\ spoilt' \subseteq Prompts /\ files' \in [Prompts -> {"none", "cut", "mixed", "whole"}]
  BY <1>2, <1>5 DEF ImageInv, ImageTypeOK
<1>7. Sound(img)' /\ img \in Image \cup {Default} /\ (img = Default \/ img.of \in PromptsOf[q])
  BY <1>2, <1>3 DEF Sound
<1>8. ShowOK(s)
  BY <1>2, <1>4, <1>6, <1>7, ShowStep
<1>9. ImageTypeOK'
  BY <1>4, <1>6, <1>8 DEF ImageInv, ImageTypeOK, ShowOK, CallTypes, Awaits
<1>10. CacheInv' /\ ImagesSound'
  <2>1. CacheInv' /\ \A j \in Prompts : Sound(cache[j])'
    BY <1>4, <1>6, SoundKept DEF ImageInv, CacheInv
  <2> QED  BY <1>8, <2>1 DEF ImagesSound, ShowOK
<1>11. \A j \in Prompts : files'[j] = files[j] \/ files'[j] = "whole"
  BY <1>5 DEF ImageInv, ImageTypeOK
<1>12. img # Default => files'[k] = "whole" \/ k \in spoilt'
  BY <1>2, <1>5 DEF ImageInv, ImageTypeOK, FileInv
<1>13. SavedInv'
  <2> SUFFICES ASSUME NEW j \in Prompts, cache[j] \notin {None, Default}
               PROVE  (files[j] = "whole" \/ j \in spoilt \/ Saving(j))'
    BY <1>4 DEF SavedInv
  <2>1. CASE files[j] = "whole" \/ j \in spoilt
    BY <1>6, <1>11, <2>1
  <2>2. CASE Saving(j)
    <3>1. Saving(j)' \/ (prompt[s] = j /\ image[s] # Default)
      BY <1>8, <2>2 DEF ShowOK
    <3> QED  BY <1>1, <1>12, <3>1
  <2> QED  BY <2>1, <2>2 DEF ImageInv, SavedInv
<1>14. FileInv'
  <2> SUFFICES ASSUME NEW j \in Prompts, files'[j] = files[j]
               PROVE  /\ files[j] = "cut" => j \in spoilt' \/ Writing(j)' # {}
                      /\ files[j] = "mixed" => j \in spoilt'
    BY <1>11 DEF FileInv
  <2>1. files[j] = "mixed" => j \in spoilt'
    BY <1>6 DEF ImageInv, FileInv
  <2>2. CASE await[s] # "write"
    BY <1>6, <1>8, <2>1, <2>2 DEF ImageInv, FileInv, ShowOK
  <2>3. CASE await[s] = "write" /\ j = k
    BY <1>2, <1>12, <2>1, <2>3
  <2>4. CASE await[s] = "write" /\ j # k
    <3>1. Writing(j)' = Writing(j)
      BY <1>1, <1>8, <2>4 DEF Writing, ShowOK, OthersStay
    <3> QED  BY <1>6, <2>1, <3>1 DEF ImageInv, FileInv
  <2> QED  BY <2>2, <2>3, <2>4
<1> QED  BY <1>8, <1>9, <1>10, <1>13, <1>14 DEF ImageInv, ShowOK

(* 24 hours pass: an entry of the memory cache is taken as old, none goes. *)
LEMMA ExpireStep ==
    ASSUME ImageInv, NEW k \in Prompts, Expire(k)
    PROVE  ImageInv'
<1>1. /\ UNCHANGED <<current, background, prefetching, box, shownKeys, cache, files, spoilt, await, quote, prompt, image>>
      /\ stale' = stale \cup {k} /\ cache[k] # None
  BY DEF Expire, screenVars, fileVars
<1>2. ImageTypeOK'
  BY <1>1 DEF ImageInv, ImageTypeOK
<1>3. \A j : Writing(j)' = Writing(j) /\ Saving(j)' = Saving(j)
  BY <1>1 DEF Writing, Saving
<1>4. CallInv' /\ SavedInv' /\ FileInv'
  BY <1>1, <1>3 DEF ImageInv, CallInv, SavedInv, FileInv, Whole
<1>5. StoredImageFits' /\ LookupsAreDead' /\ CacheInv' /\ ImagesSound'
  BY <1>1 DEF ImageInv, StoredImageFits, LookupsAreDead, CacheInv, ImagesSound, Sound
<1> QED  BY <1>2, <1>4, <1>5 DEF ImageInv

(* A restart leaves the files as they are, the stored images, and no call. *)
LEMMA RestartStep ==
    ASSUME ImageInv, Restart
    PROVE  ImageInv'
<1>1. /\ background' = None /\ UNCHANGED <<box, files>> /\ prefetching' = FALSE
      /\ cache' = [k \in Prompts |-> None] /\ await' = [s \in Slots |-> "idle"]
      /\ spoilt' = spoilt \cup {k \in Prompts : Writing(k) # {}}
  BY DEF Restart
<1>2. ImageTypeOK'
  BY DEF ImageInv, ImageTypeOK, Restart, Maybe
<1>3. StoredImageFits' /\ LookupsAreDead' /\ CallInv' /\ SavedInv'
  BY <1>1 DEF ImageInv, StoredImageFits, LookupsAreDead, CallInv, SavedInv
<1>4. CacheInv'
  BY <1>1, NoneAssumption DEF CacheInv, Image
<1>5. ImagesSound'
  <2>1. \A k \in Prompts : cache'[k] = None
    BY <1>1
  <2> QED  BY <1>1, <2>1 DEF ImageInv, ImagesSound, Sound
<1>6. FileInv'
  BY <1>1 DEF ImageInv, FileInv
<1> QED  BY <1>2, <1>3, <1>4, <1>5, <1>6 DEF ImageInv

(* Every step keeps the invariant.                                         *)
LEMMA ImageInvNext == ImageInv /\ [ImageNext]_imageVars => ImageInv'
<1> SUFFICES ASSUME ImageInv, [ImageNext]_imageVars PROVE ImageInv'
  OBVIOUS
<1>1. ASSUME NEW s \in Slots, NEW q \in Quotes, ShowQuote(s, q) PROVE ImageInv'
  BY <1>1, ShowQuoteStep
<1>2. ASSUME NEW s \in Slots, AudioDone(s) PROVE ImageInv'
  BY <1>2, AudioDoneStep
<1>3. ASSUME NEW s \in Slots, FileRead(s) PROVE ImageInv'
  BY <1>3, FileReadStep
<1>4. ASSUME NEW s \in Slots, Answered(s) \/ RequestFailed(s) PROVE ImageInv'
  BY <1>4, AnsweredStep
<1>5. ASSUME NEW s \in Slots, SaveOpens(s) PROVE ImageInv'
  BY <1>5, SaveOpensStep
<1>6. ASSUME NEW s \in Slots, NotSaved(s) \/ Saved(s) \/ SaveFailed(s) PROVE ImageInv'
  BY <1>6, SaveEndsStep
<1>7. ASSUME NEW k \in Prompts, Expire(k) PROVE ImageInv'
  BY <1>7, ExpireStep
<1>8. CASE Restart
  BY <1>8, RestartStep
<1>9. CASE UNCHANGED imageVars
  <2>1. UNCHANGED <<current, background, shownKeys, prefetching, box, cache, stale, files, spoilt, await, quote, prompt, image>>
    BY <1>9 DEF imageVars, fileVars
  <2>2. \A j : Writing(j)' = Writing(j) /\ Saving(j)' = Saving(j)
    BY <2>1 DEF Writing, Saving
  <2>3. ImageTypeOK' /\ StoredImageFits' /\ LookupsAreDead' /\ CacheInv' /\ ImagesSound'
    BY <2>1 DEF ImageInv, ImageTypeOK, StoredImageFits, LookupsAreDead, CacheInv, ImagesSound, Sound
  <2>4. CallInv' /\ SavedInv' /\ FileInv'
    BY <2>1, <2>2 DEF ImageInv, CallInv, SavedInv, FileInv, Whole
  <2> QED  BY <2>3, <2>4 DEF ImageInv
<1> QED  BY <1>1, <1>2, <1>3, <1>4, <1>5, <1>6, <1>7, <1>8, <1>9 DEF ImageNext

(* Whatever calls overlap, whatever fails and whenever the app is killed:  *)
(* the image stored for a quote was made from one of its prompts; an image *)
(* in memory is on file, or being saved; and a part of an image is nowhere *)
(* but where a save of that image failed, was cut short by a kill, or met  *)
(* another call at the same file.                                          *)
THEOREM ImagesAreRight == ImageSpec => []ImagesOK
<1>1. ImageInv => ImagesOK
  BY ImageInvImplies
<1> QED  BY <1>1, ImageInvInit, ImageInvNext, PTL DEF ImageSpec

(* The lookup of lines 171-198 never finds a stored image and the prefetch *)
(* it would start never runs: no key it tries is one that is ever stored.  *)
THEOREM StoredImagesAreNeverReused == ImageSpec => []LookupsAreDead
<1>1. ImageInv => LookupsAreDead
  BY ImageInvImplies
<1> QED  BY <1>1, ImageInvInit, ImageInvNext, PTL DEF ImageSpec
=============================================================================
