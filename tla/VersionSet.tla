----------------------------- MODULE VersionSet -----------------------------
(***************************************************************************)
(* The levels of LevelDB (db/version_set.cc) and what compactions do to    *)
(* them (db/db_impl.cc): where a memtable is flushed to, which files a     *)
(* compaction takes, which entries it drops, how its output is cut into    *)
(* files, and how Get searches the levels.  A flush may come between the   *)
(* choice of a compaction's inputs and the installation of its outputs.    *)
(*                                                                         *)
(* An entry is a user key, a sequence number and whether it is a deletion; *)
(* its value is its sequence number.  A file is its number and its entries;*)
(* its size is the number of its entries.                                  *)
(***************************************************************************)
EXTENDS Naturals, Sequences, FiniteSets, SequencesExt, FiniteSetsExt

CONSTANTS
  Keys,          \* user keys, numbers
  NumLevels,     \* config::kNumLevels
  LevelLimit,    \* level -> files (level 0) or size at which it is compacted
  MaxFileSize,   \* options.max_file_size
  GrandparentLimit, ExpandLimit,  \* MaxGrandParentOverlapBytes, ExpandedCompactionByteSizeLimit
  MaxNum,        \* bound on the file numbers
  Plans          \* the workloads: the keys each write may be of, the number of
                 \* snapshots at a time, of failed compactions; manual ones or
                 \* not; and config::kMaxMemCompactLevel

ASSUME LevelAssumption ==
  /\ Keys \subseteq Nat /\ NumLevels \in Nat /\ NumLevels >= 3
  /\ LevelLimit \in [0..(NumLevels - 2) -> Nat \ {0}]
  /\ {MaxFileSize, GrandparentLimit, ExpandLimit} \subseteq Nat /\ MaxFileSize > 0
  /\ MaxNum \in Nat
  /\ Plans \subseteq [writes : Seq(SUBSET Keys), snapshots : Nat, errors : Nat,
                      manual : BOOLEAN, memLevel : 0..(NumLevels - 1)]

VARIABLES
  files,     \* level -> its files, in the current version
  mem,       \* the entries of the memtable
  seq,       \* last_sequence_
  snaps,     \* snapshots_
  ptr,       \* level -> compact_pointer_, <<>> when empty
  next,      \* next_file_number_
  comp,      \* the compaction at work
  plan,      \* the workload
  errors,    \* compactions that failed so far
  written,   \* history: every entry ever written
  flaws      \* history: "split", a user key was spread over two files of a
             \* level; "gap", a flush landed between the inputs of a manual
             \* compaction in the level of its outputs

vars == <<files, mem, seq, snaps, ptr, next, comp, plan, errors, written, flaws>>

Levels == 0..(NumLevels - 1)
NoComp == [on |-> FALSE]

(***************************************************************************)
(* Internal keys: by user key, then newest first (dbformat.cc)             *)
(***************************************************************************)
IKey(e) == <<e.k, e.s>>
ILess(a, b) == a[1] < b[1] \/ (a[1] = b[1] /\ a[2] > b[2])
ILeq(a, b) == a = b \/ ILess(a, b)
IMin(S) == CHOOSE a \in S : \A b \in S : ILeq(a, b)
IMax(S) == CHOOSE a \in S : \A b \in S : ILeq(b, a)

Smallest(f) == IMin({IKey(e) : e \in f.ents})
Largest(f) == IMax({IKey(e) : e \in f.ents})
Low(f) == Smallest(f)[1]
High(f) == Largest(f)[1]
TotalFileSize(F) == MapThenSumSet(LAMBDA f : Cardinality(f.ents), F)
Sorted(F) ==
  SetToSortSeq(F, LAMBDA f, g : ILess(Smallest(f), Smallest(g))
                                \/ (Smallest(f) = Smallest(g) /\ f.num < g.num))

(***************************************************************************)
(* Which files a range of user keys touches                                *)
(***************************************************************************)
Overlaps(f, lo, hi) == Low(f) <= hi /\ High(f) >= lo

(* OverlapInLevel; the levels above 0 are disjoint, so that the binary     *)
(* search finds the same answer as a look at every file.                   *)
OverlapInLevel(l, lo, hi) == \E f \in files[l] : Overlaps(f, lo, hi)

(* The binary search of the files of a level for an internal key.          *)
FindFile(F, ik) ==
  LET at == {f \in F : ILeq(ik, Largest(f))}
  IN {f \in at : \A g \in at : ILeq(Largest(f), Largest(g))}

(* GetOverlappingInputs: in level 0 the range grows with every file that   *)
(* is found, and the search starts again.                                  *)
GetOverlappingInputs(V, l, lo, hi) ==
  LET Grow(r, i) ==
        LET hit == {f \in V[l] : Overlaps(f, r[1], r[2])}
        IN IF l > 0 \/ hit = {} THEN r
           ELSE <<Min({r[1]} \cup {Low(f) : f \in hit}), Max({r[2]} \cup {High(f) : f \in hit})>>
      range == FoldSet(LAMBDA f, r : Grow(r, f), <<lo, hi>>, V[l])
  IN {f \in V[l] : Overlaps(f, range[1], range[2])}

(* Mutant: the files that share the last user key are left behind.         *)
NoBoundaryInputs(F, inputs) == inputs

(* AddBoundaryInputs: as long as the level has a file that goes on with    *)
(* older entries of the last user key, that file is taken too.             *)
AddBoundaryInputs(F, inputs) ==
  LET Step(I, i) ==
        LET last == IMax({Largest(f) : f \in I})
            on == {f \in F : ILess(last, Smallest(f)) /\ Low(f) = last[1]}
        IN IF I = {} \/ on = {} THEN I
           ELSE I \cup {CHOOSE f \in on : \A g \in on : ILeq(Smallest(f), Smallest(g))}
  IN FoldSet(LAMBDA f, I : Step(I, f), inputs, F)

RangeLow(F) == Min({Low(f) : f \in F})
RangeHigh(F) == Max({High(f) : f \in F})

(***************************************************************************)
(* Get: the memtable, then level by level                                  *)
(***************************************************************************)
(* The newest entry of key k in E that is visible at sequence number s.    *)
Lookup(E, k, s) ==
  LET old == {e \in E : e.k = k /\ e.s <= s}
  IN {e \in old : \A o \in old : o.s <= e.s}

(* The files Get reads, in its order: level 0 newest first, then at most   *)
(* one file of each level.                                                 *)
SearchOrder(k, s) ==
  LET zero == SetToSortSeq({f \in files[0] : Low(f) <= k /\ k <= High(f)}, LAMBDA f, g : f.num > g.num)
      In(l) == SetToSeq({f \in FindFile(files[l], <<k, s>>) : Low(f) <= k})
  IN zero \o FlattenSeq([l \in 1..(NumLevels - 1) |-> In(l)])

Answer(E) == IF E = {} THEN 0 ELSE LET e == CHOOSE x \in E : TRUE IN IF e.del THEN 0 ELSE e.s

Get(k, s) ==
  LET order == SearchOrder(k, s)
      hits == SelectSeq(order, LAMBDA f : Lookup(f.ents, k, s) # {})
  IN Answer(IF Lookup(mem, k, s) # {} THEN Lookup(mem, k, s)
            ELSE IF hits = <<>> THEN {} ELSE Lookup(hits[1].ents, k, s))

(* UpdateStats and RecordReadSample charge the first file of a search that *)
(* needed a second one; any charge may be the one that exhausts it.        *)
ChargedFiles ==
  {<<l, f>> \in UNION {{l} \X files[l] : l \in 0..(NumLevels - 2)} :
     \E k \in Keys : LET o == SearchOrder(k, seq) IN Len(o) >= 2 /\ o[1] = f}

(***************************************************************************)
(* Writes and snapshots                                                    *)
(***************************************************************************)
Init ==
  /\ files = [l \in Levels |-> {}] /\ mem = {} /\ seq = 0 /\ snaps = {}
  /\ ptr = [l \in Levels |-> <<>>] /\ next = 1 /\ comp = NoComp
  /\ plan \in Plans /\ errors = 0 /\ written = {} /\ flaws = {}

Write(k, del) ==
  /\ seq < Len(plan.writes) /\ k \in plan.writes[seq + 1]
  /\ seq' = seq + 1
  /\ LET e == [k |-> k, s |-> seq + 1, del |-> del]
     IN mem' = mem \cup {e} /\ written' = written \cup {e}
  /\ UNCHANGED <<files, snaps, ptr, next, comp, plan, errors, flaws>>

GetSnapshot ==
  /\ Cardinality(snaps) < plan.snapshots
  /\ snaps' = snaps \cup {seq}
  /\ UNCHANGED <<files, mem, seq, ptr, next, comp, plan, errors, written, flaws>>

ReleaseSnapshot(s) ==
  /\ s \in snaps
  /\ snaps' = snaps \ {s}
  /\ UNCHANGED <<files, mem, seq, ptr, next, comp, plan, errors, written, flaws>>

(***************************************************************************)
(* The flush of the memtable                                               *)
(***************************************************************************)
(* PickLevelForMemTableOutput: below level 0 as long as nothing there      *)
(* overlaps and not too much in the level after.                           *)
MayPush(l, lo, hi) ==
  /\ ~OverlapInLevel(l + 1, lo, hi)
  /\ l + 2 < NumLevels => TotalFileSize(GetOverlappingInputs(files, l + 2, lo, hi)) <= GrandparentLimit

PickLevelForMemTableOutput(lo, hi) ==
  IF OverlapInLevel(0, lo, hi) THEN 0
  ELSE Max({l \in 0..plan.memLevel : \A m \in 0..(l - 1) : MayPush(m, lo, hi)})

(* History: the flush joins the level a running manual compaction writes   *)
(* to, inside the range of its inputs, which leave a gap there.            *)
FallsInGap(l, lo, hi) ==
  /\ comp.on /\ comp.manual /\ l = comp.level + 1
  /\ RangeLow(comp.in0 \cup comp.in1) <= hi /\ lo <= RangeHigh(comp.in0 \cup comp.in1)

FlushMemTable ==
  /\ mem # {} /\ next <= MaxNum
  /\ LET ks == {e.k : e \in mem}
         l == PickLevelForMemTableOutput(Min(ks), Max(ks))
     IN /\ files' = [files EXCEPT ![l] = @ \cup {[num |-> next, ents |-> mem]}]
        /\ flaws' = IF FallsInGap(l, Min(ks), Max(ks)) THEN flaws \cup {"gap"} ELSE flaws
  /\ next' = next + 1 /\ mem' = {}
  /\ UNCHANGED <<seq, snaps, ptr, comp, plan, errors, written>>

(***************************************************************************)
(* The choice of a compaction                                              *)
(***************************************************************************)
(* Finalize: the level with the largest score, the first one of equals.    *)
LevelSize(l) == IF l = 0 THEN Cardinality(files[0]) ELSE TotalFileSize(files[l])
ScoreAbove(l, m) == LevelSize(l) * LevelLimit[m] > LevelSize(m) * LevelLimit[l]
CompactionLevel ==
  CHOOSE l \in 0..(NumLevels - 2) :
    \A m \in 0..(NumLevels - 2) : ~ScoreAbove(m, l) /\ (m < l => ScoreAbove(l, m))
NeedsSizeCompaction == LevelSize(CompactionLevel) >= LevelLimit[CompactionLevel]

(* The inputs of a compaction are a pair: the files of level l, the files  *)
(* of level l + 1 in their range.                                          *)
OverlappingFiles(l, F) == GetOverlappingInputs(files, l, RangeLow(F), RangeHigh(F))
InputPair(l, in0) == <<in0, OverlappingFiles(l + 1, in0)>>

(* More of level l, when that costs no more files of level l + 1.          *)
ExpandedPair(l, in) == InputPair(l, AddBoundaryInputs(files[l], OverlappingFiles(l, in[1] \cup in[2])))
MayExpand(in, ex) ==
  /\ in[2] # {} /\ Cardinality(ex[1]) > Cardinality(in[1])
  /\ TotalFileSize(in[2]) + TotalFileSize(ex[1]) < ExpandLimit
  /\ Cardinality(ex[2]) = Cardinality(in[2])
ChosenPair(in, ex) == IF MayExpand(in, ex) THEN ex ELSE in

(* The compaction with its grandparents and the oldest snapshot.           *)
Compaction(l, in, manual) ==
  [on |-> TRUE, level |-> l, in0 |-> in[1], in1 |-> in[2], base |-> files,
   grand |-> IF l + 2 < NumLevels THEN OverlappingFiles(l + 2, in[1] \cup in[2]) ELSE {},
   low |-> IF snaps = {} THEN seq ELSE Min(snaps), manual |-> manual]

SetupInputs(l, in, manual) == Compaction(l, ChosenPair(in, ExpandedPair(l, in)), manual)
SetupOtherInputs(l, first, manual) ==
  SetupInputs(l, InputPair(l, AddBoundaryInputs(files[l], first)), manual)

IsTrivialMove(c) ==
  Cardinality(c.in0) = 1 /\ c.in1 = {} /\ TotalFileSize(c.grand) <= GrandparentLimit

(* BackgroundCompaction starts on c: a move is done at once. *)
StartCompaction(c) ==
  /\ ptr' = [ptr EXCEPT ![c.level] = IMax({Largest(f) : f \in c.in0})]
  /\ IF IsTrivialMove(c) /\ ~c.manual
     THEN /\ files' = [files EXCEPT ![c.level] = @ \ c.in0, ![c.level + 1] = @ \cup c.in0]
          /\ UNCHANGED comp
     ELSE comp' = c /\ UNCHANGED files
  /\ UNCHANGED <<mem, seq, snaps, next, plan, errors, written, flaws>>

(* In level 0 everything that overlaps the chosen file. *)
WithOverlapping(l, f) ==
  IF l = 0 THEN GetOverlappingInputs(files, 0, Low(f), High(f)) ELSE {f}

(* The first file behind the compaction pointer p, or the first file.      *)
FirstBehind(order, p) ==
  LET behind == SelectSeq(order, LAMBDA f : p = <<>> \/ ILess(p, Largest(f)))
  IN IF behind = <<>> THEN order[1] ELSE behind[1]

(* PickCompaction for a level that is too large. *)
PickSizeCompaction ==
  /\ ~comp.on /\ NeedsSizeCompaction
  /\ LET l == CompactionLevel
     IN StartCompaction(SetupOtherInputs(l, WithOverlapping(l, FirstBehind(Sorted(files[l]), ptr[l])), FALSE))

PickSeekCompaction ==
  /\ ~comp.on /\ ~NeedsSizeCompaction
  /\ \E c \in ChargedFiles : StartCompaction(SetupOtherInputs(c[1], WithOverlapping(c[1], c[2]), FALSE))

(* VersionSet::CompactRange: below level 0 no more files than fill one.    *)
FillsOne(order) == {n \in 1..Len(order) : TotalFileSize({order[i] : i \in 1..n}) >= MaxFileSize}
AsFarAs(order, cut) == IF cut = {} THEN Range(order) ELSE {order[i] : i \in 1..Min(cut)}
Limited(l, all, order) == IF l = 0 THEN all ELSE AsFarAs(order, FillsOne(order))
CompactFiles(l, all) ==
  /\ all # {}
  /\ StartCompaction(SetupOtherInputs(l, Limited(l, all, Sorted(all)), TRUE))
CompactRange(l, lo, hi) ==
  /\ plan.manual /\ ~comp.on
  /\ CompactFiles(l, GetOverlappingInputs(files, l, lo, hi))

(***************************************************************************)
(* DoCompactionWork                                                        *)
(***************************************************************************)
InputEntries == UNION {f.ents : f \in comp.in0 \cup comp.in1}

(* No level below the output's holds the key. *)
IsBaseLevelForKey(k) ==
  \A l \in (comp.level + 2)..(NumLevels - 1) :
    ~\E f \in comp.base[l] : Low(f) <= k /\ k <= High(f)

(* Mutant: entries no reader asks for now are dropped, snapshots ignored.  *)
DroppedForLatest(e) ==
  \/ \E n \in InputEntries : n.k = e.k /\ n.s > e.s
  \/ e.del /\ e.s <= comp.low /\ IsBaseLevelForKey(e.k)

(* An entry goes when a newer one of its key is already old enough for     *)
(* every snapshot, or when it is a deletion with nothing below to delete.  *)
Dropped(e) ==
  \/ \E n \in InputEntries : n.k = e.k /\ n.s > e.s /\ n.s <= comp.low
  \/ e.del /\ e.s <= comp.low /\ IsBaseLevelForKey(e.k)

(* ShouldStopBefore: the grandparents the output has passed, in bytes.     *)
Passed(acc, ik) == {g \in comp.grand \ acc.gone : ILess(Largest(g), ik)}
Passing(acc, ik) ==
  LET over == acc.over + (IF acc.seen THEN TotalFileSize(Passed(acc, ik)) ELSE 0)
  IN [acc EXCEPT !.gone = @ \cup Passed(acc, ik), !.seen = TRUE, !.over = over]

(* The loop over the merged input: an output is closed when it would       *)
(* overlap too many grandparents, the entry is added or dropped, and the   *)
(* output is closed when it is full.                                       *)
Closed(acc) ==
  IF acc.cur = {} THEN acc ELSE [acc EXCEPT !.outs = Append(@, acc.cur), !.cur = {}]
StopBefore(acc) == IF acc.over > GrandparentLimit THEN Closed([acc EXCEPT !.over = 0]) ELSE acc
AddEntry(acc, e) == IF Dropped(e) THEN acc ELSE [acc EXCEPT !.cur = @ \cup {e}]
CloseIfFull(acc) == IF Cardinality(acc.cur) >= MaxFileSize THEN Closed(acc) ELSE acc
Consume(acc, e) == CloseIfFull(AddEntry(StopBefore(Passing(acc, IKey(e))), e))

(* The whole input, in the order of its internal keys. *)
Merged ==
  FoldLeft(Consume, [cur |-> {}, outs |-> <<>>, gone |-> {}, seen |-> FALSE, over |-> 0],
           SetToSortSeq(InputEntries, LAMBDA x, y : ILess(IKey(x), IKey(y))))

Outputs == Closed(Merged).outs

(* History: two outputs share a user key. *)
SplitsKey(outs) ==
  \E i, j \in DOMAIN outs : i # j /\ {e.k : e \in outs[i]} \cap {e.k : e \in outs[j]} # {}

(* InstallCompactionResults: the inputs go, the outputs join level + 1.    *)
InstallOutputs(outs) ==
  /\ next + Len(outs) <= MaxNum + 1
  /\ LET made == {[num |-> next + i - 1, ents |-> outs[i]] : i \in DOMAIN outs}
     IN files' = [files EXCEPT ![comp.level] = @ \ comp.in0,
                               ![comp.level + 1] = (@ \ comp.in1) \cup made]
  /\ flaws' = IF SplitsKey(outs) THEN flaws \cup {"split"} ELSE flaws
  /\ next' = next + Len(outs)
InstallCompactionResults ==
  /\ comp.on
  /\ InstallOutputs(Outputs)
  /\ comp' = NoComp
  /\ UNCHANGED <<mem, seq, snaps, ptr, plan, errors, written>>

(* An error: nothing is installed; the pointer has moved on. *)
AbandonCompaction ==
  /\ comp.on /\ errors < plan.errors
  /\ comp' = NoComp /\ errors' = errors + 1
  /\ UNCHANGED <<files, mem, seq, snaps, ptr, next, plan, written, flaws>>

Next ==
  \/ \E k \in Keys, del \in BOOLEAN : Write(k, del)
  \/ GetSnapshot \/ \E s \in snaps : ReleaseSnapshot(s)
  \/ FlushMemTable
  \/ PickSizeCompaction \/ PickSeekCompaction
  \/ \E l \in 0..(NumLevels - 2), lo \in Keys, hi \in Keys : lo <= hi /\ CompactRange(l, lo, hi)
  \/ InstallCompactionResults \/ AbandonCompaction

Spec == Init /\ [][Next]_vars

-----------------------------------------------------------------------------
EntryType == [k : Keys, s : Nat, del : BOOLEAN]

(* The types of the levels, the memtable and the snapshots. *)
TypeOK ==
  /\ DOMAIN files = Levels
  /\ \A l \in Levels : \A f \in files[l] :
       f.num \in 1..MaxNum /\ f.ents # {} /\ f.ents \subseteq EntryType
  /\ mem \subseteq EntryType /\ written \subseteq EntryType /\ seq \in 0..Len(plan.writes)
  /\ snaps \subseteq 0..seq /\ next \in 1..(MaxNum + 1) /\ comp.on \in BOOLEAN
  /\ flaws \subseteq {"split", "gap"}

(* Below level 0 no two files of a level have a key in the range of both,  *)
(* whatever is flushed while a compaction works: what Version::Get's       *)
(* binary search and the check in Builder::SaveTo rely on.                 *)
LevelsDisjoint ==
  "gap" \notin flaws =>
    \A l \in 1..(NumLevels - 1) : \A f, g \in files[l] :
      f # g => ILess(Largest(f), Smallest(g)) \/ ILess(Largest(g), Smallest(f))

(* The newer entries of a key are in the upper levels: the reason why Get  *)
(* may stop at the first level that has the key.                           *)
NewerAbove ==
  "gap" \notin flaws =>
    \A l, m \in Levels : l < m =>
      \A f \in files[l], g \in files[m] : \A e \in f.ents, o \in g.ents : e.k = o.k => e.s > o.s

(* The levels keep the shape that every search of them relies on, through  *)
(* flushes in the middle of a compaction, moves and failed attempts.       *)
LevelsOK == TypeOK /\ LevelsDisjoint /\ NewerAbove

(* Whatever was flushed, moved, merged and dropped, Get answers for every  *)
(* key, at the latest sequence number and at every snapshot that is held,  *)
(* what the writes up to then say.                                         *)
GetAnswers ==
  \A k \in Keys : \A s \in snaps \cup {seq} : Get(k, s) = Answer(Lookup(written, k, s))

(* The same, as far as no user key was ever spread over two files of a     *)
(* level and no flush fell in the gap of a manual compaction.              *)
GetIsRight == flaws = {} => GetAnswers
=============================================================================
