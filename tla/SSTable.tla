------------------------------ MODULE SSTable -------------------------------
(***************************************************************************)
(* The sorted tables of LevelDB as functions: how TableBuilder cuts        *)
(* entries into blocks with restart points, index entries and filters, and *)
(* how Block::Iter, TwoLevelIterator and Table::InternalGet find them      *)
(* again (table/).  An iterator is a record; an operation on it is a       *)
(* function to the record after it.                                        *)
(*                                                                         *)
(* An internal key is <<user key, sequence number>>.  A key that is not at *)
(* a restart point is stored as what it adds to the key before it, so that *)
(* it can be read only by who has just read that one.  Sizes are in        *)
(* entries; a checksum tells whether a block can be read.                  *)
(***************************************************************************)
EXTENDS Naturals, Sequences, FiniteSets, SequencesExt, FiniteSetsExt

CONSTANTS
  Keys,             \* user keys, numbers
  MaxSeq,           \* kMaxSequenceNumber
  BlockSize,        \* options.block_size, in entries
  RestartInterval,  \* options.block_restart_interval
  FilterBase        \* kFilterBase, in the same unit as BlockSize

ASSUME TableAssumption ==
  /\ Keys \subseteq Nat /\ MaxSeq \in Nat
  /\ {BlockSize, RestartInterval, FilterBase} \subseteq Nat \ {0}

Less(a, b) == a[1] < b[1] \/ (a[1] = b[1] /\ a[2] > b[2])
Leq(a, b) == a = b \/ Less(a, b)
Garbage == <<0, 0>>

(* f(...f(x)...), n times: a loop of the code with a known bound. *)
Repeat(f(_), x, n) == FoldLeft(LAMBDA a, i : f(a), x, [i \in 1..n |-> i])

(***************************************************************************)
(* BlockBuilder                                                            *)
(***************************************************************************)
NewBlock == [ents |-> <<>>, restarts |-> <<1>>, counter |-> 0]

(* An entry is [ik, val]; every interval-th one starts anew. *)
BlockAdd(b, e, interval) ==
  IF b.counter < interval
  THEN [b EXCEPT !.ents = Append(@, e), !.counter = @ + 1]
  ELSE [ents |-> Append(b.ents, e), restarts |-> Append(b.restarts, Len(b.ents) + 1), counter |-> 1]

(***************************************************************************)
(* TableBuilder and FilterBlockBuilder                                     *)
(***************************************************************************)
(* FindShortestSeparator: the last key or, if that can be written shorter, *)
(* a user key in between with the largest sequence number;                 *)
(* FindShortSuccessor: the same with any larger user key.                  *)
Shorter(t, mid) == IF mid = {} \/ ~t.shorten THEN t.last ELSE <<Min(mid), MaxSeq>>
Separator(t, next) == Shorter(t, {u \in Keys : t.last[1] < u /\ u < next[1]})
ShortSuccessor(t) == Shorter(t, {u \in Keys : t.last[1] < u})

NewBuilder(shorten) ==
              [shorten |-> shorten, blocks |-> <<>>, data |-> NewBlock, index |-> NewBlock, offset |-> 0,
               offsets |-> <<>>, pending |-> FALSE, last |-> Garbage,
               filters |-> <<>>, filterKeys |-> {}]

(* StartBlock: a filter for every stretch of FilterBase up to the offset.  *)
StartBlock(t, offset) ==
  Repeat(LAMBDA x : IF offset \div FilterBase > Len(x.filters)
                    THEN [x EXCEPT !.filters = Append(@, x.filterKeys), !.filterKeys = {}]
                    ELSE x,
         t, offset \div FilterBase)

AddIndexEntry(t, ik) ==
  [t EXCEPT !.index = BlockAdd(@, [ik |-> ik, val |-> Len(t.blocks)], 1), !.pending = FALSE]

(* Flush: the block is written; its index entry waits for the next key.    *)
FlushBlock(t) ==
  IF t.data.ents = <<>> THEN t
  ELSE LET end == t.offset + Len(t.data.ents)
           u == [t EXCEPT !.blocks = Append(@, t.data), !.offsets = Append(@, t.offset),
                          !.data = NewBlock, !.offset = end, !.pending = TRUE]
       IN StartBlock(u, end)

TableAdd(t, e) ==
  LET i == IF t.pending THEN AddIndexEntry(t, Separator(t, e.ik)) ELSE t
      a == [i EXCEPT !.filterKeys = @ \cup {e.ik[1]}, !.last = e.ik,
                     !.data = BlockAdd(@, e, RestartInterval)]
  IN IF Len(a.data.ents) >= BlockSize THEN FlushBlock(a) ELSE a

(* Finish: the last block, the last filter, the last index entry.          *)
TableFinish(t) ==
  LET f == FlushBlock(t)
      g == IF f.filterKeys # {} THEN [f EXCEPT !.filters = Append(@, f.filterKeys), !.filterKeys = {}] ELSE f
  IN IF g.pending THEN AddIndexEntry(g, ShortSuccessor(g)) ELSE g

BuildTable(ents, shorten) == TableFinish(FoldLeft(TableAdd, NewBuilder(shorten), ents))

(***************************************************************************)
(* Block::Iter                                                             *)
(***************************************************************************)
(* current_, where the next entry begins, restart_index_, key_; good is    *)
(* FALSE in the iterator that stands for a block that cannot be read.      *)
NewIter(b) ==
  [cur |-> Len(b.ents) + 1, nxt |-> 1, ri |-> Len(b.restarts) + 1, key |-> <<>>, good |-> TRUE]
ErrorIter == [cur |-> 0, nxt |-> 1, ri |-> 1, key |-> <<>>, good |-> FALSE]
BlockValid(b, i) == i.good /\ i.cur <= Len(b.ents)

ParseNextKey(b, i) ==
  LET n == i.nxt
      atRestart == \E r \in DOMAIN b.restarts : b.restarts[r] = n
      passed == {r \in DOMAIN b.restarts : b.restarts[r] < n}
  IN IF n > Len(b.ents) THEN [i EXCEPT !.cur = Len(b.ents) + 1, !.ri = Len(b.restarts) + 1]
     ELSE [i EXCEPT !.cur = n, !.nxt = n + 1, !.ri = Max({@} \cup passed),
                    !.key = IF atRestart \/ (n > 1 /\ @ = b.ents[n - 1].ik)
                            THEN b.ents[n].ik ELSE Garbage]

SeekToRestartPoint(b, i, r) == [i EXCEPT !.key = <<>>, !.ri = r, !.nxt = b.restarts[r]]

BlockNext(b, i) == ParseNextKey(b, i)

(* The restart points Prev may go back to: the ones before the entry.      *)
PrevRestart(b, i) == {r \in 1..i.ri : r <= Len(b.restarts) /\ b.restarts[r] < i.cur}

(* Back to the last restart point before, and forward to just before.      *)
BlockPrev(b, i) ==
  IF PrevRestart(b, i) = {}
  THEN [i EXCEPT !.cur = Len(b.ents) + 1, !.ri = Len(b.restarts) + 1]
  ELSE Repeat(LAMBDA x : IF x.nxt < i.cur THEN ParseNextKey(b, x) ELSE x,
              ParseNextKey(b, SeekToRestartPoint(b, i, Max(PrevRestart(b, i)))), Len(b.ents))

BlockFirst(b, i) == ParseNextKey(b, SeekToRestartPoint(b, i, 1))

BlockLast(b, i) ==
  Repeat(LAMBDA x : IF x.nxt <= Len(b.ents) THEN ParseNextKey(b, x) ELSE x,
         ParseNextKey(b, SeekToRestartPoint(b, i, Len(b.restarts))), Len(b.ents))

(* The binary search for the last restart point before the target, and the *)
(* walk from there to the first entry at or behind it.                     *)
Halve(b, target, lr) ==
  LET mid == (lr[1] + lr[2] + 1) \div 2
  IN IF lr[1] >= lr[2] THEN lr
     ELSE IF Less(b.ents[b.restarts[mid]].ik, target) THEN <<mid, lr[2]>> ELSE <<lr[1], mid - 1>>
BlockSeek(b, i, target) ==
  LET lr == Repeat(LAMBDA x : Halve(b, target, x), <<1, Len(b.restarts)>>, Len(b.restarts))
      start == ParseNextKey(b, SeekToRestartPoint(b, i, lr[1]))
  IN Repeat(LAMBDA x : IF BlockValid(b, x) /\ Less(x.key, target) THEN ParseNextKey(b, x) ELSE x,
            start, Len(b.ents))

(***************************************************************************)
(* TwoLevelIterator: t the table, bad the blocks that cannot be read       *)
(***************************************************************************)
(* index_iter_, the block data_iter_ is of (0: none), data_iter_, status_. *)
NewTwoLevel(t) == [ix |-> NewIter(t.index), blk |-> 0, it |-> ErrorIter, ok |-> TRUE]

TwoLevelValid(t, i) == i.blk # 0 /\ i.it.good /\ BlockValid(t.blocks[i.blk], i.it)
TwoLevelKey(i) == i.it.key
TwoLevelStatus(i) == i.ok /\ (i.blk # 0 => i.it.good)
TwoLevelVal(t, i) == t.blocks[i.blk].ents[i.it.cur].val

(* SetDataIterator: the error of the block that is left is kept.           *)
SetDataIterator(i, blk, it) ==
  [i EXCEPT !.ok = @ /\ (i.blk # 0 => i.it.good), !.blk = blk, !.it = it]

(* BlockReader: an iterator over a block, or one that holds the error.     *)
BlockReader(t, bad, handle) == IF handle \in bad THEN ErrorIter ELSE NewIter(t.blocks[handle])

InitDataBlock(t, bad, i) ==
  IF ~BlockValid(t.index, i.ix) THEN SetDataIterator(i, 0, ErrorIter)
  ELSE LET handle == t.index.ents[i.ix.cur].val
       IN IF i.blk = handle THEN i
          ELSE SetDataIterator(i, handle, BlockReader(t, bad, handle))

(* IteratorWrapper: it wraps an iterator, and that of a readable block.    *)
HasBlock(i) == i.blk # 0 /\ i.it.good

(* An operation on the block the iterator is in, if it can be read.        *)
InBlock(t, i, f(_, _)) == IF HasBlock(i) THEN [i EXCEPT !.it = f(t.blocks[i.blk], @)] ELSE i

SkipForward(t, bad, i) ==
  Repeat(LAMBDA x :
           IF TwoLevelValid(t, x) THEN x
           ELSE IF ~BlockValid(t.index, x.ix) THEN SetDataIterator(x, 0, ErrorIter)
           ELSE InBlock(t, InitDataBlock(t, bad, [x EXCEPT !.ix = BlockNext(t.index, @)]), BlockFirst),
         i, Len(t.blocks) + 1)

SkipBackward(t, bad, i) ==
  Repeat(LAMBDA x :
           IF TwoLevelValid(t, x) THEN x
           ELSE IF ~BlockValid(t.index, x.ix) THEN SetDataIterator(x, 0, ErrorIter)
           ELSE InBlock(t, InitDataBlock(t, bad, [x EXCEPT !.ix = BlockPrev(t.index, @)]), BlockLast),
         i, Len(t.blocks) + 1)

TwoLevelSeek(t, bad, i, target) ==
  SkipForward(t, bad,
    InBlock(t, InitDataBlock(t, bad, [i EXCEPT !.ix = BlockSeek(t.index, @, target)]),
            LAMBDA b, x : BlockSeek(b, x, target)))

(* Mutant: a new start forgets the errors before it.                       *)
TwoLevelFirstAnew(t, bad, i) ==
  LET x == NewTwoLevel(t)
  IN SkipForward(t, bad, InBlock(t, InitDataBlock(t, bad, [x EXCEPT !.ix = BlockFirst(t.index, @)]), BlockFirst))

TwoLevelFirst(t, bad, i) ==
  SkipForward(t, bad, InBlock(t, InitDataBlock(t, bad, [i EXCEPT !.ix = BlockFirst(t.index, @)]), BlockFirst))
TwoLevelLast(t, bad, i) ==
  SkipBackward(t, bad, InBlock(t, InitDataBlock(t, bad, [i EXCEPT !.ix = BlockLast(t.index, @)]), BlockLast))
TwoLevelNext(t, bad, i) == SkipForward(t, bad, InBlock(t, i, BlockNext))
TwoLevelPrev(t, bad, i) == SkipBackward(t, bad, InBlock(t, i, BlockPrev))

(***************************************************************************)
(* Table::InternalGet                                                      *)
(***************************************************************************)
(* Mutant: the filter is looked up by the number of the block.             *)
FilterOfBlock(t, blk) == blk

(* FilterBlockReader: the filter of the offset of the block.               *)
FilterIndex(t, blk) == t.offsets[blk] \div FilterBase + 1

(* What becomes of a question to the filters: the table was opened without *)
(* them ("unread"), as when Open could not read them; a Bloom filter       *)
(* answers right ("exact"), or finds all bits of another key set ("hit").  *)
Filters == {"unread", "exact", "hit"}
FilterRead(how) == how # "unread"
BloomMayMatch(keys, k, how) == k \in keys \/ how = "hit"

KeyMayMatch(t, blk, k, how) ==
  FilterIndex(t, blk) <= Len(t.filters) => BloomMayMatch(t.filters[FilterIndex(t, blk)], k, how)

(* The entry found at or behind the key, <<>> for none, or the error.      *)
InternalGet(t, bad, ik, how) ==
  LET x == BlockSeek(t.index, NewIter(t.index), ik)
      handle == t.index.ents[x.cur].val
      b == t.blocks[handle]
      r == BlockReader(t, bad, handle)
      y == BlockSeek(b, r, ik)
  IN IF ~BlockValid(t.index, x) THEN [ok |-> TRUE, key |-> <<>>]
     ELSE IF FilterRead(how) /\ ~KeyMayMatch(t, handle, ik[1], how) THEN [ok |-> TRUE, key |-> <<>>]
     ELSE IF ~r.good THEN [ok |-> FALSE, key |-> <<>>]
     ELSE [ok |-> TRUE, key |-> IF BlockValid(b, y) THEN y.key ELSE <<>>]
=============================================================================
