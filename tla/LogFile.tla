------------------------------ MODULE LogFile -------------------------------
(***************************************************************************)
(* The log format of LevelDB: log::Writer cuts records into fragments that *)
(* do not cross a block, a file takes the bytes, log::Reader puts the      *)
(* records together again (db/log_writer.cc, db/log_reader.cc, the files   *)
(* of util/env_posix.cc).  Writes stop short, the machine loses what was   *)
(* not synced, and a log that was read is opened again for appending, as   *)
(* reuse_logs does.                                                        *)
(*                                                                         *)
(* A byte is <<f, i>>: byte i of the physical record that was emitted as   *)
(* fragment f, its header first.  The bytes of a trailer are zero.  A      *)
(* checksum matches exactly when header and payload are those of one       *)
(* fragment.  A header made of other bytes has an arbitrary length.        *)
(***************************************************************************)
EXTENDS Integers, Sequences, FiniteSets, SequencesExt, FiniteSetsExt

CONSTANTS
  B, H,        \* kBlockSize, kHeaderSize
  Sizes,       \* the sizes of records
  MaxRecords,  \* bound on the records added
  MaxFails,    \* bound on the writes that stop short
  MaxReadFails,\* bound on the reads that fail
  MaxOpens,    \* bound on the times the file is opened for writing
  Offsets      \* the initial offsets of readers

ASSUME LogAssumption ==
  /\ H \in Nat /\ B \in Nat /\ 1 < H /\ H < B
  /\ Sizes \subseteq Nat /\ Offsets \subseteq Nat
  /\ {MaxRecords, MaxFails, MaxReadFails, MaxOpens} \subseteq Nat

VARIABLES
  disk,     \* the bytes the operating system has
  synced,   \* how many of them a power failure leaves
  frags,    \* every fragment emitted: its record, type and length
  recs,     \* every record added: its fragments, where it starts, its state
  writer,   \* the writer: block_offset_ and the AddRecord at work
  reader,   \* the reader
  got,      \* the records read, each as its fragments
  reports,  \* corruptions reported
  offset,   \* the reader's initial_offset_
  phase,    \* who has the file: "writing", "reading", "done"
  fails, readFails, opens,
  torn,     \* history: a record was added behind an incomplete one
  skewed    \* history: block_offset_ did not agree with the file

logVars == <<disk, synced, frags, recs, writer, reader, got, reports, offset, phase,
          fails, readFails, opens, torn, skewed>>

Zero == <<0, 0>>
Idle(off) == [off |-> off, rec |-> 0, left |-> 0, begin |-> FALSE]
NewReader == [pos |-> 0, buf |-> <<>>, eof |-> FALSE, end |-> 0, inFrag |-> FALSE,
              scratch |-> <<>>, resync |-> FALSE]

LogInit ==
  /\ disk = <<>> /\ synced = 0 /\ frags = <<>> /\ recs = <<>>
  /\ writer = Idle(0)
  /\ reader = NewReader /\ got = <<>> /\ reports = 0 /\ offset = 0
  /\ phase = "writing" /\ fails = 0 /\ readFails = 0 /\ opens = 1
  /\ torn = FALSE /\ skewed = FALSE

(***************************************************************************)
(* The writer                                                              *)
(***************************************************************************)
AddRecord(n) ==
  /\ phase = "writing" /\ writer.rec = 0 /\ Len(recs) < MaxRecords
  /\ recs' = Append(recs, [frags |-> <<>>, start |-> -1, state |-> "adding", synced |-> FALSE])
  /\ writer' = [writer EXCEPT !.rec = Len(recs) + 1, !.left = n, !.begin = TRUE]
  /\ torn' = (torn \/ \E i \in DOMAIN recs : recs[i].state = "failed" /\ recs[i].start \in 0..(Len(disk) - 1))
  /\ skewed' = (skewed \/ (writer.off % B) # (Len(disk) % B))
  /\ UNCHANGED <<disk, synced, frags, reader, got, reports, offset, phase, fails, readFails, opens>>

(* Mutant: the trailer of a block is not filled.                           *)
NoPadding(off) == 0

(* What is left of a block is filled with zeroes when no header fits.      *)
Padding(off) == IF B - off < H THEN B - off ELSE 0

(* Where in its block the next physical record begins.                     *)
BlockStart(off) == IF B - off < H THEN 0 ELSE off

TypeOfFragment(begin, end) ==
  IF begin /\ end THEN "full" ELSE IF begin THEN "first" ELSE IF end THEN "last" ELSE "middle"

(* The next fragment of the record; the header, the payload and the        *)
(* trailer before them reach the file in the Flush at the end.  A write    *)
(* may stop after k bytes; block_offset_ moves on all the same, and the    *)
(* file forgets what it had buffered.                                      *)
EmitPhysicalRecord(k) ==
  /\ phase = "writing" /\ writer.rec > 0
  /\ LET pad == Padding(writer.off)
         n == Min({writer.left, B - BlockStart(writer.off) - H})
         id == Len(frags) + 1
         data == [i \in 1..pad |-> Zero] \o [i \in 1..(H + n) |-> <<id, i>>]
         ok == k = Len(data)
         end == writer.left = n
     IN /\ k <= Len(data) /\ (~ok => fails < MaxFails)
        /\ disk' = disk \o SubSeq(data, 1, k)
        /\ frags' = Append(frags, [rec |-> writer.rec, type |-> TypeOfFragment(writer.begin, end), len |-> n])
        /\ recs' = [recs EXCEPT ![writer.rec] =
             [frags |-> Append(@.frags, id), start |-> IF writer.begin THEN Len(disk) + pad ELSE @.start,
              state |-> IF ~ok THEN "failed" ELSE IF end THEN "added" ELSE "adding", synced |-> @.synced]]
        /\ writer' = LET off == BlockStart(writer.off) + H + n
                     IN IF ok /\ ~end
                        THEN [off |-> off, rec |-> writer.rec, left |-> writer.left - n, begin |-> FALSE]
                        ELSE Idle(off)
        /\ fails' = fails + (IF ok THEN 0 ELSE 1)
  /\ UNCHANGED <<synced, reader, got, reports, offset, phase, readFails, opens, torn, skewed>>

(* WritableFile::Sync, between two records. *)
Sync ==
  /\ phase = "writing" /\ writer.rec = 0 /\ synced < Len(disk)
  /\ synced' = Len(disk)
  /\ recs' = [i \in DOMAIN recs |-> [recs[i] EXCEPT !.synced = (recs[i].state = "added")]]
  /\ UNCHANGED <<disk, frags, writer, reader, got, reports, offset, phase, fails, readFails, opens, torn, skewed>>

(* SkipToInitialBlock: the block of the initial offset, or the one behind  *)
(* it when the offset is in a trailer.                                     *)
InitialBlock(o) == (o - (o % B)) + (IF (o % B) > B - (H - 1) THEN B ELSE 0)

(* The process or the machine stops, in the middle of a record or not: of  *)
(* what was not synced the file keeps the first bytes.  Then it is read.   *)
(* What of a record is gone makes it incomplete.                           *)
Crash(n, o) ==
  /\ phase = "writing" /\ synced <= n /\ n <= Len(disk)
  /\ disk' = SubSeq(disk, 1, n) /\ synced' = n
  /\ recs' = [i \in DOMAIN recs |->
       [recs[i] EXCEPT !.state =
          IF @ = "added" /\ \A f \in Range(recs[i].frags) : <<f, H + frags[f].len>> \in Range(SubSeq(disk, 1, n))
          THEN "added" ELSE "failed"]]
  /\ writer' = Idle(writer.off)
  /\ phase' = "reading" /\ offset' = o /\ got' = <<>> /\ reports' = 0
  /\ reader' = [NewReader EXCEPT !.resync = o > 0, !.pos = InitialBlock(o), !.end = InitialBlock(o)]
  /\ UNCHANGED <<frags, fails, readFails, opens, torn, skewed>>

(***************************************************************************)
(* The reader                                                              *)
(***************************************************************************)
(* A block is read when less than a header is left of the last one; a      *)
(* short one is the end of the file.                                       *)
Refill(r) ==
  IF Len(r.buf) >= H \/ r.eof THEN r
  ELSE LET block == SubSeq(disk, r.pos + 1, Min({r.pos + B, Len(disk)}))
       IN [r EXCEPT !.buf = block, !.pos = @ + Len(block), !.end = @ + Len(block),
                    !.eof = Len(block) < B]

(* ReportDrop: only what lies behind the initial offset counts. *)
Reported(r, bytes) ==
  IF r.end - Len(r.buf) - bytes >= offset \/ r.end - Len(r.buf) - bytes < 0 THEN 1 ELSE 0

HeaderOf(buf) == buf[1][1]
IsHeader(buf) == buf[1] # Zero /\ \A i \in 1..H : buf[i] = <<HeaderOf(buf), i>>
IsZero(buf) == \A i \in 1..H : buf[i] = Zero
Matches(buf, len) == \A i \in 1..(H + len) : buf[i] = <<HeaderOf(buf), i>>

(* Mutant: the log ends where a record does not parse.                     *)
DropTheLog(r, type, report) == [type |-> "eof", frag |-> 0, r |-> [r EXCEPT !.buf = <<>>], rep |-> 0]

(* The rest of the buffer is dropped. *)
Drop(r, type, report) ==
  LET c == [r EXCEPT !.buf = <<>>]
  IN [type |-> type, frag |-> 0, r |-> c, rep |-> IF report THEN Reported(c, Len(r.buf)) ELSE 0]

(* A length that goes past the buffer: at the end of the file the writer   *)
(* died in the middle of the record, elsewhere it is a corruption.         *)
TooLong(r) == IF r.eof THEN Drop(r, "eof", FALSE) ELSE Drop(r, "bad", TRUE)

(* The outcomes of ReadPhysicalRecord. *)
ReadPhysicalRecord(r) ==
  IF Len(r.buf) < H THEN {Drop(r, "eof", FALSE)}
  ELSE IF IsHeader(r.buf)
  THEN LET f == HeaderOf(r.buf)
           len == frags[f].len
           rest == [r EXCEPT !.buf = SubSeq(@, H + len + 1, Len(@))]
       IN IF H + len > Len(r.buf) THEN {TooLong(r)}
          ELSE IF ~Matches(r.buf, len) THEN {Drop(r, "bad", TRUE)}
          ELSE IF rest.end - Len(rest.buf) - H - len < offset
          THEN {[type |-> "bad", frag |-> 0, r |-> rest, rep |-> 0]}
          ELSE {[type |-> frags[f].type, frag |-> f, r |-> rest, rep |-> 0]}
  ELSE IF IsZero(r.buf) THEN {Drop(r, "bad", FALSE)}
  ELSE {TooLong(r), Drop(r, "bad", TRUE), Drop(r, "bad", FALSE)}

SizeOf(fs) == FoldLeft(LAMBDA n, f : n + frags[f].len, 0, fs)

(* Mutant: what was collected before a bad record stays.                   *)
KeepScratch(r, p) == [p.r EXCEPT !.inFrag = r.inFrag]

(* A bad record ends what was collected.                                   *)
ForgetScratch(r, p) == [p.r EXCEPT !.inFrag = FALSE, !.scratch = <<>>]

(* One round of ReadRecord's loop: what becomes of the fragment p, as the  *)
(* reader after it, what it returns and whether it reports.                *)
Round(r, p) ==
  LET quiet == [r |-> p.r, out |-> <<>>, rep |-> 0]
      open == r.inFrag /\ SizeOf(r.scratch) > 0
      f == <<p.frag>>
  IN CASE p.type = "full" ->
            [r |-> [p.r EXCEPT !.inFrag = FALSE, !.scratch = <<>>], out |-> <<f>>,
             rep |-> IF open THEN Reported(p.r, SizeOf(r.scratch)) ELSE 0]
       [] p.type = "first" ->
            [r |-> [p.r EXCEPT !.inFrag = TRUE, !.scratch = f], out |-> <<>>,
             rep |-> IF open THEN Reported(p.r, SizeOf(r.scratch)) ELSE 0]
       [] p.type \in {"middle", "last"} /\ ~r.inFrag ->
            [quiet EXCEPT !.rep = Reported(p.r, SizeOf(f))]
       [] p.type = "middle" /\ r.inFrag ->
            [quiet EXCEPT !.r.scratch = @ \o f]
       [] p.type = "last" /\ r.inFrag ->
            [r |-> [p.r EXCEPT !.inFrag = FALSE, !.scratch = <<>>], out |-> <<r.scratch \o f>>, rep |-> 0]
       [] p.type = "bad" ->
            [r |-> ForgetScratch(r, p), out |-> <<>>,
             rep |-> IF r.inFrag THEN Reported(p.r, SizeOf(r.scratch)) ELSE 0]

(* While the reader looks for the first record behind its initial offset   *)
(* it passes over the end of an earlier one.                               *)
Skipped(p) == reader.resync /\ p.type \in {"middle", "last"}

ReadRecord ==
  /\ phase = "reading"
  /\ \E p \in ReadPhysicalRecord(Refill(reader)) :
       /\ p.type # "eof"
       /\ IF Skipped(p)
          THEN reader' = [p.r EXCEPT !.resync = (p.type = "middle")] /\ UNCHANGED <<got, reports>>
          ELSE LET o == Round(reader, p)
               IN /\ reader' = [o.r EXCEPT !.resync = FALSE]
                  /\ got' = got \o o.out
                  /\ reports' = reports + p.rep + o.rep
  /\ UNCHANGED <<disk, synced, frags, recs, writer, offset, phase, fails, readFails, opens, torn, skewed>>

(* kEof: a record that has begun is ignored. *)
ReadToEnd ==
  /\ phase = "reading"
  /\ \E p \in ReadPhysicalRecord(Refill(reader)) : p.type = "eof" /\ reader' = p.r
  /\ phase' = "done"
  /\ UNCHANGED <<disk, synced, frags, recs, writer, got, reports, offset, fails, readFails, opens, torn, skewed>>

(* A read that fails ends the log. *)
ReadFails ==
  /\ phase = "reading" /\ readFails < MaxReadFails /\ Len(reader.buf) < H /\ ~reader.eof
  /\ readFails' = readFails + 1 /\ phase' = "done"
  /\ reports' = reports + Reported([reader EXCEPT !.buf = <<>>], B)
  /\ UNCHANGED <<disk, synced, frags, recs, writer, reader, got, offset, fails, opens, torn, skewed>>

(* The log is opened again for appending: Writer(dest, dest_length).       *)
Reopen ==
  /\ phase = "done" /\ opens < MaxOpens /\ offset = 0
  /\ phase' = "writing" /\ opens' = opens + 1
  /\ writer' = Idle(Len(disk) % B)
  /\ UNCHANGED <<disk, synced, frags, recs, reader, got, reports, offset, fails, readFails, torn, skewed>>

LogNext ==
  \/ \E n \in Sizes : AddRecord(n)
  \/ \E k \in 0..(2 * B) : EmitPhysicalRecord(k)
  \/ Sync
  \/ \E n \in 0..Len(disk), o \in Offsets : Crash(n, o)
  \/ ReadRecord \/ ReadToEnd \/ ReadFails \/ Reopen

LogSpec == LogInit /\ [][LogNext]_logVars

-----------------------------------------------------------------------------
Byte == {Zero} \cup ((DOMAIN frags) \X (1..B))

(* The types of the file, the writer and the reader; a fragment and its    *)
(* header fit in a block.                                                  *)
LogTypeOK ==
  /\ Range(disk) \subseteq Byte /\ synced \in 0..Len(disk)
  /\ \A f \in Range(frags) :
       f.rec \in DOMAIN recs /\ f.type \in {"full", "first", "middle", "last"} /\ f.len \in 0..(B - H)
  /\ \A r \in Range(recs) : r.state \in {"adding", "added", "failed"} /\ Range(r.frags) \subseteq DOMAIN frags
  /\ writer.off \in 0..B /\ writer.rec \in 0..Len(recs)
  /\ reader.pos \in Nat /\ Range(reader.buf) \subseteq Byte /\ {reader.eof, reader.inFrag, reader.resync} \subseteq BOOLEAN
  /\ phase \in {"writing", "reading", "done"} /\ reports \in Nat /\ {torn, skewed} \subseteq BOOLEAN

RecordRead(i) == frags[got[i][1]].rec

(* Whatever was torn, lost or misplaced, ReadRecord returns only records   *)
(* that were added, whole, each once and in the order they were added: the *)
(* fragments of two records are never put together.                        *)
OnlyWholeRecords ==
  /\ \A i \in DOMAIN got : LET r == recs[RecordRead(i)] IN r.frags = got[i] /\ r.state = "added"
  /\ \A i, j \in DOMAIN got : i < j => RecordRead(i) < RecordRead(j)

(* What the writer leaves and the reader keeps is well-formed, and what it *)
(* has returned so far is right.                                           *)
LogOK == LogTypeOK /\ OnlyWholeRecords

Clean == ~torn /\ ~skewed

(* A log that was only cut off gives back every record that is whole, from *)
(* the reader's initial offset on: each synced one and those that reached  *)
(* the disk before the first that did not.                                 *)
WholeRecordsRead ==
  phase = "done" /\ Clean /\ readFails = 0 =>
    [i \in DOMAIN got |-> RecordRead(i)] =
      SelectSeq([r \in DOMAIN recs |-> r],
                LAMBDA r : recs[r].state = "added" /\ recs[r].start >= offset)

(* Wherever a crash cuts a log off, reading it from its start reports no   *)
(* corruption: a report makes Open fail under paranoid_checks.             *)
QuietTail ==
  phase # "writing" /\ Clean /\ offset = 0 /\ readFails = 0 => reports = 0

(* A log that was only cut off is read as a log that ends there: all that  *)
(* is whole comes back, and nothing is taken for a corruption.             *)
CutLogIsRead == WholeRecordsRead /\ QuietTail

BytesOf(f) == {i \in DOMAIN disk : disk[i][1] = f}
BlocksOf(f) == {(i - 1) \div B : i \in BytesOf(f)}
IncompleteFragments == {f \in DOMAIN frags : Cardinality(BytesOf(f)) \in 1..(H + frags[f].len - 1)}
DamagedBlocks == UNION {BlocksOf(f) : f \in IncompleteFragments}

(* When records were added behind an incomplete one, as reuse_logs does,   *)
(* only the block the incomplete one ends in is lost: a whole record with  *)
(* no fragment there is read.                                              *)
DamageStaysInBlock ==
  phase = "done" /\ ~skewed /\ offset = 0 /\ readFails = 0 =>
    \A r \in DOMAIN recs :
      (/\ recs[r].state = "added"
       /\ \A f \in Range(recs[r].frags) : BlocksOf(f) \cap DamagedBlocks = {})
      => \E i \in DOMAIN got : RecordRead(i) = r
=============================================================================
