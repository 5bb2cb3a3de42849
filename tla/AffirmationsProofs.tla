------------------------- MODULE AffirmationsProofs -------------------------
(***************************************************************************)
(* What the notepad and the two boxes behind it guarantee for any quotes,  *)
(* any number of saved affirmations, and any failures and crashes.         *)
(***************************************************************************)
EXTENDS Affirmations, Integers, Sequences, FiniteSets, FiniteSetTheorems, WellFoundedInduction, TLAPS

(* What the head and the tail of a queue are.                              *)
LEMMA TailFacts ==
    ASSUME NEW S, NEW q \in Seq(S), q # <<>>
    PROVE  /\ Len(q) \in Nat \ {0} /\ 1 \in DOMAIN q /\ Head(q) = q[1] /\ q[1] \in S
           /\ Tail(q) \in Seq(S) /\ Len(Tail(q)) = Len(q) - 1
           /\ DOMAIN Tail(q) = 1..(Len(q) - 1)
           /\ \A i \in DOMAIN Tail(q) :
                 i \in Nat \ {0} /\ i + 1 \in DOMAIN q /\ Tail(q)[i] = q[i + 1]
           /\ \A i \in DOMAIN q :
                 /\ i \in Nat \ {0}
                 /\ i # 1 => i > 1 /\ i - 1 \in DOMAIN Tail(q) /\ Tail(q)[i - 1] = q[i]
           /\ Len(q) = 1 => Tail(q) = <<>> /\ \A i \in DOMAIN q : i = 1
<1>1. /\ Len(q) \in Nat \ {0} /\ 1 \in DOMAIN q /\ Head(q) = q[1] /\ q[1] \in S
      /\ Tail(q) \in Seq(S) /\ Len(Tail(q)) = Len(q) - 1
      /\ DOMAIN q = 1..Len(q) /\ DOMAIN Tail(q) = 1..(Len(q) - 1)
      /\ \A i \in DOMAIN Tail(q) : Tail(q)[i] = q[i + 1]
  OBVIOUS
<1>2. Len(q) = 1 => Tail(q) = <<>>
  BY <1>1
<1> QED  BY <1>1, <1>2

(* What an item added to a queue changes.                                  *)
LEMMA AppendFacts ==
    ASSUME NEW S, NEW q \in Seq(S), NEW f \in S
    PROVE  /\ Append(q, f) \in Seq(S) /\ Len(Append(q, f)) = Len(q) + 1 /\ Len(q) \in Nat
           /\ DOMAIN Append(q, f) = 1..(Len(q) + 1) /\ DOMAIN q = 1..Len(q)
           /\ DOMAIN Append(q, f) = DOMAIN q \cup {Len(q) + 1}
           /\ \A i \in DOMAIN q : /\ i \in Nat /\ i < Len(q) + 1
                                  /\ i \in DOMAIN Append(q, f) /\ Append(q, f)[i] = q[i]
           /\ Append(q, f)[Len(q) + 1] = f
<1>1. /\ Append(q, f) \in Seq(S) /\ Len(Append(q, f)) = Len(q) + 1 /\ Len(q) \in Nat
      /\ DOMAIN Append(q, f) = 1..(Len(q) + 1) /\ DOMAIN q = 1..Len(q)
      /\ \A i \in DOMAIN q : Append(q, f)[i] = q[i]
      /\ Append(q, f)[Len(q) + 1] = f
  OBVIOUS
<1> QED  BY <1>1

-----------------------------------------------------------------------------

IsSave(f) == f.note # None
IsDelete(f) == f.note = None /\ f.stamp # All

(* The dialog is open only while a quote is on screen.                     *)
DialogInv == screen \in {"loading", "dialog"} => current # None /\ madeFor # None

DownInv == screen = "down" => notesQueue = <<>> /\ quoteQueue = <<>>

(* A save is made from the dialog, which stays open until both writes are  *)
(* done: it is the last frame of the affirmations box, and the quote's     *)
(* frame follows it when the box has no other frame left.                  *)
SaveInv ==
    /\ \A i \in DOMAIN notesQueue :
          IsSave(notesQueue[i]) =>
             i = Len(notesQueue) /\ screen = "dialog" /\ notesQueue[i].stamp # All
    /\ quoteQueue # <<>> =>
          /\ screen = "dialog" /\ notesQueue = <<>> /\ Len(quoteQueue) = 1
          /\ LET f == quoteQueue[1]
             IN  notesDisk[f.stamp] # None /\ notesDisk[f.stamp].filed = f.quote

(* A timestamp is new when it is given.                                    *)
StampInv ==
    /\ \A n \in Stamps : notes[n] # None \/ notesDisk[n] # None => n <= clock
    /\ \A i \in DOMAIN notesQueue : notesQueue[i].stamp <= clock

(* While a delete is pending the affirmation is not in the box, so that it *)
(* is not deleted twice.                                                   *)
RemovalInv ==
    \A i \in DOMAIN notesQueue : IsDelete(notesQueue[i]) =>
        /\ notes[notesQueue[i].stamp] = None
        /\ \A j \in DOMAIN notesQueue :
              IsDelete(notesQueue[j]) /\ notesQueue[j].stamp = notesQueue[i].stamp => i = j

(* What is in the box is on disk, or its save is pending.                  *)
BoxInv ==
    \A n \in Stamps : notes[n] # None =>
        \/ notesDisk[n] # None
        \/ \E i \in DOMAIN notesQueue : IsSave(notesQueue[i]) /\ notesQueue[i].stamp = n

(* Only an open notepad has a list and reloads it.  What it lists is on    *)
(* disk, and is in the box unless this notepad is deleting it: removals of *)
(* a notepad opened before are of nothing that is listed.                  *)
ListInv ==
    /\ list # {} => screen = "notepad"
    /\ \A i \in DOMAIN notesQueue : notesQueue[i].reload => screen = "notepad"
    /\ screen = "notepad" => \A i \in DOMAIN notesQueue :
                                notesQueue[i].stamp = All => notesQueue[i].reload
    /\ \A n \in list :
          /\ notesDisk[n] # None
          /\ notes[n] = None =>
                \E i \in DOMAIN notesQueue : notesQueue[i].reload /\ notesQueue[i].stamp = n
          /\ \A i \in DOMAIN notesQueue :
                notesQueue[i].stamp = n => notesQueue[i].reload

IInv ==
    /\ TypeOK /\ DialogInv /\ DownInv /\ SaveInv /\ StampInv /\ RemovalInv /\ BoxInv
    /\ WaitsForClear => ListInv

-----------------------------------------------------------------------------
(* The fields of a queued write: only clear() names every entry, a save or *)
(* a delete names one stamp.                                               *)
LEMMA FrameFacts ==
    ASSUME NEW f \in NoteFrames
    PROVE  /\ f.stamp \in Nat /\ f.note \in Maybe(Notes) /\ f.reload \in BOOLEAN
           /\ f.stamp # All => f.stamp \in Stamps
           /\ IsDelete(f) => f.stamp \in Stamps
  BY MaxTimeAssumption DEF NoteFrames, Stamps, All, IsDelete

(* The inductive invariant gives the properties that are checked.          *)
LEMMA InvImplies == IInv => TypeOK /\ (WaitsForClear => NotepadOK)
  BY DEF IInv, ListInv, NotepadOK, RemovedIsGone

(* A first start: nothing saved, nothing queued, no dialog.                *)
LEMMA InvInit == Init => IInv
<1> SUFFICES ASSUME Init PROVE IInv
  OBVIOUS
<1>1. TypeOK
  BY MaxTimeAssumption DEF Init, TypeOK, Maybe, NoNotes
<1>2. DOMAIN notesQueue = {} /\ \A n \in Stamps : notes[n] = None /\ notesDisk[n] = None
  BY DEF Init, NoNotes
<1>3. DialogInv /\ DownInv /\ SaveInv /\ StampInv /\ RemovalInv /\ BoxInv /\ ListInv
  BY <1>2 DEF Init, DialogInv, DownInv, SaveInv, StampInv, RemovalInv, BoxInv, ListInv
<1> QED  BY <1>1, <1>3 DEF IInv

-----------------------------------------------------------------------------
(* The steps that write to no box and leave the notepad alone.             *)
LEMMA ScreenStep ==
    ASSUME IInv,
           \/ GenerateNewQuote \/ \E q \in Quotes : QuoteArrives(q)
           \/ GenerateAffirmation \/ AffirmationAnswered \/ CloseDialog
    PROVE  IInv'
<1>1. UNCHANGED <<clock, noteVars, quoteVars, list>>
  BY DEF GenerateNewQuote, QuoteArrives, GenerateAffirmation, AffirmationAnswered, CloseDialog
<1>2. /\ screen' \in {"quote", "loading", "dialog", "notepad", "down"}
      /\ current' \in Maybe(Quotes) /\ madeFor' \in Maybe(Quotes) /\ arriving' \in BOOLEAN
      /\ DialogInv'
  BY NoneAssumption
  DEF GenerateNewQuote, QuoteArrives, GenerateAffirmation, AffirmationAnswered, CloseDialog,
      IInv, TypeOK, DialogInv, Maybe
<1>3. /\ screen' # screen =>
            /\ screen' \in {"quote", "loading", "dialog"}
            /\ screen \in {"quote", "loading", "dialog"}
      /\ screen' # screen => ~Saving \/ screen # "dialog"
  BY DEF GenerateNewQuote, QuoteArrives, GenerateAffirmation, AffirmationAnswered, CloseDialog
<1>4. TypeOK'
  BY <1>1, <1>2 DEF IInv, TypeOK, noteVars, quoteVars
<1>5. DownInv' /\ StampInv' /\ RemovalInv' /\ BoxInv' /\ (WaitsForClear => ListInv')
  BY <1>1, <1>3
  DEF IInv, DownInv, StampInv, RemovalInv, BoxInv, ListInv, noteVars, quoteVars
<1>6. SaveInv'
  BY <1>1, <1>3 DEF IInv, SaveInv, Saving, IsSave, noteVars, quoteVars
<1> QED  BY <1>2, <1>4, <1>5, <1>6 DEF IInv

(* Save in the dialog: the first write is queued under a stamp of its own, *)
(* and no other save is in flight.                                         *)
LEMMA SaveStep ==
    ASSUME IInv, SaveAffirmation
    PROVE  IInv'
<1> DEFINE f == [stamp |-> clock + 1, reload |-> FALSE,
                 note |-> [made |-> madeFor, filed |-> current]]
<1>1. /\ screen = "dialog" /\ ~Saving /\ clock + 1 \in Stamps /\ clock' = clock + 1
      /\ clock \in Nat
  BY MaxTimeAssumption DEF SaveAffirmation, IInv, TypeOK, Stamps
<1>2. f \in NoteFrames /\ f.note \in Notes /\ f.note # None /\ f.stamp # All
  BY <1>1, NoneAssumption
  DEF IInv, TypeOK, DialogInv, Maybe, NoteFrames, Notes, All
<1>3. /\ notes' = [notes EXCEPT ![clock + 1] = f.note]
      /\ notesQueue' = Append(notesQueue, f) /\ notesDisk' = notesDisk
      /\ typed' = typed \cup {clock + 1}
      /\ UNCHANGED <<screen, current, arriving, madeFor, quoteVars, list>>
  BY <1>1, <1>2 DEF SaveAffirmation, WriteNote, Applied
<1>4. f.stamp = clock + 1 /\ ~IsDelete(f) /\ IsSave(f) /\ ~f.reload
  BY <1>2 DEF IsDelete, IsSave
<1> HIDE DEF f
<1>5. notesQueue \in Seq(NoteFrames)
  BY DEF IInv, TypeOK
<1>6. /\ notesQueue' \in Seq(NoteFrames) /\ Len(notesQueue') = Len(notesQueue) + 1
      /\ Len(notesQueue) \in Nat
      /\ DOMAIN notesQueue' = 1..(Len(notesQueue) + 1) /\ DOMAIN notesQueue = 1..Len(notesQueue)
      /\ \A i \in DOMAIN notesQueue : i \in DOMAIN notesQueue' /\ notesQueue'[i] = notesQueue[i]
      /\ notesQueue'[Len(notesQueue) + 1] = f
  BY <1>2, <1>3, <1>5, AppendFacts
<1>7. TypeOK'
  <2>1. notes' \in [Stamps -> Maybe(Notes)] /\ typed' \subseteq Stamps
    BY <1>1, <1>2, <1>3 DEF IInv, TypeOK, Maybe
  <2>2. clock' \in 0..MaxTime
    BY <1>1, MaxTimeAssumption DEF Stamps
  <2> QED  BY <1>3, <1>6, <2>1, <2>2 DEF IInv, TypeOK, quoteVars
<1>8. /\ quoteQueue = <<>> /\ \A i \in DOMAIN notesQueue : ~IsSave(notesQueue[i])
      /\ list = {} \/ ~WaitsForClear
  BY <1>1 DEF Saving, IsSave, IInv, ListInv
<1>9. DialogInv' /\ DownInv' /\ SaveInv'
  BY <1>1, <1>2, <1>3, <1>6, <1>8 DEF IInv, DialogInv, DownInv, SaveInv, quoteVars
<1>10. StampInv'
  <2>1. \A i \in DOMAIN notesQueue : notesQueue[i].stamp \in Nat /\ notesQueue[i].stamp <= clock
    BY <1>5, FrameFacts DEF IInv, StampInv
  <2>2. \A i \in DOMAIN notesQueue' : notesQueue'[i].stamp <= clock + 1
    BY <1>1, <1>4, <1>6, <2>1
  <2>3. \A n \in Stamps : notes'[n] # None \/ notesDisk'[n] # None => n <= clock + 1
    BY <1>1, <1>3, SMTT(30) DEF IInv, StampInv, TypeOK, Stamps
  <2> QED  BY <1>1, <2>2, <2>3 DEF StampInv
<1>11. RemovalInv'
  <2> SUFFICES ASSUME NEW i \in DOMAIN notesQueue', IsDelete(notesQueue'[i])
               PROVE  /\ notes'[notesQueue'[i].stamp] = None
                      /\ \A j \in DOMAIN notesQueue' :
                            IsDelete(notesQueue'[j]) /\ notesQueue'[j].stamp = notesQueue'[i].stamp
                            => i = j
    BY DEF RemovalInv
  <2>1. \A j \in DOMAIN notesQueue' : IsDelete(notesQueue'[j]) =>
            j \in DOMAIN notesQueue /\ notesQueue'[j] = notesQueue[j]
    BY <1>4, <1>6
  <2>2. notesQueue[i].stamp # clock + 1 /\ notesQueue[i].stamp \in Stamps
    BY <1>1, <1>5, <2>1, FrameFacts DEF IInv, StampInv
  <2> QED  BY <1>3, <2>1, <2>2 DEF IInv, RemovalInv, TypeOK
<1>12. BoxInv'
  <2> SUFFICES ASSUME NEW n \in Stamps, notes'[n] # None, notesDisk'[n] = None
               PROVE  \E i \in DOMAIN notesQueue' :
                         IsSave(notesQueue'[i]) /\ notesQueue'[i].stamp = n
    BY DEF BoxInv
  <2>1. CASE n = clock + 1
    BY <1>4, <1>6, <2>1
  <2>2. CASE n # clock + 1
    <3>1. notes[n] # None /\ notesDisk[n] = None
      BY <1>3, <2>2 DEF IInv, TypeOK
    <3> QED  BY <1>8, <3>1 DEF IInv, BoxInv
  <2> QED  BY <2>1, <2>2
<1>13. WaitsForClear => ListInv'
  BY <1>1, <1>3, <1>4, <1>6, <1>8 DEF IInv, ListInv
<1> QED  BY <1>7, <1>9, <1>10, <1>11, <1>12, <1>13 DEF IInv

(* The affirmation reached its box: its copy in the quote is queued, which *)
(* is why the first write comes first.                                     *)
LEMMA NoteSavedStep ==
    ASSUME IInv, NoteSaved
    PROVE  IInv'
<1> DEFINE f == notesQueue[1]
           q == f.note.filed
<1>1. /\ notesQueue \in Seq(NoteFrames) /\ notesQueue # <<>>
  BY DEF IInv, TypeOK, NoteSaved
<1>2. /\ Len(notesQueue) \in Nat \ {0} /\ 1 \in DOMAIN notesQueue /\ Head(notesQueue) = f
      /\ f \in NoteFrames /\ Tail(notesQueue) \in Seq(NoteFrames)
      /\ Len(notesQueue) = 1 => Tail(notesQueue) = <<>> /\ \A i \in DOMAIN notesQueue : i = 1
  BY <1>1, TailFacts
<1>3. /\ IsSave(f) /\ f.note \in Notes /\ q \in Quotes /\ f.stamp \in Stamps \cup {All}
  BY <1>2 DEF NoteSaved, IsSave, NoteFrames, Maybe, Notes
<1>4. Len(notesQueue) = 1 /\ screen = "dialog" /\ f.stamp \in Stamps
  BY <1>2, <1>3 DEF IInv, SaveInv
<1>5. Tail(notesQueue) = <<>> /\ \A i \in DOMAIN notesQueue : i = 1
  BY <1>1, <1>2, <1>4
<1>6. quoteQueue = <<>> /\ (WaitsForClear => list = {})
  BY <1>1, <1>4 DEF IInv, SaveInv, ListInv
<1>7. f.stamp # All
  BY <1>4, MaxTimeAssumption DEF Stamps, All
<1> DEFINE g == [quote |-> q, stamp |-> f.stamp]
<1>8. /\ notesDisk' = [notesDisk EXCEPT ![f.stamp] = f.note]
      /\ notesQueue' = <<>>
      /\ onQuote' = [onQuote EXCEPT ![q] = f.stamp]
      /\ quoteQueue' = Append(<<>>, g)
      /\ UNCHANGED <<screen, current, arriving, madeFor, clock, notes, typed, onQuoteDisk, list>>
  BY <1>2, <1>5, <1>6, <1>7 DEF NoteSaved, Applied
<1>9. /\ g \in QuoteFrames /\ quoteQueue' \in Seq(QuoteFrames) /\ Len(quoteQueue') = 1
      /\ quoteQueue'[1] = g /\ g.stamp = f.stamp /\ g.quote = f.note.filed
  BY <1>3, <1>4, <1>8 DEF QuoteFrames
<1>10. f.note # None /\ f.stamp <= clock
  BY <1>2, <1>3 DEF IsSave, IInv, StampInv
<1> HIDE DEF f, q, g
<1>11. TypeOK'
  BY <1>3, <1>4, <1>8, <1>9 DEF IInv, TypeOK, Maybe
<1>12. DOMAIN notesQueue' = {}
  BY <1>8
<1>13. DialogInv' /\ DownInv' /\ SaveInv'
  BY <1>4, <1>8, <1>9, <1>10, <1>12 DEF IInv, TypeOK, DialogInv, DownInv, SaveInv
<1>14. StampInv'
  BY <1>4, <1>8, <1>10, <1>12 DEF IInv, TypeOK, StampInv
<1>15. RemovalInv' /\ (WaitsForClear => ListInv')
  BY <1>4, <1>6, <1>8, <1>12 DEF RemovalInv, ListInv
<1>16. BoxInv'
  <2> SUFFICES ASSUME NEW n \in Stamps, notes[n] # None PROVE notesDisk'[n] # None
    BY <1>8 DEF BoxInv
  <2>1. notesDisk[n] # None \/ n = f.stamp
    BY <1>5 DEF IInv, BoxInv, f
  <2> QED  BY <1>4, <1>8, <1>10, <2>1 DEF IInv, TypeOK
<1> QED  BY <1>11, <1>13, <1>14, <1>15, <1>16 DEF IInv

(* The dialog closes when the quote's write is done, or has failed.        *)
LEMMA QuoteStep ==
    ASSUME IInv, QuoteSaved \/ QuoteFailed
    PROVE  IInv'
<1>1. /\ quoteQueue # <<>> /\ quoteQueue \in Seq(QuoteFrames)
      /\ screen' = "quote" /\ quoteQueue' = Tail(quoteQueue)
      /\ UNCHANGED <<current, arriving, madeFor, clock, noteVars, list>>
  BY DEF QuoteSaved, QuoteFailed, IInv, TypeOK
<1>2. screen = "dialog" /\ notesQueue = <<>> /\ Len(quoteQueue) = 1
  BY <1>1 DEF IInv, SaveInv
<1>3. quoteQueue' = <<>> /\ Head(quoteQueue) \in QuoteFrames
  BY <1>1, <1>2
<1>4. onQuote' \in [Quotes -> Maybe(Stamps)] /\ onQuoteDisk' \in [Quotes -> Maybe(Stamps)]
  BY <1>3 DEF QuoteSaved, QuoteFailed, IInv, TypeOK, QuoteFrames, Maybe
<1>5. TypeOK'
  BY <1>1, <1>3, <1>4 DEF IInv, TypeOK, noteVars
<1>6. DOMAIN notesQueue = {} /\ notesQueue' = notesQueue /\ (WaitsForClear => list = {})
  BY <1>1, <1>2 DEF IInv, ListInv, noteVars
<1>7. DialogInv' /\ DownInv' /\ SaveInv'
  BY <1>1, <1>3, <1>6 DEF DialogInv, DownInv, SaveInv
<1>8. StampInv' /\ RemovalInv' /\ BoxInv' /\ (WaitsForClear => ListInv')
  BY <1>1, <1>6 DEF IInv, StampInv, RemovalInv, BoxInv, ListInv, noteVars
<1> QED  BY <1>5, <1>7, <1>8 DEF IInv

(* A failed write of an affirmation takes it out of memory again; it was   *)
(* in no list.                                                             *)
LEMMA NoteFailedStep ==
    ASSUME IInv, NoteFailed
    PROVE  IInv'
<1> DEFINE f == notesQueue[1]
<1>1. /\ notesQueue \in Seq(NoteFrames) /\ notesQueue # <<>>
  BY DEF IInv, TypeOK, NoteFailed
<1>2. /\ Len(notesQueue) \in Nat \ {0} /\ 1 \in DOMAIN notesQueue /\ Head(notesQueue) = f
      /\ f \in NoteFrames /\ Tail(notesQueue) \in Seq(NoteFrames)
      /\ Len(notesQueue) = 1 => Tail(notesQueue) = <<>> /\ \A i \in DOMAIN notesQueue : i = 1
  BY <1>1, TailFacts
<1>3. Len(notesQueue) = 1 /\ screen = "dialog" /\ f.stamp \in Stamps
  BY <1>2, FrameFacts DEF IInv, SaveInv, NoteFailed, IsSave
<1>4. /\ Tail(notesQueue) = <<>> /\ quoteQueue = <<>> /\ (WaitsForClear => list = {})
      /\ \A i \in DOMAIN notesQueue : i = 1
  BY <1>1, <1>2, <1>3 DEF IInv, SaveInv, ListInv
<1>5. /\ notes' = [notes EXCEPT ![f.stamp] = None]
      /\ notesQueue' = <<>> /\ DOMAIN notesQueue' = {}
      /\ UNCHANGED <<screen, current, arriving, madeFor, clock, typed, notesDisk, quoteVars, list>>
  BY <1>2, <1>4 DEF NoteFailed
<1>6. TypeOK'
  BY <1>3, <1>5 DEF IInv, TypeOK, Maybe, quoteVars
<1>7. DialogInv' /\ DownInv' /\ SaveInv'
  BY <1>3, <1>4, <1>5 DEF IInv, DialogInv, DownInv, SaveInv, quoteVars
<1>8. StampInv' /\ RemovalInv' /\ (WaitsForClear => ListInv')
  BY <1>3, <1>4, <1>5 DEF IInv, TypeOK, StampInv, RemovalInv, ListInv
<1>9. BoxInv'
  <2> SUFFICES ASSUME NEW n \in Stamps, notes'[n] # None PROVE notesDisk[n] # None
    BY <1>5 DEF BoxInv
  <2>1. notes[n] # None /\ n # f.stamp
    BY <1>3, <1>5 DEF IInv, TypeOK
  <2> QED  BY <1>4, <2>1 DEF IInv, BoxInv
<1> QED  BY <1>6, <1>7, <1>8, <1>9 DEF IInv

-----------------------------------------------------------------------------
(* The list is read from the box when no save is pending: what it lists is *)
(* in the box and on disk, and no delete of it is pending.                 *)
LEMMA FreshList ==
    ASSUME IInv, screen # "dialog"
    PROVE  \A n \in Visible(notes, typed) :
              /\ n \in Stamps /\ notes[n] # None /\ notesDisk[n] # None
              /\ \A i \in DOMAIN notesQueue : notesQueue[i].stamp # n
<1> SUFFICES ASSUME NEW n \in Stamps, notes[n] # None
             PROVE  /\ notesDisk[n] # None
                    /\ \A i \in DOMAIN notesQueue : notesQueue[i].stamp # n
  BY DEF Visible, IInv, TypeOK
<1>1. \A i \in DOMAIN notesQueue : ~IsSave(notesQueue[i])
  BY DEF IInv, SaveInv
<1>2. notesDisk[n] # None
  BY <1>1 DEF IInv, BoxInv
<1>3. n # All
  BY MaxTimeAssumption DEF Stamps, All
<1>4. \A i \in DOMAIN notesQueue : notesQueue[i].stamp # n
  BY <1>1, <1>3 DEF IInv, RemovalInv, IsDelete, IsSave
<1> QED  BY <1>2, <1>4

(* The notepad is opened: its list is read afresh.                         *)
LEMMA OpenStep ==
    ASSUME IInv, OpenNotepad
    PROVE  IInv'
<1>1. /\ screen = "quote" /\ screen' = "notepad" /\ list' = Visible(notes, typed)
      /\ WaitsForClear => ~Clearing
      /\ UNCHANGED <<current, arriving, madeFor, clock, noteVars, quoteVars>>
  BY DEF OpenNotepad
<1>2. TypeOK'
  BY <1>1 DEF IInv, TypeOK, noteVars, quoteVars, Visible
<1>3. DialogInv' /\ DownInv' /\ SaveInv' /\ StampInv' /\ RemovalInv' /\ BoxInv'
  BY <1>1
  DEF IInv, DialogInv, DownInv, SaveInv, StampInv, RemovalInv, BoxInv, noteVars, quoteVars
<1>4. WaitsForClear => ListInv'
  BY <1>1, FreshList DEF ListInv, Clearing, noteVars
<1> QED  BY <1>2, <1>3, <1>4 DEF IInv

(* The notepad is left: removals under way go on, their reload is dropped  *)
(* with the widget.                                                        *)
LEMMA CloseStep ==
    ASSUME IInv, CloseNotepad
    PROVE  IInv'
<1>1. /\ screen = "notepad" /\ screen' = "quote" /\ list' = {}
      /\ notesQueue' = [i \in DOMAIN notesQueue |-> [notesQueue[i] EXCEPT !.reload = FALSE]]
      /\ UNCHANGED <<current, arriving, madeFor, clock, notes, typed, notesDisk, quoteVars>>
  BY DEF CloseNotepad
<1>2. notesQueue \in Seq(NoteFrames)
  BY DEF IInv, TypeOK
<1>3. /\ DOMAIN notesQueue' = DOMAIN notesQueue
      /\ \A i \in DOMAIN notesQueue :
            /\ notesQueue'[i] \in NoteFrames /\ ~notesQueue'[i].reload
            /\ notesQueue'[i].stamp = notesQueue[i].stamp
            /\ notesQueue'[i].note = notesQueue[i].note
  <2>1. \A g \in NoteFrames : LET h == [g EXCEPT !.reload = FALSE]
                               IN  h \in NoteFrames /\ ~h.reload /\ h.stamp = g.stamp
                                   /\ h.note = g.note
    BY DEF NoteFrames
  <2>2. \A i \in DOMAIN notesQueue : notesQueue[i] \in NoteFrames
    BY <1>2
  <2> QED  BY <1>1, <2>1, <2>2
<1>4. notesQueue' \in Seq(NoteFrames) /\ Len(notesQueue') = Len(notesQueue)
  BY <1>1, <1>2, <1>3
<1>5. TypeOK'
  BY <1>1, <1>4 DEF IInv, TypeOK, quoteVars
<1>6. DialogInv' /\ DownInv' /\ SaveInv'
  BY <1>1, <1>3, <1>4 DEF IInv, DialogInv, DownInv, SaveInv, IsSave, quoteVars
<1>7. StampInv' /\ BoxInv'
  BY <1>1, <1>3 DEF IInv, StampInv, BoxInv, IsSave
<1>8. RemovalInv'
  BY <1>1, <1>3 DEF IInv, RemovalInv, IsDelete
<1>9. ListInv'
  BY <1>1, <1>3 DEF ListInv
<1> QED  BY <1>5, <1>6, <1>7, <1>8, <1>9 DEF IInv

(* One affirmation is deleted; for one that is gone already the list is    *)
(* only reloaded.                                                          *)
LEMMA DeleteStep ==
    ASSUME IInv, NEW n \in Stamps, DeleteAffirmation(n)
    PROVE  IInv'
<1>1. /\ screen = "notepad" /\ n \in list /\ n # All
      /\ UNCHANGED <<screen, current, arriving, madeFor, clock, typed, quoteVars>>
  BY MaxTimeAssumption DEF DeleteAffirmation, Stamps, All
<1>2. CASE notes[n] = None
  <2>1. list' = Visible(notes, typed) /\ UNCHANGED <<notes, notesDisk, notesQueue>>
    BY <1>2 DEF DeleteAffirmation
  <2>2. TypeOK'
    BY <1>1, <2>1 DEF IInv, TypeOK, quoteVars, Visible
  <2>3. DialogInv' /\ DownInv' /\ SaveInv' /\ StampInv' /\ RemovalInv' /\ BoxInv'
    BY <1>1, <2>1
    DEF IInv, DialogInv, DownInv, SaveInv, StampInv, RemovalInv, BoxInv, quoteVars
  <2>4. WaitsForClear => ListInv'
    BY <1>1, <2>1, FreshList DEF IInv, ListInv
  <2> QED  BY <2>2, <2>3, <2>4 DEF IInv
<1>3. CASE notes[n] # None
  <2> DEFINE f == [stamp |-> n, note |-> None, reload |-> TRUE]
  <2>1. f \in NoteFrames /\ IsDelete(f) /\ ~IsSave(f) /\ f.stamp = n /\ f.reload
    BY <1>1 DEF NoteFrames, Maybe, IsDelete, IsSave
  <2>2. /\ notes' = [notes EXCEPT ![n] = None]
        /\ notesQueue' = Append(notesQueue, f)
        /\ UNCHANGED <<notesDisk, list>>
    BY <1>1, <1>3 DEF DeleteAffirmation, WriteNote, Applied
  <2> HIDE DEF f
  <2>3. notesQueue \in Seq(NoteFrames)
    BY DEF IInv, TypeOK
  <2>4. /\ notesQueue' \in Seq(NoteFrames) /\ Len(notesQueue') = Len(notesQueue) + 1
        /\ Len(notesQueue) \in Nat
        /\ DOMAIN notesQueue' = 1..(Len(notesQueue) + 1) /\ DOMAIN notesQueue = 1..Len(notesQueue)
        /\ \A i \in DOMAIN notesQueue : i \in DOMAIN notesQueue' /\ notesQueue'[i] = notesQueue[i]
        /\ notesQueue'[Len(notesQueue) + 1] = f
    BY <2>1, <2>2, <2>3, AppendFacts
  <2>5. TypeOK'
    BY <1>1, <2>2, <2>4 DEF IInv, TypeOK, quoteVars, Maybe
  <2>6. /\ quoteQueue = <<>> /\ \A i \in DOMAIN notesQueue : ~IsSave(notesQueue[i])
    BY <1>1 DEF IInv, SaveInv
  <2>7. DialogInv' /\ DownInv' /\ SaveInv'
    BY <1>1, <2>1, <2>2, <2>4, <2>6 DEF IInv, DialogInv, DownInv, SaveInv, quoteVars
  <2>8. StampInv'
    <3>1. \A i \in DOMAIN notesQueue' : notesQueue'[i].stamp <= clock
      BY <1>3, <2>1, <2>4 DEF IInv, StampInv
    <3> QED  BY <1>1, <2>2, <3>1 DEF IInv, StampInv, TypeOK
  <2>9. RemovalInv'
    <3>1. \A i \in DOMAIN notesQueue : IsDelete(notesQueue[i]) =>
             notesQueue[i].stamp # n /\ notesQueue[i].stamp \in Stamps
      BY <1>3, <2>3, FrameFacts DEF IInv, RemovalInv
    <3>2. \A i \in DOMAIN notesQueue : IsDelete(notesQueue[i]) =>
             notes'[notesQueue[i].stamp] = None
      BY <2>2, <3>1 DEF IInv, RemovalInv, TypeOK
    <3>3. notes'[n] = None
      BY <2>2 DEF IInv, TypeOK
    <3> QED  BY <2>1, <2>4, <3>1, <3>2, <3>3 DEF IInv, RemovalInv
  <2>10. BoxInv'
    <3> SUFFICES ASSUME NEW m \in Stamps, notes'[m] # None PROVE notesDisk[m] # None
      BY <2>2 DEF BoxInv
    <3>1. notes[m] # None
      BY <2>2 DEF IInv, TypeOK
    <3> QED  BY <2>6, <3>1 DEF IInv, BoxInv
  <2>11. WaitsForClear => ListInv'
    <3> SUFFICES ASSUME WaitsForClear, ListInv PROVE ListInv'
      BY DEF IInv
    <3>1. \A i \in DOMAIN notesQueue' : notesQueue'[i].stamp = All => notesQueue'[i].reload
      BY <1>1, <2>1, <2>4 DEF ListInv
    <3>2. ASSUME NEW m \in list
          PROVE  /\ notesDisk[m] # None
                 /\ notes'[m] = None => \E i \in DOMAIN notesQueue' :
                                          notesQueue'[i].reload /\ notesQueue'[i].stamp = m
                 /\ \A i \in DOMAIN notesQueue' :
                       notesQueue'[i].stamp = m => notesQueue'[i].reload
      <4>1. m \in Stamps
        BY DEF IInv, TypeOK
      <4>2. notesDisk[m] # None /\ \A i \in DOMAIN notesQueue' :
                                     notesQueue'[i].stamp = m => notesQueue'[i].reload
        BY <2>1, <2>4 DEF ListInv
      <4>3. CASE m = n
        BY <2>1, <2>4, <4>2, <4>3
      <4>4. CASE m # n
        <5>1. notes'[m] = notes[m]
          BY <2>2, <4>1, <4>4 DEF IInv, TypeOK
        <5> QED  BY <2>4, <4>2, <5>1 DEF ListInv
      <4> QED  BY <4>3, <4>4
    <3> QED  BY <1>1, <2>2, <3>1, <3>2 DEF ListInv
  <2> QED  BY <2>5, <2>7, <2>8, <2>9, <2>10, <2>11 DEF IInv
<1> QED  BY <1>2, <1>3

(* The clear is queued: until it is on disk, memory and list stay as they  *)
(* were.                                                                   *)
LEMMA ClearStep ==
    ASSUME IInv, ClearAllAffirmations
    PROVE  IInv'
<1> DEFINE f == [stamp |-> All, note |-> None, reload |-> TRUE]
<1>1. f \in NoteFrames /\ ~IsDelete(f) /\ ~IsSave(f) /\ f.stamp = All /\ f.reload
  BY DEF NoteFrames, Maybe, IsDelete, IsSave
<1>2. /\ screen = "notepad" /\ notesQueue' = Append(notesQueue, f)
      /\ UNCHANGED <<screen, current, arriving, madeFor, clock, notes, notesDisk, typed,
                     quoteVars, list>>
  BY DEF ClearAllAffirmations, WriteNote
<1> HIDE DEF f
<1>3. notesQueue \in Seq(NoteFrames) /\ clock \in Nat
  BY DEF IInv, TypeOK
<1>4. /\ notesQueue' \in Seq(NoteFrames) /\ Len(notesQueue') = Len(notesQueue) + 1
      /\ Len(notesQueue) \in Nat
      /\ DOMAIN notesQueue' = 1..(Len(notesQueue) + 1) /\ DOMAIN notesQueue = 1..Len(notesQueue)
      /\ \A i \in DOMAIN notesQueue : i \in DOMAIN notesQueue' /\ notesQueue'[i] = notesQueue[i]
      /\ notesQueue'[Len(notesQueue) + 1] = f
  BY <1>1, <1>2, <1>3, AppendFacts
<1>5. TypeOK'
  BY <1>2, <1>4 DEF IInv, TypeOK, quoteVars
<1>6. /\ quoteQueue = <<>> /\ \A i \in DOMAIN notesQueue : ~IsSave(notesQueue[i])
  BY <1>2 DEF IInv, SaveInv
<1>7. DialogInv' /\ DownInv' /\ SaveInv'
  BY <1>1, <1>2, <1>4, <1>6 DEF IInv, DialogInv, DownInv, SaveInv, quoteVars
<1>8. StampInv'
  BY <1>1, <1>2, <1>3, <1>4 DEF IInv, StampInv, All
<1>9. RemovalInv'
  BY <1>1, <1>2, <1>4 DEF IInv, RemovalInv
<1>10. BoxInv'
  BY <1>2, <1>6 DEF IInv, BoxInv
<1>11. WaitsForClear => ListInv'
  <2> SUFFICES ASSUME WaitsForClear, ListInv PROVE ListInv'
    BY DEF IInv
  <2>1. \A n \in list : n # All
    BY MaxTimeAssumption DEF IInv, TypeOK, Stamps, All
  <2> QED  BY <1>1, <1>2, <1>4, <2>1 DEF ListInv
<1> QED  BY <1>5, <1>7, <1>8, <1>9, <1>10, <1>11 DEF IInv

(* A delete or clear is done, or has failed: its frame leaves the queue.   *)
LEMMA RemoveStep ==
    ASSUME IInv, Removed \/ RemoveFailed
    PROVE  IInv'
<1> DEFINE f == notesQueue[1]
<1>1. /\ notesQueue \in Seq(NoteFrames) /\ notesQueue # <<>>
      /\ notesQueue' = Tail(notesQueue)
      /\ UNCHANGED <<screen, current, arriving, madeFor, clock, typed, quoteVars>>
  BY DEF IInv, TypeOK, Removed, RemoveFailed
<1>2. /\ Len(notesQueue) \in Nat \ {0} /\ 1 \in DOMAIN notesQueue /\ Head(notesQueue) = f
      /\ f \in NoteFrames
      /\ notesQueue' \in Seq(NoteFrames) /\ Len(notesQueue') = Len(notesQueue) - 1
      /\ DOMAIN notesQueue' = 1..(Len(notesQueue) - 1)
      /\ \A i \in DOMAIN notesQueue' :
            i + 1 \in DOMAIN notesQueue /\ notesQueue'[i] = notesQueue[i + 1]
      /\ \A i \in DOMAIN notesQueue :
            i # 1 => i - 1 \in DOMAIN notesQueue' /\ notesQueue'[i - 1] = notesQueue[i]
  BY <1>1, TailFacts
<1>3. f.note = None /\ ~IsSave(f) /\ (f.stamp # All => IsDelete(f) /\ f.stamp \in Stamps)
  BY <1>2, FrameFacts DEF Removed, RemoveFailed, IsSave, IsDelete
<1>4. /\ quoteQueue = <<>> /\ quoteQueue' = <<>>
  BY <1>1 DEF IInv, SaveInv, quoteVars
<1> HIDE DEF f
<1>5. DialogInv' /\ DownInv' /\ SaveInv'
  BY <1>1, <1>2, <1>4 DEF IInv, DialogInv, DownInv, SaveInv
<1>6. \A i \in DOMAIN notesQueue' : notesQueue'[i].stamp <= clock
  BY <1>2 DEF IInv, StampInv
<1>7. \A n \in Stamps : (\E i \in DOMAIN notesQueue :
                            IsSave(notesQueue[i]) /\ notesQueue[i].stamp = n)
                         => (\E i \in DOMAIN notesQueue' :
                                IsSave(notesQueue'[i]) /\ notesQueue'[i].stamp = n)
  BY <1>2, <1>3 DEF f
<1>8. NoNotes \in [Stamps -> Maybe(Notes)] /\ \A n \in Stamps : NoNotes[n] = None
  BY DEF NoNotes, Maybe
<1>9. CASE Removed /\ f.stamp = All
  <2>1. /\ notes' = NoNotes /\ notesDisk' = NoNotes
        /\ list' = IF f.reload THEN Visible(NoNotes, typed) ELSE list
    BY <1>2, <1>9 DEF Removed, Applied
  <2>2. TypeOK'
    BY <1>1, <1>2, <1>8, <2>1 DEF IInv, TypeOK, quoteVars, Visible
  <2>3. StampInv' /\ RemovalInv' /\ BoxInv'
    <3>1. \A i, j \in DOMAIN notesQueue' :
             IsDelete(notesQueue'[i]) /\ IsDelete(notesQueue'[j])
                /\ notesQueue'[i].stamp = notesQueue'[j].stamp => i = j
      BY <1>2 DEF IInv, RemovalInv
    <3>2. \A i \in DOMAIN notesQueue' : IsDelete(notesQueue'[i]) =>
             notesQueue'[i].stamp \in Stamps
      BY <1>2, FrameFacts
    <3>3. RemovalInv'
      BY <1>8, <2>1, <3>1, <3>2 DEF RemovalInv
    <3> QED  BY <1>1, <1>6, <1>8, <2>1, <3>3 DEF StampInv, BoxInv
  <2>4. WaitsForClear => ListInv'
    <3> SUFFICES ASSUME WaitsForClear, ListInv PROVE ListInv'
      BY DEF IInv
    <3>1. list' = {}
      BY <1>2, <1>8, <1>9, <2>1, SMTT(30) DEF ListInv, Visible, IInv, TypeOK, f
    <3> QED  BY <1>1, <1>2, <3>1 DEF ListInv
  <2> QED  BY <1>5, <2>2, <2>3, <2>4 DEF IInv
<1>10. CASE Removed /\ f.stamp # All
  <2>1. /\ notes' = notes /\ notesDisk' = [notesDisk EXCEPT ![f.stamp] = None]
        /\ list' = IF f.reload THEN Visible(notes, typed) ELSE list
    BY <1>2, <1>3, <1>10 DEF Removed, Applied
  <2>2. TypeOK'
    BY <1>1, <1>2, <1>3, <2>1 DEF IInv, TypeOK, quoteVars, Visible, Maybe
  <2>3. notes[f.stamp] = None
    BY <1>2, <1>3, <1>10 DEF IInv, RemovalInv, f
  <2>4. StampInv'
    BY <1>1, <1>6, <2>1 DEF IInv, StampInv, TypeOK
  <2>5. RemovalInv'
    BY <1>2, <2>1 DEF IInv, RemovalInv
  <2>6. BoxInv'
    <3> SUFFICES ASSUME NEW n \in Stamps, notes[n] # None, notesDisk'[n] = None
                 PROVE  \E i \in DOMAIN notesQueue' :
                           IsSave(notesQueue'[i]) /\ notesQueue'[i].stamp = n
      BY <2>1 DEF BoxInv
    <3>1. n # f.stamp /\ notesDisk[n] = None
      BY <2>1, <2>3 DEF IInv, TypeOK
    <3> QED  BY <1>7, <3>1 DEF IInv, BoxInv
  <2>7. WaitsForClear => ListInv'
    <3> SUFFICES ASSUME WaitsForClear, ListInv PROVE ListInv'
      BY DEF IInv
    <3>1. screen = "notepad" => \A i \in DOMAIN notesQueue' :
                                   notesQueue'[i].stamp = All => notesQueue'[i].reload
      BY <1>2 DEF ListInv
    <3>2. CASE f.reload
      <4>1. screen = "notepad" /\ list' = Visible(notes, typed)
        BY <1>2, <2>1, <3>2 DEF ListInv, f
      <4>2. \A n \in list' : /\ n \in Stamps /\ n # f.stamp
                             /\ notes[n] # None /\ notesDisk[n] # None
                              /\ \A i \in DOMAIN notesQueue : notesQueue[i].stamp # n
        BY <2>3, <4>1, FreshList
      <4>3. \A n \in list' : notesDisk'[n] # None
        BY <2>1, <4>2 DEF IInv, TypeOK
      <4> QED  BY <1>1, <1>2, <2>1, <3>1, <4>1, <4>2, <4>3 DEF ListInv
    <3>3. CASE ~f.reload
      <4>1. list' = list /\ f.stamp \notin list
        BY <1>2, <2>1, <3>3 DEF ListInv, f
      <4>2. \A n \in list : notesDisk'[n] = notesDisk[n]
        BY <2>1, <4>1 DEF IInv, TypeOK
      <4>3. \A n \in list : notes[n] = None =>
               \E i \in DOMAIN notesQueue' : notesQueue'[i].reload /\ notesQueue'[i].stamp = n
        <5> SUFFICES ASSUME NEW n \in list, notes[n] = None
                     PROVE  \E i \in DOMAIN notesQueue' :
                               notesQueue'[i].reload /\ notesQueue'[i].stamp = n
          OBVIOUS
        <5>1. PICK i \in DOMAIN notesQueue : notesQueue[i].reload /\ notesQueue[i].stamp = n
          BY DEF ListInv
        <5>2. i # 1
          BY <3>3, <5>1 DEF f
        <5> QED  BY <1>2, <5>1, <5>2
      <4> QED  BY <1>1, <1>2, <2>1, <3>1, <4>1, <4>2, <4>3 DEF ListInv
    <3> QED  BY <3>2, <3>3
  <2> QED  BY <1>5, <2>2, <2>4, <2>5, <2>6, <2>7 DEF IInv
<1>11. CASE RemoveFailed /\ f.stamp = All
  <2>1. UNCHANGED <<notes, notesDisk, list>>
    BY <1>2, <1>11 DEF RemoveFailed
  <2>2. TypeOK'
    BY <1>1, <1>2, <2>1 DEF IInv, TypeOK, quoteVars
  <2>3. StampInv' /\ RemovalInv'
    BY <1>1, <1>2, <1>6, <2>1 DEF IInv, StampInv, RemovalInv
  <2>4. BoxInv'
    BY <1>7, <2>1 DEF IInv, BoxInv
  <2>5. WaitsForClear => ListInv'
    <3> SUFFICES ASSUME WaitsForClear, ListInv PROVE ListInv'
      BY DEF IInv
    <3>1. \A n \in list : n # All
      BY MaxTimeAssumption DEF IInv, TypeOK, Stamps, All
    <3>2. \A n \in list : notes[n] = None =>
             \E i \in DOMAIN notesQueue' : notesQueue'[i].reload /\ notesQueue'[i].stamp = n
      <4> SUFFICES ASSUME NEW n \in list, notes[n] = None
                   PROVE  \E i \in DOMAIN notesQueue' :
                             notesQueue'[i].reload /\ notesQueue'[i].stamp = n
        OBVIOUS
      <4>1. PICK i \in DOMAIN notesQueue : notesQueue[i].reload /\ notesQueue[i].stamp = n
        BY DEF ListInv
      <4>2. i # 1
        BY <1>11, <3>1, <4>1 DEF f
      <4> QED  BY <1>2, <4>1, <4>2
    <3> QED  BY <1>1, <1>2, <2>1, <3>2 DEF ListInv
  <2> QED  BY <1>5, <2>2, <2>3, <2>4, <2>5 DEF IInv
<1>12. CASE RemoveFailed /\ f.stamp # All
  <2>1. notes' = [notes EXCEPT ![f.stamp] = notesDisk[f.stamp]] /\ UNCHANGED <<notesDisk, list>>
    BY <1>2, <1>12 DEF RemoveFailed
  <2>2. TypeOK'
    BY <1>1, <1>2, <1>3, <1>12, <2>1 DEF IInv, TypeOK, quoteVars
  <2>3. StampInv'
    BY <1>1, <1>6, <2>1 DEF IInv, StampInv, TypeOK
  <2>4. RemovalInv'
    <3>1. \A i \in DOMAIN notesQueue' : IsDelete(notesQueue'[i]) =>
             notesQueue'[i].stamp # f.stamp /\ notesQueue'[i].stamp \in Stamps
      BY <1>2, <1>3, <1>12, FrameFacts DEF IInv, RemovalInv, f
    <3>2. \A i \in DOMAIN notesQueue' : IsDelete(notesQueue'[i]) =>
             notes'[notesQueue'[i].stamp] = None
      BY <1>2, <2>1, <3>1 DEF IInv, RemovalInv, TypeOK
    <3> QED  BY <1>2, <3>2 DEF IInv, RemovalInv
  <2>5. BoxInv'
    <3> SUFFICES ASSUME NEW n \in Stamps, notes'[n] # None, notesDisk[n] = None
                 PROVE  \E i \in DOMAIN notesQueue' :
                           IsSave(notesQueue'[i]) /\ notesQueue'[i].stamp = n
      BY <2>1 DEF BoxInv
    <3>1. notes[n] # None
      BY <2>1 DEF IInv, TypeOK
    <3> QED  BY <1>7, <3>1 DEF IInv, BoxInv
  <2>6. WaitsForClear => ListInv'
    <3> SUFFICES ASSUME WaitsForClear, ListInv PROVE ListInv'
      BY DEF IInv
    <3>1. ASSUME NEW n \in list, notes'[n] = None
          PROVE  \E i \in DOMAIN notesQueue' : notesQueue'[i].reload /\ notesQueue'[i].stamp = n
      <4>1. n # f.stamp /\ notes[n] = None
        BY <1>3, <1>12, <2>1, <3>1 DEF ListInv, IInv, TypeOK
      <4> QED  BY <1>2, <4>1 DEF ListInv, f
    <3> QED  BY <1>1, <1>2, <2>1, <3>1 DEF ListInv
  <2> QED  BY <1>5, <2>2, <2>3, <2>4, <2>5, <2>6 DEF IInv
<1> QED  BY <1>9, <1>10, <1>11, <1>12

(* A crash leaves the files, a start reads them: nothing is in flight.     *)
LEMMA CrashStep ==
    ASSUME IInv, Crash \/ Initialize
    PROVE  IInv'
<1>1. /\ notesQueue' = <<>> /\ quoteQueue' = <<>> /\ DOMAIN notesQueue' = {}
      /\ clock' = clock /\ notesDisk' = notesDisk /\ onQuoteDisk' = onQuoteDisk
      /\ screen' \in {"quote", "down"} /\ (WaitsForClear => list' = {}) /\ list' \subseteq list
  BY DEF Crash, Initialize, IInv, DownInv, ListInv
<1>2. TypeOK'
  <2>1. CASE Crash
    <3>1. /\ notes' \in [Stamps -> Maybe(Notes)] /\ onQuote' \in [Quotes -> Maybe(Stamps)]
          /\ current' \in Maybe(Quotes) /\ madeFor' \in Maybe(Quotes)
      BY <2>1 DEF Crash, Maybe, NoNotes
    <3>2. typed' \subseteq Stamps /\ list' \subseteq Stamps /\ arriving' \in BOOLEAN
      BY <2>1 DEF Crash
    <3>3. notesQueue' \in Seq(NoteFrames) /\ quoteQueue' \in Seq(QuoteFrames)
      BY <1>1
    <3> QED  BY <1>1, <3>1, <3>2, <3>3 DEF IInv, TypeOK
  <2>2. CASE Initialize
    BY <1>1, <2>2 DEF Initialize, IInv, TypeOK
  <2> QED  BY <2>1, <2>2
<1>3. \A n \in Stamps : notes'[n] # None => notesDisk[n] # None
  BY DEF Crash, Initialize, NoNotes
<1>4. DialogInv' /\ DownInv' /\ SaveInv' /\ StampInv' /\ RemovalInv' /\ BoxInv'
  BY <1>1, <1>3 DEF IInv, DialogInv, DownInv, SaveInv, StampInv, RemovalInv, BoxInv
<1>5. WaitsForClear => ListInv'
  BY <1>1 DEF ListInv
<1> QED  BY <1>2, <1>4, <1>5 DEF IInv

(* Every step keeps the invariant.                                         *)
LEMMA InvNext == IInv /\ [Next]_vars => IInv'
<1> SUFFICES ASSUME IInv, [Next]_vars PROVE IInv'
  OBVIOUS
<1>1. CASE UNCHANGED vars
  BY <1>1 DEF vars, noteVars, quoteVars, IInv, TypeOK, DialogInv, DownInv, SaveInv, StampInv,
              RemovalInv, BoxInv, ListInv
<1>2. CASE Next
  BY <1>2, ScreenStep, SaveStep, NoteSavedStep, QuoteStep, NoteFailedStep, OpenStep, CloseStep,
     DeleteStep, ClearStep, RemoveStep, CrashStep DEF Next
<1> QED  BY <1>1, <1>2

(* The boxes, their queues and the notepad's list always have their types; *)
(* and if no user comes back to the notepad while a clear goes on, it      *)
(* lists only what is still in the box once its own removals are done,     *)
(* whatever fails in whatever order.                                       *)
THEOREM NotepadIsRight == Spec => [](TypeOK /\ (WaitsForClear => NotepadOK))
<1>1. IInv => TypeOK /\ (WaitsForClear => NotepadOK)
  BY InvImplies
<1> QED  BY <1>1, InvInit, InvNext, PTL DEF Spec

(* A quote's copy on disk changes only to an affirmation that is on disk   *)
(* already, filed under this quote.                                        *)
LEMMA QuoteWrite ==
    ASSUME IInv, [Next]_vars, NEW q \in Quotes, onQuoteDisk'[q] # onQuoteDisk[q]
    PROVE  LET n == onQuoteDisk'[q]
           IN  notesDisk[n] # None /\ notesDisk[n].filed = q
<1>1. QuoteSaved
  BY DEF Next, vars, noteVars, quoteVars, GenerateNewQuote, QuoteArrives, GenerateAffirmation,
         AffirmationAnswered, CloseDialog, SaveAffirmation, NoteSaved, NoteFailed, QuoteFailed,
         OpenNotepad, CloseNotepad, DeleteAffirmation, ClearAllAffirmations, Removed,
         RemoveFailed, Crash, Initialize
<1>2. Head(quoteQueue) = quoteQueue[1]
  BY <1>1 DEF QuoteSaved, IInv, TypeOK
<1>3. q = quoteQueue[1].quote /\ onQuoteDisk'[q] = quoteQueue[1].stamp
  BY <1>1, <1>2 DEF QuoteSaved, IInv, TypeOK
<1> QED  BY <1>1, <1>3 DEF QuoteSaved, IInv, SaveInv

(* An affirmation reaches a quote's record only when the notepad's copy is *)
(* on disk, whatever crashes and failures happen in between.               *)
THEOREM NoteComesFirst == Spec => NoteBeforeQuote
<1>1. IInv /\ [Next]_vars =>
        [\A q \in Quotes : onQuoteDisk'[q] # onQuoteDisk[q] =>
            LET n == onQuoteDisk'[q] IN notesDisk[n] # None /\ notesDisk[n].filed = q]_vars
  BY QuoteWrite
<1> QED  BY <1>1, InvInit, InvNext, PTL DEF Spec, NoteBeforeQuote
=============================================================================
