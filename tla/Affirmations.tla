---------------------------- MODULE Affirmations ----------------------------
(***************************************************************************)
(* Affirmations: generated for the quote on screen (_generateAffirmation   *)
(* and _showAffirmationDialog of lib/screens/quote_screen.dart), saved to  *)
(* the affirmations box and to the quote (lib/services/                    *)
(* affirmation_service.dart), listed and deleted in the notepad            *)
(* (lib/screens/notepad_screen.dart), across crashes and restarts.         *)
(*                                                                         *)
(* Hive is external, as in QuoteStore: a put or delete is in memory at     *)
(* once, a clear when the file is cleared; frames reach the box's file in  *)
(* order, and the caller goes on in the event in which its frame does.  A  *)
(* failed write is undone in memory.  An affirmation is known by its       *)
(* timestamp.                                                              *)
(* The user taps Save once and waits; dialogs keep every other button out  *)
(* of reach.                                                               *)
(***************************************************************************)
EXTENDS Naturals, Sequences

CONSTANTS
    Quotes,     \* quotes that may be shown; all are in the quotes box
    MaxTime,    \* how many affirmations may be saved (bound)
    Faults,     \* whether a write may fail
    WaitsForClear, \* whether a user who leaves the notepad while it is being
                   \* cleared comes back only after that (environment)
    None        \* Dart's null

ASSUME MaxTimeAssumption == MaxTime \in Nat
ASSUME SwitchAssumption == Faults \in BOOLEAN /\ WaitsForClear \in BOOLEAN

Stamps == 1..MaxTime
All == 0                                    \* the key of a clear frame
Notes == [made : Quotes, filed : Quotes]    \* generated for; originalQuoteId
ASSUME NoneAssumption == None \notin Quotes /\ None \notin Nat /\ None \notin Notes

NoNotes == [n \in Stamps |-> None]
Maybe(S) == S \cup {None}

(* Frames of the affirmations box: a delete or clear (note = None) reloads *)
(* the list of the notepad that issued it, while that is still open.       *)
NoteFrames == [stamp : Stamps \cup {All}, note : Maybe(Notes), reload : BOOLEAN]
QuoteFrames == [quote : Quotes, stamp : Stamps]

VARIABLES
    screen,         \* "quote", "loading", "dialog", "notepad" or "down"
    current,        \* _currentQuote
    arriving,       \* whether a request for a new quote is in flight
    madeFor,        \* the quote the affirmation in the dialog was generated for
    clock,          \* the latest timestamp
    notes,          \* the affirmations box
    typed,          \* those of its values that are a Map<String, dynamic>
    notesDisk, notesQueue,
    onQuote,        \* the affirmation of each quote in the quotes box
    onQuoteDisk, quoteQueue,
    list            \* _affirmations of the notepad

noteVars == <<notes, typed, notesDisk, notesQueue>>
quoteVars == <<onQuote, onQuoteDisk, quoteQueue>>
vars == <<screen, current, arriving, madeFor, clock, noteVars, quoteVars, list>>

TypeOK ==
    /\ screen \in {"quote", "loading", "dialog", "notepad", "down"}
    /\ current \in Maybe(Quotes)
    /\ arriving \in BOOLEAN
    /\ madeFor \in Maybe(Quotes)
    /\ clock \in 0..MaxTime
    /\ notes \in [Stamps -> Maybe(Notes)] /\ notesDisk \in [Stamps -> Maybe(Notes)]
    /\ typed \subseteq Stamps
    /\ notesQueue \in Seq(NoteFrames)
    /\ onQuote \in [Quotes -> Maybe(Stamps)] /\ onQuoteDisk \in [Quotes -> Maybe(Stamps)]
    /\ quoteQueue \in Seq(QuoteFrames)
    /\ list \subseteq Stamps

Init ==
    /\ screen = "quote" /\ current = None /\ arriving = TRUE
    /\ madeFor = None /\ clock = 0
    /\ notes = NoNotes /\ notesDisk = NoNotes /\ typed = {} /\ notesQueue = <<>>
    /\ onQuote = [q \in Quotes |-> None] /\ onQuoteDisk = onQuote /\ quoteQueue = <<>>
    /\ list = {}

-----------------------------------------------------------------------------
(* getAllAffirmations: Hive reads a stored map back as a Map<dynamic,      *)
(* dynamic>, which `data is Map<String, dynamic>` leaves out.  The sort by *)
(* timestamp is implied by the stamps.                                     *)
Visible(box, maps) == {n \in maps : box[n] # None}

(* A write to the affirmations box.                                        *)
Applied(f, box) == IF f.stamp = All THEN NoNotes ELSE [box EXCEPT ![f.stamp] = f.note]
WriteNote(f) ==
    /\ notes' = IF f.stamp = All THEN notes ELSE Applied(f, notes)
    /\ notesQueue' = Append(notesQueue, f)
    /\ UNCHANGED notesDisk

Clearing == \E i \in DOMAIN notesQueue : notesQueue[i].stamp = All
Saving == quoteQueue # <<>> \/ \E i \in DOMAIN notesQueue : notesQueue[i].note # None

-----------------------------------------------------------------------------
(* The quote screen.                                                       *)

(* New Quote: the new quote arrives later, whatever is on screen by then.  *)
GenerateNewQuote ==
    /\ screen = "quote"
    /\ arriving' = TRUE
    /\ UNCHANGED <<screen, current, madeFor, clock, noteVars, quoteVars, list>>

QuoteArrives(q) ==
    /\ arriving /\ screen # "down"
    /\ current' = q
    /\ arriving' \in BOOLEAN        \* more requests may be in flight
    /\ UNCHANGED <<screen, madeFor, clock, noteVars, quoteVars, list>>

(* _generateAffirmation up to the request for the quote shown now.         *)
GenerateAffirmation ==
    /\ screen = "quote" /\ current # None
    /\ screen' = "loading"
    /\ madeFor' = current
    /\ UNCHANGED <<current, arriving, clock, noteVars, quoteVars, list>>

(* The answer: the dialog, or a message.                                   *)
AffirmationAnswered ==
    /\ screen = "loading"
    /\ screen' \in {"dialog", "quote"}
    /\ UNCHANGED <<current, arriving, madeFor, clock, noteVars, quoteVars, list>>

CloseDialog ==
    /\ screen = "dialog" /\ ~Saving
    /\ screen' = "quote"
    /\ UNCHANGED <<current, arriving, madeFor, clock, noteVars, quoteVars, list>>

(* Mutant: the quote is written before the affirmation is on disk.         *)
SaveQuoteFirst ==
    /\ screen = "dialog" /\ ~Saving
    /\ clock < MaxTime
    /\ clock' = clock + 1
    /\ WriteNote([stamp |-> clock', reload |-> FALSE,
                  note |-> [made |-> madeFor, filed |-> current]])
    /\ typed' = typed \cup {clock'}
    /\ onQuote' = [onQuote EXCEPT ![current] = clock']
    /\ quoteQueue' = Append(quoteQueue, [quote |-> current, stamp |-> clock'])
    /\ UNCHANGED <<screen, current, arriving, madeFor, onQuoteDisk, list>>

(* Save: saveAffirmation files the affirmation under the quote shown now.  *)
SaveAffirmation ==
    /\ screen = "dialog" /\ ~Saving
    /\ clock < MaxTime
    /\ clock' = clock + 1
    /\ WriteNote([stamp |-> clock', reload |-> FALSE,
                  note |-> [made |-> madeFor, filed |-> current]])
    /\ typed' = typed \cup {clock'}
    /\ UNCHANGED <<screen, current, arriving, madeFor, quoteVars, list>>

-----------------------------------------------------------------------------
(* The disk, and what the waiting caller does next.                        *)

(* The affirmation is on disk: saveAffirmationToQuote follows.             *)
NoteSaved ==
    /\ notesQueue # <<>>
    /\ LET f == Head(notesQueue) IN
         /\ f.note # None
         /\ notesDisk' = Applied(f, notesDisk)
         /\ notesQueue' = Tail(notesQueue)
         /\ onQuote' = [onQuote EXCEPT ![f.note.filed] = f.stamp]
         /\ quoteQueue' = Append(quoteQueue, [quote |-> f.note.filed, stamp |-> f.stamp])
    /\ UNCHANGED <<screen, current, arriving, madeFor, clock, notes, typed, onQuoteDisk, list>>

(* The quote is on disk: the dialog closes.                                *)
QuoteSaved ==
    /\ quoteQueue # <<>>
    /\ onQuoteDisk' = [onQuoteDisk EXCEPT ![Head(quoteQueue).quote] = Head(quoteQueue).stamp]
    /\ quoteQueue' = Tail(quoteQueue)
    /\ screen' = "quote"
    /\ UNCHANGED <<current, arriving, madeFor, clock, noteVars, onQuote, list>>

(* A failed write of the affirmation ends the handler with the dialog      *)
(* open; one of the quote is caught and the dialog closes.                 *)
NoteFailed ==
    /\ Faults /\ notesQueue # <<>>
    /\ Head(notesQueue).note # None
    /\ notes' = [notes EXCEPT ![Head(notesQueue).stamp] = None]
    /\ notesQueue' = Tail(notesQueue)
    /\ UNCHANGED <<screen, current, arriving, madeFor, clock, typed, notesDisk, quoteVars, list>>

QuoteFailed ==
    /\ Faults /\ quoteQueue # <<>>
    /\ LET q == Head(quoteQueue).quote
       IN  onQuote' = [onQuote EXCEPT ![q] = onQuoteDisk[q]]
    /\ quoteQueue' = Tail(quoteQueue)
    /\ screen' = "quote"
    /\ UNCHANGED <<current, arriving, madeFor, clock, noteVars, onQuoteDisk, list>>

-----------------------------------------------------------------------------
(* The notepad.                                                            *)

(* _openNotepad; initState loads the list.                                 *)
OpenNotepad ==
    /\ screen = "quote"
    /\ WaitsForClear => ~Clearing
    /\ screen' = "notepad"
    /\ list' = Visible(notes, typed)
    /\ UNCHANGED <<current, arriving, madeFor, clock, noteVars, quoteVars>>

(* Whoever still waits for the disk will find the notepad unmounted.       *)
CloseNotepad ==
    /\ screen = "notepad"
    /\ screen' = "quote"
    /\ list' = {}
    /\ notesQueue' = [i \in DOMAIN notesQueue |-> [notesQueue[i] EXCEPT !.reload = FALSE]]
    /\ UNCHANGED <<current, arriving, madeFor, clock, notes, typed, notesDisk, quoteVars>>

(* _deleteAffirmation of a listed affirmation.  One that is already gone   *)
(* needs no write: the list is reloaded at once.                           *)
DeleteAffirmation(n) ==
    /\ screen = "notepad" /\ n \in list
    /\ IF notes[n] # None
         THEN /\ WriteNote([stamp |-> n, note |-> None, reload |-> TRUE])
              /\ UNCHANGED list
         ELSE /\ list' = Visible(notes, typed)
              /\ UNCHANGED <<notes, notesDisk, notesQueue>>
    /\ UNCHANGED <<screen, current, arriving, madeFor, clock, typed, quoteVars>>

(* Clear All is offered while the list is not empty.                       *)
ClearAllAffirmations ==
    /\ screen = "notepad" /\ list # {}
    /\ ~Clearing         \* a second clear before the first is done changes nothing
    /\ WriteNote([stamp |-> All, note |-> None, reload |-> TRUE])
    /\ UNCHANGED <<screen, current, arriving, madeFor, clock, typed, quoteVars, list>>

(* Mutant: the list is not reloaded.                                       *)
RemovedUnseen ==
    /\ notesQueue # <<>>
    /\ LET f == Head(notesQueue) IN
         /\ f.note = None
         /\ notesDisk' = Applied(f, notesDisk)
         /\ notes' = IF f.stamp = All THEN NoNotes ELSE notes
         /\ notesQueue' = Tail(notesQueue)
    /\ UNCHANGED <<screen, current, arriving, madeFor, clock, typed, quoteVars, list>>

(* A delete or clear is on disk: _loadAffirmations.                        *)
Removed ==
    /\ notesQueue # <<>>
    /\ LET f == Head(notesQueue) IN
         /\ f.note = None
         /\ notesDisk' = Applied(f, notesDisk)
         /\ notes' = IF f.stamp = All THEN NoNotes ELSE notes
         /\ notesQueue' = Tail(notesQueue)
         /\ list' = IF f.reload THEN Visible(notes', typed) ELSE list
    /\ UNCHANGED <<screen, current, arriving, madeFor, clock, typed, quoteVars>>

(* It failed: a message, and the list stays as it is.                      *)
RemoveFailed ==
    /\ Faults /\ notesQueue # <<>>
    /\ LET f == Head(notesQueue) IN
         /\ f.note = None
         /\ notes' = IF f.stamp = All THEN notes
                     ELSE [notes EXCEPT ![f.stamp] = notesDisk[f.stamp]]
         /\ notesQueue' = Tail(notesQueue)
    /\ UNCHANGED <<screen, current, arriving, madeFor, clock, typed, notesDisk, quoteVars, list>>

-----------------------------------------------------------------------------
(* The process dies, and starts again: the boxes are read from the disk.   *)
Crash ==
    /\ screen # "down"
    /\ screen' = "down" /\ current' = None /\ arriving' = FALSE /\ madeFor' = None
    /\ notes' = NoNotes /\ typed' = {} /\ notesQueue' = <<>>
    /\ onQuote' = [q \in Quotes |-> None] /\ quoteQueue' = <<>>
    /\ list' = {}
    /\ UNCHANGED <<clock, notesDisk, onQuoteDisk>>

Initialize ==
    /\ screen = "down"
    /\ screen' = "quote" /\ arriving' = TRUE
    /\ notes' = notesDisk
    /\ onQuote' = onQuoteDisk
    /\ UNCHANGED <<current, madeFor, clock, typed, notesDisk, notesQueue, onQuoteDisk,
                   quoteQueue, list>>

Next ==
    \/ GenerateNewQuote \/ \E q \in Quotes : QuoteArrives(q)
    \/ GenerateAffirmation \/ AffirmationAnswered \/ CloseDialog \/ SaveAffirmation
    \/ NoteSaved \/ QuoteSaved \/ NoteFailed \/ QuoteFailed
    \/ OpenNotepad \/ CloseNotepad
    \/ \E n \in Stamps : DeleteAffirmation(n)
    \/ ClearAllAffirmations \/ Removed \/ RemoveFailed
    \/ Crash \/ Initialize

Spec == Init /\ [][Next]_vars

-----------------------------------------------------------------------------
(* Properties.                                                             *)

(* An affirmation reaches a quote's record only when the notepad's copy,   *)
(* filed under that quote, is already on disk: a crash between the two     *)
(* writes of saveAffirmation loses the one on the quote, never the notepad's.*)
NoteBeforeQuote ==
    [][\A q \in Quotes :
         onQuoteDisk'[q] # onQuoteDisk[q] =>
            LET n == onQuoteDisk'[q]
            IN  notesDisk[n] # None /\ notesDisk[n].filed = q]_vars

(* An open notepad whose own removals are done lists only affirmations     *)
(* that are still in the box: overlapping deletes, a clear, failing writes,*)
(* leaving and coming back never leave a removed affirmation on the list,  *)
(* if the user does not come back while a clear goes on.                   *)
RemovedIsGone ==
    screen = "notepad" /\ (\A i \in DOMAIN notesQueue : ~notesQueue[i].reload)
        => \A n \in list : notes[n] # None

(* The notepad's list and the two boxes behind it, at any point of their   *)
(* writes.                                                                 *)
NotepadOK == TypeOK /\ RemovedIsGone
=============================================================================
