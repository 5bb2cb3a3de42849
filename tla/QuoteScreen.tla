----------------------------- MODULE QuoteScreen -----------------------------
(***************************************************************************)
(* How the quote screen picks and shows quotes: _initializeQuote,          *)
(* _generateNewQuote and _fetchNextAIQuote of                              *)
(* lib/screens/quote_screen.dart over getRandomQuote,                      *)
(* getRandomQuoteWithTraditionVariety and fetchQuoteFromAnthropic of       *)
(* lib/services/hive_quote_service.dart.                                   *)
(*                                                                         *)
(* Three kinds of asynchronous calls ask the API for a quote: the one that *)
(* fills the screen at start-up, one for each New Quote whose fade-out     *)
(* completed, and one in the background after every quote shown.  Each     *)
(* waits for the network (pc = "fetch"), then for the disk (pc = "write"). *)
(* All of them, and the button, interleave freely; between two awaits the  *)
(* code runs to completion.                                                *)
(***************************************************************************)
EXTENDS Naturals, Sequences, FiniteSets

CONSTANTS
    Quotes,         \* quotes that may be in the quotes box
    AIQuotes,       \* those the API may produce (id 'ai_...')
    SeedQuotes,     \* what the box holds at start-up
    TraditionOf,    \* [Quotes -> traditions]: quote.tradition.trim()
    MaxRecent,      \* _maxRecentTraditions
    HasKey,         \* whether ANTHROPIC_API_KEY is configured
    Faults,         \* whether a write to the box may fail
    Flows,          \* New Quote calls in flight at once (bound)
    Nexts,          \* background fetches in flight at once (bound)
    None            \* Dart's null

Start == "start"
Calls == {Start} \cup Flows \cup Nexts
Traditions == {TraditionOf[q] : q \in Quotes}
LocalQuotes == Quotes \ AIQuotes

ASSUME QuotesAssumption ==
    /\ AIQuotes \subseteq Quotes
    /\ SeedQuotes \subseteq LocalQuotes
ASSUME MaxRecentAssumption == MaxRecent \in Nat \ {0}
(* _loadInitialQuotes seeds nine traditions against a memory of three.     *)
ASSUME SeedAssumption ==
    /\ IsFiniteSet({TraditionOf[q] : q \in SeedQuotes})
    /\ Cardinality({TraditionOf[q] : q \in SeedQuotes}) > MaxRecent
ASSUME SwitchAssumption ==
    {HasKey, Faults} \subseteq BOOLEAN
ASSUME CallsAssumption == Start \notin Flows \cup Nexts /\ Flows \cap Nexts = {}
ASSUME NoneAssumption == None \notin Quotes

VARIABLES
    current,        \* _currentQuote
    recent,         \* _recentTraditions
    nextAIQuote,    \* _nextAIQuote
    fade,           \* _fadeController: "shown", "reversing" or "hidden"
    quotes,         \* the quotes box, in memory
    pc,             \* where each call is suspended
    got,            \* the quote a call is writing to the box
    settings        \* how this start of the app is used; no step changes it

vars == <<current, recent, nextAIQuote, fade, quotes, pc, got, settings>>

(* HiveQuoteService.useAIQuotes, set in the source.                        *)
UseAIQuotes == "useAIQuotes" \in settings
(* Whether the user waits for the first quote before pressing New Quote.   *)
WaitsForFirst == "waitsForFirst" \in settings

TypeOK ==
    /\ current \in Quotes \cup {None}
    /\ recent \in Seq(Traditions)
    /\ nextAIQuote \in AIQuotes \cup {None}
    /\ fade \in {"shown", "reversing", "hidden"}
    /\ quotes \subseteq Quotes
    /\ pc \in [Calls -> {"idle", "fetch", "write", "begin"}]
    /\ got \in [Calls -> AIQuotes \cup {None}]
    /\ settings \in SUBSET {"useAIQuotes", "waitsForFirst"}

(* initState: _initializeQuote runs up to its request, or, when there is   *)
(* nothing to wait for, picks a local quote before any other event.        *)
Init ==
    /\ settings \in SUBSET {"useAIQuotes", "waitsForFirst"}
    /\ current = None /\ recent = <<>> /\ nextAIQuote = None
    /\ fade = "shown"
    /\ quotes = SeedQuotes
    /\ pc = [c \in Calls |-> IF c # Start THEN "idle"
                             ELSE IF UseAIQuotes /\ HasKey THEN "fetch" ELSE "begin"]
    /\ got = [c \in Calls |-> None]

-----------------------------------------------------------------------------
(* Choosing a quote.                                                       *)

RecentTraditions == {recent[i] : i \in DOMAIN recent}

(* Mutant: the box is not filtered when AI quotes are off.                 *)
AnyChoices(box, avoid) ==
    LET fresh == {q \in box : TraditionOf[q] \notin avoid}
    IN  IF fresh # {} THEN fresh ELSE box

(* The local choice of getRandomQuote (avoid = {}) and of                  *)
(* getRandomQuoteWithTraditionVariety over the box `box`; the empty set    *)
(* stands for the exception of an empty choice.                            *)
LocalChoices(box, avoid) ==
    LET pool  == IF UseAIQuotes THEN box ELSE box \ AIQuotes
        fresh == {q \in pool : TraditionOf[q] \notin avoid}
    IN  IF fresh # {} THEN fresh ELSE pool

(* avoidTraditions is the live list, not a copy: the check made after the  *)
(* awaits sees what other calls have shown meanwhile.                      *)
Avoided == RecentTraditions

(* Mutant: the API's answer is shown without a look at its tradition.      *)
TrustTheAPI(ai, box) == IF ai # None THEN {ai} ELSE LocalChoices(box, Avoided)

(* What a New Quote call may show when the API gave ai (or null).          *)
NewQuoteChoices(ai, box) ==
    IF ai # None /\ TraditionOf[ai] \notin Avoided
      THEN {ai} ELSE LocalChoices(box, Avoided)

(* Append to _recentTraditions, keep only the last N.                      *)
Remember(r, t) == LET longer == Append(r, t)
                  IN  IF Len(longer) > MaxRecent THEN Tail(longer) ELSE longer

-----------------------------------------------------------------------------
(* What a call does with the API's answer.                                 *)

(* The call c returns; the quote it showed starts a background fetch if    *)
(* the API is configured and fewer than |Nexts| are in flight.             *)
ReturnAndFetchNext(c) ==
    IF HasKey /\ \E n \in Nexts : pc[n] = "idle"
      THEN \E n \in Nexts : /\ pc[n] = "idle"
                            /\ pc' = [pc EXCEPT ![c] = "idle", ![n] = "fetch"]
      ELSE pc' = [pc EXCEPT ![c] = "idle"]

(* Mutant: the first quote's tradition is not remembered.                  *)
ShowFirstForget(q) ==
    /\ current' = q
    /\ ReturnAndFetchNext(Start)
    /\ UNCHANGED <<recent, nextAIQuote, fade>>

(* _initializeQuote after its await: the tradition is appended without a   *)
(* trim, and nothing asks whether a quote is already on screen.            *)
ShowFirst(q) ==
    /\ current' = q
    /\ recent' = Append(recent, TraditionOf[q])
    /\ ReturnAndFetchNext(Start)
    /\ UNCHANGED <<nextAIQuote, fade>>

(* Mutant: the fade-in is forgotten.                                       *)
ShowNewHidden(c, q) ==
    /\ current' = q
    /\ recent' = Remember(recent, TraditionOf[q])
    /\ ReturnAndFetchNext(c)
    /\ UNCHANGED <<nextAIQuote, fade>>

(* _generateNewQuote after its await.                                      *)
ShowNew(c, q) ==
    /\ current' = q
    /\ recent' = Remember(recent, TraditionOf[q])
    /\ fade' = "shown"
    /\ ReturnAndFetchNext(c)
    /\ UNCHANGED nextAIQuote

(* The continuation of call c once the API's answer ai is known and the    *)
(* box holds `box`.  An empty box makes a New Quote throw and fade back    *)
(* in; at start-up the box is never empty (SeedAssumption).                *)
Settle(c, ai, box) ==
    \/ /\ c = Start
       /\ \E q \in (IF ai # None THEN {ai} ELSE LocalChoices(box, {})) : ShowFirst(q)
    \/ /\ c \in Flows
       /\ IF NewQuoteChoices(ai, box) # {}
            THEN \E q \in NewQuoteChoices(ai, box) : ShowNew(c, q)
            ELSE /\ fade' = "shown"
                 /\ pc' = [pc EXCEPT ![c] = "idle"]
                 /\ UNCHANGED <<current, recent, nextAIQuote>>
    \/ /\ c \in Nexts
       /\ nextAIQuote' = ai
       /\ pc' = [pc EXCEPT ![c] = "idle"]
       /\ UNCHANGED <<current, recent, fade>>

(* A New Quote call starts: with AI quotes it waits for the API, else it   *)
(* picks a local quote at once.                                            *)
StartFlow(c, fadeBefore) ==
    /\ c \in Flows
    /\ pc[c] = "idle"
    /\ IF UseAIQuotes /\ HasKey
         THEN /\ pc' = [pc EXCEPT ![c] = "fetch"]
              /\ fade' = fadeBefore
              /\ UNCHANGED <<current, recent, nextAIQuote>>
         ELSE Settle(c, None, quotes)
    /\ UNCHANGED <<quotes, got>>

-----------------------------------------------------------------------------
(* Actions.                                                                *)

(* Start-up without a request to wait for.                                 *)
BeginLocal ==
    /\ pc[Start] = "begin"
    /\ Settle(Start, None, quotes)
    /\ UNCHANGED <<quotes, got>>

MayPress == pc[Start] # "begin" /\ (WaitsForFirst => current # None)

(* New Quote is pressed while the quote is visible: the fade-out starts,   *)
(* or starts over.  The ticker of an unfinished fade is cancelled and its  *)
(* `then` never runs, so one pending fade stands for all earlier presses.  *)
PressVisible ==
    /\ MayPress
    /\ fade # "hidden"
    /\ fade' = "reversing"
    /\ UNCHANGED <<current, recent, nextAIQuote, quotes, pc, got>>

(* New Quote is pressed while the quote is faded out: reverse() is already *)
(* complete and one more call starts beside those in flight.               *)
PressHidden(c) ==
    /\ MayPress
    /\ fade = "hidden"
    /\ StartFlow(c, "hidden")

(* The fade-out ends and its `then` runs.                                  *)
FadeOutDone(c) ==
    /\ fade = "reversing"
    /\ StartFlow(c, "hidden")

(* The API answers with a usable quote: it is put in the box, where it is  *)
(* visible at once, and the call waits for the disk.                       *)
Answer(c) ==
    /\ pc[c] = "fetch"
    /\ \E q \in AIQuotes \ quotes :
         /\ quotes' = quotes \cup {q}
         /\ got' = [got EXCEPT ![c] = q]
    /\ pc' = [pc EXCEPT ![c] = "write"]
    /\ UNCHANGED <<current, recent, nextAIQuote, fade>>

(* The API fails, or its text is empty or a famous quote: null.            *)
AnswerNull(c) ==
    /\ pc[c] = "fetch"
    /\ Settle(c, None, quotes)
    /\ UNCHANGED <<quotes, got>>

WriteDone(c) ==
    /\ pc[c] = "write"
    /\ Settle(c, got[c], quotes)
    /\ got' = [got EXCEPT ![c] = None]
    /\ UNCHANGED quotes

(* A failed write takes the quote out of the box again; the exception is   *)
(* swallowed by fetchQuoteFromAnthropic, which returns null.               *)
WriteFailed(c) ==
    /\ Faults
    /\ pc[c] = "write"
    /\ quotes' = quotes \ {got[c]}
    /\ Settle(c, None, quotes')
    /\ got' = [got EXCEPT ![c] = None]

Resumed(c) == AnswerNull(c) \/ Answer(c) \/ WriteDone(c) \/ WriteFailed(c)

Next ==
    /\ \/ BeginLocal
       \/ PressVisible
       \/ \E c \in Flows : PressHidden(c) \/ FadeOutDone(c)
       \/ \E c \in Calls : Resumed(c)
    /\ UNCHANGED settings

Spec == Init /\ [][Next]_vars

(* Timers fire, the disk finishes, and a request is answered or fails.     *)
Fairness ==
    /\ WF_vars(BeginLocal /\ UNCHANGED settings)
    /\ WF_vars((\E c \in Flows : FadeOutDone(c)) /\ UNCHANGED settings)
    /\ \A c \in Calls : WF_vars(Resumed(c) /\ UNCHANGED settings)

FairSpec == Spec /\ Fairness

-----------------------------------------------------------------------------
(* Properties.                                                             *)

(* _recentTraditions ends with the tradition of the quote on screen,       *)
(* whichever of the overlapping calls showed it: what is avoided next      *)
(* includes what the user is looking at.                                   *)
NewestIsShown ==
    current # None =>
        recent # <<>> /\ recent[Len(recent)] = TraditionOf[current]

(* "Keep only the last N traditions" (quote_screen.dart:271) and no        *)
(* tradition twice among them ("Don't repeat last 3 traditions", line 89). *)
TraditionWindow ==
    /\ Len(recent) <= MaxRecent
    /\ \A i, j \in DOMAIN recent : recent[i] = recent[j] => i = j

(* For a user who waits for the first quote, the traditions shown move as  *)
(* in a VarietyWindow: "Users see different traditions for at least 3           *)
(* consecutive quotes" (docs/TRADITION_VARIETY_SYSTEM.md), however many    *)
(* New Quote calls overlap.                                                *)
Variety == INSTANCE VarietyWindow WITH Items <- Traditions, Window <- MaxRecent
TraditionsVary == Variety!Init /\ [][WaitsForFirst => Variety!Next]_recent

(* "set to false to disable AI quotes and use only local quotes"           *)
(* (hive_quote_service.dart:56): no AI quote is shown, although the        *)
(* background fetch ignores the switch and keeps adding them to the box.   *)
OnlyLocalShown == ~UseAIQuotes => current \notin AIQuotes

(* The screen never stays faded out: after a press, cancelled fades,       *)
(* overlapping calls and failures included, a quote fades in again.        *)
FadesBackIn == fade # "shown" ~> fade = "shown"
=============================================================================
