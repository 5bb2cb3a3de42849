-------------------------- MODULE QuoteScreenProofs --------------------------
(***************************************************************************)
(* What the quote screen guarantees for any set of quotes that covers more *)
(* traditions than it remembers, any number of overlapping New Quote calls *)
(* and background fetches, and any answers of the API and the disk.        *)
(***************************************************************************)
EXTENDS QuoteScreen, Integers, Sequences, FiniteSets, FiniteSetTheorems, WellFoundedInduction, TLAPS

Distinct(r) == \A i, j \in DOMAIN r : r[i] = r[j] => i = j

Absent(x, r) == \A i \in DOMAIN r : r[i] # x

(* add, then removeAt(0) if the list has become longer than n.             *)
AppendTrim(r, x, n) ==
    IF Len(Append(r, x)) > n THEN Tail(Append(r, x)) ELSE Append(r, x)

(* Adding x and trimming: a sequence over the same set that ends with x,   *)
(* and no longer than n if it was not before.                              *)
LEMMA AppendTrimType ==
    ASSUME NEW S, NEW n \in Nat \ {0}, NEW r \in Seq(S), NEW x \in S
    PROVE  /\ AppendTrim(r, x, n) \in Seq(S)
           /\ Len(r) <= n => Len(AppendTrim(r, x, n)) <= n
           /\ AppendTrim(r, x, n) # <<>>
           /\ AppendTrim(r, x, n)[Len(AppendTrim(r, x, n))] = x
<1>1. CASE Len(r) < n
  <2>1. AppendTrim(r, x, n) = Append(r, x)
    BY <1>1 DEF AppendTrim
  <2> QED  BY <1>1, <2>1
<1>2. CASE Len(r) >= n
  <2>1. AppendTrim(r, x, n) = Tail(Append(r, x))
    BY <1>2 DEF AppendTrim
  <2> QED  BY <1>2, <2>1
<1> QED  BY <1>1, <1>2

(* Trimming after the addition is trimming before it.                      *)
LEMMA AppendTrimForm ==
    ASSUME NEW S, NEW n \in Nat \ {0}, NEW r \in Seq(S), Len(r) <= n, NEW x \in S
    PROVE  AppendTrim(r, x, n) = IF Len(r) < n THEN Append(r, x) ELSE Append(Tail(r), x)
<1>1. CASE Len(r) < n
  BY <1>1 DEF AppendTrim
<1>2. CASE Len(r) = n
  <2>1. AppendTrim(r, x, n) = Tail(Append(r, x))
    BY <1>2 DEF AppendTrim
  <2>2. Tail(Append(r, x)) = Append(Tail(r), x)
    BY <1>2
  <2> QED  BY <1>2, <2>1, <2>2
<1> QED  BY <1>1, <1>2

(* Adding an item that is absent keeps the items distinct.                 *)
LEMMA AppendTrimDistinct ==
    ASSUME NEW S, NEW n \in Nat \ {0}, NEW r \in Seq(S), Len(r) <= n, NEW x \in S,
           Distinct(r), Absent(x, r)
    PROVE  Distinct(AppendTrim(r, x, n))
<1>1. Distinct(Append(r, x))
  BY DEF Distinct, Absent
<1>2. CASE Len(r) < n
  BY <1>1, <1>2 DEF AppendTrim
<1>3. CASE Len(r) = n
  <2>1. AppendTrim(r, x, n) = Tail(Append(r, x))
    BY <1>3 DEF AppendTrim
  <2>2. Append(r, x) \in Seq(S) /\ Append(r, x) # <<>>
    OBVIOUS
  <2>3. ASSUME NEW q \in Seq(S), q # <<>>, Distinct(q)  PROVE Distinct(Tail(q))
    BY <2>3 DEF Distinct
  <2> QED  BY <1>1, <2>1, <2>2, <2>3
<1> QED  BY <1>2, <1>3

(* A set with more than n elements has one that a list of length n misses: *)
(* four audio files and a memory of three, nine traditions and one of three.*)
LEMMA SomethingAbsent ==
    ASSUME NEW S, IsFiniteSet(S), NEW n \in Nat, Cardinality(S) > n,
           NEW T, NEW r \in Seq(T), Len(r) <= n
    PROVE  \E x \in S : Absent(x, r)
<1> SUFFICES ASSUME \A x \in S : ~Absent(x, r)  PROVE FALSE
  OBVIOUS
<1> DEFINE at == [x \in S |-> CHOOSE i \in DOMAIN r : r[i] = x]
<1>1. \A x \in S : at[x] \in 1..Len(r) /\ r[at[x]] = x
  BY DEF Absent
<1>2. at \in [S -> 1..Len(r)]
  BY <1>1
<1>3. IsFiniteSet(1..Len(r)) /\ Cardinality(1..Len(r)) = Len(r)
  <2>1. 1 \in Int /\ Len(r) \in Int /\ Len(r) >= 0
    OBVIOUS
  <2>2. /\ IsFiniteSet(1..Len(r))
        /\ Cardinality(1..Len(r)) = IF 1 > Len(r) THEN 0 ELSE Len(r) - 1 + 1
    BY <2>1, FS_Interval
  <2> QED  BY <2>1, <2>2
<1>4. Cardinality(S) \in Nat
  BY FS_CardinalityType
<1>5. Cardinality(1..Len(r)) < Cardinality(S)
  BY <1>3, <1>4
<1> HIDE DEF at
<1>6. PICK x, y \in S : x # y /\ at[x] = at[y]
  BY <1>2, <1>3, <1>5, FS_PigeonHole
<1> QED  BY <1>1, <1>6

-----------------------------------------------------------------------------

(* The seeded quotes stay in the box, and a call that waits for the disk   *)
(* has a quote of the API.                                                 *)
BoxInv ==
    /\ SeedQuotes \subseteq quotes
    /\ \A c \in Calls : pc[c] = "write" => got[c] \in AIQuotes

(* With AI quotes switched off only background fetches ask the API.        *)
LocalInv ==
    ~UseAIQuotes => /\ \A c \in Flows \cup {Start} : pc[c] \notin {"fetch", "write"}
                    /\ current \notin AIQuotes

(* For a user who waits: until the first quote is shown nothing else has   *)
(* happened.                                                               *)
FirstInv ==
    WaitsForFirst /\ pc[Start] # "idle" =>
        /\ recent = <<>> /\ current = None /\ fade = "shown"
        /\ \A c \in Flows : pc[c] = "idle"

WindowInv == WaitsForFirst => TraditionWindow

IInv == TypeOK /\ BoxInv /\ LocalInv /\ NewestIsShown /\ FirstInv /\ WindowInv

WindowStep == recent' = recent \/ \E t \in Traditions : Variety!Pick(t)

-----------------------------------------------------------------------------
(* As long as the seeded quotes are in the box, a New Quote call finds a   *)
(* quote whose tradition is outside a window of at most MaxRecent, and     *)
(* shows no other: the "use all quotes" fallback is dead code.             *)
LEMMA FreshChoice ==
    ASSUME TypeOK, Len(recent) <= MaxRecent,
           NEW ai \in AIQuotes \cup {None}, NEW box \in SUBSET Quotes,
           SeedQuotes \subseteq box, NEW q \in NewQuoteChoices(ai, box)
    PROVE  Absent(TraditionOf[q], recent)
<1>1. CASE ai # None /\ TraditionOf[ai] \notin Avoided
  BY <1>1 DEF NewQuoteChoices, Avoided, RecentTraditions, Absent
<1>2. CASE ~(ai # None /\ TraditionOf[ai] \notin Avoided)
  <2>1. MaxRecent \in Nat /\ recent \in Seq(Traditions)
    BY MaxRecentAssumption DEF TypeOK
  <2>2. \E t \in {TraditionOf[p] : p \in SeedQuotes} : Absent(t, recent)
    BY <2>1, SeedAssumption, SomethingAbsent
  <2>3. PICK p \in SeedQuotes : Absent(TraditionOf[p], recent)
    BY <2>2
  <2>4. p \in box /\ p \notin AIQuotes
    BY QuotesAssumption DEF LocalQuotes
  <2>5. TraditionOf[p] \notin Avoided
    BY <2>3 DEF Avoided, RecentTraditions, Absent
  <2>6. q \in LocalChoices(box, Avoided)
    BY <1>2 DEF NewQuoteChoices
  <2>7. TraditionOf[q] \notin Avoided
    BY <2>4, <2>5, <2>6 DEF LocalChoices
  <2> QED  BY <2>7 DEF Avoided, RecentTraditions, Absent
<1> QED  BY <1>1, <1>2

(* Whatever may be shown is a quote of the box or the API's answer, and    *)
(* not an AI quote when those are switched off.                            *)
LEMMA ChoiceType ==
    ASSUME NEW ai \in AIQuotes \cup {None}, NEW box \in SUBSET Quotes, NEW avoid,
           ~UseAIQuotes => ai = None
    PROVE  /\ \A q \in LocalChoices(box, avoid) :
                 q \in Quotes /\ (~UseAIQuotes => q \notin AIQuotes)
           /\ \A q \in NewQuoteChoices(ai, box) :
                 q \in Quotes /\ (~UseAIQuotes => q \notin AIQuotes)
  BY QuotesAssumption DEF LocalChoices, NewQuoteChoices

(* A call returns, and at most a background fetch is started.              *)
LEMMA ReturnStep ==
    ASSUME TypeOK, NEW c \in Calls, ReturnAndFetchNext(c)
    PROVE  /\ pc' \in [Calls -> {"idle", "fetch", "write", "begin"}]
           /\ \A d \in Calls \ Nexts : pc'[d] = IF d = c THEN "idle" ELSE pc[d]
           /\ \A d \in Calls : pc'[d] = "write" => pc[d] = "write"
<1>1. Nexts \subseteq Calls
  BY DEF Calls
<1>2. CASE HasKey /\ \E n \in Nexts : pc[n] = "idle"
  <2>1. PICK n \in Nexts : /\ pc[n] = "idle"
                           /\ pc' = [pc EXCEPT ![c] = "idle", ![n] = "fetch"]
    BY <1>2 DEF ReturnAndFetchNext
  <2> QED  BY <1>1, <2>1 DEF TypeOK
<1>3. CASE ~(HasKey /\ \E n \in Nexts : pc[n] = "idle")
  <2>1. pc' = [pc EXCEPT ![c] = "idle"]
    BY <1>3 DEF ReturnAndFetchNext
  <2> QED  BY <2>1 DEF TypeOK
<1> QED  BY <1>2, <1>3

(* What the continuation of a call leaves: all of the invariant but the    *)
(* part about the box.                                                     *)
SettleOK ==
    /\ current' \in Quotes \cup {None}
    /\ recent' \in Seq(Traditions)
    /\ nextAIQuote' \in AIQuotes \cup {None}
    /\ fade' \in {"shown", "reversing", "hidden"}
    /\ pc' \in [Calls -> {"idle", "fetch", "write", "begin"}]
    /\ \A d \in Calls : pc'[d] = "write" => pc[d] = "write"
    /\ LocalInv' /\ NewestIsShown' /\ FirstInv' /\ WindowInv'
    /\ WaitsForFirst => WindowStep

(* The continuation of a call keeps the screen's part of the invariant.    *)
LEMMA SettleStep ==
    ASSUME IInv, UNCHANGED settings, NEW c \in Calls,
           c \notin Flows => pc[c] # "idle",
           c \in Flows /\ WaitsForFirst => pc[Start] = "idle",
           NEW ai \in AIQuotes \cup {None}, NEW box \in SUBSET Quotes,
           SeedQuotes \subseteq box,
           ~UseAIQuotes /\ c \notin Nexts => ai = None,
           Settle(c, ai, box)
    PROVE  SettleOK
<1> USE DEF IInv, SettleOK
<1>a. /\ Start \in Calls /\ Start \notin Flows \cup Nexts
      /\ Flows \subseteq Calls /\ Flows \cap Nexts = {}
  BY CallsAssumption DEF Calls
<1>b. \A q \in Quotes : TraditionOf[q] \in Traditions /\ q # None
  BY NoneAssumption DEF Traditions
<1>c. AIQuotes \subseteq Quotes
  BY QuotesAssumption
<1>d. (UseAIQuotes' <=> UseAIQuotes) /\ (WaitsForFirst' <=> WaitsForFirst)
  BY DEF UseAIQuotes, WaitsForFirst
<1>1. CASE c = Start
  <2>1. PICK q \in (IF ai # None THEN {ai} ELSE LocalChoices(box, {})) : ShowFirst(q)
    BY <1>1, <1>a DEF Settle
  <2>2. q \in Quotes /\ (~UseAIQuotes => q \notin AIQuotes)
    BY <1>1, <1>a, <1>c, <2>1, ChoiceType
  <2>3. /\ current' = q
        /\ recent' = Append(recent, TraditionOf[q])
        /\ nextAIQuote' = nextAIQuote /\ fade' = fade
    BY <2>1 DEF ShowFirst
  <2>4. /\ pc' \in [Calls -> {"idle", "fetch", "write", "begin"}]
        /\ \A d \in Calls \ Nexts : pc'[d] = IF d = Start THEN "idle" ELSE pc[d]
        /\ \A d \in Calls : pc'[d] = "write" => pc[d] = "write"
    BY <1>a, <2>1, ReturnStep DEF ShowFirst
  <2>5. /\ current' \in Quotes \cup {None}
        /\ recent' \in Seq(Traditions)
        /\ nextAIQuote' \in AIQuotes \cup {None}
        /\ fade' \in {"shown", "reversing", "hidden"}
    BY <1>b, <2>2, <2>3 DEF TypeOK
  <2>6. LocalInv'
    BY <1>a, <1>d, <2>2, <2>3, <2>4 DEF LocalInv
  <2>7. NewestIsShown'
    BY <1>b, <2>2, <2>3 DEF NewestIsShown, TypeOK
  <2>8. FirstInv'
    BY <1>a, <1>d, <2>4 DEF FirstInv
  <2>9. WindowInv' /\ (WaitsForFirst => WindowStep)
    <3> SUFFICES ASSUME WaitsForFirst  PROVE TraditionWindow' /\ WindowStep
      BY <1>d DEF WindowInv
    <3>1. recent = <<>>
      BY <1>1, <1>a DEF FirstInv
    <3>2. recent' = <<TraditionOf[q]>>
      BY <2>3, <3>1
    <3>3. TraditionWindow'
      BY <3>2, MaxRecentAssumption DEF TraditionWindow
    <3>4. Variety!Pick(TraditionOf[q])
      BY <2>3, <3>1, MaxRecentAssumption DEF Variety!Pick
    <3> QED  BY <1>b, <2>2, <3>3, <3>4 DEF WindowStep
  <2> QED  BY <2>4, <2>5, <2>6, <2>7, <2>8, <2>9
<1>2. CASE c \in Flows /\ NewQuoteChoices(ai, box) # {}
  <2>1. PICK q \in NewQuoteChoices(ai, box) : ShowNew(c, q)
    BY <1>2, <1>a DEF Settle
  <2>2. q \in Quotes /\ (~UseAIQuotes => q \notin AIQuotes)
    BY <1>2, <1>a, <2>1, ChoiceType
  <2>3. /\ current' = q
        /\ recent' = AppendTrim(recent, TraditionOf[q], MaxRecent)
        /\ nextAIQuote' = nextAIQuote /\ fade' = "shown"
    BY <2>1 DEF ShowNew, Remember, AppendTrim
  <2>4. /\ pc' \in [Calls -> {"idle", "fetch", "write", "begin"}]
        /\ \A d \in Calls \ Nexts : pc'[d] = IF d = c THEN "idle" ELSE pc[d]
        /\ \A d \in Calls : pc'[d] = "write" => pc[d] = "write"
    BY <2>1, ReturnStep DEF ShowNew
  <2>5. /\ recent' \in Seq(Traditions)
        /\ recent' # <<>> /\ recent'[Len(recent')] = TraditionOf[q]
        /\ Len(recent) <= MaxRecent => Len(recent') <= MaxRecent
    <3>1. recent \in Seq(Traditions) /\ TraditionOf[q] \in Traditions /\ MaxRecent \in Nat \ {0}
      BY <1>b, <2>2, MaxRecentAssumption DEF TypeOK
    <3>2. recent' \in Seq(Traditions)
      BY <2>3, <3>1, AppendTrimType
    <3>3. recent' # <<>> /\ recent'[Len(recent')] = TraditionOf[q]
      BY <2>3, <3>1 DEF AppendTrim
    <3>4. Len(recent) <= MaxRecent => Len(recent') <= MaxRecent
      BY <2>3, <3>1 DEF AppendTrim
    <3> QED  BY <3>2, <3>3, <3>4
  <2>6. /\ current' \in Quotes \cup {None}
        /\ nextAIQuote' \in AIQuotes \cup {None}
        /\ fade' \in {"shown", "reversing", "hidden"}
    BY <2>2, <2>3 DEF TypeOK
  <2>7. LocalInv'
    BY <1>a, <1>d, <2>2, <2>3, <2>4 DEF LocalInv
  <2>8. NewestIsShown'
    BY <2>3, <2>5 DEF NewestIsShown
  <2>9. FirstInv'
    BY <1>2, <1>a, <1>d, <2>4 DEF FirstInv
  <2>10. WindowInv' /\ (WaitsForFirst => WindowStep)
    <3> SUFFICES ASSUME WaitsForFirst  PROVE TraditionWindow' /\ WindowStep
      BY <1>d DEF WindowInv
    <3>1. recent \in Seq(Traditions) /\ Len(recent) <= MaxRecent /\ Distinct(recent)
      BY DEF TypeOK, WindowInv, TraditionWindow, Distinct
    <3>2. Absent(TraditionOf[q], recent)
      BY <2>1, <3>1, FreshChoice
    <3>3. Distinct(recent')
      BY <1>b, <2>2, <2>3, <3>1, <3>2, MaxRecentAssumption, AppendTrimDistinct
    <3>4. recent' = IF Len(recent) < MaxRecent
                      THEN Append(recent, TraditionOf[q])
                      ELSE Append(Tail(recent), TraditionOf[q])
      <4>1. TraditionOf[q] \in Traditions
        BY <1>b, <2>2
      <4>2. AppendTrim(recent, TraditionOf[q], MaxRecent)
              = IF Len(recent) < MaxRecent
                  THEN Append(recent, TraditionOf[q])
                  ELSE Append(Tail(recent), TraditionOf[q])
        BY <3>1, <4>1, MaxRecentAssumption, AppendTrimForm
      <4> QED  BY <2>3, <4>2
    <3>5. Variety!Pick(TraditionOf[q])
      BY <3>2, <3>4 DEF Variety!Pick, Absent
    <3>6. TraditionWindow'
      BY <2>5, <3>1, <3>3 DEF TraditionWindow, Distinct
    <3>7. WindowStep
      BY <1>b, <2>2, <3>5 DEF WindowStep
    <3> QED  BY <3>6, <3>7
  <2> QED  BY <2>4, <2>5, <2>6, <2>7, <2>8, <2>9, <2>10
<1>3. CASE \/ c \in Flows /\ NewQuoteChoices(ai, box) = {}
           \/ c \in Nexts
  <2>1. /\ current' = current /\ recent' = recent
        /\ nextAIQuote' \in {nextAIQuote, ai}
        /\ fade' = "shown" \/ fade' = fade
        /\ pc' = [pc EXCEPT ![c] = "idle"]
    BY <1>3, <1>a DEF Settle
  <2>2. LocalInv' /\ NewestIsShown'
    BY <1>a, <1>d, <2>1 DEF LocalInv, NewestIsShown, TypeOK
  <2>3. FirstInv'
    BY <1>a, <1>d, <2>1 DEF FirstInv, TypeOK
  <2>4. WindowInv' /\ WindowStep
    BY <1>d, <2>1 DEF WindowInv, TraditionWindow, WindowStep
  <2> QED  BY <2>1, <2>2, <2>3, <2>4 DEF TypeOK
<1> QED  BY <1>1, <1>2, <1>3 DEF Calls

-----------------------------------------------------------------------------
(* The initial state satisfies the invariant.                              *)
LEMMA InitInv == Init => IInv
<1> SUFFICES ASSUME Init  PROVE IInv
  OBVIOUS
<1>1. TypeOK
  BY QuotesAssumption DEF Init, TypeOK, LocalQuotes
<1>2. BoxInv /\ LocalInv
  BY CallsAssumption, QuotesAssumption, NoneAssumption DEF Init, BoxInv, LocalInv, Calls
<1>3. NewestIsShown /\ FirstInv
  BY CallsAssumption DEF Init, NewestIsShown, FirstInv, Calls
<1>4. WindowInv
  BY MaxRecentAssumption DEF Init, WindowInv, TraditionWindow
<1> QED  BY <1>1, <1>2, <1>3, <1>4 DEF IInv

(* Every step keeps the invariant; for a user who waits for the first      *)
(* quote it moves the window by at most one pick.                          *)
LEMMA StepInv == IInv /\ [Next]_vars => IInv' /\ (WaitsForFirst => WindowStep)
<1> SUFFICES ASSUME IInv, [Next]_vars  PROVE IInv' /\ (WaitsForFirst => WindowStep)
  OBVIOUS
<1> USE DEF IInv
<1>a. /\ Start \in Calls /\ Start \notin Flows \cup Nexts
      /\ Flows \subseteq Calls /\ Nexts \subseteq Calls
  BY CallsAssumption DEF Calls
<1>s. settings' = settings
  BY DEF Next, vars
<1>d. (UseAIQuotes' <=> UseAIQuotes) /\ (WaitsForFirst' <=> WaitsForFirst)
  BY <1>s DEF UseAIQuotes, WaitsForFirst
<1>b. quotes \in SUBSET Quotes /\ SeedQuotes \subseteq quotes /\ None \in AIQuotes \cup {None}
  BY DEF TypeOK, BoxInv
<1>1. ASSUME BeginLocal  PROVE IInv' /\ (WaitsForFirst => WindowStep)
  <2>1. /\ pc[Start] # "idle" /\ Settle(Start, None, quotes)
        /\ quotes' = quotes /\ got' = got
    BY <1>1 DEF BeginLocal
  <2>2. SettleOK
    BY <1>a, <1>b, <2>1, <1>s, SettleStep
  <2> QED  BY <1>b, <1>s, <2>1, <2>2 DEF SettleOK, TypeOK, BoxInv
<1>2. ASSUME PressVisible  PROVE IInv' /\ (WaitsForFirst => WindowStep)
  <2>1. TypeOK'
    BY <1>2, <1>s, <1>d DEF PressVisible, TypeOK
  <2>2. BoxInv' /\ LocalInv' /\ NewestIsShown' /\ WindowInv' /\ WindowStep
    BY <1>2, <1>s, <1>d DEF PressVisible, BoxInv, LocalInv, NewestIsShown, WindowInv,
                TraditionWindow, WindowStep
  <2>3. FirstInv'
    BY <1>2, <1>s, <1>d DEF PressVisible, MayPress, FirstInv
  <2> QED  BY <2>1, <2>2, <2>3
<1>3. ASSUME NEW c \in Flows, PressHidden(c) \/ FadeOutDone(c)
      PROVE  IInv' /\ (WaitsForFirst => WindowStep)
  <2>1. pc[c] = "idle" /\ quotes' = quotes /\ got' = got
    BY <1>3 DEF PressHidden, FadeOutDone, StartFlow
  <2>2. WaitsForFirst => pc[Start] = "idle"
    BY <1>3 DEF PressHidden, FadeOutDone, MayPress, FirstInv
  <2>3. CASE UseAIQuotes /\ HasKey
    <3>1. /\ pc' = [pc EXCEPT ![c] = "fetch"]
          /\ fade' = "hidden"
          /\ current' = current /\ recent' = recent /\ nextAIQuote' = nextAIQuote
      BY <1>3, <2>3 DEF PressHidden, FadeOutDone, StartFlow
    <3>2. TypeOK'
      BY <1>a, <1>s, <2>1, <3>1 DEF TypeOK
    <3>3. BoxInv'
      BY <1>a, <2>1, <3>1 DEF BoxInv, TypeOK
    <3>4. LocalInv' /\ NewestIsShown' /\ WindowInv' /\ WindowStep
      BY <1>d, <2>3, <3>1 DEF LocalInv, NewestIsShown, WindowInv, TraditionWindow, WindowStep
    <3>5. FirstInv'
      BY <1>a, <1>d, <2>2, <3>1 DEF FirstInv, TypeOK
    <3> QED  BY <3>2, <3>3, <3>4, <3>5
  <2>4. CASE ~(UseAIQuotes /\ HasKey)
    <3>1. Settle(c, None, quotes)
      BY <1>3, <2>4 DEF PressHidden, FadeOutDone, StartFlow
    <3>2. SettleOK
      BY <1>a, <1>b, <2>2, <3>1, <1>s, SettleStep
    <3> QED  BY <1>b, <1>s, <2>1, <3>2 DEF SettleOK, TypeOK, BoxInv
  <2> QED  BY <2>3, <2>4
<1>4. ASSUME NEW c \in Calls, Answer(c)  PROVE IInv' /\ (WaitsForFirst => WindowStep)
  <2>1. PICK q \in AIQuotes \ quotes :
           /\ quotes' = quotes \cup {q}
           /\ got' = [got EXCEPT ![c] = q]
    BY <1>4 DEF Answer
  <2>2. /\ pc[c] = "fetch" /\ pc' = [pc EXCEPT ![c] = "write"]
        /\ current' = current /\ recent' = recent
        /\ nextAIQuote' = nextAIQuote /\ fade' = fade
    BY <1>4 DEF Answer
  <2>3. TypeOK'
    BY <1>s, <2>1, <2>2, QuotesAssumption DEF TypeOK
  <2>4. BoxInv'
    BY <2>1, <2>2 DEF BoxInv, TypeOK
  <2>5. LocalInv' /\ NewestIsShown' /\ WindowInv' /\ WindowStep
    BY <1>a, <1>d, <2>2 DEF LocalInv, NewestIsShown, WindowInv, TraditionWindow, WindowStep, TypeOK
  <2>6. FirstInv'
    BY <1>a, <1>d, <2>2 DEF FirstInv, TypeOK
  <2> QED  BY <2>3, <2>4, <2>5, <2>6
<1>5. ASSUME NEW c \in Calls, AnswerNull(c) \/ WriteDone(c) \/ WriteFailed(c)
      PROVE  IInv' /\ (WaitsForFirst => WindowStep)
  <2>1. /\ pc[c] \in {"fetch", "write"}
        /\ c \in Flows /\ WaitsForFirst => pc[Start] = "idle"
        /\ ~UseAIQuotes => c \in Nexts
    BY <1>5 DEF AnswerNull, WriteDone, WriteFailed, FirstInv, LocalInv, Calls
  <2>2. ASSUME AnswerNull(c)  PROVE IInv' /\ (WaitsForFirst => WindowStep)
    <3>1. Settle(c, None, quotes) /\ quotes' = quotes /\ got' = got
      BY <2>2 DEF AnswerNull
    <3>2. SettleOK
      BY <1>b, <2>1, <3>1, <1>s, SettleStep
    <3> QED  BY <1>b, <1>s, <3>1, <3>2 DEF SettleOK, TypeOK, BoxInv
  <2>3. ASSUME WriteDone(c)  PROVE IInv' /\ (WaitsForFirst => WindowStep)
    <3>1. /\ Settle(c, got[c], quotes) /\ quotes' = quotes
          /\ got' = [got EXCEPT ![c] = None]
          /\ pc[c] = "write"
      BY <2>3 DEF WriteDone
    <3>2. got[c] \in AIQuotes \cup {None}
      BY DEF TypeOK
    <3>3. SettleOK
      BY <1>b, <2>1, <3>1, <3>2, <1>s, SettleStep
    <3>4. pc'[c] # "write"
      BY <3>1, <2>1, <1>a, CallsAssumption
         DEF Settle, ShowFirst, ShowNew, ReturnAndFetchNext, TypeOK, Calls
    <3> QED  BY <1>b, <1>s, <3>1, <3>3, <3>4 DEF SettleOK, TypeOK, BoxInv
  <2>4. ASSUME WriteFailed(c)  PROVE IInv' /\ (WaitsForFirst => WindowStep)
    <3>1. /\ quotes' = quotes \ {got[c]} /\ Settle(c, None, quotes')
          /\ got' = [got EXCEPT ![c] = None]
          /\ pc[c] = "write"
      BY <2>4 DEF WriteFailed
    <3>2. quotes' \in SUBSET Quotes /\ SeedQuotes \subseteq quotes'
      BY <1>b, <3>1, QuotesAssumption DEF BoxInv, LocalQuotes
    <3>3. SettleOK
      BY <1>b, <2>1, <3>1, <3>2, <1>s, SettleStep
    <3>4. pc'[c] # "write"
      BY <3>1, <2>1, <1>a, CallsAssumption
         DEF Settle, ShowFirst, ShowNew, ReturnAndFetchNext, TypeOK, Calls
    <3> QED  BY <1>s, <3>1, <3>2, <3>3, <3>4 DEF SettleOK, TypeOK, BoxInv
  <2> QED  BY <1>5, <2>2, <2>3, <2>4
<1>6. ASSUME UNCHANGED vars  PROVE IInv' /\ (WaitsForFirst => WindowStep)
  BY <1>6, <1>d DEF vars, TypeOK, BoxInv, LocalInv, NewestIsShown, FirstInv, WindowInv,
              TraditionWindow, WindowStep
<1> QED
  BY <1>1, <1>2, <1>3, <1>4, <1>5, <1>6 DEF Next, Resumed

-----------------------------------------------------------------------------
(* The screen keeps its types under every interleaving.                    *)
THEOREM TypeCorrect == Spec => []TypeOK
  BY InitInv, StepInv, PTL DEF Spec, IInv

(* The newest entry of _recentTraditions is the tradition on screen,       *)
(* whichever calls overlap and even if the first quote comes late.         *)
THEOREM NewestShown == Spec => []NewestIsShown
  BY InitInv, StepInv, PTL DEF Spec, IInv

(* With AI quotes off no AI quote is shown, though the box may fill with   *)
(* them: HiveQuoteService.useAIQuotes.                                     *)
THEOREM LocalShown == Spec => []OnlyLocalShown
<1>1. IInv => OnlyLocalShown
  BY DEF IInv, LocalInv, OnlyLocalShown
<1> QED  BY <1>1, InitInv, StepInv, PTL DEF Spec

(* For a user who waits for the first quote, the screen implements         *)
(* VarietyWindow over traditions: _generateNewQuote never shows a          *)
(* tradition that is among the last MaxRecent shown.                       *)
THEOREM TraditionsNeverRepeat == Spec => TraditionsVary
<1>1. Init => Variety!Init
  BY DEF Init, Variety!Init
<1>2. IInv /\ [Next]_vars => IInv' /\ [WaitsForFirst => Variety!Next]_recent
  BY StepInv DEF WindowStep, Variety!Next
<1> QED
  BY <1>1, <1>2, InitInv, PTL DEF Spec, TraditionsVary
=============================================================================
