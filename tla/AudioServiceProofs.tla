------------------------- MODULE AudioServiceProofs -------------------------
(***************************************************************************)
(* AudioService keeps its types and never starts a local file that is      *)
(* among the last MaxRecent started, for any number of overlapping calls,  *)
(* any clips, and any failures of the plugin.  The screen is a client of   *)
(* it: what it asked for last is the quote's, and while its calls do not   *)
(* overlap the player is what the fields say it is.                        *)
(***************************************************************************)
EXTENDS ScreenAudio, Integers, Sequences, FiniteSets, FiniteSetTheorems, WellFoundedInduction, TLAPS

Distinct(r) == \A i, j \in DOMAIN r : r[i] = r[j] => i = j

Absent(x, r) == \A i \in DOMAIN r : r[i] # x

(* add, then removeAt(0) if the list has become longer than n.             *)
AppendTrim(r, x, n) ==
    IF Len(Append(r, x)) > n THEN Tail(Append(r, x)) ELSE Append(r, x)

(* Adding x and trimming: a sequence over the same set that ends with x,   *)
(* and no longer than n if it was not before.                              *)
LEMMA AppendTrimType ==
    ASSUME NEW S, NEW n \in Nat \ {0}, NEW r \in Seq(S), NEW x \in S
    PROVE  /\ AppendTrim(r, x, n) \in Seq(S)
           /\ Len(r) <= n => Len(AppendTrim(r, x, n)) <= n
           /\ AppendTrim(r, x, n) # <<>>
           /\ AppendTrim(r, x, n)[Len(AppendTrim(r, x, n))] = x
<1>1. CASE Len(r) < n
  <2>1. AppendTrim(r, x, n) = Append(r, x)
    BY <1>1 DEF AppendTrim
  <2> QED  BY <1>1, <2>1
<1>2. CASE Len(r) >= n
  <2>1. AppendTrim(r, x, n) = Tail(Append(r, x))
    BY <1>2 DEF AppendTrim
  <2> QED  BY <1>2, <2>1
<1> QED  BY <1>1, <1>2

(* Trimming after the addition is trimming before it.                      *)
LEMMA AppendTrimForm ==
    ASSUME NEW S, NEW n \in Nat \ {0}, NEW r \in Seq(S), Len(r) <= n, NEW x \in S
    PROVE  AppendTrim(r, x, n) = IF Len(r) < n THEN Append(r, x) ELSE Append(Tail(r), x)
<1>1. CASE Len(r) < n
  BY <1>1 DEF AppendTrim
<1>2. CASE Len(r) = n
  <2>1. AppendTrim(r, x, n) = Tail(Append(r, x))
    BY <1>2 DEF AppendTrim
  <2>2. Tail(Append(r, x)) = Append(Tail(r), x)
    BY <1>2
  <2> QED  BY <1>2, <2>1, <2>2
<1> QED  BY <1>1, <1>2

(* Adding an item that is absent keeps the items distinct.                 *)
LEMMA AppendTrimDistinct ==
    ASSUME NEW S, NEW n \in Nat \ {0}, NEW r \in Seq(S), Len(r) <= n, NEW x \in S,
           Distinct(r), Absent(x, r)
    PROVE  Distinct(AppendTrim(r, x, n))
<1>1. Distinct(Append(r, x))
  BY DEF Distinct, Absent
<1>2. CASE Len(r) < n
  BY <1>1, <1>2 DEF AppendTrim
<1>3. CASE Len(r) = n
  <2>1. AppendTrim(r, x, n) = Tail(Append(r, x))
    BY <1>3 DEF AppendTrim
  <2>2. Append(r, x) \in Seq(S) /\ Append(r, x) # <<>>
    OBVIOUS
  <2>3. ASSUME NEW q \in Seq(S), q # <<>>, Distinct(q)  PROVE Distinct(Tail(q))
    BY <2>3 DEF Distinct
  <2> QED  BY <1>1, <2>1, <2>2, <2>3
<1> QED  BY <1>2, <1>3

(* A set with more than n elements has one that a list of length n misses: *)
(* four audio files and a memory of three, nine traditions and one of three.*)
LEMMA SomethingAbsent ==
    ASSUME NEW S, IsFiniteSet(S), NEW n \in Nat, Cardinality(S) > n,
           NEW T, NEW r \in Seq(T), Len(r) <= n
    PROVE  \E x \in S : Absent(x, r)
<1> SUFFICES ASSUME \A x \in S : ~Absent(x, r)  PROVE FALSE
  OBVIOUS
<1> DEFINE at == [x \in S |-> CHOOSE i \in DOMAIN r : r[i] = x]
<1>1. \A x \in S : at[x] \in 1..Len(r) /\ r[at[x]] = x
  BY DEF Absent
<1>2. at \in [S -> 1..Len(r)]
  BY <1>1
<1>3. IsFiniteSet(1..Len(r)) /\ Cardinality(1..Len(r)) = Len(r)
  <2>1. 1 \in Int /\ Len(r) \in Int /\ Len(r) >= 0
    OBVIOUS
  <2>2. /\ IsFiniteSet(1..Len(r))
        /\ Cardinality(1..Len(r)) = IF 1 > Len(r) THEN 0 ELSE Len(r) - 1 + 1
    BY <2>1, FS_Interval
  <2> QED  BY <2>1, <2>2
<1>4. Cardinality(S) \in Nat
  BY FS_CardinalityType
<1>5. Cardinality(1..Len(r)) < Cardinality(S)
  BY <1>3, <1>4
<1> HIDE DEF at
<1>6. PICK x, y \in S : x # y /\ at[x] = at[y]
  BY <1>2, <1>3, <1>5, FS_PigeonHole
<1> QED  BY <1>1, <1>6

-----------------------------------------------------------------------------

(* What a suspended call knows: a playAmbience has its tradition, and one  *)
(* that plays AI audio has its clip.                                       *)
SlotInv ==
    \A s \in Slots :
        /\ pc[s] \in PlaySteps => tradition[s] \in Traditions
        /\ pc[s] \in {"aiMode", "aiPlay"} => what[s] \in Clips

IInv == TypeOK /\ SlotInv /\ RecentWindow

(* How a step may change the window: not at all, or by one pick.           *)
WindowStep == recent' = recent \/ \E f \in Files : Variety!Pick(f)

-----------------------------------------------------------------------------
(* The file that _getAudioFileWithFallbacks returns is not in the window:  *)
(* with more files than the window holds, its reset branch is dead code.   *)
LEMMA ChosenFile ==
    ASSUME TypeOK, RecentWindow, NEW primary \in Files, NEW f \in FileChoices(primary)
    PROVE  /\ f \in Files
           /\ Absent(f, recent)
           /\ WindowAfter(primary, f) = AppendTrim(recent, f, MaxRecent)
<1>1. recent \in Seq(Files) /\ Len(recent) <= MaxRecent
  BY DEF TypeOK, RecentWindow
<1>2. Unused # {}
  <2>1. MaxRecent \in Nat
    BY MaxRecentAssumption
  <2>2. \E x \in Files : Absent(x, recent)
    BY <1>1, <2>1, FilesAssumption, SomethingAbsent
  <2> QED  BY <2>2 DEF Unused, Used, Absent
<1>3. f \in Files /\ Absent(f, recent)
  BY <1>2 DEF FileChoices, Unused, Used, Absent
<1>4. WindowAfter(primary, f) = AppendTrim(recent, f, MaxRecent)
  BY <1>2 DEF WindowAfter, Remember, AppendTrim
<1> QED  BY <1>3, <1>4

(* Choosing a local file and starting its player keeps the types and moves *)
(* the window by one pick.                                                 *)
LEMMA LaunchLocalStep ==
    ASSUME TypeOK, RecentWindow,
           NEW s \in Slots, NEW t \in Traditions, NEW primary \in Files,
           NEW snd \in [Players -> SoundStates],
           LaunchLocal(s, t, primary, snd)
    PROVE  /\ recent' \in Seq(Files) /\ RecentWindow'
           /\ \E f \in Files : Variety!Pick(f)
           /\ filePath' \in Maybe(Files)
           /\ player' \in Maybe(Players)
           /\ sound' \in [Players -> SoundStates]
           /\ source' \in [Players -> Maybe(Clips \cup Files)]
           /\ pc' = [pc EXCEPT ![s] = "localMode"]
           /\ tradition' = [tradition EXCEPT ![s] = t]
           /\ what' \in [Slots -> Maybe(Clips \cup Files)]
           /\ \A u \in Slots \ {s} : what'[u] = what[u]
           /\ target' \in [Slots -> Maybe(Players)]
<1>1. PICK f \in FileChoices(primary) :
         /\ recent' = WindowAfter(primary, f)
         /\ filePath' = f
         /\ NewPlayer(s, t, f, "localMode", snd)
  BY DEF LaunchLocal
<1>2. /\ f \in Files
      /\ Absent(f, recent)
      /\ recent' = AppendTrim(recent, f, MaxRecent)
  BY <1>1, ChosenFile
<1>3. recent \in Seq(Files) /\ Len(recent) <= MaxRecent /\ Distinct(recent)
  BY DEF TypeOK, RecentWindow, Distinct
<1>4. recent' \in Seq(Files) /\ RecentWindow'
  <2>1. recent' \in Seq(Files) /\ Len(recent') <= MaxRecent
    BY <1>2, <1>3, MaxRecentAssumption, AppendTrimType
  <2>2. Distinct(recent')
    BY <1>2, <1>3, MaxRecentAssumption, AppendTrimDistinct
  <2> QED  BY <2>1, <2>2 DEF RecentWindow, Distinct
<1>5. Variety!Pick(f)
  <2>1. recent' = IF Len(recent) < MaxRecent
                    THEN Append(recent, f) ELSE Append(Tail(recent), f)
    BY <1>2, <1>3, MaxRecentAssumption, AppendTrimForm
  <2> QED  BY <1>2, <2>1 DEF Variety!Pick, Absent
<1>6. /\ player' \in Maybe(Players)
      /\ sound' \in [Players -> SoundStates]
      /\ source' \in [Players -> Maybe(Clips \cup Files)]
      /\ pc' = [pc EXCEPT ![s] = "localMode"]
      /\ tradition' = [tradition EXCEPT ![s] = t]
      /\ what' \in [Slots -> Maybe(Clips \cup Files)]
      /\ \A u \in Slots \ {s} : what'[u] = what[u]
      /\ target' \in [Slots -> Maybe(Players)]
  BY <1>1, <1>2 DEF NewPlayer, TypeOK, Maybe, SoundStates
<1> QED  BY <1>1, <1>2, <1>4, <1>5, <1>6 DEF Maybe

(* The part of playAmbience after its stopAmbience keeps the invariant.    *)
LEMMA LaunchStep ==
    ASSUME IInv, NEW s \in Slots, NEW t \in Traditions,
           NEW id \in Maybe(Clips), NEW file \in Maybe(Files),
           NEW snd \in [Players -> SoundStates], Launch(s, t, id, file, snd),
           lastTradition' \in Maybe(Traditions), cachedAudio' \subseteq Clips,
           isPlaying' \in BOOLEAN, timer' \in BOOLEAN
    PROVE  IInv' /\ WindowStep
<1> USE DEF IInv
<1> DEFINE all == ClipsOf[t] \cap cachedAudio
           unplayed == all \ played[t]
           done == IF unplayed = {} /\ all # {} THEN {} ELSE played[t]
<1>1. ClipsOf[t] \subseteq Clips /\ PrimaryFile[t] \in Files /\ done \subseteq Clips
  BY ClipsOfAssumption, PrimaryFileAssumption DEF TypeOK
<1>2. CASE \E k \in (IF unplayed # {} THEN unplayed ELSE all) \cap Playable :
              /\ played' = [played EXCEPT ![t] = done \cup {k}]
              /\ audioId' = k
              /\ filePath' = file
              /\ recent' = recent
              /\ NewPlayer(s, t, k, "aiMode", snd)
  <2>1. PICK k \in Clips : /\ played' = [played EXCEPT ![t] = done \cup {k}]
                           /\ audioId' = k
                           /\ filePath' = file
                           /\ recent' = recent
                           /\ NewPlayer(s, t, k, "aiMode", snd)
    BY <1>1, <1>2
  <2>2. TypeOK'
    <3>1. played' \in [Traditions -> SUBSET Clips]
      BY <1>1, <2>1 DEF TypeOK
    <3>2. /\ player' \in Maybe(Players)
          /\ sound' \in [Players -> SoundStates]
          /\ source' \in [Players -> Maybe(Clips \cup Files)]
          /\ pc' \in [Slots -> Steps]
          /\ tradition' \in [Slots -> Maybe(Traditions)]
          /\ what' \in [Slots -> Maybe(Clips \cup Files)]
          /\ target' \in [Slots -> Maybe(Players)]
      BY <2>1 DEF NewPlayer, TypeOK, Maybe, SoundStates, Steps, PlaySteps
    <3>3. audioId' \in Maybe(Clips) /\ filePath' \in Maybe(Files) /\ recent' \in Seq(Files)
      BY <2>1 DEF TypeOK, Maybe
    <3> QED  BY <3>1, <3>2, <3>3 DEF TypeOK
  <2>3. SlotInv'
    BY <2>1 DEF NewPlayer, SlotInv, TypeOK, PlaySteps
  <2>4. RecentWindow' /\ WindowStep
    BY <2>1 DEF RecentWindow, WindowStep
  <2> QED  BY <2>2, <2>3, <2>4
<1>3. CASE /\ played' = [played EXCEPT ![t] = done]
           /\ audioId' = id
           /\ LaunchLocal(s, t, PrimaryFile[t], snd)
  <2>2. /\ recent' \in Seq(Files) /\ RecentWindow'
        /\ \E f \in Files : Variety!Pick(f)
        /\ filePath' \in Maybe(Files)
        /\ player' \in Maybe(Players)
        /\ sound' \in [Players -> SoundStates]
        /\ source' \in [Players -> Maybe(Clips \cup Files)]
        /\ pc' = [pc EXCEPT ![s] = "localMode"]
        /\ tradition' = [tradition EXCEPT ![s] = t]
        /\ what' \in [Slots -> Maybe(Clips \cup Files)]
        /\ \A u \in Slots \ {s} : what'[u] = what[u]
        /\ target' \in [Slots -> Maybe(Players)]
    BY <1>1, <1>3, LaunchLocalStep
  <2>3. TypeOK'
    <3>1. played' \in [Traditions -> SUBSET Clips]
      BY <1>1, <1>3 DEF TypeOK
    <3>2. pc' \in [Slots -> Steps] /\ tradition' \in [Slots -> Maybe(Traditions)]
      BY <2>2 DEF TypeOK, Maybe, Steps, PlaySteps
    <3> QED  BY <1>3, <2>2, <3>1, <3>2 DEF TypeOK
  <2>4. SlotInv'
    BY <2>2 DEF SlotInv, TypeOK, PlaySteps
  <2> QED  BY <2>2, <2>3, <2>4 DEF WindowStep
<1> QED  BY <1>2, <1>3 DEF Launch

-----------------------------------------------------------------------------
(* The initial state satisfies the invariant.                              *)
LEMMA InitInv == Init => IInv
<1> SUFFICES ASSUME Init  PROVE IInv
  OBVIOUS
<1>1. TypeOK
  <2>0. isPlaying \in BOOLEAN /\ timer \in BOOLEAN
    BY Zenon DEF Init
  <2>1. /\ player \in Maybe(Players)
        /\ filePath \in Maybe(Files) /\ audioId \in Maybe(Clips)
        /\ lastTradition \in Maybe(Traditions)
        /\ recent \in Seq(Files) /\ cachedAudio \subseteq Clips
    BY ClipsAssumption DEF Init, Maybe
  <2>2. played \in [Traditions -> SUBSET Clips]
    BY DEF Init
  <2>3. /\ pc \in [Slots -> Steps]
        /\ tradition \in [Slots -> Maybe(Traditions)]
        /\ what \in [Slots -> Maybe(Clips \cup Files)]
        /\ target \in [Slots -> Maybe(Players)]
    BY DEF Init, Maybe, Steps
  <2>4. /\ sound \in [Players -> SoundStates]
        /\ source \in [Players -> Maybe(Clips \cup Files)]
    BY DEF Init, Maybe, SoundStates
  <2> QED  BY <2>0, <2>1, <2>2, <2>3, <2>4 DEF TypeOK
<1>2. SlotInv
  BY DEF Init, SlotInv, PlaySteps
<1>3. RecentWindow
  BY MaxRecentAssumption DEF Init, RecentWindow
<1> QED  BY <1>1, <1>2, <1>3 DEF IInv

(* Every step keeps the invariant and moves the window by at most one pick.*)
LEMMA StepInv == IInv /\ [Next]_vars => IInv' /\ WindowStep
<1> SUFFICES ASSUME IInv, [Next]_vars  PROVE IInv' /\ WindowStep
  OBVIOUS
<1> USE DEF IInv
<1>f. ASSUME NEW t \in Traditions  PROVE t \in Maybe(Traditions)
  BY DEF Maybe
<1>n. None \in Maybe(Clips) /\ None \in Maybe(Files)
  BY DEF Maybe
<1>1. ASSUME NEW s \in Slots, NEW t \in Traditions, PlayAmbience(s, t)
      PROVE  IInv' /\ WindowStep
  <2>1. CASE Playing
    <3>1. TypeOK'
      BY <1>1, <2>1 DEF PlayAmbience, TypeOK, Maybe, SoundStates, Steps, PlaySteps
    <3>2. SlotInv'
      BY <1>1, <2>1 DEF PlayAmbience, SlotInv, TypeOK, PlaySteps
    <3>3. RecentWindow' /\ WindowStep
      BY <1>1, <2>1 DEF PlayAmbience, RecentWindow, WindowStep
    <3> QED  BY <3>1, <3>2, <3>3
  <2>2. CASE ~Playing
    <3>1. /\ Launch(s, t, None, None, sound) /\ sound \in [Players -> SoundStates]
          /\ lastTradition' \in Maybe(Traditions) /\ cachedAudio' \subseteq Clips
          /\ isPlaying' \in BOOLEAN /\ timer' \in BOOLEAN
      BY <1>1, <1>f, <2>2 DEF PlayAmbience, TypeOK
    <3> QED  BY <1>n, <3>1, LaunchStep
  <2> QED  BY <2>1, <2>2
<1>2. ASSUME NEW s \in Slots, PlayStopDone(s)  PROVE IInv' /\ WindowStep
  <2>1. CASE player # None
    <3>1. TypeOK'
      BY <1>2, <2>1 DEF PlayStopDone, Suspend, TypeOK, Maybe, SoundStates, Steps, PlaySteps
    <3>2. SlotInv'
      BY <1>2, <2>1 DEF PlayStopDone, Suspend, SlotInv, TypeOK, PlaySteps
    <3>3. RecentWindow' /\ WindowStep
      BY <1>2, <2>1 DEF PlayStopDone, RecentWindow, WindowStep
    <3> QED  BY <3>1, <3>2, <3>3
  <2>2. CASE player = None
    <3>1. /\ Launch(s, tradition[s], audioId, filePath, sound) /\ sound \in [Players -> SoundStates]
          /\ lastTradition' \in Maybe(Traditions) /\ cachedAudio' \subseteq Clips
          /\ isPlaying' \in BOOLEAN /\ timer' \in BOOLEAN
          /\ audioId \in Maybe(Clips) /\ filePath \in Maybe(Files)
      BY <1>2, <2>2 DEF PlayStopDone, TypeOK
    <3>2. tradition[s] \in Traditions
      BY <1>2 DEF PlayStopDone, SlotInv, PlaySteps
    <3> QED  BY <3>1, <3>2, LaunchStep
  <2> QED  BY <2>1, <2>2
<1>3. ASSUME NEW s \in Slots, PlayDisposeDone(s)  PROVE IInv' /\ WindowStep
  <2>1. /\ Launch(s, tradition[s], audioId, filePath, sound) /\ sound \in [Players -> SoundStates]
        /\ lastTradition' \in Maybe(Traditions) /\ cachedAudio' \subseteq Clips
        /\ isPlaying' \in BOOLEAN /\ timer' \in BOOLEAN
        /\ audioId \in Maybe(Clips) /\ filePath \in Maybe(Files)
    BY <1>3 DEF PlayDisposeDone, TypeOK
  <2>2. tradition[s] \in Traditions
    BY <1>3 DEF PlayDisposeDone, SlotInv, PlaySteps
  <2> QED  BY <2>1, <2>2, LaunchStep
<1>4. ASSUME NEW s \in Slots, AIAudioFailed(s)  PROVE IInv' /\ WindowStep
  <2>1. ClipFile[what[s]] \in Files /\ tradition[s] \in Traditions
    BY <1>4, ClipFileAssumption DEF AIAudioFailed, SlotInv, PlaySteps
  <2>2. AfterFailure(s) \in [Players -> SoundStates]
    BY DEF AfterFailure, TypeOK, SoundStates
  <2>3. LaunchLocal(s, tradition[s], ClipFile[what[s]], AfterFailure(s))
    BY <1>4 DEF AIAudioFailed
  <2>4. /\ recent' \in Seq(Files) /\ RecentWindow'
        /\ \E f \in Files : Variety!Pick(f)
        /\ filePath' \in Maybe(Files)
        /\ player' \in Maybe(Players)
        /\ sound' \in [Players -> SoundStates]
        /\ source' \in [Players -> Maybe(Clips \cup Files)]
        /\ pc' = [pc EXCEPT ![s] = "localMode"]
        /\ tradition' = [tradition EXCEPT ![s] = tradition[s]]
        /\ what' \in [Slots -> Maybe(Clips \cup Files)]
        /\ \A u \in Slots \ {s} : what'[u] = what[u]
        /\ target' \in [Slots -> Maybe(Players)]
    BY <2>1, <2>2, <2>3, LaunchLocalStep
  <2>5. TypeOK'
    <3>1. pc' \in [Slots -> Steps] /\ tradition' \in [Slots -> Maybe(Traditions)]
      BY <2>4 DEF TypeOK, Steps, PlaySteps
    <3> QED  BY <1>4, <2>4, <3>1 DEF AIAudioFailed, TypeOK
  <2>6. SlotInv'
    BY <2>1, <2>4 DEF SlotInv, TypeOK, PlaySteps
  <2> QED  BY <2>4, <2>5, <2>6 DEF WindowStep
<1>5. ASSUME NEW s \in Slots, ModeDone(s) \/ PlayDone(s) \/ LocalAudioFailed(s)
      PROVE  IInv' /\ WindowStep
  <2>1. TypeOK'
    <3>1. CASE ModeDone(s)
      BY <3>1 DEF ModeDone, service, TypeOK, Maybe, SoundStates, Steps, PlaySteps
    <3>2. CASE PlayDone(s)
      BY <3>2 DEF PlayDone, Return, TypeOK, Maybe, SoundStates, Steps
    <3>3. CASE LocalAudioFailed(s)
      <4>1. AfterFailure(s) \in [Players -> SoundStates]
        BY DEF AfterFailure, TypeOK, SoundStates
      <4> QED  BY <3>3, <4>1 DEF LocalAudioFailed, Return, service, TypeOK, Maybe, Steps
    <3> QED  BY <1>5, <3>1, <3>2, <3>3
  <2>2. SlotInv'
    BY <1>5 DEF ModeDone, PlayDone, LocalAudioFailed, Return, service,
                SlotInv, TypeOK, PlaySteps
  <2>3. RecentWindow' /\ WindowStep
    BY <1>5 DEF ModeDone, PlayDone, LocalAudioFailed, service, RecentWindow, WindowStep
  <2> QED  BY <2>1, <2>2, <2>3
<1>6. ASSUME NEW s \in Slots, StopAmbience(s) \/ StopStopDone(s) \/ StopDisposeDone(s)
      PROVE  IInv' /\ WindowStep
  <2>1. TypeOK'
    BY <1>6 DEF StopAmbience, StopStopDone, StopDisposeDone, Suspend, Return, service,
                slotVars, plugin, TypeOK, Maybe, SoundStates, Steps, OtherSteps
  <2>2. SlotInv'
    BY <1>6 DEF StopAmbience, StopStopDone, StopDisposeDone, Suspend, Return, service,
                slotVars, plugin, SlotInv, TypeOK, PlaySteps
  <2>3. RecentWindow' /\ WindowStep
    BY <1>6 DEF StopAmbience, StopStopDone, StopDisposeDone, service,
                RecentWindow, WindowStep
  <2> QED  BY <2>1, <2>2, <2>3
<1>7. ASSUME NEW s \in Slots,
             PauseAmbience(s) \/ PauseDone(s) \/ ResumeAmbience(s) \/ ResumeDone(s)
      PROVE  IInv' /\ WindowStep
  <2>1. TypeOK'
    BY <1>7, ZenonT(30) DEF PauseAmbience, PauseDone, ResumeAmbience, ResumeDone, Suspend, Return,
                service, slotVars, plugin, TypeOK, Maybe, SoundStates, Steps, OtherSteps
  <2>2. SlotInv'
    BY <1>7 DEF PauseAmbience, PauseDone, ResumeAmbience, ResumeDone, Suspend, Return,
                service, slotVars, plugin, SlotInv, TypeOK, PlaySteps
  <2>3. RecentWindow' /\ WindowStep
    BY <1>7 DEF PauseAmbience, PauseDone, ResumeAmbience, ResumeDone, service,
                RecentWindow, WindowStep
  <2> QED  BY <2>1, <2>2, <2>3
<1>8. ASSUME NEW s \in Slots,
             TimerTick(s) \/ RestartStopDone(s) \/ RestartPlayDone(s) \/ RestartPlayFailed(s)
      PROVE  IInv' /\ WindowStep
  <2>1. TypeOK'
    <3>1. CASE TimerTick(s)
      BY <3>1 DEF TimerTick, Suspend, slotVars, TypeOK, Maybe, SoundStates, Steps, OtherSteps
    <3>2. CASE RestartStopDone(s)
      BY <3>2, SMTT(30) DEF RestartStopDone, Tracked, Return, service, TypeOK, Maybe, SoundStates,
                  Steps, OtherSteps
    <3>3. CASE RestartPlayDone(s)
      BY <3>3 DEF RestartPlayDone, Return, service, TypeOK, Maybe, SoundStates, Steps
    <3>4. CASE RestartPlayFailed(s)
      <4>1. AfterFailure(s) \in [Players -> SoundStates]
        BY DEF AfterFailure, TypeOK, SoundStates
      <4> QED  BY <3>4, <4>1 DEF RestartPlayFailed, Return, service, TypeOK, Maybe, Steps
    <3> QED  BY <1>8, <3>1, <3>2, <3>3, <3>4
  <2>2. SlotInv'
    BY <1>8 DEF TimerTick, RestartStopDone, RestartPlayDone, RestartPlayFailed, Suspend,
                Return, service, slotVars, plugin, SlotInv, TypeOK, PlaySteps
  <2>3. RecentWindow' /\ WindowStep
    BY <1>8 DEF TimerTick, RestartStopDone, RestartPlayDone, RestartPlayFailed, service,
                RecentWindow, WindowStep
  <2> QED  BY <2>1, <2>2, <2>3
<1>9. ASSUME NEW k \in Clips, StoreGeneratedAudio(k)  PROVE IInv' /\ WindowStep
  BY <1>9 DEF StoreGeneratedAudio, slotVars, plugin, TypeOK, SlotInv, RecentWindow, WindowStep
<1>10. ASSUME UNCHANGED vars  PROVE IInv' /\ WindowStep
  BY <1>10 DEF vars, TypeOK, SlotInv, RecentWindow, WindowStep
<1>a. AfterFailedCall \subseteq [Players -> SoundStates]
  BY DEF AfterFailedCall, TypeOK, SoundStates
<1>11. ASSUME NEW s \in Slots, PlayStopFailed(s)  PROVE IInv' /\ WindowStep
  <2>1. PICK snd \in AfterFailedCall : Launch(s, tradition[s], audioId, filePath, snd)
    BY <1>11 DEF PlayStopFailed
  <2>2. /\ lastTradition' \in Maybe(Traditions) /\ cachedAudio' \subseteq Clips
        /\ isPlaying' \in BOOLEAN /\ timer' \in BOOLEAN
        /\ audioId \in Maybe(Clips) /\ filePath \in Maybe(Files)
    BY <1>11 DEF PlayStopFailed, TypeOK
  <2>3. tradition[s] \in Traditions
    BY <1>11 DEF PlayStopFailed, SlotInv, PlaySteps
  <2>4. snd \in [Players -> SoundStates]
    BY <1>a
  <2> QED  BY <2>1, <2>2, <2>3, <2>4, LaunchStep
<1>12. ASSUME NEW s \in Slots, PlainCallFailed(s)  PROVE IInv' /\ WindowStep
  <2>1. TypeOK'
    BY <1>12, <1>a DEF PlainCallFailed, Return, service, TypeOK, Maybe, Steps
  <2>2. SlotInv'
    BY <1>12 DEF PlainCallFailed, Return, SlotInv, TypeOK, PlaySteps
  <2>3. RecentWindow' /\ WindowStep
    BY <1>12 DEF PlainCallFailed, service, RecentWindow, WindowStep
  <2> QED  BY <2>1, <2>2, <2>3
<1> QED
  BY <1>1, <1>2, <1>3, <1>4, <1>5, <1>6, <1>7, <1>8, <1>9, <1>10, <1>11, <1>12
  DEF Next, Called, Resumed

-----------------------------------------------------------------------------
(* The service keeps its types under every interleaving.                   *)
THEOREM TypeCorrect == Spec => []TypeOK
  BY InitInv, StepInv, PTL DEF Spec, IInv

(* The window of _recentAudioFiles is bounded and without repetitions.     *)
THEOREM WindowCorrect == Spec => []RecentWindow
  BY InitInv, StepInv, PTL DEF Spec, IInv

(* "Don't repeat last 3 audio files" (audio_service.dart:18): the service  *)
(* implements VarietyWindow, for every number of files above the window    *)
(* and every overlap of its calls.                                         *)
THEOREM FilesNeverRepeat == Spec => FilesVary
<1>1. Init => Variety!Init
  BY DEF Init, Variety!Init
<1>2. WindowStep => [Variety!Next]_recent
  BY DEF WindowStep, Variety!Next
<1> QED
  BY <1>1, <1>2, InitInv, StepInv, PTL DEF Spec, FilesVary, Variety!Spec

-----------------------------------------------------------------------------
(* The screen.                                                             *)

(* The other client of the service shows no quotes. *)
QuoteInv ==
    /\ ScreenTypeOK
    /\ scene.client = "any" => current = None
    /\ RequestFollowsQuote

Hush == \A p \in Players : ~Audible(p)
OnlyPlayer == \A p \in Players : Audible(p) => p = player

(* Where the only call of the screen is, and what is then true: *)
Resting(s) ==        \* no call is under way
    /\ pc[s] = "idle"
    /\ isPlaying = timer
    /\ isPlaying => /\ player # None /\ sound[player] = "sounding"
                    /\ source[player] = Tracked /\ Tracked # None /\ OnlyPlayer
    /\ ~isPlaying => Hush
    /\ ~enabled => ~isPlaying

Stopping(s) ==       \* stopAmbience, of the button or of playAmbience
    /\ pc[s] \in {"playStop", "playDispose", "stopStop", "stopDispose"}
    /\ player # None /\ ~timer /\ Hush
    /\ filePath = None /\ audioId = None
    /\ ~enabled => pc[s] \in {"stopStop", "stopDispose"}

Starting(s) ==       \* playAmbience with its new player
    /\ pc[s] \in {"aiMode", "localMode"}
    /\ player # None /\ sound[player] = "silent" /\ Hush
    /\ ~isPlaying /\ ~timer /\ what[s] = Tracked /\ Tracked # None /\ enabled

Loading(s) ==
    /\ pc[s] \in {"aiPlay", "localPlay"}
    /\ player # None /\ target[s] = player /\ sound[player] = "loading" /\ OnlyPlayer
    /\ ~isPlaying /\ ~timer /\ what[s] = Tracked /\ Tracked # None /\ enabled

Restarting(s) ==     \* the timer replays what is tracked
    /\ pc[s] \in {"restartStop", "restartPlay"}
    /\ player # None /\ isPlaying /\ timer /\ Tracked # None /\ enabled
    /\ pc[s] = "restartStop" => sound[player] = "silent" /\ Hush
    /\ pc[s] = "restartPlay" => /\ target[s] = player /\ what[s] = Tracked
                                /\ sound[player] = "loading" /\ OnlyPlayer

AloneIn(s) ==
    /\ \A u \in Slots : u # s => pc[u] = "idle"
    /\ Resting(s) \/ Stopping(s) \/ Starting(s) \/ Loading(s) \/ Restarting(s)

AloneInv ==
    \A s \in Slots \ Faulty : scene.client = "screen" /\ scene.slots = {s} => AloneIn(s)

(* The screen, or the other client, takes steps of the service.            *)
LEMMA ClientSteps ==
    ASSUME ScreenTypeOK, [ScreenNext]_allVars
    PROVE  [Next]_vars /\ scene' = scene
<1>1. CASE UNCHANGED allVars
  BY <1>1 DEF allVars
<1>2. CASE ScreenNext
  <2>1. scene.slots \subseteq Slots
    BY ScenesAssumption DEF ScreenTypeOK
  <2>2. PICK s \in Slots : ScreenStep(s) \/ ClientStep(s) \/ ServiceStep(s)
    BY <1>2, <2>1 DEF ScreenNext
  <2>3. CASE ScreenStep(s)
    <3>1. (\E t \in Traditions : CallPlay(s, t)) \/ StopAmbience(s) \/ UNCHANGED vars
      BY <2>3 DEF ScreenStep, ShowQuote, ToggleOn, ToggleOff, ScreenTypeOK, Maybe
    <3>2. (\E t \in Traditions : PlayAmbience(s, t)) \/ StopAmbience(s) \/ UNCHANGED vars
      BY <3>1 DEF CallPlay, SkipAmbience
    <3> QED  BY <1>2, <3>2 DEF Next, Called, ScreenNext
  <2>4. CASE ClientStep(s)
    BY <1>2, <2>4 DEF ClientStep, Next, ScreenNext
  <2>5. CASE ServiceStep(s)
    BY <1>2, <2>5 DEF ServiceStep, Next, ScreenNext
  <2> QED  BY <2>2, <2>3, <2>4, <2>5
<1> QED  BY <1>1, <1>2

(* The service's calls in flight do not touch _lastAudioTradition.         *)
LEMMA ResumedKeepsTradition ==
    ASSUME NEW s, Resumed(s) \/ TimerTick(s)
    PROVE  lastTradition' = lastTradition
BY DEF Resumed, TimerTick, PlayStopDone, PlayDisposeDone, ModeDone, PlayDone, AIAudioFailed,
       LocalAudioFailed, StopStopDone, StopDisposeDone, PauseDone, ResumeDone, RestartStopDone,
       RestartPlayDone, RestartPlayFailed, PlayStopFailed, PlainCallFailed, service

(* What the screen asked for last is kept.                                 *)
LEMMA QuoteStep ==
    ASSUME IInv, QuoteInv, [ScreenNext]_allVars
    PROVE  IInv' /\ QuoteInv'
<1>1. [Next]_vars /\ scene' = scene
  BY ClientSteps DEF QuoteInv
<1>2. IInv'
  BY <1>1, StepInv
<1>3. QuoteInv'
  <2>1. TypeOK'
    BY <1>2 DEF IInv
  <2>2. CASE UNCHANGED allVars
    BY <2>1, <2>2 DEF allVars, vars, QuoteInv, ScreenTypeOK, RequestFollowsQuote
  <2>3. CASE ScreenNext
    <3>1. PICK s : \/ scene.client = "screen" /\ ScreenStep(s)
                   \/ scene.client = "any" /\ ClientStep(s)
                   \/ ServiceStep(s)
      BY <2>3 DEF ScreenNext
    <3>2. CASE ServiceStep(s)
      <4>1. lastTradition' = lastTradition /\ enabled' = enabled /\ current' = current
        BY <3>2, ResumedKeepsTradition DEF ServiceStep, screenVars
      <4> QED  BY <1>1, <2>1, <4>1 DEF QuoteInv, ScreenTypeOK, RequestFollowsQuote
    <3>3. CASE scene.client = "any" /\ ClientStep(s)
      <4>1. enabled' = enabled /\ current' = current /\ current = None
        BY <3>3 DEF ClientStep, screenVars, QuoteInv
      <4> QED  BY <1>1, <2>1, <4>1 DEF QuoteInv, ScreenTypeOK, RequestFollowsQuote
    <3>4. CASE scene.client = "screen" /\ ScreenStep(s)
      <4>1. scene.client # "any"
        BY <3>4
      <4>2. ASSUME NEW t, CallPlay(s, t)  PROVE lastTradition' = t
        BY <4>2 DEF CallPlay, SkipAmbience, PlayAmbience, vars
      <4>3. ASSUME NEW t \in Traditions, ShowQuote(s, t)  PROVE QuoteInv'
        <5>1. enabled' = enabled /\ current' = t /\ t \in Maybe(Traditions)
          BY <4>3 DEF ShowQuote, Maybe
        <5>2. enabled => lastTradition' = t
          BY <4>2, <4>3 DEF ShowQuote
        <5> QED  BY <1>1, <2>1, <4>1, <5>1, <5>2 DEF QuoteInv, ScreenTypeOK, RequestFollowsQuote
      <4>4. ASSUME ToggleOn(s)  PROVE QuoteInv'
        <5>1. enabled' = TRUE /\ current' = current
          BY <4>4 DEF ToggleOn
        <5>2. current # None => lastTradition' = current
          BY <4>2, <4>4 DEF ToggleOn
        <5> QED  BY <1>1, <2>1, <4>1, <5>1, <5>2 DEF QuoteInv, ScreenTypeOK, RequestFollowsQuote
      <4>5. ASSUME ToggleOff(s)  PROVE QuoteInv'
        <5>1. enabled' = FALSE /\ current' = current
          BY <4>5 DEF ToggleOff
        <5> QED  BY <1>1, <2>1, <4>1, <5>1 DEF QuoteInv, ScreenTypeOK, RequestFollowsQuote
      <4> QED  BY <3>4, <4>3, <4>4, <4>5 DEF ScreenStep
    <3> QED  BY <3>1, <3>2, <3>3, <3>4
  <2> QED  BY <2>2, <2>3
<1> QED  BY <1>2, <1>3

(* playAmbience after its stopAmbience: a new, silent player for what is   *)
(* tracked from now on.                                                    *)
LEMMA LaunchAlone ==
    ASSUME TypeOK, Hush, NEW s \in Slots, NEW t \in Traditions, Launch(s, t, None, None, sound),
           ~isPlaying', ~timer', enabled'
    PROVE  Starting(s)' /\ \A u \in Slots : u # s => pc'[u] = pc[u]
<1>1. PICK x \in Clips \cup Files, step \in {"aiMode", "localMode"} :
         /\ NewPlayer(s, t, x, step, sound)
         /\ \/ x \in Clips /\ audioId' = x /\ filePath' = None
            \/ x \in Files /\ audioId' = None /\ filePath' = x
  <2> DEFINE all == ClipsOf[t] \cap cachedAudio
             some == IF all \ played[t] # {} THEN all \ played[t] ELSE all
  <2>1. CASE \E k \in some \cap Playable : /\ audioId' = k /\ filePath' = None
                                           /\ NewPlayer(s, t, k, "aiMode", sound)
    <3>1. some \cap Playable \subseteq Clips
      BY ClipsAssumption
    <3> QED  BY <2>1, <3>1
  <2>2. CASE audioId' = None /\ LaunchLocal(s, t, PrimaryFile[t], sound)
    <3>1. PICK f \in FileChoices(PrimaryFile[t]) :
             filePath' = f /\ NewPlayer(s, t, f, "localMode", sound)
      BY <2>2 DEF LaunchLocal
    <3>2. f \in Files
      BY PrimaryFileAssumption DEF FileChoices, Unused
    <3> QED  BY <2>2, <3>1, <3>2
  <2> QED  BY <2>1, <2>2 DEF Launch
<1>2. PICK p \in Players : /\ player' = p /\ sound' = [sound EXCEPT ![p] = "silent"]
                           /\ pc' = [pc EXCEPT ![s] = step] /\ what' = [what EXCEPT ![s] = x]
  BY <1>1 DEF NewPlayer
<1>3. /\ pc'[s] = step /\ what'[s] = x /\ sound'[p] = "silent"
      /\ \A u \in Slots : u # s => pc'[u] = pc[u]
      /\ \A q \in Players : q # p => sound'[q] = sound[q]
  BY <1>2 DEF TypeOK
<1>4. Tracked' = x /\ x # None
  BY <1>1, NoneAssumption DEF Tracked
<1>5. Hush' /\ player' # None
  BY <1>2, <1>3, NoneAssumption DEF Hush, Audible
<1> QED  BY <1>2, <1>3, <1>4, <1>5 DEF Starting

(* The calls of the screen, none of them made before the last returned.    *)
LEMMA ScreenAlone ==
    ASSUME TypeOK, NEW s \in Slots, AloneIn(s), ScreenStep(s), ScreenTypeOK
    PROVE  AloneIn(s)'
<1> USE DEF AloneIn
<1>0. pc[s] = "idle"
  BY DEF ScreenStep, ShowQuote, ToggleOn, ToggleOff, StopAmbience
<1>1. /\ Resting(s) /\ isPlaying \in BOOLEAN /\ timer \in BOOLEAN
  BY <1>0 DEF Stopping, Starting, Loading, Restarting, TypeOK
<1>2. ASSUME NEW t \in Traditions, CallPlay(s, t), enabled'  PROVE AloneIn(s)'
  <2>1. CASE UNCHANGED vars
    <3>1. UNCHANGED <<pc, isPlaying, timer, player, sound, source, audioId, filePath>>
      BY <2>1 DEF vars
    <3>2. Resting(s)'
      BY <1>1, <1>2, <3>1 DEF Resting, Tracked, OnlyPlayer, Hush, Audible
    <3> QED  BY <3>1, <3>2
  <2>2. CASE PlayAmbience(s, t) /\ Playing
    <3>1. /\ ~timer' /\ filePath' = None /\ audioId' = None /\ player' = player /\ player # None
          /\ sound' = [sound EXCEPT ![player] = "silent"] /\ pc' = [pc EXCEPT ![s] = "playStop"]
          /\ isPlaying
      BY <2>2 DEF PlayAmbience, Playing
    <3>2. OnlyPlayer /\ pc'[s] = "playStop" /\ \A u \in Slots : u # s => pc'[u] = pc[u]
      BY <1>1, <3>1 DEF Resting, TypeOK
    <3>3. Hush'
      BY <3>1, <3>2 DEF Hush, OnlyPlayer, Audible, TypeOK, Maybe
    <3>4. Stopping(s)'
      BY <1>2, <3>1, <3>2, <3>3 DEF Stopping
    <3> QED  BY <3>2, <3>4
  <2>3. CASE PlayAmbience(s, t) /\ ~Playing
    <3>1. /\ ~timer' /\ isPlaying' = isPlaying /\ Launch(s, t, None, None, sound)
      BY <2>3 DEF PlayAmbience
    <3>2. ~isPlaying /\ Hush
      BY <1>1, <2>3 DEF Resting, Playing
    <3>3. Starting(s)' /\ \A u \in Slots : u # s => pc'[u] = pc[u]
      BY <1>2, <3>1, <3>2, LaunchAlone
    <3> QED  BY <3>3
  <2> QED  BY <1>2, <2>1, <2>2, <2>3 DEF CallPlay, SkipAmbience
<1>3. ASSUME NEW t \in Traditions, ShowQuote(s, t)  PROVE AloneIn(s)'
  <2>1. CASE enabled
    <3>1. CallPlay(s, t) /\ enabled'
      BY <1>3, <2>1 DEF ShowQuote
    <3> QED  BY <1>2, <3>1
  <2>2. CASE ~enabled
    <3>1. UNCHANGED <<pc, isPlaying, timer, player, sound, source, audioId, filePath, enabled>>
      BY <1>3, <2>2 DEF ShowQuote, vars
    <3>2. Resting(s)'
      BY <1>1, <3>1 DEF Resting, Tracked, OnlyPlayer, Hush, Audible
    <3> QED  BY <3>1, <3>2
  <2> QED  BY <2>1, <2>2
<1>4. ASSUME ToggleOn(s)  PROVE AloneIn(s)'
  <2>1. CASE current # None
    <3>1. CallPlay(s, current) /\ enabled' /\ current \in Traditions
      BY <1>4, <2>1 DEF ToggleOn, ScreenTypeOK, Maybe
    <3> QED  BY <1>2, <3>1
  <2>2. CASE current = None
    <3>1. UNCHANGED <<pc, isPlaying, timer, player, sound, source, audioId, filePath>> /\ enabled'
      BY <1>4, <2>2 DEF ToggleOn, vars
    <3>2. Resting(s)'
      BY <1>1, <3>1 DEF Resting, Tracked, OnlyPlayer, Hush, Audible
    <3> QED  BY <3>1, <3>2
  <2> QED  BY <2>1, <2>2
<1>5. ASSUME ToggleOff(s)  PROVE AloneIn(s)'
  <2>1. /\ ~enabled' /\ ~timer' /\ filePath' = None /\ audioId' = None /\ player' = player
        /\ isPlaying' = isPlaying
    BY <1>5 DEF ToggleOff, StopAmbience
  <2>2. CASE Playing
    <3>1. /\ sound' = [sound EXCEPT ![player] = "silent"] /\ pc' = [pc EXCEPT ![s] = "stopStop"]
          /\ player # None /\ isPlaying
      BY <1>5, <2>2 DEF ToggleOff, StopAmbience, Suspend, Playing
    <3>2. OnlyPlayer /\ pc'[s] = "stopStop" /\ \A u \in Slots : u # s => pc'[u] = pc[u]
      BY <1>1, <3>1 DEF Resting, TypeOK
    <3>3. Hush'
      BY <2>1, <3>1, <3>2 DEF Hush, OnlyPlayer, Audible, TypeOK, Maybe
    <3>4. Stopping(s)'
      BY <2>1, <3>1, <3>2, <3>3 DEF Stopping
    <3> QED  BY <3>2, <3>4
  <2>3. CASE ~Playing
    <3>1. sound' = sound /\ pc' = pc
      BY <1>5, <2>3 DEF ToggleOff, StopAmbience, slotVars
    <3>2. ~isPlaying /\ Hush
      BY <1>1, <2>3 DEF Resting, Playing
    <3>3. Hush'
      BY <3>1, <3>2 DEF Hush, Audible
    <3>4. isPlaying' = timer'
      <4>1. timer' = FALSE
        BY <1>5 DEF ToggleOff, StopAmbience
      <4>2. isPlaying' = FALSE
        BY <1>1, <2>1, <3>2
      <4> QED  BY <4>1, <4>2
    <3>5. Resting(s)'
      BY <1>0, <2>1, <3>1, <3>2, <3>3, <3>4 DEF Resting
    <3> QED  BY <3>1, <3>5
  <2> QED  BY <2>2, <2>3
<1> QED  BY <1>3, <1>4, <1>5 DEF ScreenStep

(* The timer, and the plugin that resumes the only call.                   *)
LEMMA ServiceAlone ==
    ASSUME TypeOK, SlotInv, NEW s \in Slots \ Faulty, AloneIn(s), ServiceStep(s)
    PROVE  AloneIn(s)'
<1> USE DEF AloneIn
<1>0. enabled' = enabled /\ isPlaying \in BOOLEAN /\ timer \in BOOLEAN
  BY DEF ServiceStep, screenVars, TypeOK
<1>1. CASE TimerTick(s)
  <2>1. pc[s] = "idle" /\ timer
    BY <1>1 DEF TimerTick
  <2>2. Resting(s)
    BY <2>1 DEF Stopping, Starting, Loading, Restarting
  <2>3. isPlaying /\ player # None /\ OnlyPlayer /\ Tracked # None /\ enabled
    BY <1>0, <2>1, <2>2 DEF Resting
  <2>4. /\ sound' = [sound EXCEPT ![player] = "silent"] /\ pc' = [pc EXCEPT ![s] = "restartStop"]
        /\ timer' = timer
        /\ UNCHANGED <<player, isPlaying, filePath, audioId>>
    BY <1>1, <2>3 DEF TimerTick, Suspend, Playing
  <2>5. pc'[s] = "restartStop" /\ \A u \in Slots : u # s => pc'[u] = pc[u]
    BY <2>4 DEF TypeOK
  <2>6. Hush' /\ sound'[player'] = "silent"
    BY <2>3, <2>4 DEF Hush, OnlyPlayer, Audible, TypeOK, Maybe
  <2>7. Restarting(s)'
    BY <1>0, <2>1, <2>3, <2>4, <2>5, <2>6 DEF Restarting, Tracked
  <2> QED  BY <2>5, <2>7
<1>2. CASE PlayStopDone(s)
  <2>1. Stopping(s) /\ pc[s] = "playStop"
    BY <1>2 DEF PlayStopDone, Resting, Starting, Loading, Restarting
  <2>2. /\ player # None /\ ~timer /\ Hush /\ filePath = None /\ audioId = None /\ enabled
    BY <2>1 DEF Stopping
  <2>3. /\ sound' = [sound EXCEPT ![player] = "disposed"] /\ pc' = [pc EXCEPT ![s] = "playDispose"]
        /\ UNCHANGED <<player, filePath, audioId, timer>>
    BY <1>2, <2>2 DEF PlayStopDone, Suspend
  <2>4. pc'[s] = "playDispose" /\ \A u \in Slots : u # s => pc'[u] = pc[u]
    BY <2>3 DEF TypeOK
  <2>5. Hush'
    BY <2>2, <2>3 DEF Hush, Audible, TypeOK, Maybe
  <2>6. Stopping(s)'
    BY <1>0, <2>2, <2>3, <2>4, <2>5 DEF Stopping
  <2> QED  BY <2>4, <2>6
<1>3. CASE PlayDisposeDone(s)
  <2>1. Stopping(s) /\ pc[s] = "playDispose"
    BY <1>3 DEF PlayDisposeDone, Resting, Starting, Loading, Restarting
  <2>2. ~timer /\ Hush /\ filePath = None /\ audioId = None /\ enabled
    BY <2>1 DEF Stopping
  <2>3. tradition[s] \in Traditions
    BY <2>1 DEF SlotInv, PlaySteps
  <2>4. ~isPlaying' /\ ~timer' /\ enabled' /\ Launch(s, tradition[s], None, None, sound)
    BY <1>0, <1>3, <2>2 DEF PlayDisposeDone
  <2>5. Starting(s)' /\ \A u \in Slots : u # s => pc'[u] = pc[u]
    BY <2>2, <2>3, <2>4, LaunchAlone
  <2> QED  BY <2>5
<1>4. CASE ModeDone(s)
  <2>1. Starting(s)
    BY <1>4 DEF ModeDone, Resting, Stopping, Loading, Restarting
  <2>2. /\ player # None /\ sound[player] = "silent" /\ Hush /\ ~isPlaying /\ ~timer
        /\ what[s] = Tracked /\ Tracked # None /\ enabled
    BY <2>1 DEF Starting
  <2>3. /\ sound' = [sound EXCEPT ![player] = "loading"] /\ target' = [target EXCEPT ![s] = player]
        /\ \E step \in {"aiPlay", "localPlay"} : pc' = [pc EXCEPT ![s] = step]
        /\ UNCHANGED <<player, isPlaying, timer, filePath, audioId, what>>
    BY <1>4, <2>2 DEF ModeDone, service
  <2>4. /\ pc'[s] \in {"aiPlay", "localPlay"} /\ target'[s] = player
        /\ \A u \in Slots : u # s => pc'[u] = pc[u]
    BY <2>3 DEF TypeOK
  <2>5. OnlyPlayer' /\ sound'[player'] = "loading"
    BY <2>2, <2>3 DEF Hush, OnlyPlayer, Audible, TypeOK, Maybe
  <2>6. Loading(s)'
    BY <1>0, <2>2, <2>3, <2>4, <2>5 DEF Loading, Tracked
  <2> QED  BY <2>4, <2>6
<1>5. CASE PlayDone(s)
  <2>1. Loading(s)
    BY <1>5 DEF PlayDone, Resting, Stopping, Starting, Restarting
  <2>2. /\ player # None /\ target[s] = player /\ sound[player] = "loading" /\ OnlyPlayer
        /\ what[s] = Tracked /\ Tracked # None /\ enabled
    BY <2>1 DEF Loading
  <2>3. /\ sound' = [sound EXCEPT ![player] = "sounding"] /\ source' = [source EXCEPT ![player] = what[s]]
        /\ pc' = [pc EXCEPT ![s] = "idle"] /\ isPlaying' = TRUE /\ timer' = TRUE
        /\ UNCHANGED <<player, filePath, audioId>>
    BY <1>5, <2>2 DEF PlayDone, Return
  <2>4. pc'[s] = "idle" /\ \A u \in Slots : u # s => pc'[u] = pc[u]
    BY <2>3 DEF TypeOK
  <2>5. OnlyPlayer' /\ sound'[player'] = "sounding" /\ source'[player'] = Tracked'
    BY <2>2, <2>3 DEF OnlyPlayer, Audible, Tracked, TypeOK, Maybe
  <2>6. Resting(s)'
    BY <1>0, <2>2, <2>3, <2>4, <2>5 DEF Resting, Tracked
  <2> QED  BY <2>4, <2>6
<1>6. ~AIAudioFailed(s) /\ ~LocalAudioFailed(s)
  <2>1. ~Throws(s)
    BY DEF Throws, Resting, Stopping, Starting, Loading, Restarting
  <2> QED  BY <2>1 DEF AIAudioFailed, LocalAudioFailed
<1>7. CASE StopStopDone(s)
  <2>1. Stopping(s) /\ pc[s] = "stopStop"
    BY <1>7 DEF StopStopDone, Resting, Starting, Loading, Restarting
  <2>2. /\ player # None /\ ~timer /\ Hush /\ filePath = None /\ audioId = None
    BY <2>1 DEF Stopping
  <2>3. /\ sound' = [sound EXCEPT ![player] = "disposed"] /\ pc' = [pc EXCEPT ![s] = "stopDispose"]
        /\ UNCHANGED <<player, filePath, audioId, timer>>
    BY <1>7, <2>2 DEF StopStopDone, Suspend, service
  <2>4. pc'[s] = "stopDispose" /\ \A u \in Slots : u # s => pc'[u] = pc[u]
    BY <2>3 DEF TypeOK
  <2>5. Hush'
    BY <2>2, <2>3 DEF Hush, Audible, TypeOK, Maybe
  <2>6. Stopping(s)'
    BY <2>2, <2>3, <2>4, <2>5 DEF Stopping
  <2> QED  BY <2>4, <2>6
<1>8. CASE StopDisposeDone(s)
  <2>1. Stopping(s)
    BY <1>8 DEF StopDisposeDone, Resting, Starting, Loading, Restarting
  <2>2. ~timer /\ Hush
    BY <2>1 DEF Stopping
  <2>3. /\ pc' = [pc EXCEPT ![s] = "idle"] /\ isPlaying' = FALSE /\ timer' = timer /\ sound' = sound
    BY <1>8 DEF StopDisposeDone, Return, plugin
  <2>4. pc'[s] = "idle" /\ \A u \in Slots : u # s => pc'[u] = pc[u]
    BY <2>3 DEF TypeOK
  <2>5. Hush'
    BY <2>2, <2>3 DEF Hush, Audible
  <2>6. Resting(s)'
    BY <1>0, <2>2, <2>3, <2>4, <2>5 DEF Resting
  <2> QED  BY <2>4, <2>6
<1>9. ~PauseDone(s) /\ ~ResumeDone(s)
  BY DEF PauseDone, ResumeDone, Resting, Stopping, Starting, Loading, Restarting
<1>10. CASE RestartStopDone(s)
  <2>1. Restarting(s) /\ pc[s] = "restartStop"
    BY <1>10 DEF RestartStopDone, Resting, Stopping, Starting, Loading
  <2>2. /\ player # None /\ isPlaying /\ timer /\ Tracked # None /\ enabled
        /\ sound[player] = "silent" /\ Hush
    BY <2>1 DEF Restarting
  <2>3. /\ sound' = [sound EXCEPT ![player] = "loading"] /\ target' = [target EXCEPT ![s] = player]
        /\ what' = [what EXCEPT ![s] = Tracked] /\ pc' = [pc EXCEPT ![s] = "restartPlay"]
        /\ UNCHANGED <<player, isPlaying, timer, filePath, audioId>>
    BY <1>10, <2>2 DEF RestartStopDone, service
  <2>4. /\ pc'[s] = "restartPlay" /\ target'[s] = player /\ what'[s] = Tracked
        /\ \A u \in Slots : u # s => pc'[u] = pc[u]
    BY <2>3 DEF TypeOK
  <2>5. OnlyPlayer' /\ sound'[player'] = "loading"
    BY <2>2, <2>3 DEF Hush, OnlyPlayer, Audible, TypeOK, Maybe
  <2>6. Restarting(s)'
    BY <1>0, <2>2, <2>3, <2>4, <2>5 DEF Restarting, Tracked
  <2> QED  BY <2>4, <2>6
<1>11. CASE RestartPlayDone(s)
  <2>1. Restarting(s) /\ pc[s] = "restartPlay"
    BY <1>11 DEF RestartPlayDone, Resting, Stopping, Starting, Loading
  <2>2. /\ player # None /\ isPlaying /\ timer /\ Tracked # None /\ enabled
        /\ target[s] = player /\ what[s] = Tracked /\ sound[player] = "loading" /\ OnlyPlayer
    BY <2>1 DEF Restarting
  <2>3. /\ sound' = [sound EXCEPT ![player] = "sounding"] /\ source' = [source EXCEPT ![player] = what[s]]
        /\ pc' = [pc EXCEPT ![s] = "idle"]
        /\ UNCHANGED <<player, isPlaying, timer, filePath, audioId>>
    BY <1>11, <2>2 DEF RestartPlayDone, Return, service
  <2>4. pc'[s] = "idle" /\ \A u \in Slots : u # s => pc'[u] = pc[u]
    BY <2>3 DEF TypeOK
  <2>5. OnlyPlayer' /\ sound'[player'] = "sounding" /\ source'[player'] = Tracked'
    BY <2>2, <2>3 DEF OnlyPlayer, Audible, Tracked, TypeOK, Maybe
  <2>6. Resting(s)'
    BY <1>0, <2>2, <2>3, <2>4, <2>5 DEF Resting, Tracked
  <2> QED  BY <2>4, <2>6
<1>12. ~RestartPlayFailed(s)
  BY DEF RestartPlayFailed, Resting, Stopping, Starting, Loading, Restarting
<1>13. ~PlayStopFailed(s) /\ ~PlainCallFailed(s)
  BY DEF PlayStopFailed, PlainCallFailed
<1> QED
  BY <1>1, <1>2, <1>3, <1>4, <1>5, <1>6, <1>7, <1>8, <1>9, <1>10, <1>11, <1>12, <1>13
  DEF ServiceStep, Resumed

(* The invariant of the screen and its service.                            *)
ScreenInv == IInv /\ QuoteInv /\ AloneInv

(* It is inductive.                                                        *)
LEMMA ScreenInductive ==
    /\ ScreenInit => ScreenInv
    /\ ScreenInv /\ [ScreenNext]_allVars => ScreenInv'
<1>1. ASSUME ScreenInit  PROVE ScreenInv
  <2>1. IInv /\ Init
    BY <1>1, InitInv DEF ScreenInit
  <2>2. QuoteInv
    BY <1>1, <2>1 DEF ScreenInit, QuoteInv, ScreenTypeOK, RequestFollowsQuote, IInv, Maybe
  <2>3. ASSUME NEW s \in Slots \ Faulty  PROVE AloneIn(s)
    <3>1. /\ pc = [u \in Slots |-> "idle"] /\ ~isPlaying /\ ~timer /\ isPlaying = timer
          /\ sound = [p \in Players |-> "disposed"]
      BY <2>1 DEF Init
    <3>2. Hush
      BY <3>1 DEF Hush, Audible
    <3> QED  BY <3>1, <3>2 DEF AloneIn, Resting
  <2> QED  BY <2>1, <2>2, <2>3 DEF ScreenInv, AloneInv
<1>2. ASSUME ScreenInv, [ScreenNext]_allVars  PROVE ScreenInv'
  <2>1. IInv' /\ QuoteInv'
    BY <1>2, QuoteStep DEF ScreenInv
  <2>2. scene' = scene /\ TypeOK /\ SlotInv /\ ScreenTypeOK
    BY <1>2, ClientSteps DEF ScreenInv, QuoteInv, IInv
  <2>3. ASSUME NEW s \in Slots \ Faulty, scene'.client = "screen", scene'.slots = {s}
        PROVE  AloneIn(s)'
    <3>1. AloneIn(s) /\ scene.client = "screen" /\ scene.slots = {s}
      BY <1>2, <2>2, <2>3 DEF ScreenInv, AloneInv
    <3>2. CASE UNCHANGED allVars
      <4>1. UNCHANGED <<pc, isPlaying, timer, player, sound, source, audioId, filePath, enabled, what, target>>
        BY <3>2 DEF allVars, vars
      <4> QED  BY <3>1, <4>1 DEF AloneIn, Resting, Stopping, Starting, Loading, Restarting,
                                 Tracked, Hush, OnlyPlayer, Audible
    <3>3. CASE ScreenNext
      <4>1. ScreenStep(s) \/ ServiceStep(s)
        BY <3>1, <3>3 DEF ScreenNext
      <4> QED  BY <2>2, <3>1, <4>1, ScreenAlone, ServiceAlone
    <3> QED  BY <1>2, <3>2, <3>3
  <2> QED  BY <2>1, <2>3 DEF ScreenInv, AloneInv
<1> QED  BY <1>1, <1>2

(* The screen only takes steps of the service: what is proved of the       *)
(* service holds for the application.                                      *)
THEOREM ScreenIsAClient == ScreenSpec => Spec
<1>1. ScreenInit => Init
  BY DEF ScreenInit
<1>2. ScreenInv /\ [ScreenNext]_allVars => [Next]_vars
  BY ClientSteps DEF ScreenInv, QuoteInv
<1> QED  BY <1>1, <1>2, ScreenInductive, PTL DEF ScreenSpec, Spec

(* "Audio changes automatically based on quote tradition": while audio is  *)
(* on, the tradition last asked of the service is that of the quote on     *)
(* screen, for every overlap of calls.                                     *)
THEOREM RequestIsTheQuotes == ScreenSpec => []RequestFollowsQuote
  BY ScreenInductive, PTL DEF ScreenSpec, ScreenInv, QuoteInv

(* Between calls that do not overlap the static fields tell the truth      *)
(* about the players, and the window of recent files always keeps to its   *)
(* limit.                                                                  *)
THEOREM PlayerIsRight == ScreenSpec => []PlayerOK
<1>1. ScreenInv => RestIsCoherent
  <2> SUFFICES ASSUME ScreenInv, Alone, AtRest
               PROVE  /\ isPlaying <=> timer
                      /\ isPlaying <=> (player # None /\ sound[player] = "sounding")
                      /\ isPlaying => source[player] = Tracked /\ Tracked # None
                      /\ \A p \in Players : Audible(p) => p = player
    BY DEF RestIsCoherent
  <2>1. PICK s \in Slots \ Faulty : scene.client = "screen" /\ scene.slots = {s}
    BY DEF Alone
  <2>2. AloneIn(s) /\ pc[s] = "idle"
    BY <2>1 DEF ScreenInv, AloneInv, AtRest
  <2>3. Resting(s)
    BY <2>2 DEF AloneIn, Stopping, Starting, Loading, Restarting
  <2>4. isPlaying \in BOOLEAN /\ timer \in BOOLEAN /\ player \in Players \cup {None}
    BY DEF ScreenInv, IInv, TypeOK, Maybe
  <2>5. CASE isPlaying
    BY <2>3, <2>4, <2>5 DEF Resting, OnlyPlayer
  <2>6. CASE ~isPlaying
    <3>1. Hush /\ ~timer
      BY <2>3, <2>4, <2>6 DEF Resting
    <3> QED  BY <2>4, <2>6, <3>1 DEF Hush, Audible
  <2> QED  BY <2>5, <2>6
<1>2. ScreenInv => ScreenTypeOK /\ RecentWindow
  BY DEF ScreenInv, QuoteInv, IInv
<1>3. ScreenInv => PlayerOK
  BY <1>1, <1>2 DEF PlayerOK
<1> QED  BY <1>3, ScreenInductive, PTL DEF ScreenSpec

(* "Tap the volume icon to turn audio on/off": off, with every call        *)
(* returned and none overlapping another, nothing sounds.                  *)
THEOREM OffStaysSilent == ScreenSpec => []OffIsSilent
<1>1. ScreenInv => OffIsSilent
  <2> SUFFICES ASSUME ScreenInv, Alone, ~enabled, AtRest
               PROVE  \A p \in Players : ~Audible(p)
    BY DEF OffIsSilent
  <2>1. PICK s \in Slots \ Faulty : scene.client = "screen" /\ scene.slots = {s}
    BY DEF Alone
  <2>2. AloneIn(s) /\ pc[s] = "idle"
    BY <2>1 DEF ScreenInv, AloneInv, AtRest
  <2>3. Resting(s)
    BY <2>2 DEF AloneIn, Stopping, Starting, Loading, Restarting
  <2> QED  BY <2>3 DEF Resting, Hush
<1> QED  BY <1>1, ScreenInductive, PTL DEF ScreenSpec
=============================================================================
