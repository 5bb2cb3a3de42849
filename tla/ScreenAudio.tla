----------------------------- MODULE ScreenAudio -----------------------------
(***************************************************************************)
(* The quote screen as the client of AudioService: the volume button and   *)
(* the quote whose ambience should be heard (lib/screens/quote_screen.dart,*)
(* _isAudioEnabled, _toggleAudio and the start of                          *)
(* _generateBackgroundImage).  None of its calls waits for the one before: *)
(* the screen starts a call in whatever state the service is in.           *)
(*                                                                         *)
(* A scene fixes who calls and which slots are used: the screen with calls *)
(* that overlap, the screen with one call at a time, or a client of every  *)
(* public operation of the service, pausing and storing clips included.    *)
(***************************************************************************)
EXTENDS AudioService

CONSTANT Scenes     \* records [client, slots]

ASSUME ScenesAssumption ==
    Scenes \subseteq [client : {"screen", "any"}, slots : SUBSET Slots]

VARIABLES
    enabled,    \* _isAudioEnabled
    current,    \* the tradition of _currentQuote
    scene       \* who calls the service, and how much in parallel; never changes

screenVars == <<enabled, current>>
allVars == <<vars, enabled, current, scene>>

ScreenTypeOK ==
    /\ TypeOK
    /\ enabled \in BOOLEAN
    /\ current \in Maybe(Traditions)
    /\ scene \in Scenes

ScreenInit == Init /\ enabled = TRUE /\ current = None /\ scene \in Scenes

(* AudioService.playAmbience, with its early return.                       *)
CallPlay(s, t) == SkipAmbience(t) \/ PlayAmbience(s, t)

(* Mutant: the ambience starts although audio is off.                      *)
ShowQuoteLoudly(s, t) ==
    /\ pc[s] = "idle"
    /\ current' = t
    /\ CallPlay(s, t)
    /\ UNCHANGED enabled

(* A quote of tradition t is shown; _generateBackgroundImage asks for its  *)
(* ambience if audio is on.                                                *)
ShowQuote(s, t) ==
    /\ pc[s] = "idle"
    /\ current' = t
    /\ IF enabled THEN CallPlay(s, t) ELSE UNCHANGED vars
    /\ UNCHANGED enabled

(* Mutant: switching on only sets the flag.                                *)
ToggleFlagOnly(s) ==
    /\ ~enabled
    /\ pc[s] = "idle"
    /\ enabled' = TRUE
    /\ UNCHANGED <<vars, current>>

(* _toggleAudio, to on.  Before the first quote `_currentQuote!` throws    *)
(* after the flag is set: audio is on and nothing is asked for.            *)
ToggleOn(s) ==
    /\ ~enabled
    /\ pc[s] = "idle"
    /\ enabled' = TRUE
    /\ IF current # None THEN CallPlay(s, current) ELSE UNCHANGED vars
    /\ UNCHANGED current

(* _toggleAudio, to off.                                                   *)
ToggleOff(s) ==
    /\ enabled
    /\ enabled' = FALSE
    /\ StopAmbience(s)
    /\ UNCHANGED current

ServiceStep(s) == (TimerTick(s) \/ Resumed(s)) /\ UNCHANGED screenVars

ScreenStep(s) ==
    \/ \E t \in Traditions : ShowQuote(s, t)
    \/ ToggleOn(s) \/ ToggleOff(s)

(* Some other client of the service.                                       *)
ClientStep(s) ==
    /\ Called(s) \/ \E k \in Clips : StoreGeneratedAudio(k)
    /\ UNCHANGED screenVars

ScreenNext ==
    /\ \E s \in scene.slots :
          \/ scene.client = "screen" /\ ScreenStep(s)
          \/ scene.client = "any" /\ ClientStep(s)
          \/ ServiceStep(s)
    /\ UNCHANGED scene

ScreenSpec == ScreenInit /\ [][ScreenNext]_allVars

-----------------------------------------------------------------------------
(* "Audio changes automatically based on quote tradition" (README.md:95):  *)
(* while audio is on, the tradition last asked of the service is that of   *)
(* the quote on screen, through any toggling and any overlap of calls.     *)
RequestFollowsQuote ==
    enabled /\ current # None => lastTradition = current

(* The screen calls, and each of its calls returns before the next is made.*)
Alone == scene.client = "screen" /\ \E s \in Slots \ Faulty : scene.slots = {s}

(* With one call at a time, the fields tell the truth between calls: the   *)
(* service believes it is playing exactly when the timer runs and exactly  *)
(* when the current player sounds, it sounds what the next restart will    *)
(* replay, and no other player sounds.                                     *)
RestIsCoherent ==
    Alone /\ AtRest =>
      /\ isPlaying <=> timer
      /\ isPlaying <=> (player # None /\ sound[player] = "sounding")
      /\ isPlaying => source[player] = Tracked /\ Tracked # None
      /\ \A p \in Players : Audible(p) => p = player

(* "Tap the volume icon to turn audio on/off" (README.md:92): when audio   *)
(* is off and every call has returned, nothing sounds.  It takes calls     *)
(* that do not overlap: switched off while a playAmbience is loading, the  *)
(* ambience starts all the same (see the README).                          *)
OffIsSilent ==
    Alone /\ ~enabled /\ AtRest => \A p \in Players : ~Audible(p)

(* The player and the screen that drives it agree when no call is under    *)
(* way, and the list of recent files keeps to its limit all the time.      *)
PlayerOK == ScreenTypeOK /\ RecentWindow /\ RestIsCoherent
=============================================================================
