---------------------------- MODULE AudioService ----------------------------
(***************************************************************************)
(* The ambience player of lib/services/audio_service.dart.                  *)
(*                                                                         *)
(* Dart runs one event at a time, so a call of the service is cut into     *)
(* atomic segments only at the awaits that wait for the audioplayers       *)
(* plugin.  A call in flight occupies a slot; pc[s] names the await it is  *)
(* suspended at.  All slots share the static fields of the class, and a    *)
(* resumed call re-reads them: that is where the interleavings bite.       *)
(*                                                                         *)
(* The plugin (an AudioPlayer) is external: stop, pause and dispose take   *)
(* effect when they are issued; play starts to sound when its future       *)
(* completes, unless the player was stopped or paused meanwhile.           *)
(***************************************************************************)
EXTENDS Naturals, Sequences, FiniteSets

CONSTANTS
    Traditions,     \* traditions a quote may have
    Files,          \* the distinct local files of _smartFallbacks
    Clips,          \* keys of AI clips that may be in the cached_audio box
    PrimaryFile,    \* [Traditions -> Files]: _smartFallbacks[tradition]
    ClipFile,       \* [Clips -> Files]: the file of the tradition extracted from a key
    ClipsOf,        \* [Traditions -> SUBSET Clips]: keys with the tradition's prefix
    Playable,       \* the clips whose stored value starts with 'data:audio/'
    InitialClips,   \* what the cached_audio box holds at start-up
    MaxRecent,      \* _maxRecentAudioFiles
    Players,        \* AudioPlayer objects alive at once (bound)
    Slots,          \* calls of the service in flight at once (bound)
    Ops,            \* the public operations the client calls
    Faulty,         \* the slots whose plugin calls may fail of their own accord
    None            \* Dart's null

ASSUME PrimaryFileAssumption == PrimaryFile \in [Traditions -> Files]
ASSUME ClipFileAssumption == ClipFile \in [Clips -> Files]
ASSUME ClipsOfAssumption == ClipsOf \in [Traditions -> SUBSET Clips]
ASSUME ClipsAssumption == Playable \subseteq Clips /\ InitialClips \subseteq Clips
ASSUME MaxRecentAssumption == MaxRecent \in Nat \ {0}
(* Four distinct files against a memory of three, lines 302-338 and 18.    *)
ASSUME FilesAssumption == IsFiniteSet(Files) /\ Cardinality(Files) > MaxRecent
ASSUME FaultyAssumption == Faulty \subseteq Slots
ASSUME NoneAssumption ==
    None \notin Traditions \cup Files \cup Clips \cup Players

VARIABLES
    player,         \* _currentPlayer
    isPlaying,      \* _isPlaying
    timer,          \* whether the timer of _audioTimer is active
    filePath,       \* _currentAudioFilePath
    audioId,        \* _currentAudioId
    lastTradition,  \* _lastAudioTradition
    played,         \* _playedAudioKeys
    recent,         \* _recentAudioFiles
    cachedAudio,    \* keys of the cached_audio box
    pc,             \* where the call in a slot is suspended
    tradition,      \* the tradition argument of a slot's playAmbience
    what,           \* the clip or file a slot is about to play or playing
    target,         \* the AudioPlayer a slot's pending play was issued on
    sound,          \* what each AudioPlayer is doing
    source          \* the clip or file an AudioPlayer has loaded last

service == <<player, isPlaying, timer, filePath, audioId, lastTradition,
             played, recent, cachedAudio>>
slotVars == <<pc, tradition, what, target>>
plugin == <<sound, source>>
vars == <<player, isPlaying, timer, filePath, audioId, lastTradition, played,
          recent, cachedAudio, pc, tradition, what, target, sound, source>>

PlaySteps == {"playStop", "playDispose", "aiMode", "aiPlay", "localMode", "localPlay"}
OtherSteps == {"stopStop", "stopDispose", "pause", "resume", "restartStop", "restartPlay"}
Steps == {"idle"} \cup PlaySteps \cup OtherSteps
SoundStates == {"silent", "loading", "sounding", "paused", "disposed"}

Maybe(S) == S \cup {None}

TypeOK ==
    /\ player \in Maybe(Players)
    /\ isPlaying \in BOOLEAN
    /\ timer \in BOOLEAN
    /\ filePath \in Maybe(Files)
    /\ audioId \in Maybe(Clips)
    /\ lastTradition \in Maybe(Traditions)
    /\ played \in [Traditions -> SUBSET Clips]
    /\ recent \in Seq(Files)
    /\ cachedAudio \subseteq Clips
    /\ pc \in [Slots -> Steps]
    /\ tradition \in [Slots -> Maybe(Traditions)]
    /\ what \in [Slots -> Maybe(Clips \cup Files)]
    /\ target \in [Slots -> Maybe(Players)]
    /\ sound \in [Players -> SoundStates]
    /\ source \in [Players -> Maybe(Clips \cup Files)]

Init ==
    /\ player = None /\ isPlaying = FALSE /\ timer = FALSE
    /\ filePath = None /\ audioId = None /\ lastTradition = None
    /\ played = [t \in Traditions |-> {}]
    /\ recent = <<>>
    /\ cachedAudio = InitialClips
    /\ pc = [s \in Slots |-> "idle"]
    /\ tradition = [s \in Slots |-> None]
    /\ what = [s \in Slots |-> None]
    /\ target = [s \in Slots |-> None]
    /\ sound = [p \in Players |-> "disposed"]
    /\ source = [p \in Players |-> None]

-----------------------------------------------------------------------------
(* Helpers.                                                                *)

(* The sliding window of _recentAudioFiles: append, then drop the oldest.  *)
Remember(q, f) == LET r == Append(q, f)
                  IN  IF Len(r) > MaxRecent THEN Tail(r) ELSE r

Used == {recent[i] : i \in DOMAIN recent}
Unused == Files \ Used

(* Mutant: the fallback of a recently used primary file is forgotten.      *)
PrimaryOnly(primary) == {primary}

(* _getAudioFileWithFallbacks: the files it may return when the tradition's*)
(* primary file is `primary` ...                                           *)
FileChoices(primary) ==
    IF primary \in Used /\ Unused # {} THEN Unused ELSE {primary}

(* ... and the window it leaves when it returns f.                          *)
WindowAfter(primary, f) ==
    Remember(IF primary \in Used /\ Unused = {} THEN <<>> ELSE recent, f)

(* An AudioPlayer object that no field, no pending call and no listener    *)
(* refers to: stands for a freshly constructed one.                        *)
Fresh(p) == /\ p # player
            /\ \A s \in Slots : target[s] # p
            /\ sound[p] \notin {"loading", "sounding"}

Playing == player # None /\ isPlaying

(* The call in slot s returns.                                             *)
Return(s) ==
    /\ pc' = [pc EXCEPT ![s] = "idle"]
    /\ tradition' = [tradition EXCEPT ![s] = None]
    /\ what' = [what EXCEPT ![s] = None]
    /\ target' = [target EXCEPT ![s] = None]

(* The call in slot s goes on to the await named step.                     *)
Suspend(s, step) == /\ pc' = [pc EXCEPT ![s] = step]
                    /\ UNCHANGED <<tradition, what, target>>

(* _currentPlayer = AudioPlayer(); await _currentPlayer!.setReleaseMode,   *)
(* for the clip or file x; snd is the state of the players before.         *)
NewPlayer(s, t, x, step, snd) ==
    \E p \in Players :
        /\ Fresh(p)
        /\ player' = p
        /\ sound' = [snd EXCEPT ![p] = "silent"]
        /\ source' = [source EXCEPT ![p] = None]
        /\ pc' = [pc EXCEPT ![s] = step]
        /\ tradition' = [tradition EXCEPT ![s] = t]
        /\ what' = [what EXCEPT ![s] = x]
        /\ target' = [target EXCEPT ![s] = None]

(* Choosing a local file and the first segment of _playLocalAudio.         *)
LaunchLocal(s, t, primary, snd) ==
    \E f \in FileChoices(primary) :
        /\ recent' = WindowAfter(primary, f)
        /\ filePath' = f
        /\ NewPlayer(s, t, f, "localMode", snd)

(* playAmbience after its stopAmbience, up to the next await: lines 66-100.*)
(* An unplayable stored value leaves an exhausted set of played keys       *)
(* cleared and falls through to a local file.  id and file are the values  *)
(* of the fields at that point, snd the state of the players.              *)
Launch(s, t, id, file, snd) ==
    LET all      == ClipsOf[t] \cap cachedAudio
        unplayed == all \ played[t]
        done     == IF unplayed = {} /\ all # {} THEN {} ELSE played[t]
    IN  \/ \E k \in (IF unplayed # {} THEN unplayed ELSE all) \cap Playable :
              /\ played' = [played EXCEPT ![t] = done \cup {k}]
              /\ audioId' = k
              /\ filePath' = file
              /\ recent' = recent
              /\ NewPlayer(s, t, k, "aiMode", snd)
        \/ /\ all = {} \/ (IF unplayed # {} THEN unplayed ELSE all) \ Playable # {}
           /\ played' = [played EXCEPT ![t] = done]
           /\ audioId' = id
           /\ LaunchLocal(s, t, PrimaryFile[t], snd)

-----------------------------------------------------------------------------
(* playAmbience.                                                           *)

(* The early return of line 58.                                            *)
SkipAmbience(t) == lastTradition = t /\ UNCHANGED vars

(* Mutant: _currentAudioId survives the change of audio.                   *)
PlayAmbienceKeepId(s, t) ==
    /\ "play" \in Ops
    /\ pc[s] = "idle"
    /\ lastTradition # t
    /\ lastTradition' = t
    /\ timer' = FALSE
    /\ IF Playing
         THEN /\ filePath' = None
              /\ sound' = [sound EXCEPT ![player] = "silent"]
              /\ pc' = [pc EXCEPT ![s] = "playStop"]
              /\ tradition' = [tradition EXCEPT ![s] = t]
              /\ UNCHANGED <<player, audioId, played, recent, what, target, source>>
         ELSE Launch(s, t, audioId, None, sound)
    /\ UNCHANGED <<isPlaying, cachedAudio>>

(* The first segment: up to `await stop()` of stopAmbience when something  *)
(* plays, else through the choice of the audio to setReleaseMode.          *)
PlayAmbience(s, t) ==
    /\ "play" \in Ops
    /\ pc[s] = "idle"
    /\ lastTradition # t
    /\ lastTradition' = t
    /\ timer' = FALSE
    /\ IF Playing
         THEN /\ filePath' = None
              /\ audioId' = None
              /\ sound' = [sound EXCEPT ![player] = "silent"]
              /\ pc' = [pc EXCEPT ![s] = "playStop"]
              /\ tradition' = [tradition EXCEPT ![s] = t]
              /\ UNCHANGED <<player, played, recent, what, target, source>>
         ELSE Launch(s, t, None, None, sound)
    /\ UNCHANGED <<isPlaying, cachedAudio>>

(* `await _currentPlayer!.stop()` of stopAmbience has returned: dispose    *)
(* whatever the field refers to now.  A null field throws; stopAmbience    *)
(* swallows that and its caller goes on, with _isPlaying as it is.         *)
PlayStopDone(s) ==
    /\ pc[s] = "playStop"
    /\ IF player # None
         THEN /\ sound' = [sound EXCEPT ![player] = "disposed"]
              /\ Suspend(s, "playDispose")
              /\ UNCHANGED <<player, filePath, audioId, played, recent, source>>
         ELSE Launch(s, tradition[s], audioId, filePath, sound)
    /\ UNCHANGED <<isPlaying, timer, lastTradition, cachedAudio>>

(* `await _currentPlayer!.dispose()` has returned: the field is nulled and *)
(* playAmbience chooses and starts the next audio.                         *)
PlayDisposeDone(s) ==
    /\ pc[s] = "playDispose"
    /\ isPlaying' = FALSE
    /\ Launch(s, tradition[s], audioId, filePath, sound)
    /\ UNCHANGED <<timer, lastTradition, cachedAudio>>

(* What a stop, pause, resume or dispose that fails leaves the current     *)
(* player doing: it may have been obeyed or not.                           *)
AfterFailedCall ==
    {sound} \cup {[sound EXCEPT ![p] = a] :
                     p \in {player} \ {None}, a \in {"silent", "sounding", "paused"}}

(* The stop or dispose of stopAmbience fails: its handler leaves the field *)
(* and _isPlaying alone, and playAmbience goes on to the next audio.       *)
PlayStopFailed(s) ==
    /\ pc[s] \in {"playStop", "playDispose"}
    /\ s \in Faulty
    /\ \E snd \in AfterFailedCall : Launch(s, tradition[s], audioId, filePath, snd)
    /\ UNCHANGED <<isPlaying, timer, lastTradition, cachedAudio>>

(* setReleaseMode has returned: play on the player the field refers to now.*)
ModeDone(s) ==
    /\ pc[s] \in {"aiMode", "localMode"}
    /\ player # None
    /\ sound' = [sound EXCEPT ![player] =
                    IF @ = "disposed" THEN "disposed" ELSE "loading"]
    /\ target' = [target EXCEPT ![s] = player]
    /\ pc' = [pc EXCEPT ![s] = IF @ = "aiMode" THEN "aiPlay" ELSE "localPlay"]
    /\ UNCHANGED <<service, tradition, what, source>>

(* play has returned: lines 121-125 and 162-166.                           *)
PlayDone(s) ==
    /\ pc[s] \in {"aiPlay", "localPlay"}
    /\ sound[target[s]] # "disposed"
    /\ isPlaying' = TRUE
    /\ timer' = TRUE
    /\ sound' = [sound EXCEPT ![target[s]] = IF @ = "loading" THEN "sounding" ELSE @]
    /\ source' = [source EXCEPT ![target[s]] = what[s]]
    /\ Return(s)
    /\ UNCHANGED <<player, filePath, audioId, lastTradition, played, recent, cachedAudio>>

(* Why a segment of _playAIAudio or _playLocalAudio throws: the plugin     *)
(* failed, the field is null after setReleaseMode, or the player of the    *)
(* pending play has been disposed of.                                      *)
Throws(s) ==
    \/ s \in Faulty /\ pc[s] \in {"aiMode", "localMode", "aiPlay", "localPlay"}
    \/ pc[s] \in {"aiMode", "localMode"} /\ player = None
    \/ pc[s] \in {"aiPlay", "localPlay"} /\ sound[target[s]] = "disposed"

(* A failed play leaves its player silent.                                 *)
AfterFailure(s) ==
    IF target[s] # None /\ sound[target[s]] = "loading"
      THEN [sound EXCEPT ![target[s]] = "silent"] ELSE sound

(* The handler of _playAIAudio: a local file for the tradition read back   *)
(* from the key.  _currentAudioId keeps naming the clip.                   *)
AIAudioFailed(s) ==
    /\ pc[s] \in {"aiMode", "aiPlay"}
    /\ Throws(s)
    /\ LaunchLocal(s, tradition[s], ClipFile[what[s]], AfterFailure(s))
    /\ UNCHANGED <<isPlaying, timer, audioId, lastTradition, played, cachedAudio>>

(* The handler of _playLocalAudio gives up silently.                       *)
LocalAudioFailed(s) ==
    /\ pc[s] \in {"localMode", "localPlay"}
    /\ Throws(s)
    /\ sound' = AfterFailure(s)
    /\ Return(s)
    /\ UNCHANGED <<service, source>>

-----------------------------------------------------------------------------
(* stopAmbience, also the whole effect of dispose: lines 218-235, 378-384. *)

StopAmbience(s) ==
    /\ "stop" \in Ops
    /\ pc[s] = "idle"
    /\ timer' = FALSE
    /\ filePath' = None
    /\ audioId' = None
    /\ IF Playing
         THEN /\ sound' = [sound EXCEPT ![player] = "silent"]
              /\ Suspend(s, "stopStop")
         ELSE UNCHANGED <<sound, slotVars>>
    /\ UNCHANGED <<player, isPlaying, lastTradition, played, recent, cachedAudio, source>>

StopStopDone(s) ==
    /\ pc[s] = "stopStop"
    /\ IF player # None
         THEN /\ sound' = [sound EXCEPT ![player] = "disposed"]
              /\ Suspend(s, "stopDispose")
         ELSE sound' = sound /\ Return(s)
    /\ UNCHANGED <<service, source>>

StopDisposeDone(s) ==
    /\ pc[s] = "stopDispose"
    /\ player' = None
    /\ isPlaying' = FALSE
    /\ Return(s)
    /\ UNCHANGED <<timer, filePath, audioId, lastTradition, played, recent, cachedAudio, plugin>>

-----------------------------------------------------------------------------
(* pauseAmbience and resumeAmbience.                                       *)

PauseAmbience(s) ==
    /\ "pause" \in Ops
    /\ pc[s] = "idle"
    /\ timer' = FALSE
    /\ IF Playing
         THEN /\ sound' = [sound EXCEPT ![player] =
                             IF @ \in {"loading", "sounding"} THEN "paused" ELSE @]
              /\ Suspend(s, "pause")
         ELSE UNCHANGED <<sound, slotVars>>
    /\ UNCHANGED <<player, isPlaying, filePath, audioId, lastTradition, played,
                   recent, cachedAudio, source>>

PauseDone(s) ==
    /\ pc[s] = "pause"
    /\ isPlaying' = FALSE
    /\ Return(s)
    /\ UNCHANGED <<player, timer, filePath, audioId, lastTradition, played, recent,
                   cachedAudio, plugin>>

ResumeAmbience(s) ==
    /\ "pause" \in Ops
    /\ pc[s] = "idle"
    /\ player # None
    /\ ~isPlaying
    /\ sound' = [sound EXCEPT ![player] =
                    IF @ = "paused" \/ (@ = "silent" /\ source[player] # None)
                      THEN "sounding" ELSE @]
    /\ Suspend(s, "resume")
    /\ UNCHANGED <<service, source>>

ResumeDone(s) ==
    /\ pc[s] = "resume"
    /\ isPlaying' = TRUE
    /\ timer' = TRUE
    /\ Return(s)
    /\ UNCHANGED <<player, filePath, audioId, lastTradition, played, recent,
                   cachedAudio, plugin>>

-----------------------------------------------------------------------------
(* The 30-second timer and _restartAudio: lines 179-215.                   *)

TimerTick(s) ==
    /\ timer
    /\ pc[s] = "idle"
    /\ IF Playing
         THEN /\ sound' = [sound EXCEPT ![player] = "silent"]
              /\ Suspend(s, "restartStop")
              /\ timer' = timer
         ELSE timer' = FALSE /\ UNCHANGED <<sound, slotVars>>
    /\ UNCHANGED <<player, isPlaying, filePath, audioId, lastTradition, played,
                   recent, cachedAudio, source>>

(* What a restart replays: the AI clip if one is tracked, else the file.   *)
Tracked == IF audioId # None THEN audioId ELSE filePath

(* stop has returned: replay what the fields name now on the player they   *)
(* name now, or end (nothing tracked, or a null player).                   *)
RestartStopDone(s) ==
    /\ pc[s] = "restartStop"
    /\ IF Tracked # None /\ player # None
         THEN /\ sound' = [sound EXCEPT ![player] =
                             IF @ = "disposed" THEN "disposed" ELSE "loading"]
              /\ target' = [target EXCEPT ![s] = player]
              /\ what' = [what EXCEPT ![s] = Tracked]
              /\ pc' = [pc EXCEPT ![s] = "restartPlay"]
              /\ tradition' = tradition
         ELSE sound' = sound /\ Return(s)
    /\ UNCHANGED <<service, source>>

RestartPlayDone(s) ==
    /\ pc[s] = "restartPlay"
    /\ sound[target[s]] # "disposed"
    /\ sound' = [sound EXCEPT ![target[s]] = IF @ = "loading" THEN "sounding" ELSE @]
    /\ source' = [source EXCEPT ![target[s]] = what[s]]
    /\ Return(s)
    /\ UNCHANGED service

RestartPlayFailed(s) ==
    /\ pc[s] = "restartPlay"
    /\ s \in Faulty \/ sound[target[s]] = "disposed"
    /\ sound' = AfterFailure(s)
    /\ Return(s)
    /\ UNCHANGED <<service, source>>

(* The plugin call of stopAmbience, pauseAmbience, resumeAmbience or, for  *)
(* the stop, of _restartAudio fails: the handlers of lines 212, 232, 248   *)
(* and 262 end the call where it is.                                       *)
PlainCallFailed(s) ==
    /\ pc[s] \in {"stopStop", "stopDispose", "pause", "resume", "restartStop"}
    /\ s \in Faulty
    /\ sound' \in AfterFailedCall
    /\ Return(s)
    /\ UNCHANGED <<service, source>>

-----------------------------------------------------------------------------
(* storeGeneratedAudio: a generator adds a clip to the cached_audio box.   *)
StoreGeneratedAudio(k) ==
    /\ "store" \in Ops
    /\ k \notin cachedAudio
    /\ cachedAudio' = cachedAudio \cup {k}
    /\ UNCHANGED <<player, isPlaying, timer, filePath, audioId, lastTradition,
                   played, recent, slotVars, plugin>>

(* A suspended call is resumed by the plugin.                              *)
Resumed(s) ==
    \/ PlayStopDone(s) \/ PlayDisposeDone(s) \/ ModeDone(s) \/ PlayDone(s)
    \/ AIAudioFailed(s) \/ LocalAudioFailed(s)
    \/ StopStopDone(s) \/ StopDisposeDone(s)
    \/ PauseDone(s) \/ ResumeDone(s)
    \/ RestartStopDone(s) \/ RestartPlayDone(s) \/ RestartPlayFailed(s)
    \/ PlayStopFailed(s) \/ PlainCallFailed(s)

(* A client calls the service.                                             *)
Called(s) ==
    \/ \E t \in Traditions : PlayAmbience(s, t)
    \/ StopAmbience(s) \/ PauseAmbience(s) \/ ResumeAmbience(s)

Next ==
    \/ \E s \in Slots : Called(s) \/ TimerTick(s) \/ Resumed(s)
    \/ \E k \in Clips : StoreGeneratedAudio(k)

Spec == Init /\ [][Next]_vars

-----------------------------------------------------------------------------
(* Properties.                                                             *)

(* The window of recently used local files never holds a file twice and    *)
(* never outgrows _maxRecentAudioFiles: the bookkeeping line 18's promise  *)
(* rests on.                                                               *)
RecentWindow ==
    /\ Len(recent) <= MaxRecent
    /\ \A i, j \in DOMAIN recent : recent[i] = recent[j] => i = j

(* "Don't repeat last 3 audio files" (line 18): whatever calls overlap,    *)
(* the local files that are started form a VarietyWindow, so none is       *)
(* started while it is among the last MaxRecent.                           *)
Variety == INSTANCE VarietyWindow WITH Items <- Files, Window <- MaxRecent
FilesVary == Variety!Spec

AtRest == \A s \in Slots : pc[s] = "idle"
Audible(p) == sound[p] \in {"loading", "sounding"}
=============================================================================
