---------------------------- MODULE MCScreenAudio ----------------------------
(***************************************************************************)
(* An instance of ScreenAudio for TLC.  Buddhist quotes have only local    *)
(* audio; Sufi quotes have an AI clip in the box, and a stored one that    *)
(* cannot be played.                                                       *)
(***************************************************************************)
EXTENDS ScreenAudio, TLC

CONSTANTS s1, s2, s3, s4

MCPrimaryFile == [t \in Traditions |-> IF t = "Sufi" THEN "flute" ELSE "bells"]
(* Keys such as ai_audio_sufi_inspiration_3 give back "Sufi Inspiration",  *)
(* which _smartFallbacks does not know: the Buddhist file.                 *)
MCClipFile == [k \in Clips |-> "bells"]
MCClipsOf == [t \in Traditions |-> IF t = "Sufi" THEN Clips ELSE {}]

MCScenes ==
    {[client |-> "screen", slots |-> {s1, s2}],
     [client |-> "screen", slots |-> {s4}],
     [client |-> "any", slots |-> {s3}]}

Interchangeable == Permutations(Players) \cup Permutations({s1, s2})
=============================================================================
