\* The calls of the screen and the timer, two in flight at a time or one; and
\* every operation of the service, one at a time, with failing plugin calls.
SPECIFICATION ScreenSpec
CONSTANTS
    Traditions = {"Buddhist", "Sufi"}
    Files = {"bells", "flute", "om"}
    Clips = {"clip1", "clip3"}
    PrimaryFile <- MCPrimaryFile
    ClipFile <- MCClipFile
    ClipsOf <- MCClipsOf
    Playable = {"clip1"}
    InitialClips = {"clip1"}
    MaxRecent = 2
    Players = {p1, p2, p3}
    s1 = s1
    s2 = s2
    s3 = s3
    s4 = s4
    Slots = {s1, s2, s3, s4}
    Faulty = {s3}
    Scenes <- MCScenes
    Ops = {"play", "stop", "pause", "store"}
    None = None
SYMMETRY Interchangeable
INVARIANTS PlayerOK RequestFollowsQuote OffIsSilent
PROPERTIES FilesVary
CHECK_DEADLOCK FALSE
