----------------------------- MODULE QuoteStore -----------------------------
(***************************************************************************)
(* The quotes and favorites boxes of HiveQuoteService, across crashes and  *)
(* restarts: initialize with its migration and seeding, addQuote,          *)
(* saveAffirmationToQuote and the heart button (_toggleFavorite).          *)
(*                                                                         *)
(* Hive is external: a put changes the box in memory at once and queues a  *)
(* frame for the box's file; a clear empties the memory with the file.     *)
(* The future completes when the frame is on disk.  Frames of a box reach  *)
(* the disk in order.  A crash loses the memory and the queued frames;     *)
(* openBox reads the disk.                                                 *)
(*                                                                         *)
(* Ids are numbered in Hive's key order, the order getAt goes by.          *)
(***************************************************************************)
EXTENDS Naturals, Sequences

CONSTANTS
    Ids,            \* keys of quotes, numbered in key order
    SeedOrder,      \* the ids of _loadInitialQuotes, in the order they are added
    NewIds,         \* ids of AI quotes
    Users,          \* calls of the running app in flight at once (bound)
    Boot,           \* the call of initialize, as the owner of frames
    All             \* the key of a clear frame

ASSUME IdsAssumption ==
    /\ Ids \subseteq Nat
    /\ SeedOrder \in Seq(Ids) /\ SeedOrder # <<>>
    /\ NewIds \subseteq Ids
    /\ \A i \in DOMAIN SeedOrder : SeedOrder[i] \notin NewIds
ASSUME BootAssumption == Boot \notin Users
ASSUME AllAssumption == All \notin Ids

Boxes == {"quotes", "favorites"}
Owners == Users \cup {Boot}

(* What a key may hold: a quote in the old format ("map"), or without      *)
(* ("quote") or with ("affirmed") an affirmation; a favorite's flag.       *)
QuoteValues == {"absent", "map", "quote", "affirmed"}
FavoriteValues == {"absent", "yes", "no"}
Contents == [quotes : [Ids -> QuoteValues], favorites : [Ids -> FavoriteValues]]
Frames(V) == [key : Ids \cup {All}, val : V, by : Owners]
Empty == [k \in Ids |-> "absent"]

VARIABLES
    phase,      \* "down", "opened", "clearing", "seeding" or "up"
    seeded,     \* how many initial quotes have been added in this start
    mem,        \* the open boxes
    disk,       \* their files
    queue,      \* frames on their way to each file
    busy        \* owners waiting for a frame to reach the disk

vars == <<phase, seeded, mem, disk, queue, busy>>

TypeOK ==
    /\ phase \in {"down", "opened", "clearing", "seeding", "up"}
    /\ seeded \in 0..Len(SeedOrder)
    /\ mem \in Contents
    /\ disk \in Contents
    /\ queue \in [quotes : Seq(Frames(QuoteValues)), favorites : Seq(Frames(FavoriteValues))]
    /\ busy \subseteq Owners

(* A first launch, or a box left by the version that stored quotes as Maps.*)
Init ==
    /\ phase = "down" /\ seeded = 0
    /\ mem = [b \in Boxes |-> Empty]
    /\ \E old \in SUBSET Ids :
         disk = [b \in Boxes |->
                    [k \in Ids |-> IF b = "quotes" /\ k \in old THEN "map" ELSE "absent"]]
    /\ queue = [b \in Boxes |-> <<>>]
    /\ busy = {}

-----------------------------------------------------------------------------
(* Hive.                                                                   *)

Apply(f, c) == IF f.key = All THEN Empty ELSE [c EXCEPT ![f.key] = f.val]

(* put or clear: a frame for the disk, the caller waits.                   *)
Issue(b, f) ==
    /\ mem' = [mem EXCEPT ![b] = IF f.key = All THEN @ ELSE Apply(f, @)]
    /\ queue' = [queue EXCEPT ![b] = Append(@, f)]
    /\ busy' = busy \cup {f.by}

Put(b, k, v, owner) == Issue(b, [key |-> k, val |-> v, by |-> owner])

(* The oldest frame of a box reaches the file.                             *)
Flush(b) ==
    /\ queue[b] # <<>>
    /\ disk' = [disk EXCEPT ![b] = Apply(Head(queue[b]), @)]
    /\ queue' = [queue EXCEPT ![b] = Tail(@)]
    /\ busy' = busy \ {Head(queue[b]).by}
    /\ mem' = [mem EXCEPT ![b] = IF Head(queue[b]).key = All THEN Empty ELSE @]
    /\ UNCHANGED <<phase, seeded>>

Crash ==
    /\ phase # "down"
    /\ phase' = "down"
    /\ seeded' = 0
    /\ mem' = [b \in Boxes |-> Empty]
    /\ queue' = [b \in Boxes |-> <<>>]
    /\ busy' = {}
    /\ UNCHANGED disk

-----------------------------------------------------------------------------
(* initialize.                                                             *)

Present(c) == {k \in Ids : c[k] # "absent"}

(* Mutant: old-format values are never looked for.                         *)
NeverOld(c) == FALSE

(* getAt(0) is Map.                                                        *)
OldFormat(c) == \E k \in Present(c) : c[k] = "map" /\ \A j \in Present(c) : k <= j

(* _loadInitialQuotes: one awaited addQuote after the other.               *)
AddSeed(n) ==
    /\ Put("quotes", SeedOrder[n], "quote", Boot)
    /\ seeded' = n
    /\ phase' = "seeding"

(* The boxes are opened.                                                   *)
Open ==
    /\ phase = "down"
    /\ phase' = "opened"
    /\ mem' = disk
    /\ UNCHANGED <<seeded, disk, queue, busy>>

(* Mutant: the initial quotes are added at every start.                    *)
MigrateAlways ==
    /\ phase = "opened"
    /\ IF OldFormat(mem["quotes"])
         THEN /\ Issue("quotes", [key |-> All, val |-> "absent", by |-> Boot])
              /\ phase' = "clearing"
              /\ UNCHANGED seeded
         ELSE AddSeed(1)
    /\ UNCHANGED disk

(* An old-format box is cleared; an empty one is seeded; any other is      *)
(* taken as it is.                                                         *)
Migrate ==
    /\ phase = "opened"
    /\ IF OldFormat(mem["quotes"])
         THEN /\ Issue("quotes", [key |-> All, val |-> "absent", by |-> Boot])
              /\ phase' = "clearing"
              /\ UNCHANGED seeded
         ELSE IF Present(mem["quotes"]) = {}
         THEN AddSeed(1)
         ELSE /\ phase' = "up"
              /\ UNCHANGED <<seeded, mem, queue, busy>>
    /\ UNCHANGED disk

(* The clear of the migration has returned: the box is empty, seed it.     *)
Cleared ==
    /\ phase = "clearing"
    /\ Boot \notin busy
    /\ AddSeed(1)
    /\ UNCHANGED disk

(* Mutant: the loop adds its last quote for ever.                          *)
SeedForever ==
    /\ phase = "seeding"
    /\ Boot \notin busy
    /\ AddSeed(IF seeded < Len(SeedOrder) THEN seeded + 1 ELSE seeded)
    /\ UNCHANGED disk

(* One addQuote of the seeding has returned.                               *)
SeedAdded ==
    /\ phase = "seeding"
    /\ Boot \notin busy
    /\ IF seeded < Len(SeedOrder)
         THEN AddSeed(seeded + 1)
         ELSE /\ phase' = "up"
              /\ UNCHANGED <<seeded, mem, queue, busy>>
    /\ UNCHANGED disk

-----------------------------------------------------------------------------
(* The running app.                                                        *)

Ready(u) == phase = "up" /\ u \in Users \ busy

(* addQuote of a generated quote under a new id.                           *)
AddQuote(u, k) ==
    /\ Ready(u)
    /\ mem["quotes"][k] = "absent"
    /\ Put("quotes", k, "quote", u)
    /\ UNCHANGED <<phase, seeded, disk>>

(* saveAffirmationToQuote: rewrites the stored quote, if there is one.     *)
SaveAffirmationToQuote(u, k) ==
    /\ Ready(u)
    /\ mem["quotes"][k] # "absent"
    /\ Put("quotes", k, "affirmed", u)
    /\ UNCHANGED <<phase, seeded, disk>>

(* _toggleFavorite: put(id, !(get(id) ?? false)).                          *)
ToggleFavorite(u, k) ==
    /\ Ready(u)
    /\ mem["quotes"][k] # "absent"
    /\ Put("favorites", k, IF mem["favorites"][k] = "yes" THEN "no" ELSE "yes", u)
    /\ UNCHANGED <<phase, seeded, disk>>

Startup == Open \/ Migrate \/ Cleared \/ SeedAdded

AppStep ==
    \E u \in Users :
        \/ \E k \in NewIds : AddQuote(u, k)
        \/ \E k \in Ids : SaveAffirmationToQuote(u, k) \/ ToggleFavorite(u, k)

Next == Startup \/ AppStep \/ (\E b \in Boxes : Flush(b)) \/ Crash

Spec == Init /\ [][Next]_vars

-----------------------------------------------------------------------------
(* Properties.                                                             *)

(* Once initialize has returned, getAllQuotes yields at least one quote    *)
(* and its cast never fails: wherever earlier starts crashed, in the       *)
(* migration or in the seeding, no old-format value is left.               *)
UsableBox ==
    phase = "up" =>
        /\ Present(mem["quotes"]) # {}
        /\ \A k \in Ids : mem["quotes"][k] # "map"

(* A quote that reached the disk in the current format is never lost and   *)
(* never loses its affirmation, through crashes, restarts and the seeding  *)
(* of later starts (README.md:110, "saved with each quote for persistence")*)
QuotesSurvive ==
    [][\A k \in Ids :
         /\ disk["quotes"][k] \in {"quote", "affirmed"} =>
                disk'["quotes"][k] \in {"quote", "affirmed"}
         /\ disk["quotes"][k] = "affirmed" => disk'["quotes"][k] = "affirmed"]_vars

(* When no call waits, the files hold what the app shows: a heart that was *)
(* tapped "persists across app restarts" (README.md:197).                  *)
QuietIsDurable == phase = "up" /\ busy = {} => disk = mem

(* The store after any history of starts: well-formed, and usable and      *)
(* durable once it is up.                                                  *)
StoreOK == TypeOK /\ UsableBox /\ QuietIsDurable
=============================================================================
