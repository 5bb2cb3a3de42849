--------------------------- MODULE BackgroundImage ---------------------------
(***************************************************************************)
(* The background of the quote screen: _generateBackgroundImage of         *)
(* lib/screens/quote_screen.dart over StabilityAIGenerator of              *)
(* lib/services/image_service.dart and the cached_images box of            *)
(* HiveQuoteService.                                                       *)
(*                                                                         *)
(* Every quote shown starts a call that is never cancelled; await[s] names *)
(* what it is suspended at.  An image is known by its prompt's cache key   *)
(* and whether all of its bytes are there; Default stands for the Unsplash *)
(* addresses used after a failure.  A file is written in place: opened,    *)
(* which truncates it, and then filled, so that a process that is killed   *)
(* in between, a full disk or a second save leaves or shows a part of it.  *)
(***************************************************************************)
EXTENDS Naturals, FiniteSets, Functions

CONSTANTS
    Quotes,         \* quotes that may be shown
    Prompts,        \* cache keys of prompts
    PromptsOf,      \* [Quotes -> SUBSET Prompts]: buildPrompt(theme, variation: 1..8)
    LookupKeys,     \* [Quotes -> sets]: the eight keys tried in the cached_images box
    HasKey,         \* whether STABILITY_API_KEY is usable
    Faults,         \* whether a request, a save or the reading of a file may fail
    Slots,          \* calls in flight at once (bound)
    Default,        \* the address of a default image
    None            \* Dart's null

ASSUME PromptsAssumption ==
    PromptsOf \in [Quotes -> SUBSET Prompts] /\ \A q \in Quotes : PromptsOf[q] # {}
ASSUME SwitchAssumption == HasKey \in BOOLEAN /\ Faults \in BOOLEAN
ASSUME NoneAssumption ==
    /\ None \notin Quotes \cup Prompts \cup {Default} /\ Default \notin Prompts
    /\ {None, Default} \cap [of : Prompts, whole : BOOLEAN] = {}
(* Line 173 builds '\\${traditionKey}_image_\\${i+1}': keys with backslashes *)
(* are neither quote ids nor the keys preFetchImages would store under.    *)
ASSUME LookupAssumption ==
    \A q \in Quotes : LookupKeys[q] # {} /\ LookupKeys[q] \cap Quotes = {}

Maybe(S) == S \cup {None}
BoxKeys == Quotes \cup UNION {LookupKeys[q] : q \in Quotes}
Image == [of : Prompts, whole : BOOLEAN]
Whole(k) == [of |-> k, whole |-> TRUE]

VARIABLES
    current,        \* _currentQuote
    background,     \* _backgroundImageUrl
    shownKeys,      \* _shownImageKeys
    prefetching,    \* _backgroundPrefetchStarted
    box,            \* the cached_images box
    cache,          \* _imageCache: what it holds for each prompt
    stale,          \* the prompts whose entry is older than _cacheExpiry
    files,          \* image_cache: each prompt's file, "mixed" if two saves wrote it at once
    spoilt,         \* history: prompts with a save that failed, was killed, or met another call
    await, quote, prompt, image    \* of each call

screenVars == <<current, background, prefetching, box>>
fileVars == <<files, spoilt>>
imageVars == <<current, background, shownKeys, prefetching, box, cache, stale, fileVars,
          await, quote, prompt, image>>

ImageTypeOK ==
    /\ current \in Maybe(Quotes)
    /\ background \in Maybe(Image)
    /\ shownKeys \subseteq BoxKeys
    /\ prefetching \in BOOLEAN
    /\ box \in [BoxKeys -> Maybe(Image)]
    /\ cache \in [Prompts -> Maybe(Image \cup {Default})]
    /\ stale \subseteq {k \in Prompts : cache[k] # None}
    /\ files \in [Prompts -> {"none", "cut", "mixed", "whole"}] /\ spoilt \subseteq Prompts
    /\ await \in [Slots -> {"idle", "audio", "read", "torn", "request", "save", "write"}]
    /\ quote \in [Slots -> Maybe(Quotes)]
    /\ prompt \in [Slots -> Maybe(Prompts)]
    /\ image \in [Slots -> Maybe(Image \cup {Default})]

ImageInit ==
    /\ current = None /\ background = None
    /\ shownKeys = {} /\ prefetching = FALSE
    /\ box = [k \in BoxKeys |-> None]
    /\ cache = [k \in Prompts |-> None] /\ stale = {}
    /\ files = [k \in Prompts |-> "none"] /\ spoilt = {}
    /\ await = [s \in Slots |-> "idle"]
    /\ quote = [s \in Slots |-> None]
    /\ prompt = [s \in Slots |-> None]
    /\ image = [s \in Slots |-> None]

-----------------------------------------------------------------------------
(* Segments of a call.                                                     *)

Return(s) ==
    /\ await' = [await EXCEPT ![s] = "idle"]
    /\ quote' = [quote EXCEPT ![s] = None]
    /\ prompt' = [prompt EXCEPT ![s] = None]
    /\ image' = [image EXCEPT ![s] = None]

(* Mutant: the image is stored for the quote on screen.                    *)
ShowForCurrent(s, q, img) ==
    /\ IF img # Default
         THEN background' = img /\ box' = [box EXCEPT ![current] = img]
         ELSE background' = None /\ UNCHANGED box
    /\ Return(s)
    /\ UNCHANGED <<current, prefetching>>

(* Lines 210-221: an image is shown, whatever quote is on screen by now,   *)
(* and stored for the quote it was made for; a default gives the gradient. *)
ShowImage(s, q, img) ==
    /\ IF img # Default
         THEN background' = img /\ box' = [box EXCEPT ![q] = img]
         ELSE background' = None /\ UNCHANGED box
    /\ Return(s)
    /\ UNCHANGED <<current, prefetching>>

(* The calls that have the file of a prompt open for writing.              *)
Writing(k) == {s \in Slots : await[s] = "write" /\ prompt[s] = k}

(* The prompts of a quote: one of eight variations of its tradition, drawn *)
(* at random.                                                              *)
BuildPrompt(q) == PromptsOf[q]

(* generateImage, lines 41-58, for quote q: it answers from its cache, or  *)
(* drops an expired entry and reads the file, which is torn when another   *)
(* call is writing it.                                                     *)
GenerateImage(s, q) ==
    \E k \in BuildPrompt(q) :
        IF cache[k] # None /\ k \notin stale
          THEN /\ ShowImage(s, q, cache[k])
               /\ UNCHANGED <<cache, stale>>
          ELSE /\ cache' = [cache EXCEPT ![k] = None]
               /\ stale' = stale \ {k}
               /\ await' = [await EXCEPT ![s] = IF Writing(k) = {} THEN "read" ELSE "torn"]
               /\ quote' = [quote EXCEPT ![s] = q]
               /\ prompt' = [prompt EXCEPT ![s] = k]
               /\ UNCHANGED <<screenVars, image>>

(* Lines 171-198: a stored image of a key not used in this session, after  *)
(* which the prefetch is started once; without one an image is generated.  *)
FindImage(s, q) ==
    LET unused == LookupKeys[q] \ shownKeys
        kept   == IF unused # {} THEN shownKeys ELSE {}
    IN  \E k \in (IF unused # {} THEN unused ELSE LookupKeys[q]) :
            IF box[k] # None
              THEN /\ background' = box[k]
                   /\ shownKeys' = kept \cup {k}
                   /\ box' = [box EXCEPT ![q] = box[k]]
                   /\ prefetching' = TRUE
                   /\ Return(s)
                   /\ UNCHANGED <<current, cache, stale>>
              ELSE shownKeys' = kept /\ GenerateImage(s, q)

(* The new image is cached, a default too, and then saved.                 *)
CacheAndSave(s, img) ==
    /\ cache' = [cache EXCEPT ![prompt[s]] = img]
    /\ stale' = stale \ {prompt[s]}
    /\ image' = [image EXCEPT ![s] = img]
    /\ await' = [await EXCEPT ![s] = "save"]
    /\ UNCHANGED <<screenVars, quote, prompt>>

-----------------------------------------------------------------------------
(* Actions.                                                                *)

(* A quote is shown; its background starts as a gradient, and the call     *)
(* waits for playAmbience.                                                 *)
ShowQuote(s, q) ==
    /\ await[s] = "idle"
    /\ current' = q
    /\ background' = None
    /\ await' = [await EXCEPT ![s] = "audio"]
    /\ quote' = [quote EXCEPT ![s] = q]
    /\ UNCHANGED <<shownKeys, prefetching, box, cache, stale, fileVars, prompt, image>>

(* playAmbience has returned, or audio is off.                             *)
AudioDone(s) ==
    /\ await[s] = "audio"
    /\ FindImage(s, quote[s])
    /\ UNCHANGED fileVars

(* What _getCachedImageFromStorage returns of a file: its bytes, whatever  *)
(* they are, some of them if a save overlapped the reading, or null when   *)
(* there is none or the reading throws.                                    *)
Read(s) ==
    LET k == prompt[s]
    IN  (IF await[s] = "torn" THEN {None, Whole(k), [of |-> k, whole |-> FALSE]}
         ELSE IF files[k] = "none" THEN {None}
         ELSE {[of |-> k, whole |-> files[k] = "whole"]})
        \cup (IF Faults THEN {None} ELSE {})

(* It has returned.  Null makes the app ask the service, again if need be. *)
FileRead(s) ==
    /\ await[s] \in {"read", "torn"}
    /\ spoilt' = IF await[s] = "torn" THEN spoilt \cup {prompt[s]} ELSE spoilt
    /\ UNCHANGED <<shownKeys, files>>
    /\ \E img \in Read(s) :
          \/ /\ img # None
             /\ cache' = [cache EXCEPT ![prompt[s]] = img]
             /\ stale' = stale \ {prompt[s]}
             /\ ShowImage(s, quote[s], img)
          \/ /\ img = None /\ HasKey
             /\ await' = [await EXCEPT ![s] = "request"]
             /\ UNCHANGED <<screenVars, cache, stale, quote, prompt, image>>
          \/ /\ img = None /\ ~HasKey
             /\ CacheAndSave(s, Default)

(* Stability AI answers ...                                                *)
Answered(s) ==
    /\ await[s] = "request"
    /\ CacheAndSave(s, Whole(prompt[s]))
    /\ UNCHANGED <<shownKeys, fileVars>>

(* ... or fails.                                                           *)
RequestFailed(s) ==
    /\ Faults
    /\ await[s] = "request"
    /\ CacheAndSave(s, Default)
    /\ UNCHANGED <<shownKeys, fileVars>>

(* _saveImageToStorage writes no default.                                  *)
NotSaved(s) ==
    /\ await[s] = "save" /\ image[s] = Default
    /\ ShowImage(s, quote[s], Default)
    /\ UNCHANGED <<shownKeys, cache, stale, fileVars>>

(* writeAsBytes opens the file and truncates it, under the hands of calls  *)
(* that are reading or writing it.                                         *)
SaveOpens(s) ==
    LET k == prompt[s]
        readers == {r \in Slots : await[r] = "read" /\ prompt[r] = k}
    IN  /\ await[s] = "save" /\ image[s] # Default
        /\ files' = [files EXCEPT ![k] = IF Writing(k) = {} THEN "cut" ELSE "mixed"]
        /\ spoilt' = IF Writing(k) = {} THEN spoilt ELSE spoilt \cup {k}
        /\ await' = [r \in Slots |-> IF r = s THEN "write" ELSE IF r \in readers THEN "torn" ELSE await[r]]
        /\ UNCHANGED <<screenVars, shownKeys, cache, stale, quote, prompt, image>>

(* The bytes are written.  The last of two saves may leave its own, or a   *)
(* mixture of both.                                                        *)
Saved(s) ==
    LET k == prompt[s]
    IN  /\ await[s] = "write"
        /\ \/ files[k] = "mixed" /\ UNCHANGED files
           \/ /\ files[k] = "cut" \/ Writing(k) = {s}
              /\ files' = [files EXCEPT ![k] = "whole"]
        /\ ShowImage(s, quote[s], image[s])
        /\ UNCHANGED <<shownKeys, cache, stale, spoilt>>

(* A save that fails leaves what it has written so far; the error is       *)
(* swallowed and the image shown.                                          *)
SaveFailed(s) ==
    /\ Faults
    /\ await[s] \in {"save", "write"} /\ image[s] # Default
    /\ spoilt' = spoilt \cup {prompt[s]}
    /\ ShowImage(s, quote[s], image[s])
    /\ UNCHANGED <<shownKeys, cache, stale, files>>

(* Twenty-four hours pass for an entry of the cache.                       *)
Expire(k) ==
    /\ cache[k] # None /\ k \notin stale
    /\ stale' = stale \cup {k}
    /\ UNCHANGED <<screenVars, shownKeys, cache, fileVars, await, quote, prompt, image>>

(* The app is killed and restarted: a file that was being written stays as *)
(* it is.                                                                  *)
Restart ==
    /\ current # None
    /\ current' = None /\ background' = None
    /\ shownKeys' = {} /\ prefetching' = FALSE
    /\ cache' = [k \in Prompts |-> None] /\ stale' = {}
    /\ spoilt' = spoilt \cup {k \in Prompts : Writing(k) # {}}
    /\ await' = [s \in Slots |-> "idle"]
    /\ quote' = [s \in Slots |-> None]
    /\ prompt' = [s \in Slots |-> None]
    /\ image' = [s \in Slots |-> None]
    /\ UNCHANGED <<box, files>>

ImageNext ==
    \/ \E s \in Slots :
          \/ \E q \in Quotes : ShowQuote(s, q)
          \/ AudioDone(s) \/ FileRead(s) \/ Answered(s) \/ RequestFailed(s)
          \/ NotSaved(s) \/ SaveOpens(s) \/ Saved(s) \/ SaveFailed(s)
    \/ \E k \in Prompts : Expire(k)
    \/ Restart

ImageSpec == ImageInit /\ [][ImageNext]_imageVars

-----------------------------------------------------------------------------
(* Properties.                                                             *)

(* "AI images are stored in Hive database for persistence" (README.md:57): *)
(* whatever calls overlap, the image stored for a quote was made from one  *)
(* of that quote's prompts.                                                *)
StoredImageFits ==
    \A q \in Quotes : box[q] # None => box[q].of \in PromptsOf[q]

(* "Images are cached locally for instant loading" (README.md:56): an      *)
(* image in memory is on file, or about to be, unless a save of it failed, *)
(* was cut short by a kill or met another call at the same file.           *)
CachedIsSaved ==
    \A k \in Prompts :
        cache[k] \notin {None, Default} =>
            \/ files[k] = "whole" \/ k \in spoilt
            \/ \E s \in Slots : await[s] \in {"save", "write"} /\ prompt[s] = k /\ image[s] # Default

(* Without such an accident a part of an image is nowhere: not in memory,  *)
(* not stored for a quote, not on screen, and in no file that no call is   *)
(* still writing, although files are written in place and read without a   *)
(* test of what they hold (image_service.dart, _saveImageToStorage and     *)
(* _getCachedImageFromStorage).                                            *)
UnspoiltIsWhole ==
    /\ \A img \in Range(cache) \cup Range(box) \cup {background} :
          img \notin {None, Default} => img.whole \/ img.of \in spoilt
    /\ \A k \in Prompts : files[k] \in {"cut", "mixed"} => k \in spoilt \/ Writing(k) # {}

(* Images in memory, in the box, in the files and on screen are what they  *)
(* should be, at every step of two overlapping calls.                      *)
ImagesOK == ImageTypeOK /\ StoredImageFits /\ CachedIsSaved /\ UnspoiltIsWhole
=============================================================================
