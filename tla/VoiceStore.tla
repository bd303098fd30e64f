----------------------------- MODULE VoiceStore -----------------------------
(***************************************************************************)
(* One cloned voice of the Fish engine: its clip and its words on disk     *)
(* (rhapsode_engine_fish/voices.py), the analysis of the clip that the     *)
(* resident model keeps (rhapsode_worker/references.py) and its entry in   *)
(* the label file (VoiceLabels in rhapsode_worker/worker.py).  Creates and *)
(* deletes run each in a thread of its own, a synthesis in the engine's,   *)
(* and nothing orders one after another; a step here is one call on a file *)
(* or on the cache.  A recording is named for the create that brought it.  *)
(* The calls on the cache are atomic: two that collide can end in a        *)
(* KeyError, and then fail, but never in another entry.                    *)
(***************************************************************************)
EXTENDS Naturals, FiniteSets

CONSTANTS
  Creates,    \* POST /voices of this voice: each a recording
  Deletes,    \* DELETE /voices of it
  Named,      \* the creates that give the voice a label
  Faults      \* of "disk" (a write fails), "crash" (the worker dies), "tick"

(* What is there instead of a recording. *)
Gone == "gone"
Unknown == "unknown"
Cut == "cut"                    \* a file opened to be written, and empty
NoOne == "none"

ASSUME VoiceAssumption ==
  /\ Creates \cap Deletes = {} /\ Named \subseteq Creates
  /\ Creates \cap {Gone, Unknown, Cut, NoOne} = {}
  /\ Faults \subseteq {"disk", "crash", "tick"}

VARIABLES
  clip,       \* <id>.wav: the recording it holds, and its modification time
  words,      \* <id>.json: the recording whose words and label it holds
  label,      \* the voice's entry in .labels.json: the create that gave it
  cache,      \* the analyses kept of this clip, each under its key
  call,       \* what each create and delete has done
  speech,     \* the synthesis in the engine's thread
  last,       \* the outcome of the writers: a recording, Gone or Unknown
  mixed       \* two writers have overlapped, and one of them still runs

disk == <<clip, words, label>>
history == <<last, mixed>>
vars == <<disk, cache, call, speech, history>>

Writers == Creates \cup Deletes
Writing == {w \in Writers : call[w] \notin {"waiting", "over"}}
Known == clip.of # Gone /\ words # Gone     \* _clip finds the voice

File(of, at) == [of |-> of, at |-> at]

(* The key of a clip.  All recordings are taken to be of one size, so that *)
(* only its time tells one from another.                                   *)
Key(file) == [at |-> file.at, empty |-> file.of = Cut]
Entry(key, of) == [key |-> key, of |-> of]
NoKey == [at |-> 0, empty |-> TRUE]

Silence == [pc |-> "idle", words |-> NoOne, key |-> NoKey, of |-> NoOne, calm |-> FALSE]

Init ==
  /\ clip = File(Gone, 0) /\ words = Gone /\ label = NoOne
  /\ cache = {}
  /\ call = [w \in Writers |-> "waiting"]
  /\ speech = Silence
  /\ last = Gone /\ mixed = FALSE

-----------------------------------------------------------------------------
(* Creates and deletes.                                                    *)

(* The modification times a write can leave.  Times are only compared for  *)
(* equality with those still kept somewhere, so that one nobody keeps does *)
(* for a new one.  On a file clock with coarse ticks it can be the time of *)
(* the last write; not so while an analysis is under way, which would then *)
(* be kept for good under the key of the clip that replaced its own.       *)
Times == 0 .. 3
Stamps ==
  LET kept == {clip.at, speech.key.at} \cup {e.key.at : e \in cache}
      later == CHOOSE t \in Times : t \notin kept
  IN {later} \cup IF "tick" \in Faults /\ speech.pc \notin {"looked", "analysing"} THEN {clip.at} ELSE {}

(* A writer begins: until it and all that overlap it are over, what the    *)
(* voice is depends on their order.                                        *)
Begins(w, to) ==
  /\ call[w] = "waiting" /\ call' = [call EXCEPT ![w] = to]
  /\ last' = Unknown /\ mixed' = (Writing # {})
  /\ speech' = [speech EXCEPT !.calm = FALSE]

Goes(w, from, to) ==
  /\ call[w] = from /\ call' = [call EXCEPT ![w] = to]
  /\ UNCHANGED <<speech, history>>

(* A writer is over; one that met no other decided what the voice is. *)
Ends(w, from, outcome) ==
  /\ call[w] = from /\ call' = [call EXCEPT ![w] = "over"]
  /\ last' = IF Writing = {w} /\ ~mixed THEN outcome ELSE Unknown
  /\ mixed' = (mixed /\ Writing # {w})
  /\ UNCHANGED speech

Fails(w, from) == Ends(w, from, Unknown) /\ UNCHANGED <<disk, cache>>

(* create_voice: write_bytes opens the clip, which empties it, ... *)
OpenClip(w) ==
  /\ w \in Creates /\ Begins(w, "opened")
  /\ \E t \in Stamps : clip' = File(Cut, t)
  /\ UNCHANGED <<words, label, cache>>

(* ... and then fills it; ... *)
FillClip(w) ==
  /\ w \in Creates /\ Goes(w, "opened", "filled")
  /\ \E t \in Stamps : clip' = File(w, t)
  /\ UNCHANGED <<words, label, cache>>

(* ... write_text does the same to the words, ... *)
OpenWords(w) ==
  /\ Goes(w, "filled", "worded") /\ words' = Cut
  /\ UNCHANGED <<clip, label, cache>>

FillWords(w) ==
  /\ w \in Creates /\ Goes(w, "worded", "stored") /\ words' = w
  /\ UNCHANGED <<clip, label, cache>>

DiskFull(w) ==
  /\ "disk" \in Faults /\ call[w] \in {"opened", "worded"}
  /\ Fails(w, call[w])

(* Mutant: the key alone is trusted to tell the recordings apart. *)
KeptToo == cache

(* ReferenceCache.forget. *)
Forgotten == {}

Forget(w) ==
  /\ w \in Creates /\ Goes(w, "stored", "kept") /\ cache' = Forgotten
  /\ UNCHANGED disk

(* ... and _voice reads both files again, for the answer. *)
Describe(w) ==
  /\ Known /\ words # Cut
  /\ Goes(w, "kept", "described") /\ UNCHANGED <<disk, cache>>

CannotDescribe(w) == ~(Known /\ words # Cut) /\ Fails(w, "kept")

(* Mutant: a voice recorded again without a label keeps the old one. *)
RelabelledOver(w) == IF w \in Named THEN w ELSE label

(* _remember_label, back on the event loop. *)
Relabelled(w) == IF w \in Named THEN w ELSE NoOne

Created(w) ==
  /\ w \in Creates /\ Ends(w, "described", w) /\ label' = Relabelled(w)
  /\ UNCHANGED <<clip, words, cache>>

(* delete_voice: the voice is found, ... *)
Find(w) ==
  /\ w \in Deletes /\ Known /\ Begins(w, "found") /\ UNCHANGED <<disk, cache>>

NotFound(w) ==
  /\ w \in Deletes /\ ~Known /\ call[w] = "waiting"
  /\ call' = [call EXCEPT ![w] = "over"]
  /\ UNCHANGED <<disk, cache, speech, history>>

(* ... its clip is removed, unless somebody else has, ... *)
RemoveClip(w) ==
  /\ clip.of # Gone
  /\ Goes(w, "found", "removing") /\ clip' = File(Gone, clip.at)
  /\ UNCHANGED <<words, label, cache>>

NothingToRemove(w) == clip.of = Gone /\ Fails(w, "found")

(* Mutant: the words stay beside the clip that was removed. *)
WordsStay == words

(* ... then the words, which may be missing, ... *)
WordsRemoved == Gone

RemoveWords(w) ==
  /\ Goes(w, "removing", "removed") /\ words' = WordsRemoved
  /\ UNCHANGED <<clip, label, cache>>

(* ... then the analysis, and then the label. *)
ForgetRemoved(w) == Goes(w, "removed", "forgotten") /\ cache' = Forgotten /\ UNCHANGED disk

Deleted(w) ==
  /\ Ends(w, "forgotten", Gone) /\ label' = NoOne
  /\ UNCHANGED <<clip, words, cache>>

-----------------------------------------------------------------------------
(* A synthesis: one at a time, as in ModelWorker.                          *)

Speaks(from, next) == speech.pc = from /\ speech' = next /\ UNCHANGED <<disk, call, history>>
Aborts == [speech EXCEPT !.pc = "failed"]

(* speak, for this voice: _clip looks for both files, ... *)
Speak ==
  /\ Speaks("idle", [Silence EXCEPT !.pc = IF Known THEN "clipped" ELSE "refused",
                                    !.calm = Writing = {}])
  /\ UNCHANGED cache

(* ... load reads the words, ... *)
Read ==
  /\ Speaks("clipped", IF words \in {Gone, Cut} THEN Aborts
                       ELSE [speech EXCEPT !.pc = "read", !.words = words])
  /\ UNCHANGED cache

(* Mutant: what the path was cached as before stays. *)
StaleToo == cache

(* ... the cache looks at the clip and drops what it was cached as before, ... *)
Fresh == {}

Look ==
  LET hits == {e \in cache : e.key = Key(clip)} IN
  \/ /\ clip.of = Gone /\ Speaks("read", Aborts) /\ UNCHANGED cache
  \/ /\ clip.of # Gone
     /\ \E e \in hits : Speaks("read", [speech EXCEPT !.pc = "speaking", !.of = e.of])
     /\ UNCHANGED cache
  \/ /\ clip.of # Gone /\ hits = {}
     /\ Speaks("read", [speech EXCEPT !.pc = "looked", !.key = Key(clip)])
     /\ cache' = Fresh

(* ... encode has the clip's bytes, of which there must be some, ... *)
Analyse ==
  /\ Speaks("looked", IF clip.of \in {Gone, Cut} THEN Aborts
                      ELSE [speech EXCEPT !.pc = "analysing", !.of = clip.of])
  /\ UNCHANGED cache

(* ... and the analysis is kept under the key that was looked up. *)
Keep ==
  /\ Speaks("analysing", [speech EXCEPT !.pc = "speaking", !.key = NoKey])
  /\ cache' = cache \cup {Entry(speech.key, speech.of)}

Spoken ==
  /\ speech.pc \in {"speaking", "refused", "failed"}
  /\ speech' = Silence /\ UNCHANGED <<disk, cache, call, history>>

(* Other voices push this one's analysis out, or a load or an unload, which *)
(* waits for the synthesis, starts a new cache.                            *)
Evict ==
  /\ cache # {} /\ speech.pc = "idle" /\ cache' = {}
  /\ UNCHANGED <<disk, call, speech, history>>

(* The worker dies with every thread it has, and another is started. *)
Crash ==
  /\ "crash" \in Faults
  /\ call' = [w \in Writers |-> IF w \in Writing THEN "over" ELSE call[w]]
  /\ cache' = {} /\ speech' = Silence /\ mixed' = FALSE
  /\ UNCHANGED <<disk, last>>

Next ==
  \/ \E w \in Writers :
       \/ OpenClip(w) \/ FillClip(w) \/ OpenWords(w) \/ FillWords(w) \/ DiskFull(w)
       \/ Forget(w) \/ Describe(w) \/ CannotDescribe(w) \/ Created(w)
       \/ Find(w) \/ NotFound(w) \/ RemoveClip(w) \/ NothingToRemove(w)
       \/ RemoveWords(w) \/ ForgetRemoved(w) \/ Deleted(w)
  \/ Speak \/ Read \/ Look \/ Analyse \/ Keep \/ Spoken \/ Evict \/ Crash

Spec == Init /\ [][Next]_vars

-----------------------------------------------------------------------------

(* Every variable keeps its type, and a voice is never analysed twice over *)
(* on the device: ReferenceCache.get drops a path's old entry before it    *)
(* makes the new one.                                                      *)
TypeOK ==
  /\ clip \in [of : Creates \cup {Cut, Gone}, at : Times]
  /\ words \in Creates \cup {Cut, Gone} /\ label \in Named \cup {NoOne}
  /\ cache \subseteq [key : [at : Times, empty : BOOLEAN], of : Creates]
  /\ Cardinality(cache) <= 1
  /\ call \in [Writers -> {"waiting", "over", "opened", "filled", "worded", "stored", "kept", "described",
                           "found", "removing", "removed", "forgotten"}]
  /\ speech \in [pc : {"idle", "clipped", "read", "looked", "analysing", "speaking", "refused", "failed"},
                 words : Creates \cup {NoOne}, key : [at : Times, empty : BOOLEAN],
                 of : Creates \cup {NoOne}, calm : BOOLEAN]
  /\ last \in Creates \cup {Gone, Unknown} /\ mixed \in BOOLEAN

(* Whatever crashes, full disks and overlapping calls came before: once a  *)
(* create or a delete that met no other is answered, the clip, the words   *)
(* and the label listed are its recording's, or nothing of the voice is    *)
(* left.  (store and remove of voices.py, _remember_label of worker.py)    *)
StoredWhole ==
  /\ last \in Creates => /\ clip.of = last /\ words = last
                         /\ label = IF last \in Named THEN last ELSE NoOne
  /\ last = Gone => clip.of = Gone /\ words = Gone /\ label = NoOne

(* A synthesis no create or delete runs beside speaks with the analysis    *)
(* and the words of the recording that was stored last, though that one    *)
(* has the size and the time of the clip it replaced, and although the     *)
(* create it was asked before may itself have run beside another           *)
(* synthesis; it is refused only once the voice is gone, and never fails.  *)
SpeaksTheLast ==
  speech.calm /\ last # Unknown =>
    CASE speech.pc = "speaking" -> speech.of = last /\ speech.words = last
      [] speech.pc = "refused"  -> last = Gone
      [] speech.pc = "failed"   -> FALSE
      [] OTHER -> TRUE

(* A voice is only ever spoken with the words of its own clip: "A voice is *)
(* both halves and neither is any use alone" (voices.py 3-4).              *)
SpeaksItsWords == speech.pc = "speaking" => speech.of = speech.words
=============================================================================
