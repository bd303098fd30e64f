-------------------------- MODULE VoiceStoreProofs --------------------------
(***************************************************************************)
(* The voice store's safety, for every number of recordings and deletions, *)
(* whichever of them name the voice, and every set of faults.              *)
(***************************************************************************)
EXTENDS VoiceStore, FiniteSetTheorems, TLAPS

-----------------------------------------------------------------------------
(* The inductive invariant.                                                *)

(* Which steps belong to a create, and which to a delete. *)
CallKnown ==
  \A w \in Writers :
    /\ call[w] \in {"opened", "filled", "worded", "stored", "kept", "described"} => w \in Creates
    /\ call[w] \in {"found", "removing", "removed", "forgotten"} => w \in Deletes

(* The one analysis: while another is made, there is none. *)
OneAnalysis ==
  /\ \A e, f \in cache : e = f
  /\ speech.pc \in {"looked", "analysing"} => cache = {}
  /\ speech.pc = "analysing" => speech.of \in Creates

(* Where writers did not overlap, there is one at most, and while there is *)
(* any nobody can say what the voice will be.                              *)
Alone ==
  /\ ~mixed => \A v, w \in Writing : v = w
  /\ Writing # {} => last = Unknown

(* What a writer that is alone has left by each of its steps. *)
WrittenSoFar ==
  ~mixed => \A w \in Writers :
    /\ call[w] \in {"filled", "worded", "stored", "kept", "described"} => clip.of = w
    /\ call[w] \in {"stored", "kept", "described"} => words = w
    /\ call[w] \in {"removing", "removed", "forgotten"} => clip.of = Gone
    /\ call[w] \in {"removed", "forgotten"} => words = Gone

(* An analysis under way is of the clip that its key is the key of: a clip *)
(* written meanwhile has another time.                                     *)
AnalysesItsKey ==
  speech.pc = "analysing" /\ clip.of \in Creates /\ speech.key = Key(clip) => speech.of = clip.of

(* From a create's forget to the next writer, what is kept under the key   *)
(* of the clip is of the clip.                                             *)
Settled ==
  \/ Writing = {} /\ last \in Creates
  \/ ~mixed /\ \E w \in Writers : call[w] \in {"kept", "described"}

KeptIsTheClip == Settled => \A e \in cache : e.key = Key(clip) => e.of = clip.of

(* What a synthesis that no writer runs beside has read so far. *)
CalmReads ==
  /\ speech.calm => Writing = {}
  /\ speech.calm /\ last = Gone => speech.pc \in {"idle", "refused"}
  /\ speech.calm /\ last \in Creates =>
       /\ speech.pc \notin {"refused", "failed"}
       /\ speech.pc \in {"read", "looked", "analysing", "speaking"} => speech.words = last
       /\ speech.pc \in {"analysing", "speaking"} => speech.of = last

IInv ==
  /\ TypeOK /\ CallKnown /\ OneAnalysis
  /\ Alone /\ WrittenSoFar /\ StoredWhole
  /\ AnalysesItsKey /\ KeptIsTheClip /\ CalmReads

-----------------------------------------------------------------------------
(* Writers and the clock.                                                  *)

(* A set of which all elements are equal has one at most. *)
LEMMA AtMostOne ==
  ASSUME NEW S, \A e, f \in S : e = f
  PROVE  IsFiniteSet(S) /\ Cardinality(S) \in {0, 1}
  <1>1. CASE S = {}
    BY <1>1, FS_EmptySet
  <1>2. CASE S # {}
    <2>1. PICK e : S = {e}
      BY <1>2
    <2> QED
      BY <2>1, FS_Singleton
  <1> QED
    BY <1>1, <1>2

(* The time of a write is none of those still kept, or that of the last    *)
(* write on a coarse clock.                                                *)
LEMMA StampFresh ==
  ASSUME TypeOK, OneAnalysis, NEW t \in Stamps
  PROVE  /\ t \in Times
         /\ speech.pc \in {"looked", "analysing"} => t # speech.key.at
  <1> DEFINE kept == {clip.at, speech.key.at} \cup {e.key.at : e \in cache}
             later == CHOOSE x \in Times : x \notin kept
  <1>1. \E x \in Times : x \notin kept
    <2>1. CASE cache = {}
      <3>1. kept = {clip.at, speech.key.at}
        BY <2>1
      <3> QED
        BY <3>1 DEF Times
    <2>2. CASE cache # {}
      <3>1. PICK e : cache = {e}
        BY <2>2 DEF OneAnalysis
      <3>2. kept = {clip.at, speech.key.at, e.key.at}
        BY <3>1
      <3> QED
        BY <3>2 DEF Times
    <2> QED
      BY <2>1, <2>2
  <1>2. later \in Times /\ later \notin kept
    BY <1>1
  <1>3. t = later \/ (t = clip.at /\ speech.pc \notin {"looked", "analysing"})
    BY DEF Stamps
  <1>4. clip.at \in Times
    BY DEF TypeOK
  <1>5. speech.key.at \in kept
    OBVIOUS
  <1> HIDE DEF kept, later
  <1> QED
    BY <1>2, <1>3, <1>4, <1>5

-----------------------------------------------------------------------------
(* The steps.                                                              *)

WriterStep(w) ==
  \/ OpenClip(w) \/ FillClip(w) \/ OpenWords(w) \/ FillWords(w) \/ DiskFull(w)
  \/ Forget(w) \/ Describe(w) \/ CannotDescribe(w) \/ Created(w)
  \/ Find(w) \/ NotFound(w) \/ RemoveClip(w) \/ NothingToRemove(w)
  \/ RemoveWords(w) \/ ForgetRemoved(w) \/ Deleted(w)

SynthesisStep == Speak \/ Read \/ Look \/ Analyse \/ Keep \/ Spoken \/ Evict

LEMMA Steps ==
  ASSUME Next
  PROVE  (\E w \in Writers : WriterStep(w)) \/ SynthesisStep \/ Crash
  BY DEF Next, WriterStep, SynthesisStep

-----------------------------------------------------------------------------
(* Types.                                                                  *)

LEMMA InitTyped == Init => TypeOK /\ CallKnown /\ OneAnalysis
  <1> SUFFICES ASSUME Init PROVE TypeOK /\ CallKnown /\ OneAnalysis
    OBVIOUS
  <1>1. OneAnalysis /\ CallKnown
    BY DEF Init, OneAnalysis, CallKnown, Silence
  <1>2. Cardinality(cache) \in {0, 1}
    BY <1>1, AtMostOne DEF OneAnalysis
  <1>3. Silence \in [pc : {"idle", "clipped", "read", "looked", "analysing", "speaking", "refused", "failed"},
                     words : Creates \cup {NoOne}, key : [at : Times, empty : BOOLEAN],
                     of : Creates \cup {NoOne}, calm : BOOLEAN]
    BY DEF Silence, NoKey, Times
  <1>4. clip \in [of : Creates \cup {Cut, Gone}, at : Times]
    BY DEF Init, File, Times
  <1>5. Cardinality(cache) <= 1
    BY <1>2
  <1>6. cache \subseteq [key : [at : Times, empty : BOOLEAN], of : Creates]
    BY DEF Init
  <1>7. speech = Silence /\ mixed \in BOOLEAN /\ last = Gone /\ words = Gone /\ label = NoOne
    BY DEF Init
  <1>8. call \in [Writers -> {"waiting", "over", "opened", "filled", "worded", "stored", "kept", "described",
                              "found", "removing", "removed", "forgotten"}]
    BY DEF Init
  <1> QED
    BY <1>1, <1>3, <1>4, <1>5, <1>6, <1>7, <1>8 DEF TypeOK

(* A writer's step changes the files and itself; a synthesis is only told  *)
(* that it is no longer alone.                                             *)
LEMMA WriterTyped ==
  ASSUME TypeOK, CallKnown, OneAnalysis, NEW w \in Writers,
         WriterStep(w)
  PROVE  TypeOK' /\ CallKnown' /\ OneAnalysis'
  <1> USE VoiceAssumption DEF WriterStep
  <1> DEFINE Kept == cache' = cache \/ cache' = {}
             Told == speech' = speech \/ speech' = [speech EXCEPT !.calm = FALSE]
  <1>1. Kept /\ Told
    BY DEF OpenClip, FillClip, OpenWords, FillWords, DiskFull, Forget, Describe, CannotDescribe, Created,
           Find, NotFound, RemoveClip, NothingToRemove, RemoveWords, ForgetRemoved, Deleted,
           Begins, Goes, Ends, Fails, Forgotten
  <1>2. /\ speech' \in [pc : {"idle", "clipped", "read", "looked", "analysing", "speaking", "refused", "failed"},
                 words : Creates \cup {NoOne}, key : [at : Times, empty : BOOLEAN],
                 of : Creates \cup {NoOne}, calm : BOOLEAN]
        /\ speech'.pc = speech.pc /\ speech'.of = speech.of
    BY <1>1 DEF TypeOK
  <1>3. OneAnalysis'
    BY <1>1, <1>2 DEF OneAnalysis
  <1>4. Cardinality(cache') \in {0, 1}
    BY <1>3, AtMostOne DEF OneAnalysis
  <1>5. cache' \subseteq [key : [at : Times, empty : BOOLEAN], of : Creates]
    BY <1>1 DEF TypeOK
  <1>6. /\ call' \in [Writers -> {"waiting", "over", "opened", "filled", "worded", "stored", "kept", "described",
                           "found", "removing", "removed", "forgotten"}]
        /\ CallKnown'
    <2>1. \A v \in Writers : v # w => call'[v] = call[v]
      BY DEF OpenClip, FillClip, OpenWords, FillWords, DiskFull, Forget, Describe, CannotDescribe, Created,
           Find, NotFound, RemoveClip, NothingToRemove, RemoveWords, ForgetRemoved, Deleted,
           Begins, Goes, Ends, Fails, TypeOK
    <2>2. CASE OpenClip(w) \/ FillClip(w) \/ OpenWords(w) \/ FillWords(w) \/ DiskFull(w) \/ Forget(w)
      BY <2>2 DEF OpenClip, FillClip, OpenWords, FillWords, DiskFull, Forget, Begins, Goes, Ends, Fails,
                  TypeOK, CallKnown
    <2>3. CASE Describe(w) \/ CannotDescribe(w) \/ Created(w) \/ Find(w) \/ NotFound(w)
      BY <2>3 DEF Describe, CannotDescribe, Created, Find, NotFound, Begins, Goes, Ends, Fails,
                  TypeOK, CallKnown
    <2>4. CASE RemoveClip(w) \/ NothingToRemove(w) \/ RemoveWords(w) \/ ForgetRemoved(w) \/ Deleted(w)
      BY <2>4 DEF RemoveClip, NothingToRemove, RemoveWords, ForgetRemoved, Deleted, Goes, Ends, Fails,
                  TypeOK, CallKnown
    <2> QED
      BY <2>2, <2>3, <2>4
  <1>7. clip' \in [of : Creates \cup {Cut, Gone}, at : Times]
    <2>1. CASE OpenClip(w)
      BY <2>1, StampFresh DEF OpenClip, File
    <2>2. CASE FillClip(w)
      BY <2>2, StampFresh DEF FillClip, File
    <2>3. CASE RemoveClip(w)
      BY <2>3 DEF RemoveClip, File, TypeOK
    <2>4. CASE clip' = clip
      BY <2>4 DEF TypeOK
    <2> QED
      BY <2>1, <2>2, <2>3, <2>4
      DEF OpenWords, FillWords, DiskFull, Forget, Describe, CannotDescribe, Created,
          Find, NotFound, NothingToRemove, RemoveWords, ForgetRemoved, Deleted, Fails, disk
  <1>8. /\ words' \in Creates \cup {Cut, Gone}
        /\ label' \in Named \cup {NoOne}
    BY DEF OpenClip, FillClip, OpenWords, FillWords, DiskFull, Forget, Describe, CannotDescribe, Created,
           Find, NotFound, RemoveClip, NothingToRemove, RemoveWords, ForgetRemoved, Deleted,
           Goes, Ends, Fails, WordsRemoved, Relabelled, disk, TypeOK, CallKnown
  <1>9. last' \in Creates \cup {Gone, Unknown} /\ mixed' \in BOOLEAN
    BY DEF OpenClip, FillClip, OpenWords, FillWords, DiskFull, Forget, Describe, CannotDescribe, Created,
           Find, NotFound, RemoveClip, NothingToRemove, RemoveWords, ForgetRemoved, Deleted,
           Begins, Goes, Ends, Fails, history, TypeOK
  <1> QED
    BY <1>2, <1>3, <1>4, <1>5, <1>6, <1>7, <1>8, <1>9 DEF TypeOK

(* A synthesis touches no file and no writer. *)
LEMMA SynthesisTyped ==
  ASSUME TypeOK, CallKnown, OneAnalysis, SynthesisStep \/ Crash
  PROVE  TypeOK' /\ CallKnown' /\ OneAnalysis'
  <1> USE DEF SynthesisStep
  <1> DEFINE Pcs == {"idle", "clipped", "read", "looked", "analysing", "speaking", "refused", "failed"}
             Keys == [at : Times, empty : BOOLEAN]
             Speech == [pc : Pcs, words : Creates \cup {NoOne}, key : Keys,
                        of : Creates \cup {NoOne}, calm : BOOLEAN]
  <1>1. speech \in Speech /\ cache \subseteq [key : Keys, of : Creates] /\ Key(clip) \in Keys
    BY DEF TypeOK, Key
  <1>2. Silence \in Speech
    BY DEF Silence, NoKey, Times
  <1>3. /\ speech' \in Speech
        /\ cache' \subseteq [key : Keys, of : Creates]
        /\ OneAnalysis'
    <2>1. CASE Speak
      <3>1. PICK pc \in {"clipped", "refused"}, calm \in BOOLEAN :
              speech' = [Silence EXCEPT !.pc = pc, !.calm = calm]
        BY <2>1 DEF Speak, Speaks
      <3>2. speech' \in Speech /\ speech'.pc = pc
        BY <3>1, <1>2
      <3>3. cache' = cache
        BY <2>1 DEF Speak
      <3> QED
        BY <3>2, <3>3, <1>1 DEF OneAnalysis
    <2>2. CASE Read
      BY <2>2, <1>1 DEF Read, Speaks, Aborts, OneAnalysis, TypeOK
    <2>3. CASE Look
      BY <2>3, <1>1 DEF Look, Speaks, Aborts, OneAnalysis, Fresh
    <2>4. CASE Analyse
      BY <2>4, <1>1 DEF Analyse, Speaks, Aborts, OneAnalysis, TypeOK
    <2>5. CASE Keep
      <3>1. cache' = {Entry(speech.key, speech.of)} /\ speech.of \in Creates
        BY <2>5 DEF Keep, Speaks, OneAnalysis
      <3>2. speech' = [speech EXCEPT !.pc = "speaking", !.key = NoKey] /\ NoKey \in Keys
        BY <2>5 DEF Keep, Speaks, NoKey, Times
      <3>3. speech' \in Speech /\ speech'.pc = "speaking"
        BY <3>2, <1>1
      <3>4. Entry(speech.key, speech.of) \in [key : Keys, of : Creates]
        BY <3>1, <1>1 DEF Entry
      <3> QED
        BY <3>1, <3>3, <3>4 DEF OneAnalysis
    <2>6. CASE Spoken
      BY <2>6, <1>1, <1>2 DEF Spoken, OneAnalysis, Silence
    <2>7. CASE Evict
      BY <2>7, <1>1 DEF Evict, OneAnalysis
    <2>8. CASE Crash
      BY <2>8, <1>2 DEF Crash, OneAnalysis, Silence
    <2> QED
      BY <2>1, <2>2, <2>3, <2>4, <2>5, <2>6, <2>7, <2>8
  <1>4. Cardinality(cache') \in {0, 1}
    BY <1>3, AtMostOne DEF OneAnalysis
  <1>5. CASE ~Crash
    <2>1. /\ clip' = clip /\ words' = words /\ label' = label
          /\ call' = call /\ last' = last /\ mixed' = mixed
      BY <1>5 DEF Speak, Read, Look, Analyse, Keep, Spoken, Evict, Speaks, disk, history
    <2>2. CallKnown'
      BY <2>1 DEF CallKnown
    <2> QED
      BY <2>1, <2>2, <1>3, <1>4 DEF TypeOK
  <1>6. CASE Crash
    <2>1. /\ clip' = clip /\ words' = words /\ label' = label
          /\ last' = last /\ mixed' = FALSE
      BY <1>6 DEF Crash, disk
    <2>2. call' = [w \in Writers |-> IF w \in Writing THEN "over" ELSE call[w]]
      BY <1>6 DEF Crash
    <2>3. CallKnown'
      BY <2>2 DEF CallKnown
    <2>4. call' \in [Writers -> {"waiting", "over", "opened", "filled", "worded", "stored", "kept", "described",
                                 "found", "removing", "removed", "forgotten"}]
      BY <2>2 DEF TypeOK
    <2>5. Cardinality(cache') <= 1
      BY <1>4
    <2>6. mixed' \in BOOLEAN
      BY <2>1
    <2> QED
      BY <2>1, <2>3, <2>4, <2>5, <2>6, <1>3 DEF TypeOK
  <1> QED
    BY <1>5, <1>6

-----------------------------------------------------------------------------
(* One writer at a time.                                                   *)

Busy == {"opened", "filled", "worded", "stored", "kept", "described",
         "found", "removing", "removed", "forgotten"}

(* A writer begins, goes on, ends, or finds no voice to delete. *)
LEMMA WriterKinds ==
  ASSUME NEW w \in Writers, WriterStep(w)
  PROVE  \/ \E to \in {"opened", "found"} : Begins(w, to)
         \/ \E from \in Busy, to \in Busy : Goes(w, from, to)
         \/ \E from \in Busy, outcome \in {w, Gone, Unknown} : Ends(w, from, outcome)
         \/ NotFound(w)
  <1>1. CASE OpenClip(w) \/ Find(w)
    BY <1>1 DEF OpenClip, Find
  <1>2. CASE \/ FillClip(w) \/ OpenWords(w) \/ FillWords(w) \/ Forget(w) \/ Describe(w)
             \/ RemoveClip(w) \/ RemoveWords(w) \/ ForgetRemoved(w)
    BY <1>2 DEF FillClip, OpenWords, FillWords, Forget, Describe, RemoveClip, RemoveWords, ForgetRemoved, Busy
  <1>3. CASE DiskFull(w) \/ CannotDescribe(w) \/ NothingToRemove(w)
    BY <1>3 DEF DiskFull, CannotDescribe, NothingToRemove, Fails, Busy
  <1>4. CASE Created(w) \/ Deleted(w)
    BY <1>4 DEF Created, Deleted, Busy
  <1> QED
    BY <1>1, <1>2, <1>3, <1>4 DEF WriterStep

(* Where writers do not overlap, whoever has taken a step is the only one, *)
(* unless the step was to look for a voice in vain.                        *)
LEMMA WriterAlone ==
  ASSUME TypeOK, Alone, NEW w \in Writers, WriterStep(w)
  PROVE  /\ Alone'
         /\ NotFound(w) \/ (~mixed' => Writing' \subseteq {w})
         /\ w \in Writing /\ ~mixed' /\ Writing' # {} => ~mixed
  <1>1. ASSUME NEW to \in {"opened", "found"}, Begins(w, to)
        PROVE  Writing' = Writing \cup {w} /\ last' = Unknown /\ mixed' = (Writing # {})
    BY <1>1 DEF Begins, Writing, TypeOK
  <1>2. ASSUME NEW from \in Busy, NEW to \in Busy, Goes(w, from, to)
        PROVE  Writing' = Writing /\ w \in Writing /\ last' = last /\ mixed' = mixed
    BY <1>2 DEF Goes, Writing, TypeOK, Busy, history
  <1>3. ASSUME NEW from \in Busy, NEW outcome \in {w, Gone, Unknown}, Ends(w, from, outcome)
        PROVE  /\ w \in Writing /\ Writing' = Writing \ {w}
               /\ last' = IF Writing = {w} /\ ~mixed THEN outcome ELSE Unknown
               /\ mixed' = (mixed /\ Writing # {w})
    BY <1>3 DEF Ends, Writing, TypeOK, Busy
  <1>4. ASSUME NotFound(w)
        PROVE  Writing' = Writing /\ w \notin Writing /\ last' = last /\ mixed' = mixed
    BY <1>4 DEF NotFound, Writing, TypeOK, history
  <1>5. CASE \E to \in {"opened", "found"} : Begins(w, to)
    BY <1>1, <1>5 DEF Alone
  <1>6. CASE \E from \in Busy, to \in Busy : Goes(w, from, to)
    BY <1>2, <1>6 DEF Alone
  <1>7. CASE \E from \in Busy, outcome \in {w, Gone, Unknown} : Ends(w, from, outcome)
    BY <1>3, <1>7 DEF Alone
  <1>8. CASE NotFound(w)
    BY <1>4, <1>8 DEF Alone
  <1> QED
    BY WriterKinds, <1>5, <1>6, <1>7, <1>8

LEMMA WriterWrites ==
  ASSUME TypeOK, CallKnown, Alone, WrittenSoFar, NEW w \in Writers, WriterStep(w)
  PROVE  WrittenSoFar'
  <1>1. CASE NotFound(w)
    BY <1>1 DEF NotFound, WrittenSoFar, TypeOK, disk, history
  <1>2. CASE ~NotFound(w)
    <2> SUFFICES ASSUME ~mixed', NEW v \in Writers, call'[v] \in Busy
                 PROVE  /\ call'[v] \in {"filled", "worded", "stored", "kept", "described"} => clip'.of = v
                        /\ call'[v] \in {"stored", "kept", "described"} => words' = v
                        /\ call'[v] \in {"removing", "removed", "forgotten"} => clip'.of = Gone
                        /\ call'[v] \in {"removed", "forgotten"} => words' = Gone
      BY DEF WrittenSoFar, Busy
    <2>1. v \in Writing'
      BY DEF Writing, Busy
    <2>2. v = w
      BY <1>2, <2>1, WriterAlone
    <2>3. call[w] \in Busy => ~mixed
      <3>1. call[w] \in Busy => w \in Writing
        BY DEF Writing, Busy
      <3> QED
        BY <2>1, <3>1, WriterAlone
    <2>4. CASE OpenClip(w) \/ Find(w)
      BY <2>2, <2>4 DEF OpenClip, Find, Begins, TypeOK
    <2>5. CASE FillClip(w) \/ RemoveClip(w)
      BY <2>2, <2>5 DEF FillClip, RemoveClip, Goes, File, TypeOK
    <2>6. CASE OpenWords(w) \/ FillWords(w) \/ Forget(w) \/ Describe(w)
      BY <2>2, <2>3, <2>6 DEF OpenWords, FillWords, Forget, Describe, Goes, WrittenSoFar, TypeOK, Busy, disk
    <2>7. CASE RemoveWords(w) \/ ForgetRemoved(w)
      BY <2>2, <2>3, <2>7 DEF RemoveWords, ForgetRemoved, WordsRemoved, Goes, WrittenSoFar, TypeOK, Busy, disk
    <2>8. CASE DiskFull(w) \/ CannotDescribe(w) \/ NothingToRemove(w) \/ Created(w) \/ Deleted(w)
      <3>1. call'[w] = "over"
        BY <2>8 DEF DiskFull, CannotDescribe, NothingToRemove, Created, Deleted, Fails, Ends, TypeOK
      <3> QED
        BY <2>2, <3>1 DEF Busy
    <2> QED
      BY <1>2, <2>4, <2>5, <2>6, <2>7, <2>8 DEF WriterStep
  <1> QED
    BY <1>1, <1>2

(* Only a writer that met no other says what the voice is, and by then it  *)
(* has written, or removed, all of it.                                     *)
LEMMA WriterStores ==
  ASSUME TypeOK, CallKnown, Alone, WrittenSoFar, StoredWhole, NEW w \in Writers, WriterStep(w)
  PROVE  StoredWhole'
  <1> USE VoiceAssumption
  <1>1. CASE NotFound(w)
    BY <1>1 DEF NotFound, StoredWhole, disk, history
  <1>2. CASE OpenClip(w) \/ Find(w)
    BY <1>2 DEF OpenClip, Find, Begins, StoredWhole, Unknown, Gone
  <1>3. CASE \/ FillClip(w) \/ OpenWords(w) \/ FillWords(w) \/ Forget(w) \/ Describe(w)
             \/ RemoveClip(w) \/ RemoveWords(w) \/ ForgetRemoved(w)
    <2>1. last' = last /\ w \in Writing
      BY <1>3 DEF FillClip, OpenWords, FillWords, Forget, Describe, RemoveClip, RemoveWords, ForgetRemoved,
                  Goes, Writing, history
    <2> QED
      BY <2>1 DEF Alone, StoredWhole, Unknown, Gone
  <1>4. CASE DiskFull(w) \/ CannotDescribe(w) \/ NothingToRemove(w)
    BY <1>4 DEF DiskFull, CannotDescribe, NothingToRemove, Fails, Ends, StoredWhole, Unknown, Gone
  <1>5. CASE Created(w)
    <2>1. CASE Writing = {w} /\ ~mixed
      <3>1. clip'.of = w /\ words' = w /\ label' = Relabelled(w) /\ last' = w
        BY <1>5, <2>1 DEF Created, Ends, WrittenSoFar
      <3>2. w \in Creates
        BY <1>5 DEF Created
      <3> QED
        BY <3>1, <3>2 DEF StoredWhole, Relabelled
    <2>2. CASE ~(Writing = {w} /\ ~mixed)
      BY <1>5, <2>2 DEF Created, Ends, StoredWhole, Unknown, Gone
    <2> QED
      BY <2>1, <2>2
  <1>6. CASE Deleted(w)
    <2>1. CASE Writing = {w} /\ ~mixed
      <3>1. clip'.of = Gone /\ words' = Gone /\ label' = NoOne /\ last' = Gone
        BY <1>6, <2>1 DEF Deleted, Ends, WrittenSoFar
      <3> QED
        BY <3>1 DEF StoredWhole
    <2>2. CASE ~(Writing = {w} /\ ~mixed)
      BY <1>6, <2>2 DEF Deleted, Ends, StoredWhole, Unknown, Gone
    <2> QED
      BY <2>1, <2>2
  <1> QED
    BY <1>1, <1>2, <1>3, <1>4, <1>5, <1>6 DEF WriterStep

-----------------------------------------------------------------------------
(* Analyses and what is spoken from them.                                  *)

LEMMA WriterAnalyses ==
  ASSUME TypeOK, OneAnalysis, AnalysesItsKey, NEW w \in Writers, WriterStep(w)
  PROVE  AnalysesItsKey'
  <1> USE VoiceAssumption
  <1>1. speech'.pc = speech.pc /\ speech'.key = speech.key /\ speech'.of = speech.of
    BY DEF WriterStep, OpenClip, FillClip, OpenWords, FillWords, DiskFull, Forget, Describe, CannotDescribe,
           Created, Find, NotFound, RemoveClip, NothingToRemove, RemoveWords, ForgetRemoved, Deleted,
           Begins, Goes, Ends, Fails, TypeOK
  <1>2. CASE OpenClip(w) \/ RemoveClip(w)
    <2>1. clip'.of \in {Cut, Gone}
      BY <1>2 DEF OpenClip, RemoveClip, File
    <2> QED
      BY <2>1 DEF AnalysesItsKey
  <1>3. CASE FillClip(w)
    <2>1. PICK t \in Stamps : clip' = File(w, t)
      BY <1>3 DEF FillClip
    <2>2. speech.pc = "analysing" => t # speech.key.at
      BY StampFresh
    <2>3. Key(clip').at = t
      BY <2>1 DEF Key, File
    <2> QED
      BY <1>1, <2>2, <2>3 DEF AnalysesItsKey
  <1>4. CASE clip' = clip
    BY <1>1, <1>4 DEF AnalysesItsKey, Key
  <1> QED
    BY <1>2, <1>3, <1>4
    DEF WriterStep, OpenWords, FillWords, DiskFull, Forget, Describe, CannotDescribe, Created,
        Find, NotFound, NothingToRemove, RemoveWords, ForgetRemoved, Deleted, Fails, disk

(* A create forgets before it is over, and after it has written. *)
LEMMA WriterForgets ==
  ASSUME TypeOK, Alone, KeptIsTheClip, NEW w \in Writers, WriterStep(w)
  PROVE  KeptIsTheClip'
  <1> USE VoiceAssumption
  <1>1. CASE NotFound(w)
    <2>1. Writing' = Writing /\ \A v \in Writers : call'[v] \in {"kept", "described"} => call'[v] = call[v]
      BY <1>1 DEF NotFound, Writing, TypeOK
    <2>2. Settled' => Settled
      BY <1>1, <2>1 DEF NotFound, Settled, history
    <2> QED
      BY <1>1, <2>2 DEF NotFound, KeptIsTheClip, Key, disk
  <1>2. CASE Forget(w) \/ ForgetRemoved(w)
    BY <1>2 DEF Forget, ForgetRemoved, Forgotten, KeptIsTheClip
  <1>3. CASE Describe(w)
    <2>1. Settled' => Settled
      <3>1. mixed' = mixed /\ last' = last /\ call[w] = "kept" /\ w \in Writing'
        BY <1>3 DEF Describe, Goes, Writing, TypeOK, history
      <3> QED
        BY <3>1 DEF Settled
    <2> QED
      BY <1>3, <2>1 DEF Describe, KeptIsTheClip, Key, disk
  <1>4. CASE Created(w)
    <2>1. last' \in Creates => ~mixed /\ call[w] = "described"
      BY <1>4 DEF Created, Ends, Unknown
    <2>2. ~mixed' => \A v \in Writers : call'[v] \notin {"kept", "described"}
      <3>1. ~mixed' => Writing' \subseteq {w}
        BY <1>4, WriterAlone DEF Created, Ends, NotFound
      <3>2. call'[w] = "over"
        BY <1>4 DEF Created, Ends, TypeOK
      <3> QED
        BY <3>1, <3>2 DEF Writing
    <2>3. Settled' => Settled
      BY <2>1, <2>2 DEF Settled
    <2> QED
      BY <1>4, <2>3 DEF Created, KeptIsTheClip, Key
  <1>5. CASE \/ OpenClip(w) \/ FillClip(w) \/ OpenWords(w) \/ FillWords(w)
             \/ Find(w) \/ RemoveClip(w) \/ RemoveWords(w)
    <2>1. /\ w \in Writing' /\ call'[w] \notin {"kept", "described"}
          /\ ~NotFound(w)
      BY <1>5 DEF OpenClip, FillClip, OpenWords, FillWords, Find, RemoveClip, RemoveWords,
                  Begins, Goes, Writing, TypeOK, NotFound
    <2>2. ~mixed' => \A v \in Writers : call'[v] \in {"kept", "described"} => v = w
      BY <2>1, WriterAlone DEF Writing
    <2> QED
      BY <2>1, <2>2 DEF KeptIsTheClip, Settled
  <1>6. CASE DiskFull(w) \/ CannotDescribe(w) \/ NothingToRemove(w) \/ Deleted(w)
    <2>1. call'[w] = "over" /\ last' \notin Creates /\ ~NotFound(w)
      BY <1>6 DEF DiskFull, CannotDescribe, NothingToRemove, Deleted, Fails, Ends, TypeOK, NotFound
    <2>2. ~mixed' => \A v \in Writers : call'[v] \in {"kept", "described"} => v = w
      BY <2>1, WriterAlone DEF Writing
    <2> QED
      BY <2>1, <2>2 DEF KeptIsTheClip, Settled
  <1> QED
    BY <1>1, <1>2, <1>3, <1>4, <1>5, <1>6 DEF WriterStep

(* A writer's step is no business of a synthesis that was alone: there is none. *)
LEMMA WriterDisturbs ==
  ASSUME TypeOK, CalmReads, NEW w \in Writers, WriterStep(w)
  PROVE  CalmReads'
  <1>1. CASE NotFound(w)
    <2>1. Writing' = Writing
      BY <1>1 DEF NotFound, Writing, TypeOK
    <2> QED
      BY <1>1, <2>1 DEF NotFound, CalmReads, history
  <1>2. CASE ~NotFound(w)
    <2>1. ASSUME NEW to \in {"opened", "found"}, Begins(w, to)
          PROVE  ~speech'.calm
      BY <2>1 DEF Begins, TypeOK
    <2>2. ASSUME call[w] \in Busy, speech' = speech
          PROVE  ~speech'.calm
      BY <2>2 DEF CalmReads, Writing, Busy
    <2>3. ~speech'.calm
      BY <1>2, <2>1, <2>2, WriterKinds DEF Goes, Ends
    <2> QED
      BY <2>3 DEF CalmReads
  <1> QED
    BY <1>1, <1>2

(* While a writer is alone in having stored, or nobody writes, the clip is *)
(* a recording.                                                            *)
LEMMA SettledClip ==
  ASSUME CallKnown, WrittenSoFar, StoredWhole, Settled
  PROVE  clip.of \in Creates
  BY DEF CallKnown, WrittenSoFar, StoredWhole, Settled

(* A synthesis leaves the files, the writers and what they decided. *)
LEMMA SynthesisLeaves ==
  ASSUME SynthesisStep
  PROVE  /\ UNCHANGED <<clip, words, label, call, last, mixed>>
         /\ Writing' = Writing /\ Settled' = Settled /\ Key(clip)' = Key(clip)
  <1>1. UNCHANGED <<clip, words, label, call, last, mixed>>
    BY DEF SynthesisStep, Speak, Read, Look, Analyse, Keep, Spoken, Evict, Speaks, disk, history
  <1> QED
    BY <1>1 DEF Writing, Settled, Key

LEMMA SynthesisKeeps ==
  ASSUME TypeOK, CallKnown, OneAnalysis, WrittenSoFar, StoredWhole, AnalysesItsKey, KeptIsTheClip,
         SynthesisStep
  PROVE  AnalysesItsKey' /\ KeptIsTheClip'
  <1>1. /\ clip' = clip /\ Settled' = Settled /\ Key(clip)' = Key(clip)
    BY SynthesisLeaves
  <1>2. CASE Analyse
    <2>1. cache' = cache /\ (speech'.pc = "analysing" => speech'.of = clip.of)
      BY <1>2 DEF Analyse, Speaks, Aborts, TypeOK
    <2> QED
      BY <1>1, <2>1 DEF AnalysesItsKey, KeptIsTheClip
  <1>3. CASE Keep
    <2>1. speech.pc = "analysing" /\ speech'.pc = "speaking" /\ cache' = {Entry(speech.key, speech.of)}
      BY <1>3 DEF Keep, Speaks, OneAnalysis, TypeOK
    <2>2. Settled /\ speech.key = Key(clip) => speech.of = clip.of
      BY <2>1, SettledClip DEF AnalysesItsKey
    <2> QED
      BY <1>1, <2>1, <2>2 DEF AnalysesItsKey, KeptIsTheClip, Entry
  <1>4. CASE Speak \/ Read \/ Look \/ Spoken
    <2>1. speech'.pc # "analysing"
      <3>1. CASE Speak
        <4>1. speech'.pc = IF Known THEN "clipped" ELSE "refused"
          BY <3>1 DEF Speak, Speaks, Silence
        <4> QED
          BY <4>1
      <3>2. CASE Read
        BY <3>2 DEF Read, Speaks, Aborts, TypeOK
      <3>3. CASE Look
        BY <3>3 DEF Look, Speaks, Aborts, TypeOK
      <3>4. CASE Spoken
        BY <3>4 DEF Spoken, Silence
      <3> QED
        BY <1>4, <3>1, <3>2, <3>3, <3>4
    <2>2. cache' = cache \/ cache' = {}
      BY <1>4 DEF Speak, Read, Look, Spoken, Fresh
    <2> QED
      BY <1>1, <2>1, <2>2 DEF AnalysesItsKey, KeptIsTheClip
  <1>5. CASE Evict
    BY <1>1, <1>5 DEF Evict, AnalysesItsKey, KeptIsTheClip
  <1> QED
    BY <1>2, <1>3, <1>4, <1>5 DEF SynthesisStep

LEMMA SynthesisReads ==
  ASSUME TypeOK, StoredWhole, KeptIsTheClip, CalmReads, SynthesisStep
  PROVE  CalmReads'
  <1> USE VoiceAssumption
  <1>1. clip' = clip /\ words' = words /\ last' = last /\ Writing' = Writing
    BY SynthesisLeaves
  <1>2. CASE Speak
    <2>1. /\ speech'.pc = IF Known THEN "clipped" ELSE "refused"
          /\ speech'.calm = (Writing = {})
      BY <1>2 DEF Speak, Speaks, Silence
    <2>2. (last = Gone => ~Known) /\ (last \in Creates => Known)
      BY DEF StoredWhole, Known
    <2> QED
      BY <1>1, <2>1, <2>2 DEF CalmReads
  <1>3. CASE Read
    <2>1. /\ speech.pc = "clipped" /\ speech'.calm = speech.calm
          /\ speech'.pc = IF words \in {Gone, Cut} THEN "failed" ELSE "read"
          /\ words \notin {Gone, Cut} => speech'.words = words
      BY <1>3 DEF Read, Speaks, Aborts, TypeOK
    <2>2. last \in Creates => words = last /\ words \notin {Gone, Cut}
      BY DEF StoredWhole
    <2> QED
      BY <1>1, <2>1, <2>2 DEF CalmReads
  <1>4. CASE Look
    <2>1. /\ speech.pc = "read" /\ speech'.calm = speech.calm /\ speech'.words = speech.words
          /\ \/ clip.of = Gone
             \/ \E e \in cache : e.key = Key(clip) /\ speech'.pc = "speaking" /\ speech'.of = e.of
             \/ speech'.pc = "looked"
      BY <1>4 DEF Look, Speaks, Aborts, TypeOK
    <2>2. ASSUME speech.calm, last \in Creates
          PROVE  clip.of = last /\ clip.of # Gone /\ \A e \in cache : e.key = Key(clip) => e.of = last
      BY <2>2 DEF CalmReads, StoredWhole, KeptIsTheClip, Settled
    <2> QED
      BY <1>1, <2>1, <2>2 DEF CalmReads
  <1>5. CASE Analyse
    <2>1. /\ speech.pc = "looked" /\ speech'.calm = speech.calm /\ speech'.words = speech.words
          /\ clip.of \in {Gone, Cut} \/ (speech'.pc = "analysing" /\ speech'.of = clip.of)
      BY <1>5 DEF Analyse, Speaks, Aborts, TypeOK
    <2>2. last \in Creates => clip.of = last /\ clip.of \notin {Gone, Cut}
      BY DEF StoredWhole
    <2> QED
      BY <1>1, <2>1, <2>2 DEF CalmReads
  <1>6. CASE Keep
    <2>1. /\ speech.pc = "analysing" /\ speech'.pc = "speaking" /\ speech'.calm = speech.calm
          /\ speech'.words = speech.words /\ speech'.of = speech.of
      BY <1>6 DEF Keep, Speaks, TypeOK
    <2> QED
      BY <1>1, <2>1 DEF CalmReads
  <1>7. CASE Spoken
    <2>1. ~speech'.calm
      BY <1>7 DEF Spoken, Silence
    <2> QED
      BY <2>1 DEF CalmReads
  <1>8. CASE Evict
    BY <1>1, <1>8 DEF Evict, CalmReads
  <1> QED
    BY <1>2, <1>3, <1>4, <1>5, <1>6, <1>7, <1>8 DEF SynthesisStep

(* A death ends every writer and every synthesis, and decides nothing. *)
LEMMA CrashKeeps ==
  ASSUME TypeOK, CallKnown, Alone, StoredWhole, Crash
  PROVE  /\ Alone' /\ WrittenSoFar' /\ StoredWhole'
         /\ AnalysesItsKey' /\ KeptIsTheClip' /\ CalmReads'
  <1>1. \A w \in Writers : call'[w] \in {"waiting", "over"}
    BY DEF Crash, Writing
  <1>2. Writing' = {}
    BY <1>1 DEF Writing
  <1>3. speech'.pc = "idle" /\ ~speech'.calm /\ cache' = {} /\ UNCHANGED <<clip, words, label, last>>
    BY DEF Crash, Silence, disk
  <1>4. Alone' /\ StoredWhole'
    BY <1>2, <1>3 DEF Alone, StoredWhole
  <1>5. WrittenSoFar'
    BY <1>1 DEF WrittenSoFar
  <1>6. AnalysesItsKey' /\ KeptIsTheClip' /\ CalmReads'
    BY <1>3 DEF AnalysesItsKey, KeptIsTheClip, CalmReads
  <1> QED
    BY <1>4, <1>5, <1>6

-----------------------------------------------------------------------------
(* The theorems.                                                           *)

LEMMA InitIInv == Init => IInv
  <1> SUFFICES ASSUME Init PROVE IInv
    OBVIOUS
  <1>1. TypeOK /\ CallKnown /\ OneAnalysis
    BY InitTyped
  <1>2. Writing = {} /\ \A w \in Writers : call[w] = "waiting"
    BY DEF Init, Writing
  <1>3. Alone /\ WrittenSoFar
    BY <1>2 DEF Alone, WrittenSoFar
  <1>4. StoredWhole
    BY VoiceAssumption DEF Init, StoredWhole, File
  <1>5. speech.pc = "idle" /\ ~speech.calm /\ cache = {}
    BY DEF Init, Silence
  <1>6. AnalysesItsKey /\ KeptIsTheClip /\ CalmReads
    BY <1>5 DEF AnalysesItsKey, KeptIsTheClip, CalmReads
  <1> QED
    BY <1>1, <1>3, <1>4, <1>6 DEF IInv

LEMMA NextIInv == IInv /\ [Next]_vars => IInv'
  <1> SUFFICES ASSUME IInv, [Next]_vars PROVE IInv'
    OBVIOUS
  <1> USE DEF IInv
  <1>1. ASSUME NEW w \in Writers, WriterStep(w)
        PROVE  IInv'
    BY <1>1, WriterTyped, WriterAlone, WriterWrites, WriterStores, WriterAnalyses, WriterForgets, WriterDisturbs
  <1>2. CASE SynthesisStep
    <2>1. Alone' /\ WrittenSoFar' /\ StoredWhole'
      BY <1>2, SynthesisLeaves DEF Alone, WrittenSoFar, StoredWhole
    <2> QED
      BY <1>2, <2>1, SynthesisTyped, SynthesisKeeps, SynthesisReads
  <1>3. CASE Crash
    BY <1>3, SynthesisTyped, CrashKeeps
  <1>4. CASE UNCHANGED vars
    <2>1. UNCHANGED <<clip, words, label, cache, call, speech, last, mixed>>
      BY <1>4 DEF vars, disk, history
    <2>2. Writing' = Writing /\ Settled' = Settled /\ Key(clip)' = Key(clip)
      BY <2>1 DEF Writing, Settled, Key
    <2>3. TypeOK' /\ CallKnown' /\ OneAnalysis'
      BY <2>1 DEF TypeOK, CallKnown, OneAnalysis
    <2>4. Alone' /\ WrittenSoFar' /\ StoredWhole'
      BY <2>1, <2>2 DEF Alone, WrittenSoFar, StoredWhole
    <2>5. AnalysesItsKey' /\ KeptIsTheClip' /\ CalmReads'
      BY <2>1, <2>2 DEF AnalysesItsKey, KeptIsTheClip, CalmReads
    <2> QED
      BY <2>3, <2>4, <2>5
  <1> QED
    BY <1>1, <1>2, <1>3, <1>4, Steps

(* The invariant that the store's properties follow from. *)
THEOREM VoiceInvariance == Spec => []IInv
  BY InitIInv, NextIInv, PTL DEF Spec

(* Every variable keeps its type, and no clip is analysed twice over, *)
(* whatever the recordings, the deletions and the faults.             *)
THEOREM VoiceTypeCorrect == Spec => []TypeOK
  <1>1. IInv => TypeOK
    BY DEF IInv
  <1> QED
    BY <1>1, VoiceInvariance, PTL

(* A create or a delete that met no other leaves all of its voice, or     *)
(* nothing of it, though any number of others overlapped, failed or died  *)
(* before: store and remove of voices.py with _remember_label.            *)
THEOREM VoiceStoredWhole == Spec => []StoredWhole
  <1>1. IInv => StoredWhole
    BY DEF IInv
  <1> QED
    BY <1>1, VoiceInvariance, PTL

(* A synthesis beside no writer speaks the recording stored last, from an *)
(* analysis and with words that are both of it: ReferenceCache.get and    *)
(* forget, with the keys of a clock that may be coarse.                   *)
THEOREM VoiceSpeaksTheLast == Spec => []SpeaksTheLast
  <1>1. IInv => SpeaksTheLast
    <2> SUFFICES ASSUME IInv, speech.calm, last # Unknown
                 PROVE  /\ speech.pc = "speaking" => speech.of = last /\ speech.words = last
                        /\ speech.pc = "refused" => last = Gone
                        /\ speech.pc # "failed"
      BY DEF SpeaksTheLast
    <2>1. last \in Creates \/ last = Gone
      BY DEF IInv, TypeOK
    <2> QED
      BY <2>1 DEF IInv, CalmReads
  <1> QED
    BY <1>1, VoiceInvariance, PTL

=============================================================================
