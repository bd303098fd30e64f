------------------------------ MODULE ModelWorker ------------------------------
(***************************************************************************)
(* The Python worker of one engine: the model it holds, the lock under     *)
(* which it loads and unloads, the slots it speaks in, and the threads its *)
(* syntheses run on (rhapsode_worker/worker.py, app.py).                   *)
(*                                                                         *)
(* One action is what one task does in a turn of the event loop, or what   *)
(* one engine thread does.  A turn that need not wait goes on, so a request *)
(* that finds its model, a slot and a quiet device speaks in the turn it   *)
(* arrives in.                                                             *)
(***************************************************************************)
EXTENDS Integers, FiniteSets, Sequences

CONSTANTS
  Requests,     \* POST /speak, /load and /unload, one call each
  Kinds,        \* those of this instance
  Variants,     \* the engine's variants
  Default,      \* the one it speaks in when none is asked for or loaded
  None,         \* no variant
  Concurrency,  \* engine.concurrency
  Faults        \* what the engine of this instance gets wrong

ASSUME WorkerAssumption ==
  /\ IsFiniteSet(Requests)
  /\ Kinds \subseteq {"speak", "load", "unload"}
  /\ Default \in Variants /\ None \notin Variants
  /\ Concurrency \in Nat \ {0}
  /\ Faults \subseteq {"load"}

VARIABLES
  request,       \* where each call is
  model,         \* Worker.model
  variant,       \* engine.variant
  transition,    \* Worker._transition: its holder, then those who wait for it
  slots,         \* Worker._slots: how many are free
  slotQueue,     \* those who wait for a slot
  synthesising,  \* Worker._synthesising
  thread,        \* the synthesis thread of each request (external)
  draining,      \* Worker.draining
  exited         \* the process is gone

vars == <<request, model, variant, transition, slots, slotQueue, synthesising, thread,
          draining, exited>>

Request ==
  [pc : {"idle", "locking", "settling", "unloading", "loading", "slotting", "holding",
         "speaking", "served", "failed", "left"},
   kind : Kinds \cup {"none"}, wanted : Variants \cup {None}, todo : Seq({"unload", "load"}),
   retry : BOOLEAN]

Over(r) == request[r].pc \in {"served", "failed", "left"}

(* Mutant: a synthesis counts for as long as its request holds a slot. *)
NoneSpeaking == slots = Concurrency

(* Mutant: one less than that. *)
LessThanQuiet == synthesising < 0

(* No synthesis thread is left, those of requests that are over included. *)
Quiet == synthesising < 1

Thread(state) == {r \in Requests : thread[r] = state}

(* effective_variant: what was asked for, what is loaded, or the default. *)
Effective(asked) == IF asked # None THEN asked ELSE IF variant # None THEN variant ELSE Default

(* A request that is over or has not begun. *)
Ended(pc) == [pc |-> pc, kind |-> "none", wanted |-> None, todo |-> <<>>, retry |-> FALSE]

----------------------------------------------------------------------------
Init ==
  /\ request = [r \in Requests |-> Ended("idle")]
  /\ model = "unloaded" /\ variant = None
  /\ transition = <<>>
  /\ slots = Concurrency /\ slotQueue = <<>>
  /\ synthesising = 0 /\ thread = [r \in Requests |-> "none"]
  /\ draining = FALSE /\ exited = FALSE

----------------------------------------------------------------------------
(* Speaking.  Each of these is the rest of r's turn and gives every variable of the *)
(* slots its next value; self is what r's record is by then.                        *)

(* synthesis: counted from here until its thread has ended. *)
Synthesise(r, self) ==
  /\ synthesising' = synthesising + 1
  /\ thread' = [thread EXCEPT ![r] = "running"]
  /\ request' = [request EXCEPT ![r] = [self EXCEPT !.pc = "speaking"]]

(* Mutant: a slot is as good as the device. *)
WithSlotAlone(r, self) == Synthesise(r, self)

(* With a slot: wait for the device to be quiet enough. *)
WithSlot(r, self) ==
  \/ synthesising < Concurrency /\ Synthesise(r, self)
  \/ /\ synthesising >= Concurrency
     /\ request' = [request EXCEPT ![r] = [self EXCEPT !.pc = "holding"]]
     /\ UNCHANGED <<synthesising, thread>>

(* answer, past ensure_loaded. *)
Answer(r, self) ==
  \/ /\ slots > 0 /\ slotQueue = <<>>
     /\ slots' = slots - 1 /\ UNCHANGED slotQueue
     /\ WithSlot(r, self)
  \/ /\ slots = 0 \/ slotQueue # <<>>
     /\ slotQueue' = Append(slotQueue, r)
     /\ request' = [request EXCEPT ![r] = [self EXCEPT !.pc = "slotting"]]
     /\ UNCHANGED <<slots, synthesising, thread>>

(* What a request does once it has let go of the lock. *)
Onward(r, self) ==
  \/ self.kind = "speak" /\ Answer(r, self)
  \/ /\ self.kind # "speak"
     /\ request' = [request EXCEPT ![r] = Ended("served")]
     /\ UNCHANGED <<slots, slotQueue, synthesising, thread>>

----------------------------------------------------------------------------
(* Loading and unloading.  Each of these goes on with a turn in which r holds the lock. *)

(* A failed load is tried once more, once what it stranded was unloaded. *)
AfterFailure == <<"unload", "load">>

Doing == [unload |-> "unloading", load |-> "loading"]

(* The next thing to do: it begins once no synthesis is left on the device, and the model *)
(* is reported as now until it does.                                                      *)
Begin(r, self, now) ==
  /\ IF Quiet
     THEN /\ model' = Doing[Head(self.todo)]
          /\ request' = [request EXCEPT ![r] = [self EXCEPT !.pc = Doing[Head(self.todo)]]]
     ELSE /\ model' = now
          /\ request' = [request EXCEPT ![r] = [self EXCEPT !.pc = "settling"]]
  /\ UNCHANGED <<slots, slotQueue, synthesising, thread>>

(* What a request that has just got the lock has to do to the model. *)
Todo(self) ==
  IF self.kind = "unload" THEN IF model = "unloaded" THEN <<>> ELSE <<"unload">>
  ELSE IF model = "unloaded" THEN <<"load">>
  ELSE IF variant = self.wanted THEN <<>> ELSE <<"unload", "load">>

(* r has the lock, and rest waits behind it. *)
Locked(r, self, rest) ==
  LET todo == Todo(self) IN
  /\ \/ /\ todo = <<>>
        /\ transition' = rest
        /\ Onward(r, self) /\ UNCHANGED model
     \/ /\ todo # <<>>
        /\ transition' = <<r>> \o rest
        /\ Begin(r, [self EXCEPT !.todo = todo], model)
  /\ UNCHANGED <<variant, draining, exited>>

----------------------------------------------------------------------------
(* A request arrives: ensure_loaded or unload, up to its first wait. *)
Arrive(r) ==
  /\ request[r].pc = "idle" /\ ~exited
  /\ \E kind \in Kinds, asked \in Variants \cup {None} :
       LET self == [pc |-> "locking", kind |-> kind, todo |-> <<>>, retry |-> FALSE,
                    wanted |-> IF kind = "unload" THEN None ELSE Effective(asked)]
       IN /\ kind = "unload" => asked = None
          /\ draining => kind = "unload"
          /\ \/ transition = <<>> /\ Locked(r, self, <<>>)
             \/ /\ transition # <<>>
                /\ transition' = Append(transition, r)
                /\ request' = [request EXCEPT ![r] = self]
                /\ UNCHANGED <<model, variant, slots, slotQueue, synthesising, thread,
                               draining, exited>>

(* reject_if_draining. *)
Refuse(r) ==
  /\ request[r].pc = "idle" /\ draining /\ ~exited
  /\ request' = [request EXCEPT ![r] = Ended("failed")]
  /\ UNCHANGED <<model, variant, transition, slots, slotQueue, synthesising, thread,
                 draining, exited>>

(* The lock's next holder runs. *)
Resume(r) ==
  /\ request[r].pc = "locking" /\ Head(transition) = r
  /\ Locked(r, request[r], Tail(transition))

(* until_synthesising_fewer_than(1) is over. *)
Settle(r) ==
  /\ request[r].pc = "settling" /\ Quiet
  /\ Begin(r, request[r], model)
  /\ UNCHANGED <<variant, transition, draining, exited>>

(* engine.unload has returned or raised, and the collector has run. *)
Unloaded(r) ==
  /\ request[r].pc = "unloading"
  /\ LET self == [request[r] EXCEPT !.todo = Tail(@)] IN
     \/ /\ self.todo = <<>>
        /\ model' = "unloaded" /\ transition' = Tail(transition)
        /\ Onward(r, self)
     \/ /\ self.todo # <<>>
        /\ Begin(r, self, "unloaded") /\ UNCHANGED transition
  /\ variant' = None
  /\ UNCHANGED <<draining, exited>>

(* engine.load has returned. *)
Loaded(r) ==
  /\ request[r].pc = "loading"
  /\ model' = "loaded" /\ variant' = request[r].wanted
  /\ transition' = Tail(transition)
  /\ Onward(r, [request[r] EXCEPT !.todo = <<>>])
  /\ UNCHANGED <<draining, exited>>

(* engine.load has raised: once more, on a cleared card, or not at all. *)
LoadFailed(r) ==
  /\ request[r].pc = "loading" /\ "load" \in Faults
  /\ variant' = None
  /\ \/ /\ ~request[r].retry
        /\ Begin(r, [request[r] EXCEPT !.todo = AfterFailure, !.retry = TRUE], "unloaded")
        /\ UNCHANGED transition
     \/ /\ request[r].retry
        /\ model' = "unloaded" /\ transition' = Tail(transition)
        /\ request' = [request EXCEPT ![r] = Ended("failed")]
        /\ UNCHANGED <<slots, slotQueue, synthesising, thread>>
  /\ UNCHANGED <<draining, exited>>

----------------------------------------------------------------------------
(* The next in line gets the slot that is free. *)
Slotted(r) ==
  /\ request[r].pc = "slotting" /\ Head(slotQueue) = r /\ slots > 0
  /\ slots' = slots - 1 /\ slotQueue' = Tail(slotQueue)
  /\ WithSlot(r, request[r])
  /\ UNCHANGED <<model, variant, transition, draining, exited>>

(* until_synthesising_fewer_than(concurrency) is over. *)
Speak(r) ==
  /\ request[r].pc = "holding" /\ synthesising < Concurrency
  /\ Synthesise(r, request[r])
  /\ UNCHANGED <<model, variant, transition, slots, slotQueue, draining, exited>>

(* The engine's call returns or raises, and its thread ends. *)
ThreadEnds(r) ==
  /\ thread[r] = "running"
  /\ thread' = [thread EXCEPT ![r] = "ended"]
  /\ UNCHANGED <<request, model, variant, transition, slots, slotQueue, synthesising,
                 draining, exited>>

(* The loop hears of it: _synthesis_ended. *)
SynthesisEnded(r) ==
  /\ thread[r] = "ended"
  /\ thread' = [thread EXCEPT ![r] = "none"]
  /\ synthesising' = synthesising - 1
  /\ UNCHANGED <<request, model, variant, transition, slots, slotQueue, draining,
                 exited>>

(* Mutant: nothing remembers that the slot has been given back. *)
ReleaseTwice(r) ==
  /\ request[r].pc \in {"speaking", "left"}
  /\ slots' = slots + 1
  /\ request' = [request EXCEPT ![r] = Ended(IF request[r].pc = "left" THEN "served" ELSE "left")]
  /\ UNCHANGED <<model, variant, transition, slotQueue, synthesising, thread, draining, exited>>

(* Mutant: the slot goes back at the end of the audio only. *)
ReleaseAtTheEnd(r) ==
  /\ request[r].pc = "speaking"
  /\ slots' = IF thread[r] = "running" THEN slots ELSE slots + 1
  /\ request' = [request EXCEPT ![r] = Ended("left")]
  /\ UNCHANGED <<model, variant, transition, slotQueue, synthesising, thread, draining, exited>>

(* The request lets go of its slot: at the end of the audio, or with the engine still in *)
(* its call when the client hangs up or the encoder fails.                               *)
Release(r) ==
  /\ request[r].pc = "speaking"
  /\ slots' = slots + 1
  /\ request' = [request EXCEPT ![r] = Ended(IF thread[r] = "running" THEN "left" ELSE "served")]
  /\ UNCHANGED <<model, variant, transition, slotQueue, synthesising, thread, draining, exited>>

(* /terminate, SIGTERM, or the core that started this worker is gone. *)
Drain ==
  /\ ~draining /\ draining' = TRUE
  /\ UNCHANGED <<request, model, variant, transition, slots, slotQueue, synthesising, thread,
                 exited>>

(* The server has answered everything, and the process ends with its daemon threads. *)
Exit ==
  /\ draining /\ ~exited
  /\ \A r \in Requests : request[r].pc = "idle" \/ Over(r)
  /\ exited' = TRUE
  /\ synthesising' = 0 /\ thread' = [r \in Requests |-> "none"]
  /\ UNCHANGED <<request, model, variant, transition, slots, slotQueue, draining>>

----------------------------------------------------------------------------
Next ==
  \/ \E r \in Requests :
       \/ Arrive(r) \/ Refuse(r) \/ Resume(r) \/ Settle(r)
       \/ Unloaded(r) \/ Loaded(r) \/ LoadFailed(r)
       \/ Slotted(r) \/ Speak(r) \/ ThreadEnds(r) \/ SynthesisEnded(r) \/ Release(r)
  \/ Drain \/ Exit

(* The loop runs what is ready, and an engine's calls return. *)
Fairness ==
  /\ \A r \in Requests :
       /\ WF_vars(Resume(r)) /\ WF_vars(Settle(r))
       /\ WF_vars(Unloaded(r)) /\ WF_vars(Loaded(r) \/ LoadFailed(r))
       /\ WF_vars(Slotted(r)) /\ WF_vars(Speak(r))
       /\ WF_vars(ThreadEnds(r)) /\ WF_vars(SynthesisEnded(r))
       /\ WF_vars(Release(r) /\ thread[r] # "running")
  /\ WF_vars(Exit)

Spec == Init /\ [][Next]_vars /\ Fairness

----------------------------------------------------------------------------
(* Every variable has its type. *)
TypeOK ==
  /\ request \in [Requests -> Request]
  /\ model \in {"unloaded", "loading", "loaded", "unloading"}
  /\ variant \in Variants \cup {None}
  /\ transition \in Seq(Requests)
  /\ slots \in 0..Concurrency /\ slotQueue \in Seq(Requests)
  /\ synthesising \in Nat
  /\ thread \in [Requests -> {"none", "running", "ended"}]
  /\ draining \in BOOLEAN /\ exited \in BOOLEAN

(* A slot is held for exactly as long as its request speaks or waits to: released once, *)
(* by whichever of the ways an answer can end comes first.                              *)
SlotsAccounted ==
  slots + Cardinality({r \in Requests : request[r].pc \in {"holding", "speaking"}}) = Concurrency

(* No more utterances on the device than the engine's concurrency, those whose client *)
(* has gone included.                                                                 *)
OneUtterance == Cardinality(Thread("running")) <= Concurrency

(* A load or an unload never begins over a synthesis, abandoned or not: that is what *)
(* crashed Dia on Metal.                                                             *)
WaitsForAbandoned ==
  [][model' # model /\ model' \in {"loading", "unloading"} => Thread("running") = {}]_vars

(* Every request is answered, whatever order it waits for the lock, the device and a slot in. *)
RequestEnds == \A r \in Requests : request[r].pc # "idle" ~> Over(r)

(* "If the model is not resident, /speak loads it and then speaks. It does not fail with *)
(* 'no model loaded'" (docs/protocol.md:197): a synthesis starts with its model loaded.  *)
SpeaksItsModel ==
  [][\A r \in Requests : thread[r] # "running" /\ thread'[r] = "running" =>
       model' = "loaded" /\ variant' = request'[r].wanted]_vars
=============================================================================
