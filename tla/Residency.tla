------------------------------ MODULE Residency ------------------------------
(***************************************************************************)
(* The residency manager of the core: which models are on the card, who    *)
(* holds each one, and which one goes when the card is full                *)
(* (packages/core/src/residency/residency.manager.ts, mutex.ts).           *)
(*                                                                         *)
(* JavaScript runs one turn at a time, so a step of this module is the     *)
(* code between two awaits.  A transition (a tryAcquire, an expiry, an     *)
(* operator's forget, replace, free or rearm) runs under the lock and may  *)
(* await a worker; the release of a lease takes no lock and lands between  *)
(* any two of its steps.                                                   *)
(***************************************************************************)
EXTENDS Integers, Sequences, FiniteSets

CONSTANTS
  Requests,      \* callers of acquire: one call of it each
  Calls,         \* operator calls and settings patches, one each
  Engines,
  Variants,
  None,          \* no variant, no engine
  Unset,         \* a keep-alive nobody stated
  Spent,         \* a waiter whose promise its own timer settled
  KeepAlives,    \* what a request, an engine or the server may say, in ticks
  MaxResident,   \* the values residency.maxResidentModels may be given
  EvictionWait,  \* residency.evictionWaitSeconds, in ticks
  ReplaceWait,   \* REPLACE_WAIT_SECONDS, in ticks
  CallKinds,     \* the operator calls of this instance
  Faults,        \* the worker failures of this instance
  Horizon        \* the last reading of the clock: bounds every run

Never == -1      \* an absent expiresAt

ASSUME ResidencyAssumption ==
  /\ IsFiniteSet(Engines) /\ IsFiniteSet(Requests)
  /\ None \notin Variants \cup Engines
  /\ KeepAlives \subseteq Nat \cup {-1}
  /\ Unset \notin Int
  /\ Spent \notin Requests
  /\ MaxResident \subseteq Nat \ {0}
  /\ EvictionWait \in Nat /\ ReplaceWait \in Nat /\ Horizon \in Nat
  /\ CallKinds \subseteq {"forget", "replace", "unload", "terminate", "settings", "shutdown"}
  /\ Faults \subseteq {"spawn", "load", "lateload", "unload", "stop", "swap", "death"}

VARIABLES
  now,        \* clock.now()
  policy,     \* the live policy object, each engine's own keep-alive, and the one stored
  declared,   \* the engines the registry knows
  residents,  \* the Map: what it says of each engine, Absent where it has no entry
  loads,      \* how many Resident objects each engine has had: object identity
  observed,   \* EngineRegistry.observe: the model state it reports
  card,       \* the variant the worker of each engine really holds (external)
  lockQueue,  \* the promise chain of the transition lock; its head runs
  step,       \* where the head of the lock queue is awaiting, and on which engine
  waiters,    \* the callbacks a release wakes, oldest first
  request,    \* every acquire in progress
  call,       \* every operator call in progress
  stopping    \* stopExpiry has run: the core is going down

vars == <<now, policy, declared, residents, loads, observed, card, lockQueue,
          step, waiters, request, call, stopping>>

Ask == [engine : Engines, variant : Variants, keepAlive : KeepAlives \cup {Unset}]
(* What a keep-alive comes from.  A settings change remembers what it replaced, which *)
(* the properties read and the code does not.                                         *)
Tuning == [keepAlive : KeepAlives, engine : [Engines -> KeepAlives \cup {Unset}]]
Job == [kind : {"forget", "replace", "unload", "terminate"}, engine : Engines]
         \cup [kind : {"settings"}, engine : {None}, was : Tuning]
Task == [kind : {"acquire"}, by : Requests]
          \cup [kind : {"call"}, by : Calls]
          \cup [kind : {"expire"}, by : Engines, object : Nat]
Policy == [max : MaxResident, keepAlive : KeepAlives,
           engine : [Engines -> KeepAlives \cup {Unset}],
           stored : [Engines -> KeepAlives \cup {Unset}]]
Resident == [variant : Variants \cup {None}, leases : Nat, lastUsed : Nat,
             keepAlive : KeepAlives \cup {Unset}, expiresAt : Nat \cup {Never},
             armed : BOOLEAN, object : Nat]
Request == [pc : {"idle", "queued", "refused", "asleep", "speaking", "done",
                  "timedout", "failed"},
            ask : Ask \cup {None}, deadline : Nat, due : Nat]
Call == [pc : {"idle", "queued", "polling", "swapped", "done", "conflict", "failed"},
         job : Job \cup {None}, deadline : Nat, due : Nat, entry : KeepAlives \cup {Unset}]
Places == {"granted", "unloading", "evicting", "spawning", "loading",
           "removing", "swapping", "freeing", "expiring"}

Absent == [variant |-> None, leases |-> 0, lastUsed |-> 0, keepAlive |-> Unset,
           expiresAt |-> Never, armed |-> FALSE, object |-> 0]
Granted == [at |-> "granted", engine |-> None]

Residents == {e \in Engines : residents[e].variant # None}
IdleOrNot == Residents   \* mutant: a leased model may be evicted
Idle == {e \in Residents : residents[e].leases = 0}

(* A request or a call that is over, one way or another, keeps nothing. *)
Over(how) == [pc |-> how, ask |-> None, deadline |-> 0, due |-> 0]
CallOver(how) == [pc |-> how, job |-> None, deadline |-> 0, due |-> 0, entry |-> Unset]

AcquireTask(r) == [kind |-> "acquire", by |-> r]
CallTask(c) == [kind |-> "call", by |-> c]
ExpireTask(e) == [kind |-> "expire", by |-> e, object |-> residents[e].object]

(* The task that holds the lock, and what it is awaiting, if anything. *)
Running(task, place, e) ==
  /\ lockQueue # <<>>
  /\ Head(lockQueue) = task
  /\ step = [at |-> place, engine |-> e]

(* A request's, or a call's, turn under the lock. *)
Acquiring(r, place, e) == request[r].pc = "queued" /\ Running(AcquireTask(r), place, e)
Serving(c, place, e) == call[c].pc = "queued" /\ Running(CallTask(c), place, e)

Await(place, e) == step' = [at |-> place, engine |-> e]
Unlock == lockQueue' = Tail(lockQueue) /\ step' = Granted

(* What the request asked for, then the engine's own answer, then the server's. *)
KeepAliveUnder(settings, e, model) ==
  IF model.keepAlive # Unset THEN model.keepAlive
  ELSE IF settings.engine[e] # Unset /\ e \in declared THEN settings.engine[e]
  ELSE settings.keepAlive

KeepAliveOf(e, model) == KeepAliveUnder(policy, e, model)

(* Mutant: a second lease of a model takes the place of the first. *)
HeldOnce(model, wanted) ==
  [model EXCEPT !.leases = 1, !.lastUsed = now, !.keepAlive = wanted,
                !.armed = FALSE, !.expiresAt = Never]

(* hold: one more lease, and no deadline while it lasts. *)
Held(model, wanted) ==
  [model EXCEPT !.leases = @ + 1, !.lastUsed = now, !.keepAlive = wanted,
                !.armed = FALSE, !.expiresAt = Never]

(* armExpiry, from the last use. *)
Armed(e, model) ==
  IF KeepAliveOf(e, model) < 0 THEN model
  ELSE [model EXCEPT !.expiresAt = model.lastUsed + KeepAliveOf(e, model),
                     !.armed = TRUE]

(* Mutant: the deadline is set before the use is recorded. *)
LetGoLate(e, model) ==
  LET left == [model EXCEPT !.leases = IF @ = 0 THEN 0 ELSE @ - 1]
  IN [(IF left.leases = 0 THEN Armed(e, left) ELSE left) EXCEPT !.lastUsed = now]

(* The part of a lease's release that is about the model. *)
LetGo(e, model) ==
  LET left == [model EXCEPT !.leases = IF @ = 0 THEN 0 ELSE @ - 1, !.lastUsed = now]
  IN IF left.leases = 0 THEN Armed(e, left) ELSE left

(* Mutant: the timer is cancelled and the entry left in the Map. *)
DropTimer(e) == residents' = [residents EXCEPT ![e].armed = FALSE, ![e].expiresAt = Never]

(* residents.delete, its timer cancelled first. *)
Drop(e) == residents' = [residents EXCEPT ![e] = Absent]

LeastRecentlyUsed ==
  {e \in Idle : \A f \in Idle : residents[e].lastUsed <= residents[f].lastUsed}

----------------------------------------------------------------------------
Init ==
  /\ now = 0
  /\ policy \in [max : MaxResident, keepAlive : KeepAlives,
                 engine : {[e \in Engines |-> Unset]}, stored : {[e \in Engines |-> Unset]}]
  /\ declared = Engines
  /\ residents = [e \in Engines |-> Absent]
  /\ loads = [e \in Engines |-> 0]
  /\ observed = [e \in Engines |-> "unloaded"]
  /\ card = [e \in Engines |-> None]
  /\ lockQueue = <<>>
  /\ step = Granted
  /\ waiters = <<>>
  /\ request = [r \in Requests |-> Over("idle")]
  /\ call = [c \in Calls |-> CallOver("idle")]
  /\ stopping = FALSE

Tick == /\ now < Horizon
        /\ now' = now + 1
        /\ UNCHANGED <<policy, declared, residents, loads, observed, card, lockQueue,
                       step, waiters, request, call, stopping>>

----------------------------------------------------------------------------
(* acquire: the request reaches the lock.  Horizon leaves its deadline room to pass. *)
Acquire(r) ==
  /\ request[r].pc = "idle" /\ ~stopping
  /\ now + EvictionWait < Horizon
  /\ \E ask \in Ask :
       /\ ask.engine \in declared
       /\ request' = [request EXCEPT ![r] = [pc |-> "queued", ask |-> ask,
                        deadline |-> now + EvictionWait, due |-> 0]]
  /\ lockQueue' = Append(lockQueue, AcquireTask(r))
  /\ UNCHANGED <<now, policy, declared, residents, loads, observed, card, step,
                 waiters, call, stopping>>

(* tryAcquire gives up for now: nothing it may evict. *)
Refuse(r) ==
  /\ request' = [request EXCEPT ![r].pc = "refused"]
  /\ Unlock
  /\ UNCHANGED residents

(* Mutant: the lock is not handed on when the transition throws. *)
FailLocked(r) ==
  /\ request' = [request EXCEPT ![r] = Over("failed")]
  /\ UNCHANGED <<residents, lockQueue, step>>

(* tryAcquire throws. *)
Fail(r) ==
  /\ request' = [request EXCEPT ![r] = Over("failed")]
  /\ Unlock
  /\ UNCHANGED residents

(* Mutant: a full card counts as one with room. *)
MakeRoomForOneMore(r) ==
  IF Cardinality(Residents) <= policy.max
  THEN Await("spawning", request[r].ask.engine) /\ UNCHANGED <<residents, request, lockQueue>>
  ELSE Refuse(r)

(* The while loop of tryAcquire, from wherever the task stands to its next await. *)
MakeRoom(r) ==
  \/ /\ Cardinality(Residents) < policy.max
     /\ Await("spawning", request[r].ask.engine)
     /\ UNCHANGED <<residents, request, lockQueue>>
  \/ /\ Cardinality(Residents) >= policy.max
     /\ Idle = {}
     /\ Refuse(r)
  \/ /\ Cardinality(Residents) >= policy.max
     /\ \E victim \in LeastRecentlyUsed : Drop(victim) /\ Await("evicting", victim)
     /\ UNCHANGED <<request, lockQueue>>

(* The model is resident in this variant already: hold it and lease it. *)
Hit(r) ==
  LET ask == request[r].ask IN
  /\ Acquiring(r, "granted", None)
  /\ residents[ask.engine].variant = ask.variant
  /\ residents' = [residents EXCEPT ![ask.engine] = Held(@, ask.keepAlive)]
  /\ request' = [request EXCEPT ![r].pc = "speaking"]
  /\ Unlock
  /\ UNCHANGED <<now, policy, declared, loads, observed, card, waiters, call, stopping>>

(* Same engine, different weights: unload them, unless somebody is speaking them. *)
SwitchVariant(r) ==
  LET ask == request[r].ask IN
  /\ Acquiring(r, "granted", None)
  /\ residents[ask.engine].variant \notin {None, ask.variant}
  /\ \/ residents[ask.engine].leases > 0 /\ Refuse(r)
     \/ /\ residents[ask.engine].leases = 0
        /\ Drop(ask.engine)
        /\ Await("unloading", ask.engine)
        /\ UNCHANGED <<request, lockQueue>>
  /\ UNCHANGED <<now, policy, declared, loads, observed, card, waiters, call, stopping>>

Miss(r) ==
  /\ Acquiring(r, "granted", None)
  /\ residents[request[r].ask.engine].variant = None
  /\ MakeRoom(r)
  /\ UNCHANGED <<now, policy, declared, loads, observed, card, waiters, call, stopping>>

(* Mutant: the worker is not asked. *)
ReleasedUnasked(e, place) == observed' = [observed EXCEPT ![e] = "unloaded"] /\ UNCHANGED card

(* A worker's answer to "unload" or to being stopped; a failure of either is swallowed. *)
Released(e, place) ==
  /\ \/ card' = [card EXCEPT ![e] = None]
     \/ place \in {"unloading", "expiring"} /\ "unload" \in Faults /\ UNCHANGED card
     \/ place \in {"evicting"} /\ "stop" \in Faults /\ UNCHANGED card
  /\ observed' = [observed EXCEPT ![e] = "unloaded"]

(* The release that tryAcquire awaited is over; the loop goes on in the same turn. *)
RoomMade(r) ==
  /\ \E place \in {"unloading", "evicting"}, e \in Engines :
       Acquiring(r, place, e) /\ Released(e, place)
  /\ MakeRoom(r)
  /\ UNCHANGED <<now, policy, declared, loads, waiters, call, stopping>>

(* workers.client: an engine uninstalled meanwhile is unknown, and a spawn can fail. *)
Spawned(r) ==
  LET e == request[r].ask.engine IN
  /\ Acquiring(r, "spawning", e)
  /\ \/ /\ e \in declared
        /\ Await("loading", e)
        /\ observed' = [observed EXCEPT ![e] = "loading"]
        /\ UNCHANGED <<residents, request, lockQueue>>
     \/ /\ e \notin declared \/ "spawn" \in Faults
        /\ Fail(r)
        /\ UNCHANGED observed
  /\ UNCHANGED <<now, policy, declared, loads, card, waiters, call, stopping>>

Loaded(r) ==
  LET ask == request[r].ask
      e == ask.engine
      fresh == [Absent EXCEPT !.variant = ask.variant, !.object = loads[e] + 1]
  IN
  /\ Acquiring(r, "loading", e)
  /\ residents' = [residents EXCEPT ![e] = Held(fresh, ask.keepAlive)]
  /\ loads' = [loads EXCEPT ![e] = @ + 1]
  /\ card' = [card EXCEPT ![e] = ask.variant]
  /\ observed' = [observed EXCEPT ![e] = "loaded"]
  /\ request' = [request EXCEPT ![r].pc = "speaking"]
  /\ Unlock
  /\ UNCHANGED <<now, policy, declared, waiters, call, stopping>>

(* The load failed.  A worker the core stopped waiting for may still have finished it. *)
LoadFailed(r) ==
  LET e == request[r].ask.engine IN
  /\ Acquiring(r, "loading", e)
  /\ \/ "load" \in Faults /\ card' = [card EXCEPT ![e] = None]
     \/ "lateload" \in Faults /\ card' = [card EXCEPT ![e] = request[r].ask.variant]
  /\ observed' = [observed EXCEPT ![e] = "unloaded"]
  /\ Fail(r)
  /\ UNCHANGED <<now, policy, declared, loads, waiters, call, stopping>>

(* Back in acquire with nothing: past the deadline it throws, before it sleeps. *)
TimeOut(r) ==
  /\ request[r].pc = "refused"
  /\ now > request[r].deadline
  /\ request' = [request EXCEPT ![r] = Over("timedout")]
  /\ UNCHANGED <<now, policy, declared, residents, loads, observed, card, lockQueue,
                 step, waiters, call, stopping>>

(* waitForRelease, a tick at least: the code sleeps 50 ms or until the deadline. *)
Sleep(r) ==
  /\ request[r].pc = "refused"
  /\ now <= request[r].deadline
  /\ request' = [request EXCEPT ![r].pc = "asleep",
                   ![r].due = IF request[r].deadline > now THEN request[r].deadline ELSE now + 1]
  /\ waiters' = Append(waiters, r)
  /\ UNCHANGED <<now, policy, declared, residents, loads, observed, card, lockQueue,
                 step, call, stopping>>

(* The sleeper's own timer: its entry stays behind in waiters, with nobody in it. *)
WakeByTimer(r) ==
  /\ request[r].pc = "asleep"
  /\ now >= request[r].due
  /\ request' = [request EXCEPT ![r].pc = "queued"]
  /\ waiters' = [i \in DOMAIN waiters |-> IF waiters[i] = r THEN Spent ELSE waiters[i]]
  /\ lockQueue' = Append(lockQueue, AcquireTask(r))
  /\ UNCHANGED <<now, policy, declared, residents, loads, observed, card, step,
                 call, stopping>>

(* Mutant: a waiter that is settled already is resumed again. *)
WokenTwice == IF waiters = <<>> THEN {} ELSE {Head(waiters)}

(* wake: shift one waiter and settle it, which does nothing for a spent one. *)
Woken == IF waiters = <<>> THEN {} ELSE {Head(waiters)} \ {Spent}

Wake ==
  /\ waiters' = IF waiters = <<>> THEN <<>> ELSE Tail(waiters)
  /\ \/ Woken = {} /\ UNCHANGED lockQueue
     \/ \E r \in Woken : lockQueue' = Append(lockQueue, AcquireTask(r))

Roused(requests) ==
  [r \in Requests |-> IF r \in Woken THEN [requests[r] EXCEPT !.pc = "queued"]
                      ELSE requests[r]]

(* lease.release, once: the audio ended, or failed, or the client went. *)
Release(r) ==
  LET e == request[r].ask.engine IN
  /\ request[r].pc = "speaking"
  /\ residents' = [residents EXCEPT ![e] = LetGo(e, @)]
  /\ request' = Roused([request EXCEPT ![r] = Over("done")])
  /\ Wake
  /\ UNCHANGED <<now, policy, declared, loads, observed, card, step, call, stopping>>

----------------------------------------------------------------------------
(* An expiry timer fires and queues for the lock, with the object it was armed for. *)
TimerFires(e) ==
  /\ residents[e].armed
  /\ now >= residents[e].expiresAt
  /\ residents' = [residents EXCEPT ![e].armed = FALSE]
  /\ lockQueue' = Append(lockQueue, ExpireTask(e))
  /\ UNCHANGED <<now, policy, declared, loads, observed, card, step, waiters,
                 request, call, stopping>>

(* Mutant: the callback trusts the timer that queued it. *)
DueWhenArmed(task) ==
  residents[task.by].variant # None /\ residents[task.by].leases = 0

(* What the callback finds under the lock may not be what it was armed for. *)
StillDue(task) ==
  LET model == residents[task.by] IN
  /\ model.variant # None /\ model.object = task.object
  /\ model.leases = 0
  /\ model.expiresAt # Never /\ model.expiresAt <= now

Expire(e) ==
  /\ \E task \in [kind : {"expire"}, by : {e}, object : 1 .. loads[e]] :
       /\ Running(task, "granted", None)
       /\ \/ ~StillDue(task) /\ Unlock /\ UNCHANGED residents
          \/ /\ StillDue(task)
             /\ Drop(e)
             /\ Await("expiring", e)
             /\ UNCHANGED lockQueue
  /\ UNCHANGED <<now, policy, declared, loads, observed, card, waiters, request,
                 call, stopping>>

Expired(e) ==
  /\ \E object \in 1 .. loads[e] :
       Running([kind |-> "expire", by |-> e, object |-> object], "expiring", e)
  /\ Released(e, "expiring")
  /\ Unlock
  /\ UNCHANGED <<now, policy, declared, residents, loads, waiters, request, call, stopping>>

----------------------------------------------------------------------------
(* A reinstall that has got to its swap: the installer refuses others as busy. *)
Reinstalling(e) ==
  \E c \in Calls : call[c].pc \in {"queued", "polling", "swapped"}
                    /\ call[c].job = [kind |-> "replace", engine |-> e]

(* An operator's forget, replace or free reaches the lock.  A replace brings the entry *)
(* it will declare, with the keep-alive stored at this moment.                         *)
StartCall(c) ==
  /\ call[c].pc = "idle" /\ ~stopping
  /\ now + ReplaceWait < Horizon
  /\ \E job \in Job :
       /\ job.kind \in CallKinds \ {"settings"} /\ job.engine \in declared
       /\ job.kind \in {"forget", "replace"} => ~Reinstalling(job.engine)
       /\ call' = [call EXCEPT ![c] = [pc |-> "queued", job |-> job,
            deadline |-> now + ReplaceWait, due |-> 0,
            entry |-> IF job.kind = "replace" THEN policy.stored[job.engine] ELSE Unset]]
  /\ lockQueue' = Append(lockQueue, CallTask(c))
  /\ UNCHANGED <<now, policy, declared, residents, loads, observed, card, step,
                 waiters, request, stopping>>

RearmJob == [kind |-> "settings", engine |-> None,
             was |-> [keepAlive |-> policy.keepAlive, engine |-> policy.engine]]

(* apply, applyLive: the database and the policy object change at once, and           *)
(* rearmExpiry queues for the lock where a keep-alive was among the changes.           *)
Patch(c) ==
  /\ call[c].pc = "idle" /\ ~stopping /\ "settings" \in CallKinds
  /\ \/ \E n \in MaxResident :
          /\ policy' = [policy EXCEPT !.max = n]
          /\ call' = [call EXCEPT ![c] = CallOver("done")]
          /\ UNCHANGED lockQueue
     \/ /\ \/ \E n \in MaxResident, s \in KeepAlives :
                policy' = [policy EXCEPT !.max = n, !.keepAlive = s]
           \/ \E e \in declared, s \in KeepAlives \cup {Unset} :
                policy' = [policy EXCEPT !.engine[e] = s, !.stored[e] = s]
        /\ call' = [call EXCEPT ![c] = [@ EXCEPT !.pc = "queued", !.job = RearmJob]]
        /\ lockQueue' = Append(lockQueue, CallTask(c))
  /\ UNCHANGED <<now, declared, residents, loads, observed, card, step, waiters,
                 request, stopping>>

CallEnds(c, how) == call' = [call EXCEPT ![c] = CallOver(how)] /\ Unlock

(* Speaking: forget and free refuse; replace gives up past its deadline, or polls. *)
CallBlocked(c) ==
  LET job == call[c].job IN
  /\ Serving(c, "granted", None) /\ job.kind # "settings"
  /\ residents[job.engine].leases > 0
  /\ \/ job.kind # "replace" /\ CallEnds(c, "conflict")
     \/ job.kind = "replace" /\ now > call[c].deadline /\ CallEnds(c, "conflict")
     \/ /\ job.kind = "replace" /\ now <= call[c].deadline
        /\ call' = [call EXCEPT ![c] = [@ EXCEPT !.pc = "polling", !.due = now + 1]]
        /\ Unlock
  /\ UNCHANGED <<now, policy, declared, residents, loads, observed, card, waiters,
                 request, stopping>>

PollAgain(c) ==
  /\ call[c].pc = "polling" /\ now >= call[c].due
  /\ call' = [call EXCEPT ![c].pc = "queued"]
  /\ lockQueue' = Append(lockQueue, CallTask(c))
  /\ UNCHANGED <<now, policy, declared, residents, loads, observed, card, step,
                 waiters, request, stopping>>

(* Nobody is speaking it: out of the Map, then the removal, the swap or the worker verb. *)
CallGranted(c) ==
  LET job == call[c].job IN
  /\ Serving(c, "granted", None) /\ job.kind # "settings"
  /\ residents[job.engine].leases = 0
  /\ \/ /\ job.kind = "unload" /\ job.engine \notin Residents
        /\ CallEnds(c, "done")
        /\ UNCHANGED residents
     \/ /\ job.kind # "unload" \/ job.engine \in Residents
        /\ Drop(job.engine)
        /\ Await(CASE job.kind = "forget" -> "removing"
                   [] job.kind = "replace" -> "swapping"
                   [] OTHER -> "freeing", job.engine)
        /\ UNCHANGED <<call, lockQueue>>
  /\ UNCHANGED <<now, policy, declared, loads, observed, card, waiters, request, stopping>>

(* The removal callback stops the worker and drops the engine from the registry. *)
Forgotten(c) ==
  LET e == call[c].job.engine IN
  /\ Serving(c, "removing", e) /\ call[c].job.kind = "forget"
  /\ declared' = declared \ {e}
  /\ card' = [card EXCEPT ![e] = None]
  /\ observed' = [observed EXCEPT ![e] = "unloaded"]
  /\ CallEnds(c, "done")
  /\ UNCHANGED <<now, policy, residents, loads, waiters, request, stopping>>

(* The swap callback stops the worker and declares the engine anew, or its database *)
(* write throws before it has stopped anything.                                     *)
Swapped(c) ==
  LET e == call[c].job.engine IN
  /\ Serving(c, "swapping", e) /\ call[c].job.kind = "replace"
  /\ \/ /\ card' = [card EXCEPT ![e] = None]
        /\ observed' = [observed EXCEPT ![e] = "unloaded"]
        /\ declared' = declared \cup {e}
        /\ policy' = [policy EXCEPT !.engine[e] = call[c].entry]
        /\ CallEnds(c, "swapped")
     \/ /\ "swap" \in Faults
        /\ CallEnds(c, "failed")
        /\ UNCHANGED <<card, observed, declared, policy>>
  /\ UNCHANGED <<now, residents, loads, waiters, request, stopping>>

SwapWakes(c) ==
  /\ call[c].pc = "swapped"
  /\ call' = [call EXCEPT ![c] = CallOver("done")]
  /\ request' = Roused(request)
  /\ Wake
  /\ UNCHANGED <<now, policy, declared, residents, loads, observed, card, step, stopping>>

Freed(c) ==
  /\ Serving(c, "freeing", call[c].job.engine)
  /\ call[c].job.kind \in {"unload", "terminate"}
  /\ Released(call[c].job.engine, IF call[c].job.kind = "unload" THEN "unloading" ELSE "evicting")
  /\ CallEnds(c, "done")
  /\ UNCHANGED <<now, policy, declared, residents, loads, waiters, request, stopping>>

(* rearmExpiry: a new deadline for every model nobody holds. *)
Rearm(c) ==
  /\ Serving(c, "granted", None) /\ call[c].job.kind = "settings"
  /\ residents' = [e \in Engines |->
       IF e \in Idle
       THEN Armed(e, [residents[e] EXCEPT !.armed = FALSE, !.expiresAt = Never])
       ELSE residents[e]]
  /\ CallEnds(c, "done")
  /\ UNCHANGED <<now, policy, declared, loads, observed, card, waiters, request, stopping>>

(* stopExpiry, the module's shutdown hook. *)
StopExpiry ==
  /\ ~stopping /\ "shutdown" \in CallKinds
  /\ stopping' = TRUE
  /\ residents' = [e \in Engines |->
       [residents[e] EXCEPT !.armed = FALSE, !.expiresAt = Never]]
  /\ UNCHANGED <<now, policy, declared, loads, observed, card, lockQueue, step,
                 waiters, request, call>>

(* A worker process dies on its own, between loads; nobody tells the manager. *)
WorkerDies(e) ==
  /\ "death" \in Faults /\ card[e] # None
  /\ card' = [card EXCEPT ![e] = None]
  /\ UNCHANGED <<now, policy, declared, residents, loads, observed, lockQueue, step,
                 waiters, request, call, stopping>>

----------------------------------------------------------------------------
(* The task at the head of the lock queue takes its next turn. *)
AcquireStep(r) ==
  \/ Hit(r) \/ SwitchVariant(r) \/ Miss(r) \/ RoomMade(r)
  \/ Spawned(r) \/ Loaded(r) \/ LoadFailed(r)

CallStep(c) ==
  \/ CallBlocked(c) \/ CallGranted(c) \/ Forgotten(c)
  \/ Swapped(c) \/ Freed(c) \/ Rearm(c)

LockStep ==
  \/ \E r \in Requests : AcquireStep(r)
  \/ \E c \in Calls : CallStep(c)
  \/ \E e \in Engines : Expire(e) \/ Expired(e)

Next ==
  \/ Tick
  \/ LockStep
  \/ \E r \in Requests :
       Acquire(r) \/ TimeOut(r) \/ Sleep(r) \/ WakeByTimer(r) \/ Release(r)
  \/ \E c \in Calls : StartCall(c) \/ Patch(c) \/ PollAgain(c) \/ SwapWakes(c)
  \/ \E e \in Engines : TimerFires(e) \/ WorkerDies(e)
  \/ StopExpiry

(* Time passes, timers fire, a granted transition gets its answer from the worker in *)
(* the end (every worker call has a timeout), and a settled promise continues.  No   *)
(* fairness on what callers, operators and audio streams do.                         *)
Fairness ==
  /\ WF_vars(Tick)
  /\ WF_vars(LockStep)
  /\ \A r \in Requests : WF_vars(TimeOut(r) \/ Sleep(r)) /\ WF_vars(WakeByTimer(r))
  /\ \A c \in Calls : WF_vars(PollAgain(c)) /\ WF_vars(SwapWakes(c))
  /\ \A e \in Engines : WF_vars(TimerFires(e))

Spec == Init /\ [][Next]_vars /\ Fairness

----------------------------------------------------------------------------
(* Every variable has its type. *)
TypeOK ==
  /\ now \in 0 .. Horizon
  /\ policy \in Policy
  /\ declared \subseteq Engines
  /\ residents \in [Engines -> Resident]
  /\ loads \in [Engines -> Nat]
  /\ observed \in [Engines -> {"unloaded", "loading", "loaded"}]
  /\ card \in [Engines -> Variants \cup {None}]
  /\ lockQueue \in Seq(Task)
  /\ step \in [at : Places, engine : Engines \cup {None}]
  /\ waiters \in Seq(Requests \cup {Spent})
  /\ request \in [Requests -> Request]
  /\ call \in [Calls -> Call]
  /\ stopping \in BOOLEAN

SpeakersOf(e) == {r \in Requests : request[r].pc = "speaking" /\ request[r].ask.engine = e}
OnCard == {e \in Engines : card[e] # None}
Rearming == {c \in Calls : call[c].pc = "queued" /\ call[c].job.kind = "settings"}
RearmPending == Rearming # {}

(* The settings that a change still waiting for the lock has replaced. *)
Replaced == {call[c].job.was : c \in Rearming}

DueUnder(settings, e) ==
  LET keep == KeepAliveUnder(settings, e, residents[e])
  IN keep >= 0 /\ now >= residents[e].lastUsed + keep

(* The worker really holds what the Map says it holds, unless its process died. *)
OnItsCard(e) == card[e] = residents[e].variant \/ ("death" \in Faults /\ card[e] = None)

(* A request that holds a lease has the variant it asked for in the Map and on the    *)
(* card, whatever evictions, expiries, variant switches, late loads and operator calls *)
(* run meanwhile.                                                                     *)
LeaseHoldsModel ==
  \A r \in Requests : request[r].pc = "speaking" =>
    LET e == request[r].ask.engine
    IN residents[e].variant = request[r].ask.variant /\ OnItsCard(e)

(* A model's lease count is the number of requests speaking it: a lease lost leaves  *)
(* the model pinned, a lease given back twice lets it go under somebody's audio.     *)
LeasesCounted == \A e \in Engines : residents[e].leases = Cardinality(SpeakersOf(e))

(* While an engine is unloaded, evicted, removed, swapped or loaded it is out of the  *)
(* Map and nobody speaks it, so a release, a hit or a timer has nothing to touch.     *)
TransitIsAlone ==
  step.at # "granted" =>
    step.engine \notin Residents /\ SpeakersOf(step.engine) = {}

(* No worker holds a model that the Map does not list, save one on its way off the *)
(* card: models() is "every model on the card".                                    *)
NothingUnaccounted ==
  \A e \in OnCard \ Residents :
    step.engine = e /\ step.at \notin {"spawning", "loading"}

(* A timer never takes a model that was used within its keep-alive, though it was     *)
(* armed for an earlier use, fired late and waited for the lock.  The keep-alive is    *)
(* the one in force, or one that a settings change replaced while the callback was     *)
(* already queued: the change rearms behind it, and the callback goes by the deadline  *)
(* it finds.                                                                          *)
ExpiryHonoursLastUse ==
  [][\A e \in Residents : step'.at = "expiring" /\ step'.engine = e =>
       DueUnder(policy, e) \/ \E settings \in Replaced : DueUnder(settings, e)]_vars

(* docs/protocol.md:1499: a change to either keep-alive moves the deadline of every   *)
(* model idle now.  It does not hold: an expiry that queued before the change unloads *)
(* a model that is within its new keep-alive.  No run claims it.                      *)
ChangeReachesIdle ==
  [][\A e \in Residents : step'.at = "expiring" /\ step'.engine = e =>
       DueUnder(policy, e)]_vars

(* An idle model with a keep-alive has its deadline set and somebody to act on it: *)
(* the armed timer, or the callback it queued.  None stays on the card forgotten.  *)
IdleWillExpire ==
  \A e \in Idle :
    LET keep == KeepAliveOf(e, residents[e])
    IN ~stopping /\ ~RearmPending /\ keep >= 0 =>
         /\ residents[e].expiresAt = residents[e].lastUsed + keep
         /\ \/ residents[e].armed
            \/ \E i \in 1 .. Len(lockQueue) : lockQueue[i] = ExpireTask(e)

(* Every request gets its lease or an error, though no audio stream ever ends. *)
RequestAnswered ==
  \A r \in Requests : request[r].pc = "queued" ~>
    request[r].pc \in {"speaking", "done", "timedout", "failed"}

----------------------------------------------------------------------------
(* The inductive invariant of ResidencyProofs: TypeOK, LeaseHoldsModel and            *)
(* LeasesCounted, and what they need of the queues and of the task that runs.         *)
AskKnown ==
  \A r \in Requests : request[r].pc \in {"queued", "refused", "asleep", "speaking"} =>
    request[r].ask \in Ask

JobKnown == \A c \in Calls : call[c].pc \in {"queued", "polling"} => call[c].job \in Job

WaitersAsleep ==
  \A i \in 1 .. Len(waiters) : waiters[i] # Spent =>
    /\ request[waiters[i]].pc = "asleep"
    /\ \A j \in 1 .. Len(waiters) : waiters[j] = waiters[i] => j = i

TransitIsHeads ==
  step.at # "granted" =>
    /\ lockQueue # <<>>
    /\ step.engine \notin Residents
    /\ \A r \in Requests : Head(lockQueue) = AcquireTask(r) =>
         request[r].pc = "queued" /\ request[r].ask.engine \notin Residents

ResidentOnCard == \A e \in Residents : OnItsCard(e)

SpokenIsResident ==
  \A r \in Requests : request[r].pc = "speaking" =>
    residents[request[r].ask.engine].variant = request[r].ask.variant

IInv ==
  /\ TypeOK /\ AskKnown /\ JobKnown /\ WaitersAsleep
  /\ TransitIsHeads /\ ResidentOnCard /\ SpokenIsResident /\ LeasesCounted

(* What ExpiryHonoursLastUse rests on: a deadline is one of the last use, set by the  *)
(* keep-alive in force or by one whose change has not rearmed yet.                    *)
SetBy(settings, e) ==
  LET keep == KeepAliveUnder(settings, e, residents[e])
  IN keep >= 0 /\ residents[e].expiresAt = residents[e].lastUsed + keep

DeadlineCurrent ==
  \A e \in Residents : residents[e].expiresAt # Never =>
    /\ residents[e].leases = 0
    /\ SetBy(policy, e) \/ \E settings \in Replaced : SetBy(settings, e)

----------------------------------------------------------------------------
(* The slots the Map stands for, with the one the lock holder has claimed to load into. *)
ClaimedSlot(e) ==
  IF residents[e].variant # None THEN residents[e].variant
  ELSE IF step.engine = e /\ step.at \in {"spawning", "loading"}
       THEN request[Head(lockQueue).by].ask.variant
       ELSE None

Users(e) == {<<r, request[r].ask.variant>> : r \in SpeakersOf(e)}

Slots == INSTANCE ModelSlots WITH
  slot <- [e \in Engines |-> ClaimedSlot(e)],
  users <- [e \in Engines |-> Users(e)],
  budget <- policy.max,
  Budgets <- MaxResident

(* The manager, with its lock, timers, evictions and operator calls, implements the *)
(* slots of section 3: no step of it takes more than the budget, takes a model from *)
(* under a lease, or gives a request a variant it did not ask for.                  *)
ImplementsSlots == Slots!SlotsSpec
=============================================================================
