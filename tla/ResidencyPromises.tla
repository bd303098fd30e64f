-------------------------- MODULE ResidencyPromises --------------------------
(***************************************************************************)
(* What the residency manager promises beyond the safety of its leases:    *)
(* that it implements the slots of ModelSlots, that a worker holds nothing *)
(* the Map does not list, and that a timer takes a model neither too early *)
(* nor never.  The invariant of ResidencyProofs carries all of it.         *)
(***************************************************************************)
EXTENDS ResidencyProofs, SequenceTheorems

----------------------------------------------------------------------------
(* The lock holder that has claimed a slot is a request that waits for its *)
(* own engine.                                                             *)

Claiming == step.at \in {"spawning", "loading"}

Claims(r) ==
  /\ lockQueue # <<>> /\ Head(lockQueue) = AcquireTask(r)
  /\ request[r].pc = "queued" /\ request[r].ask.engine = step.engine

ClaimIsHeads == Claiming => \E r \in Requests : Claims(r)

(* What becomes of the task that runs: the lock is handed on, it goes on   *)
(* waiting, or it starts to wait for another engine, for one of three      *)
(* reasons.                                                                *)
ClaimsSlot(r) ==
  /\ r \in Requests /\ request[r].pc = "queued"
  /\ lockQueue # <<>> /\ Head(lockQueue) = AcquireTask(r)
  /\ Await("spawning", request[r].ask.engine)
  /\ Cardinality(Residents) < policy.max
  /\ step.at \in {"granted", "unloading", "evicting"}
  /\ UNCHANGED <<residents, request, lockQueue>>

GoesOnLoading(r) ==
  /\ r \in Requests /\ Spawned(r)
  /\ Await("loading", request[r].ask.engine)
  /\ UNCHANGED <<residents, request, lockQueue>>

LetsGoOf(e) ==
  /\ e \in Engines /\ residents[e].leases = 0 /\ Drop(e)
  /\ step.at \in {"granted", "unloading", "evicting"}
  /\ \E place \in Places \ {"granted", "spawning", "loading"} :
       /\ Await(place, e)
       /\ place = "expiring" => Expire(e) /\ e \in Residents
  /\ UNCHANGED <<request, lockQueue>>

LEMMA MakeRoomTurns ==
  ASSUME IInv, NEW r \in Requests, request[r].pc = "queued", lockQueue # <<>>,
         Head(lockQueue) = AcquireTask(r), step.at \in {"granted", "unloading", "evicting"},
         MakeRoom(r)
  PROVE  HandsOn \/ ClaimsSlot(r) \/ \E e \in Engines : LetsGoOf(e)
  <1>1. CASE Refuse(r)
    BY <1>1 DEF Refuse, Unlock, HandsOn
  <1>2. CASE /\ Cardinality(Residents) < policy.max
             /\ Await("spawning", request[r].ask.engine)
             /\ UNCHANGED <<residents, request, lockQueue>>
    BY <1>2 DEF ClaimsSlot
  <1>3. ASSUME NEW victim \in LeastRecentlyUsed, Drop(victim), Await("evicting", victim),
               UNCHANGED <<request, lockQueue>>
        PROVE  LetsGoOf(victim) /\ victim \in Engines
    <2>1. victim \in Engines /\ residents[victim].leases = 0
      BY DEF LeastRecentlyUsed, Idle, Residents
    <2> QED
      BY <1>3, <2>1 DEF LetsGoOf, Places
  <1> QED
    BY <1>1, <1>2, <1>3 DEF MakeRoom

LEMMA LockTurns ==
  IInv /\ [Next]_vars =>
    \/ Waits \/ HandsOn
    \/ \E r \in Requests : ClaimsSlot(r) \/ GoesOnLoading(r)
    \/ \E e \in Engines : LetsGoOf(e)
  <1> SUFFICES ASSUME IInv, [Next]_vars
               PROVE  \/ Waits \/ HandsOn
                      \/ \E r \in Requests : ClaimsSlot(r) \/ GoesOnLoading(r)
                      \/ \E e \in Engines : LetsGoOf(e)
    OBVIOUS
  <1>1. ASSUME NEW r \in Requests, SwitchVariant(r)
        PROVE  HandsOn \/ \E e \in Engines : LetsGoOf(e)
    <2>1. request[r].ask.engine \in Engines /\ step.at = "granted"
      BY <1>1, AskTyped DEF SwitchVariant, Acquiring, Running
    <2>2. CASE Refuse(r)
      BY <2>1, <2>2 DEF Refuse, Unlock, HandsOn
    <2>3. CASE /\ residents[request[r].ask.engine].leases = 0
               /\ Drop(request[r].ask.engine)
               /\ Await("unloading", request[r].ask.engine)
               /\ UNCHANGED <<request, lockQueue>>
      BY <2>1, <2>3 DEF LetsGoOf, Places
    <2> QED
      BY <1>1, <2>2, <2>3 DEF SwitchVariant
  <1>2. ASSUME NEW r \in Requests, Miss(r) \/ RoomMade(r)
        PROVE  HandsOn \/ ClaimsSlot(r) \/ \E e \in Engines : LetsGoOf(e)
    <2>1. /\ request[r].pc = "queued" /\ lockQueue # <<>> /\ Head(lockQueue) = AcquireTask(r)
          /\ step.at \in {"granted", "unloading", "evicting"} /\ MakeRoom(r)
      BY <1>2 DEF Miss, RoomMade, Acquiring, Running
    <2> QED
      BY <2>1, MakeRoomTurns
  <1>3. ASSUME NEW r \in Requests, Spawned(r)
        PROVE  HandsOn \/ GoesOnLoading(r)
    BY <1>3 DEF Spawned, Fail, Unlock, HandsOn, GoesOnLoading
  <1>4. ASSUME NEW e \in Engines, Expire(e)
        PROVE  HandsOn \/ LetsGoOf(e)
    <2>1. PICK task \in [kind : {"expire"}, by : {e}, object : 1 .. loads[e]] :
            /\ Running(task, "granted", None)
            /\ \/ Unlock
               \/ StillDue(task) /\ Drop(e) /\ Await("expiring", e) /\ UNCHANGED lockQueue
      BY <1>4 DEF Expire
    <2>2. CASE Unlock
      BY <2>2 DEF Unlock, HandsOn
    <2>3. CASE StillDue(task) /\ Drop(e) /\ Await("expiring", e) /\ UNCHANGED lockQueue
      <3>1. task.by = e /\ step.at = "granted"
        BY <2>1 DEF Running
      <3>2. residents[e].leases = 0 /\ e \in Residents
        BY <2>3, <3>1 DEF StillDue, Residents
      <3>3. request' = request
        BY <1>4 DEF Expire
      <3>4. "expiring" \in Places \ {"granted", "spawning", "loading"}
        BY DEF Places
      <3> QED
        BY <1>4, <2>3, <3>1, <3>2, <3>3, <3>4 DEF LetsGoOf
    <2> QED
      BY <2>1, <2>2, <2>3
  <1>5. ASSUME NEW c \in Calls, CallGranted(c)
        PROVE  HandsOn \/ \E e \in Engines : LetsGoOf(e)
    <2>1. call[c].pc = "queued" /\ call[c].job.engine \in Engines /\ step.at = "granted"
      BY <1>5, JobTyped DEF CallGranted, Serving, Running
    <2>2. CASE CallEnds(c, "done")
      BY <2>2 DEF CallEnds, Unlock, HandsOn
    <2>3. CASE /\ Drop(call[c].job.engine)
               /\ \E place \in {"removing", "swapping", "freeing"} : Await(place, call[c].job.engine)
               /\ UNCHANGED <<call, lockQueue>>
      <3>1. residents[call[c].job.engine].leases = 0 /\ request' = request
        BY <1>5 DEF CallGranted
      <3> QED
        BY <2>1, <2>3, <3>1 DEF LetsGoOf, Places
    <2> QED
      BY <1>5, <2>2, <2>3 DEF CallGranted
  <1>6. CASE Waits \/ HandsOn
    BY <1>6
  <1>7. ASSUME NEW r \in Requests, Hit(r) \/ Loaded(r) \/ LoadFailed(r)
        PROVE  HandsOn
    BY <1>7 DEF Hit, Loaded, LoadFailed, Fail, Unlock, HandsOn
  <1>8. ASSUME NEW e \in Engines, Expired(e)
        PROVE  HandsOn
    BY <1>8 DEF Expired, Unlock, HandsOn
  <1>9. ASSUME NEW c \in Calls, CallBlocked(c) \/ Forgotten(c) \/ Swapped(c) \/ Freed(c) \/ Rearm(c)
        PROVE  HandsOn
    BY <1>9 DEF CallBlocked, Forgotten, Swapped, Freed, Rearm, CallEnds, Unlock, HandsOn
  <1>10. CASE ~LockStep
    <2>1. UNCHANGED step
      BY <1>10 DEF Next, vars, Tick, Acquire, TimeOut, Sleep, WakeByTimer, Release, StartCall,
                   Patch, PollAgain, SwapWakes, TimerFires, WorkerDies, StopExpiry
    <2>2. HandsOn \/ Waits \/ Starts
      BY LockMoves
    <2>3. Starts => UNCHANGED <<step, lockQueue>>
      BY <2>1 DEF Starts
    <2> QED
      BY <2>2, <2>3 DEF Waits
  <1> QED
    BY <1>1, <1>2, <1>3, <1>4, <1>5, <1>7, <1>8, <1>9, <1>10 DEF LockStep, AcquireStep, CallStep

(* While a task waits, it stays the head, and the request it is for stays  *)
(* what it was.                                                            *)
LEMMA HeadWaits ==
  ASSUME IInv, [Next]_vars, Waits, NEW r \in Requests, lockQueue # <<>>,
         Head(lockQueue) = AcquireTask(r), request[r].pc = "queued", step # Granted
  PROVE  /\ lockQueue' # <<>> /\ Head(lockQueue') = AcquireTask(r)
         /\ request'[r].pc = "queued" /\ request'[r].ask = request[r].ask
  <1>1. lockQueue \in Seq(Task)
    BY DEF IInv, TypeOK
  <1>2. lockQueue' # <<>> /\ Head(lockQueue') = Head(lockQueue)
    <2>1. CASE UNCHANGED lockQueue
      BY <2>1
    <2>2. ASSUME NEW task \in Task, lockQueue' = Append(lockQueue, task)
          PROVE  lockQueue' # <<>> /\ Head(lockQueue') = Head(lockQueue)
      BY <1>1, <2>2
    <2> QED
      BY <2>1, <2>2 DEF Waits
  <1>3. Moves(r) /\ step' # Granted
    BY RequestMoves DEF Waits
  <1> QED
    BY <1>2, <1>3 DEF Moves

LEMMA ClaimStep == IInv /\ ClaimIsHeads /\ [Next]_vars => ClaimIsHeads'
  <1> SUFFICES ASSUME IInv, ClaimIsHeads, [Next]_vars, Claiming'
               PROVE  \E r \in Requests : Claims(r)'
    BY DEF ClaimIsHeads
  <1>1. ~HandsOn
    BY DEF HandsOn, Granted, Claiming
  <1>2. CASE Waits
    <2>1. Claiming
      BY <1>2 DEF Waits, Claiming
    <2>2. PICK r \in Requests : Claims(r)
      BY <2>1 DEF ClaimIsHeads
    <2>3. step # Granted
      BY <2>1 DEF Claiming, Granted
    <2>4. /\ lockQueue' # <<>> /\ Head(lockQueue') = AcquireTask(r)
          /\ request'[r].pc = "queued" /\ request'[r].ask = request[r].ask
      BY <1>2, <2>2, <2>3, HeadWaits DEF Claims
    <2> QED
      BY <1>2, <2>2, <2>4 DEF Claims, Waits, AcquireTask
  <1>3. ASSUME NEW r \in Requests, ClaimsSlot(r)
        PROVE  Claims(r)'
    BY <1>3 DEF ClaimsSlot, Claims, Await, AcquireTask
  <1>4. ASSUME NEW r \in Requests, GoesOnLoading(r)
        PROVE  Claims(r)'
    BY <1>4 DEF GoesOnLoading, Spawned, Acquiring, Running, Claims, Await, AcquireTask
  <1>5. ASSUME NEW e \in Engines, LetsGoOf(e)
        PROVE  FALSE
    BY <1>5 DEF LetsGoOf, Await, Claiming
  <1> QED
    BY <1>1, <1>2, <1>3, <1>4, <1>5, LockTurns

----------------------------------------------------------------------------
(* The slots.                                                              *)

(* A slot is what the Map says of the engine, or what the lock holder is   *)
(* about to load into it.                                                  *)
LEMMA SlotOf ==
  ASSUME IInv, NEW e \in Engines
  PROVE  /\ ~(Claiming /\ step.engine = e) => ClaimedSlot(e) = residents[e].variant
         /\ \A r \in Requests : Claiming /\ Claims(r) /\ step.engine = e =>
              /\ ClaimedSlot(e) = request[r].ask.variant
              /\ residents[e].variant = None
  <1>1. ~(Claiming /\ step.engine = e) => ClaimedSlot(e) = residents[e].variant
    BY DEF Claiming, ClaimedSlot
  <1>2. ASSUME NEW r \in Requests, Claiming, Claims(r), step.engine = e
        PROVE  ClaimedSlot(e) = request[r].ask.variant /\ residents[e].variant = None
    <2>1. residents[e].variant = None
      BY <1>2 DEF Claiming, IInv, TransitIsHeads, Residents
    <2>2. Head(lockQueue).by = r
      BY <1>2 DEF Claims, AcquireTask
    <2> QED
      BY <1>2, <2>1, <2>2 DEF ClaimedSlot, Claiming
  <1> QED
    BY <1>1, <1>2

SlotsNow == [e \in Engines |-> ClaimedSlot(e)]
UsersNow == [e \in Engines |-> Users(e)]

(* Nothing changes of the slots while the Map keeps its models and the     *)
(* task that runs waits.                                                   *)
LEMMA SlotsWait ==
  ASSUME IInv, IInv', ClaimIsHeads, [Next]_vars, Waits,
         \A e \in Engines : residents'[e].variant = residents[e].variant
  PROVE  SlotsNow' = SlotsNow
  <1>1. step' = step /\ (Claiming' <=> Claiming)
    BY DEF Waits, Claiming
  <1>2. ASSUME NEW e \in Engines
        PROVE  ClaimedSlot(e)' = ClaimedSlot(e)
    <2>1. CASE ~(Claiming /\ step.engine = e)
      BY <1>1, <2>1, SlotOf DEF ClaimedSlot, Claiming
    <2>2. CASE Claiming /\ step.engine = e
      <3>1. PICK r \in Requests : Claims(r)
        BY <2>2 DEF ClaimIsHeads
      <3>2. /\ lockQueue' # <<>> /\ Head(lockQueue') = AcquireTask(r)
            /\ request'[r].pc = "queued" /\ request'[r].ask = request[r].ask
        BY <2>2, <3>1, HeadWaits DEF Claims, Claiming, Granted
      <3>3. Head(lockQueue').by = r
        BY <3>2 DEF AcquireTask
      <3>4. ClaimedSlot(e) = request[r].ask.variant /\ residents[e].variant = None
        BY <2>2, <3>1, SlotOf
      <3> QED
        BY <1>1, <2>2, <3>2, <3>3, <3>4 DEF ClaimedSlot, Claiming
    <2> QED
      BY <2>1, <2>2
  <1> QED
    BY <1>2 DEF SlotsNow

(* Between two claims the slots are the Map's.                             *)
LEMMA SlotsOfMap ==
  ASSUME ~Claiming
  PROVE  SlotsNow = [e \in Engines |-> residents[e].variant]
  BY DEF SlotsNow, ClaimedSlot, Claiming

LEMMA SlotsVacated ==
  ASSUME IInv, ~Claiming, ~Claiming', NEW e \in Engines, Drop(e)
  PROVE  SlotsNow' = [SlotsNow EXCEPT ![e] = None]
  <1>1. SlotsNow = [m \in Engines |-> residents[m].variant]
    BY SlotsOfMap
  <1>2. SlotsNow' = [m \in Engines |-> residents'[m].variant]
    BY DEF SlotsNow, ClaimedSlot, Claiming
  <1>3. \A m \in Engines : residents'[m].variant = IF m = e THEN None ELSE residents[m].variant
    BY DEF Drop, IInv, TypeOK, Absent
  <1> QED
    BY <1>1, <1>2, <1>3

(* A claim takes a free slot within the budget.                            *)
LEMMA SlotClaimed ==
  ASSUME IInv, IInv', ClaimIsHeads', NEW r \in Requests, ClaimsSlot(r)
  PROVE  /\ SlotsNow' = [SlotsNow EXCEPT ![request[r].ask.engine] = request[r].ask.variant]
         /\ SlotsNow[request[r].ask.engine] = None
         /\ {e \in Engines : SlotsNow[e] # None} = Residents
  <1> DEFINE ask == request[r].ask
  <1>1. ~Claiming /\ Claiming' /\ Claims(r)' /\ step'.engine = ask.engine
    BY DEF ClaimsSlot, Claiming, Claims, Await, AcquireTask
  <1>2. ask.engine \in Engines
    BY AskTyped DEF ClaimsSlot
  <1>3. SlotsNow = [e \in Engines |-> residents[e].variant]
    BY <1>1, SlotsOfMap
  <1>4. ask.engine \notin Residents'
    BY <1>1 DEF IInv, TransitIsHeads, Claiming
  <1>5. residents[ask.engine].variant = None
    BY <1>2, <1>4 DEF ClaimsSlot, Residents
  <1>6. \A e \in Engines : e = ask.engine => ClaimedSlot(e)' = ask.variant
    <2>1. Head(lockQueue').by = r
      BY <1>1 DEF Claims, AcquireTask
    <2> QED
      BY <1>1, <1>5, <2>1 DEF ClaimedSlot, Claiming, ClaimsSlot
  <1>7. \A e \in Engines : e # ask.engine => ClaimedSlot(e)' = residents[e].variant
    BY <1>1 DEF ClaimedSlot, ClaimsSlot
  <1>8. SlotsNow' = [e \in Engines |-> ClaimedSlot(e)']
    BY DEF SlotsNow
  <1> HIDE DEF ask
  <1>9. SlotsNow' = [SlotsNow EXCEPT ![ask.engine] = ask.variant]
    BY <1>2, <1>3, <1>6, <1>7, <1>8
  <1>10. SlotsNow[ask.engine] = None /\ {e \in Engines : SlotsNow[e] # None} = Residents
    BY <1>2, <1>3, <1>5 DEF Residents
  <1> QED
    BY <1>9, <1>10 DEF ask

(* A claim goes on being one while the worker starts, and turns into the   *)
(* resident model when the load succeeds.                                  *)
LEMMA SlotLoading ==
  ASSUME IInv, IInv', NEW r \in Requests, GoesOnLoading(r) \/ Loaded(r)
  PROVE  SlotsNow' = SlotsNow
  <1> DEFINE ask == request[r].ask
  <1>1. /\ Claiming /\ Claims(r) /\ step.engine = ask.engine /\ request[r].pc = "queued"
        /\ lockQueue # <<>> /\ Head(lockQueue).by = r
    BY DEF GoesOnLoading, Spawned, Loaded, Acquiring, Running, Claiming, Claims, AcquireTask
  <1>2. ask.engine \in Engines /\ ask.variant \in Variants /\ ask.variant # None
    BY <1>1, AskTyped, ResidencyAssumption
  <1>3. residents[ask.engine].variant = None
    BY <1>1, <1>2, SlotOf
  <1>4. ClaimedSlot(ask.engine) = ask.variant
    BY <1>1, <1>2, SlotOf
  <1>5. ASSUME NEW e \in Engines, e # ask.engine
        PROVE  ClaimedSlot(e)' = ClaimedSlot(e)
    <2>1. ClaimedSlot(e) = residents[e].variant
      BY <1>1, <1>5, SlotOf
    <2>2. residents'[e] = residents[e]
      BY <1>5, LeaseTaken DEF GoesOnLoading
    <2>3. step'.at = "granted" \/ step'.engine = ask.engine
      BY DEF GoesOnLoading, Await, Loaded, Unlock, Granted
    <2> QED
      BY <1>5, <2>1, <2>2, <2>3 DEF ClaimedSlot
  <1>6. \A e \in Engines : e = ask.engine => ClaimedSlot(e)' = ask.variant
    <2>1. CASE GoesOnLoading(r)
      <3>1. /\ step'.engine = ask.engine /\ step'.at = "loading"
            /\ residents'[ask.engine].variant = None /\ Head(lockQueue').by = r
            /\ request'[r].ask = ask
        BY <1>1, <1>3, <2>1 DEF GoesOnLoading, Await
      <3> QED
        BY <3>1 DEF ClaimedSlot
    <2>2. CASE Loaded(r)
      BY <1>2, <2>2, LeaseTaken DEF ClaimedSlot
    <2> QED
      BY <2>1, <2>2
  <1> HIDE DEF ask
  <1> QED
    BY <1>4, <1>5, <1>6 DEF SlotsNow

(* The lock is handed on by a task that has claimed a slot and not loaded: *)
(* the slot is free again.                                                 *)
LEMMA SlotsHandedOn ==
  ASSUME IInv, HandsOn, \A e \in Engines : residents'[e].variant = residents[e].variant
  PROVE  /\ ~Claiming => SlotsNow' = SlotsNow
         /\ Claiming => SlotsNow' = [SlotsNow EXCEPT ![step.engine] = None]
  <1>1. step'.at = "granted"
    BY DEF HandsOn, Granted
  <1>2. SlotsNow' = [e \in Engines |-> residents[e].variant]
    BY <1>1 DEF SlotsNow, ClaimedSlot
  <1>3. ~Claiming => SlotsNow' = SlotsNow
    BY <1>2, SlotsOfMap
  <1>4. ASSUME Claiming
        PROVE  SlotsNow' = [SlotsNow EXCEPT ![step.engine] = None]
    <2>1. \A e \in Engines : e # step.engine => SlotsNow[e] = residents[e].variant
      BY SlotOf DEF SlotsNow
    <2>2. step.engine \in Engines => residents[step.engine].variant = None
      BY <1>4 DEF Claiming, IInv, TransitIsHeads, Residents
    <2> QED
      BY <1>2, <2>1, <2>2 DEF SlotsNow
  <1> QED
    BY <1>3, <1>4

(* What a step may do to the Map's variants. *)
LEMMA VariantsMove ==
  IInv /\ [Next]_vars =>
    \/ \A e \in Engines : residents'[e].variant = residents[e].variant
    \/ \E r \in Requests : Loaded(r)
    \/ \E e \in Engines : LetsGoOf(e)
  <1> SUFFICES ASSUME IInv, [Next]_vars, ~ \E r \in Requests : Loaded(r),
                      ~ \E e \in Engines : LetsGoOf(e)
               PROVE  \A e \in Engines : residents'[e].variant = residents[e].variant
    OBVIOUS
  <1>0. /\ TypeOK /\ residents \in [Engines -> Resident]
    BY DEF IInv, TypeOK
  <1>1. ASSUME NEW r \in Requests, MakeRoom(r), step.at \in {"granted", "unloading", "evicting"}
        PROVE  UNCHANGED residents
    <2>1. ASSUME NEW victim \in LeastRecentlyUsed, Drop(victim), Await("evicting", victim),
                 UNCHANGED <<request, lockQueue>>
          PROVE  FALSE
      <3>1. victim \in Engines /\ residents[victim].leases = 0
        BY DEF LeastRecentlyUsed, Idle, Residents
      <3> QED
        BY <1>1, <2>1, <3>1 DEF LetsGoOf, Places
    <2> QED
      BY <1>1, <2>1 DEF MakeRoom, Refuse
  <1>2. ASSUME NEW r \in Requests, Miss(r) \/ RoomMade(r)
        PROVE  UNCHANGED residents
    BY <1>1, <1>2 DEF Miss, RoomMade, Acquiring, Running
  <1>3. ASSUME NEW r \in Requests, SwitchVariant(r)
        PROVE  UNCHANGED residents
    <2>1. request[r].ask.engine \in Engines /\ step.at = "granted"
      BY <1>3, AskTyped DEF SwitchVariant, Acquiring, Running
    <2>2. CASE Refuse(r)
      BY <2>2 DEF Refuse
    <2>3. CASE /\ residents[request[r].ask.engine].leases = 0
               /\ Drop(request[r].ask.engine)
               /\ Await("unloading", request[r].ask.engine)
               /\ UNCHANGED <<request, lockQueue>>
      BY <2>1, <2>3 DEF LetsGoOf, Places
    <2> QED
      BY <1>3, <2>2, <2>3 DEF SwitchVariant
  <1>4. ASSUME NEW e \in Engines, Expire(e)
        PROVE  UNCHANGED residents
    <2>1. PICK task \in [kind : {"expire"}, by : {e}, object : 1 .. loads[e]] :
            /\ Running(task, "granted", None)
            /\ \/ UNCHANGED residents
               \/ StillDue(task) /\ Drop(e) /\ Await("expiring", e) /\ UNCHANGED lockQueue
      BY <1>4 DEF Expire
    <2>2. CASE StillDue(task) /\ Drop(e) /\ Await("expiring", e) /\ UNCHANGED lockQueue
      <3>1. task.by = e /\ step.at = "granted"
        BY <2>1 DEF Running
      <3>2. residents[e].leases = 0 /\ e \in Residents
        BY <2>2, <3>1 DEF StillDue, Residents
      <3>3. request' = request
        BY <1>4 DEF Expire
      <3>4. "expiring" \in Places \ {"granted", "spawning", "loading"}
        BY DEF Places
      <3> QED
        BY <1>4, <2>2, <3>1, <3>2, <3>3, <3>4 DEF LetsGoOf
    <2> QED
      BY <2>1, <2>2
  <1>5. ASSUME NEW c \in Calls, CallGranted(c)
        PROVE  UNCHANGED residents
    <2>1. call[c].job.engine \in Engines /\ step.at = "granted"
      BY <1>5, JobTyped DEF CallGranted, Serving, Running
    <2>2. CASE /\ Drop(call[c].job.engine)
               /\ \E place \in {"removing", "swapping", "freeing"} : Await(place, call[c].job.engine)
               /\ UNCHANGED <<call, lockQueue>>
      <3>1. residents[call[c].job.engine].leases = 0 /\ request' = request
        BY <1>5 DEF CallGranted
      <3> QED
        BY <2>1, <2>2, <3>1 DEF LetsGoOf, Places
    <2> QED
      BY <1>5, <2>2 DEF CallGranted
  <1>6. ASSUME NEW r \in Requests, Hit(r)
        PROVE  \A e \in Engines : residents'[e].variant = residents[e].variant
    <2>1. residents[request[r].ask.engine].variant = request[r].ask.variant
      BY <1>6 DEF Hit
    <2> QED
      BY <1>6, <2>1, LeaseTaken
  <1>7. ASSUME NEW r \in Requests, Release(r)
        PROVE  \A e \in Engines : residents'[e].variant = residents[e].variant
    BY <1>7, LeaseGiven
  <1>8. ASSUME NEW e \in Engines, TimerFires(e)
        PROVE  \A m \in Engines : residents'[m].variant = residents[m].variant
    BY <1>0, <1>8, DisarmedTyped DEF TimerFires, Resident
  <1>9. ASSUME NEW c \in Calls, Rearm(c)
        PROVE  \A m \in Engines : residents'[m].variant = residents[m].variant
    BY <1>0, <1>9, DisarmedTyped, ArmedDeadline DEF Rearm
  <1>10. StopExpiry => \A m \in Engines : residents'[m].variant = residents[m].variant
    BY <1>0, DisarmedTyped DEF StopExpiry
  <1>11. CASE UNCHANGED residents
    BY <1>11
  <1> QED
    BY <1>2, <1>3, <1>4, <1>5, <1>6, <1>7, <1>8, <1>9, <1>10, <1>11
    DEF Next, LockStep, AcquireStep, CallStep, vars, Tick, Fail, Acquire, Spawned, LoadFailed, TimeOut, Sleep, WakeByTimer, Expired, WorkerDies, StartCall, Patch, CallBlocked, PollAgain, Forgotten, Swapped, SwapWakes, Freed

----------------------------------------------------------------------------
(* Who uses a model, and in which variant.                                 *)

LEMMA UsersMember ==
  ASSUME NEW e, NEW u
  PROVE  (u \in Users(e)) <=> \E r \in Requests :
           request[r].pc = "speaking" /\ request[r].ask.engine = e /\ u = <<r, request[r].ask.variant>>
  BY DEF Users, SpeakersOf

LEMMA UsersMemberNext ==
  ASSUME NEW e, NEW u
  PROVE  u \in Users(e)' <=> \E r \in Requests :
           request'[r].pc = "speaking" /\ request'[r].ask.engine = e /\ u = <<r, request'[r].ask.variant>>
  BY DEF Users, SpeakersOf

LEMMA UsersQuiet ==
  ASSUME IInv, [Next]_vars, ~Loud
  PROVE  UsersNow' = UsersNow
  <1>1. \A q \in Requests : request'[q].pc = "speaking" <=> request[q].pc = "speaking"
    BY QuietSpeakers DEF Speaking
  <1>2. \A q \in Requests : request[q].pc = "speaking" /\ request'[q].pc = "speaking" =>
          request'[q].ask = request[q].ask
    BY RequestMoves DEF Moves
  <1>3. ASSUME NEW e \in Engines
        PROVE  Users(e)' = Users(e)
    <2>1. \A u : u \in Users(e)' <=> u \in Users(e)
      BY <1>1, <1>2, UsersMember, UsersMemberNext
    <2> QED
      BY <2>1 DEF Users
  <1> QED
    BY <1>3 DEF UsersNow

LEMMA UsersJoin ==
  ASSUME IInv, NEW r \in Requests, Hit(r) \/ Loaded(r)
  PROVE  UsersNow' = [UsersNow EXCEPT ![request[r].ask.engine] =
                        @ \cup {<<r, request[r].ask.variant>>}]
  <1> DEFINE ask == request[r].ask
  <1>1. /\ request[r].pc = "queued" /\ request'[r].pc = "speaking"
        /\ request'[r].ask = ask /\ ask.engine \in Engines
        /\ \A q \in Requests : q # r => request'[q] = request[q]
    BY LeaseTaken
  <1>2. ASSUME NEW e \in Engines
        PROVE  Users(e)' = IF e = ask.engine THEN Users(e) \cup {<<r, ask.variant>>} ELSE Users(e)
    <2>1. \A u : u \in Users(e)' <=>
            u \in Users(e) \/ (e = ask.engine /\ u = <<r, ask.variant>>)
      BY <1>1, UsersMember, UsersMemberNext
    <2> QED
      BY <2>1 DEF Users
  <1> HIDE DEF ask
  <1>3. UsersNow' = [UsersNow EXCEPT ![ask.engine] = @ \cup {<<r, ask.variant>>}]
    BY <1>1, <1>2 DEF UsersNow
  <1> QED
    BY <1>3 DEF ask

LEMMA UsersLeave ==
  ASSUME IInv, NEW r \in Requests, Release(r)
  PROVE  /\ UsersNow' = [UsersNow EXCEPT ![request[r].ask.engine] =
                           @ \ {<<r, request[r].ask.variant>>}]
         /\ <<r, request[r].ask.variant>> \in UsersNow[request[r].ask.engine]
  <1> DEFINE ask == request[r].ask
  <1>1. /\ request[r].pc = "speaking" /\ request'[r].pc # "speaking"
        /\ ask.engine \in Engines
        /\ \A q \in Requests : q # r =>
             /\ request'[q].pc = "speaking" <=> request[q].pc = "speaking"
             /\ request[q].pc = "speaking" => request'[q] = request[q]
    BY LeaseGiven
  <1>2. ASSUME NEW e \in Engines
        PROVE  Users(e)' = IF e = ask.engine THEN Users(e) \ {<<r, ask.variant>>} ELSE Users(e)
    <2>1. \A u : u \in Users(e)' <=>
            u \in Users(e) /\ ~(e = ask.engine /\ u = <<r, ask.variant>>)
      BY <1>1, UsersMember, UsersMemberNext
    <2> QED
      BY <2>1 DEF Users
  <1>3. <<r, ask.variant>> \in UsersNow[ask.engine]
    BY <1>1, UsersMember DEF UsersNow
  <1> HIDE DEF ask
  <1>4. UsersNow' = [UsersNow EXCEPT ![ask.engine] = @ \ {<<r, ask.variant>>}]
    BY <1>1, <1>2 DEF UsersNow
  <1> QED
    BY <1>3, <1>4 DEF ask

(* A model without a lease has no user. *)
LEMMA UsersNone ==
  ASSUME IInv, NEW e \in Engines, residents[e].leases = 0
  PROVE  UsersNow[e] = {}
  <1>1. SpeakersOf(e) = {}
    BY SpokenIsLeased DEF SpeakersOf
  <1> QED
    BY <1>1 DEF UsersNow, Users

----------------------------------------------------------------------------
(* The refinement, step by step.                                           *)

LEMMA PolicyMoves ==
  ASSUME [Next]_vars
  PROVE  UNCHANGED policy \/ \E c \in Calls : Patch(c) \/ Swapped(c)
  BY DEF Next, LockStep, AcquireStep, CallStep, vars, Tick, StopExpiry, Acquire, Hit, SwitchVariant, Miss, RoomMade, Spawned, Loaded, LoadFailed, TimeOut, Sleep, WakeByTimer, Release, Expire, Expired, TimerFires, WorkerDies, StartCall, CallBlocked, PollAgain, CallGranted, Forgotten, SwapWakes, Freed, Rearm

LEMMA Rebudgets ==
  ASSUME IInv', SlotsNow' = SlotsNow, UsersNow' = UsersNow
  PROVE  Slots!SlotsNext
  <1>1. policy'.max \in MaxResident
    BY DEF IInv, TypeOK, Policy
  <1> QED
    BY <1>1 DEF Slots!SlotsNext, Slots!Rebudget, SlotsNow, UsersNow

LEMMA Vacates ==
  ASSUME NEW e \in Engines, UsersNow[e] = {}, UsersNow' = UsersNow, UNCHANGED policy,
         SlotsNow' = [SlotsNow EXCEPT ![e] = None]
  PROVE  Slots!SlotsNext
  <1>1. Slots!Vacate(e)
    BY DEF Slots!Vacate, SlotsNow, UsersNow
  <1> QED
    BY <1>1 DEF Slots!SlotsNext

LEMMA Uses ==
  ASSUME NEW r \in Requests, NEW e \in Engines, NEW v \in Variants, SlotsNow[e] = v,
         UsersNow' = [UsersNow EXCEPT ![e] = @ \cup {<<r, v>>}], UNCHANGED policy,
         SlotsNow' = SlotsNow
  PROVE  Slots!SlotsNext
  <1>1. Slots!Use(r, e, v)
    BY DEF Slots!Use, SlotsNow, UsersNow
  <1> QED
    BY <1>1 DEF Slots!SlotsNext

LEMMA ClaimsOne ==
  ASSUME NEW e \in Engines, NEW v \in Variants, SlotsNow[e] = None,
         {m \in Engines : SlotsNow[m] # None} = Residents, Cardinality(Residents) < policy.max,
         SlotsNow' = [SlotsNow EXCEPT ![e] = v], UsersNow' = UsersNow, UNCHANGED policy
  PROVE  Slots!SlotsNext
  <1>1. Slots!Taken = Residents
    BY DEF Slots!Taken, SlotsNow
  <1>2. Slots!Claim(e, v)
    BY <1>1 DEF Slots!Claim, Slots!Cardinality, Cardinality, SlotsNow, UsersNow
  <1> QED
    BY <1>2 DEF Slots!SlotsNext

LEMMA SlotsStep ==
  IInv /\ IInv' /\ ClaimIsHeads /\ ClaimIsHeads' /\ [Next]_vars => Slots!SlotsNext
  <1> SUFFICES ASSUME IInv, IInv', ClaimIsHeads, ClaimIsHeads', [Next]_vars
               PROVE  Slots!SlotsNext
    OBVIOUS
  <1>1. ASSUME NEW c \in Calls, Patch(c)
        PROVE  Slots!SlotsNext
    <2>1. Waits /\ UNCHANGED <<residents, request>>
      BY <1>1, TasksTyped DEF Patch, Waits
    <2>2. SlotsNow' = SlotsNow
      BY <2>1, SlotsWait
    <2>3. UsersNow' = UsersNow
      BY <2>1 DEF UsersNow, Users, SpeakersOf
    <2> QED
      BY <2>2, <2>3, Rebudgets
  <1>2. ASSUME NEW c \in Calls, Swapped(c)
        PROVE  Slots!SlotsNext
    <2>1. HandsOn /\ ~Claiming /\ UNCHANGED <<residents, request>>
      BY <1>2 DEF Swapped, Serving, Running, CallEnds, Unlock, HandsOn, Claiming
    <2>2. SlotsNow' = SlotsNow
      BY <2>1, SlotsHandedOn
    <2>3. UsersNow' = UsersNow
      BY <2>1 DEF UsersNow, Users, SpeakersOf
    <2> QED
      BY <2>2, <2>3, Rebudgets
  <1>3. ASSUME NEW r \in Requests, Loaded(r), UNCHANGED policy
        PROVE  Slots!SlotsNext
    <2>1. /\ request[r].ask.engine \in Engines /\ request[r].ask.variant \in Variants
          /\ Claiming /\ Claims(r) /\ step.engine = request[r].ask.engine
      BY <1>3, AskTyped DEF Loaded, Acquiring, Running, Claiming, Claims
    <2>2. SlotsNow[request[r].ask.engine] = request[r].ask.variant
      BY <2>1, SlotOf DEF SlotsNow
    <2> QED
      BY <1>3, <2>1, <2>2, SlotLoading, UsersJoin, Uses
  <1>4. ASSUME NEW r \in Requests, Hit(r), UNCHANGED policy
        PROVE  Slots!SlotsNext
    <2>1. /\ request[r].ask.engine \in Engines /\ request[r].ask.variant \in Variants
          /\ ~Claiming /\ HandsOn
          /\ residents[request[r].ask.engine].variant = request[r].ask.variant
      BY <1>4, AskTyped DEF Hit, Acquiring, Running, Claiming, Unlock, HandsOn
    <2>2. \A e \in Engines : residents'[e].variant = residents[e].variant
      BY <1>4, <2>1, LeaseTaken
    <2>3. SlotsNow' = SlotsNow
      BY <2>1, <2>2, SlotsHandedOn
    <2>4. SlotsNow[request[r].ask.engine] = request[r].ask.variant
      BY <2>1, SlotsOfMap
    <2> QED
      BY <1>4, <2>1, <2>3, <2>4, UsersJoin, Uses
  <1>5. ASSUME NEW r \in Requests, Release(r), UNCHANGED policy
        PROVE  Slots!SlotsNext
    <2>1. request[r].ask.engine \in Engines /\ request[r].ask.variant \in Variants
      BY <1>5, AskTyped DEF Release
    <2>2. Waits
      BY <1>5, TasksTyped, WokenAsleep DEF Release, Waits, Wake
    <2>3. \A e \in Engines : residents'[e].variant = residents[e].variant
      BY <1>5, LeaseGiven
    <2>4. SlotsNow' = SlotsNow
      BY <2>2, <2>3, SlotsWait
    <2>5. Slots!Leave(r, request[r].ask.engine, request[r].ask.variant)
      BY <1>5, <2>4, UsersLeave DEF Slots!Leave, SlotsNow, UsersNow
    <2> QED
      BY <2>1, <2>5 DEF Slots!SlotsNext
  <1>6. ASSUME UNCHANGED policy, ~Loud
        PROVE  Slots!SlotsNext
    <2>1. UsersNow' = UsersNow
      BY <1>6, UsersQuiet
    <2>2. ASSUME NEW e \in Engines, LetsGoOf(e)
          PROVE  Slots!SlotsNext
      <3>1. ~Claiming /\ ~Claiming' /\ Drop(e) /\ residents[e].leases = 0
        BY <2>2 DEF LetsGoOf, Claiming, Await
      <3> QED
        BY <1>6, <2>1, <3>1, SlotsVacated, UsersNone, Vacates
    <2>3. ASSUME NEW r \in Requests, ClaimsSlot(r)
          PROVE  Slots!SlotsNext
      <3>1. request[r].ask.engine \in Engines /\ request[r].ask.variant \in Variants
        BY <2>3, AskTyped DEF ClaimsSlot
      <3>2. Cardinality(Residents) < policy.max
        BY <2>3 DEF ClaimsSlot
      <3> QED
        <4>1. {e \in Engines : SlotsNow[e] # None} = Residents
          BY <2>3, SlotClaimed
        <4>2. /\ SlotsNow' = [SlotsNow EXCEPT ![request[r].ask.engine] = request[r].ask.variant]
              /\ SlotsNow[request[r].ask.engine] = None
          BY <2>3, SlotClaimed
        <4> QED
          BY <1>6, <2>1, <3>1, <3>2, <4>1, <4>2, ClaimsOne
    <2>4. ASSUME NEW r \in Requests, GoesOnLoading(r)
          PROVE  Slots!SlotsNext
      BY <2>1, <2>4, SlotLoading, Rebudgets
    <2>5. ASSUME \A e \in Engines : residents'[e].variant = residents[e].variant, Waits
          PROVE  Slots!SlotsNext
      BY <2>1, <2>5, SlotsWait, Rebudgets
    <2>6. ASSUME \A e \in Engines : residents'[e].variant = residents[e].variant, HandsOn
          PROVE  Slots!SlotsNext
      <3>1. CASE ~Claiming
        BY <2>1, <2>6, <3>1, SlotsHandedOn, Rebudgets
      <3>2. CASE Claiming
        <4>1. PICK r \in Requests : Claims(r)
          BY <3>2 DEF ClaimIsHeads
        <4>2. step.engine \in Engines /\ step.engine \notin Residents
          BY <3>2, <4>1, AskTyped DEF Claims, Claiming, IInv, TransitIsHeads
        <4>3. UsersNow[step.engine] = {}
          BY <4>2, AbsentUnleased, UsersNone
        <4>4. SlotsNow' = [SlotsNow EXCEPT ![step.engine] = None]
          BY <2>6, <3>2, SlotsHandedOn
        <4> QED
          BY <1>6, <2>1, <4>2, <4>3, <4>4, Vacates
      <3> QED
        BY <3>1, <3>2
    <2>7. ~ \E r \in Requests : Loaded(r)
      BY <1>6 DEF Loud
    <2> QED
      BY <2>2, <2>3, <2>4, <2>5, <2>6, <2>7, VariantsMove, LockTurns
  <1> QED
    BY <1>1, <1>2, <1>3, <1>4, <1>5, <1>6, PolicyMoves DEF Loud

(* The residency manager implements the slots of ModelSlots, whatever      *)
(* workers fail and whatever operators do: it never claims past the        *)
(* budget, never takes a model from under a lease and never gives a        *)
(* request a variant it did not ask for (residency.manager.ts).            *)
THEOREM SlotsImplemented == Spec => ImplementsSlots
  <1>1. Init => Slots!SlotsInit
    <2>1. Init => \A e \in Engines : ClaimedSlot(e) = None
      BY DEF Init, ClaimedSlot, Absent, Granted
    <2>2. Init => \A e \in Engines : Users(e) = {}
      BY DEF Init, Users, SpeakersOf, Over
    <2>3. Init => policy.max \in MaxResident
      BY DEF Init
    <2> QED
      BY <2>1, <2>2, <2>3 DEF Slots!SlotsInit
  <1>2. Init => ClaimIsHeads
    BY DEF Init, ClaimIsHeads, Claiming, Granted
  <1>3. Spec => []IInv
    BY Invariance
  <1> QED
    BY <1>1, <1>2, <1>3, ClaimStep, SlotsStep, PTL
    DEF Spec, ImplementsSlots, Slots!SlotsSpec

----------------------------------------------------------------------------
(* Deadlines.                                                              *)

(* A settings change that waits for the lock waits until it rearms, and    *)
(* goes on knowing what it replaced.                                       *)
LEMMA RearmLasts ==
  ASSUME IInv, [Next]_vars, ~ \E c \in Calls : Rearm(c)
  PROVE  Rearming \subseteq Rearming' /\ Replaced \subseteq Replaced'
  <1> SUFFICES ASSUME NEW k \in Rearming
               PROVE  call'[k] = call[k]
    BY DEF Rearming, Replaced
  <1>0. call \in [Calls -> Call]
    BY DEF IInv, TypeOK
  <1>1. k \in Calls /\ call[k].pc = "queued" /\ call[k].job.kind = "settings"
    BY DEF Rearming
  <1>2. ASSUME NEW c \in Calls, StartCall(c) \/ Patch(c) \/ PollAgain(c) \/ SwapWakes(c)
        PROVE  call'[k] = call[k]
    BY <1>0, <1>1, <1>2 DEF StartCall, Patch, PollAgain, SwapWakes
  <1>3. ASSUME NEW c \in Calls, CallBlocked(c) \/ CallGranted(c)
        PROVE  call'[k] = call[k]
    BY <1>0, <1>1, <1>3 DEF CallBlocked, CallGranted, CallEnds
  <1>4. ASSUME NEW c \in Calls, Forgotten(c) \/ Swapped(c) \/ Freed(c)
        PROVE  call'[k] = call[k]
    BY <1>0, <1>1, <1>4 DEF Forgotten, Swapped, Freed, CallEnds
  <1> QED
    BY <1>2, <1>3, <1>4
    DEF Next, LockStep, AcquireStep, CallStep, vars, Tick, StopExpiry, Acquire, Hit, SwitchVariant, Miss, RoomMade, Spawned, Loaded, LoadFailed, TimeOut, Sleep, WakeByTimer, Release, Expire, Expired, TimerFires, WorkerDies

(* A model on the card stays declared, or stays unknown. *)
LEMMA DeclaredKept ==
  ASSUME IInv, [Next]_vars, NEW e \in Residents
  PROVE  e \in declared' <=> e \in declared
  <1>1. ASSUME NEW c \in Calls, Forgotten(c) \/ Swapped(c)
        PROVE  e \in declared' <=> e \in declared
    <2>1. e # call[c].job.engine
      BY <1>1 DEF Forgotten, Swapped, Serving, Running, IInv, TransitIsHeads
    <2> QED
      BY <1>1, <2>1 DEF Forgotten, Swapped
  <1> QED
    BY <1>1
    DEF Next, LockStep, AcquireStep, CallStep, vars, Tick, StopExpiry, Acquire, Hit, SwitchVariant, Miss, RoomMade, Spawned, Loaded, LoadFailed, TimeOut, Sleep, WakeByTimer, Release, Expire, Expired, TimerFires, WorkerDies, StartCall, Patch, CallBlocked, PollAgain, CallGranted, SwapWakes, Freed, Rearm

(* The keep-alive of a model on the card changes only by a settings change *)
(* that then waits to rearm and knows the settings it replaced.            *)
SameSettings(old, new, e) == old.engine[e] = new.engine[e] /\ old.keepAlive = new.keepAlive

LEMMA KeepAliveKept ==
  ASSUME IInv, [Next]_vars, NEW e \in Residents
  PROVE  \/ \E was \in Replaced' : SameSettings(policy, was, e)
         \/ SameSettings(policy, policy', e)
  <1>0. policy \in Policy /\ call \in [Calls -> Call] /\ e \in Engines
    BY DEF IInv, TypeOK, Residents
  <1>1. ASSUME NEW c \in Calls, Patch(c)
        PROVE  \/ \E was \in Replaced' : SameSettings(policy, was, e)
               \/ SameSettings(policy, policy', e)
    <2>1. ASSUME NEW n \in MaxResident, policy' = [policy EXCEPT !.max = n]
          PROVE  SameSettings(policy, policy', e)
      BY <1>0, <2>1 DEF Policy, SameSettings
    <2>2. ASSUME call' = [call EXCEPT ![c] = [@ EXCEPT !.pc = "queued", !.job = RearmJob]]
          PROVE  \E was \in Replaced' : SameSettings(policy, was, e)
      <3>1. call'[c] = [call[c] EXCEPT !.pc = "queued", !.job = RearmJob]
        BY <1>0, <2>2
      <3>2. call'[c].pc = "queued" /\ call'[c].job = RearmJob
        BY <1>0, <3>1 DEF Call
      <3>3. RearmJob.kind = "settings" /\ SameSettings(policy, RearmJob.was, e)
        BY DEF RearmJob, SameSettings
      <3>4. RearmJob.was \in Replaced'
        BY <3>2, <3>3 DEF Replaced, Rearming
      <3> QED
        BY <3>3, <3>4
    <2> QED
      BY <1>1, <2>1, <2>2 DEF Patch
  <1>2. ASSUME NEW c \in Calls, Swapped(c)
        PROVE  SameSettings(policy, policy', e)
    <2>1. e # call[c].job.engine
      BY <1>2 DEF Swapped, Serving, Running, IInv, TransitIsHeads
    <2>2. CASE UNCHANGED policy
      BY <2>2 DEF SameSettings
    <2>3. CASE policy' = [policy EXCEPT !.engine[call[c].job.engine] = call[c].entry]
      BY <1>0, <2>1, <2>3 DEF Policy, SameSettings
    <2> QED
      BY <1>2, <2>2, <2>3 DEF Swapped
  <1>3. CASE UNCHANGED policy
    BY <1>3 DEF SameSettings
  <1> QED
    BY <1>1, <1>2, <1>3
    DEF Next, LockStep, AcquireStep, CallStep, vars, Tick, StopExpiry, Acquire, Hit, SwitchVariant, Miss, RoomMade, Spawned, Loaded, LoadFailed, TimeOut, Sleep, WakeByTimer, Release, Expire, Expired, TimerFires, WorkerDies, StartCall, CallBlocked, PollAgain, CallGranted, Forgotten, SwapWakes, Freed, Rearm

(* armExpiry, on a model without a deadline: it has the one of its last    *)
(* use, and a timer, unless it is kept for ever.                           *)
LEMMA ArmedRight ==
  ASSUME TypeOK, NEW e \in Engines, NEW model \in Resident, model.expiresAt = Never
  PROVE  LET m == Armed(e, model)
             keep == KeepAliveOf(e, m)
         IN /\ m.leases = model.leases /\ m.variant = model.variant
            /\ keep >= 0 => m.armed /\ m.expiresAt = m.lastUsed + keep
            /\ keep < 0 => m.expiresAt = Never
  <1> DEFINE keep == KeepAliveOf(e, model)
             m == Armed(e, model)
  <1>1. keep \in Int
    BY KeepAliveTyped
  <1>2. CASE keep < 0
    <2>1. m = model
      BY <1>2 DEF Armed
    <2> QED
      BY <1>1, <1>2, <2>1
  <1>3. CASE ~(keep < 0)
    <2>1. m = [model EXCEPT !.expiresAt = model.lastUsed + keep, !.armed = TRUE]
      BY <1>3 DEF Armed
    <2> HIDE DEF m, keep
    <2>2. /\ m.leases = model.leases /\ m.variant = model.variant /\ m.keepAlive = model.keepAlive
          /\ m.lastUsed = model.lastUsed /\ m.armed = TRUE /\ m.expiresAt = model.lastUsed + keep
      BY <2>1 DEF Resident
    <2>3. KeepAliveOf(e, m) = keep
      BY <2>2 DEF KeepAliveOf, KeepAliveUnder, keep
    <2> QED
      BY <1>1, <1>3, <2>2, <2>3 DEF m
  <1> QED
    BY <1>1, <1>2, <1>3

(* What a step may do to a model that stays on the card: nothing, fire its *)
(* timer, take its deadline away while it is held or the core goes down,   *)
(* or arm it anew.                                                         *)
Kept(e) == e \in Residents /\ residents'[e] = residents[e]
Undated(e) == residents'[e].expiresAt = Never /\ (residents'[e].leases # 0 \/ stopping')
Rearmed(e) ==
  /\ UNCHANGED <<policy, declared>>
  /\ \E model \in Resident :
       model.expiresAt = Never /\ model.leases = 0 /\ residents'[e] = Armed(e, model)

LEMMA DropKeeps ==
  ASSUME IInv, NEW d \in Engines, Drop(d), NEW e \in Residents'
  PROVE  Kept(e)
  <1>1. e # d /\ e \in Residents
    BY DropAbsent
  <1> QED
    BY <1>1 DEF Drop, Kept, IInv, TypeOK, Residents

LEMMA RearmsAll ==
  ASSUME IInv, DeadlineCurrent, NEW c \in Calls, Rearm(c), NEW e \in Residents'
  PROVE  Undated(e) \/ Rearmed(e)
  <1> DEFINE bare == [residents[e] EXCEPT !.armed = FALSE, !.expiresAt = Never]
  <1>0. /\ e \in Engines /\ residents[e] \in Resident /\ TypeOK
    BY DEF IInv, TypeOK, Residents
  <1>1. /\ bare \in Resident /\ bare.expiresAt = Never
        /\ bare.leases = residents[e].leases /\ bare.variant = residents[e].variant
    BY <1>0, DisarmedTyped DEF Resident
  <1>2. residents'[e] = IF e \in Idle THEN Armed(e, bare) ELSE residents[e]
    BY <1>0 DEF Rearm
  <1> HIDE DEF bare
  <1>3. CASE e \in Idle
    <2>1. bare.leases = 0
      BY <1>1, <1>3 DEF Idle
    <2> QED
      BY <1>1, <1>2, <1>3, <2>1 DEF Rearmed, Rearm
  <1>4. CASE e \notin Idle
    <2>1. residents'[e] = residents[e] /\ e \in Residents
      BY <1>2, <1>4 DEF Residents
    <2>2. residents[e].leases # 0
      BY <1>4, <2>1 DEF Idle
    <2> QED
      BY <2>1, <2>2 DEF DeadlineCurrent, Undated
  <1> QED
    BY <1>3, <1>4

LEMMA ModelMoves ==
  ASSUME IInv, DeadlineCurrent, [Next]_vars, NEW e \in Residents'
  PROVE  Kept(e) \/ TimerFires(e) \/ Undated(e) \/ Rearmed(e)
  <1>0. /\ e \in Engines /\ TypeOK /\ residents \in [Engines -> Resident] /\ now \in Nat
    BY ResidencyAssumption DEF IInv, TypeOK, Residents
  <1>1. CASE UNCHANGED residents
    BY <1>1 DEF Kept, Residents
  <1>2. ASSUME NEW d \in Engines, Drop(d)
        PROVE  Kept(e)
    BY <1>2, DropKeeps
  <1>3. ASSUME NEW r \in Requests, MakeRoom(r)
        PROVE  Kept(e)
    <2>1. LeastRecentlyUsed \subseteq Engines
      BY DEF LeastRecentlyUsed, Idle, Residents
    <2> QED
      BY <1>1, <1>2, <1>3, <2>1 DEF MakeRoom, Refuse, Kept, Residents
  <1>4. ASSUME NEW r \in Requests, Hit(r)
        PROVE  Kept(e) \/ Undated(e)
    <2> DEFINE ask == request[r].ask
    <2>1. /\ ask.engine \in Engines /\ ask.keepAlive \in KeepAlives \cup {Unset}
          /\ residents' = [residents EXCEPT ![ask.engine] = Held(@, ask.keepAlive)]
      BY <1>4, AskTyped DEF Hit, Acquiring
    <2>2. CASE e = ask.engine
      <3>1. residents[e] \in Resident /\ residents'[e] = Held(residents[e], ask.keepAlive)
        BY <1>0, <2>1, <2>2
      <3>2. residents'[e].expiresAt = Never /\ residents'[e].leases = residents[e].leases + 1
        BY <1>0, <2>1, <3>1, HeldLease
      <3>3. residents[e].leases \in Nat
        BY <3>1 DEF Resident
      <3> QED
        BY <3>2, <3>3 DEF Undated
    <2>3. CASE e # ask.engine
      BY <1>0, <2>1, <2>3 DEF Kept, Residents
    <2> QED
      BY <2>2, <2>3
  <1>5. ASSUME NEW r \in Requests, Loaded(r)
        PROVE  Kept(e) \/ Undated(e)
    <2> DEFINE ask == request[r].ask
               fresh == [Absent EXCEPT !.variant = ask.variant, !.object = loads[ask.engine] + 1]
    <2>1. /\ ask.engine \in Engines /\ ask.keepAlive \in KeepAlives \cup {Unset}
          /\ ask.variant \in Variants
          /\ residents' = [residents EXCEPT ![ask.engine] = Held(fresh, ask.keepAlive)]
      BY <1>5, AskTyped DEF Loaded, Acquiring
    <2>2. loads[ask.engine] + 1 \in Nat
      BY <2>1 DEF IInv, TypeOK
    <2>3. fresh \in Resident /\ fresh.leases = 0
      BY <2>1, <2>2, AbsentTyped DEF Resident, Absent
    <2> HIDE DEF fresh
    <2>4. CASE e = ask.engine
      <3>1. residents'[e] = Held(fresh, ask.keepAlive)
        BY <1>0, <2>1, <2>4
      <3>2. residents'[e].expiresAt = Never /\ residents'[e].leases = 0 + 1
        BY <1>0, <2>1, <2>3, <3>1, HeldLease
      <3> QED
        BY <3>2 DEF Undated
    <2>5. CASE e # ask.engine
      BY <1>0, <2>1, <2>5 DEF Kept, Residents
    <2> QED
      BY <2>4, <2>5
  <1>6. ASSUME NEW r \in Requests, Release(r)
        PROVE  Kept(e) \/ Undated(e) \/ Rearmed(e)
    <2> DEFINE a == request[r].ask.engine
               model == residents[e]
               left == [model EXCEPT !.leases = IF @ = 0 THEN 0 ELSE @ - 1, !.lastUsed = now]
    <2>1. /\ a \in Engines /\ residents[a].leases # 0
          /\ residents[a].variant = request[r].ask.variant /\ request[r].ask.variant \in Variants
      BY <1>6, AskTyped, SpokenIsLeased DEF Release, IInv, SpokenIsResident
    <2>2. residents' = [residents EXCEPT ![a] = LetGo(a, @)] /\ UNCHANGED <<policy, declared>>
      BY <1>6 DEF Release
    <2>3. CASE e = a
      <3>1. residents'[e] = LetGo(e, model) /\ model \in Resident /\ model.leases # 0
        BY <1>0, <2>1, <2>2, <2>3
      <3>2. model.expiresAt = Never
        <4>1. e \in Residents
          BY <2>1, <2>3, ResidencyAssumption DEF Residents
        <4> QED
          BY <3>1, <4>1 DEF DeadlineCurrent
      <3>3. LetGo(e, model) = IF left.leases = 0 THEN Armed(e, left) ELSE left
        BY DEF LetGo
      <3>4. left \in Resident /\ left.expiresAt = Never
        <4>1. (IF model.leases = 0 THEN 0 ELSE model.leases - 1) \in Nat
          BY <3>1 DEF Resident
        <4> QED
          BY <1>0, <3>1, <3>2, <4>1 DEF Resident
      <3> HIDE DEF left
      <3> QED
        BY <2>2, <3>1, <3>3, <3>4 DEF Undated, Rearmed
    <2>4. CASE e # a
      BY <1>0, <2>2, <2>4 DEF Kept, Residents
    <2> QED
      BY <2>3, <2>4
  <1>7. ASSUME NEW d \in Engines, TimerFires(d)
        PROVE  Kept(e) \/ TimerFires(e)
    BY <1>0, <1>7 DEF TimerFires, Kept, Residents
  <1>8. ASSUME StopExpiry
        PROVE  Undated(e)
    <2>1. residents'[e] = [residents[e] EXCEPT !.armed = FALSE, !.expiresAt = Never]
      BY <1>0, <1>8 DEF StopExpiry
    <2> QED
      BY <1>0, <1>8, <2>1 DEF StopExpiry, Undated, Resident
  <1>9. ASSUME NEW c \in Calls, Rearm(c)
        PROVE  Undated(e) \/ Rearmed(e)
    BY <1>9, RearmsAll
  <1>10. ASSUME NEW r \in Requests, SwitchVariant(r)
        PROVE  Kept(e)
    BY <1>1, <1>2, <1>10, AskTyped DEF SwitchVariant, Acquiring, Refuse, Kept, Residents
  <1>11. ASSUME NEW d \in Engines, Expire(d)
        PROVE  Kept(e)
    BY <1>1, <1>2, <1>11 DEF Expire, Kept, Residents
  <1>12. ASSUME NEW c \in Calls, CallGranted(c)
        PROVE  Kept(e)
    BY <1>1, <1>2, <1>12, JobTyped DEF CallGranted, Serving, Kept, Residents
  <1> QED
    BY <1>1, <1>3, <1>4, <1>5, <1>6, <1>7, <1>8, <1>9, <1>10, <1>11, <1>12
    DEF Next, LockStep, AcquireStep, CallStep, vars, Tick, Fail, Acquire, Miss, RoomMade, Spawned, LoadFailed, TimeOut, Sleep, WakeByTimer, Expired, WorkerDies, StartCall, Patch, CallBlocked, PollAgain, Forgotten, Swapped, SwapWakes, Freed

(* A deadline that stays as it is stays the one of its settings.           *)
LEMMA DeadlineStays ==
  ASSUME IInv, DeadlineCurrent, [Next]_vars, NEW e \in Residents,
         Kept(e) \/ TimerFires(e), residents[e].expiresAt # Never,
         ~ \E c \in Calls : Rearm(c)
  PROVE  /\ residents'[e].leases = 0
         /\ SetBy(policy, e)' \/ \E settings \in Replaced' : SetBy(settings, e)'
  <1>0. e \in Engines /\ residents[e] \in Resident /\ residents \in [Engines -> Resident]
    BY DEF IInv, TypeOK, Residents
  <1>1. /\ residents'[e].leases = residents[e].leases
        /\ residents'[e].expiresAt = residents[e].expiresAt
        /\ residents'[e].lastUsed = residents[e].lastUsed
        /\ residents'[e].keepAlive = residents[e].keepAlive
    <2>1. CASE Kept(e)
      BY <2>1 DEF Kept
    <2>2. CASE TimerFires(e)
      <3>1. residents'[e] = [residents[e] EXCEPT !.armed = FALSE]
        BY <1>0, <2>2 DEF TimerFires
      <3> QED
        BY <1>0, <3>1 DEF Resident
    <2> QED
      BY <2>1, <2>2
  <1>2. ASSUME NEW old, NEW new, SameSettings(old, new, e), SetBy(old, e)
        PROVE  SetBy(new, e)'
    BY <1>1, <1>2, DeclaredKept DEF SameSettings, SetBy, KeepAliveUnder
  <1>3. CASE SetBy(policy, e)
    <2>1. CASE SameSettings(policy, policy', e)
      BY <1>1, <1>3, <2>1, DeclaredKept DEF SameSettings, SetBy, KeepAliveUnder, DeadlineCurrent
    <2>2. CASE \E was \in Replaced' : SameSettings(policy, was, e)
      BY <1>1, <1>2, <1>3, <2>2 DEF DeadlineCurrent
    <2> QED
      BY <2>1, <2>2, KeepAliveKept
  <1>4. CASE \E settings \in Replaced : SetBy(settings, e)
    <2>1. PICK was \in Replaced : SetBy(was, e)
      BY <1>4
    <2>2. was \in Replaced' /\ SameSettings(was, was, e)
      BY <2>1, RearmLasts DEF SameSettings
    <2> QED
      BY <1>1, <1>2, <2>1, <2>2 DEF DeadlineCurrent
  <1> QED
    BY <1>3, <1>4 DEF DeadlineCurrent

LEMMA DeadlineStep == IInv /\ DeadlineCurrent /\ [Next]_vars => DeadlineCurrent'
  <1> SUFFICES ASSUME IInv, DeadlineCurrent, [Next]_vars, NEW e \in Residents',
                      residents'[e].expiresAt # Never
               PROVE  /\ residents'[e].leases = 0
                      /\ SetBy(policy, e)' \/ \E settings \in Replaced' : SetBy(settings, e)'
    BY DEF DeadlineCurrent
  <1> DEFINE model == residents'[e]
  <1>0. e \in Engines /\ TypeOK /\ residents[e] \in Resident
    BY DEF IInv, TypeOK, Residents
  <1>1. CASE Rearmed(e)
    <2>1. PICK m \in Resident : m.expiresAt = Never /\ m.leases = 0 /\ model = Armed(e, m)
      BY <1>1 DEF Rearmed
    <2>2. KeepAliveOf(e, model) \in Int
      BY <1>0, <2>1, ArmedDeadline, KeepAliveTyped
    <2>3. /\ model.leases = 0 /\ KeepAliveOf(e, model) >= 0
          /\ model.expiresAt = model.lastUsed + KeepAliveOf(e, model)
      BY <1>0, <2>1, <2>2, ArmedRight
    <2> QED
      BY <1>1, <2>3 DEF Rearmed, SetBy, KeepAliveOf, KeepAliveUnder
  <1>2. CASE (Kept(e) \/ TimerFires(e)) /\ ~Rearmed(e)
    <2>1. e \in Residents /\ residents[e].expiresAt # Never
      <3>1. CASE Kept(e)
        BY <3>1 DEF Kept
      <3>2. CASE TimerFires(e)
        <4>1. model = [residents[e] EXCEPT !.armed = FALSE]
          BY <1>0, <3>2 DEF TimerFires, TypeOK
        <4>2. model.variant = residents[e].variant /\ model.expiresAt = residents[e].expiresAt
          BY <1>0, <4>1 DEF Resident
        <4> QED
          BY <1>0, <4>2 DEF Residents
      <3> QED
        BY <1>2, <3>1, <3>2
    <2>2. ~ \E c \in Calls : Rearm(c)
      BY <1>2, RearmsAll DEF Undated
    <2> QED
      BY <1>2, <2>1, <2>2, DeadlineStays
  <1>3. ~Undated(e)
    BY DEF Undated
  <1> QED
    BY <1>1, <1>2, <1>3, ModelMoves

(* An expiry takes the lock holder to "expiring" only on a model that is   *)
(* due at that moment, by a deadline of its last use.                      *)
LEMMA ExpiryStep ==
  ASSUME IInv, DeadlineCurrent, [Next]_vars, NEW e \in Residents,
         step'.at = "expiring", step'.engine = e
  PROVE  DueUnder(policy, e) \/ \E settings \in Replaced : DueUnder(settings, e)
  <1>1. Expire(e)
    <2>1. ~Waits
      BY DEF Waits, IInv, TransitIsHeads
    <2>2. ~HandsOn
      BY DEF HandsOn, Granted
    <2>3. \A r \in Requests : ~ClaimsSlot(r) /\ ~GoesOnLoading(r)
      BY DEF ClaimsSlot, GoesOnLoading, Await
    <2>4. PICK d \in Engines : LetsGoOf(d)
      BY <2>1, <2>2, <2>3, LockTurns
    <2>5. PICK place \in Places : Await(place, d) /\ (place = "expiring" => Expire(d))
      BY <2>4 DEF LetsGoOf
    <2> QED
      BY <2>5 DEF Await
  <1>2. PICK task \in [kind : {"expire"}, by : {e}, object : 1 .. loads[e]] :
          (~StillDue(task) /\ Unlock) \/ StillDue(task)
    BY <1>1 DEF Expire
  <1>3. task.by = e /\ StillDue(task)
    BY <1>2 DEF Unlock, Granted
  <1>4. residents[e].expiresAt # Never /\ residents[e].expiresAt <= now
    BY <1>3 DEF StillDue
  <1>5. ASSUME NEW settings, SetBy(settings, e)
        PROVE  DueUnder(settings, e)
    BY <1>4, <1>5 DEF SetBy, DueUnder
  <1> QED
    BY <1>4, <1>5 DEF DeadlineCurrent

----------------------------------------------------------------------------
(* An idle model with a keep-alive has a timer, or its timer has fired and *)
(* the callback is on its way to the lock.                                 *)

ExpiryQueued(e) == \E i \in 1 .. Len(lockQueue) : lockQueue[i] = ExpireTask(e)

WillExpire(e) ==
  ~stopping /\ ~RearmPending /\ KeepAliveOf(e, residents[e]) >= 0 =>
    /\ residents[e].expiresAt = residents[e].lastUsed + KeepAliveOf(e, residents[e])
    /\ residents[e].armed \/ (residents[e].expiresAt <= now /\ ExpiryQueued(e))

IdleWatched == \A e \in Idle : WillExpire(e)

(* Outside the lock, tasks only join the queue. *)
LEMMA QueueJoined ==
  ASSUME IInv, [Next]_vars, ~LockStep
  PROVE  UNCHANGED lockQueue \/ \E task \in Task : lockQueue' = Append(lockQueue, task)
  <1>1. ASSUME NEW r \in Requests, Acquire(r) \/ WakeByTimer(r) \/ Release(r)
        PROVE  UNCHANGED lockQueue \/ \E task \in Task : lockQueue' = Append(lockQueue, task)
    BY <1>1, TasksTyped, WokenAsleep DEF Acquire, WakeByTimer, Release, Wake
  <1>2. ASSUME NEW c \in Calls, StartCall(c) \/ Patch(c) \/ PollAgain(c) \/ SwapWakes(c)
        PROVE  UNCHANGED lockQueue \/ \E task \in Task : lockQueue' = Append(lockQueue, task)
    BY <1>2, TasksTyped, WokenAsleep DEF StartCall, Patch, PollAgain, SwapWakes, Wake
  <1>3. ASSUME NEW e \in Engines, TimerFires(e)
        PROVE  \E task \in Task : lockQueue' = Append(lockQueue, task)
    BY <1>3, TasksTyped DEF TimerFires, IInv
  <1>4. CASE UNCHANGED lockQueue
    BY <1>4
  <1> QED
    BY <1>1, <1>2, <1>3, <1>4
    DEF Next, vars, Tick, StopExpiry, TimeOut, Sleep, WorkerDies

(* What a step may do to the lock queue. *)
LEMMA QueueMoves ==
  ASSUME IInv, [Next]_vars
  PROVE  \/ UNCHANGED lockQueue
         \/ \E task \in Task : lockQueue' = Append(lockQueue, task)
         \/ lockQueue # <<>> /\ lockQueue' = Tail(lockQueue)
  <1>1. ASSUME NEW r \in Requests, SwitchVariant(r) \/ Miss(r) \/ RoomMade(r)
        PROVE  UNCHANGED lockQueue \/ (lockQueue # <<>> /\ lockQueue' = Tail(lockQueue))
    BY <1>1 DEF SwitchVariant, Miss, RoomMade, Acquiring, Running, MakeRoom, Refuse, Unlock
  <1>2. ASSUME NEW r \in Requests, Hit(r) \/ Spawned(r) \/ Loaded(r) \/ LoadFailed(r)
        PROVE  UNCHANGED lockQueue \/ (lockQueue # <<>> /\ lockQueue' = Tail(lockQueue))
    BY <1>2 DEF Hit, Spawned, Loaded, LoadFailed, Acquiring, Running, Fail, Unlock
  <1>3. ASSUME NEW e \in Engines, Expire(e) \/ Expired(e)
        PROVE  UNCHANGED lockQueue \/ (lockQueue # <<>> /\ lockQueue' = Tail(lockQueue))
    BY <1>3 DEF Expire, Expired, Running, Unlock
  <1>4. ASSUME NEW c \in Calls, CallStep(c)
        PROVE  UNCHANGED lockQueue \/ (lockQueue # <<>> /\ lockQueue' = Tail(lockQueue))
    BY <1>4 DEF CallStep, CallBlocked, CallGranted, Forgotten, Swapped, Freed, Rearm, Serving, Running, CallEnds, Unlock
  <1> QED
    BY <1>1, <1>2, <1>3, <1>4, QueueJoined DEF LockStep, AcquireStep

(* The callback of a model that is due and stays on the card stays queued: *)
(* only an expiry of this very model would take it, and that takes the     *)
(* model with it.                                                          *)
LEMMA ExpiryStaysQueued ==
  ASSUME IInv, [Next]_vars, NEW e \in Idle, e \in Residents', ExpiryQueued(e),
         residents'[e].object = residents[e].object,
         residents[e].expiresAt # Never, residents[e].expiresAt <= now
  PROVE  ExpiryQueued(e)'
  <1> DEFINE task == ExpireTask(e)
  <1>0. /\ lockQueue \in Seq(Task) /\ Len(lockQueue) \in Nat /\ e \in Engines
        /\ ExpireTask(e)' = task
    BY DEF IInv, TypeOK, Residents, ExpireTask
  <1>1. PICK i \in 1 .. Len(lockQueue) : lockQueue[i] = task
    BY DEF ExpiryQueued
  <1>2. CASE UNCHANGED lockQueue
    BY <1>0, <1>1, <1>2 DEF ExpiryQueued
  <1>3. ASSUME NEW more \in Task, lockQueue' = Append(lockQueue, more)
        PROVE  ExpiryQueued(e)'
    <2>1. i \in 1 .. Len(lockQueue') /\ lockQueue'[i] = task
      BY <1>0, <1>1, <1>3, AppendProperties
    <2> QED
      BY <1>0, <2>1 DEF ExpiryQueued
  <1>4. CASE lockQueue # <<>> /\ lockQueue' = Tail(lockQueue)
    <2>1. CASE i # 1
      <3>1. i - 1 \in 1 .. Len(lockQueue') /\ lockQueue'[i - 1] = task
        BY <1>0, <1>1, <1>4, <2>1, HeadTailProperties
      <3> QED
        BY <1>0, <3>1 DEF ExpiryQueued
    <2>2. CASE i = 1
      <3>1. Head(lockQueue) = task
        BY <1>0, <1>1, <1>4, <2>2
      <3>2. task.kind = "expire" /\ task.by = e /\ task.object = residents[e].object
        BY DEF ExpireTask
      <3>3. lockQueue' # lockQueue /\ \A more \in Task : lockQueue' # Append(lockQueue, more)
        <4>1. Len(lockQueue') = Len(lockQueue) - 1
          BY <1>0, <1>4
        <4>2. \A more \in Task : Len(Append(lockQueue, more)) = Len(lockQueue) + 1
          BY <1>0
        <4> QED
          BY <1>0, <4>1, <4>2
      <3>4. PICK d \in Engines : Expire(d) \/ Expired(d)
        <4>1. \A r \in Requests : ~AcquireStep(r)
          BY <3>1, <3>2 DEF AcquireStep, Hit, SwitchVariant, Miss, RoomMade, Spawned, Loaded, LoadFailed, Acquiring, Running, AcquireTask
        <4>2. ASSUME NEW c \in Calls, CallStep(c)
              PROVE  FALSE
          <5>1. CallTask(c).kind = "call"
            BY DEF CallTask
          <5>2. Head(lockQueue) = CallTask(c)
            BY <4>2 DEF CallStep, CallBlocked, CallGranted, Forgotten, Swapped, Freed, Rearm, Serving, Running
          <5> QED
            BY <3>1, <3>2, <5>1, <5>2
        <4>3. LockStep
          BY <3>3, QueueJoined
        <4> QED
          BY <4>1, <4>2, <4>3 DEF LockStep
      <3>5. ~Expired(d)
        <4>1. ASSUME Expired(d)
              PROVE  FALSE
          <5>1. d = e /\ step.engine = e /\ step.at # "granted"
            BY <3>1, <3>2, <4>1 DEF Expired, Running
          <5> QED
            BY <5>1 DEF IInv, TransitIsHeads, Idle
        <4> QED
          BY <4>1
      <3>6. PICK mine \in [kind : {"expire"}, by : {d}, object : 1 .. loads[d]] :
              /\ Running(mine, "granted", None)
              /\ \/ ~StillDue(mine)
                 \/ StillDue(mine) /\ UNCHANGED lockQueue
        BY <3>4, <3>5 DEF Expire
      <3>7. mine = task
        BY <3>1, <3>6 DEF Running
      <3>8. StillDue(mine)
        BY <3>2, <3>7 DEF StillDue, Idle, Residents
      <3> QED
        BY <3>3, <3>6, <3>8
    <2> QED
      BY <2>1, <2>2
  <1> QED
    BY <1>2, <1>3, <1>4, QueueMoves

LEMMA WatchedStep ==
  IInv /\ IInv' /\ DeadlineCurrent /\ IdleWatched /\ [Next]_vars => IdleWatched'
  <1> SUFFICES ASSUME IInv, IInv', DeadlineCurrent, IdleWatched, [Next]_vars, NEW e \in Idle',
                      ~stopping', ~RearmPending', KeepAliveOf(e, residents[e])' >= 0
               PROVE  /\ residents'[e].expiresAt
                           = residents'[e].lastUsed + KeepAliveOf(e, residents[e])'
                      /\ \/ residents'[e].armed
                         \/ residents'[e].expiresAt <= now' /\ ExpiryQueued(e)'
    BY DEF IdleWatched, WillExpire
  <1> DEFINE model == residents'[e]
  <1>0. /\ e \in Engines /\ e \in Residents' /\ TypeOK /\ residents[e] \in Resident
        /\ model.leases = 0
    BY DEF IInv, TypeOK, Residents, Idle
  <1>1. ~Undated(e)
    BY <1>0 DEF Undated
  <1>2. CASE Rearmed(e)
    <2>1. PICK m \in Resident : m.expiresAt = Never /\ m.leases = 0 /\ model = Armed(e, m)
      BY <1>2 DEF Rearmed
    <2>2. KeepAliveOf(e, residents[e])' = KeepAliveOf(e, model)
      BY <1>2 DEF Rearmed, KeepAliveOf, KeepAliveUnder
    <2> QED
      BY <1>0, <2>1, <2>2, ArmedRight
  <1>3. ASSUME Kept(e) \/ TimerFires(e), ~Rearmed(e)
        PROVE  /\ model.expiresAt = model.lastUsed + KeepAliveOf(e, residents[e])'
               /\ model.armed \/ (model.expiresAt <= now' /\ ExpiryQueued(e)')
    <2>1. /\ model.leases = residents[e].leases /\ model.expiresAt = residents[e].expiresAt
          /\ model.lastUsed = residents[e].lastUsed /\ model.keepAlive = residents[e].keepAlive
          /\ model.variant = residents[e].variant /\ model.object = residents[e].object
      <3>1. CASE Kept(e)
        BY <3>1 DEF Kept
      <3>2. CASE TimerFires(e)
        <4>1. model = [residents[e] EXCEPT !.armed = FALSE]
          BY <1>0, <3>2 DEF TimerFires, TypeOK
        <4> QED
          BY <1>0, <4>1 DEF Resident
      <3> QED
        BY <1>3, <3>1, <3>2
    <2>2. e \in Idle /\ e \in Residents
      BY <1>0, <2>1 DEF Residents, Idle
    <2>3. ~ \E c \in Calls : Rearm(c)
      BY <1>0, <1>1, <1>3, RearmsAll
    <2>4. ~RearmPending
      BY <2>3, RearmLasts DEF RearmPending
    <2>5. ~stopping
      <3>1. stopping => stopping'
        BY DEF Next, LockStep, AcquireStep, CallStep, vars, Tick, StopExpiry, Acquire, Hit, SwitchVariant, Miss, RoomMade, Spawned, Loaded, LoadFailed, TimeOut, Sleep, WakeByTimer, Release, Expire, Expired, TimerFires, WorkerDies, StartCall, Patch, CallBlocked, PollAgain, CallGranted, Forgotten, Swapped, SwapWakes, Freed, Rearm
      <3> QED
        BY <3>1
    <2>6. KeepAliveOf(e, residents[e])' = KeepAliveOf(e, residents[e])
      <3>1. SameSettings(policy, policy', e)
        BY <2>2, KeepAliveKept DEF RearmPending, Replaced
      <3> QED
        BY <2>1, <2>2, <3>1, DeclaredKept DEF SameSettings, KeepAliveOf, KeepAliveUnder
    <2>7. /\ residents[e].expiresAt = residents[e].lastUsed + KeepAliveOf(e, residents[e])
          /\ residents[e].armed \/ (residents[e].expiresAt <= now /\ ExpiryQueued(e))
      BY <2>2, <2>4, <2>5, <2>6 DEF IdleWatched, WillExpire
    <2>8. /\ now <= now' /\ now \in Nat /\ now' \in Nat
          /\ residents[e].expiresAt \in Nat \cup {Never}
      <3>1. now \in Nat /\ now' \in Nat
        BY ResidencyAssumption DEF IInv, TypeOK
      <3>2. now' = now \/ now' = now + 1
        BY DEF Next, LockStep, AcquireStep, CallStep, vars, Tick, StopExpiry, Acquire, Hit, SwitchVariant, Miss, RoomMade, Spawned, Loaded, LoadFailed, TimeOut, Sleep, WakeByTimer, Release, Expire, Expired, TimerFires, WorkerDies, StartCall, Patch, CallBlocked, PollAgain, CallGranted, Forgotten, Swapped, SwapWakes, Freed, Rearm
      <3> QED
        BY <1>0, <3>1, <3>2 DEF Resident
    <2>9. residents[e].expiresAt # Never
      <3>1. residents[e].lastUsed \in Nat /\ KeepAliveOf(e, residents[e]) \in Int
        BY <1>0, KeepAliveTyped DEF Resident
      <3> QED
        BY <2>6, <2>7, <3>1 DEF Never
    <2>10. CASE TimerFires(e)
      <3>1. residents[e].expiresAt <= now /\ now' = now
        BY <2>8, <2>9, <2>10 DEF TimerFires
      <3>2. ExpiryQueued(e)'
        <4>1. lockQueue \in Seq(Task) /\ ExpireTask(e) \in Task /\ lockQueue' = Append(lockQueue, ExpireTask(e))
          BY <1>0, <2>10, TasksTyped DEF TimerFires, TypeOK
        <4>2. ExpireTask(e)' = ExpireTask(e)
          BY <2>1 DEF ExpireTask
        <4>3. /\ Len(lockQueue') \in 1 .. Len(lockQueue')
              /\ lockQueue'[Len(lockQueue')] = ExpireTask(e)
          BY <4>1, AppendProperties
        <4> QED
          BY <4>2, <4>3 DEF ExpiryQueued
      <3> QED
        BY <2>1, <2>6, <2>7, <3>1, <3>2
    <2>11. CASE Kept(e) /\ residents[e].armed
      <3>1. model = residents[e]
        BY <2>11 DEF Kept
      <3> QED
        BY <2>6, <2>7, <2>11, <3>1
    <2>12. CASE Kept(e) /\ residents[e].expiresAt <= now /\ ExpiryQueued(e)
      <3>1. ExpiryQueued(e)'
        BY <1>0, <2>1, <2>2, <2>9, <2>12, ExpiryStaysQueued
      <3>2. residents[e].expiresAt <= now'
        BY <2>8, <2>9, <2>12
      <3> QED
        BY <2>1, <2>6, <2>7, <3>1, <3>2
    <2> QED
      BY <1>3, <2>7, <2>10, <2>11, <2>12
  <1> QED
    BY <1>0, <1>1, <1>2, <1>3, ModelMoves

----------------------------------------------------------------------------
LEMMA DeadlineInit == Init => DeadlineCurrent /\ IdleWatched
  <1> SUFFICES ASSUME Init
               PROVE  Residents = {}
    BY DEF DeadlineCurrent, IdleWatched, Idle
  <1> QED
    BY DEF Init, Residents, Absent

LEMMA Deadlines == Spec => [](IInv /\ DeadlineCurrent /\ IdleWatched)
  BY DeadlineInit, DeadlineStep, WatchedStep, Invariance, PTL DEF Spec

(* A timer never takes a model used within its keep-alive: the callback    *)
(* judges the deadline it finds under the lock, which every use and every  *)
(* release moves (armExpiry, residency.manager.ts).  The keep-alive is the *)
(* one in force, or one replaced by a settings change that waits behind    *)
(* the callback and so rearms too late for it.                             *)
THEOREM NeverExpiredEarly == Spec => ExpiryHonoursLastUse
  <1> DEFINE Honours ==
        \A e \in Residents : step'.at = "expiring" /\ step'.engine = e =>
          DueUnder(policy, e) \/ \E settings \in Replaced : DueUnder(settings, e)
  <1>1. IInv /\ DeadlineCurrent /\ [Next]_vars => Honours
    BY ExpiryStep
  <1>2. Spec => [][Honours]_vars
    BY <1>1, Deadlines, PTL DEF Spec
  <1> QED
    BY <1>2 DEF ExpiryHonoursLastUse

(* No idle model with a keep-alive is left on the card with nobody to take *)
(* it off: its timer is armed, or has queued its callback (scheduleExpiry, *)
(* rearmExpiry).                                                           *)
THEOREM NeverForgotten == Spec => []IdleWillExpire
  <1>1. IdleWatched => IdleWillExpire
    BY DEF IdleWatched, WillExpire, ExpiryQueued, IdleWillExpire
  <1> QED
    BY <1>1, Deadlines, PTL

----------------------------------------------------------------------------
(* What the workers hold is what the Map lists, when no unload, stop or    *)
(* swap fails and no load finishes after the core gave it up.              *)

Prompt == Faults \cap {"lateload", "unload", "stop", "swap"} = {}
Listed == OnCard \subseteq Residents

(* Where the lock holder is not on its way to take a model off, the Map    *)
(* lists every model.                                                      *)
LEMMA ListedBetween ==
  ASSUME NothingUnaccounted, step = Granted \/ Claiming
  PROVE  Listed
  <1>1. None \notin Engines
    BY ResidencyAssumption
  <1> QED
    BY <1>1 DEF NothingUnaccounted, Listed, OnCard, Granted, Claiming

LEMMA ListedIsAccounted ==
  ASSUME Listed'
  PROVE  NothingUnaccounted'
  BY DEF Listed, NothingUnaccounted

(* The release the lock holder waited for leaves nothing else to account for. *)
LEMMA ListedOnceReleased ==
  ASSUME TypeOK, NothingUnaccounted, NEW m \in Engines, step.engine = m,
         card' = [card EXCEPT ![m] = None]
  PROVE  OnCard' \subseteq Residents
  <1>1. \A e \in OnCard' : e \in OnCard /\ e # m
    BY DEF OnCard, TypeOK
  <1> QED
    BY <1>1 DEF NothingUnaccounted

(* Where everything is listed, a model taken out of the Map is the one the *)
(* lock holder goes on to take off the card.                               *)
LEMMA DropAccounted ==
  ASSUME TypeOK, NEW m \in Engines, OnCard' \subseteq Residents, Drop(m),
         NEW place, Await(place, m), place \notin {"spawning", "loading"}
  PROVE  NothingUnaccounted'
  <1>1. \A e \in Residents : e # m => e \in Residents'
    BY DEF Drop, Residents, TypeOK
  <1> QED
    BY <1>1 DEF NothingUnaccounted, Await

LEMMA MakeRoomAccounted ==
  ASSUME TypeOK, NEW r \in Requests, OnCard' \subseteq Residents, MakeRoom(r)
  PROVE  NothingUnaccounted'
  <1>1. CASE UNCHANGED residents
    BY <1>1, ListedIsAccounted DEF Listed, Residents
  <1>2. ASSUME NEW victim \in LeastRecentlyUsed, Drop(victim), Await("evicting", victim)
        PROVE  NothingUnaccounted'
    BY <1>2, DropAccounted DEF LeastRecentlyUsed, Idle, Residents
  <1> QED
    BY <1>1, <1>2 DEF MakeRoom, Refuse

LEMMA AccountedStep ==
  ASSUME Prompt, IInv, NothingUnaccounted, [Next]_vars
  PROVE  NothingUnaccounted'
  <1>0. /\ TypeOK /\ card \in [Engines -> Variants \cup {None}]
        /\ residents \in [Engines -> Resident]
    BY DEF IInv, TypeOK
  <1>1. ASSUME NEW r \in Requests, Hit(r)
        PROVE  NothingUnaccounted'
    <2>1. Listed /\ UNCHANGED card /\ residents[request[r].ask.engine].variant = request[r].ask.variant
      BY <1>1, ListedBetween DEF Hit, Acquiring, Running, Granted
    <2>2. Residents' = Residents
      BY <1>1, <2>1, LeaseTaken DEF Residents
    <2> QED
      BY <2>1, <2>2, ListedIsAccounted DEF Listed, OnCard
  <1>2. ASSUME NEW r \in Requests, SwitchVariant(r)
        PROVE  NothingUnaccounted'
    <2>1. Listed /\ UNCHANGED card /\ request[r].ask.engine \in Engines
      BY <1>2, ListedBetween, AskTyped DEF SwitchVariant, Acquiring, Running, Granted
    <2>2. CASE UNCHANGED residents
      BY <2>1, <2>2, ListedIsAccounted DEF Listed, OnCard, Residents
    <2>3. CASE Drop(request[r].ask.engine) /\ Await("unloading", request[r].ask.engine)
      BY <1>0, <2>1, <2>3, DropAccounted DEF Listed, OnCard
    <2> QED
      BY <1>2, <2>2, <2>3 DEF SwitchVariant, Refuse
  <1>3. ASSUME NEW r \in Requests, Miss(r)
        PROVE  NothingUnaccounted'
    <2>1. Listed /\ UNCHANGED card /\ MakeRoom(r)
      BY <1>3, ListedBetween DEF Miss, Acquiring, Running, Granted
    <2> QED
      BY <1>0, <2>1, MakeRoomAccounted DEF Listed, OnCard
  <1>4. ASSUME NEW r \in Requests, RoomMade(r)
        PROVE  NothingUnaccounted'
    <2>1. PICK m \in Engines : step.engine = m /\ card' = [card EXCEPT ![m] = None]
      BY <1>4 DEF RoomMade, Acquiring, Running, Released, Prompt
    <2>2. OnCard' \subseteq Residents
      BY <1>0, <2>1, ListedOnceReleased
    <2> QED
      BY <1>0, <1>4, <2>2, MakeRoomAccounted DEF RoomMade
  <1>5. ASSUME NEW r \in Requests, Spawned(r)
        PROVE  NothingUnaccounted'
    <2>1. Listed /\ UNCHANGED <<card, residents>>
      BY <1>5, ListedBetween DEF Spawned, Acquiring, Running, Claiming, Fail
    <2> QED
      BY <2>1, ListedIsAccounted DEF Listed, OnCard, Residents
  <1>6. ASSUME NEW r \in Requests, Loaded(r)
        PROVE  NothingUnaccounted'
    <2> DEFINE ask == request[r].ask
    <2>1. Listed /\ card' = [card EXCEPT ![ask.engine] = ask.variant]
      BY <1>6, ListedBetween DEF Loaded, Acquiring, Running, Claiming
    <2>2. /\ ask.engine \in Engines /\ ask.variant # None
          /\ residents'[ask.engine].variant = ask.variant
          /\ \A e \in Engines : e # ask.engine => residents'[e] = residents[e]
      <3>1. request[r].pc = "queued"
        BY <1>6 DEF Loaded, Acquiring
      <3>2. ask.variant \in Variants /\ ask.variant # None
        BY <3>1, AskTyped, ResidencyAssumption
      <3> QED
        BY <1>6, <3>2, LeaseTaken
    <2>3. \A e \in OnCard' : e \in Residents'
      BY <1>0, <2>1, <2>2 DEF Listed, OnCard, Residents
    <2> QED
      BY <2>3, ListedIsAccounted DEF Listed
  <1>7. ASSUME NEW r \in Requests, LoadFailed(r)
        PROVE  NothingUnaccounted'
    <2>1. /\ request[r].ask.engine \in Engines /\ step.engine = request[r].ask.engine
          /\ card' = [card EXCEPT ![request[r].ask.engine] = None] /\ UNCHANGED residents
      BY <1>7, AskTyped DEF LoadFailed, Acquiring, Running, Fail, Prompt
    <2>2. OnCard' \subseteq Residents
      BY <1>0, <2>1, ListedOnceReleased
    <2> QED
      BY <2>1, <2>2, ListedIsAccounted DEF Listed, Residents
  <1>8. ASSUME NEW e \in Engines, Expire(e)
        PROVE  NothingUnaccounted'
    <2>1. Listed /\ UNCHANGED card
      BY <1>8, ListedBetween DEF Expire, Running, Granted
    <2>2. CASE UNCHANGED residents
      BY <2>1, <2>2, ListedIsAccounted DEF Listed, OnCard, Residents
    <2>3. CASE Drop(e) /\ Await("expiring", e)
      BY <1>0, <2>1, <2>3, DropAccounted DEF Listed, OnCard
    <2> QED
      BY <1>8, <2>2, <2>3 DEF Expire
  <1>9. ASSUME NEW e \in Engines, Expired(e)
        PROVE  NothingUnaccounted'
    <2>1. step.engine = e /\ card' = [card EXCEPT ![e] = None] /\ UNCHANGED residents
      BY <1>9 DEF Expired, Running, Released, Prompt
    <2> QED
      BY <1>0, <2>1, ListedOnceReleased, ListedIsAccounted DEF Listed, Residents
  <1>10. ASSUME NEW c \in Calls, CallBlocked(c)
        PROVE  NothingUnaccounted'
    <2>1. Listed /\ UNCHANGED <<card, residents>>
      BY <1>10, ListedBetween DEF CallBlocked, Serving, Running, Granted
    <2> QED
      BY <2>1, ListedIsAccounted DEF Listed, OnCard, Residents
  <1>11. ASSUME NEW c \in Calls, CallGranted(c)
        PROVE  NothingUnaccounted'
    <2>1. Listed /\ UNCHANGED card /\ call[c].job.engine \in Engines
      BY <1>11, ListedBetween, JobTyped DEF CallGranted, Serving, Running, Granted
    <2>2. CASE UNCHANGED residents
      BY <2>1, <2>2, ListedIsAccounted DEF Listed, OnCard, Residents
    <2>3. ASSUME NEW place \in {"removing", "swapping", "freeing"},
                 Drop(call[c].job.engine), Await(place, call[c].job.engine)
          PROVE  NothingUnaccounted'
      BY <1>0, <2>1, <2>3, DropAccounted DEF Listed, OnCard
    <2> QED
      BY <1>11, <2>2, <2>3 DEF CallGranted
  <1>12. ASSUME NEW c \in Calls, Forgotten(c) \/ Swapped(c) \/ Freed(c)
        PROVE  NothingUnaccounted'
    <2>1. /\ step.engine = call[c].job.engine /\ call[c].job.engine \in Engines
          /\ UNCHANGED residents
      BY <1>12, JobTyped DEF Forgotten, Swapped, Freed, Serving, Running
    <2>2. card' = [card EXCEPT ![call[c].job.engine] = None]
      BY <1>12 DEF Forgotten, Swapped, Freed, Released, Prompt
    <2> QED
      BY <1>0, <2>1, <2>2, ListedOnceReleased, ListedIsAccounted DEF Listed, Residents
  <1>13. ASSUME NEW c \in Calls, Rearm(c)
        PROVE  NothingUnaccounted'
    <2>1. Listed /\ UNCHANGED card
      BY <1>13, ListedBetween DEF Rearm, Serving, Running, Granted
    <2>2. \A m \in Engines : residents'[m].variant = residents[m].variant
      BY <1>0, <1>13, DisarmedTyped, ArmedDeadline DEF Rearm
    <2> QED
      BY <2>1, <2>2, ListedIsAccounted DEF Listed, OnCard, Residents
  <1>14. CASE ~LockStep
    <2>1. UNCHANGED step /\ OnCard' \subseteq OnCard
      <3>1. UNCHANGED <<step, card>> \/ \E e \in Engines : WorkerDies(e)
        BY <1>14 DEF Next, vars, Tick, Acquire, TimeOut, Sleep, WakeByTimer, Release, StartCall, Patch, PollAgain, SwapWakes, TimerFires, StopExpiry
      <3>2. CASE UNCHANGED <<step, card>>
        BY <3>2 DEF OnCard
      <3>3. ASSUME NEW e \in Engines, WorkerDies(e)
            PROVE  UNCHANGED step /\ OnCard' \subseteq OnCard
        BY <1>0, <3>3 DEF WorkerDies, OnCard
      <3> QED
        BY <3>1, <3>2, <3>3
    <2>2. Residents' = Residents
      <3>1. \A m \in Engines : residents'[m].variant = residents[m].variant
        <4>1. ASSUME NEW r \in Requests, Release(r)
              PROVE  \A m \in Engines : residents'[m].variant = residents[m].variant
          BY <4>1, LeaseGiven
        <4>2. ASSUME NEW e \in Engines, TimerFires(e)
              PROVE  \A m \in Engines : residents'[m].variant = residents[m].variant
          BY <1>0, <4>2, DisarmedTyped DEF TimerFires, Resident
        <4>3. StopExpiry => \A m \in Engines : residents'[m].variant = residents[m].variant
          BY <1>0, DisarmedTyped DEF StopExpiry
        <4>4. CASE UNCHANGED residents
          BY <4>4
        <4> QED
          BY <1>14, <4>1, <4>2, <4>3, <4>4 DEF Next, vars, Tick, Acquire, TimeOut, Sleep, WakeByTimer, StartCall, Patch, PollAgain, SwapWakes, WorkerDies
      <3> QED
        BY <3>1 DEF Residents
    <2> QED
      BY <2>1, <2>2 DEF NothingUnaccounted
  <1> QED
    BY <1>1, <1>2, <1>3, <1>4, <1>5, <1>6, <1>7, <1>8, <1>9, <1>10, <1>11, <1>12, <1>13, <1>14
    DEF LockStep, AcquireStep, CallStep

(* models() is every model on the card: no worker holds one the Map does   *)
(* not list, save the one the lock holder is taking off (stop, #unload and *)
(* #release swallow their failures, which is the hypothesis: with one of   *)
(* those failures, or a load that ends late, it is false).                 *)
THEOREM EverythingListed ==
  ASSUME Prompt
  PROVE  Spec => []NothingUnaccounted
  <1>1. Init => NothingUnaccounted
    BY DEF Init, NothingUnaccounted, OnCard
  <1>2. IInv /\ NothingUnaccounted /\ [Next]_vars => NothingUnaccounted'
    BY AccountedStep
  <1> QED
    BY <1>1, <1>2, Invariance, PTL DEF Spec

=============================================================================
