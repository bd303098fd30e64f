--------------------------- MODULE ResidencyProofs ---------------------------
(***************************************************************************)
(* The safety of the residency manager, for every number of requests,      *)
(* calls, engines and variants, every budget and every bound on the clock. *)
(***************************************************************************)
EXTENDS Residency, FiniteSetTheorems, TLAPS

----------------------------------------------------------------------------
(* What the helpers on residents return. *)

LEMMA AbsentTyped == Absent \in Resident
  BY DEF Absent, Resident, Never

(* hold keeps the type and the variant, adds one lease and leaves no deadline. *)
LEMMA HeldLease ==
  ASSUME NEW model \in Resident, NEW wanted \in KeepAlives \cup {Unset}, now \in Nat
  PROVE  /\ Held(model, wanted) \in Resident
         /\ Held(model, wanted).variant = model.variant
         /\ Held(model, wanted).leases = model.leases + 1
         /\ Held(model, wanted).expiresAt = Never
  <1>1. model.leases + 1 \in Nat
    BY DEF Resident
  <1> QED
    BY <1>1 DEF Held, Resident, Never

LEMMA KeepAliveTyped ==
  ASSUME TypeOK, NEW e \in Engines, NEW model \in Resident
  PROVE  KeepAliveOf(e, model) \in KeepAlives /\ KeepAliveOf(e, model) \in Int
  <1>1. /\ policy.keepAlive \in KeepAlives
        /\ policy.engine[e] \in KeepAlives \cup {Unset}
    BY DEF TypeOK, Policy
  <1>2. model.keepAlive \in KeepAlives \cup {Unset}
    BY DEF Resident
  <1>3. KeepAliveOf(e, model) \in KeepAlives
    BY <1>1, <1>2 DEF KeepAliveOf, KeepAliveUnder
  <1>4. KeepAlives \subseteq Int
    BY ResidencyAssumption
  <1> QED
    BY <1>3, <1>4

(* armExpiry touches the deadline and the timer only. *)
LEMMA ArmedDeadline ==
  ASSUME TypeOK, NEW e \in Engines, NEW model \in Resident
  PROVE  /\ Armed(e, model) \in Resident
         /\ Armed(e, model).variant = model.variant
         /\ Armed(e, model).leases = model.leases
  <1> DEFINE keep == KeepAliveOf(e, model)
  <1>1. keep \in Int
    BY KeepAliveTyped
  <1>2. model.lastUsed \in Nat
    BY DEF Resident
  <1>3. keep >= 0 => model.lastUsed + keep \in Nat
    BY <1>1, <1>2
  <1>4. CASE keep < 0
    BY <1>4 DEF Armed
  <1>5. CASE ~(keep < 0)
    <2>1. Armed(e, model) = [model EXCEPT !.expiresAt = model.lastUsed + keep, !.armed = TRUE]
      BY <1>5 DEF Armed
    <2>2. model.lastUsed + keep \in Nat
      BY <1>1, <1>3, <1>5
    <2> HIDE DEF keep
    <2> QED
      BY <2>1, <2>2 DEF Resident
  <1> QED
    BY <1>4, <1>5

(* A release keeps the type and the variant and takes one lease, if there is one. *)
LEMMA LetGoLease ==
  ASSUME TypeOK, NEW e \in Engines, NEW model \in Resident
  PROVE  /\ LetGo(e, model) \in Resident
         /\ LetGo(e, model).variant = model.variant
         /\ LetGo(e, model).leases = IF model.leases = 0 THEN 0 ELSE model.leases - 1
  <1> DEFINE left == [model EXCEPT !.leases = IF @ = 0 THEN 0 ELSE @ - 1, !.lastUsed = now]
  <1>1. /\ left \in Resident
        /\ left.variant = model.variant
        /\ left.leases = IF model.leases = 0 THEN 0 ELSE model.leases - 1
    <2>1. now \in Nat
      BY ResidencyAssumption DEF TypeOK
    <2>2. model.leases \in Nat
      BY DEF Resident
    <2>3. (IF model.leases = 0 THEN 0 ELSE model.leases - 1) \in Nat
      BY <2>2
    <2> QED
      BY <2>1, <2>3 DEF Resident
  <1>2. /\ Armed(e, left) \in Resident
        /\ Armed(e, left).variant = left.variant
        /\ Armed(e, left).leases = left.leases
    <2> HIDE DEF left
    <2> QED BY <1>1, ArmedDeadline
  <1>3. LetGo(e, model) = IF left.leases = 0 THEN Armed(e, left) ELSE left
    BY DEF LetGo
  <1> HIDE DEF left
  <1> QED
    BY <1>1, <1>2, <1>3

(* A request in the manager's hands has a well-formed ask. *)
LEMMA AskTyped ==
  ASSUME IInv, NEW r \in Requests,
         request[r].pc \in {"queued", "refused", "asleep", "speaking"}
  PROVE  /\ request[r].ask \in Ask
         /\ request[r].ask.engine \in Engines
         /\ request[r].ask.variant \in Variants
         /\ request[r].ask.keepAlive \in KeepAlives \cup {Unset}
  <1>1. request[r].ask \in Ask
    BY DEF IInv, AskKnown
  <1> QED
    BY <1>1 DEF Ask

LEMMA TasksTyped ==
  /\ \A r \in Requests : AcquireTask(r) \in Task
  /\ \A c \in Calls : CallTask(c) \in Task
  /\ TypeOK => \A e \in Engines : ExpireTask(e) \in Task
  BY DEF AcquireTask, CallTask, ExpireTask, Task, TypeOK, Resident

LEMMA RequestTyped ==
  /\ \A q \in Request : [q EXCEPT !.pc = "queued"] \in Request
  /\ \A q \in Request : [q EXCEPT !.pc = "refused"] \in Request
  /\ \A q \in Request : [q EXCEPT !.pc = "speaking"] \in Request
  /\ \A q \in Request, t \in Nat : [q EXCEPT !.pc = "asleep", !.due = t] \in Request
  /\ \A how \in {"idle", "done", "timedout", "failed"} : Over(how) \in Request
  BY DEF Over, Request

(* A move of a request leaves its ask alone. *)
LEMMA RequestFields ==
  ASSUME NEW q \in Request
  PROVE  /\ [q EXCEPT !.pc = "queued"].pc = "queued" /\ [q EXCEPT !.pc = "queued"].ask = q.ask
         /\ [q EXCEPT !.pc = "refused"].pc = "refused" /\ [q EXCEPT !.pc = "refused"].ask = q.ask
         /\ [q EXCEPT !.pc = "speaking"].pc = "speaking" /\ [q EXCEPT !.pc = "speaking"].ask = q.ask
         /\ \A t : [q EXCEPT !.pc = "asleep", !.due = t].pc = "asleep"
         /\ \A t : [q EXCEPT !.pc = "asleep", !.due = t].ask = q.ask
  BY DEF Request

LEMMA CallTyped ==
  /\ \A c \in Call : [c EXCEPT !.pc = "queued"] \in Call
  /\ \A c \in Call, t \in Nat : [c EXCEPT !.pc = "polling", !.due = t] \in Call
  /\ \A c \in Call, job \in Job : [c EXCEPT !.pc = "queued", !.job = job] \in Call
  /\ \A how \in {"idle", "done", "swapped", "conflict", "failed"} : CallOver(how) \in Call
  BY DEF CallOver, Call

LEMMA RearmTyped == policy \in Policy => RearmJob \in Job
  BY DEF Policy, RearmJob, Job, Tuning

LEMMA UnlockTyped ==
  ASSUME TypeOK, lockQueue # <<>>, Unlock
  PROVE  lockQueue' \in Seq(Task) /\ step' \in [at : Places, engine : Engines \cup {None}]
  BY DEF TypeOK, Unlock, Granted, Places

LEMMA DropTyped ==
  ASSUME TypeOK, NEW e \in Engines, Drop(e)
  PROVE  residents' \in [Engines -> Resident]
  BY AbsentTyped DEF TypeOK, Drop

LEMMA JobTyped ==
  ASSUME IInv, NEW c \in Calls, call[c].pc \in {"queued", "polling"},
         call[c].job.kind # "settings"
  PROVE  call[c].job.engine \in Engines
  BY DEF IInv, JobKnown, Job

LEMMA DisarmedTyped ==
  ASSUME NEW model \in Resident
  PROVE  /\ [model EXCEPT !.armed = FALSE] \in Resident
         /\ [model EXCEPT !.armed = FALSE, !.expiresAt = Never] \in Resident
         /\ [model EXCEPT !.armed = FALSE, !.expiresAt = Never].variant = model.variant
         /\ [model EXCEPT !.armed = FALSE, !.expiresAt = Never].leases = model.leases
  BY DEF Resident, Never

LEMMA PolicyTyped ==
  ASSUME NEW pol \in Policy
  PROVE  /\ \A n \in MaxResident : [pol EXCEPT !.max = n] \in Policy
         /\ \A n \in MaxResident, s \in KeepAlives :
              [pol EXCEPT !.max = n, !.keepAlive = s] \in Policy
         /\ \A e \in Engines, s \in KeepAlives \cup {Unset} :
              /\ [pol EXCEPT !.engine[e] = s] \in Policy
              /\ [pol EXCEPT !.engine[e] = s, !.stored[e] = s] \in Policy
  BY DEF Policy

(* A wake shortens the waiters, lengthens the lock queue and touches one sleeper only. *)
LEMMA WakeTyped ==
  ASSUME TypeOK, Wake
  PROVE  waiters' \in Seq(Requests \cup {Spent}) /\ lockQueue' \in Seq(Task)
  <1>1. Woken \subseteq Requests
    BY DEF TypeOK, Woken
  <1>2. lockQueue' \in Seq(Task)
    <2>1. CASE Woken = {} /\ UNCHANGED lockQueue
      BY <2>1 DEF TypeOK
    <2>2. CASE \E r \in Woken : lockQueue' = Append(lockQueue, AcquireTask(r))
      BY <1>1, <2>2, TasksTyped DEF TypeOK
    <2> QED
      BY <2>1, <2>2 DEF Wake
  <1> QED
    BY <1>2 DEF TypeOK, Wake

LEMMA RousedTyped ==
  ASSUME NEW requests \in [Requests -> Request]
  PROVE  Roused(requests) \in [Requests -> Request]
  BY RequestTyped DEF Roused

(* Whatever way the loop of tryAcquire goes. *)
LEMMA MakeRoomTyped ==
  ASSUME IInv, NEW r \in Requests, request[r].pc = "queued", lockQueue # <<>>, MakeRoom(r)
  PROVE  /\ residents' \in [Engines -> Resident]
         /\ lockQueue' \in Seq(Task)
         /\ step' \in [at : Places, engine : Engines \cup {None}]
         /\ request' \in [Requests -> Request]
  <1> USE DEF TypeOK
  <1>1. TypeOK
    BY DEF IInv
  <1>2. CASE /\ Await("spawning", request[r].ask.engine)
             /\ UNCHANGED <<residents, request, lockQueue>>
    BY <1>1, <1>2, AskTyped DEF Await, Places
  <1>3. CASE Refuse(r)
    BY <1>1, <1>3, UnlockTyped, RequestTyped DEF Refuse
  <1>4. CASE \E victim \in LeastRecentlyUsed :
               /\ Drop(victim) /\ Await("evicting", victim)
               /\ UNCHANGED <<request, lockQueue>>
    <2>1. PICK victim \in LeastRecentlyUsed :
            /\ Drop(victim) /\ Await("evicting", victim)
            /\ UNCHANGED <<request, lockQueue>>
      BY <1>4
    <2>2. victim \in Engines
      BY DEF LeastRecentlyUsed, Idle, Residents
    <2> QED
      BY <1>1, <2>1, <2>2, DropTyped DEF Await, Places
  <1> QED
    BY <1>2, <1>3, <1>4 DEF MakeRoom


LEMMA TypedStep == IInv /\ [Next]_vars => TypeOK'
  <1> SUFFICES ASSUME IInv, [Next]_vars
               PROVE  TypeOK'
    OBVIOUS
  <1> USE DEF TypeOK
  <1>0. TypeOK /\ now \in Nat
    BY ResidencyAssumption DEF IInv
  <1>p. policy \in Policy
    BY <1>0
  <1>c. call \in [Calls -> Call]
    BY <1>0
  <1>1. ASSUME Tick PROVE TypeOK'
    BY <1>0, <1>1, ResidencyAssumption DEF Tick
  <1>2. ASSUME NEW r \in Requests, Acquire(r) PROVE TypeOK'
    <2>1. PICK ask \in Ask :
            request' = [request EXCEPT ![r] = [pc |-> "queued", ask |-> ask,
                          deadline |-> now + EvictionWait, due |-> 0]]
      BY <1>2 DEF Acquire
    <2>2. now + EvictionWait \in Nat
      BY <1>0, ResidencyAssumption
    <2>3. request' \in [Requests -> Request]
      BY <1>0, <2>1, <2>2 DEF Request
    <2>4. lockQueue' \in Seq(Task)
      BY <1>0, <1>2, TasksTyped DEF Acquire
    <2> QED
      BY <1>0, <1>2, <2>3, <2>4 DEF Acquire
  <1>3. ASSUME NEW r \in Requests, Hit(r) PROVE TypeOK'
    BY <1>0, <1>3, AbsentTyped, HeldLease, ArmedDeadline, LetGoLease, AskTyped, TasksTyped, RequestTyped, CallTyped, UnlockTyped, DropTyped, MakeRoomTyped DEF Hit, Running, Acquiring, Serving, Await, Refuse, Fail, Released, Wake, Woken, Roused, CallEnds, Places, Granted
  <1>4. ASSUME NEW r \in Requests, SwitchVariant(r) PROVE TypeOK'
    <2>1. request[r].pc = "queued" /\ lockQueue # <<>> /\ request[r].ask.engine \in Engines
      BY <1>4, AskTyped DEF SwitchVariant, Acquiring, Running
    <2>2. CASE Refuse(r)
      BY <1>0, <1>4, <2>1, <2>2, RequestTyped, UnlockTyped DEF SwitchVariant, Refuse
    <2>3. CASE /\ Drop(request[r].ask.engine)
               /\ Await("unloading", request[r].ask.engine)
               /\ UNCHANGED <<request, lockQueue>>
      BY <1>0, <1>4, <2>1, <2>3, DropTyped DEF SwitchVariant, Await, Places
    <2> QED
      BY <1>4, <2>2, <2>3 DEF SwitchVariant
  <1>5. ASSUME NEW r \in Requests, Miss(r) PROVE TypeOK'
    BY <1>0, <1>5, AbsentTyped, HeldLease, ArmedDeadline, LetGoLease, AskTyped, TasksTyped, RequestTyped, CallTyped, UnlockTyped, DropTyped, MakeRoomTyped DEF Miss, Running, Acquiring, Serving, Await, Refuse, Fail, Released, Wake, Woken, Roused, CallEnds, Places, Granted
  <1>6. ASSUME NEW r \in Requests, RoomMade(r) PROVE TypeOK'
    BY <1>0, <1>6, AbsentTyped, HeldLease, ArmedDeadline, LetGoLease, AskTyped, TasksTyped, RequestTyped, CallTyped, UnlockTyped, DropTyped, MakeRoomTyped DEF RoomMade, Running, Acquiring, Serving, Await, Refuse, Fail, Released, Wake, Woken, Roused, CallEnds, Places, Granted
  <1>7. ASSUME NEW r \in Requests, Spawned(r) PROVE TypeOK'
    <2>1. request[r].pc = "queued" /\ lockQueue # <<>> /\ request[r].ask.engine \in Engines
      BY <1>7, AskTyped DEF Spawned, Acquiring, Running
    <2>2. CASE Fail(r) /\ UNCHANGED observed
      BY <1>0, <1>7, <2>1, <2>2, RequestTyped, UnlockTyped DEF Spawned, Fail
    <2>3. CASE /\ Await("loading", request[r].ask.engine)
               /\ observed' = [observed EXCEPT ![request[r].ask.engine] = "loading"]
               /\ UNCHANGED <<residents, request, lockQueue>>
      BY <1>0, <1>7, <2>1, <2>3 DEF Spawned, Await, Places
    <2> QED
      BY <1>7, <2>2, <2>3 DEF Spawned
  <1>8. ASSUME NEW r \in Requests, Loaded(r) PROVE TypeOK'
    <2> DEFINE e == request[r].ask.engine
               fresh == [Absent EXCEPT !.variant = request[r].ask.variant,
                                       !.object = loads[e] + 1]
    <2>1. request[r].pc = "queued" /\ lockQueue # <<>>
      BY <1>8 DEF Loaded, Acquiring, Running
    <2>2. e \in Engines /\ loads[e] + 1 \in Nat
      BY <1>0, <2>1, AskTyped
    <2>3. fresh \in Resident
      BY <2>1, <2>2, AskTyped, AbsentTyped DEF Resident
    <2>4. Held(fresh, request[r].ask.keepAlive) \in Resident
      <3> HIDE DEF fresh
      <3> QED
        BY <1>0, <2>1, <2>3, AskTyped, HeldLease
    <2>5. residents' \in [Engines -> Resident]
      BY <1>0, <1>8, <2>2, <2>4 DEF Loaded
    <2>6. /\ loads' \in [Engines -> Nat]
          /\ card' \in [Engines -> Variants \cup {None}]
          /\ observed' \in [Engines -> {"unloaded", "loading", "loaded"}]
          /\ request' \in [Requests -> Request]
      BY <1>0, <1>8, <2>1, <2>2, AskTyped, RequestTyped DEF Loaded
    <2> QED
      BY <1>0, <1>8, <2>1, <2>5, <2>6, UnlockTyped DEF Loaded
  <1>9. ASSUME NEW r \in Requests, LoadFailed(r) PROVE TypeOK'
    BY <1>0, <1>9, AbsentTyped, HeldLease, ArmedDeadline, LetGoLease, AskTyped, TasksTyped, RequestTyped, CallTyped, UnlockTyped, DropTyped, MakeRoomTyped DEF LoadFailed, Running, Acquiring, Serving, Await, Refuse, Fail, Released, Wake, Woken, Roused, CallEnds, Places, Granted
  <1>10. ASSUME NEW r \in Requests, TimeOut(r) PROVE TypeOK'
    BY <1>0, <1>10, AbsentTyped, HeldLease, ArmedDeadline, LetGoLease, AskTyped, TasksTyped, RequestTyped, CallTyped, UnlockTyped, DropTyped, MakeRoomTyped DEF TimeOut, Running, Acquiring, Serving, Await, Refuse, Fail, Released, Wake, Woken, Roused, CallEnds, Places, Granted
  <1>11. ASSUME NEW r \in Requests, Sleep(r) PROVE TypeOK'
    <2>1. (IF request[r].deadline > now THEN request[r].deadline ELSE now + 1) \in Nat
      BY <1>0 DEF Request
    <2>2. request' \in [Requests -> Request]
      BY <1>0, <1>11, <2>1, RequestTyped DEF Sleep
    <2>3. waiters' \in Seq(Requests \cup {Spent})
      BY <1>0, <1>11 DEF Sleep
    <2> QED
      BY <1>0, <1>11, <2>2, <2>3 DEF Sleep
  <1>12. ASSUME NEW r \in Requests, WakeByTimer(r) PROVE TypeOK'
    <2>1. request' \in [Requests -> Request]
      BY <1>0, <1>12, RequestTyped DEF WakeByTimer
    <2>2. waiters' \in Seq(Requests \cup {Spent})
      <3>1. waiters' \in [1 .. Len(waiters) -> Requests \cup {Spent}] /\ Len(waiters) \in Nat
        BY <1>0, <1>12 DEF WakeByTimer
      <3> QED
        BY <3>1
    <2>3. lockQueue' \in Seq(Task)
      BY <1>0, <1>12, TasksTyped DEF WakeByTimer
    <2> QED
      BY <1>0, <1>12, <2>1, <2>2, <2>3 DEF WakeByTimer
  <1>13. ASSUME NEW r \in Requests, Release(r) PROVE TypeOK'
    <2>1. request[r].ask.engine \in Engines
      BY <1>13, AskTyped DEF Release
    <2>2. residents' \in [Engines -> Resident]
      BY <1>0, <1>13, <2>1, LetGoLease DEF Release
    <2>3. [request EXCEPT ![r] = Over("done")] \in [Requests -> Request]
      BY <1>0, RequestTyped
    <2>4. request' \in [Requests -> Request]
      BY <1>13, <2>3, RousedTyped DEF Release
    <2> QED
      BY <1>0, <1>13, <2>2, <2>4, WakeTyped DEF Release
  <1>14. ASSUME NEW e \in Engines, Expire(e) PROVE TypeOK'
    <2>1. lockQueue # <<>>
      BY <1>14 DEF Expire, Running
    <2>2. CASE Unlock /\ UNCHANGED residents
      BY <1>0, <1>14, <2>1, <2>2, UnlockTyped DEF Expire
    <2>3. CASE Drop(e) /\ Await("expiring", e) /\ UNCHANGED lockQueue
      BY <1>0, <1>14, <2>3, DropTyped DEF Expire, Await, Places
    <2> QED
      BY <1>14, <2>2, <2>3 DEF Expire
  <1>15. ASSUME NEW e \in Engines, Expired(e) PROVE TypeOK'
    BY <1>0, <1>15, AbsentTyped, HeldLease, ArmedDeadline, LetGoLease, AskTyped, TasksTyped, RequestTyped, CallTyped, UnlockTyped, DropTyped, MakeRoomTyped DEF Expired, Running, Acquiring, Serving, Await, Refuse, Fail, Released, Wake, Woken, Roused, CallEnds, Places, Granted
  <1>16. ASSUME NEW e \in Engines, TimerFires(e) PROVE TypeOK'
    <2>1. residents' \in [Engines -> Resident]
      BY <1>0, <1>16, DisarmedTyped DEF TimerFires
    <2>2. lockQueue' \in Seq(Task)
      BY <1>0, <1>16, TasksTyped DEF TimerFires
    <2> QED
      BY <1>0, <1>16, <2>1, <2>2 DEF TimerFires
  <1>17. ASSUME NEW e \in Engines, WorkerDies(e) PROVE TypeOK'
    BY <1>0, <1>17, AbsentTyped, HeldLease, ArmedDeadline, LetGoLease, AskTyped, TasksTyped, RequestTyped, CallTyped, UnlockTyped, DropTyped, MakeRoomTyped DEF WorkerDies, Running, Acquiring, Serving, Await, Refuse, Fail, Released, Wake, Woken, Roused, CallEnds, Places, Granted
  <1>18. ASSUME NEW c \in Calls, StartCall(c) PROVE TypeOK'
    <2>1. PICK job \in Job :
            call' = [call EXCEPT ![c] = [pc |-> "queued", job |-> job,
              deadline |-> now + ReplaceWait, due |-> 0,
              entry |-> IF job.kind = "replace" THEN policy.stored[job.engine] ELSE Unset]]
            /\ job.engine \in declared
      BY <1>18 DEF StartCall
    <2>2. now + ReplaceWait \in Nat
      BY <1>0, ResidencyAssumption
    <2>3. (IF job.kind = "replace" THEN policy.stored[job.engine] ELSE Unset)
            \in KeepAlives \cup {Unset}
      BY <1>0, <2>1 DEF Policy
    <2>4. call' \in [Calls -> Call]
      BY <1>0, <2>1, <2>2, <2>3 DEF Call
    <2>5. lockQueue' \in Seq(Task)
      BY <1>0, <1>18, TasksTyped DEF StartCall
    <2> QED
      BY <1>0, <1>18, <2>4, <2>5 DEF StartCall
  <1>19. ASSUME NEW c \in Calls, Patch(c) PROVE TypeOK'
    <2>1. CASE \E n \in MaxResident :
                 /\ policy' = [policy EXCEPT !.max = n]
                 /\ call' = [call EXCEPT ![c] = CallOver("done")]
                 /\ UNCHANGED lockQueue
      <3>1. policy' \in Policy
        BY <1>p, <2>1, PolicyTyped
      <3>2. call' \in [Calls -> Call]
        BY <1>0, <2>1, CallTyped
      <3> QED
        BY <1>0, <1>19, <2>1, <3>1, <3>2 DEF Patch
    <2>2. CASE /\ \/ \E n \in MaxResident, s \in KeepAlives :
                       policy' = [policy EXCEPT !.max = n, !.keepAlive = s]
                  \/ \E e \in declared, s \in KeepAlives \cup {Unset} :
                       policy' = [policy EXCEPT !.engine[e] = s, !.stored[e] = s]
               /\ call' = [call EXCEPT ![c] = [@ EXCEPT !.pc = "queued", !.job = RearmJob]]
               /\ lockQueue' = Append(lockQueue, CallTask(c))
      <3>1. policy' \in Policy
        <4>1. CASE \E n \in MaxResident, s \in KeepAlives :
                     policy' = [policy EXCEPT !.max = n, !.keepAlive = s]
          BY <1>p, <4>1, PolicyTyped
        <4>2. CASE \E e \in declared, s \in KeepAlives \cup {Unset} :
                     policy' = [policy EXCEPT !.engine[e] = s, !.stored[e] = s]
          <5>1. declared \subseteq Engines
            BY <1>0
          <5>2. PICK e \in declared, s \in KeepAlives \cup {Unset} :
                  policy' = [policy EXCEPT !.engine[e] = s, !.stored[e] = s]
            BY <4>2
          <5>3. [policy EXCEPT !.engine[e] = s, !.stored[e] = s] \in Policy
            BY <1>p, <5>1, PolicyTyped
          <5> QED
            BY <5>2, <5>3
        <4> QED
          BY <2>2, <4>1, <4>2
      <3>2. RearmJob \in Job
        BY <1>p, RearmTyped
      <3>3. call' \in [Calls -> Call]
        BY <1>0, <2>2, <3>2, CallTyped
      <3>4. lockQueue' \in Seq(Task)
        <4>1. lockQueue' = Append(lockQueue, CallTask(c))
          BY <2>2
        <4> QED
          BY <1>0, <4>1, TasksTyped
      <3> QED
        BY <1>0, <1>19, <3>1, <3>3, <3>4 DEF Patch
    <2> QED
      BY <1>19, <2>1, <2>2 DEF Patch
  <1>20. ASSUME NEW c \in Calls, CallBlocked(c) PROVE TypeOK'
    <2>1. lockQueue # <<>> /\ now + 1 \in Nat
      BY <1>0, <1>20 DEF CallBlocked, Serving, Running
    <2>2. \/ call' = [call EXCEPT ![c] = CallOver("conflict")]
          \/ call' = [call EXCEPT ![c] = [@ EXCEPT !.pc = "polling", !.due = now + 1]]
      BY <1>20 DEF CallBlocked, CallEnds
    <2>3. call' \in [Calls -> Call]
      <3>1. [call[c] EXCEPT !.pc = "polling", !.due = now + 1] \in Call
        BY <1>c, <2>1, CallTyped
      <3>2. CallOver("conflict") \in Call
        BY CallTyped
      <3> QED
        BY <1>c, <2>2, <3>1, <3>2
    <2> QED
      BY <1>0, <1>20, <2>1, <2>3, UnlockTyped DEF CallBlocked, CallEnds
  <1>21. ASSUME NEW c \in Calls, PollAgain(c) PROVE TypeOK'
    <2>1. call' \in [Calls -> Call]
      BY <1>0, <1>21, CallTyped DEF PollAgain
    <2>2. lockQueue' \in Seq(Task)
      BY <1>0, <1>21, TasksTyped DEF PollAgain
    <2> QED
      BY <1>0, <1>21, <2>1, <2>2 DEF PollAgain
  <1>22. ASSUME NEW c \in Calls, CallGranted(c) PROVE TypeOK'
    <2>1. lockQueue # <<>> /\ call[c].job.engine \in Engines
      BY <1>22, JobTyped DEF CallGranted, Serving, Running
    <2>2. CASE CallEnds(c, "done") /\ UNCHANGED residents
      BY <1>0, <1>22, <2>1, <2>2, UnlockTyped, CallTyped DEF CallGranted, CallEnds
    <2>3. CASE /\ Drop(call[c].job.engine)
               /\ \E place \in Places : Await(place, call[c].job.engine)
               /\ UNCHANGED <<call, lockQueue>>
      BY <1>0, <1>22, <2>1, <2>3, DropTyped DEF CallGranted, Await
    <2> QED
      BY <1>22, <2>2, <2>3 DEF CallGranted, Places
  <1>23. ASSUME NEW c \in Calls, Forgotten(c) PROVE TypeOK'
    BY <1>0, <1>23, AbsentTyped, HeldLease, ArmedDeadline, LetGoLease, AskTyped, TasksTyped, RequestTyped, CallTyped, UnlockTyped, DropTyped, MakeRoomTyped DEF Forgotten, Running, Acquiring, Serving, Await, Refuse, Fail, Released, Wake, Woken, Roused, CallEnds, Places, Granted
  <1>24. ASSUME NEW c \in Calls, Swapped(c) PROVE TypeOK'
    <2>1. lockQueue # <<>> /\ call[c].entry \in KeepAlives \cup {Unset}
      BY <1>0, <1>24 DEF Swapped, Serving, Running, Call
    <2>2. step.engine \in Engines /\ step.engine = call[c].job.engine
      BY <1>0, <1>24, JobTyped, ResidencyAssumption DEF Swapped, Serving, Running
    <2>3. policy' \in Policy
      <3>1. policy' = policy \/ policy' = [policy EXCEPT !.engine[step.engine] = call[c].entry]
        BY <1>24, <2>2 DEF Swapped
      <3> QED
        <4>1. [policy EXCEPT !.engine[step.engine] = call[c].entry] \in Policy
          BY <1>p, <2>1, <2>2, PolicyTyped
        <4> QED
          BY <1>p, <3>1, <4>1
    <2>4. lockQueue' \in Seq(Task) /\ step' \in [at : Places, engine : Engines \cup {None}]
      BY <1>0, <1>24, <2>1, UnlockTyped DEF Swapped, CallEnds
    <2>5. call' \in [Calls -> Call]
      BY <1>0, <1>24, CallTyped DEF Swapped, CallEnds
    <2>6. /\ card' \in [Engines -> Variants \cup {None}]
          /\ observed' \in [Engines -> {"unloaded", "loading", "loaded"}]
          /\ declared' \subseteq Engines
      <3>1. \/ /\ card' = [card EXCEPT ![step.engine] = None]
               /\ observed' = [observed EXCEPT ![step.engine] = "unloaded"]
               /\ declared' = declared \cup {step.engine}
            \/ UNCHANGED <<card, observed, declared>>
        BY <1>24, <2>2 DEF Swapped
      <3> QED
        BY <1>0, <2>2, <3>1
    <2> QED
      BY <1>0, <1>24, <2>3, <2>4, <2>5, <2>6 DEF Swapped
  <1>25. ASSUME NEW c \in Calls, SwapWakes(c) PROVE TypeOK'
    <2>1. call' \in [Calls -> Call]
      BY <1>0, <1>25, CallTyped DEF SwapWakes
    <2>2. request' \in [Requests -> Request]
      BY <1>0, <1>25, RousedTyped DEF SwapWakes
    <2> QED
      BY <1>0, <1>25, <2>1, <2>2, WakeTyped DEF SwapWakes
  <1>26. ASSUME NEW c \in Calls, Freed(c) PROVE TypeOK'
    BY <1>0, <1>26, AbsentTyped, HeldLease, ArmedDeadline, LetGoLease, AskTyped, TasksTyped, RequestTyped, CallTyped, UnlockTyped, DropTyped, MakeRoomTyped DEF Freed, Running, Acquiring, Serving, Await, Refuse, Fail, Released, Wake, Woken, Roused, CallEnds, Places, Granted
  <1>27. ASSUME NEW c \in Calls, Rearm(c) PROVE TypeOK'
    <2>1. \A e \in Engines :
            Armed(e, [residents[e] EXCEPT !.armed = FALSE, !.expiresAt = Never]) \in Resident
      BY <1>0, DisarmedTyped, ArmedDeadline
    <2>2. residents' \in [Engines -> Resident]
      BY <1>0, <1>27, <2>1 DEF Rearm
    <2>3. lockQueue # <<>>
      BY <1>27 DEF Rearm, Serving, Running
    <2> QED
      BY <1>0, <1>27, <2>2, <2>3, UnlockTyped, CallTyped DEF Rearm, CallEnds
  <1>28. ASSUME StopExpiry PROVE TypeOK'
    <2>1. residents' \in [Engines -> Resident]
      BY <1>0, <1>28, DisarmedTyped DEF StopExpiry
    <2> QED
      BY <1>0, <1>28, <2>1 DEF StopExpiry
  <1>29. CASE UNCHANGED vars
    BY <1>0, <1>29 DEF vars
  <1> QED
    BY <1>1, <1>2, <1>3, <1>4, <1>5, <1>6, <1>7, <1>8, <1>9, <1>10, <1>11, <1>12, <1>13, <1>14, <1>15, <1>16, <1>17, <1>18, <1>19, <1>20, <1>21, <1>22, <1>23, <1>24, <1>25, <1>26, <1>27, <1>28, <1>29 DEF Next, LockStep, AcquireStep, CallStep


----------------------------------------------------------------------------
(* The life of a request, one step at a time. *)

Moves(q) ==
  LET old == request[q] new == request'[q] IN
  \/ new = old
  \/ old.pc = "idle" /\ new.pc = "queued" /\ new.ask \in Ask
  \/ /\ old.pc = "queued" /\ new.pc \in {"refused", "speaking"} /\ new.ask = old.ask
     /\ step' = Granted
  \/ old.pc = "refused" /\ new.pc = "asleep" /\ new.ask = old.ask
  \/ /\ old.pc = "asleep" /\ new.pc = "queued" /\ new.ask = old.ask
     /\ WakeByTimer(q) \/ (q \in Woken /\ Wake)
  \/ old.pc = "queued" /\ new.pc = "failed" /\ step' = Granted
  \/ old.pc \in {"refused", "speaking"} /\ new.pc \in {"timedout", "done"}

(* The sleeper a wake resumes is asleep. *)
LEMMA WokenAsleep ==
  ASSUME IInv, NEW q \in Woken
  PROVE  q \in Requests /\ request[q].pc = "asleep"
  BY DEF IInv, TypeOK, WaitersAsleep, Woken

LEMMA RefuseMoves ==
  ASSUME IInv, NEW r \in Requests, request[r].pc = "queued", Refuse(r)
  PROVE  \A q \in Requests : Moves(q)
  BY RequestFields DEF IInv, TypeOK, Refuse, Moves, Unlock

LEMMA FailMoves ==
  ASSUME IInv, NEW r \in Requests, request[r].pc = "queued", Fail(r)
  PROVE  \A q \in Requests : Moves(q)
  BY DEF IInv, TypeOK, Fail, Moves, Over, Unlock

LEMMA MakeRoomMoves ==
  ASSUME IInv, NEW r \in Requests, request[r].pc = "queued", MakeRoom(r)
  PROVE  \A q \in Requests : Moves(q)
  BY RefuseMoves DEF MakeRoom, Moves

LEMMA RequestMoves == IInv /\ [Next]_vars => \A q \in Requests : Moves(q)
  <1> SUFFICES ASSUME IInv, [Next]_vars, NEW q \in Requests
               PROVE  Moves(q)
    OBVIOUS
  <1>0. request \in [Requests -> Request]
    BY DEF IInv, TypeOK
  <1>f. request[q] \in Request
    BY <1>0
  <1>1. ASSUME NEW r \in Requests, Acquire(r) PROVE Moves(q)
    BY <1>0, <1>f, <1>1, RequestFields DEF Acquire, Moves, Over
  <1>2. ASSUME NEW r \in Requests, Hit(r) PROVE Moves(q)
    BY <1>0, <1>f, <1>2, RequestFields DEF Hit, Acquiring, Moves, Unlock
  <1>3. ASSUME NEW r \in Requests, SwitchVariant(r) PROVE Moves(q)
    BY <1>0, <1>f, <1>3, RefuseMoves DEF SwitchVariant, Acquiring, Moves
  <1>4. ASSUME NEW r \in Requests, Miss(r) PROVE Moves(q)
    BY <1>4, MakeRoomMoves DEF Miss, Acquiring
  <1>5. ASSUME NEW r \in Requests, RoomMade(r) PROVE Moves(q)
    BY <1>5, MakeRoomMoves DEF RoomMade, Acquiring
  <1>6. ASSUME NEW r \in Requests, Spawned(r) PROVE Moves(q)
    BY <1>0, <1>f, <1>6, FailMoves DEF Spawned, Acquiring, Moves
  <1>7. ASSUME NEW r \in Requests, Loaded(r) PROVE Moves(q)
    BY <1>0, <1>f, <1>7, RequestFields DEF Loaded, Acquiring, Moves, Unlock
  <1>8. ASSUME NEW r \in Requests, LoadFailed(r) PROVE Moves(q)
    BY <1>8, FailMoves DEF LoadFailed, Acquiring
  <1>9. ASSUME NEW r \in Requests, TimeOut(r) PROVE Moves(q)
    BY <1>0, <1>f, <1>9, RequestFields DEF TimeOut, Moves, Over
  <1>10. ASSUME NEW r \in Requests, Sleep(r) PROVE Moves(q)
    BY <1>0, <1>f, <1>10, RequestFields DEF Sleep, Moves, Over
  <1>11. ASSUME NEW r \in Requests, WakeByTimer(r) PROVE Moves(q)
    <2>1. CASE q = r
      <3>1. /\ request[q].pc = "asleep"
            /\ request'[q].pc = "queued" /\ request'[q].ask = request[q].ask
        BY <1>0, <1>f, <1>11, <2>1, RequestFields DEF WakeByTimer
      <3>2. WakeByTimer(q)
        BY <1>11, <2>1 DEF WakeByTimer
      <3> QED
        BY <3>1, <3>2 DEF Moves
    <2>2. CASE q # r
      BY <1>0, <1>11, <2>2 DEF WakeByTimer, Moves
    <2> QED
      BY <2>1, <2>2
  <1>12. ASSUME NEW r \in Requests, Release(r) PROVE Moves(q)
    BY <1>0, <1>f, <1>12, WokenAsleep, RequestFields DEF Release, Moves, Over, Roused
  <1>13. ASSUME NEW c \in Calls, SwapWakes(c) PROVE Moves(q)
    BY <1>0, <1>f, <1>13, WokenAsleep, RequestFields DEF SwapWakes, Moves, Over, Roused
  <1>14. CASE UNCHANGED request
    BY <1>14 DEF Moves
  <1> QED
    BY <1>1, <1>2, <1>3, <1>4, <1>5, <1>6, <1>7, <1>8, <1>9, <1>10, <1>11, <1>12, <1>13, <1>14
    DEF Next, LockStep, AcquireStep, CallStep, vars, Tick, StopExpiry, Expire, Expired, TimerFires, WorkerDies, StartCall, Patch, CallBlocked, PollAgain, CallGranted, Forgotten, Swapped, Freed, Rearm

LEMMA AskStep == IInv /\ [Next]_vars => AskKnown'
  BY RequestMoves DEF IInv, AskKnown, Moves

(* What a step may do to the waiters. *)
LEMMA WaitersMove ==
  [Next]_vars => \/ UNCHANGED waiters
                 \/ \E r \in Requests : Sleep(r) \/ WakeByTimer(r)
                 \/ Wake
  BY DEF Next, LockStep, AcquireStep, CallStep, vars, Tick, StopExpiry, Acquire, Hit, SwitchVariant, Miss, RoomMade, Spawned, Loaded, LoadFailed, TimeOut, Release, Expire, Expired, TimerFires, WorkerDies, StartCall, Patch, CallBlocked, PollAgain, CallGranted, Forgotten, Swapped, SwapWakes, Freed, Rearm

LEMMA WaitersStep == IInv /\ [Next]_vars => WaitersAsleep'
  <1> SUFFICES ASSUME IInv, [Next]_vars
               PROVE  WaitersAsleep'
    OBVIOUS
  <1>0. /\ WaitersAsleep /\ waiters \in Seq(Requests \cup {Spent})
        /\ Len(waiters) \in Nat /\ Spent \notin Requests
    BY ResidencyAssumption DEF IInv, TypeOK
  <1>m. \A q \in Requests : Moves(q)
    BY RequestMoves
  <1>r. request \in [Requests -> Request]
    BY DEF IInv, TypeOK
  <1>1. CASE UNCHANGED waiters
    BY <1>0, <1>1, <1>m DEF WaitersAsleep, Moves, WakeByTimer, Wake, Woken
  <1>2. ASSUME NEW r \in Requests, Sleep(r) PROVE WaitersAsleep'
    <2>1. /\ Len(waiters') = Len(waiters) + 1
          /\ waiters'[Len(waiters) + 1] = r
          /\ \A i \in 1 .. Len(waiters) : waiters'[i] = waiters[i]
      BY <1>0, <1>2 DEF Sleep
    <2>2. \A i \in 1 .. Len(waiters) : waiters[i] # r
      BY <1>0, <1>2 DEF WaitersAsleep, Sleep
    <2>3. /\ request'[r].pc = "asleep"
          /\ \A q \in Requests : q # r => request'[q] = request[q]
      BY <1>r, <1>2, RequestFields DEF Sleep
    <2>4. 1 .. Len(waiters') = 1 .. Len(waiters) \cup {Len(waiters) + 1}
      BY <1>0, <2>1
    <2>5. \A i \in 1 .. Len(waiters) : waiters[i] \in Requests \cup {Spent}
      BY <1>0
    <2> QED
      BY <1>0, <2>1, <2>2, <2>3, <2>4, <2>5 DEF WaitersAsleep
  <1>3. ASSUME NEW r \in Requests, WakeByTimer(r) PROVE WaitersAsleep'
    <2>1. /\ Len(waiters') = Len(waiters)
          /\ \A i \in 1 .. Len(waiters) :
               waiters'[i] = IF waiters[i] = r THEN Spent ELSE waiters[i]
      BY <1>0, <1>3 DEF WakeByTimer
    <2>2. \A q \in Requests : q # r => request'[q] = request[q]
      BY <1>r, <1>3 DEF WakeByTimer
    <2>3. \A i \in 1 .. Len(waiters) : waiters[i] \in Requests \cup {Spent}
      BY <1>0
    <2> QED
      BY <1>0, <2>1, <2>2, <2>3 DEF WaitersAsleep
  <1>4. CASE Wake
    <2>1. CASE waiters = <<>>
      BY <1>4, <2>1 DEF WaitersAsleep, Wake
    <2>2. CASE waiters # <<>>
      <3>1. /\ Len(waiters') = Len(waiters) - 1
            /\ \A i \in 1 .. Len(waiters') : i + 1 \in 1 .. Len(waiters)
                                            /\ waiters'[i] = waiters[i + 1]
        BY <1>0, <1>4, <2>2 DEF Wake
      <3>2. \A q \in Woken : q = waiters[1]
        BY <1>0, <2>2 DEF Woken
      <3>3. \A i \in 2 .. Len(waiters) : waiters[i] # Spent => waiters[i] \notin Woken
        BY <1>0, <2>2, <3>2 DEF WaitersAsleep
      <3>4. ASSUME NEW i \in 1 .. Len(waiters'), waiters'[i] # Spent
            PROVE  request'[waiters'[i]].pc = "asleep"
        <4>1. /\ i + 1 \in 2 .. Len(waiters)
              /\ waiters'[i] = waiters[i + 1]
          BY <1>0, <2>2, <3>1
        <4>2. waiters'[i] \in Requests
          BY <1>0, <3>4, <4>1
        <4>3. request[waiters'[i]].pc = "asleep" /\ waiters'[i] \notin Woken
          BY <1>0, <3>3, <3>4, <4>1 DEF WaitersAsleep
        <4>4. Moves(waiters'[i])
          BY <1>m, <4>2
        <4>5. ~WakeByTimer(waiters'[i])
          BY <1>0, <2>2, <3>1 DEF WakeByTimer
        <4> QED
          BY <4>3, <4>4, <4>5 DEF Moves
      <3>5. ASSUME NEW i \in 1 .. Len(waiters'), NEW j \in 1 .. Len(waiters'),
                   waiters'[i] # Spent, waiters'[j] = waiters'[i]
            PROVE  j = i
        BY <1>0, <3>1, <3>5 DEF WaitersAsleep
      <3> QED
        BY <3>4, <3>5 DEF WaitersAsleep
    <2> QED
      BY <2>1, <2>2
  <1> QED
    BY <1>1, <1>2, <1>3, <1>4, WaitersMove

(* The life of an operator call. *)
CallMoves(k) ==
  LET old == call[k] new == call'[k] IN
  \/ new = old
  \/ new.pc = "queued" /\ new.job \in Job
  \/ old.pc = "polling" /\ new.pc = "queued" /\ new.job = old.job
  \/ old.pc = "queued" /\ new.pc = "polling" /\ new.job = old.job
  \/ new.pc \in {"done", "conflict", "failed", "swapped"}

LEMMA CallFields ==
  ASSUME NEW k \in Call, NEW t, NEW j
  PROVE  /\ [k EXCEPT !.pc = "queued"].pc = "queued" /\ [k EXCEPT !.pc = "queued"].job = k.job
         /\ [k EXCEPT !.pc = "polling", !.due = t].pc = "polling"
         /\ [k EXCEPT !.pc = "polling", !.due = t].job = k.job
         /\ [k EXCEPT !.pc = "queued", !.job = j].pc = "queued"
         /\ [k EXCEPT !.pc = "queued", !.job = j].job = j
  BY DEF Call

LEMMA CallStepMoves == IInv /\ [Next]_vars => \A k \in Calls : CallMoves(k)
  <1> SUFFICES ASSUME IInv, [Next]_vars, NEW k \in Calls
               PROVE  CallMoves(k)
    OBVIOUS
  <1>0. call \in [Calls -> Call] /\ call[k] \in Call
    BY DEF IInv, TypeOK
  <1>j. RearmJob \in Job
    BY RearmTyped DEF IInv, TypeOK
  <1>1. ASSUME NEW c \in Calls, StartCall(c) PROVE CallMoves(k)
    BY <1>0, <1>1, CallFields DEF StartCall, CallMoves, CallEnds, CallOver
  <1>2. ASSUME NEW c \in Calls, Patch(c) PROVE CallMoves(k)
    <2>1. \/ call' = [call EXCEPT ![c] = CallOver("done")]
          \/ call' = [call EXCEPT ![c] = [@ EXCEPT !.pc = "queued", !.job = RearmJob]]
      BY <1>2 DEF Patch
    <2>2. \/ call'[k] = call[k]
          \/ call'[k] = CallOver("done")
          \/ call'[k] = [call[k] EXCEPT !.pc = "queued", !.job = RearmJob]
      BY <1>0, <2>1
    <2>3. CASE call'[k] = [call[k] EXCEPT !.pc = "queued", !.job = RearmJob]
      BY <1>0, <1>j, <2>3 DEF CallMoves, Call
    <2> QED
      BY <2>2, <2>3 DEF CallMoves, CallOver
  <1>3. ASSUME NEW c \in Calls, CallBlocked(c) PROVE CallMoves(k)
    <2>1. /\ call[c].pc = "queued"
          /\ \/ call' = [call EXCEPT ![c] = CallOver("conflict")]
             \/ call' = [call EXCEPT ![c] = [@ EXCEPT !.pc = "polling", !.due = now + 1]]
      BY <1>3 DEF CallBlocked, CallEnds, Serving
    <2>2. \/ call'[k] = call[k]
          \/ call'[k] = CallOver("conflict")
          \/ call'[k] = [call[k] EXCEPT !.pc = "polling", !.due = now + 1] /\ call[k].pc = "queued"
      BY <1>0, <2>1
    <2>3. CASE call'[k] = [call[k] EXCEPT !.pc = "polling", !.due = now + 1] /\ call[k].pc = "queued"
      BY <1>0, <2>3 DEF CallMoves, Call
    <2> QED
      BY <2>2, <2>3 DEF CallMoves, CallOver
  <1>4. ASSUME NEW c \in Calls, PollAgain(c) PROVE CallMoves(k)
    BY <1>0, <1>4, CallFields DEF PollAgain, CallMoves, CallEnds, CallOver
  <1>5. ASSUME NEW c \in Calls, CallGranted(c) PROVE CallMoves(k)
    BY <1>0, <1>5, CallFields DEF CallGranted, CallMoves, CallEnds, CallOver
  <1>6. ASSUME NEW c \in Calls, Forgotten(c) PROVE CallMoves(k)
    BY <1>0, <1>6, CallFields DEF Forgotten, CallMoves, CallEnds, CallOver
  <1>7. ASSUME NEW c \in Calls, Swapped(c) PROVE CallMoves(k)
    BY <1>0, <1>7, CallFields DEF Swapped, CallMoves, CallEnds, CallOver
  <1>8. ASSUME NEW c \in Calls, SwapWakes(c) PROVE CallMoves(k)
    BY <1>0, <1>8, CallFields DEF SwapWakes, CallMoves, CallEnds, CallOver
  <1>9. ASSUME NEW c \in Calls, Freed(c) PROVE CallMoves(k)
    BY <1>0, <1>9, CallFields DEF Freed, CallMoves, CallEnds, CallOver
  <1>10. ASSUME NEW c \in Calls, Rearm(c) PROVE CallMoves(k)
    BY <1>0, <1>10, CallFields DEF Rearm, CallMoves, CallEnds, CallOver
  <1>11. CASE UNCHANGED call
    BY <1>11 DEF CallMoves
  <1> QED
    BY <1>1, <1>2, <1>3, <1>4, <1>5, <1>6, <1>7, <1>8, <1>9, <1>10, <1>11
    DEF Next, LockStep, AcquireStep, CallStep, vars, Tick, StopExpiry, Acquire, Hit, SwitchVariant, Miss, RoomMade, Spawned, Loaded, LoadFailed, TimeOut, Sleep, WakeByTimer, Release, Expire, Expired, TimerFires, WorkerDies

LEMMA JobStep == IInv /\ [Next]_vars => JobKnown'
  BY CallStepMoves DEF IInv, JobKnown, CallMoves

----------------------------------------------------------------------------
(* Only a hit, a load and a release touch leases or start or end a synthesis. *)

(* The model keeps its variant and its leases, or leaves the Map with none. *)
Quiet(m) ==
  \/ /\ residents'[m].variant = residents[m].variant
     /\ residents'[m].leases = residents[m].leases
  \/ residents[m].leases = 0 /\ residents'[m] = Absent

LEMMA DropQuiet ==
  ASSUME IInv, NEW e \in Engines, residents[e].leases = 0, Drop(e), NEW m \in Engines
  PROVE  Quiet(m)
  BY DEF IInv, TypeOK, Drop, Quiet

LEMMA MakeRoomQuiet ==
  ASSUME IInv, NEW r \in Requests, MakeRoom(r), NEW m \in Engines
  PROVE  Quiet(m)
  <1>1. CASE UNCHANGED residents
    BY <1>1 DEF Quiet
  <1>2. CASE \E victim \in LeastRecentlyUsed : Drop(victim)
    BY <1>2, DropQuiet DEF LeastRecentlyUsed, Idle, Residents
  <1> QED
    BY <1>1, <1>2 DEF MakeRoom, Refuse

Loud == \E r \in Requests : Hit(r) \/ Loaded(r) \/ Release(r)

LEMMA QuietStep == IInv /\ [Next]_vars /\ ~Loud => \A m \in Engines : Quiet(m)
  <1> SUFFICES ASSUME IInv, [Next]_vars, ~Loud, NEW m \in Engines
               PROVE  Quiet(m)
    OBVIOUS
  <1>0. residents \in [Engines -> Resident]
    BY DEF IInv, TypeOK
  <1>t. TypeOK
    BY DEF IInv
  <1>1. ASSUME NEW r \in Requests, SwitchVariant(r) PROVE Quiet(m)
    BY <1>1, DropQuiet, AskTyped DEF SwitchVariant, Refuse, Quiet, Acquiring
  <1>2. ASSUME NEW r \in Requests, Miss(r) PROVE Quiet(m)
    BY <1>2, MakeRoomQuiet DEF Miss
  <1>3. ASSUME NEW r \in Requests, RoomMade(r) PROVE Quiet(m)
    BY <1>3, MakeRoomQuiet DEF RoomMade
  <1>4. ASSUME NEW e \in Engines, Expire(e) PROVE Quiet(m)
    BY <1>4, DropQuiet DEF Expire, StillDue, Quiet
  <1>5. ASSUME NEW e \in Engines, TimerFires(e) PROVE Quiet(m)
    BY <1>5, <1>0, DisarmedTyped DEF TimerFires, Quiet, Resident
  <1>6. ASSUME NEW c \in Calls, CallGranted(c) PROVE Quiet(m)
    BY <1>6, DropQuiet, JobTyped DEF CallGranted, Quiet, Serving
  <1>7. ASSUME NEW c \in Calls, Rearm(c) PROVE Quiet(m)
    BY <1>7, <1>0, <1>t, DisarmedTyped, ArmedDeadline DEF Rearm, Quiet
  <1>8. ASSUME StopExpiry PROVE Quiet(m)
    BY <1>8, <1>0, DisarmedTyped DEF StopExpiry, Quiet
  <1>9. CASE UNCHANGED residents
    BY <1>9 DEF Quiet
  <1> QED
    BY <1>1, <1>2, <1>3, <1>4, <1>5, <1>6, <1>7, <1>8, <1>9
    DEF Loud, Next, LockStep, AcquireStep, CallStep, vars, Tick, Fail, Acquire, Spawned, LoadFailed, TimeOut, Sleep, WakeByTimer, Expired, WorkerDies, StartCall, Patch, CallBlocked, PollAgain, Forgotten, Swapped, SwapWakes, Freed

Speaking(q) == request[q].pc = "speaking"

LEMMA QuietSpeakers ==
  IInv /\ [Next]_vars /\ ~Loud => \A q \in Requests : Speaking(q)' <=> Speaking(q)
  <1> SUFFICES ASSUME IInv, [Next]_vars, ~Loud, NEW q \in Requests
               PROVE  Speaking(q)' <=> Speaking(q)
    OBVIOUS
  <1>0. request \in [Requests -> Request] /\ request[q] \in Request
    BY DEF IInv, TypeOK
  <1>1. ASSUME NEW r \in Requests, Acquire(r) PROVE Speaking(q)' <=> Speaking(q)
    BY <1>0, <1>1, RequestFields DEF Speaking, Acquire
  <1>2. ASSUME NEW r \in Requests, SwitchVariant(r) PROVE Speaking(q)' <=> Speaking(q)
    BY <1>0, <1>2, RequestFields DEF Speaking, SwitchVariant, Refuse, Acquiring
  <1>3. ASSUME NEW r \in Requests, Miss(r) PROVE Speaking(q)' <=> Speaking(q)
    BY <1>0, <1>3, RequestFields DEF Speaking, Miss, MakeRoom, Refuse, Acquiring
  <1>4. ASSUME NEW r \in Requests, RoomMade(r) PROVE Speaking(q)' <=> Speaking(q)
    BY <1>0, <1>4, RequestFields DEF Speaking, RoomMade, MakeRoom, Refuse, Acquiring
  <1>5. ASSUME NEW r \in Requests, Spawned(r) PROVE Speaking(q)' <=> Speaking(q)
    BY <1>0, <1>5, RequestFields DEF Speaking, Spawned, Fail, Over, Acquiring
  <1>6. ASSUME NEW r \in Requests, LoadFailed(r) PROVE Speaking(q)' <=> Speaking(q)
    BY <1>0, <1>6, RequestFields DEF Speaking, LoadFailed, Fail, Over, Acquiring
  <1>7. ASSUME NEW r \in Requests, TimeOut(r) PROVE Speaking(q)' <=> Speaking(q)
    BY <1>0, <1>7, RequestFields DEF Speaking, TimeOut, Over
  <1>8. ASSUME NEW r \in Requests, Sleep(r) PROVE Speaking(q)' <=> Speaking(q)
    BY <1>0, <1>8, RequestFields DEF Speaking, Sleep
  <1>9. ASSUME NEW r \in Requests, WakeByTimer(r) PROVE Speaking(q)' <=> Speaking(q)
    BY <1>0, <1>9, RequestFields DEF Speaking, WakeByTimer
  <1>10. ASSUME NEW c \in Calls, SwapWakes(c) PROVE Speaking(q)' <=> Speaking(q)
    BY <1>0, <1>10, WokenAsleep, RequestFields DEF Speaking, SwapWakes, Roused
  <1>11. CASE UNCHANGED request
    BY <1>11 DEF Speaking
  <1> QED
    BY <1>1, <1>2, <1>3, <1>4, <1>5, <1>6, <1>7, <1>8, <1>9, <1>10, <1>11
    DEF Loud, Next, LockStep, AcquireStep, CallStep, vars, Tick, StopExpiry, Expire, Expired, TimerFires, WorkerDies, StartCall, Patch, CallBlocked, PollAgain, CallGranted, Forgotten, Swapped, Freed, Rearm

----------------------------------------------------------------------------
(* The lock: a step either hands it on, leaves its holder waiting, or makes it wait *)
(* for an engine that is out of the Map.                                            *)

HandsOn == step' = Granted

Waits ==
  /\ UNCHANGED step
  /\ UNCHANGED lockQueue \/ \E task \in Task : lockQueue' = Append(lockQueue, task)

Starts ==
  /\ UNCHANGED <<request, lockQueue>> /\ lockQueue # <<>>
  /\ step'.engine \notin Residents'
  /\ \A r \in Requests : Head(lockQueue) = AcquireTask(r) =>
       request[r].pc = "queued" /\ request[r].ask.engine \notin Residents'

LEMMA TasksDiffer ==
  /\ \A q, r \in Requests : AcquireTask(q) = AcquireTask(r) => q = r
  /\ \A r \in Requests, c \in Calls : CallTask(c) # AcquireTask(r)
  /\ \A r \in Requests : \A e, o : [kind |-> "expire", by |-> e, object |-> o] # AcquireTask(r)
  BY DEF AcquireTask, CallTask

LEMMA DropAbsent ==
  ASSUME IInv, NEW e \in Engines, Drop(e)
  PROVE  e \notin Residents' /\ Residents' \subseteq Residents
  BY DEF IInv, TypeOK, Drop, Residents, Absent

LEMMA MakeRoomStarts ==
  ASSUME IInv, NEW r \in Requests, request[r].pc = "queued", lockQueue # <<>>,
         Head(lockQueue) = AcquireTask(r), request[r].ask.engine \notin Residents,
         MakeRoom(r)
  PROVE  HandsOn \/ Starts
  <1>1. CASE /\ Await("spawning", request[r].ask.engine)
             /\ UNCHANGED <<residents, request, lockQueue>>
    BY <1>1, TasksDiffer DEF Await, Starts, Residents
  <1>2. CASE Refuse(r)
    BY <1>2 DEF Refuse, Unlock, HandsOn
  <1>3. ASSUME NEW victim \in LeastRecentlyUsed, Drop(victim), Await("evicting", victim),
               UNCHANGED <<request, lockQueue>>
        PROVE  Starts
    <2>1. victim \in Engines
      BY DEF LeastRecentlyUsed, Idle, Residents
    <2>2. victim \notin Residents' /\ Residents' \subseteq Residents
      BY <1>3, <2>1, DropAbsent
    <2> QED
      BY <1>3, <2>2, TasksDiffer DEF Await, Starts
  <1> QED
    BY <1>1, <1>2, <1>3 DEF MakeRoom

LEMMA LockMoves == IInv /\ [Next]_vars => HandsOn \/ Waits \/ Starts
  <1> SUFFICES ASSUME IInv, [Next]_vars
               PROVE  HandsOn \/ Waits \/ Starts
    OBVIOUS
  <1>0. TransitIsHeads
    BY DEF IInv
  <1>1. ASSUME NEW r \in Requests, SwitchVariant(r) PROVE HandsOn \/ Starts
    <2> DEFINE e == request[r].ask.engine
    <2>1. /\ request[r].pc = "queued" /\ lockQueue # <<>> /\ e \in Engines
          /\ Head(lockQueue) = AcquireTask(r)
      BY <1>1, AskTyped DEF SwitchVariant, Acquiring, Running
    <2>2. CASE Refuse(r)
      BY <2>2 DEF Refuse, Unlock, HandsOn
    <2>3. CASE Drop(e) /\ Await("unloading", e) /\ UNCHANGED <<request, lockQueue>>
      BY <2>1, <2>3, DropAbsent, TasksDiffer DEF Await, Starts
    <2> QED
      BY <1>1, <2>2, <2>3 DEF SwitchVariant
  <1>2. ASSUME NEW r \in Requests, Miss(r) PROVE HandsOn \/ Starts
    <2>1. /\ request[r].pc = "queued" /\ lockQueue # <<>>
          /\ Head(lockQueue) = AcquireTask(r) /\ request[r].ask.engine \notin Residents
      BY <1>2 DEF Miss, Acquiring, Running, Residents
    <2> QED
      BY <1>2, <2>1, MakeRoomStarts DEF Miss
  <1>3. ASSUME NEW r \in Requests, RoomMade(r) PROVE HandsOn \/ Starts
    <2>1. /\ request[r].pc = "queued" /\ lockQueue # <<>>
          /\ Head(lockQueue) = AcquireTask(r) /\ step.at # "granted"
      BY <1>3 DEF RoomMade, Acquiring, Running
    <2>2. request[r].ask.engine \notin Residents
      BY <1>0, <2>1 DEF TransitIsHeads
    <2> QED
      BY <1>3, <2>1, <2>2, MakeRoomStarts DEF RoomMade
  <1>4. ASSUME NEW r \in Requests, Spawned(r) PROVE HandsOn \/ Starts
    <2>1. /\ request[r].pc = "queued" /\ lockQueue # <<>>
          /\ Head(lockQueue) = AcquireTask(r) /\ step.at # "granted"
      BY <1>4 DEF Spawned, Acquiring, Running
    <2>2. request[r].ask.engine \notin Residents
      BY <1>0, <2>1 DEF TransitIsHeads
    <2>3. CASE Fail(r)
      BY <2>3 DEF Fail, Unlock, HandsOn
    <2>4. CASE /\ Await("loading", request[r].ask.engine)
               /\ UNCHANGED <<residents, request, lockQueue>>
      BY <2>1, <2>2, <2>4, TasksDiffer DEF Await, Starts, Residents
    <2> QED
      BY <1>4, <2>3, <2>4 DEF Spawned
  <1>5. ASSUME NEW e \in Engines, Expire(e) PROVE HandsOn \/ Starts
    <2>1. PICK task \in [kind : {"expire"}, by : {e}, object : 1 .. loads[e]] :
            /\ Running(task, "granted", None)
            /\ \/ Unlock
               \/ Drop(e) /\ Await("expiring", e) /\ UNCHANGED lockQueue
      BY <1>5 DEF Expire
    <2>2. \A r \in Requests : task # AcquireTask(r)
      BY DEF AcquireTask
    <2>3. CASE Unlock
      BY <2>3 DEF Unlock, HandsOn
    <2>4. CASE Drop(e) /\ Await("expiring", e) /\ UNCHANGED lockQueue
      BY <1>5, <2>1, <2>2, <2>4, DropAbsent DEF Expire, Await, Starts, Running
    <2> QED
      BY <2>1, <2>3, <2>4
  <1>6. ASSUME NEW c \in Calls, CallGranted(c) PROVE HandsOn \/ Starts
    <2>1. /\ call[c].pc = "queued" /\ lockQueue # <<>> /\ call[c].job.engine \in Engines
          /\ Head(lockQueue) = CallTask(c)
      BY <1>6, JobTyped DEF CallGranted, Serving, Running
    <2>2. CASE CallEnds(c, "done")
      BY <2>2 DEF CallEnds, Unlock, HandsOn
    <2>3. CASE /\ Drop(call[c].job.engine)
               /\ \E place : Await(place, call[c].job.engine)
               /\ UNCHANGED <<call, lockQueue>>
      BY <1>6, <2>1, <2>3, DropAbsent, TasksDiffer DEF CallGranted, Await, Starts
    <2> QED
      BY <1>6, <2>2, <2>3 DEF CallGranted
  <1>7. ASSUME NEW r \in Requests, Hit(r) PROVE HandsOn
    BY <1>7 DEF Hit, Unlock, HandsOn
  <1>8. ASSUME NEW r \in Requests, Loaded(r) PROVE HandsOn
    BY <1>8 DEF Loaded, Unlock, HandsOn
  <1>9. ASSUME NEW r \in Requests, LoadFailed(r) PROVE HandsOn
    BY <1>9 DEF LoadFailed, Unlock, HandsOn, Fail
  <1>10. ASSUME NEW e \in Engines, Expired(e) PROVE HandsOn
    BY <1>10 DEF Expired, Unlock, HandsOn
  <1>11. ASSUME NEW c \in Calls, CallBlocked(c) PROVE HandsOn
    BY <1>11 DEF CallBlocked, Unlock, HandsOn, CallEnds
  <1>12. ASSUME NEW c \in Calls, Forgotten(c) PROVE HandsOn
    BY <1>12 DEF Forgotten, Unlock, HandsOn, CallEnds
  <1>13. ASSUME NEW c \in Calls, Swapped(c) PROVE HandsOn
    BY <1>13 DEF Swapped, Unlock, HandsOn, CallEnds
  <1>14. ASSUME NEW c \in Calls, Freed(c) PROVE HandsOn
    BY <1>14 DEF Freed, Unlock, HandsOn, CallEnds
  <1>15. ASSUME NEW c \in Calls, Rearm(c) PROVE HandsOn
    BY <1>15 DEF Rearm, Unlock, HandsOn, CallEnds
  <1>16. ASSUME NEW r \in Requests, Acquire(r) PROVE Waits
    BY <1>16, TasksTyped DEF Acquire, Waits, IInv
  <1>17. ASSUME NEW r \in Requests, TimeOut(r) PROVE Waits
    BY <1>17, TasksTyped DEF TimeOut, Waits, IInv
  <1>18. ASSUME NEW r \in Requests, Sleep(r) PROVE Waits
    BY <1>18, TasksTyped DEF Sleep, Waits, IInv
  <1>19. ASSUME NEW r \in Requests, WakeByTimer(r) PROVE Waits
    BY <1>19, TasksTyped DEF WakeByTimer, Waits, IInv
  <1>20. ASSUME NEW r \in Requests, Release(r) PROVE Waits
    BY <1>20, TasksTyped, WokenAsleep DEF Release, Waits, Wake
  <1>21. ASSUME NEW e \in Engines, TimerFires(e) PROVE Waits
    BY <1>21, TasksTyped DEF TimerFires, Waits, IInv
  <1>22. ASSUME NEW e \in Engines, WorkerDies(e) PROVE Waits
    BY <1>22, TasksTyped DEF WorkerDies, Waits, IInv
  <1>23. ASSUME NEW c \in Calls, StartCall(c) PROVE Waits
    BY <1>23, TasksTyped DEF StartCall, Waits, IInv
  <1>24. ASSUME NEW c \in Calls, Patch(c) PROVE Waits
    BY <1>24, TasksTyped DEF Patch, Waits, IInv
  <1>25. ASSUME NEW c \in Calls, PollAgain(c) PROVE Waits
    BY <1>25, TasksTyped DEF PollAgain, Waits, IInv
  <1>26. ASSUME NEW c \in Calls, SwapWakes(c) PROVE Waits
    BY <1>26, TasksTyped, WokenAsleep DEF SwapWakes, Waits, Wake
  <1>27. CASE UNCHANGED <<step, lockQueue>>
    BY <1>27 DEF Waits
  <1> QED
    BY <1>1, <1>2, <1>3, <1>4, <1>5, <1>6, <1>7, <1>8, <1>9, <1>10, <1>11, <1>12, <1>13, <1>14, <1>15, <1>16, <1>17, <1>18, <1>19, <1>20, <1>21, <1>22, <1>23, <1>24, <1>25, <1>26, <1>27
    DEF Next, LockStep, AcquireStep, CallStep, vars, Tick, StopExpiry

(* Only a load makes a model resident, and it hands the lock on. *)
LEMMA NewResidents == IInv /\ [Next]_vars => HandsOn \/ Residents' \subseteq Residents
  <1> SUFFICES ASSUME IInv, [Next]_vars
               PROVE  HandsOn \/ Residents' \subseteq Residents
    OBVIOUS
  <1>1. CASE ~Loud
    BY <1>1, QuietStep DEF Quiet, Residents, Absent
  <1>2. ASSUME NEW r \in Requests, Hit(r) \/ Loaded(r) PROVE HandsOn
    BY <1>2 DEF Hit, Loaded, Unlock, HandsOn
  <1>3. ASSUME NEW r \in Requests, Release(r) PROVE Residents' \subseteq Residents
    <2>1. request[r].ask.engine \in Engines
      BY <1>3, AskTyped DEF Release
    <2> QED
      BY <1>3, <2>1, LetGoLease DEF Release, Residents, IInv, TypeOK
  <1> QED
    BY <1>1, <1>2, <1>3 DEF Loud

LEMMA TransitStep == IInv /\ [Next]_vars => TransitIsHeads'
  <1> SUFFICES ASSUME IInv, [Next]_vars, step'.at # "granted"
               PROVE  /\ lockQueue' # <<>>
                      /\ step'.engine \notin Residents'
                      /\ \A r \in Requests : Head(lockQueue') = AcquireTask(r) =>
                           /\ request'[r].pc = "queued"
                           /\ request'[r].ask.engine \notin Residents'
    BY DEF TransitIsHeads
  <1>1. ~HandsOn
    BY DEF HandsOn, Granted
  <1>2. Residents' \subseteq Residents
    BY <1>1, NewResidents
  <1>3. CASE Waits
    <2>1. /\ step.at # "granted" /\ lockQueue # <<>>
          /\ step'.engine = step.engine /\ step.engine \notin Residents
      BY <1>3 DEF Waits, IInv, TransitIsHeads
    <2>2. lockQueue' # <<>> /\ Head(lockQueue') = Head(lockQueue)
      <3>1. lockQueue \in Seq(Task)
        BY DEF IInv, TypeOK
      <3>2. CASE UNCHANGED lockQueue
        BY <2>1, <3>2
      <3>3. ASSUME NEW task \in Task, lockQueue' = Append(lockQueue, task)
            PROVE  lockQueue' # <<>> /\ Head(lockQueue') = Head(lockQueue)
        BY <2>1, <3>1, <3>3
      <3> QED
        BY <1>3, <3>2, <3>3 DEF Waits
    <2>3. ASSUME NEW r \in Requests, Head(lockQueue) = AcquireTask(r)
          PROVE  request'[r].pc = "queued" /\ request'[r].ask = request[r].ask
      <3>1. request[r].pc = "queued"
        BY <2>1, <2>3 DEF IInv, TransitIsHeads
      <3>2. Moves(r) /\ step' # Granted
        BY <1>1, RequestMoves DEF HandsOn
      <3> QED
        BY <3>1, <3>2 DEF Moves
    <2>4. \A r \in Requests : Head(lockQueue) = AcquireTask(r) =>
            request[r].ask.engine \notin Residents
      BY <2>1 DEF IInv, TransitIsHeads
    <2> QED
      BY <1>2, <2>1, <2>2, <2>3, <2>4
  <1>4. CASE Starts
    BY <1>4 DEF Starts
  <1> QED
    BY <1>1, <1>3, <1>4, LockMoves

----------------------------------------------------------------------------
(* Leases: counted right, and on the model they were taken for. *)

LEMMA SpeakersFinite == \A e : IsFiniteSet(SpeakersOf(e))
  BY ResidencyAssumption, FS_Subset DEF SpeakersOf

(* A model somebody speaks has a lease; one that is out of the Map has none. *)
LEMMA SpokenIsLeased ==
  ASSUME IInv, NEW q \in Requests, request[q].pc = "speaking"
  PROVE  residents[request[q].ask.engine].leases # 0
  <1> DEFINE e == request[q].ask.engine
  <1>1. e \in Engines
    BY AskTyped
  <1>2. q \in SpeakersOf(e)
    BY DEF SpeakersOf
  <1>3. Cardinality(SpeakersOf(e)) # 0
    BY <1>2, SpeakersFinite, FS_EmptySet
  <1> QED
    BY <1>1, <1>3 DEF IInv, LeasesCounted

LEMMA AbsentUnleased ==
  ASSUME IInv, NEW e \in Engines, e \notin Residents
  PROVE  residents[e].leases = 0
  <1>1. SpeakersOf(e) = {}
    BY AskTyped, ResidencyAssumption DEF SpeakersOf, Residents, IInv, SpokenIsResident
  <1> QED
    BY <1>1, FS_EmptySet DEF IInv, LeasesCounted

(* A hit or a load starts one synthesis, of the variant the Map then shows. *)
LEMMA LeaseTaken ==
  ASSUME IInv, NEW r \in Requests, Hit(r) \/ Loaded(r)
  PROVE  /\ request[r].pc = "queued" /\ request'[r].pc = "speaking"
         /\ request'[r].ask = request[r].ask /\ request[r].ask.engine \in Engines
         /\ \A q \in Requests : q # r => request'[q] = request[q]
         /\ residents'[request[r].ask.engine].variant = request[r].ask.variant
         /\ residents'[request[r].ask.engine].leases
              = residents[request[r].ask.engine].leases + 1
         /\ \A e \in Engines : e # request[r].ask.engine => residents'[e] = residents[e]
  <1> DEFINE ask == request[r].ask
  <1>0. /\ request \in [Requests -> Request] /\ request[r] \in Request
        /\ residents \in [Engines -> Resident] /\ now \in Nat
    BY ResidencyAssumption DEF IInv, TypeOK
  <1>1. request[r].pc = "queued"
    BY DEF Hit, Loaded, Acquiring
  <1>2. /\ ask.engine \in Engines /\ ask.variant \in Variants
        /\ ask.keepAlive \in KeepAlives \cup {Unset}
    BY <1>1, AskTyped
  <1>3. /\ request' = [request EXCEPT ![r].pc = "speaking"]
        /\ request'[r].pc = "speaking" /\ request'[r].ask = ask
    BY <1>0, RequestFields DEF Hit, Loaded
  <1>4. CASE Hit(r)
    <2>1. /\ residents' = [residents EXCEPT ![ask.engine] = Held(@, ask.keepAlive)]
          /\ residents[ask.engine].variant = ask.variant
      BY <1>4 DEF Hit
    <2> QED
      BY <1>0, <1>1, <1>2, <1>3, <2>1, HeldLease
  <1>5. CASE Loaded(r)
    <2> DEFINE fresh == [Absent EXCEPT !.variant = ask.variant, !.object = loads[ask.engine] + 1]
    <2>1. residents' = [residents EXCEPT ![ask.engine] = Held(fresh, ask.keepAlive)]
      BY <1>5 DEF Loaded
    <2>2. loads[ask.engine] + 1 \in Nat
      BY <1>2 DEF IInv, TypeOK
    <2>3. fresh \in Resident /\ fresh.variant = ask.variant /\ fresh.leases = 0
      BY <1>2, <2>2, AbsentTyped DEF Resident, Absent
    <2>4. residents[ask.engine].leases = 0
      <3>1. ask.engine \notin Residents
        BY <1>1, <1>5 DEF Loaded, Acquiring, Running, IInv, TransitIsHeads
      <3> QED
        BY <1>2, <3>1, AbsentUnleased
    <2> HIDE DEF fresh
    <2>5. /\ Held(fresh, ask.keepAlive).variant = ask.variant
          /\ Held(fresh, ask.keepAlive).leases = 1
      BY <1>0, <1>2, <2>3, HeldLease
    <2> QED
      BY <1>0, <1>1, <1>2, <1>3, <2>1, <2>4, <2>5
  <1> QED
    BY <1>4, <1>5

(* A release ends one synthesis and gives its lease back. *)
LEMMA LeaseGiven ==
  ASSUME IInv, NEW r \in Requests, Release(r)
  PROVE  /\ request[r].pc = "speaking" /\ request'[r].pc = "done"
         /\ request[r].ask.engine \in Engines
         /\ \A q \in Requests : q # r =>
              /\ request'[q].pc = "speaking" <=> request[q].pc = "speaking"
              /\ request[q].pc = "speaking" => request'[q] = request[q]
         /\ residents'[request[r].ask.engine].variant = residents[request[r].ask.engine].variant
         /\ residents'[request[r].ask.engine].leases =
              IF residents[request[r].ask.engine].leases = 0 THEN 0
              ELSE residents[request[r].ask.engine].leases - 1
         /\ \A e \in Engines : e # request[r].ask.engine => residents'[e] = residents[e]
  <1>0. /\ TypeOK /\ request \in [Requests -> Request]
        /\ residents \in [Engines -> Resident]
    BY DEF IInv, TypeOK
  <1>1. request[r].pc = "speaking"
    BY DEF Release
  <1>2. request[r].ask.engine \in Engines
    BY <1>1, AskTyped
  <1>3. request'[r].pc = "done"
    BY <1>0, <1>1, WokenAsleep DEF Release, Roused, Over
  <1>4. \A q \in Requests : q # r =>
          /\ request'[q].pc = "speaking" <=> request[q].pc = "speaking"
          /\ request[q].pc = "speaking" => request'[q] = request[q]
    BY <1>0, WokenAsleep, RequestFields DEF Release, Roused
  <1>5. residents' = [residents EXCEPT ![request[r].ask.engine] = LetGo(request[r].ask.engine, @)]
    BY DEF Release
  <1> QED
    BY <1>0, <1>1, <1>2, <1>3, <1>4, <1>5, LetGoLease

LEMMA SpokenStep == IInv /\ [Next]_vars => SpokenIsResident'
  <1> SUFFICES ASSUME IInv, [Next]_vars, NEW q \in Requests, request'[q].pc = "speaking"
               PROVE  residents'[request'[q].ask.engine].variant = request'[q].ask.variant
    BY DEF SpokenIsResident
  <1>0. SpokenIsResident
    BY DEF IInv
  <1>1. ASSUME NEW r \in Requests, Hit(r) \/ Loaded(r)
        PROVE  residents'[request'[q].ask.engine].variant = request'[q].ask.variant
    <2>1. CASE q = r
      BY <1>1, <2>1, LeaseTaken
    <2>2. CASE q # r
      <3>1. request'[q] = request[q] /\ request[q].ask.engine \in Engines
        BY <1>1, <2>2, LeaseTaken, AskTyped
      <3>2. residents[request[q].ask.engine].variant = request[q].ask.variant
        BY <1>0, <3>1 DEF SpokenIsResident
      <3>3. CASE request[q].ask.engine # request[r].ask.engine
        BY <1>1, <3>1, <3>2, <3>3, LeaseTaken
      <3>4. CASE request[q].ask.engine = request[r].ask.engine
        <4>1. request[q].ask.engine \in Residents
          BY <3>1, <3>2, AskTyped, ResidencyAssumption DEF Residents
        <4>2. Hit(r)
          BY <1>1, <3>4, <4>1 DEF Loaded, Acquiring, Running, IInv, TransitIsHeads
        <4>3. residents[request[r].ask.engine].variant = request[r].ask.variant
          BY <4>2 DEF Hit
        <4>4. residents'[request[r].ask.engine].variant = request[r].ask.variant
          BY <1>1, LeaseTaken
        <4> QED
          BY <3>1, <3>2, <3>4, <4>3, <4>4
      <3> QED
        BY <3>3, <3>4
    <2> QED
      BY <2>1, <2>2
  <1>2. ASSUME NEW r \in Requests, Release(r)
        PROVE  residents'[request'[q].ask.engine].variant = request'[q].ask.variant
    <2>1. q # r
      BY <1>2, LeaseGiven
    <2>2. request'[q] = request[q] /\ request[q].ask.engine \in Engines
      BY <1>2, <2>1, LeaseGiven, AskTyped
    <2> QED
      BY <1>0, <1>2, <2>2, LeaseGiven DEF SpokenIsResident
  <1>3. CASE ~Loud
    <2>1. request[q].pc = "speaking"
      BY <1>3, QuietSpeakers DEF Speaking
    <2>2. request'[q].ask = request[q].ask
      BY <2>1, RequestMoves DEF Moves
    <2>3. request[q].ask.engine \in Engines
      BY <2>1, AskTyped
    <2>4. residents[request[q].ask.engine].leases # 0
      BY <2>1, <2>3, SpokenIsLeased
    <2> QED
      BY <1>0, <1>3, <2>1, <2>2, <2>3, <2>4, QuietStep DEF Quiet, SpokenIsResident
  <1> QED
    BY <1>1, <1>2, <1>3 DEF Loud

LEMMA CountedStep == IInv /\ [Next]_vars => LeasesCounted'
  <1> SUFFICES ASSUME IInv, [Next]_vars, NEW e \in Engines
               PROVE  residents'[e].leases = Cardinality(SpeakersOf(e)')
    BY DEF LeasesCounted
  <1>0. /\ residents[e].leases = Cardinality(SpeakersOf(e)) /\ IsFiniteSet(SpeakersOf(e))
        /\ Cardinality(SpeakersOf(e)) \in Nat
    BY SpeakersFinite, FS_CardinalityType DEF IInv, LeasesCounted
  <1>1. ASSUME NEW r \in Requests, Hit(r) \/ Loaded(r)
        PROVE  residents'[e].leases = Cardinality(SpeakersOf(e)')
    <2>1. CASE e = request[r].ask.engine
      <3>1. SpeakersOf(e)' = SpeakersOf(e) \cup {r} /\ r \notin SpeakersOf(e)
        BY <1>1, <2>1, LeaseTaken DEF SpeakersOf
      <3>2. Cardinality(SpeakersOf(e)') = Cardinality(SpeakersOf(e)) + 1
        BY <1>0, <3>1, FS_AddElement
      <3> QED
        BY <1>0, <1>1, <2>1, <3>2, LeaseTaken
    <2>2. CASE e # request[r].ask.engine
      <3>1. SpeakersOf(e)' = SpeakersOf(e)
        BY <1>1, <2>2, LeaseTaken DEF SpeakersOf
      <3> QED
        BY <1>0, <1>1, <2>2, <3>1, LeaseTaken
    <2> QED
      BY <2>1, <2>2
  <1>2. ASSUME NEW r \in Requests, Release(r)
        PROVE  residents'[e].leases = Cardinality(SpeakersOf(e)')
    <2>1. CASE e = request[r].ask.engine
      <3>1. SpeakersOf(e)' = SpeakersOf(e) \ {r} /\ r \in SpeakersOf(e)
        BY <1>2, <2>1, LeaseGiven DEF SpeakersOf
      <3>2. Cardinality(SpeakersOf(e)') = Cardinality(SpeakersOf(e)) - 1
        BY <1>0, <3>1, FS_RemoveElement
      <3>3. residents[e].leases # 0
        BY <1>2, <2>1, SpokenIsLeased, LeaseGiven
      <3> QED
        BY <1>0, <1>2, <2>1, <3>2, <3>3, LeaseGiven
    <2>2. CASE e # request[r].ask.engine
      <3>1. SpeakersOf(e)' = SpeakersOf(e)
        BY <1>2, <2>2, LeaseGiven DEF SpeakersOf
      <3> QED
        BY <1>0, <1>2, <2>2, <3>1, LeaseGiven
    <2> QED
      BY <2>1, <2>2
  <1>3. CASE ~Loud
    <2>1. SpeakersOf(e)' = SpeakersOf(e)
      <3>1. \A q \in Requests : request'[q].pc = "speaking" <=> request[q].pc = "speaking"
        BY <1>3, QuietSpeakers DEF Speaking
      <3>2. \A q \in Requests : request[q].pc = "speaking" /\ request'[q].pc = "speaking" =>
              request'[q].ask = request[q].ask
        BY RequestMoves DEF Moves
      <3> QED
        BY <3>1, <3>2 DEF SpeakersOf
    <2>2. residents'[e].leases = residents[e].leases
      BY <1>3, QuietStep DEF Quiet, Absent
    <2> QED
      BY <1>0, <2>1, <2>2
  <1> QED
    BY <1>1, <1>2, <1>3 DEF Loud

----------------------------------------------------------------------------
(* The workers: only the engine in transit, or one whose process dies, changes. *)

CardKept(m) ==
  \/ card'[m] = card[m]
  \/ m = step.engine /\ step.at # "granted"
  \/ "death" \in Faults /\ card'[m] = None

LEMMA CardMoves == IInv /\ [Next]_vars => \A m \in Engines : CardKept(m)
  <1> SUFFICES ASSUME IInv, [Next]_vars, NEW m \in Engines
               PROVE  CardKept(m)
    OBVIOUS
  <1>0. card \in [Engines -> Variants \cup {None}]
    BY DEF IInv, TypeOK
  <1>1. ASSUME NEW r \in Requests, RoomMade(r) PROVE CardKept(m)
    BY <1>0, <1>1 DEF RoomMade, CardKept, Acquiring, Running, Released
  <1>2. ASSUME NEW r \in Requests, Loaded(r) PROVE CardKept(m)
    BY <1>0, <1>2 DEF Loaded, CardKept, Acquiring, Running
  <1>3. ASSUME NEW r \in Requests, LoadFailed(r) PROVE CardKept(m)
    BY <1>0, <1>3 DEF LoadFailed, CardKept, Acquiring, Running
  <1>4. ASSUME NEW e \in Engines, Expired(e) PROVE CardKept(m)
    BY <1>0, <1>4 DEF Expired, CardKept, Running, Released
  <1>5. ASSUME NEW e \in Engines, WorkerDies(e) PROVE CardKept(m)
    BY <1>0, <1>5 DEF WorkerDies, CardKept
  <1>6. ASSUME NEW c \in Calls, Forgotten(c) PROVE CardKept(m)
    BY <1>0, <1>6 DEF Forgotten, CardKept, Serving, Running
  <1>7. ASSUME NEW c \in Calls, Swapped(c) PROVE CardKept(m)
    BY <1>0, <1>7 DEF Swapped, CardKept, Serving, Running
  <1>8. ASSUME NEW c \in Calls, Freed(c) PROVE CardKept(m)
    BY <1>0, <1>8 DEF Freed, CardKept, Serving, Running, Released
  <1>9. CASE UNCHANGED card
    BY <1>9 DEF CardKept
  <1> QED
    BY <1>1, <1>2, <1>3, <1>4, <1>5, <1>6, <1>7, <1>8, <1>9
    DEF Next, LockStep, AcquireStep, CallStep, vars, Tick, StopExpiry, Acquire, Hit, SwitchVariant, Miss, Spawned, TimeOut, Sleep, WakeByTimer, Release, Expire, TimerFires, StartCall, Patch, CallBlocked, PollAgain, CallGranted, SwapWakes, Rearm

LEMMA OnCardStep == IInv /\ [Next]_vars => ResidentOnCard'
  <1> SUFFICES ASSUME IInv, [Next]_vars, NEW e \in Residents'
               PROVE  OnItsCard(e)'
    BY DEF ResidentOnCard
  <1>0. e \in Engines
    BY DEF Residents
  <1>1. ASSUME NEW r \in Requests, Loaded(r), e = request[r].ask.engine
        PROVE  OnItsCard(e)'
    <2>1. residents'[e].variant = request[r].ask.variant
      BY <1>1, LeaseTaken
    <2>2. card'[e] = request[r].ask.variant
      BY <1>0, <1>1 DEF Loaded, IInv, TypeOK
    <2> QED
      BY <2>1, <2>2 DEF OnItsCard
  <1>2. ASSUME e \in Residents, residents'[e].variant = residents[e].variant
        PROVE  OnItsCard(e)'
    <2>1. OnItsCard(e)
      BY <1>2 DEF IInv, ResidentOnCard
    <2>2. ~(e = step.engine /\ step.at # "granted")
      BY <1>2 DEF IInv, TransitIsHeads
    <2> QED
      BY <1>0, <1>2, <2>1, <2>2, CardMoves DEF CardKept, OnItsCard
  <1>3. ASSUME NEW r \in Requests, Loaded(r), e # request[r].ask.engine
        PROVE  OnItsCard(e)'
    BY <1>0, <1>2, <1>3, LeaseTaken DEF Residents
  <1>4. ASSUME NEW r \in Requests, Hit(r)
        PROVE  OnItsCard(e)'
    <2>1. residents[request[r].ask.engine].variant = request[r].ask.variant
      BY <1>4 DEF Hit
    <2> QED
      BY <1>0, <1>2, <1>4, <2>1, LeaseTaken DEF Residents
  <1>5. ASSUME NEW r \in Requests, Release(r)
        PROVE  OnItsCard(e)'
    BY <1>0, <1>2, <1>5, LeaseGiven DEF Residents
  <1>6. CASE ~Loud
    BY <1>0, <1>2, <1>6, QuietStep DEF Quiet, Residents, Absent
  <1> QED
    BY <1>1, <1>3, <1>4, <1>5, <1>6 DEF Loud

----------------------------------------------------------------------------
LEMMA IInvInit == Init => IInv
  <1> SUFFICES ASSUME Init
               PROVE  IInv
    OBVIOUS
  <1>1. TypeOK
    <2>1. residents \in [Engines -> Resident]
      BY AbsentTyped DEF Init
    <2>2. request \in [Requests -> Request] /\ call \in [Calls -> Call]
      BY RequestTyped, CallTyped DEF Init
    <2>3. policy \in Policy
      BY DEF Init, Policy
    <2>4. now \in 0 .. Horizon /\ loads \in [Engines -> Nat]
      BY ResidencyAssumption DEF Init
    <2>5. /\ observed \in [Engines -> {"unloaded", "loading", "loaded"}]
          /\ card \in [Engines -> Variants \cup {None}]
          /\ declared \subseteq Engines /\ stopping \in BOOLEAN
      BY DEF Init
    <2>6. lockQueue \in Seq(Task) /\ waiters \in Seq(Requests \cup {Spent})
      BY DEF Init
    <2>7. step \in [at : Places, engine : Engines \cup {None}]
      BY DEF Init, Granted, Places
    <2> QED
      BY <2>1, <2>2, <2>3, <2>4, <2>5, <2>6, <2>7 DEF TypeOK
  <1>2. AskKnown /\ JobKnown /\ WaitersAsleep /\ TransitIsHeads /\ SpokenIsResident
    BY DEF Init, AskKnown, JobKnown, WaitersAsleep, TransitIsHeads, SpokenIsResident,
           Over, CallOver, Granted
  <1>3. ResidentOnCard
    BY DEF Init, ResidentOnCard, Residents, Absent
  <1>4. LeasesCounted
    <2>1. \A e \in Engines : SpeakersOf(e) = {}
      BY DEF Init, SpeakersOf, Over
    <2> QED
      BY <2>1, FS_EmptySet DEF Init, LeasesCounted, Absent
  <1> QED
    BY <1>1, <1>2, <1>3, <1>4 DEF IInv

LEMMA IInvStep == IInv /\ [Next]_vars => IInv'
  BY TypedStep, AskStep, JobStep, WaitersStep, TransitStep, OnCardStep, SpokenStep,
     CountedStep DEF IInv

(* The inductive invariant holds in every behaviour of the manager. *)
THEOREM Invariance == Spec => []IInv
  BY IInvInit, IInvStep, PTL DEF Spec

(* Every variable keeps its type. *)
THEOREM TypeCorrect == Spec => []TypeOK
  <1>1. IInv => TypeOK
    BY DEF IInv
  <1> QED
    BY <1>1, Invariance, PTL

(* A request that holds a lease has its variant in the Map and on the card, however  *)
(* many requests, operators and engines there are (tryAcquire, release, forget,      *)
(* replace, free, the expiry callback).                                              *)
THEOREM LeaseSafety == Spec => []LeaseHoldsModel
  <1>1. IInv => LeaseHoldsModel
    <2> SUFFICES ASSUME IInv, NEW r \in Requests, request[r].pc = "speaking"
                 PROVE  /\ residents[request[r].ask.engine].variant = request[r].ask.variant
                        /\ OnItsCard(request[r].ask.engine)
      BY DEF LeaseHoldsModel
    <2>1. residents[request[r].ask.engine].variant = request[r].ask.variant
      BY DEF IInv, SpokenIsResident
    <2>2. request[r].ask.engine \in Residents
      BY <2>1, AskTyped, ResidencyAssumption DEF Residents
    <2> QED
      BY <2>1, <2>2 DEF IInv, ResidentOnCard
  <1> QED
    BY <1>1, Invariance, PTL

(* The lease count of a model is the number of requests speaking it: hold adds one, *)
(* a lease's release takes one, and nothing else touches it.                        *)
THEOREM LeaseAccounting == Spec => []LeasesCounted
  <1>1. IInv => LeasesCounted
    BY DEF IInv
  <1> QED
    BY <1>1, Invariance, PTL

(* An engine in transit is out of the Map and silent. *)
THEOREM TransitSafety == Spec => []TransitIsAlone
  <1>1. IInv => TransitIsAlone
    <2> SUFFICES ASSUME IInv, step.at # "granted"
                 PROVE  step.engine \notin Residents /\ SpeakersOf(step.engine) = {}
      BY DEF TransitIsAlone
    <2>1. step.engine \notin Residents
      BY DEF IInv, TransitIsHeads
    <2>2. \A r \in Requests : request[r].pc = "speaking" => request[r].ask.engine \in Residents
      BY AskTyped, ResidencyAssumption DEF IInv, SpokenIsResident, Residents
    <2> QED
      BY <2>1, <2>2 DEF SpeakersOf
  <1> QED
    BY <1>1, Invariance, PTL
=============================================================================
