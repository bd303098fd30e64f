--------------------------- MODULE ModelWorkerProofs ---------------------------
(***************************************************************************)
(* The Python worker's safety, for every finite set of requests, every set *)
(* of variants and kinds of call, every concurrency and every set of       *)
(* faults.                                                                 *)
(***************************************************************************)
EXTENDS ModelWorker, FiniteSetTheorems, SequenceTheorems, TLAPS

-----------------------------------------------------------------------------
(* The inductive invariant.                                                *)

(* The requests that hold a slot, and those whose synthesis still counts.  *)
Holders == {r \in Requests : request[r].pc \in {"holding", "speaking"}}
Counted == {r \in Requests : thread[r] # "none"}

Waits(r, queue) == \E i \in 1..Len(queue) : queue[i] = r

(* Whoever loads, unloads or is about to is the head of the lock, and has  *)
(* something left to do; whoever waits for the lock or a slot is in line.  *)
Transits(r) ==
  request[r].pc \in {"settling", "unloading", "loading"} =>
    transition # <<>> /\ Head(transition) = r /\ request[r].todo # <<>>
InTransit == \A r \in Requests : Transits(r)
InLine ==
  \A r \in Requests : /\ request[r].pc = "locking" => Waits(r, transition)
                      /\ request[r].pc = "slotting" => Waits(r, slotQueue)

(* A synthesis is its request's, until it has ended or its client is gone. *)
ThreadsKnown ==
  \A r \in Requests : thread[r] # "none" => request[r].pc \in {"speaking", "served", "left"}

(* The worker's count is that of the syntheses, and never too high.        *)
CountExact == synthesising = Cardinality(Counted) /\ synthesising <= Concurrency

IInv ==
  /\ TypeOK
  /\ InTransit /\ InLine
  /\ ThreadsKnown /\ CountExact /\ SlotsAccounted

-----------------------------------------------------------------------------
(* Sets of requests.                                                       *)

LEMMA HoldersFinite ==
  /\ IsFiniteSet(Holders) /\ Cardinality(Holders) \in Nat
  /\ IsFiniteSet(Counted) /\ Cardinality(Counted) \in Nat
  <1>1. Holders \in SUBSET Requests /\ Counted \in SUBSET Requests
    BY DEF Holders, Counted
  <1>2. IsFiniteSet(Holders) /\ IsFiniteSet(Counted)
    BY <1>1, FS_Subset, WorkerAssumption
  <1> QED
    BY <1>2, FS_CardinalityType

(* Somebody takes a slot, gives one back, or does neither.                 *)
LEMMA HolderComes ==
  ASSUME TypeOK, NEW r \in Requests, NEW q \in Request,
         request' = [request EXCEPT ![r] = q],
         r \notin Holders, q.pc \in {"holding", "speaking"}
  PROVE  Cardinality(Holders') = Cardinality(Holders) + 1
  <1>1. Holders' = Holders \cup {r}
    BY DEF Holders, TypeOK
  <1> QED
    BY <1>1, FS_AddElement, HoldersFinite

LEMMA HolderGoes ==
  ASSUME TypeOK, NEW r \in Requests, NEW q \in Request,
         request' = [request EXCEPT ![r] = q],
         r \in Holders, q.pc \notin {"holding", "speaking"}
  PROVE  Cardinality(Holders') = Cardinality(Holders) - 1
  <1>1. Holders' = Holders \ {r}
    BY DEF Holders, TypeOK
  <1> QED
    BY <1>1, FS_RemoveElement, HoldersFinite

LEMMA HoldersStay ==
  ASSUME TypeOK, NEW r \in Requests, NEW q \in Request,
         request' = [request EXCEPT ![r] = q],
         r \in Holders <=> q.pc \in {"holding", "speaking"}
  PROVE  Holders' = Holders
  BY DEF Holders, TypeOK

(* SlotsAccounted, of the set it counts.                                   *)
LEMMA SlotsOfHolders ==
  /\ SlotsAccounted <=> slots + Cardinality(Holders) = Concurrency
  /\ SlotsAccounted' <=> slots' + Cardinality(Holders') = Concurrency
  BY DEF SlotsAccounted, Holders

(* Waiting in a queue that grows at its end, or whose head leaves.         *)
LEMMA WaitsLonger ==
  ASSUME NEW queue \in Seq(Requests), NEW r \in Requests, NEW q
  PROVE  /\ Waits(q, queue) => Waits(q, Append(queue, r))
         /\ Waits(r, Append(queue, r))
  <1>1. /\ Len(Append(queue, r)) = Len(queue) + 1 /\ Len(queue) \in Nat
        /\ \A i \in 1..Len(queue) : Append(queue, r)[i] = queue[i]
        /\ Append(queue, r)[Len(queue) + 1] = r
    BY AppendProperties
  <1> QED
    BY <1>1 DEF Waits

LEMMA WaitsOn ==
  ASSUME NEW queue \in Seq(Requests), queue # <<>>, NEW q, Waits(q, queue), q # Head(queue)
  PROVE  Waits(q, Tail(queue))
  <1>1. PICK i \in 1..Len(queue) : queue[i] = q
    BY DEF Waits
  <1>2. Len(Tail(queue)) = Len(queue) - 1 /\ Len(queue) \in Nat
    BY HeadTailProperties
  <1>3. i # 1
    BY <1>1
  <1>4. i - 1 \in 1..Len(Tail(queue))
    BY <1>1, <1>2, <1>3
  <1>5. Tail(queue)[i - 1] = queue[i]
    <2>1. \A j \in 1..Len(Tail(queue)) : Tail(queue)[j] = queue[j + 1]
      BY HeadTailProperties
    <2>2. Tail(queue)[i - 1] = queue[(i - 1) + 1]
      BY <2>1, <1>4
    <2>3. (i - 1) + 1 = i
      BY <1>1
    <2> QED
      BY <2>2, <2>3
  <1> QED
    BY <1>1, <1>4, <1>5 DEF Waits

LEMMA WaitsSomewhere ==
  ASSUME NEW queue \in Seq(Requests), NEW q, Waits(q, queue)
  PROVE  queue # <<>>
  BY DEF Waits

-----------------------------------------------------------------------------
(* The slots.  What a turn does to them, whoever takes it.                 *)

SlotInv ==
  /\ slots \in 0..Concurrency /\ slotQueue \in Seq(Requests)
  /\ synthesising \in Nat /\ thread \in [Requests -> {"none", "running", "ended"}]
  /\ ThreadsKnown /\ CountExact /\ SlotsAccounted
  /\ \A r \in Requests : request[r].pc = "slotting" => Waits(r, slotQueue)

(* The requests but r are left alone.                                      *)
Becomes(r, pcs) ==
  \E q \in Request : q.pc \in pcs /\ request' = [request EXCEPT ![r] = q]

LEMMA RequestTyped ==
  /\ \A q \in Request, pc \in {"settling", "unloading", "loading", "slotting", "holding", "speaking"} :
       /\ [q EXCEPT !.pc = pc] \in Request /\ [q EXCEPT !.pc = pc].pc = pc
       /\ [q EXCEPT !.pc = pc].todo = q.todo
  /\ \A pc \in {"idle", "served", "failed", "left"} : Ended(pc) \in Request /\ Ended(pc).pc = pc
  <1>1. \A q \in Request, pc \in {"settling", "unloading", "loading", "slotting", "holding", "speaking"} :
          /\ [q EXCEPT !.pc = pc] \in Request /\ [q EXCEPT !.pc = pc].pc = pc
          /\ [q EXCEPT !.pc = pc].todo = q.todo
    BY DEF Request
  <1>2. <<>> \in Seq({"unload", "load"})
    BY EmptySeq
  <1>3. \A pc \in {"idle", "served", "failed", "left"} : Ended(pc) \in Request /\ Ended(pc).pc = pc
    BY <1>2 DEF Ended, Request
  <1> QED
    BY <1>1, <1>3

Busy == {"settling", "unloading", "loading"}

(* Nobody of the lock's.                                                   *)
Elsewhere == {"idle", "slotting", "holding", "speaking", "served", "failed", "left"}

(* A new thread, of a request that had none.                               *)
LEMMA CountedMore ==
  ASSUME TypeOK, CountExact, NEW r \in Requests, thread[r] = "none",
         synthesising < Concurrency, synthesising' = synthesising + 1,
         thread' = [thread EXCEPT ![r] = "running"]
  PROVE  CountExact'
  <1>1. Counted' = Counted \cup {r} /\ r \notin Counted
    BY DEF Counted, TypeOK
  <1>2. Cardinality(Counted') = Cardinality(Counted) + 1
    BY <1>1, FS_AddElement, HoldersFinite
  <1> QED
    BY <1>2, WorkerAssumption DEF CountExact, TypeOK

LEMMA CountedLess ==
  ASSUME TypeOK, CountExact, NEW r \in Requests, thread[r] # "none",
         synthesising' = synthesising - 1, thread' = [thread EXCEPT ![r] = "none"]
  PROVE  CountExact' /\ synthesising' \in Nat
  <1>1. Counted' = Counted \ {r} /\ r \in Counted
    BY DEF Counted, TypeOK
  <1>2. Cardinality(Counted') = Cardinality(Counted) - 1 /\ Cardinality(Counted') \in Nat
    <2>1. IsFiniteSet(Counted')
      BY <1>1, FS_RemoveElement, HoldersFinite
    <2> QED
      BY <1>1, <2>1, FS_RemoveElement, FS_CardinalityType, HoldersFinite
  <1> QED
    BY <1>2, WorkerAssumption DEF CountExact, TypeOK

(* WithSlot: a request that takes a slot speaks in it, or holds it.        *)
LEMMA WithSlotKeeps ==
  ASSUME TypeOK, ThreadsKnown, CountExact, SlotsAccounted,
         NEW r \in Requests, NEW self \in Request,
         r \notin Holders, thread[r] = "none",
         slots > 0, slots' = slots - 1, WithSlot(r, self)
  PROVE  /\ slots' \in 0..Concurrency /\ SlotsAccounted' /\ CountExact' /\ ThreadsKnown'
         /\ synthesising' \in Nat /\ thread' \in [Requests -> {"none", "running", "ended"}]
         /\ Becomes(r, {"holding", "speaking"})
  <1>1. slots' \in 0..Concurrency
    BY WorkerAssumption DEF TypeOK
  <1>2. CASE synthesising < Concurrency /\ Synthesise(r, self)
    <2> DEFINE q == [self EXCEPT !.pc = "speaking"]
    <2>1. q \in Request /\ q.pc = "speaking"
      BY RequestTyped
    <2>2. request' = [request EXCEPT ![r] = q]
      BY <1>2 DEF Synthesise
    <2> HIDE DEF q
    <2>3. Cardinality(Holders') = Cardinality(Holders) + 1
      BY <2>1, <2>2, HolderComes
    <2>4. SlotsAccounted'
      BY <2>3, <1>1, SlotsOfHolders, HoldersFinite DEF TypeOK
    <2>5. CountExact'
      BY <1>2, CountedMore DEF Synthesise
    <2>6. synthesising' \in Nat /\ thread' \in [Requests -> {"none", "running", "ended"}]
      BY <1>2 DEF Synthesise, TypeOK
    <2>7. ThreadsKnown'
      BY <1>2, <2>1, <2>2 DEF Synthesise, ThreadsKnown, TypeOK
    <2>8. Becomes(r, {"holding", "speaking"})
      BY <2>1, <2>2 DEF Becomes
    <2> QED
      BY <1>1, <2>4, <2>5, <2>6, <2>7, <2>8
  <1>3. CASE /\ synthesising >= Concurrency
             /\ request' = [request EXCEPT ![r] = [self EXCEPT !.pc = "holding"]]
             /\ UNCHANGED <<synthesising, thread>>
    <2> DEFINE q == [self EXCEPT !.pc = "holding"]
    <2>1. q \in Request /\ q.pc = "holding"
      BY RequestTyped
    <2>2. request' = [request EXCEPT ![r] = q]
      BY <1>3
    <2> HIDE DEF q
    <2>3. Cardinality(Holders') = Cardinality(Holders) + 1
      BY <2>1, <2>2, HolderComes
    <2>4. SlotsAccounted'
      BY <2>3, <1>1, SlotsOfHolders, HoldersFinite DEF TypeOK
    <2>5. CountExact' /\ synthesising' \in Nat /\ thread' \in [Requests -> {"none", "running", "ended"}]
      BY <1>3 DEF CountExact, Counted, TypeOK
    <2>6. ThreadsKnown'
      BY <1>3, <2>1, <2>2 DEF ThreadsKnown, TypeOK
    <2>7. Becomes(r, {"holding", "speaking"})
      BY <2>1, <2>2 DEF Becomes
    <2> QED
      BY <1>1, <2>4, <2>5, <2>6, <2>7
  <1> QED
    BY <1>2, <1>3 DEF WithSlot

(* A turn that leaves the slots alone, of a request that has none before   *)
(* or after it, nor waits for one after it.                                *)
LEMMA SlotsAlone ==
  ASSUME TypeOK, SlotInv, NEW r \in Requests, r \notin Holders, thread[r] = "none",
         Becomes(r, {"idle", "locking", "settling", "unloading", "loading", "served", "failed", "left"}),
         UNCHANGED <<slots, slotQueue, synthesising, thread>>
  PROVE  SlotInv'
  <1>1. PICK q \in Request :
          /\ q.pc \in {"idle", "locking", "settling", "unloading", "loading", "served", "failed", "left"}
          /\ request' = [request EXCEPT ![r] = q]
    BY DEF Becomes
  <1>2. Holders' = Holders
    BY <1>1, HoldersStay
  <1>3. SlotsAccounted'
    BY <1>2, SlotsOfHolders DEF SlotInv
  <1>4. CountExact'
    BY DEF SlotInv, CountExact, Counted
  <1>5. ThreadsKnown'
    BY <1>1 DEF SlotInv, ThreadsKnown, TypeOK
  <1>6. \A p \in Requests : request'[p].pc = "slotting" => Waits(p, slotQueue')
    BY <1>1 DEF SlotInv, TypeOK
  <1> QED
    BY <1>3, <1>4, <1>5, <1>6 DEF SlotInv

(* answer, and what follows the lock: a slot, a place in line, or the end. *)
LEMMA AnswerKeeps ==
  ASSUME TypeOK, SlotInv, NEW r \in Requests, NEW self \in Request,
         r \notin Holders, thread[r] = "none", Answer(r, self)
  PROVE  SlotInv' /\ Becomes(r, {"slotting", "holding", "speaking"})
  <1>1. CASE slots > 0 /\ slots' = slots - 1 /\ UNCHANGED slotQueue /\ WithSlot(r, self)
    <2>1. /\ slots' \in 0..Concurrency /\ SlotsAccounted' /\ CountExact' /\ ThreadsKnown'
          /\ synthesising' \in Nat /\ thread' \in [Requests -> {"none", "running", "ended"}]
          /\ Becomes(r, {"holding", "speaking"})
      BY <1>1, WithSlotKeeps DEF SlotInv
    <2>2. PICK q \in Request : /\ q.pc \in {"holding", "speaking"}
                               /\ request' = [request EXCEPT ![r] = q]
      BY <2>1 DEF Becomes
    <2>3. \A p \in Requests : request'[p].pc = "slotting" => Waits(p, slotQueue')
      BY <1>1, <2>2 DEF SlotInv, TypeOK
    <2> QED
      BY <1>1, <2>1, <2>2, <2>3 DEF SlotInv, Becomes
  <1>2. CASE /\ slotQueue' = Append(slotQueue, r)
             /\ request' = [request EXCEPT ![r] = [self EXCEPT !.pc = "slotting"]]
             /\ UNCHANGED <<slots, synthesising, thread>>
    <2> DEFINE q == [self EXCEPT !.pc = "slotting"]
    <2>1. q \in Request /\ q.pc = "slotting"
      BY RequestTyped
    <2>2. request' = [request EXCEPT ![r] = q]
      BY <1>2
    <2> HIDE DEF q
    <2>3. Holders' = Holders
      BY <2>1, <2>2, HoldersStay
    <2>4. SlotsAccounted'
      BY <1>2, <2>3, SlotsOfHolders DEF SlotInv
    <2>5. CountExact'
      BY <1>2 DEF SlotInv, CountExact, Counted
    <2>6. ThreadsKnown'
      BY <1>2, <2>1, <2>2 DEF SlotInv, ThreadsKnown, TypeOK
    <2>7. slotQueue' \in Seq(Requests)
      BY <1>2, AppendProperties DEF SlotInv
    <2>8. ASSUME NEW p \in Requests, request'[p].pc = "slotting"
          PROVE  Waits(p, slotQueue')
      <3>1. CASE p = r
        BY <1>2, <3>1, WaitsLonger DEF SlotInv
      <3>2. CASE p # r
        <4>1. request'[p] = request[p]
          BY <2>2, <3>2 DEF TypeOK
        <4>2. Waits(p, slotQueue)
          BY <2>8, <4>1 DEF SlotInv
        <4> QED
          BY <1>2, <4>2, WaitsLonger DEF SlotInv
      <3> QED
        BY <3>1, <3>2
    <2>9. Becomes(r, {"slotting", "holding", "speaking"})
      BY <2>1, <2>2 DEF Becomes
    <2> QED
      BY <1>2, <2>4, <2>5, <2>6, <2>7, <2>8, <2>9 DEF SlotInv
  <1> QED
    BY <1>1, <1>2 DEF Answer

LEMMA OnwardKeeps ==
  ASSUME TypeOK, SlotInv, NEW r \in Requests, NEW self \in Request,
         r \notin Holders, thread[r] = "none", Onward(r, self)
  PROVE  SlotInv' /\ Becomes(r, Elsewhere)
  <1>1. CASE self.kind = "speak" /\ Answer(r, self)
    BY <1>1, AnswerKeeps DEF Becomes, Elsewhere
  <1>2. CASE /\ request' = [request EXCEPT ![r] = Ended("served")]
             /\ UNCHANGED <<slots, slotQueue, synthesising, thread>>
    <2>1. Ended("served") \in Request /\ Ended("served").pc = "served"
      BY RequestTyped
    <2>2. Becomes(r, {"served"})
      BY <1>2, <2>1 DEF Becomes
    <2>3. /\ Becomes(r, Elsewhere)
          /\ Becomes(r, {"idle", "locking", "settling", "unloading", "loading", "served", "failed", "left"})
      BY <2>2 DEF Becomes, Elsewhere
    <2> QED
      BY <1>2, <2>3, SlotsAlone
  <1> QED
    BY <1>1, <1>2 DEF Onward

(* The request goes on working at the lock, with something left to do.     *)
Works(r) ==
  \E q \in Request : /\ q.pc \in Busy /\ q.todo # <<>>
                     /\ request' = [request EXCEPT ![r] = q]

LEMMA BeginKeeps ==
  ASSUME TypeOK, SlotInv, NEW r \in Requests, NEW self \in Request, self.todo # <<>>,
         r \notin Holders, thread[r] = "none",
         NEW now \in {"unloaded", "loading", "loaded", "unloading"}, Begin(r, self, now)
  PROVE  /\ SlotInv' /\ Works(r)
         /\ model' \in {"unloaded", "loading", "loaded", "unloading"}
  <1>1. Head(self.todo) \in {"unload", "load"}
    <2>1. self.todo \in Seq({"unload", "load"})
      BY DEF Request
    <2> QED
      BY <2>1, HeadTailProperties
  <1>2. Doing[Head(self.todo)] \in {"unloading", "loading"}
    BY <1>1 DEF Doing
  <1>3. /\ model' \in {"unloaded", "loading", "loaded", "unloading"}
        /\ \E pc \in Busy : request' = [request EXCEPT ![r] = [self EXCEPT !.pc = pc]]
    BY <1>2 DEF Begin, Busy
  <1>4. PICK pc \in Busy : request' = [request EXCEPT ![r] = [self EXCEPT !.pc = pc]]
    BY <1>3
  <1>5. /\ [self EXCEPT !.pc = pc] \in Request /\ [self EXCEPT !.pc = pc].pc = pc
        /\ [self EXCEPT !.pc = pc].todo = self.todo
    <2>1. pc \in {"settling", "unloading", "loading", "slotting", "holding", "speaking"}
      BY DEF Busy
    <2> QED
      BY <2>1, RequestTyped
  <1>6. Works(r)
    BY <1>4, <1>5 DEF Works
  <1>7. Becomes(r, {"idle", "locking", "settling", "unloading", "loading", "served", "failed", "left"})
    BY <1>4, <1>5 DEF Becomes, Busy
  <1>8. UNCHANGED <<slots, slotQueue, synthesising, thread>>
    BY DEF Begin
  <1> QED
    BY <1>3, <1>6, <1>7, <1>8, SlotsAlone

-----------------------------------------------------------------------------
(* The lock.  What becomes of its line when its head works on, or goes.    *)

LockInv ==
  /\ transition \in Seq(Requests) /\ InTransit
  /\ \A r \in Requests : request[r].pc = "locking" => Waits(r, transition)

LEMMA WorksOn ==
  ASSUME TypeOK, LockInv, NEW r \in Requests, Works(r),
         transition # <<>>, Head(transition) = r, transition' = transition
  PROVE  LockInv'
  <1>1. PICK q \in Request : /\ q.pc \in Busy /\ q.todo # <<>>
                             /\ request' = [request EXCEPT ![r] = q]
    BY DEF Works
  <1>2. ASSUME NEW p \in Requests
        PROVE  Transits(p)' /\ (request'[p].pc = "locking" => Waits(p, transition'))
    <2>1. CASE p = r
      BY <1>1, <2>1 DEF Transits, Busy, TypeOK
    <2>2. CASE p # r
      BY <1>1, <2>2 DEF LockInv, InTransit, Transits, TypeOK
    <2> QED
      BY <2>1, <2>2
  <1> QED
    BY <1>2 DEF LockInv, InTransit

LEMMA TakesLock ==
  ASSUME TypeOK, LockInv, NEW r \in Requests, Works(r),
         transition = <<>>, transition' = <<r>>
  PROVE  LockInv'
  <1>1. PICK q \in Request : /\ q.pc \in Busy /\ q.todo # <<>>
                             /\ request' = [request EXCEPT ![r] = q]
    BY DEF Works
  <1>2. \A p \in Requests : ~Waits(p, transition)
    BY DEF Waits
  <1>3. ASSUME NEW p \in Requests
        PROVE  Transits(p)' /\ (request'[p].pc = "locking" => Waits(p, transition'))
    <2>1. CASE p = r
      BY <1>1, <2>1 DEF Transits, Busy, TypeOK
    <2>2. CASE p # r
      <3>1. request'[p] = request[p]
        BY <1>1, <2>2 DEF TypeOK
      <3>2. request[p].pc # "locking" /\ request[p].pc \notin Busy
        BY <1>2 DEF LockInv, InTransit, Transits, Busy
      <3> QED
        BY <3>1, <3>2 DEF Transits, Busy
    <2> QED
      BY <2>1, <2>2
  <1> QED
    BY <1>3 DEF LockInv, InTransit

LEMMA HandsOn ==
  ASSUME TypeOK, LockInv, NEW r \in Requests, Becomes(r, Elsewhere),
         transition # <<>>, Head(transition) = r, transition' = Tail(transition)
  PROVE  LockInv'
  <1>1. PICK q \in Request : q.pc \in Elsewhere /\ request' = [request EXCEPT ![r] = q]
    BY DEF Becomes
  <1>2. transition' \in Seq(Requests)
    BY HeadTailProperties DEF LockInv
  <1>3. ASSUME NEW p \in Requests
        PROVE  Transits(p)' /\ (request'[p].pc = "locking" => Waits(p, transition'))
    <2>1. CASE p = r
      BY <1>1, <2>1 DEF Transits, Elsewhere, TypeOK
    <2>2. CASE p # r
      <3>1. request'[p] = request[p]
        BY <1>1, <2>2 DEF TypeOK
      <3>2. request[p].pc \notin Busy
        BY <2>2 DEF LockInv, InTransit, Transits, Busy
      <3>3. request[p].pc = "locking" => Waits(p, Tail(transition))
        BY <2>2, WaitsOn DEF LockInv
      <3> QED
        BY <3>1, <3>2, <3>3 DEF Transits, Busy
    <2> QED
      BY <2>1, <2>2
  <1> QED
    BY <1>2, <1>3 DEF LockInv, InTransit

LEMMA Queues ==
  ASSUME TypeOK, LockInv, NEW r \in Requests, Becomes(r, {"locking"}),
         transition # <<>>, transition' = Append(transition, r)
  PROVE  LockInv'
  <1>1. PICK q \in Request : q.pc = "locking" /\ request' = [request EXCEPT ![r] = q]
    BY DEF Becomes
  <1>2. transition' \in Seq(Requests) /\ transition' # <<>> /\ Head(transition') = Head(transition)
    BY AppendProperties DEF LockInv
  <1>3. ASSUME NEW p \in Requests
        PROVE  Transits(p)' /\ (request'[p].pc = "locking" => Waits(p, transition'))
    <2>1. CASE p = r
      BY <1>1, <2>1, WaitsLonger DEF LockInv, Transits, TypeOK
    <2>2. CASE p # r
      <3>1. request'[p] = request[p]
        BY <1>1, <2>2 DEF TypeOK
      <3>2. Transits(p)'
        BY <1>2, <3>1 DEF LockInv, InTransit, Transits
      <3>3. request[p].pc = "locking" => Waits(p, transition')
        BY WaitsLonger DEF LockInv
      <3> QED
        BY <3>1, <3>2, <3>3
    <2> QED
      BY <2>1, <2>2
  <1> QED
    BY <1>2, <1>3 DEF LockInv, InTransit

LEMMA GoesElsewhere ==
  ASSUME TypeOK, LockInv, NEW r \in Requests, Becomes(r, Elsewhere), transition' = transition
  PROVE  LockInv'
  <1>1. PICK q \in Request : q.pc \in Elsewhere /\ request' = [request EXCEPT ![r] = q]
    BY DEF Becomes
  <1>2. ASSUME NEW p \in Requests
        PROVE  Transits(p)' /\ (request'[p].pc = "locking" => Waits(p, transition'))
    <2>1. CASE p = r
      BY <1>1, <2>1 DEF Transits, Elsewhere, TypeOK
    <2>2. CASE p # r
      BY <1>1, <2>2 DEF LockInv, InTransit, Transits, TypeOK
    <2> QED
      BY <2>1, <2>2
  <1> QED
    BY <1>2 DEF LockInv, InTransit

-----------------------------------------------------------------------------
(* The invariant, in its two parts.                                        *)
LEMMA IInvParts ==
  /\ IInv <=> TypeOK /\ LockInv /\ SlotInv
  /\ IInv' <=> TypeOK' /\ LockInv' /\ SlotInv'
  <1>1. IInv <=> TypeOK /\ LockInv /\ SlotInv
    BY DEF IInv, LockInv, SlotInv, InLine, TypeOK
  <1>2. IInv' <=> TypeOK' /\ LockInv' /\ SlotInv'
    BY DEF IInv, LockInv, SlotInv, InLine, TypeOK
  <1> QED
    BY <1>1, <1>2

(* A step that changes one request's record keeps every type, given those  *)
(* of the variables the slots and the lock do not know.                    *)
LEMMA Typed ==
  ASSUME TypeOK, LockInv', SlotInv',
         model' \in {"unloaded", "loading", "loaded", "unloading"},
         variant' \in Variants \cup {None}, draining' \in BOOLEAN, exited' \in BOOLEAN,
         \/ request' = request
         \/ \E r \in Requests, q \in Request : request' = [request EXCEPT ![r] = q]
  PROVE  TypeOK'
  <1>1. request' \in [Requests -> Request]
    BY DEF TypeOK
  <1> QED
    BY <1>1 DEF TypeOK, LockInv, SlotInv

LEMMA BecomesOne ==
  ASSUME NEW r \in Requests, NEW pcs, Becomes(r, pcs) \/ Works(r)
  PROVE  \E p \in Requests, q \in Request : request' = [request EXCEPT ![p] = q]
  BY DEF Becomes, Works

(* A request whose place is not with a slot has neither slot nor thread.   *)
LEMMA Slotless ==
  ASSUME IInv, NEW r \in Requests,
         request[r].pc \in {"idle", "locking", "settling", "unloading", "loading", "slotting"}
  PROVE  r \notin Holders /\ thread[r] = "none"
  BY DEF IInv, ThreadsKnown, Holders

LEMMA TodoTyped ==
  \A self \in Request : Todo(self) \in Seq({"unload", "load"})
  <1>1. /\ <<>> \in Seq({"unload", "load"})
        /\ <<"load">> \in Seq({"unload", "load"})
        /\ <<"unload">> \in Seq({"unload", "load"})
        /\ <<"unload", "load">> \in Seq({"unload", "load"})
    OBVIOUS
  <1> QED
    BY <1>1 DEF Todo

LEMMA HeadAndTail ==
  ASSUME NEW S, NEW queue \in Seq(S), queue # <<>>
  PROVE  <<Head(queue)>> \o Tail(queue) = queue
  <1>1. Len(queue) \in Nat \ {0}
    BY EmptySeq
  <1> QED
    BY <1>1

(* Locked: with the lock, a request passes on or sets to work.             *)
LEMMA LockedKeeps ==
  ASSUME IInv, NEW r \in Requests, NEW self \in Request, NEW rest,
         request[r].pc \in {"idle", "locking"},
         \/ transition = <<>> /\ rest = <<>>
         \/ transition # <<>> /\ Head(transition) = r /\ rest = Tail(transition),
         Locked(r, self, rest)
  PROVE  IInv'
  <1> DEFINE todo == Todo(self)
  <1>1. TypeOK /\ LockInv /\ SlotInv
    BY IInvParts
  <1>2. r \notin Holders /\ thread[r] = "none"
    BY Slotless
  <1>3. variant' = variant /\ draining' = draining /\ exited' = exited
    BY DEF Locked
  <1>4. CASE todo = <<>> /\ transition' = rest /\ Onward(r, self) /\ UNCHANGED model
    <2>1. SlotInv' /\ Becomes(r, Elsewhere)
      BY <1>1, <1>2, <1>4, OnwardKeeps
    <2>2. LockInv'
      BY <1>1, <1>4, <2>1, HandsOn, GoesElsewhere
    <2>3. TypeOK'
      BY <1>1, <1>3, <1>4, <2>1, <2>2, Typed, BecomesOne DEF TypeOK
    <2> QED
      BY <2>1, <2>2, <2>3, IInvParts
  <1>5. CASE /\ todo # <<>> /\ transition' = <<r>> \o rest
             /\ Begin(r, [self EXCEPT !.todo = todo], model)
    <2>1. todo \in Seq({"unload", "load"})
      BY TodoTyped
    <2> DEFINE doing == [self EXCEPT !.todo = todo]
    <2>2. doing \in Request /\ doing.todo = todo
      BY <2>1 DEF Request
    <2>3. Begin(r, doing, model) /\ doing.todo # <<>>
      BY <1>5, <2>2
    <2> HIDE DEF doing
    <2>4. model \in {"unloaded", "loading", "loaded", "unloading"}
      BY <1>1 DEF TypeOK
    <2>5. SlotInv' /\ Works(r) /\ model' \in {"unloaded", "loading", "loaded", "unloading"}
      BY <1>1, <1>2, <2>2, <2>3, <2>4, BeginKeeps
    <2>6. \/ transition = <<>> /\ transition' = <<r>>
          \/ transition # <<>> /\ Head(transition) = r /\ transition' = transition
      <3>1. CASE transition = <<>> /\ rest = <<>>
        BY <1>5, <3>1
      <3>2. CASE transition # <<>> /\ Head(transition) = r /\ rest = Tail(transition)
        BY <1>1, <1>5, <3>2, HeadAndTail DEF LockInv
      <3> QED
        BY <3>1, <3>2
    <2>7. LockInv'
      BY <1>1, <2>5, <2>6, WorksOn, TakesLock
    <2>8. TypeOK'
      BY <1>1, <1>3, <2>5, <2>7, Typed, BecomesOne DEF TypeOK
    <2> QED
      BY <2>5, <2>7, <2>8, IInvParts
  <1> QED
    BY <1>4, <1>5 DEF Locked

-----------------------------------------------------------------------------
(* What each action does to the invariant.                                 *)

LEMMA EffectiveTyped ==
  ASSUME TypeOK
  PROVE  \A asked \in Variants \cup {None} : Effective(asked) \in Variants \cup {None}
  BY WorkerAssumption DEF Effective, TypeOK

LEMMA ArriveKeeps ==
  ASSUME IInv, NEW r \in Requests, Arrive(r)
  PROVE  IInv'
  <1>1. TypeOK /\ LockInv /\ SlotInv
    BY IInvParts
  <1>2. PICK kind \in Kinds, asked \in Variants \cup {None} :
          LET self == [pc |-> "locking", kind |-> kind, todo |-> <<>>, retry |-> FALSE,
                       wanted |-> IF kind = "unload" THEN None ELSE Effective(asked)]
          IN \/ transition = <<>> /\ Locked(r, self, <<>>)
             \/ /\ transition # <<>>
                /\ transition' = Append(transition, r)
                /\ request' = [request EXCEPT ![r] = self]
                /\ UNCHANGED <<model, variant, slots, slotQueue, synthesising, thread,
                               draining, exited>>
    BY DEF Arrive
  <1> DEFINE self == [pc |-> "locking", kind |-> kind, todo |-> <<>>, retry |-> FALSE,
                      wanted |-> IF kind = "unload" THEN None ELSE Effective(asked)]
  <1>3. self \in Request /\ self.pc = "locking"
    <2>1. <<>> \in Seq({"unload", "load"})
      BY EmptySeq
    <2> QED
      BY <1>1, <2>1, EffectiveTyped DEF Request
  <1>4. request[r].pc = "idle"
    BY DEF Arrive
  <1>5. \/ transition = <<>> /\ Locked(r, self, <<>>)
        \/ /\ transition # <<>>
           /\ transition' = Append(transition, r)
           /\ request' = [request EXCEPT ![r] = self]
           /\ UNCHANGED <<model, variant, slots, slotQueue, synthesising, thread,
                          draining, exited>>
    BY <1>2
  <1> HIDE DEF self
  <1>6. CASE transition = <<>> /\ Locked(r, self, <<>>)
    BY <1>3, <1>4, <1>6, LockedKeeps
  <1>7. CASE /\ transition # <<>>
             /\ transition' = Append(transition, r)
             /\ request' = [request EXCEPT ![r] = self]
             /\ UNCHANGED <<model, variant, slots, slotQueue, synthesising, thread,
                            draining, exited>>
    <2>1. Becomes(r, {"locking"})
      BY <1>3, <1>7 DEF Becomes
    <2>2. Becomes(r, {"idle", "locking", "settling", "unloading", "loading", "served", "failed", "left"})
      BY <2>1 DEF Becomes
    <2>3. LockInv'
      BY <1>1, <1>7, <2>1, Queues
    <2>4. SlotInv'
      BY <1>1, <1>4, <1>7, <2>2, Slotless, SlotsAlone
    <2>5. TypeOK'
      BY <1>1, <1>3, <1>7, <2>3, <2>4, Typed DEF TypeOK
    <2> QED
      BY <2>3, <2>4, <2>5, IInvParts
  <1> QED
    BY <1>5, <1>6, <1>7

(* A request that comes to its end without a slot.                         *)
LEMMA EndsKeeps ==
  ASSUME IInv, NEW r \in Requests, NEW pc \in {"idle", "served", "failed", "left"},
         r \notin Holders, thread[r] = "none",
         request' = [request EXCEPT ![r] = Ended(pc)],
         UNCHANGED <<slots, slotQueue, synthesising, thread>>
  PROVE  SlotInv' /\ Becomes(r, Elsewhere)
  <1>1. TypeOK /\ LockInv /\ SlotInv
    BY IInvParts
  <1>2. Becomes(r, {"idle", "served", "failed", "left"})
    BY RequestTyped DEF Becomes
  <1>3. /\ Becomes(r, Elsewhere)
        /\ Becomes(r, {"idle", "locking", "settling", "unloading", "loading", "served", "failed", "left"})
    BY <1>2 DEF Becomes, Elsewhere
  <1> QED
    BY <1>1, <1>3, SlotsAlone

LEMMA RefuseKeeps ==
  ASSUME IInv, NEW r \in Requests, Refuse(r)
  PROVE  IInv'
  <1>1. TypeOK /\ LockInv /\ SlotInv
    BY IInvParts
  <1>2. r \notin Holders /\ thread[r] = "none"
    BY Slotless DEF Refuse
  <1>3. SlotInv' /\ Becomes(r, Elsewhere)
    BY <1>2, EndsKeeps DEF Refuse
  <1>4. LockInv'
    BY <1>1, <1>3, GoesElsewhere DEF Refuse
  <1>5. TypeOK'
    BY <1>1, <1>3, <1>4, Typed, BecomesOne DEF TypeOK, Refuse
  <1> QED
    BY <1>3, <1>4, <1>5, IInvParts

LEMMA ResumeKeeps ==
  ASSUME IInv, NEW r \in Requests, Resume(r)
  PROVE  IInv'
  <1>1. TypeOK /\ LockInv /\ SlotInv
    BY IInvParts
  <1>2. request[r].pc = "locking" /\ request[r] \in Request
    BY <1>1 DEF Resume, TypeOK
  <1>3. transition # <<>>
    BY <1>1, <1>2, WaitsSomewhere DEF LockInv
  <1> DEFINE self == request[r]
             rest == Tail(transition)
  <1>4. Locked(r, self, rest) /\ Head(transition) = r /\ rest = Tail(transition) /\ self \in Request
    BY <1>2 DEF Resume
  <1> HIDE DEF self, rest
  <1>5. \/ transition = <<>> /\ rest = <<>>
        \/ transition # <<>> /\ Head(transition) = r /\ rest = Tail(transition)
    BY <1>3, <1>4
  <1>6. request[r].pc \in {"idle", "locking"}
    BY <1>2
  <1>7. Locked(r, self, rest) /\ self \in Request
    BY <1>4
  <1> QED
    BY <1>5, <1>6, <1>7, LockedKeeps

(* Whoever loads, unloads or waits to is the lock's holder.                *)
LEMMA AtWork ==
  ASSUME IInv, NEW r \in Requests, request[r].pc \in Busy
  PROVE  /\ TypeOK /\ LockInv /\ SlotInv
         /\ request[r] \in Request /\ request[r].todo # <<>>
         /\ r \notin Holders /\ thread[r] = "none"
         /\ transition # <<>> /\ Head(transition) = r
         /\ model \in {"unloaded", "loading", "loaded", "unloading"}
         /\ variant \in Variants \cup {None} /\ draining \in BOOLEAN /\ exited \in BOOLEAN
  <1>1. TypeOK /\ LockInv /\ SlotInv
    BY IInvParts
  <1>2. r \notin Holders /\ thread[r] = "none"
    BY Slotless DEF Busy
  <1> QED
    BY <1>1, <1>2 DEF TypeOK, LockInv, InTransit, Transits, Busy

LEMMA SettleKeeps ==
  ASSUME IInv, NEW r \in Requests, Settle(r)
  PROVE  IInv'
  <1>1. request[r].pc \in Busy
    BY DEF Settle, Busy
  <1>2. /\ SlotInv' /\ Works(r)
        /\ model' \in {"unloaded", "loading", "loaded", "unloading"}
    BY <1>1, AtWork, BeginKeeps DEF Settle
  <1>3. LockInv'
    BY <1>1, <1>2, AtWork, WorksOn DEF Settle
  <1>4. TypeOK'
    BY <1>1, <1>2, <1>3, AtWork, Typed, BecomesOne DEF Settle
  <1> QED
    BY <1>2, <1>3, <1>4, IInvParts

LEMMA UnloadedKeeps ==
  ASSUME IInv, NEW r \in Requests, Unloaded(r)
  PROVE  IInv'
  <1> DEFINE self == [request[r] EXCEPT !.todo = Tail(@)]
  <1>1. request[r].pc \in Busy
    BY DEF Unloaded, Busy
  <1>2. self \in Request
    <2>1. Tail(request[r].todo) \in Seq({"unload", "load"})
      <3>1. request[r].todo \in Seq({"unload", "load"}) /\ request[r].todo # <<>>
        BY <1>1, AtWork DEF Request
      <3> QED
        BY <3>1, HeadTailProperties
    <2> QED
      BY <1>1, <2>1, AtWork DEF Request
  <1>3. /\ \/ model' = "unloaded" /\ transition' = Tail(transition) /\ Onward(r, self)
           \/ self.todo # <<>> /\ Begin(r, self, "unloaded") /\ UNCHANGED transition
        /\ variant' = None /\ UNCHANGED <<draining, exited>>
    BY DEF Unloaded
  <1> HIDE DEF self
  <1>4. CASE model' = "unloaded" /\ transition' = Tail(transition) /\ Onward(r, self)
    <2>1. SlotInv' /\ Becomes(r, Elsewhere)
      BY <1>1, <1>2, <1>4, AtWork, OnwardKeeps
    <2>2. LockInv'
      BY <1>1, <1>4, <2>1, AtWork, HandsOn
    <2>3. TypeOK'
      BY <1>1, <1>3, <1>4, <2>1, <2>2, AtWork, Typed, BecomesOne
    <2> QED
      BY <2>1, <2>2, <2>3, IInvParts
  <1>5. CASE self.todo # <<>> /\ Begin(r, self, "unloaded") /\ UNCHANGED transition
    <2>1. /\ SlotInv' /\ Works(r)
          /\ model' \in {"unloaded", "loading", "loaded", "unloading"}
      BY <1>1, <1>2, <1>5, AtWork, BeginKeeps
    <2>2. LockInv'
      BY <1>1, <1>5, <2>1, AtWork, WorksOn
    <2>3. TypeOK'
      BY <1>1, <1>3, <2>1, <2>2, AtWork, Typed, BecomesOne
    <2> QED
      BY <2>1, <2>2, <2>3, IInvParts
  <1> QED
    BY <1>3, <1>4, <1>5

LEMMA LoadedKeeps ==
  ASSUME IInv, NEW r \in Requests, Loaded(r)
  PROVE  IInv'
  <1> DEFINE self == [request[r] EXCEPT !.todo = <<>>]
  <1>1. request[r].pc \in Busy
    BY DEF Loaded, Busy
  <1>2. self \in Request
    <2>1. <<>> \in Seq({"unload", "load"})
      BY EmptySeq
    <2> QED
      BY <1>1, <2>1, AtWork DEF Request
  <1>3. /\ model' = "loaded" /\ variant' = request[r].wanted
        /\ transition' = Tail(transition) /\ Onward(r, self) /\ UNCHANGED <<draining, exited>>
    BY DEF Loaded
  <1>4. request[r].wanted \in Variants \cup {None}
    BY <1>1, AtWork DEF Request
  <1> HIDE DEF self
  <1>5. SlotInv' /\ Becomes(r, Elsewhere)
    BY <1>1, <1>2, <1>3, AtWork, OnwardKeeps
  <1>6. LockInv'
    BY <1>1, <1>3, <1>5, AtWork, HandsOn
  <1>7. TypeOK'
    BY <1>1, <1>3, <1>4, <1>5, <1>6, AtWork, Typed, BecomesOne
  <1> QED
    BY <1>5, <1>6, <1>7, IInvParts

LEMMA LoadFailedKeeps ==
  ASSUME IInv, NEW r \in Requests, LoadFailed(r)
  PROVE  IInv'
  <1> DEFINE self == [request[r] EXCEPT !.todo = AfterFailure, !.retry = TRUE]
  <1>1. request[r].pc \in Busy
    BY DEF LoadFailed, Busy
  <1>2. self \in Request /\ self.todo # <<>>
    <2>1. AfterFailure \in Seq({"unload", "load"}) /\ AfterFailure # <<>>
      BY DEF AfterFailure
    <2> QED
      BY <1>1, <2>1, AtWork DEF Request
  <1>3. /\ variant' = None /\ UNCHANGED <<draining, exited>>
        /\ \/ Begin(r, self, "unloaded") /\ UNCHANGED transition
           \/ /\ model' = "unloaded" /\ transition' = Tail(transition)
              /\ request' = [request EXCEPT ![r] = Ended("failed")]
              /\ UNCHANGED <<slots, slotQueue, synthesising, thread>>
    BY DEF LoadFailed
  <1> HIDE DEF self
  <1>4. CASE Begin(r, self, "unloaded") /\ UNCHANGED transition
    <2>1. /\ SlotInv' /\ Works(r)
          /\ model' \in {"unloaded", "loading", "loaded", "unloading"}
      BY <1>1, <1>2, <1>4, AtWork, BeginKeeps
    <2>2. LockInv'
      BY <1>1, <1>4, <2>1, AtWork, WorksOn
    <2>3. TypeOK'
      BY <1>1, <1>3, <2>1, <2>2, AtWork, Typed, BecomesOne
    <2> QED
      BY <2>1, <2>2, <2>3, IInvParts
  <1>5. CASE /\ model' = "unloaded" /\ transition' = Tail(transition)
             /\ request' = [request EXCEPT ![r] = Ended("failed")]
             /\ UNCHANGED <<slots, slotQueue, synthesising, thread>>
    <2>1. SlotInv' /\ Becomes(r, Elsewhere)
      BY <1>1, <1>5, AtWork, EndsKeeps
    <2>2. LockInv'
      BY <1>1, <1>5, <2>1, AtWork, HandsOn
    <2>3. TypeOK'
      BY <1>1, <1>3, <1>5, <2>1, <2>2, AtWork, Typed, BecomesOne
    <2> QED
      BY <2>1, <2>2, <2>3, IInvParts
  <1> QED
    BY <1>3, <1>4, <1>5

(* A step of the slots' side: the lock is left alone.                      *)
LEMMA LockAside ==
  ASSUME TypeOK, LockInv, transition' = transition,
         \/ request' = request
         \/ \E r \in Requests : Becomes(r, Elsewhere)
  PROVE  LockInv'
  <1>1. CASE request' = request
    BY <1>1 DEF LockInv, InTransit, Transits
  <1>2. CASE \E r \in Requests : Becomes(r, Elsewhere)
    BY <1>2, GoesElsewhere
  <1> QED
    BY <1>1, <1>2

LEMMA SlottedKeeps ==
  ASSUME IInv, NEW r \in Requests, Slotted(r)
  PROVE  IInv'
  <1>1. TypeOK /\ LockInv /\ SlotInv
    BY IInvParts
  <1>2. r \notin Holders /\ thread[r] = "none"
    BY Slotless DEF Slotted
  <1>3. request[r] \in Request /\ request[r].pc = "slotting"
    BY <1>1 DEF Slotted, TypeOK
  <1> DEFINE self == request[r]
  <1>4. self \in Request /\ WithSlot(r, self)
    BY <1>3 DEF Slotted
  <1> HIDE DEF self
  <1>5. /\ slots' \in 0..Concurrency /\ SlotsAccounted' /\ CountExact' /\ ThreadsKnown'
        /\ synthesising' \in Nat /\ thread' \in [Requests -> {"none", "running", "ended"}]
        /\ Becomes(r, {"holding", "speaking"})
    <2>1. slots > 0 /\ slots' = slots - 1
      BY DEF Slotted
    <2> QED
      BY <1>1, <1>2, <1>4, <2>1, WithSlotKeeps DEF SlotInv
  <1>6. slotQueue # <<>> /\ Head(slotQueue) = r /\ slotQueue' = Tail(slotQueue)
    BY <1>1, <1>3, WaitsSomewhere DEF Slotted, SlotInv
  <1>7. slotQueue' \in Seq(Requests)
    BY <1>1, <1>6, HeadTailProperties DEF SlotInv
  <1>8. PICK q \in Request : /\ q.pc \in {"holding", "speaking"}
                             /\ request' = [request EXCEPT ![r] = q]
    BY <1>5 DEF Becomes
  <1>9. ASSUME NEW p \in Requests, request'[p].pc = "slotting"
        PROVE  Waits(p, slotQueue')
    <2>1. p # r /\ request'[p] = request[p]
      BY <1>1, <1>8, <1>9 DEF TypeOK
    <2>2. Waits(p, slotQueue)
      BY <1>1, <1>9, <2>1 DEF SlotInv
    <2> QED
      BY <1>1, <1>6, <2>1, <2>2, WaitsOn DEF SlotInv
  <1>10. SlotInv'
    BY <1>5, <1>7, <1>9 DEF SlotInv
  <1>11. Becomes(r, Elsewhere)
    BY <1>5 DEF Becomes, Elsewhere
  <1>12. LockInv'
    BY <1>1, <1>11, LockAside DEF Slotted
  <1>13. TypeOK'
    BY <1>1, <1>10, <1>11, <1>12, Typed, BecomesOne DEF TypeOK, Slotted
  <1> QED
    BY <1>10, <1>12, <1>13, IInvParts

LEMMA SpeakKeeps ==
  ASSUME IInv, NEW r \in Requests, Speak(r)
  PROVE  IInv'
  <1>1. TypeOK /\ LockInv /\ SlotInv
    BY IInvParts
  <1> DEFINE q == [request[r] EXCEPT !.pc = "speaking"]
  <1>2. q \in Request /\ q.pc = "speaking"
    BY <1>1, RequestTyped DEF TypeOK
  <1>3. request' = [request EXCEPT ![r] = q]
    BY DEF Speak, Synthesise
  <1> HIDE DEF q
  <1>4. thread[r] = "none" /\ r \in Holders
    BY <1>1 DEF Speak, SlotInv, ThreadsKnown, Holders, TypeOK
  <1>5. SlotsAccounted'
    <2>1. Holders' = Holders
      BY <1>1, <1>2, <1>3, <1>4, HoldersStay
    <2> QED
      BY <1>1, <2>1, SlotsOfHolders DEF Speak, SlotInv
  <1>6. CountExact'
    BY <1>1, <1>4, CountedMore DEF Speak, Synthesise, SlotInv
  <1>7. /\ synthesising' \in Nat /\ thread' \in [Requests -> {"none", "running", "ended"}]
        /\ slots' \in 0..Concurrency /\ slotQueue' \in Seq(Requests)
    BY <1>1 DEF Speak, Synthesise, SlotInv
  <1>8. ThreadsKnown'
    BY <1>1, <1>2, <1>3 DEF Speak, Synthesise, SlotInv, ThreadsKnown, TypeOK
  <1>9. \A p \in Requests : request'[p].pc = "slotting" => Waits(p, slotQueue')
    BY <1>1, <1>2, <1>3 DEF Speak, SlotInv, TypeOK
  <1>10. SlotInv'
    BY <1>5, <1>6, <1>7, <1>8, <1>9 DEF SlotInv
  <1>11. Becomes(r, Elsewhere)
    BY <1>2, <1>3 DEF Becomes, Elsewhere
  <1>12. LockInv'
    BY <1>1, <1>11, LockAside DEF Speak
  <1>13. TypeOK'
    BY <1>1, <1>10, <1>11, <1>12, Typed, BecomesOne DEF TypeOK, Speak
  <1> QED
    BY <1>10, <1>12, <1>13, IInvParts

LEMMA ThreadEndsKeeps ==
  ASSUME IInv, NEW r \in Requests, ThreadEnds(r)
  PROVE  IInv'
  <1>1. TypeOK /\ LockInv /\ SlotInv
    BY IInvParts
  <1>2. Counted' = Counted /\ Holders' = Holders
    BY <1>1 DEF ThreadEnds, Counted, Holders, TypeOK
  <1>3. CountExact' /\ SlotsAccounted'
    BY <1>1, <1>2, SlotsOfHolders DEF ThreadEnds, SlotInv, CountExact
  <1>4. ThreadsKnown'
    BY <1>1 DEF ThreadEnds, SlotInv, ThreadsKnown, TypeOK
  <1>5. SlotInv'
    BY <1>1, <1>3, <1>4 DEF ThreadEnds, SlotInv
  <1>6. LockInv'
    BY <1>1, LockAside DEF ThreadEnds
  <1>7. TypeOK'
    BY <1>1, <1>5, <1>6, Typed DEF ThreadEnds, TypeOK
  <1> QED
    BY <1>5, <1>6, <1>7, IInvParts

LEMMA SynthesisEndedKeeps ==
  ASSUME IInv, NEW r \in Requests, SynthesisEnded(r)
  PROVE  IInv'
  <1>1. TypeOK /\ LockInv /\ SlotInv
    BY IInvParts
  <1>2. CountExact' /\ synthesising' \in Nat
    BY <1>1, CountedLess DEF SynthesisEnded, SlotInv
  <1>3. Holders' = Holders
    BY DEF SynthesisEnded, Holders
  <1>4. SlotsAccounted'
    BY <1>1, <1>3, SlotsOfHolders DEF SynthesisEnded, SlotInv
  <1>5. ThreadsKnown'
    BY <1>1 DEF SynthesisEnded, SlotInv, ThreadsKnown, TypeOK
  <1>6. SlotInv'
    BY <1>1, <1>2, <1>4, <1>5 DEF SynthesisEnded, SlotInv
  <1>7. LockInv'
    BY <1>1, LockAside DEF SynthesisEnded
  <1>8. TypeOK'
    BY <1>1, <1>6, <1>7, Typed DEF SynthesisEnded, TypeOK
  <1> QED
    BY <1>6, <1>7, <1>8, IInvParts

LEMMA ReleaseKeeps ==
  ASSUME IInv, NEW r \in Requests, Release(r)
  PROVE  IInv'
  <1>1. TypeOK /\ LockInv /\ SlotInv
    BY IInvParts
  <1>2. PICK pc \in {"served", "left"} : request' = [request EXCEPT ![r] = Ended(pc)]
    BY DEF Release
  <1> DEFINE q == Ended(pc)
  <1>3. q \in Request /\ q.pc \in {"served", "left"}
    BY <1>2, RequestTyped
  <1>4. request' = [request EXCEPT ![r] = q]
    BY <1>2
  <1> HIDE DEF q
  <1>5. r \in Holders
    BY DEF Release, Holders
  <1>6. Cardinality(Holders') = Cardinality(Holders) - 1
    BY <1>1, <1>3, <1>4, <1>5, HolderGoes
  <1>7. SlotsAccounted' /\ slots' \in 0..Concurrency
    <2>1. Cardinality(Holders') \in Nat
      <3>1. Holders' = Holders \ {r}
        BY <1>1, <1>3, <1>4 DEF Holders, TypeOK
      <3>2. IsFiniteSet(Holders')
        BY <3>1, HoldersFinite, FS_RemoveElement
      <3> QED
        BY <3>2, FS_CardinalityType
    <2>2. slots' + Cardinality(Holders') = Concurrency /\ slots' \in Nat
      BY <1>1, <1>6, HoldersFinite, SlotsOfHolders DEF Release, SlotInv
    <2> QED
      BY <2>1, <2>2, SlotsOfHolders, WorkerAssumption
  <1>8. CountExact'
    BY <1>1 DEF Release, SlotInv, CountExact, Counted
  <1>9. ThreadsKnown'
    BY <1>1, <1>3, <1>4 DEF Release, SlotInv, ThreadsKnown, TypeOK
  <1>10. \A p \in Requests : request'[p].pc = "slotting" => Waits(p, slotQueue')
    BY <1>1, <1>3, <1>4 DEF Release, SlotInv, TypeOK
  <1>11. SlotInv'
    BY <1>1, <1>7, <1>8, <1>9, <1>10 DEF Release, SlotInv
  <1>12. Becomes(r, Elsewhere)
    BY <1>3, <1>4 DEF Becomes, Elsewhere
  <1>13. LockInv'
    BY <1>1, <1>12, LockAside DEF Release
  <1>14. TypeOK'
    BY <1>1, <1>11, <1>12, <1>13, Typed, BecomesOne DEF Release, TypeOK
  <1> QED
    BY <1>11, <1>13, <1>14, IInvParts

LEMMA ExitKeeps ==
  ASSUME IInv, Exit
  PROVE  IInv'
  <1>1. TypeOK /\ LockInv /\ SlotInv
    BY IInvParts
  <1>2. Counted' = {}
    BY DEF Exit, Counted
  <1>3. CountExact' /\ synthesising' \in Nat
    BY <1>2, FS_EmptySet, WorkerAssumption DEF Exit, CountExact
  <1>4. Holders' = Holders
    BY DEF Exit, Holders
  <1>5. SlotsAccounted'
    BY <1>1, <1>4, SlotsOfHolders DEF Exit, SlotInv
  <1>6. ThreadsKnown' /\ thread' \in [Requests -> {"none", "running", "ended"}]
    BY DEF Exit, ThreadsKnown
  <1>7. SlotInv'
    BY <1>1, <1>3, <1>5, <1>6 DEF Exit, SlotInv
  <1>8. LockInv'
    BY <1>1, LockAside DEF Exit
  <1>9. TypeOK'
    BY <1>1, <1>7, <1>8, Typed DEF Exit, TypeOK
  <1> QED
    BY <1>7, <1>8, <1>9, IInvParts

LEMMA AsideKeeps ==
  ASSUME IInv, Drain \/ UNCHANGED vars
  PROVE  IInv'
  <1>1. TypeOK'
    BY DEF IInv, TypeOK, Drain, vars
  <1>2. InTransit' /\ InLine' /\ ThreadsKnown'
    BY DEF IInv, InTransit, Transits, InLine, ThreadsKnown, Drain, vars
  <1>3. CountExact' /\ SlotsAccounted'
    BY DEF IInv, CountExact, Counted, SlotsAccounted, Drain, vars
  <1> QED
    BY <1>1, <1>2, <1>3 DEF IInv

-----------------------------------------------------------------------------
(* The invariant holds initially.                                          *)
LEMMA InitIInv ==
  ASSUME Init
  PROVE  IInv
  <1>1. \A r \in Requests : request[r] = Ended("idle") /\ request[r].pc = "idle"
    BY RequestTyped DEF Init
  <1>2. TypeOK
    <2>1. request \in [Requests -> Request]
      BY RequestTyped DEF Init
    <2>2. slots \in 0..Concurrency /\ synthesising \in Nat
      BY WorkerAssumption DEF Init
    <2>3. transition \in Seq(Requests) /\ slotQueue \in Seq(Requests)
      BY EmptySeq DEF Init
    <2> QED
      BY <2>1, <2>2, <2>3 DEF Init, TypeOK
  <1>3. InTransit /\ InLine /\ ThreadsKnown
    BY <1>1 DEF Init, InTransit, Transits, InLine, ThreadsKnown
  <1>4. Counted = {} /\ Holders = {}
    BY <1>1 DEF Init, Counted, Holders
  <1>5. Cardinality({}) = 0
    BY FS_EmptySet
  <1>6. CountExact
    BY <1>4, <1>5, WorkerAssumption DEF Init, CountExact
  <1>7. SlotsAccounted
    BY <1>4, <1>5, SlotsOfHolders, WorkerAssumption DEF Init
  <1> QED
    BY <1>2, <1>3, <1>6, <1>7 DEF IInv

(* Every step of the worker keeps it.                                      *)
LEMMA NextIInv ==
  ASSUME IInv, [Next]_vars
  PROVE  IInv'
  <1>1. CASE Drain \/ UNCHANGED vars
    BY <1>1, AsideKeeps
  <1>2. CASE Exit
    BY <1>2, ExitKeeps
  <1>3. ASSUME NEW r \in Requests,
               \/ Arrive(r) \/ Refuse(r) \/ Resume(r) \/ Settle(r)
               \/ Unloaded(r) \/ Loaded(r) \/ LoadFailed(r)
        PROVE  IInv'
    BY <1>3, ArriveKeeps, RefuseKeeps, ResumeKeeps, SettleKeeps, UnloadedKeeps,
       LoadedKeeps, LoadFailedKeeps
  <1>4. ASSUME NEW r \in Requests,
               \/ Slotted(r) \/ Speak(r) \/ ThreadEnds(r) \/ SynthesisEnded(r) \/ Release(r)
        PROVE  IInv'
    BY <1>4, SlottedKeeps, SpeakKeeps, ThreadEndsKeeps, SynthesisEndedKeeps, ReleaseKeeps
  <1> QED
    BY <1>1, <1>2, <1>3, <1>4 DEF Next

(* The threads that run are among those the worker counts.                 *)
LEMMA RunningCounted ==
  ASSUME TypeOK
  PROVE  /\ IsFiniteSet(Thread("running"))
         /\ Cardinality(Thread("running")) <= Cardinality(Counted)
  <1>1. Thread("running") \in SUBSET Counted
    BY DEF Thread, Counted
  <1> QED
    BY <1>1, FS_Subset, HoldersFinite

(* With a count of zero, no thread runs.                                   *)
LEMMA QuietIsSilent ==
  ASSUME IInv, Quiet
  PROVE  Thread("running") = {}
  <1>1. Cardinality(Counted) = 0
    BY HoldersFinite DEF IInv, CountExact, Quiet, TypeOK
  <1>2. Counted = {}
    BY <1>1, HoldersFinite, FS_EmptySet
  <1> QED
    BY <1>2 DEF Thread, Counted

(* A load or an unload begins in Begin alone, and only once it is quiet.   *)
LEMMA OnlyWhenQuiet ==
  ASSUME [Next]_vars, model' # model, model' \in {"loading", "unloading"}
  PROVE  Quiet
  <1>1. CASE UNCHANGED vars \/ Drain \/ Exit
    BY <1>1 DEF vars, Drain, Exit
  <1>2. ASSUME NEW r \in Requests, NEW self, NEW rest, Locked(r, self, rest)
        PROVE  Quiet
    BY <1>2 DEF Locked, Begin
  <1>3. ASSUME NEW r \in Requests, Arrive(r)
        PROVE  Quiet
    BY <1>2, <1>3 DEF Arrive
  <1>4. ASSUME NEW r \in Requests, Resume(r)
        PROVE  Quiet
    <2>1. Locked(r, request[r], Tail(transition))
      BY <1>4 DEF Resume
    <2> QED
      BY <1>2, <2>1
  <1>5. ASSUME NEW r \in Requests, Unloaded(r) \/ LoadFailed(r)
        PROVE  Quiet
    <2>1. CASE Unloaded(r)
      BY <2>1 DEF Unloaded, Begin
    <2>2. CASE LoadFailed(r)
      BY <2>2 DEF LoadFailed, Begin
    <2> QED
      BY <1>5, <2>1, <2>2
  <1>6. ASSUME NEW r \in Requests,
               \/ Refuse(r) \/ Slotted(r) \/ Speak(r) \/ ThreadEnds(r) \/ SynthesisEnded(r)
               \/ Release(r) \/ Loaded(r)
        PROVE  FALSE
    BY <1>6 DEF Refuse, Slotted, Speak, ThreadEnds, SynthesisEnded, Release, Loaded
  <1>7. ASSUME NEW r \in Requests, Settle(r)
        PROVE  Quiet
    BY <1>7 DEF Settle
  <1> QED
    BY <1>1, <1>3, <1>4, <1>5, <1>6, <1>7 DEF Next

-----------------------------------------------------------------------------
(* The worker's inductive invariant holds in every state of every run.     *)
THEOREM WorkerInvariance == Spec => []IInv
  <1>1. Init => IInv
    BY InitIInv
  <1>2. IInv /\ [Next]_vars => IInv'
    BY NextIInv
  <1> QED
    BY <1>1, <1>2, PTL DEF Spec

(* Every variable of the worker has its type: its count of free slots never *)
(* leaves 0..concurrency, and its count of syntheses is never negative.    *)
THEOREM WorkerTypeCorrect == Spec => []TypeOK
  BY WorkerInvariance, PTL DEF IInv

(* However an answer ends (heard out, hung up on, failed to encode), its   *)
(* slot is given back once: those free and those held are the concurrency. *)
THEOREM NoSlotLost == Spec => []SlotsAccounted
  BY WorkerInvariance, PTL DEF IInv

(* Whatever clients do, no more syntheses run on the device at once than   *)
(* the engine can bear, those that nobody waits for any more included.     *)
THEOREM DeviceNeverShared == Spec => []OneUtterance
  <1>1. IInv => OneUtterance
    <2> SUFFICES ASSUME IInv
                 PROVE  OneUtterance
      OBVIOUS
    <2>1. Cardinality(Thread("running")) \in Nat
      BY RunningCounted, FS_CardinalityType DEF IInv
    <2> QED
      BY <2>1, RunningCounted, HoldersFinite, WorkerAssumption DEF IInv, CountExact, OneUtterance, TypeOK
  <1> QED
    BY <1>1, WorkerInvariance, PTL

(* The engine never begins to load or to unload while one of its threads   *)
(* is still in a synthesis, abandoned by its client or not.                *)
THEOREM NothingMovesUnderASynthesis == Spec => WaitsForAbandoned
  <1>1. IInv /\ [Next]_vars =>
          [model' # model /\ model' \in {"loading", "unloading"} => Thread("running") = {}]_vars
    <2> SUFFICES ASSUME IInv, [Next]_vars, model' # model, model' \in {"loading", "unloading"}
                 PROVE  Thread("running") = {}
      OBVIOUS
    <2> QED
      BY OnlyWhenQuiet, QuietIsSilent
  <1> QED
    BY <1>1, WorkerInvariance, PTL DEF Spec, WaitsForAbandoned

=============================================================================
