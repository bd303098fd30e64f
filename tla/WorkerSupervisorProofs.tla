------------------------- MODULE WorkerSupervisorProofs -------------------------
(***************************************************************************)
(* The supervisor's safety, for any callers, calls, handles and processes, *)
(* any number of restarts allowed, and workers that die and fail to spawn  *)
(* when they like.                                                         *)
(***************************************************************************)
EXTENDS WorkerSupervisor, TLAPS

-----------------------------------------------------------------------------
(* The inductive invariant.                                                *)

(* Born, and the core has not been told of its exit.                       *)
Afoot(p) == process[p].at \notin {"unborn", "reaped"}

(* A process that is afoot is its handle's child, whose handle is the      *)
(* registry's or is being stopped; one that is waited for is waited for in *)
(* a start; one that was asked to leave is not wanted.                     *)
ProcessInv(p) ==
  /\ process[p].at = "unborn" => ~process[p].awaited /\ ~process[p].asked
  /\ process[p].at # "unborn" => process[p].owner \in Handles
  /\ process[p].awaited => Afoot(p) /\ state[process[p].owner].start = "shaking"
  /\ Afoot(p) =>
       /\ state[process[p].owner].child = p
       /\ process[p].asked => ~state[process[p].owner].wanted
       /\ \/ process[p].owner = handle
          \/ \E c \in Calls : Stopping(c) /\ call[c].process = p

(* A handle has a client only while its child is afoot, and a child afoot  *)
(* only while it has a client or waits for one.                            *)
HandleInv(h) ==
  /\ state[h].entry = 0 =>
       /\ state[h].child = None /\ state[h].client = None
       /\ state[h].start = "no" /\ ~state[h].wanted
  /\ h # handle => ~state[h].wanted
  /\ state[h].child # None =>
       process[state[h].child].owner = h /\ process[state[h].child].at # "unborn"
  /\ state[h].client # None =>
       state[h].client = state[h].child /\ Afoot(state[h].child) /\ state[h].start = "no"
  /\ state[h].start = "shaking" =>
       state[h].child # None /\ process[state[h].child].awaited
  /\ state[h].start # "shaking" /\ state[h].client = None /\ state[h].child # None =>
       process[state[h].child].at = "reaped"

(* A stop under way is that of a process afoot that is not wanted.         *)
CallInv(c) ==
  Stopping(c) =>
    /\ call[c].process \in Processes /\ Afoot(call[c].process)
    /\ ~state[process[call[c].process].owner].wanted

IInv ==
  /\ TypeOK
  /\ version # 0 /\ (handle # None => state[handle].entry # 0)
  /\ \A p \in Processes : ProcessInv(p)
  /\ \A h \in Handles : HandleInv(h)
  /\ \A c \in Calls : CallInv(c)

-----------------------------------------------------------------------------
(* The records, and what their updates make of them.                       *)

(* What of a handle the invariant is about, and what of a process.         *)
Held(s, entry, wanted, child, client, start) ==
  /\ s \in HandleState
  /\ s.entry = entry /\ s.wanted = wanted /\ s.child = child /\ s.client = client
  /\ s.start = start

Runs(s, at, owner, awaited, asked) ==
  /\ s \in Process
  /\ s.at = at /\ s.owner = owner /\ s.awaited = awaited /\ s.asked = asked

LEMMA HandleUpdates ==
  ASSUME NEW q \in HandleState
  PROVE  /\ Held([q EXCEPT !.wanted = TRUE, !.start = "allocating"],
                 q.entry, TRUE, q.child, q.client, "allocating")
         /\ Held([q EXCEPT !.wanted = FALSE], q.entry, FALSE, q.child, q.client, q.start)
         /\ Held([q EXCEPT !.wanted = FALSE, !.client = None],
                 q.entry, FALSE, q.child, None, q.start)
         /\ Held([q EXCEPT !.start = "no"], q.entry, q.wanted, q.child, q.client, "no")
         /\ Held([[q EXCEPT !.start = "no"] EXCEPT !.child = None],
                 q.entry, q.wanted, None, q.client, "no")
         /\ \A p \in Processes :
              /\ Held([[q EXCEPT !.child = p] EXCEPT !.start = "shaking"],
                      q.entry, q.wanted, p, q.client, "shaking")
              /\ Held([[[q EXCEPT !.client = p] EXCEPT !.start = "no"] EXCEPT !.since = "lately"],
                      q.entry, q.wanted, q.child, p, "no")
         /\ \A since \in {"never", "lately", "long"} :
              Held([q EXCEPT !.since = since], q.entry, q.wanted, q.child, q.client, q.start)
  BY DEF Held, HandleState

LEMMA ExitUpdate ==
  ASSUME NEW q \in HandleState, NEW child \in Processes \cup {None},
         NEW start \in {"no", "allocating", "shaking"}, NEW restarts \in Nat
  PROVE  Held([q EXCEPT !.client = None, !.child = child, !.start = start, !.restarts = restarts],
              q.entry, q.wanted, child, None, start)
  BY DEF Held, HandleState

LEMMA ProcessUpdates ==
  ASSUME NEW q \in Process
  PROVE  /\ Runs([[q EXCEPT !.at = "up"] EXCEPT !.said = TRUE], "up", q.owner, q.awaited, q.asked)
         /\ Runs([q EXCEPT !.awaited = FALSE], q.at, q.owner, FALSE, q.asked)
         /\ Runs([q EXCEPT !.at = "dead"], "dead", q.owner, q.awaited, q.asked)
         /\ Runs([[q EXCEPT !.at = "reaped"] EXCEPT !.awaited = FALSE],
                 "reaped", q.owner, FALSE, q.asked)
         /\ Runs([[q EXCEPT !.at = "dead"] EXCEPT !.asked = TRUE], "dead", q.owner, q.awaited, TRUE)
         /\ Runs([q EXCEPT !.at = "leaving", !.asked = TRUE], "leaving", q.owner, q.awaited, TRUE)
         /\ Runs([q EXCEPT !.at = q.at, !.asked = TRUE], q.at, q.owner, q.awaited, TRUE)
         /\ \A stable \in BOOLEAN :
              Runs([q EXCEPT !.stable = stable], q.at, q.owner, q.awaited, q.asked)
  BY DEF Runs, Process

LEMMA SpawnUpdate ==
  \A h \in Handles :
    Runs([Unborn EXCEPT !.at = "booting", !.owner = h, !.awaited = TRUE], "booting", h, TRUE, FALSE)
  BY DEF Runs, Process, Unborn

LEMMA ToldToLeaveUpdate ==
  ASSUME process \in [Processes -> Process], NEW p \in Processes
  PROVE  \E at \in {process[p].at, "leaving"} :
           /\ at = "leaving" => process[p].at \in {"booting", "up", "leaving"}
           /\ Runs(ToldToLeave(p), at, process[p].owner, process[p].awaited, TRUE)
  <1>1. process[p] \in Process
    OBVIOUS
  <1>2. CASE process[p].at \in {"booting", "up"}
    BY <1>1, <1>2, ProcessUpdates DEF ToldToLeave
  <1>3. CASE process[p].at \notin {"booting", "up"}
    BY <1>1, <1>3, ProcessUpdates DEF ToldToLeave
  <1> QED
    BY <1>2, <1>3

-----------------------------------------------------------------------------
(* Types, and what each action does to the handle and process it touches.  *)

LEMMA FreshTyped == \A entry \in Nat : Held(Fresh(entry), entry, FALSE, None, None, "no")
  BY DEF Held, HandleState, Fresh

LEMMA HandledTyped ==
  ASSUME TypeOK, NEW h \in Handles
  PROVE  /\ Handled(h) \in HandleState
         /\ state[h].entry # 0 => Handled(h) = state[h]
         /\ state[h].entry = 0 => Held(Handled(h), version, FALSE, None, None, "no")
  BY FreshTyped DEF TypeOK, Handled, Held

LEMMA SettledTyped ==
  ASSUME TypeOK, NEW h \in Handles, NEW how \in {"served", "failed"}
  PROVE  Settled(h, how) \in [Callers -> Caller]
  <1>1. [pc |-> how, handle |-> None] \in Caller
    BY DEF Caller
  <1> QED
    BY <1>1 DEF TypeOK, Settled

LEMMA AnswerTyped ==
  ASSUME TypeOK, NEW c \in Callers, NEW pc \in {"waiting", "served", "failed"},
         NEW h \in Handles \cup {None}, Answer(c, pc, h)
  PROVE  caller' \in [Callers -> Caller]
  <1>1. [pc |-> pc, handle |-> h] \in Caller
    BY DEF Caller
  <1> QED
    BY <1>1 DEF TypeOK, Answer

(* Who asks for a client leaves the handle as it is, or starts it.         *)
LEMMA EnsureUpEffect ==
  ASSUME TypeOK, NEW c \in Callers, NEW h \in Handles, NEW held \in HandleState,
         EnsureUp(c, h, held)
  PROVE  /\ caller' \in [Callers -> Caller] /\ reported' \in {"down", "starting", "up", "failed"}
         /\ \E q \in HandleState :
              /\ state' = [state EXCEPT ![h] = q]
              /\ \/ q = held
                 \/ /\ ~IsUp(held) /\ MayStart(held)
                    /\ Held(q, held.entry, TRUE, held.child, held.client, "allocating")
  <1>1. CASE IsUp(held) /\ Answer(c, "served", None)
             /\ state' = [state EXCEPT ![h] = held] /\ UNCHANGED reported
    BY <1>1, AnswerTyped DEF TypeOK
  <1>2. CASE /\ ~IsUp(held) /\ MayStart(held) /\ Answer(c, "waiting", h)
             /\ state' = [state EXCEPT ![h] = [held EXCEPT !.wanted = TRUE, !.start = "allocating"]]
             /\ reported' = "starting"
    <2> DEFINE q == [held EXCEPT !.wanted = TRUE, !.start = "allocating"]
    <2>1. Held(q, held.entry, TRUE, held.child, held.client, "allocating")
      BY HandleUpdates
    <2>2. state' = [state EXCEPT ![h] = q]
      BY <1>2
    <2> HIDE DEF q
    <2> QED
      BY <1>2, <2>1, <2>2, AnswerTyped DEF Held
  <1>3. CASE /\ IF held.start = "no" THEN Answer(c, "failed", None) ELSE Answer(c, "waiting", h)
             /\ state' = [state EXCEPT ![h] = held] /\ UNCHANGED reported
    BY <1>3, AnswerTyped DEF TypeOK
  <1> QED
    BY <1>1, <1>2, <1>3 DEF EnsureUp

LEMMA ClientTyped ==
  ASSUME TypeOK, NEW c \in Callers, Client(c)
  PROVE  TypeOK'
  <1>1. PICK h \in Handles : HandleOf(h) /\ EnsureUp(c, h, Handled(h)) /\ handle' = h
    BY DEF Client
  <1>2. /\ caller' \in [Callers -> Caller] /\ reported' \in {"down", "starting", "up", "failed"}
        /\ \E q \in HandleState : state' = [state EXCEPT ![h] = q]
    BY <1>1, HandledTyped, EnsureUpEffect
  <1>3. state' \in [Handles -> HandleState]
    BY <1>2 DEF TypeOK
  <1> QED
    BY <1>1, <1>2, <1>3 DEF TypeOK, Client

(* A start that gets its socket is abandoned, fails, or spawns a process.  *)
LEMMA SpawnEffect ==
  ASSUME TypeOK, NEW h \in Handles, Spawn(h)
  PROVE  /\ TypeOK'
         /\ \/ /\ \E q : /\ state' = [state EXCEPT ![h] = q]
                         /\ \/ Held(q, state[h].entry, state[h].wanted, state[h].child,
                                    state[h].client, "no")
                            \/ Held(q, state[h].entry, state[h].wanted, None, state[h].client, "no")
               /\ process' = process
            \/ /\ state[h].wanted
               /\ \E p \in Processes : \E q, s :
                    /\ process[p].at = "unborn"
                    /\ process' = [process EXCEPT ![p] = s] /\ Runs(s, "booting", h, TRUE, FALSE)
                    /\ state' = [state EXCEPT ![h] = q]
                    /\ Held(q, state[h].entry, state[h].wanted, p, state[h].client, "shaking")
  <1>0. state[h] \in HandleState
    BY DEF TypeOK
  <1>1. CASE /\ state' = [state EXCEPT ![h].start = "no"]
             /\ caller' = Settled(h, "failed") /\ UNCHANGED process
    <2> DEFINE q == [state[h] EXCEPT !.start = "no"]
    <2>1. Held(q, state[h].entry, state[h].wanted, state[h].child, state[h].client, "no")
      BY <1>0, HandleUpdates
    <2>2. state' = [state EXCEPT ![h] = q]
      BY <1>1
    <2> HIDE DEF q
    <2>3. state' \in [Handles -> HandleState]
      BY <2>1, <2>2 DEF Held, TypeOK
    <2>4. TypeOK'
      BY <1>1, <2>3, SettledTyped DEF Spawn, TypeOK
    <2> QED
      BY <1>1, <2>1, <2>2, <2>4
  <1>2. CASE /\ state' = [state EXCEPT ![h].start = "no", ![h].child = None]
             /\ caller' = Settled(h, "failed") /\ UNCHANGED process
    <2> DEFINE q == [[state[h] EXCEPT !.start = "no"] EXCEPT !.child = None]
    <2>1. Held(q, state[h].entry, state[h].wanted, None, state[h].client, "no")
      BY <1>0, HandleUpdates
    <2>2. state' = [state EXCEPT ![h] = q]
      BY <1>2 DEF TypeOK
    <2> HIDE DEF q
    <2>3. state' \in [Handles -> HandleState]
      BY <2>1, <2>2 DEF Held, TypeOK
    <2>4. TypeOK'
      BY <1>2, <2>3, SettledTyped DEF Spawn, TypeOK
    <2> QED
      BY <1>2, <2>1, <2>2, <2>4
  <1>3. CASE /\ state[h].wanted
             /\ \E p \in Processes :
                  /\ process[p].at = "unborn"
                  /\ process' = [process EXCEPT ![p] = [Unborn EXCEPT !.at = "booting", !.owner = h,
                                                                      !.awaited = TRUE]]
                  /\ state' = [state EXCEPT ![h].child = p, ![h].start = "shaking"]
             /\ UNCHANGED caller
    <2>1. PICK p \in Processes :
            /\ process[p].at = "unborn"
            /\ process' = [process EXCEPT ![p] = [Unborn EXCEPT !.at = "booting", !.owner = h,
                                                                !.awaited = TRUE]]
            /\ state' = [state EXCEPT ![h].child = p, ![h].start = "shaking"]
      BY <1>3
    <2> DEFINE s == [Unborn EXCEPT !.at = "booting", !.owner = h, !.awaited = TRUE]
               q == [[state[h] EXCEPT !.child = p] EXCEPT !.start = "shaking"]
    <2>2. Held(q, state[h].entry, state[h].wanted, p, state[h].client, "shaking")
      BY <1>0, HandleUpdates
    <2>3. Runs(s, "booting", h, TRUE, FALSE)
      BY SpawnUpdate
    <2>4. process' = [process EXCEPT ![p] = s]
      BY <2>1
    <2>5. state' = [state EXCEPT ![h] = q]
      BY <2>1 DEF TypeOK
    <2> HIDE DEF q, s
    <2>6. state' \in [Handles -> HandleState] /\ process' \in [Processes -> Process]
      BY <2>2, <2>3, <2>4, <2>5 DEF Held, Runs, TypeOK
    <2>7. TypeOK'
      BY <1>3, <2>6 DEF Spawn, TypeOK
    <2> QED
      BY <1>3, <2>1, <2>2, <2>3, <2>4, <2>5, <2>7
  <1> QED
    BY <1>1, <1>2, <1>3 DEF Spawn

LEMMA HandShakeEffect ==
  ASSUME TypeOK, NEW h \in Handles, HandShake(h)
  PROVE  /\ TypeOK'
         /\ \E p \in Processes : \E q, s :
              /\ Awaited(h, p)
              /\ process' = [process EXCEPT ![p] = s]
              /\ Runs(s, process[p].at, process[p].owner, FALSE, process[p].asked)
              /\ state' = [state EXCEPT ![h] = q]
              /\ Held(q, state[h].entry, state[h].wanted, state[h].child, p, "no")
  <1>0. state[h] \in HandleState
    BY DEF TypeOK
  <1>1. PICK p \in Processes :
          /\ Awaited(h, p)
          /\ process' = [process EXCEPT ![p].awaited = FALSE]
          /\ state' = [state EXCEPT ![h].client = p, ![h].start = "no", ![h].since = "lately"]
    BY DEF HandShake
  <1> DEFINE s == [process[p] EXCEPT !.awaited = FALSE]
             q == [[[state[h] EXCEPT !.client = p] EXCEPT !.start = "no"] EXCEPT !.since = "lately"]
  <1>2. Held(q, state[h].entry, state[h].wanted, state[h].child, p, "no")
    BY <1>0, HandleUpdates
  <1>3. process[p] \in Process
    BY DEF TypeOK
  <1>4. Runs(s, process[p].at, process[p].owner, FALSE, process[p].asked)
    BY <1>3, ProcessUpdates
  <1>5. process' = [process EXCEPT ![p] = s]
    BY <1>1
  <1>6. state' = [state EXCEPT ![h] = q]
    BY <1>1 DEF TypeOK
  <1> HIDE DEF q, s
  <1>7. state' \in [Handles -> HandleState] /\ process' \in [Processes -> Process]
    BY <1>2, <1>4, <1>5, <1>6 DEF Held, Runs, TypeOK
  <1>8. TypeOK'
    BY <1>7, SettledTyped DEF HandShake, TypeOK
  <1> QED
    BY <1>1, <1>2, <1>4, <1>5, <1>6, <1>8

LEMMA GiveUpTyped ==
  ASSUME TypeOK, NEW h \in Handles, GiveUp(h)
  PROVE  TypeOK'
  <1>1. PICK p \in Processes : process' = [process EXCEPT ![p].awaited = FALSE]
    BY DEF GiveUp
  <1> DEFINE s == [process[p] EXCEPT !.awaited = FALSE]
             q == [state[h] EXCEPT !.start = "no"]
  <1>2. s \in Process /\ q \in HandleState
    <2>1. process[p] \in Process /\ state[h] \in HandleState
      BY DEF TypeOK
    <2>2. Runs(s, process[p].at, process[p].owner, FALSE, process[p].asked)
      BY <2>1, ProcessUpdates
    <2>3. Held(q, state[h].entry, state[h].wanted, state[h].child, state[h].client, "no")
      BY <2>1, HandleUpdates
    <2> QED
      BY <2>2, <2>3 DEF Held, Runs
  <1>3. process' = [process EXCEPT ![p] = s] /\ state' = [state EXCEPT ![h] = q]
    BY <1>1 DEF GiveUp
  <1> HIDE DEF q, s
  <1>4. state' \in [Handles -> HandleState] /\ process' \in [Processes -> Process]
    BY <1>2, <1>3 DEF TypeOK
  <1> QED
    BY <1>4, SettledTyped DEF GiveUp, TypeOK

(* A process announces itself, dies, or is told to leave: its owner and    *)
(* what it is to a start stay as they are.                                 *)
Steps(p, at, asked) ==
  \E s : /\ process' = [process EXCEPT ![p] = s]
         /\ Runs(s, at, process[p].owner, process[p].awaited, asked)

LEMMA StepsTyped ==
  ASSUME TypeOK, NEW p \in Processes, NEW at, NEW asked, Steps(p, at, asked)
  PROVE  process' \in [Processes -> Process]
  BY DEF TypeOK, Steps, Runs

LEMMA AnnounceEffect ==
  ASSUME TypeOK, NEW p \in Processes, Announce(p)
  PROVE  TypeOK' /\ Steps(p, "up", process[p].asked)
  <1> DEFINE s == [[process[p] EXCEPT !.at = "up"] EXCEPT !.said = TRUE]
  <1>1. process[p] \in Process
    BY DEF TypeOK
  <1>2. Runs(s, "up", process[p].owner, process[p].awaited, process[p].asked)
    BY <1>1, ProcessUpdates
  <1>3. process' = [process EXCEPT ![p] = s]
    BY DEF Announce, TypeOK
  <1> HIDE DEF s
  <1>4. Steps(p, "up", process[p].asked)
    BY <1>2, <1>3 DEF Steps
  <1>5. process' \in [Processes -> Process]
    BY <1>4, StepsTyped
  <1> QED
    BY <1>4, <1>5 DEF Announce, TypeOK

LEMMA DiesEffect ==
  ASSUME TypeOK, NEW p \in Processes, Dies(p)
  PROVE  TypeOK' /\ Steps(p, "dead", process[p].asked)
  <1> DEFINE s == [process[p] EXCEPT !.at = "dead"]
  <1>1. process[p] \in Process
    BY DEF TypeOK
  <1>2. Runs(s, "dead", process[p].owner, process[p].awaited, process[p].asked)
    BY <1>1, ProcessUpdates
  <1>3. process' = [process EXCEPT ![p] = s]
    BY DEF Dies
  <1> HIDE DEF s
  <1>4. Steps(p, "dead", process[p].asked)
    BY <1>2, <1>3 DEF Steps
  <1>5. process' \in [Processes -> Process]
    BY <1>4, StepsTyped
  <1> QED
    BY <1>4, <1>5 DEF Dies, TypeOK

LEMMA KillEffect ==
  ASSUME TypeOK, NEW c \in Calls, Kill(c)
  PROVE  TypeOK' /\ call[c].process \in Alive /\ Steps(call[c].process, "dead", TRUE)
  <1> DEFINE p == call[c].process
             s == [[process[p] EXCEPT !.at = "dead"] EXCEPT !.asked = TRUE]
  <1>1. process[p] \in Process /\ p \in Processes
    BY DEF TypeOK, Kill, Alive
  <1>2. Runs(s, "dead", process[p].owner, process[p].awaited, TRUE)
    BY <1>1, ProcessUpdates
  <1>3. process' = [process EXCEPT ![p] = s]
    BY <1>1 DEF Kill, TypeOK
  <1>4. call[c].process = p
    OBVIOUS
  <1> HIDE DEF s, p
  <1>5. Steps(p, "dead", TRUE)
    BY <1>2, <1>3 DEF Steps
  <1>6. process' \in [Processes -> Process]
    BY <1>1, <1>5, StepsTyped
  <1> QED
    BY <1>4, <1>5, <1>6 DEF Kill, TypeOK

(* SIGTERM reaches a process of the core's, or one that is gone.           *)
LEMMA ToldEffect ==
  ASSUME TypeOK, NEW p \in Processes, process' = [process EXCEPT ![p] = ToldToLeave(p)]
  PROVE  \E at \in {process[p].at, "leaving"} :
           /\ at = "leaving" => process[p].at \in {"booting", "up", "leaving"}
           /\ Steps(p, at, TRUE)
  <1>1. PICK at \in {process[p].at, "leaving"} :
          /\ at = "leaving" => process[p].at \in {"booting", "up", "leaving"}
          /\ Runs(ToldToLeave(p), at, process[p].owner, process[p].awaited, TRUE)
    BY ToldToLeaveUpdate DEF TypeOK
  <1> QED
    BY <1>1 DEF Steps

LEMMA AskedTyped ==
  ASSUME TypeOK, NEW c \in Calls, AskedToTerminate(c)
  PROVE  TypeOK'
  <1>1. process' \in [Processes -> Process]
    <2>1. CASE call[c].process \in Processes
      <3>1. process' = [process EXCEPT ![call[c].process] = ToldToLeave(call[c].process)]
        BY DEF AskedToTerminate
      <3> QED
        BY <2>1, <3>1, ToldEffect, StepsTyped
    <2>2. CASE call[c].process \notin Processes
      BY <2>2 DEF AskedToTerminate, TypeOK
    <2> QED
      BY <2>1, <2>2
  <1>2. call' \in [Calls -> Call]
    BY DEF AskedToTerminate, TypeOK, Call
  <1> QED
    BY <1>1, <1>2 DEF AskedToTerminate, TypeOK

LEMMA LongTimeEffect ==
  ASSUME TypeOK, LongTime
  PROVE  /\ TypeOK'
         /\ \A h \in Handles : Held(state'[h], state[h].entry, state[h].wanted, state[h].child,
                                    state[h].client, state[h].start)
         /\ \A p \in Processes : Runs(process'[p], process[p].at, process[p].owner,
                                      process[p].awaited, process[p].asked)
  <1>1. ASSUME NEW h \in Handles
        PROVE  Held(state'[h], state[h].entry, state[h].wanted, state[h].child,
                    state[h].client, state[h].start)
    <2>1. state[h] \in HandleState
      BY DEF TypeOK
    <2>2. PICK since \in {"never", "lately", "long"} : state'[h] = [state[h] EXCEPT !.since = since]
      BY <2>1 DEF LongTime, HandleState
    <2> QED
      BY <2>1, <2>2, HandleUpdates
  <1>2. ASSUME NEW p \in Processes
        PROVE  Runs(process'[p], process[p].at, process[p].owner, process[p].awaited,
                    process[p].asked)
    <2>1. process[p] \in Process
      BY DEF TypeOK
    <2>2. PICK stable \in BOOLEAN : process'[p] = [process[p] EXCEPT !.stable = stable]
      <3> DEFINE stable == process[p].stable \/ \E h \in Handles : state[h].client = p
      <3>1. process'[p] = [process[p] EXCEPT !.stable = stable]
        BY DEF LongTime
      <3>2. stable \in BOOLEAN
        OBVIOUS
      <3> HIDE DEF stable
      <3> QED
        BY <3>1, <3>2
    <2> QED
      BY <2>1, <2>2, ProcessUpdates
  <1>3. state' \in [Handles -> HandleState] /\ process' \in [Processes -> Process]
    <2>1. \A h \in Handles : state'[h] \in HandleState
      BY <1>1 DEF Held
    <2>2. \A p \in Processes : process'[p] \in Process
      BY <1>2 DEF Runs
    <2>3. state' = [h \in Handles |-> state'[h]] /\ process' = [p \in Processes |-> process'[p]]
      BY DEF LongTime
    <2> QED
      BY <2>1, <2>2, <2>3
  <1>4. TypeOK'
    BY <1>3 DEF LongTime, TypeOK
  <1> QED
    BY <1>1, <1>2, <1>4

LEMMA RedeclareTyped ==
  ASSUME TypeOK, NEW kinds, NEW observed \in {"down", "starting", "up", "failed"},
         Redeclare(kinds, observed)
  PROVE  /\ declared' \in BOOLEAN /\ version' \in Nat
         /\ reported' \in {"down", "starting", "up", "failed"}
         /\ version # 0 => version' # 0
  <1>1. declared' \in BOOLEAN
    BY DEF TypeOK, Redeclare
  <1>2. version' \in Nat /\ (version # 0 => version' # 0)
    BY DEF TypeOK, Redeclare
  <1>3. reported' \in {"down", "starting", "up", "failed"}
    BY DEF TypeOK, Redeclare
  <1> QED
    BY <1>1, <1>2, <1>3

LEMMA CallOverTyped ==
  \A kind \in CallKinds \cup {"none"} : CallOver(kind) \in Call /\ CallOver(kind).pc = "done"
  BY DEF CallOver, Call

(* The core is told of an exit.                                            *)
LEMMA ExitEffect ==
  ASSUME TypeOK, NEW p \in Processes, process[p].owner \in Handles, Exit(p)
  PROVE  /\ \E s : /\ process' = [process EXCEPT ![p] = s]
                   /\ Runs(s, "reaped", process[p].owner, FALSE, process[p].asked)
         /\ \E q : /\ state' = [state EXCEPT ![process[p].owner] = q]
                   /\ \E child \in {state[process[p].owner].child, None} :
                        Held(q, state[process[p].owner].entry, state[process[p].owner].wanted,
                             child, None,
                             IF process[p].awaited THEN "no" ELSE state[process[p].owner].start)
  <1> DEFINE h == process[p].owner
             stops == {c \in Calls : Stopping(c) /\ call[c].process = p}
             child == IF stops = {} THEN state[h].child ELSE None
             start == IF process[p].awaited THEN "no" ELSE state[h].start
             restarts == IF state[h].wanted THEN Counted(state[h]) ELSE state[h].restarts
             s == [[process[p] EXCEPT !.at = "reaped"] EXCEPT !.awaited = FALSE]
             q == [state[h] EXCEPT !.client = None, !.child = child, !.start = start,
                                   !.restarts = restarts]
  <1>1. process[p] \in Process /\ state[h] \in HandleState
    BY DEF TypeOK
  <1>2. /\ child \in Processes \cup {None} /\ start \in {"no", "allocating", "shaking"}
        /\ restarts \in Nat
    BY <1>1 DEF HandleState, Counted
  <1>3. Runs(s, "reaped", process[p].owner, FALSE, process[p].asked)
    BY <1>1, ProcessUpdates
  <1>4. process' = [process EXCEPT ![p] = s]
    BY DEF Exit, TypeOK
  <1>5. state' = [state EXCEPT ![h] = q]
    BY DEF Exit
  <1>6. Held(q, state[h].entry, state[h].wanted, child, None, start)
    <2> HIDE DEF child, start, restarts
    <2> QED
      BY <1>1, <1>2, ExitUpdate
  <1>7. child \in {state[h].child, None}
    OBVIOUS
  <1>8. start = IF process[p].awaited THEN "no" ELSE state[process[p].owner].start
    OBVIOUS
  <1>9. h = process[p].owner
    OBVIOUS
  <1> HIDE DEF s, q, child, start, restarts, h
  <1> QED
    BY <1>3, <1>4, <1>5, <1>6, <1>7, <1>8, <1>9

LEMMA ExitTyped ==
  ASSUME TypeOK, NEW p \in Processes, Exit(p)
  PROVE  TypeOK'
  <1>1. process' \in [Processes -> Process]
    <2> DEFINE s == [[process[p] EXCEPT !.at = "reaped"] EXCEPT !.awaited = FALSE]
    <2>1. s \in Process
      <3>1. process[p] \in Process
        BY DEF TypeOK
      <3>2. Runs(s, "reaped", process[p].owner, FALSE, process[p].asked)
        BY <3>1, ProcessUpdates
      <3> QED
        BY <3>2 DEF Runs
    <2>2. process' = [process EXCEPT ![p] = s]
      BY DEF Exit, TypeOK
    <2> HIDE DEF s
    <2> QED
      BY <2>1, <2>2 DEF TypeOK
  <1>2. state' \in [Handles -> HandleState]
    <2>1. CASE process[p].owner \in Handles
      BY <2>1, ExitEffect DEF TypeOK, Held
    <2>2. CASE process[p].owner \notin Handles
      BY <2>2 DEF Exit, TypeOK
    <2> QED
      BY <2>1, <2>2
  <1>3. caller' \in [Callers -> Caller]
    <2>1. CASE process[p].owner \in Handles
      BY <2>1, SettledTyped DEF Exit, TypeOK
    <2>2. CASE process[p].owner \notin Handles
      <3>1. Settled(process[p].owner, "failed") \in [Callers -> Caller]
        <4>1. [pc |-> "failed", handle |-> None] \in Caller
          BY DEF Caller
        <4> QED
          BY <4>1 DEF Settled, TypeOK
      <3> QED
        BY <3>1 DEF Exit, TypeOK
    <2> QED
      BY <2>1, <2>2
  <1>4. call' \in [Calls -> Call]
    <2>1. \A c \in Calls : call[c] \in Call /\ CallOver(call[c].kind) \in Call
      BY CallOverTyped DEF TypeOK, Call
    <2> QED
      BY <2>1 DEF Exit
  <1>5. declared' \in BOOLEAN /\ version' \in Nat /\ reported' \in {"down", "starting", "up", "failed"}
    <2> DEFINE held == state[process[p].owner]
               kinds == {call[c].kind : c \in {c \in Calls : Stopping(c) /\ call[c].process = p}}
               observed == IF held.wanted /\ Counted(held) >= MaxRestarts THEN "failed" ELSE "down"
    <2>1. Redeclare(kinds, observed)
      BY DEF Exit
    <2>2. observed \in {"down", "starting", "up", "failed"}
      OBVIOUS
    <2> HIDE DEF kinds, observed
    <2> QED
      BY <2>1, <2>2, RedeclareTyped
  <1> QED
    BY <1>1, <1>2, <1>3, <1>4, <1>5 DEF Exit, TypeOK

(* A stop: of a handle with nothing to signal, or of one with a child, who *)
(* is asked to leave and whose handle no longer wants it.                  *)
StopsNothing(c, h, held) ==
  /\ Gone(held) /\ process' = process
  /\ \E q : /\ state' = [state EXCEPT ![h] = q]
            /\ Held(q, held.entry, FALSE, held.child, None, held.start)
  /\ call' \in [Calls -> Call] /\ call'[c].pc = "done"
  /\ \A d \in Calls \ {c} : call'[d] = call[d]

StopsChild(c, h, held) ==
  /\ ~Gone(held) /\ held.child \in Processes
  /\ \E q : /\ state' = [state EXCEPT ![h] = q]
            /\ Held(q, held.entry, FALSE, held.child, held.client, held.start)
  /\ call' \in [Calls -> Call]
  /\ call'[c].pc \in {"asking", "exiting"} /\ call'[c].process = held.child
  /\ \A d \in Calls \ {c} : call'[d] = call[d]
  /\ process' = process \/ process' = [process EXCEPT ![held.child] = ToldToLeave(held.child)]

LEMMA StopEffect ==
  ASSUME TypeOK, NEW c \in Calls, NEW kind \in CallKinds, NEW h \in Handles,
         NEW held \in HandleState, Stop(c, kind, h, held)
  PROVE  /\ StopsNothing(c, h, held) \/ StopsChild(c, h, held)
         /\ state' \in [Handles -> HandleState] /\ process' \in [Processes -> Process]
         /\ call' \in [Calls -> Call]
         /\ declared' \in BOOLEAN /\ version' \in Nat /\ (version # 0 => version' # 0)
         /\ reported' \in {"down", "starting", "up", "failed"}
  <1>1. CASE /\ Gone(held)
             /\ state' = [state EXCEPT ![h] = [held EXCEPT !.wanted = FALSE, !.client = None]]
             /\ call' = [call EXCEPT ![c] = CallOver(kind)]
             /\ Redeclare({kind}, reported)
             /\ UNCHANGED process
    <2> DEFINE q == [held EXCEPT !.wanted = FALSE, !.client = None]
    <2>1. Held(q, held.entry, FALSE, held.child, None, held.start)
      BY HandleUpdates
    <2>2. state' = [state EXCEPT ![h] = q]
      BY <1>1
    <2> HIDE DEF q
    <2>3. /\ call' \in [Calls -> Call] /\ call'[c].pc = "done"
          /\ \A d \in Calls \ {c} : call'[d] = call[d]
      BY <1>1, CallOverTyped DEF TypeOK
    <2>4. StopsNothing(c, h, held)
      BY <1>1, <2>1, <2>2, <2>3 DEF StopsNothing
    <2>5. state' \in [Handles -> HandleState] /\ process' \in [Processes -> Process]
      BY <1>1, <2>1, <2>2 DEF Held, TypeOK
    <2>6. /\ declared' \in BOOLEAN /\ version' \in Nat /\ (version # 0 => version' # 0)
          /\ reported' \in {"down", "starting", "up", "failed"}
      <3>1. reported \in {"down", "starting", "up", "failed"}
        BY DEF TypeOK
      <3> QED
        BY <1>1, <3>1, RedeclareTyped
    <2> QED
      BY <2>3, <2>4, <2>5, <2>6
  <1>2. CASE /\ ~Gone(held)
             /\ state' = [state EXCEPT ![h] = Unwanted(held)]
             /\ \E pc \in {"asking", "exiting"} :
                  call' = [call EXCEPT ![c] = [pc |-> pc, kind |-> kind, handle |-> h,
                                               process |-> held.child]]
             /\ \/ process' = process
                \/ process' = [process EXCEPT ![held.child] = ToldToLeave(held.child)]
             /\ UNCHANGED <<declared, version, reported>>
    <2> DEFINE q == Unwanted(held)
    <2>1. Held(q, held.entry, FALSE, held.child, held.client, held.start)
      BY HandleUpdates DEF Unwanted
    <2>2. state' = [state EXCEPT ![h] = q]
      BY <1>2
    <2> HIDE DEF q
    <2>3. held.child \in Processes
      BY <1>2 DEF Gone, HandleState
    <2>4. PICK pc \in {"asking", "exiting"} :
            call' = [call EXCEPT ![c] = [pc |-> pc, kind |-> kind, handle |-> h,
                                         process |-> held.child]]
      BY <1>2
    <2>5. [pc |-> pc, kind |-> kind, handle |-> h, process |-> held.child] \in Call
      BY <2>3 DEF Call
    <2>6. /\ call' \in [Calls -> Call]
          /\ call'[c] = [pc |-> pc, kind |-> kind, handle |-> h, process |-> held.child]
          /\ \A d \in Calls \ {c} : call'[d] = call[d]
      BY <2>4, <2>5 DEF TypeOK
    <2>7. StopsChild(c, h, held)
      <3>1. call'[c].pc \in {"asking", "exiting"} /\ call'[c].process = held.child
        BY <2>6
      <3>2. \E r : state' = [state EXCEPT ![h] = r]
                  /\ Held(r, held.entry, FALSE, held.child, held.client, held.start)
        BY <2>1, <2>2
      <3> QED
        BY <1>2, <2>3, <2>6, <3>1, <3>2 DEF StopsChild
    <2>8. state' \in [Handles -> HandleState]
      BY <2>1, <2>2 DEF Held, TypeOK
    <2>9. process' \in [Processes -> Process]
      BY <1>2, <2>3, ToldEffect, StepsTyped DEF TypeOK
    <2> QED
      BY <1>2, <2>6, <2>7, <2>8, <2>9 DEF TypeOK
  <1> QED
    BY <1>1, <1>2 DEF Stop

LEMMA EvictTyped ==
  ASSUME TypeOK, NEW c \in Calls, Evict(c)
  PROVE  TypeOK'
  <1>1. PICK h \in Handles : HandleOf(h) /\ Stop(c, "evict", h, Handled(h)) /\ handle' = h
    BY DEF Evict
  <1>2. "evict" \in CallKinds /\ Handled(h) \in HandleState
    BY HandledTyped DEF Evict
  <1> DEFINE held == Handled(h)
  <1>3. Stop(c, "evict", h, held) /\ held \in HandleState
    BY <1>1, <1>2
  <1> HIDE DEF held
  <1> QED
    BY <1>1, <1>2, <1>3, StopEffect DEF Evict, TypeOK

LEMMA ForgetTyped ==
  ASSUME TypeOK, NEW c \in Calls, Forget(c)
  PROVE  TypeOK'
  <1>1. PICK kind \in CallKinds :
          \/ handle # None /\ Stop(c, kind, handle, state[handle])
          \/ /\ call' = [call EXCEPT ![c] = CallOver(kind)]
             /\ Redeclare({kind}, reported)
             /\ UNCHANGED <<state, process>>
    BY DEF Forget
  <1>2. CASE handle # None /\ Stop(c, kind, handle, state[handle])
    <2>1. handle \in Handles /\ state[handle] \in HandleState
      BY <1>2 DEF TypeOK
    <2> QED
      BY <1>2, <2>1, StopEffect DEF Forget, TypeOK
  <1>3. CASE /\ call' = [call EXCEPT ![c] = CallOver(kind)]
             /\ Redeclare({kind}, reported)
             /\ UNCHANGED <<state, process>>
    <2>1. call' \in [Calls -> Call]
      BY <1>3, CallOverTyped DEF TypeOK
    <2>2. reported \in {"down", "starting", "up", "failed"}
      BY DEF TypeOK
    <2> QED
      BY <1>3, <2>1, <2>2, RedeclareTyped DEF Forget, TypeOK
  <1> QED
    BY <1>1, <1>2, <1>3

LEMMA StopAllTyped ==
  ASSUME TypeOK, NEW c \in Calls, StopAll(c)
  PROVE  TypeOK'
  <1>0. "shutdown" \in CallKinds /\ closing' = TRUE /\ handle' = None /\ caller' = caller
    BY DEF StopAll
  <1>1. CASE handle # None /\ Stop(c, "shutdown", handle, state[handle])
    <2>1. handle \in Handles /\ state[handle] \in HandleState
      BY <1>1 DEF TypeOK
    <2> QED
      BY <1>0, <1>1, <2>1, StopEffect DEF TypeOK
  <1>2. CASE /\ call' = [call EXCEPT ![c] = CallOver("shutdown")]
             /\ UNCHANGED <<declared, version, state, process, reported>>
    <2>1. call' \in [Calls -> Call]
      BY <1>0, <1>2, CallOverTyped DEF TypeOK
    <2> QED
      BY <1>0, <1>2, <2>1 DEF TypeOK
  <1> QED
    BY <1>1, <1>2 DEF StopAll

LEMMA NextTyped ==
  ASSUME TypeOK, [Next]_vars
  PROVE  TypeOK'
  <1>1. CASE UNCHANGED vars
    BY <1>1 DEF vars, TypeOK
  <1>2. CASE LongTime
    BY <1>2, LongTimeEffect
  <1>3. ASSUME NEW c \in Callers, Client(c)
        PROVE  TypeOK'
    BY <1>3, ClientTyped
  <1>4. ASSUME NEW h \in Handles, Spawn(h) \/ HandShake(h) \/ GiveUp(h)
        PROVE  TypeOK'
    BY <1>4, SpawnEffect, HandShakeEffect, GiveUpTyped
  <1>5. ASSUME NEW p \in Processes, Announce(p) \/ Dies(p) \/ Exit(p)
        PROVE  TypeOK'
    BY <1>5, AnnounceEffect, DiesEffect, ExitTyped
  <1>6. ASSUME NEW c \in Calls,
               Evict(c) \/ Forget(c) \/ StopAll(c) \/ AskedToTerminate(c) \/ Kill(c)
        PROVE  TypeOK'
    BY <1>6, EvictTyped, ForgetTyped, StopAllTyped, AskedTyped, KillEffect
  <1> QED
    BY <1>1, <1>2, <1>3, <1>4, <1>5, <1>6 DEF Next

LEMMA InitTyped ==
  ASSUME Init
  PROVE  TypeOK
  <1>1. state \in [Handles -> HandleState]
    BY FreshTyped DEF Init, Held
  <1>2. process \in [Processes -> Process]
    BY DEF Init, Process, Unborn
  <1>3. caller \in [Callers -> Caller] /\ call \in [Calls -> Call]
    BY DEF Init, Caller, Call
  <1>4. declared \in BOOLEAN /\ closing \in BOOLEAN /\ version \in Nat
    BY DEF Init
  <1> QED
    BY <1>1, <1>2, <1>3, <1>4 DEF Init, TypeOK

-----------------------------------------------------------------------------
(* The invariant holds of every step that changes no handle in what the    *)
(* invariant is about, neither births nor reaps a process, and asks only   *)
(* those to leave that are not wanted.                                     *)
LEMMA NothingMoves ==
  ASSUME IInv, TypeOK', handle' = handle, version' = version,
         \A h \in Handles : Held(state'[h], state[h].entry, state[h].wanted, state[h].child,
                                 state[h].client, state[h].start),
         \A p \in Processes :
           /\ process'[p].owner = process[p].owner /\ process'[p].awaited = process[p].awaited
           /\ \/ process'[p].at = process[p].at /\ process'[p].asked = process[p].asked
              \/ /\ Afoot(p) /\ process'[p].at \notin {"unborn", "reaped"}
                 /\ process'[p].asked =>
                      process[p].asked \/ ~state[process[p].owner].wanted,
         \A c \in Calls : /\ Stopping(c)' <=> Stopping(c)
                          /\ Stopping(c) => call'[c].process = call[c].process
  PROVE  IInv'
  <1>1. \A p \in Processes : /\ Afoot(p)' <=> Afoot(p)
                             /\ process'[p].at = "unborn" <=> process[p].at = "unborn"
                             /\ process'[p].at = "reaped" <=> process[p].at = "reaped"
    BY DEF Afoot
  <1>2. \A h \in Handles :
          /\ state'[h].entry = state[h].entry /\ state'[h].wanted = state[h].wanted
          /\ state'[h].child = state[h].child /\ state'[h].client = state[h].client
          /\ state'[h].start = state[h].start
          /\ state[h].child \in Processes \cup {None}
    <2> SUFFICES ASSUME NEW h \in Handles
                 PROVE  /\ state'[h].entry = state[h].entry /\ state'[h].wanted = state[h].wanted
                        /\ state'[h].child = state[h].child /\ state'[h].client = state[h].client
                        /\ state'[h].start = state[h].start
                        /\ state[h].child \in Processes \cup {None}
      OBVIOUS
    <2>1. Held(state'[h], state[h].entry, state[h].wanted, state[h].child, state[h].client,
               state[h].start)
      OBVIOUS
    <2>2. state[h] \in HandleState
      BY DEF IInv, TypeOK
    <2> QED
      BY <2>1, <2>2 DEF Held, HandleState
  <1>3. ASSUME NEW p \in Processes
        PROVE  ProcessInv(p)'
    <2>1. ProcessInv(p)
      BY DEF IInv
    <2>2. Afoot(p) /\ process[p].owner # handle =>
            \E c \in Calls : Stopping(c)' /\ call'[c].process = p
      BY <2>1 DEF ProcessInv
    <2>3. /\ process'[p].owner = process[p].owner /\ process'[p].awaited = process[p].awaited
          /\ process'[p].asked => process[p].asked \/ ~state[process[p].owner].wanted
      OBVIOUS
    <2>4. process[p].at = "unborn" => ~process'[p].asked
      BY <2>1 DEF ProcessInv, Afoot
    <2>5. Afoot(p) => process[p].owner \in Handles
      BY <2>1 DEF ProcessInv, Afoot
    <2> QED
      BY <1>1, <1>2, <2>1, <2>2, <2>3, <2>4, <2>5 DEF ProcessInv
  <1>4. ASSUME NEW h \in Handles
        PROVE  HandleInv(h)'
    <2>1. HandleInv(h)
      BY DEF IInv
    <2>2. state[h].child # None => state[h].child \in Processes
      BY <1>2
    <2> QED
      BY <1>1, <1>2, <2>1, <2>2 DEF HandleInv
  <1>5. ASSUME NEW c \in Calls
        PROVE  CallInv(c)'
    <2>1. CallInv(c) /\ (Stopping(c)' <=> Stopping(c))
          /\ (Stopping(c) => call'[c].process = call[c].process)
      BY DEF IInv
    <2>2. Stopping(c) => process[call[c].process].owner \in Handles
      BY <2>1 DEF IInv, CallInv, ProcessInv, Afoot
    <2> QED
      BY <1>1, <1>2, <2>1, <2>2 DEF CallInv
  <1>6. version' # 0 /\ (handle' # None => state'[handle'].entry # 0)
    BY <1>2 DEF IInv, TypeOK
  <1> QED
    BY <1>3, <1>4, <1>5, <1>6 DEF IInv

(* A process takes a step of its own, or one is told or made to leave.     *)
LEMMA StepsInv ==
  ASSUME IInv, TypeOK', NEW p \in Processes, NEW at \in {"booting", "up", "leaving", "dead"},
         NEW asked \in BOOLEAN,
         Afoot(p), Steps(p, at, asked), asked => process[p].asked \/ ~state[process[p].owner].wanted,
         handle' = handle, version' = version, state' = state,
         \A c \in Calls : /\ Stopping(c)' <=> Stopping(c)
                          /\ Stopping(c) => call'[c].process = call[c].process
  PROVE  IInv'
  <1>1. \A h \in Handles : Held(state'[h], state[h].entry, state[h].wanted, state[h].child,
                                state[h].client, state[h].start)
    BY DEF IInv, TypeOK, Held
  <1>2. PICK s : /\ process' = [process EXCEPT ![p] = s]
                 /\ Runs(s, at, process[p].owner, process[p].awaited, asked)
    BY DEF Steps
  <1>3. \A x \in Processes : process'[x] = IF x = p THEN s ELSE process[x]
    BY <1>2 DEF IInv, TypeOK
  <1>4. \A x \in Processes :
          /\ process'[x].owner = process[x].owner /\ process'[x].awaited = process[x].awaited
          /\ \/ process'[x].at = process[x].at /\ process'[x].asked = process[x].asked
             \/ /\ Afoot(x) /\ process'[x].at \notin {"unborn", "reaped"}
                /\ process'[x].asked => process[x].asked \/ ~state[process[x].owner].wanted
    BY <1>2, <1>3 DEF Runs
  <1> QED
    BY <1>1, <1>4, NothingMoves

LEMMA AnnounceInv ==
  ASSUME IInv, NEW p \in Processes, Announce(p)
  PROVE  IInv'
  <1>1. TypeOK' /\ Steps(p, "up", process[p].asked) /\ Afoot(p)
    BY AnnounceEffect DEF IInv, Announce, Afoot
  <1>2. process[p].asked \in BOOLEAN
    BY DEF IInv, TypeOK, Process
  <1>3. \A c \in Calls : (Stopping(c)' <=> Stopping(c)) /\ call'[c].process = call[c].process
    BY DEF Announce, Stopping
  <1> QED
    BY <1>1, <1>2, <1>3, StepsInv DEF Announce

LEMMA DiesInv ==
  ASSUME IInv, NEW p \in Processes, Dies(p)
  PROVE  IInv'
  <1>1. TypeOK' /\ Steps(p, "dead", process[p].asked) /\ Afoot(p)
    BY DiesEffect DEF IInv, Dies, Afoot
  <1>2. process[p].asked \in BOOLEAN
    BY DEF IInv, TypeOK, Process
  <1>3. \A c \in Calls : (Stopping(c)' <=> Stopping(c)) /\ call'[c].process = call[c].process
    BY DEF Dies, Stopping
  <1> QED
    BY <1>1, <1>2, <1>3, StepsInv DEF Dies

LEMMA KillInv ==
  ASSUME IInv, NEW c \in Calls, Kill(c)
  PROVE  IInv'
  <1> DEFINE p == call[c].process
  <1>1. TypeOK' /\ Steps(p, "dead", TRUE)
    BY KillEffect DEF IInv
  <1>2. p \in Processes /\ Afoot(p) /\ ~state[process[p].owner].wanted
    BY DEF IInv, Kill, CallInv
  <1>3. \A d \in Calls : (Stopping(d)' <=> Stopping(d)) /\ call'[d].process = call[d].process
    BY DEF Kill, Stopping
  <1>4. handle' = handle /\ version' = version /\ state' = state
    BY DEF Kill
  <1> HIDE DEF p
  <1> QED
    BY <1>1, <1>2, <1>3, <1>4, StepsInv

LEMMA AskedInv ==
  ASSUME IInv, NEW c \in Calls, AskedToTerminate(c)
  PROVE  IInv'
  <1> DEFINE p == call[c].process
  <1>1. TypeOK'
    BY AskedTyped DEF IInv
  <1>2. p \in Processes /\ Afoot(p) /\ ~state[process[p].owner].wanted
    BY DEF IInv, AskedToTerminate, CallInv, Stopping
  <1>3. \A d \in Calls : (Stopping(d)' <=> Stopping(d)) /\ call'[d].process = call[d].process
    BY DEF AskedToTerminate, Stopping, IInv, TypeOK, Call
  <1>4. /\ handle' = handle /\ version' = version /\ state' = state
        /\ process' = [process EXCEPT ![p] = ToldToLeave(p)]
    BY DEF AskedToTerminate
  <1> HIDE DEF p
  <1>5. PICK at \in {process[p].at, "leaving"} : Steps(p, at, TRUE)
    BY <1>2, <1>4, ToldEffect DEF IInv
  <1>6. at \in {"booting", "up", "leaving", "dead"}
    BY <1>2 DEF Afoot, IInv, TypeOK, Process
  <1> QED
    BY <1>1, <1>2, <1>3, <1>4, <1>5, <1>6, StepsInv

LEMMA LongTimeInv ==
  ASSUME IInv, LongTime
  PROVE  IInv'
  <1>1. /\ TypeOK'
        /\ \A h \in Handles : Held(state'[h], state[h].entry, state[h].wanted, state[h].child,
                                   state[h].client, state[h].start)
        /\ \A p \in Processes : Runs(process'[p], process[p].at, process[p].owner,
                                     process[p].awaited, process[p].asked)
    BY LongTimeEffect DEF IInv
  <1>2. \A p \in Processes :
          /\ process'[p].owner = process[p].owner /\ process'[p].awaited = process[p].awaited
          /\ process'[p].at = process[p].at /\ process'[p].asked = process[p].asked
    BY <1>1 DEF Runs
  <1>3. \A c \in Calls : (Stopping(c)' <=> Stopping(c)) /\ call'[c].process = call[c].process
    BY DEF LongTime, Stopping
  <1>4. handle' = handle /\ version' = version
    BY DEF LongTime
  <1> QED
    BY <1>1, <1>2, <1>3, <1>4, NothingMoves

-----------------------------------------------------------------------------
(* The actions that change a handle.                                       *)

(* The handle a call finds or builds has been built, and is otherwise as   *)
(* it was.                                                                 *)
LEMMA HandledSame ==
  ASSUME IInv, NEW h \in Handles
  PROVE  /\ Handled(h) \in HandleState /\ Handled(h).entry # 0
         /\ Handled(h).wanted = state[h].wanted /\ Handled(h).child = state[h].child
         /\ Handled(h).client = state[h].client /\ Handled(h).start = state[h].start
         /\ state[h].entry # 0 => Handled(h) = state[h]
  <1>1. /\ Handled(h) \in HandleState
        /\ state[h].entry # 0 => Handled(h) = state[h]
        /\ state[h].entry = 0 => Held(Handled(h), version, FALSE, None, None, "no")
    BY HandledTyped DEF IInv
  <1>2. HandleInv(h) /\ version # 0 /\ state[h] \in HandleState
    BY DEF IInv, TypeOK
  <1>3. CASE state[h].entry = 0
    <2>1. state[h].wanted = FALSE
      BY <1>2, <1>3 DEF HandleInv, HandleState
    <2> QED
      BY <1>1, <1>2, <1>3, <2>1 DEF Held, HandleInv
  <1>4. CASE state[h].entry # 0
    BY <1>1, <1>4
  <1> QED
    BY <1>3, <1>4

(* Nothing is afoot of a handle whose child is gone, and it has no client. *)
LEMMA GoneIsIdle ==
  ASSUME IInv, NEW h \in Handles, Gone(state[h])
  PROVE  /\ \A p \in Processes : process[p].owner = h => ~Afoot(p) /\ ~process[p].awaited
         /\ state[h].client = None /\ state[h].start # "shaking"
  <1>1. state[h].child = None \/ process[state[h].child].at = "reaped"
    BY DEF Gone, Exited
  <1>2. None \notin Processes
    BY SupervisorAssumption
  <1>3. ASSUME NEW p \in Processes, process[p].owner = h
        PROVE  ~Afoot(p) /\ ~process[p].awaited
    <2>1. ProcessInv(p)
      BY DEF IInv
    <2> QED
      BY <1>1, <1>2, <1>3, <2>1 DEF ProcessInv, Afoot
  <1>4. HandleInv(h) /\ state[h] \in HandleState
    BY DEF IInv, TypeOK
  <1>5. state[h].client = None
    BY <1>1, <1>4 DEF HandleInv, Afoot
  <1>6. state[h].start # "shaking"
    <2> SUFFICES ASSUME state[h].start = "shaking"
                 PROVE  FALSE
      OBVIOUS
    <2>1. state[h].child \in Processes /\ process[state[h].child].awaited
          /\ process[state[h].child].owner = h
      BY <1>4 DEF HandleInv, HandleState
    <2> QED
      BY <1>3, <2>1
  <1> QED
    BY <1>3, <1>5, <1>6

(* A handle that waits for its socket, or neither starts nor has a client, *)
(* has no child left.                                                      *)
LEMMA IdleIsGone ==
  ASSUME IInv, NEW h \in Handles, state[h].client = None, state[h].start # "shaking"
  PROVE  Gone(state[h])
  <1>1. HandleInv(h) /\ state[h] \in HandleState
    BY DEF IInv, TypeOK
  <1>2. state[h].child \in Processes \cup {None}
    BY <1>1 DEF HandleState
  <1>3. state[h].child = None \/ process[state[h].child].at = "reaped"
    BY <1>1 DEF HandleInv
  <1> QED
    BY <1>2, <1>3 DEF Gone, Exited

(* Whatever becomes of a handle with no child, short of a new child, the   *)
(* invariant holds if only the registry's is wanted.                       *)
LEMMA IdleHandle ==
  ASSUME IInv, TypeOK', NEW h \in Handles, Gone(state[h]),
         NEW q, NEW entry, NEW wanted, NEW child \in {state[h].child, None},
         NEW start \in {"no", "allocating"},
         state' = [state EXCEPT ![h] = q], Held(q, entry, wanted, child, None, start), entry # 0,
         process' = process, version' # 0,
         handle' = handle \/ (handle \in {h, None} /\ handle' \in {h, None}),
         wanted => handle' = h,
         \A c \in Calls : /\ Stopping(c)' <=> Stopping(c)
                          /\ Stopping(c) => call'[c].process = call[c].process
  PROVE  IInv'
  <1>1. /\ \A p \in Processes : process[p].owner = h => ~Afoot(p) /\ ~process[p].awaited
        /\ state[h].start # "shaking"
    BY GoneIsIdle
  <1>2. /\ state'[h] = q /\ \A g \in Handles \ {h} : state'[g] = state[g]
        /\ \A p \in Processes : Afoot(p)' <=> Afoot(p)
    BY DEF IInv, TypeOK, Afoot
  <1>3. q.entry = entry /\ q.wanted = wanted /\ q.child = child /\ q.client = None /\ q.start = start
    BY DEF Held
  <1>4. ASSUME NEW p \in Processes
        PROVE  ProcessInv(p)'
    <2>1. ProcessInv(p)
      BY DEF IInv
    <2>2. Afoot(p) /\ process[p].owner # handle =>
            \E c \in Calls : Stopping(c)' /\ call'[c].process = p
      BY <2>1 DEF ProcessInv
    <2>3. process[p].awaited => Afoot(p)
      BY <2>1 DEF ProcessInv
    <2>4. CASE Afoot(p)
      <3>1. process[p].owner \in Handles \ {h}
        BY <1>1, <2>1, <2>4 DEF ProcessInv, Afoot
      <3>2. state'[process[p].owner] = state[process[p].owner]
        BY <1>2, <3>1
      <3>3. process[p].owner = handle => process[p].owner = handle' \/ process[p].owner \in {h, None}
        OBVIOUS
      <3>4. process[p].owner # None
        BY <3>1, SupervisorAssumption
      <3> QED
        BY <1>2, <2>1, <2>2, <2>4, <3>1, <3>2, <3>3, <3>4 DEF ProcessInv
    <2>5. CASE ~Afoot(p)
      BY <1>2, <2>1, <2>3, <2>5 DEF ProcessInv
    <2> QED
      BY <2>4, <2>5
  <1>5. ASSUME NEW g \in Handles
        PROVE  HandleInv(g)'
    <2>1. HandleInv(g)
      BY DEF IInv
    <2>2. CASE g = h
      <3>1. child # None => process[child].owner = h /\ process[child].at = "reaped"
        BY <2>1, <2>2 DEF HandleInv, Gone, Exited
      <3> QED
        BY <1>2, <1>3, <2>2, <3>1 DEF HandleInv
    <2>3. CASE g # h
      <3>1. state'[g] = state[g] /\ (g # handle' => g # handle)
        <4>1. g # None
          BY SupervisorAssumption
        <4> QED
          BY <1>2, <2>3, <4>1
      <3>2. state[g].child \in Processes \cup {None}
        BY DEF IInv, TypeOK, HandleState
      <3>3. state[g].child # None => (Afoot(state[g].child)' <=> Afoot(state[g].child))
        BY <1>2, <3>1, <3>2
      <3>4. g # handle' => ~state[g].wanted
        BY <2>1, <3>1 DEF HandleInv
      <3>5. state[g].client # None => state[g].child # None
        BY <2>1 DEF HandleInv
      <3> QED
        BY <2>1, <3>1, <3>3, <3>4, <3>5 DEF HandleInv
    <2> QED
      BY <2>2, <2>3
  <1>6. ASSUME NEW c \in Calls
        PROVE  CallInv(c)'
    <2>1. CallInv(c) /\ (Stopping(c)' <=> Stopping(c))
          /\ (Stopping(c) => call'[c].process = call[c].process)
      BY DEF IInv
    <2>2. Stopping(c) => process[call[c].process].owner \in Handles \ {h}
      <3>1. Stopping(c) => ProcessInv(call[c].process) /\ Afoot(call[c].process)
                           /\ call[c].process \in Processes
        BY <2>1 DEF IInv, CallInv
      <3> QED
        BY <1>1, <3>1 DEF ProcessInv, Afoot
    <2> QED
      BY <1>2, <2>1, <2>2 DEF CallInv
  <1>7. handle' # None => state'[handle'].entry # 0
    <2>1. handle # None => handle \in Handles /\ state[handle].entry # 0
      BY DEF IInv, TypeOK
    <2>2. handle' # None => handle' = h \/ (handle' = handle /\ handle \in Handles \ {h})
      BY <2>1
    <2> QED
      BY <1>2, <1>3, <2>1, <2>2
  <1> QED
    BY <1>4, <1>5, <1>6, <1>7 DEF IInv

LEMMA ClientInv ==
  ASSUME IInv, NEW c \in Callers, Client(c)
  PROVE  IInv'
  <1>1. PICK h \in Handles : HandleOf(h) /\ EnsureUp(c, h, Handled(h)) /\ handle' = h
    BY DEF Client
  <1> DEFINE held == Handled(h)
  <1>2. TypeOK'
    BY ClientTyped DEF IInv
  <1>3. /\ held \in HandleState /\ held.entry # 0
        /\ held.wanted = state[h].wanted /\ held.child = state[h].child
        /\ held.client = state[h].client /\ held.start = state[h].start
        /\ state[h].entry # 0 => held = state[h]
    BY HandledSame
  <1>4. EnsureUp(c, h, held)
    BY <1>1
  <1> HIDE DEF held
  <1>5. PICK q \in HandleState :
          /\ state' = [state EXCEPT ![h] = q]
          /\ \/ q = held
             \/ /\ ~IsUp(held) /\ MayStart(held)
                /\ Held(q, held.entry, TRUE, held.child, held.client, "allocating")
    BY <1>3, <1>4, EnsureUpEffect DEF IInv
  <1>6. /\ process' = process /\ version' # 0 /\ handle \in {h, None}
        /\ \A d \in Calls : /\ Stopping(d)' <=> Stopping(d)
                            /\ Stopping(d) => call'[d].process = call[d].process
    BY <1>1 DEF Client, HandleOf, IInv, Stopping
  <1>7. HandleInv(h) /\ state[h] \in HandleState
    BY DEF IInv, TypeOK
  <1>8. CASE Gone(state[h]) /\ q = held
    <2>1. state[h].client = None /\ state[h].start \in {"no", "allocating"}
      BY <1>7, <1>8, GoneIsIdle DEF HandleState
    <2>2. Held(q, held.entry, held.wanted, state[h].child, None, state[h].start)
      BY <1>3, <1>8, <2>1 DEF Held
    <2> QED
      BY <1>1, <1>2, <1>3, <1>5, <1>6, <1>8, <2>1, <2>2, IdleHandle
  <1>9. CASE ~Gone(state[h]) /\ q = held
    <2>1. state[h].entry # 0
      BY <1>7, <1>9 DEF HandleInv, Gone
    <2>2. handle' = handle /\ state' = state
      <3>1. handle = h
        BY <1>1, <2>1 DEF HandleOf
      <3> QED
        BY <1>1, <1>3, <1>5, <1>9, <2>1, <3>1 DEF IInv, TypeOK
    <2>3. \A g \in Handles : Held(state'[g], state[g].entry, state[g].wanted, state[g].child,
                                  state[g].client, state[g].start)
      BY <2>2 DEF IInv, TypeOK, Held
    <2>4. version' = version
      BY DEF Client
    <2> QED
      BY <1>2, <1>6, <2>2, <2>3, <2>4, NothingMoves
  <1>10. CASE /\ ~IsUp(held) /\ MayStart(held)
              /\ Held(q, held.entry, TRUE, held.child, held.client, "allocating")
    <2>1. state[h].start = "no"
      BY <1>3, <1>10 DEF MayStart
    <2>2. state[h].client = None
      <3> SUFFICES ASSUME state[h].client # None
                   PROVE  FALSE
        OBVIOUS
      <3>1. Gone(held) /\ held.child = state[h].child
        BY <1>3, <1>10 DEF IsUp
      <3>2. Gone(state[h])
        BY <3>1 DEF Gone
      <3> QED
        BY <3>2, GoneIsIdle
    <2>3. Gone(state[h])
      BY <2>1, <2>2, IdleIsGone
    <2>4. Held(q, held.entry, TRUE, state[h].child, None, "allocating")
      BY <1>3, <1>10, <2>2
    <2> QED
      BY <1>1, <1>2, <1>3, <1>5, <1>6, <2>3, <2>4, IdleHandle
  <1> QED
    BY <1>5, <1>8, <1>9, <1>10

(* A stop, whether the handle stays the registry's or is taken out.        *)
LEMMA StopInv ==
  ASSUME IInv, TypeOK', NEW c \in Calls, call[c].pc = "idle", NEW kind \in CallKinds,
         NEW h \in Handles, HandleOf(h), Stop(c, kind, h, Handled(h)), handle' \in {h, None}
  PROVE  IInv'
  <1> DEFINE held == Handled(h)
  <1>1. /\ held \in HandleState /\ held.entry # 0
        /\ held.wanted = state[h].wanted /\ held.child = state[h].child
        /\ held.client = state[h].client /\ held.start = state[h].start
        /\ state[h].entry # 0 => held = state[h]
    BY HandledSame
  <1>2. Stop(c, kind, h, held)
    OBVIOUS
  <1>3. handle \in {h, None}
    BY DEF HandleOf
  <1>4. HandleInv(h) /\ state[h] \in HandleState
    BY DEF IInv, TypeOK
  <1>5. ~Stopping(c)
    BY DEF Stopping
  <1> HIDE DEF held
  <1>6. /\ StopsNothing(c, h, held) \/ StopsChild(c, h, held)
        /\ version' # 0
    BY <1>1, <1>2, StopEffect DEF IInv
  <1>7. CASE StopsNothing(c, h, held)
    <2>1. Gone(state[h]) /\ process' = process
      BY <1>1, <1>7 DEF StopsNothing, Gone
    <2>2. state[h].start \in {"no", "allocating"}
      BY <1>4, <2>1, GoneIsIdle DEF HandleState
    <2>3. PICK q : /\ state' = [state EXCEPT ![h] = q]
                   /\ Held(q, held.entry, FALSE, state[h].child, None, state[h].start)
      BY <1>1, <1>7 DEF StopsNothing
    <2>4. \A d \in Calls : /\ Stopping(d)' <=> Stopping(d)
                           /\ Stopping(d) => call'[d].process = call[d].process
      BY <1>5, <1>7 DEF StopsNothing, Stopping
    <2> QED
      BY <1>1, <1>3, <1>6, <2>1, <2>2, <2>3, <2>4, IdleHandle
  <1>8. CASE StopsChild(c, h, held)
    <2> DEFINE x == state[h].child
    <2>1. PICK q : /\ state' = [state EXCEPT ![h] = q]
                   /\ Held(q, held.entry, FALSE, held.child, held.client, held.start)
      BY <1>8 DEF StopsChild
    <2>2. /\ x \in Processes /\ Afoot(x) /\ process[x].owner = h
      <3>1. held.child \in Processes /\ held.child \notin Exited
        BY <1>8 DEF StopsChild, Gone
      <3>2. x # None
        BY <1>1, <3>1, SupervisorAssumption
      <3> QED
        BY <1>1, <1>4, <3>1, <3>2 DEF HandleInv, Exited, Afoot
    <2>3. held = state[h] /\ state[h].entry # 0
      BY <1>1, <1>4, <2>2, SupervisorAssumption DEF HandleInv
    <2>4. /\ state'[h].wanted = FALSE /\ state'[h].entry = state[h].entry
          /\ state'[h].child = x /\ state'[h].client = state[h].client
          /\ state'[h].start = state[h].start
          /\ \A g \in Handles \ {h} : state'[g] = state[g]
      <3>1. state'[h] = q /\ \A g \in Handles \ {h} : state'[g] = state[g]
        BY <2>1 DEF IInv, TypeOK
      <3> QED
        BY <2>1, <2>3, <3>1 DEF Held
    <2>5. \A p \in Processes :
            /\ process'[p].owner = process[p].owner /\ process'[p].awaited = process[p].awaited
            /\ process'[p].at = "unborn" <=> process[p].at = "unborn"
            /\ process'[p].at = "reaped" <=> process[p].at = "reaped"
            /\ p # x => process'[p].asked = process[p].asked
      <3>1. CASE process' = process
        BY <3>1
      <3>2. CASE process' = [process EXCEPT ![x] = ToldToLeave(x)]
        <4> HIDE DEF x
        <4>1. PICK at \in {process[x].at, "leaving"} :
                /\ at = "leaving" => process[x].at \in {"booting", "up", "leaving"}
                /\ Steps(x, at, TRUE)
          BY <2>2, <3>2, ToldEffect DEF IInv
        <4>2. PICK s : /\ process' = [process EXCEPT ![x] = s]
                       /\ Runs(s, at, process[x].owner, process[x].awaited, TRUE)
          BY <4>1 DEF Steps
        <4>3. \A p \in Processes : process'[p] = IF p = x THEN s ELSE process[p]
          BY <4>2 DEF IInv, TypeOK
        <4> QED
          BY <2>2, <4>1, <4>2, <4>3 DEF Runs, Afoot
      <3> QED
        BY <1>1, <1>8, <3>1, <3>2 DEF StopsChild
    <2>6. \A p \in Processes : Afoot(p)' <=> Afoot(p)
      BY <2>5 DEF Afoot
    <2>7. /\ Stopping(c)' /\ call'[c].process = x
          /\ \A d \in Calls \ {c} : (Stopping(d)' <=> Stopping(d)) /\ call'[d] = call[d]
      BY <1>1, <1>8 DEF StopsChild, Stopping
    <2> HIDE DEF x
    <2>8. ASSUME NEW p \in Processes
          PROVE  ProcessInv(p)'
      <3>1. ProcessInv(p)
        BY DEF IInv
      <3>2. Afoot(p) /\ process[p].owner # handle =>
              \E d \in Calls : Stopping(d)' /\ call'[d].process = p
        BY <1>5, <2>7, <3>1 DEF ProcessInv
      <3>3. CASE p = x
        <4>1. process'[p].owner = h /\ process'[p].awaited = process[p].awaited
          BY <2>2, <2>5, <3>3
        <4>2. process[p].owner = h /\ Afoot(p) /\ Afoot(p)' /\ process'[p].at # "unborn"
          BY <2>2, <2>6, <3>3 DEF Afoot
        <4>3. \E d \in Calls : Stopping(d)' /\ call'[d].process = p
          BY <2>7, <3>3
        <4>4. state'[h].child = p /\ ~state'[h].wanted /\ state'[h].start = state[h].start
          BY <2>4, <3>3
        <4> QED
          BY <3>1, <4>1, <4>2, <4>3, <4>4 DEF ProcessInv
      <3>4. CASE p # x
        <4>1. Afoot(p) => process[p].owner \in Handles \ {h}
          BY <2>2, <3>1, <3>4 DEF ProcessInv, Afoot, x
        <4>2. Afoot(p) => process[p].owner # handle
          BY <1>3, <4>1, SupervisorAssumption
        <4>3. process[p].awaited => Afoot(p)
          BY <3>1 DEF ProcessInv
        <4> QED
          BY <2>4, <2>5, <2>6, <3>1, <3>2, <3>4, <4>1, <4>2, <4>3 DEF ProcessInv
      <3> QED
        BY <3>3, <3>4
    <2>9. ASSUME NEW g \in Handles
          PROVE  HandleInv(g)'
      <3>1. HandleInv(g)
        BY DEF IInv
      <3>2. state[g].child \in Processes \cup {None}
        BY DEF IInv, TypeOK, HandleState
      <3>3. state'[g].child = state[g].child
        BY <2>4 DEF x
      <3>4. g # handle' => ~state'[g].wanted
        <4>1. CASE g = h
          BY <2>4, <4>1
        <4>2. CASE g # h
          <5>1. g # handle
            BY <1>3, <4>2, SupervisorAssumption
          <5> QED
            BY <2>4, <3>1, <4>2, <5>1 DEF HandleInv
        <4> QED
          BY <4>1, <4>2
      <3>5. /\ state'[g].entry = state[g].entry /\ state'[g].client = state[g].client
            /\ state'[g].start = state[g].start /\ (~state[g].wanted => ~state'[g].wanted)
        BY <2>4
      <3>6. state[g].child # None =>
              /\ Afoot(state[g].child)' <=> Afoot(state[g].child)
              /\ process'[state[g].child].at = "unborn" <=> process[state[g].child].at = "unborn"
              /\ process'[state[g].child].at = "reaped" <=> process[state[g].child].at = "reaped"
              /\ process'[state[g].child].owner = process[state[g].child].owner
              /\ process'[state[g].child].awaited = process[state[g].child].awaited
        BY <2>5, <3>2, <3>3 DEF Afoot
      <3>7. state[g].client # None => state[g].child # None
        BY <3>1 DEF HandleInv
      <3> QED
        BY <3>1, <3>3, <3>4, <3>5, <3>6, <3>7 DEF HandleInv
    <2>10. ASSUME NEW d \in Calls
           PROVE  CallInv(d)'
      <3>1. CASE d = c
        BY <2>2, <2>4, <2>5, <2>6, <2>7, <3>1 DEF CallInv
      <3>2. CASE d # c
        <4>1. CallInv(d)
          BY DEF IInv
        <4>2. Stopping(d) => process[call[d].process].owner \in Handles
          BY <4>1 DEF IInv, CallInv, ProcessInv, Afoot
        <4> QED
          BY <2>4, <2>5, <2>6, <2>7, <3>2, <4>1, <4>2 DEF CallInv
      <3> QED
        BY <3>1, <3>2
    <2>11. handle' # None => state'[handle'].entry # 0
      BY <2>3, <2>4
    <2> QED
      BY <1>6, <2>8, <2>9, <2>10, <2>11 DEF IInv
  <1> QED
    BY <1>6, <1>7, <1>8

(* A call with no handle to stop changes neither handles nor processes.    *)
LEMMA NoHandleInv ==
  ASSUME IInv, TypeOK', NEW c \in Calls, call[c].pc = "idle", NEW kind \in CallKinds,
         handle = None, handle' = None, state' = state, process' = process, version' # 0,
         call' = [call EXCEPT ![c] = CallOver(kind)]
  PROVE  IInv'
  <1>1. \A d \in Calls : /\ Stopping(d)' <=> Stopping(d)
                         /\ Stopping(d) => call'[d].process = call[d].process
    BY DEF IInv, TypeOK, Stopping, CallOver
  <1>2. \A p \in Processes : ProcessInv(p)'
    <2>1. ASSUME NEW p \in Processes
          PROVE  ProcessInv(p)'
      <3>1. ProcessInv(p) /\ (Afoot(p)' <=> Afoot(p))
        BY DEF IInv, Afoot
      <3> QED
        BY <1>1, <3>1 DEF ProcessInv
    <2> QED
      BY <2>1
  <1>3. \A h \in Handles : HandleInv(h)'
    BY DEF IInv, HandleInv, Afoot
  <1>4. ASSUME NEW d \in Calls
        PROVE  CallInv(d)'
    <2>1. CallInv(d)
      BY DEF IInv
    <2> QED
      BY <1>1, <2>1 DEF CallInv, Afoot
  <1> QED
    BY <1>2, <1>3, <1>4 DEF IInv

LEMMA EvictInv ==
  ASSUME IInv, NEW c \in Calls, Evict(c)
  PROVE  IInv'
  <1>1. PICK h \in Handles : HandleOf(h) /\ Stop(c, "evict", h, Handled(h)) /\ handle' = h
    BY DEF Evict
  <1>2. TypeOK' /\ call[c].pc = "idle" /\ "evict" \in CallKinds
    BY EvictTyped DEF Evict, IInv
  <1> QED
    BY <1>1, <1>2, StopInv

(* The registry's handle has been built.                                   *)
LEMMA RegistrysHandle ==
  ASSUME IInv, handle # None
  PROVE  handle \in Handles /\ HandleOf(handle) /\ Handled(handle) = state[handle]
  BY DEF IInv, TypeOK, HandleOf, Handled

LEMMA ForgetInv ==
  ASSUME IInv, NEW c \in Calls, Forget(c)
  PROVE  IInv'
  <1>0. TypeOK' /\ call[c].pc = "idle" /\ handle' = None
    BY ForgetTyped DEF Forget, IInv
  <1>1. PICK kind \in CallKinds :
          \/ handle # None /\ Stop(c, kind, handle, state[handle])
          \/ /\ handle = None
             /\ call' = [call EXCEPT ![c] = CallOver(kind)]
             /\ Redeclare({kind}, reported)
             /\ UNCHANGED <<state, process>>
    BY DEF Forget
  <1>2. CASE handle # None /\ Stop(c, kind, handle, state[handle])
    <2> DEFINE h == handle
    <2>1. h \in Handles /\ HandleOf(h) /\ Stop(c, kind, h, Handled(h)) /\ handle' \in {h, None}
      BY <1>0, <1>2, RegistrysHandle
    <2> HIDE DEF h
    <2> QED
      BY <1>0, <2>1, StopInv
  <1>3. CASE /\ handle = None
             /\ call' = [call EXCEPT ![c] = CallOver(kind)]
             /\ Redeclare({kind}, reported)
             /\ UNCHANGED <<state, process>>
    <2>1. version' # 0
      BY <1>3, RedeclareTyped DEF IInv, TypeOK
    <2> QED
      BY <1>0, <1>3, <2>1, NoHandleInv
  <1> QED
    BY <1>1, <1>2, <1>3

LEMMA StopAllInv ==
  ASSUME IInv, NEW c \in Calls, StopAll(c)
  PROVE  IInv'
  <1>0. /\ TypeOK' /\ call[c].pc = "idle" /\ handle' = None /\ "shutdown" \in CallKinds
    BY StopAllTyped DEF StopAll, IInv
  <1>1. CASE handle # None /\ Stop(c, "shutdown", handle, state[handle])
    <2> DEFINE h == handle
    <2>1. /\ h \in Handles /\ HandleOf(h) /\ Stop(c, "shutdown", h, Handled(h))
          /\ handle' \in {h, None}
      BY <1>0, <1>1, RegistrysHandle
    <2> HIDE DEF h
    <2> QED
      BY <1>0, <2>1, StopInv
  <1>2. CASE /\ handle = None /\ call' = [call EXCEPT ![c] = CallOver("shutdown")]
             /\ UNCHANGED <<declared, version, state, process, reported>>
    <2>1. version' # 0
      BY <1>2 DEF IInv
    <2> QED
      BY <1>0, <1>2, <2>1, NoHandleInv
  <1> QED
    BY <1>1, <1>2 DEF StopAll

(* A process is born to a handle that waits for its socket, and has none.  *)
LEMMA SpawnInv ==
  ASSUME IInv, NEW h \in Handles, Spawn(h)
  PROVE  IInv'
  <1>1. HandleInv(h) /\ state[h] \in HandleState /\ state[h].start = "allocating"
    BY DEF IInv, TypeOK, Spawn
  <1>2. state[h].client = None /\ state[h].entry # 0
    BY <1>1 DEF HandleInv
  <1>3. Gone(state[h])
    BY <1>1, <1>2, IdleIsGone
  <1>4. /\ handle' = handle /\ version' = version /\ version # 0
        /\ \A c \in Calls : (Stopping(c)' <=> Stopping(c)) /\ call'[c].process = call[c].process
        /\ state[h].wanted => handle' = h
    BY <1>1 DEF Spawn, Stopping, IInv, HandleInv
  <1>5. TypeOK'
    BY SpawnEffect DEF IInv
  <1>6. CASE /\ process' = process
             /\ \E q : /\ state' = [state EXCEPT ![h] = q]
                       /\ \/ Held(q, state[h].entry, state[h].wanted, state[h].child,
                                  state[h].client, "no")
                          \/ Held(q, state[h].entry, state[h].wanted, None, state[h].client, "no")
    <2>0. \E child \in {state[h].child, None} : \E q :
            /\ state' = [state EXCEPT ![h] = q]
            /\ Held(q, state[h].entry, state[h].wanted, child, None, "no")
      BY <1>2, <1>6
    <2>1. PICK child \in {state[h].child, None} : \E q :
            /\ state' = [state EXCEPT ![h] = q]
            /\ Held(q, state[h].entry, state[h].wanted, child, None, "no")
      BY <2>0
    <2> QED
      BY <1>2, <1>3, <1>4, <1>5, <1>6, <2>1, IdleHandle
  <1>7. ASSUME state[h].wanted, NEW x \in Processes, NEW q, NEW s, process[x].at = "unborn",
               process' = [process EXCEPT ![x] = s], Runs(s, "booting", h, TRUE, FALSE),
               state' = [state EXCEPT ![h] = q],
               Held(q, state[h].entry, state[h].wanted, x, state[h].client, "shaking")
        PROVE  IInv'
    <2>1. /\ \A p \in Processes : process[p].owner = h => ~Afoot(p) /\ ~process[p].awaited
          /\ handle = h
      BY <1>3, <1>4, <1>7, GoneIsIdle
    <2>2. /\ process'[x].at = "booting" /\ process'[x].owner = h
          /\ process'[x].awaited = TRUE /\ process'[x].asked = FALSE
          /\ \A p \in Processes \ {x} : process'[p] = process[p]
      BY <1>7 DEF IInv, TypeOK, Runs
    <2>3. /\ state'[h].entry = state[h].entry /\ state'[h].wanted = state[h].wanted
          /\ state'[h].child = x /\ state'[h].client = None /\ state'[h].start = "shaking"
          /\ \A g \in Handles \ {h} : state'[g] = state[g]
      BY <1>2, <1>7 DEF IInv, TypeOK, Held
    <2>4. Afoot(x)' /\ ~Afoot(x)
      BY <1>7, <2>2 DEF Afoot
    <2>5. \A p \in Processes \ {x} : Afoot(p)' <=> Afoot(p)
      BY <2>2 DEF Afoot
    <2>6. ASSUME NEW p \in Processes
          PROVE  ProcessInv(p)'
      <3>1. ProcessInv(p)
        BY DEF IInv
      <3>2. CASE p = x
        BY <1>4, <2>1, <2>2, <2>3, <2>4, <3>2 DEF ProcessInv
      <3>3. CASE p # x
        <4>1. Afoot(p) \/ process[p].awaited => process[p].owner \in Handles \ {h}
          BY <2>1, <3>1 DEF ProcessInv, Afoot
        <4>2. Afoot(p) /\ process[p].owner # handle =>
                \E c \in Calls : Stopping(c)' /\ call'[c].process = p
          BY <1>4, <3>1 DEF ProcessInv
        <4> QED
          BY <1>4, <2>2, <2>3, <2>5, <3>1, <3>3, <4>1, <4>2 DEF ProcessInv
      <3> QED
        BY <3>2, <3>3
    <2>7. ASSUME NEW g \in Handles
          PROVE  HandleInv(g)'
      <3>1. HandleInv(g)
        BY DEF IInv
      <3>2. CASE g = h
        BY <1>2, <1>4, <1>7, <2>2, <2>3, <3>2, SupervisorAssumption DEF HandleInv
      <3>3. CASE g # h
        <4>1. state'[g] = state[g]
          BY <2>3, <3>3
        <4>2. state[g].child # None => state[g].child \in Processes \ {x}
          BY <1>7, <3>1 DEF IInv, TypeOK, HandleState, HandleInv
        <4>3. state[g].child # None =>
                /\ process'[state[g].child] = process[state[g].child]
                /\ Afoot(state[g].child)' <=> Afoot(state[g].child)
          BY <2>2, <4>1, <4>2 DEF Afoot
        <4>4. state[g].client # None => state[g].child # None
          BY <3>1 DEF HandleInv
        <4> QED
          BY <1>4, <3>1, <4>1, <4>3, <4>4 DEF HandleInv
      <3> QED
        BY <3>2, <3>3
    <2>8. ASSUME NEW c \in Calls
          PROVE  CallInv(c)'
      <3>1. CallInv(c)
        BY DEF IInv
      <3>2. Stopping(c) => call[c].process \in Processes \ {x}
        BY <2>4, <3>1 DEF CallInv
      <3>3. Stopping(c) => process[call[c].process].owner \in Handles
        BY <3>1 DEF IInv, CallInv, ProcessInv, Afoot
      <3> QED
        BY <1>4, <2>2, <2>3, <2>5, <3>1, <3>2, <3>3 DEF CallInv
    <2>9. version' # 0 /\ (handle' # None => state'[handle'].entry # 0)
      BY <1>2, <1>4, <2>1, <2>3
    <2> QED
      BY <1>5, <2>6, <2>7, <2>8, <2>9 DEF IInv
  <1> QED
    <2>1. SUFFICES ASSUME /\ state[h].wanted
                          /\ \E p \in Processes : \E q, s :
                               /\ process[p].at = "unborn"
                               /\ process' = [process EXCEPT ![p] = s]
                               /\ Runs(s, "booting", h, TRUE, FALSE)
                               /\ state' = [state EXCEPT ![h] = q]
                               /\ Held(q, state[h].entry, state[h].wanted, p, state[h].client,
                                       "shaking")
                   PROVE  IInv'
      BY <1>6, SpawnEffect DEF IInv
    <2> QED
      BY <1>7, <2>1

(* The child of the start becomes the handle's client.                     *)
LEMMA HandShakeInv ==
  ASSUME IInv, NEW h \in Handles, HandShake(h)
  PROVE  IInv'
  <1>1. PICK x \in Processes : \E q, s :
          /\ Awaited(h, x)
          /\ process' = [process EXCEPT ![x] = s]
          /\ Runs(s, process[x].at, process[x].owner, FALSE, process[x].asked)
          /\ state' = [state EXCEPT ![h] = q]
          /\ Held(q, state[h].entry, state[h].wanted, state[h].child, x, "no")
    BY HandShakeEffect DEF IInv
  <1>0. PICK q, s :
          /\ process' = [process EXCEPT ![x] = s]
          /\ Runs(s, process[x].at, process[x].owner, FALSE, process[x].asked)
          /\ state' = [state EXCEPT ![h] = q]
          /\ Held(q, state[h].entry, state[h].wanted, state[h].child, x, "no")
    BY <1>1
  <1>2. /\ process[x].owner = h /\ process[x].awaited
        /\ ProcessInv(x) /\ HandleInv(h)
    BY <1>1 DEF Awaited, IInv
  <1>3. Afoot(x) /\ state[h].start = "shaking" /\ state[h].child = x /\ state[h].entry # 0
    BY <1>2 DEF ProcessInv, HandleInv
  <1>4. /\ TypeOK' /\ handle' = handle /\ version' = version
        /\ \A c \in Calls : (Stopping(c)' <=> Stopping(c)) /\ call'[c].process = call[c].process
    BY HandShakeEffect DEF HandShake, Stopping, IInv
  <1>5. /\ \A p \in Processes : /\ process'[p].at = process[p].at
                                /\ process'[p].owner = process[p].owner
                                /\ process'[p].asked = process[p].asked
                                /\ p # x => process'[p].awaited = process[p].awaited
        /\ process'[x].awaited = FALSE
    BY <1>0 DEF IInv, TypeOK, Runs
  <1>6. /\ state'[h].entry = state[h].entry /\ state'[h].wanted = state[h].wanted
        /\ state'[h].child = x /\ state'[h].client = x /\ state'[h].start = "no"
        /\ \A g \in Handles \ {h} : state'[g] = state[g]
    BY <1>0, <1>3 DEF IInv, TypeOK, Held
  <1>7. \A p \in Processes : Afoot(p)' <=> Afoot(p)
    BY <1>5 DEF Afoot
  <1>8. ASSUME NEW p \in Processes
        PROVE  ProcessInv(p)'
    <2>1. ProcessInv(p)
      BY DEF IInv
    <2>2. p # x /\ process[p].awaited => process[p].owner \in Handles \ {h}
      BY <1>3, <2>1 DEF ProcessInv, Afoot
    <2>3. Afoot(p) => process[p].owner \in Handles
      BY <2>1 DEF ProcessInv, Afoot
    <2>4. Afoot(p) /\ process[p].owner # handle =>
            \E c \in Calls : Stopping(c)' /\ call'[c].process = p
      BY <1>4, <2>1 DEF ProcessInv
    <2> QED
      BY <1>3, <1>4, <1>5, <1>6, <1>7, <2>1, <2>2, <2>3, <2>4 DEF ProcessInv
  <1>9. ASSUME NEW g \in Handles
        PROVE  HandleInv(g)'
    <2>1. HandleInv(g)
      BY DEF IInv
    <2>2. CASE g = h
      <3>1. process'[x].owner = h /\ process'[x].at # "unborn" /\ Afoot(x)'
        BY <1>2, <1>3, <1>5, <1>7 DEF Afoot
      <3>2. Afoot(state[g].child)'
        BY <1>3, <1>6, <2>2, <3>1 DEF Afoot
      <3> QED
        BY <1>3, <1>4, <1>6, <2>1, <2>2, <3>1, <3>2 DEF HandleInv
    <2>3. CASE g # h
      <3>1. state'[g] = state[g]
        BY <1>6, <2>3
      <3>2. state[g].child # None => state[g].child \in Processes \ {x}
        BY <1>2, <2>1, <2>3 DEF IInv, TypeOK, HandleState, HandleInv
      <3>3. state[g].child # None =>
              /\ process'[state[g].child].awaited = process[state[g].child].awaited
              /\ process'[state[g].child].owner = process[state[g].child].owner
              /\ process'[state[g].child].at = process[state[g].child].at
              /\ Afoot(state[g].child)' <=> Afoot(state[g].child)
        BY <1>5, <3>1, <3>2 DEF Afoot
      <3>4. state[g].client # None => state[g].child # None
        BY <2>1 DEF HandleInv
      <3> QED
        BY <1>4, <2>1, <3>1, <3>3, <3>4 DEF HandleInv
    <2> QED
      BY <2>2, <2>3
  <1>10. ASSUME NEW c \in Calls
         PROVE  CallInv(c)'
    <2>1. CallInv(c)
      BY DEF IInv
    <2>2. Stopping(c) => process[call[c].process].owner \in Handles
      BY <2>1 DEF IInv, CallInv, ProcessInv, Afoot
    <2> QED
      BY <1>4, <1>5, <1>6, <1>7, <2>1, <2>2 DEF CallInv
  <1>11. version' # 0 /\ (handle' # None => state'[handle'].entry # 0)
    <2>1. handle # None => handle \in Handles /\ state[handle].entry # 0
      BY DEF IInv, TypeOK
    <2> QED
      BY <1>4, <1>6, <2>1 DEF IInv
  <1> QED
    BY <1>4, <1>8, <1>9, <1>10, <1>11 DEF IInv

(* The core is told of an exit: every stop of the process is over, and its *)
(* handle has no child afoot.                                              *)
LEMMA ExitInv ==
  ASSUME IInv, NEW x \in Processes, Exit(x)
  PROVE  IInv'
  <1>1. process[x].at = "dead" /\ ProcessInv(x) /\ Afoot(x)
    BY DEF Exit, IInv, Afoot
  <1> DEFINE h == process[x].owner
  <1>2. h \in Handles /\ state[h].child = x /\ HandleInv(h)
    BY <1>1 DEF ProcessInv, IInv
  <1>3. PICK s : /\ process' = [process EXCEPT ![x] = s]
                 /\ Runs(s, "reaped", h, FALSE, process[x].asked)
    BY <1>2, ExitEffect DEF IInv
  <1>4. PICK q : /\ state' = [state EXCEPT ![h] = q]
                 /\ \E child \in {x, None} :
                      Held(q, state[h].entry, state[h].wanted, child, None,
                           IF process[x].awaited THEN "no" ELSE state[h].start)
    <2>1. \E q : /\ state' = [state EXCEPT ![h] = q]
                 /\ \E child \in {state[h].child, None} :
                      Held(q, state[h].entry, state[h].wanted, child, None,
                           IF process[x].awaited THEN "no" ELSE state[h].start)
      BY <1>2, ExitEffect DEF IInv
    <2> HIDE DEF h
    <2> QED
      BY <1>2, <2>1
  <1>5. h = process[x].owner
    OBVIOUS
  <1>6. \A c \in Calls :
          /\ Stopping(c)' <=> Stopping(c) /\ call[c].process # x
          /\ Stopping(c)' => call'[c] = call[c]
    BY DEF Exit, Stopping, CallOver
  <1>7. TypeOK' /\ handle' = handle /\ version' # 0
    <2> DEFINE kinds == {call[c].kind : c \in {c \in Calls : Stopping(c) /\ call[c].process = x}}
    <2>1. version' = IF kinds \cap {"install", "reinstall"} # {} THEN version + 1 ELSE version
      BY DEF Exit, Redeclare
    <2>2. TypeOK' /\ handle' = handle
      BY ExitTyped DEF Exit, IInv
    <2> HIDE DEF kinds
    <2>3. version \in Nat /\ version # 0
      BY DEF IInv, TypeOK
    <2> QED
      BY <2>1, <2>2, <2>3
  <1> HIDE DEF h
  <1>8. /\ process'[x].at = "reaped" /\ process'[x].owner = h /\ process'[x].awaited = FALSE
        /\ \A p \in Processes \ {x} : process'[p] = process[p]
    BY <1>3 DEF IInv, TypeOK, Runs
  <1>9. /\ state'[h].entry = state[h].entry /\ state'[h].wanted = state[h].wanted
        /\ state'[h].child \in {x, None} /\ state'[h].client = None
        /\ state'[h].start = IF process[x].awaited THEN "no" ELSE state[h].start
        /\ \A g \in Handles \ {h} : state'[g] = state[g]
    <2>1. state'[h] = q /\ \A g \in Handles \ {h} : state'[g] = state[g]
      BY <1>2, <1>4 DEF IInv, TypeOK
    <2> QED
      BY <1>4, <2>1 DEF Held
  <1>10. state'[h].start # "shaking"
    BY <1>2, <1>9, SupervisorAssumption DEF HandleInv
  <1>11. \A p \in Processes \ {x} : Afoot(p)' <=> Afoot(p)
    BY <1>8 DEF Afoot
  <1>12. ~Afoot(x)'
    BY <1>8 DEF Afoot
  <1>13. ASSUME NEW p \in Processes
         PROVE  ProcessInv(p)'
    <2>1. ProcessInv(p)
      BY DEF IInv
    <2>2. CASE p = x
      BY <1>2, <1>8, <1>12, <2>2 DEF ProcessInv
    <2>3. CASE p # x
      <3>1. process[p].awaited => Afoot(p)
        BY <2>1 DEF ProcessInv
      <3>2. Afoot(p) => process[p].owner \in Handles \ {h}
        BY <1>2, <2>1, <2>3 DEF ProcessInv, Afoot
      <3>3. Afoot(p) /\ process[p].owner # handle =>
              \E c \in Calls : Stopping(c)' /\ call'[c].process = p
        BY <1>6, <2>1, <2>3 DEF ProcessInv
      <3> QED
        BY <1>7, <1>8, <1>9, <1>11, <2>1, <2>3, <3>1, <3>2, <3>3 DEF ProcessInv
    <2> QED
      BY <2>2, <2>3
  <1>14. ASSUME NEW g \in Handles
         PROVE  HandleInv(g)'
    <2>1. HandleInv(g)
      BY DEF IInv
    <2>2. CASE g = h
      <3>1. state'[g].child # None => state'[g].child = x
        BY <1>9, <2>2
      <3>2. state[g].entry # 0
        BY <1>1, <1>2, <2>2, SupervisorAssumption DEF HandleInv
      <3>3. g # handle' => ~state'[g].wanted
        BY <1>7, <1>9, <2>1, <2>2 DEF HandleInv
      <3> QED
        BY <1>8, <1>9, <1>10, <2>2, <3>1, <3>2, <3>3 DEF HandleInv
    <2>3. CASE g # h
      <3>1. state'[g] = state[g]
        BY <1>9, <2>3
      <3>2. state[g].child # None => state[g].child \in Processes \ {x}
        BY <1>5, <2>1, <2>3 DEF IInv, TypeOK, HandleState, HandleInv
      <3>3. state[g].child # None =>
              /\ process'[state[g].child] = process[state[g].child]
              /\ Afoot(state[g].child)' <=> Afoot(state[g].child)
        BY <1>8, <3>1, <3>2 DEF Afoot
      <3>4. state[g].client # None => state[g].child # None
        BY <2>1 DEF HandleInv
      <3> QED
        BY <1>7, <2>1, <3>1, <3>3, <3>4 DEF HandleInv
    <2> QED
      BY <2>2, <2>3
  <1>15. ASSUME NEW c \in Calls
         PROVE  CallInv(c)'
    <2>1. CallInv(c)
      BY DEF IInv
    <2>2. Stopping(c)' => process[call[c].process].owner \in Handles
                          /\ call[c].process \in Processes \ {x}
      BY <1>6, <2>1 DEF IInv, CallInv, ProcessInv, Afoot
    <2> QED
      BY <1>6, <1>8, <1>9, <1>11, <2>1, <2>2 DEF CallInv
  <1>16. handle' # None => state'[handle'].entry # 0
    <2>1. handle # None => handle \in Handles /\ state[handle].entry # 0
      BY DEF IInv, TypeOK
    <2> QED
      BY <1>7, <1>9, <2>1
  <1> QED
    BY <1>7, <1>13, <1>14, <1>15, <1>16 DEF IInv

-----------------------------------------------------------------------------
(* The theorems.                                                           *)

(* A worker that prints its line in time, and the right one, is never      *)
(* given up on: the one way there is for a process to lose its supervisor. *)
LEMMA NeverGivenUp ==
  ASSUME "slow" \notin Faults, "stranger" \notin Faults, NEW h \in Handles
  PROVE  ~GiveUp(h)
  BY DEF GiveUp

LEMMA InitInv ==
  ASSUME Init
  PROVE  IInv
  <1>1. TypeOK
    BY InitTyped
  <1>2. \A p \in Processes : process[p].at = "unborn" /\ process[p].awaited = FALSE
                             /\ process[p].asked = FALSE
    BY DEF Init, Unborn
  <1>3. \A h \in Handles : /\ state[h].entry = 0 /\ state[h].wanted = FALSE
                           /\ state[h].child = None /\ state[h].client = None
                           /\ state[h].start = "no"
    BY DEF Init, Fresh
  <1>4. \A c \in Calls : ~Stopping(c)
    BY DEF Init, Stopping
  <1>5. \A p \in Processes : ProcessInv(p)
    BY <1>2 DEF ProcessInv, Afoot
  <1>6. \A h \in Handles : HandleInv(h)
    BY <1>3 DEF HandleInv
  <1>7. \A c \in Calls : CallInv(c)
    BY <1>4 DEF CallInv
  <1> QED
    BY <1>1, <1>5, <1>6, <1>7 DEF IInv, Init

LEMMA NextInv ==
  ASSUME "slow" \notin Faults, "stranger" \notin Faults, IInv, [Next]_vars
  PROVE  IInv'
  <1>1. CASE UNCHANGED vars
    <2>1. /\ declared' = declared /\ version' = version /\ handle' = handle /\ state' = state
          /\ process' = process /\ caller' = caller /\ call' = call /\ reported' = reported
          /\ closing' = closing
      BY <1>1 DEF vars
    <2>2. TypeOK'
      BY <1>1, NextTyped DEF IInv
    <2>3. \A h \in Handles : Held(state'[h], state[h].entry, state[h].wanted, state[h].child,
                                  state[h].client, state[h].start)
      BY <2>1 DEF IInv, TypeOK, Held
    <2>4. \A c \in Calls : (Stopping(c)' <=> Stopping(c)) /\ call'[c].process = call[c].process
      BY <2>1 DEF Stopping
    <2> QED
      BY <2>1, <2>2, <2>3, <2>4, NothingMoves
  <1>2. CASE LongTime
    BY <1>2, LongTimeInv
  <1>3. ASSUME NEW c \in Callers, Client(c)
        PROVE  IInv'
    BY <1>3, ClientInv
  <1>4. ASSUME NEW h \in Handles, Spawn(h) \/ HandShake(h) \/ GiveUp(h)
        PROVE  IInv'
    BY <1>4, SpawnInv, HandShakeInv, NeverGivenUp
  <1>5. ASSUME NEW p \in Processes, Announce(p) \/ Dies(p) \/ Exit(p)
        PROVE  IInv'
    BY <1>5, AnnounceInv, DiesInv, ExitInv
  <1>6. ASSUME NEW c \in Calls,
               Evict(c) \/ Forget(c) \/ StopAll(c) \/ AskedToTerminate(c) \/ Kill(c)
        PROVE  IInv'
    BY <1>6, EvictInv, ForgetInv, StopAllInv, AskedInv, KillInv
  <1> QED
    BY <1>1, <1>2, <1>3, <1>4, <1>5, <1>6 DEF Next

(* The core hears of a death in no other step.                             *)
LEMMA OnlyExitReaps ==
  ASSUME TypeOK, [Next]_vars, NEW p \in Processes,
         process[p].at = "dead", process'[p].at = "reaped"
  PROVE  Exit(p)
  <1>1. CASE UNCHANGED vars
    BY <1>1 DEF vars
  <1>2. CASE LongTime
    BY <1>2, LongTimeEffect DEF Runs
  <1>3. ASSUME NEW c \in Callers, Client(c)
        PROVE  FALSE
    BY <1>3 DEF Client
  <1>4. ASSUME NEW h \in Handles, Spawn(h)
        PROVE  FALSE
    <2> DEFINE s == [Unborn EXCEPT !.at = "booting", !.owner = h, !.awaited = TRUE]
    <2>1. s.at = "booting"
      BY DEF Unborn
    <2>2. process' = process \/ \E x \in Processes : process' = [process EXCEPT ![x] = s]
      BY <1>4 DEF Spawn
    <2> HIDE DEF s
    <2> QED
      BY <2>1, <2>2 DEF TypeOK
  <1>5. ASSUME NEW h \in Handles, HandShake(h) \/ GiveUp(h)
        PROVE  FALSE
    <2>1. \E x \in Processes : process' = [process EXCEPT ![x].awaited = FALSE]
      BY <1>5 DEF HandShake, GiveUp
    <2>2. process[p] \in Process
      BY DEF TypeOK
    <2> QED
      BY <2>1, <2>2 DEF TypeOK, Process
  <1>6. ASSUME NEW x \in Processes, Announce(x) \/ Dies(x)
        PROVE  FALSE
    <2>1. \E s : process' = [process EXCEPT ![x] = s] /\ s.at \in {"up", "dead"}
      BY <1>6, AnnounceEffect, DiesEffect DEF Steps, Runs
    <2> QED
      BY <2>1 DEF TypeOK
  <1>7. ASSUME NEW x \in Processes, Exit(x)
        PROVE  Exit(p)
    <2>1. process'[p] = process[p] \/ x = p
      BY <1>7 DEF Exit, TypeOK
    <2> QED
      BY <1>7, <2>1
  <1>8. ASSUME NEW x, process' = [process EXCEPT ![x] = ToldToLeave(x)]
        PROVE  FALSE
    <2>1. CASE x = p
      <3>1. \E at \in {process[p].at, "leaving"} : Steps(p, at, TRUE)
        BY <1>8, <2>1, ToldEffect
      <3>2. \E at \in {process[p].at, "leaving"} : \E s :
              process' = [process EXCEPT ![p] = s] /\ s.at = at
        BY <3>1 DEF Steps, Runs
      <3> QED
        BY <3>2 DEF TypeOK
    <2>2. CASE x # p
      BY <1>8, <2>2 DEF TypeOK
    <2> QED
      BY <2>1, <2>2
  <1>9. ASSUME NEW c \in Calls, Evict(c) \/ Forget(c) \/ StopAll(c) \/ AskedToTerminate(c)
        PROVE  FALSE
    <2>1. \/ process' = process
          \/ \E x : process' = [process EXCEPT ![x] = ToldToLeave(x)]
      BY <1>9 DEF Evict, Forget, StopAll, AskedToTerminate, Stop
    <2> QED
      BY <1>8, <2>1
  <1>10. ASSUME NEW c \in Calls, Kill(c)
         PROVE  FALSE
    <2>1. \E x \in Processes : \E s : process' = [process EXCEPT ![x] = s] /\ s.at = "dead"
      BY <1>10, KillEffect DEF Steps, Runs, Alive
    <2> QED
      BY <2>1 DEF TypeOK
  <1> QED
    BY <1>1, <1>2, <1>3, <1>4, <1>5, <1>6, <1>7, <1>9, <1>10 DEF Next

(* Every variable keeps its type, whatever the workers do wrong.           *)
THEOREM SupervisorTypeCorrect == Spec => []TypeOK
  <1>1. Init => TypeOK
    BY InitTyped
  <1>2. TypeOK /\ [Next]_vars => TypeOK'
    BY NextTyped
  <1> QED
    BY <1>1, <1>2, PTL DEF Spec

(* Handles, their children, the starts and the stops agree, as long as a   *)
(* worker that prints a line prints the right one in time.                 *)
THEOREM SupervisorInvariance ==
  ASSUME "slow" \notin Faults, "stranger" \notin Faults
  PROVE  Spec => []IInv
  <1>1. Init => IInv
    BY InitInv
  <1>2. IInv /\ [Next]_vars => IInv'
    BY NextInv
  <1> QED
    BY <1>1, <1>2, PTL DEF Spec

(* No process is alive without a supervisor, however forgets, evictions,   *)
(* a shutdown, starts and crashes overlap (worker.handle.ts,               *)
(* worker.registry.ts).                                                    *)
THEOREM EveryProcessSupervised ==
  ASSUME "slow" \notin Faults, "stranger" \notin Faults
  PROVE  Spec => []Supervised
  <1>1. IInv => Supervised
    <2> SUFFICES ASSUME IInv, NEW p \in Alive
                 PROVE  /\ state[process[p].owner].child = p
                        /\ \/ process[p].owner = handle
                           \/ \E c \in Calls : Stopping(c) /\ call[c].process = p
      BY DEF Supervised
    <2>1. p \in Processes /\ ProcessInv(p) /\ Afoot(p)
      BY DEF IInv, Alive, Afoot
    <2> QED
      BY <2>1 DEF ProcessInv
  <1> QED
    BY <1>1, SupervisorInvariance, PTL

(* The exit of a process that was asked to leave is never counted as a     *)
(* crash, whoever asked for a client meanwhile (worker.handle.ts, stop).   *)
THEOREM StoppedIsNotCrashed ==
  ASSUME "slow" \notin Faults, "stranger" \notin Faults
  PROVE  Spec => StopIsNoCrash
  <1>1. IInv /\ [Next]_vars =>
          [\A p \in Processes :
             process[p].asked /\ process[p].at = "dead" /\ process'[p].at = "reaped" =>
             state'[process[p].owner].restarts = state[process[p].owner].restarts]_vars
    <2> SUFFICES ASSUME IInv, [Next]_vars, NEW p \in Processes,
                        process[p].asked, process[p].at = "dead", process'[p].at = "reaped"
                 PROVE  state'[process[p].owner].restarts = state[process[p].owner].restarts
      OBVIOUS
    <2>1. Exit(p)
      BY OnlyExitReaps DEF IInv
    <2>2. process[p].owner \in Handles /\ ~state[process[p].owner].wanted
      BY DEF IInv, ProcessInv, Afoot
    <2>3. state[process[p].owner] \in HandleState
      BY <2>2 DEF IInv, TypeOK
    <2> QED
      BY <2>1, <2>2, <2>3 DEF Exit, IInv, TypeOK, HandleState
  <1> QED
    BY <1>1, SupervisorInvariance, PTL DEF Spec, StopIsNoCrash

-----------------------------------------------------------------------------
(* A core that is stopped.                                                 *)

Kind(c, kind) == Stopping(c) /\ call[c].kind = kind

(* There is one shutdown.  Until it, an eviction under way is that of the  *)
(* registry's handle; after it there is no such handle, and what is afoot  *)
(* is what the shutdown itself is stopping.                                *)
ClosingInv ==
  /\ \A c \in Calls : Stopping(c) => call[c].kind # "none"
  /\ \A c, d \in Calls : call[c].kind = "shutdown" /\ call[d].kind = "shutdown" => c = d
  /\ ~closing =>
       \A c \in Calls : /\ call[c].kind # "shutdown"
                        /\ Kind(c, "evict") => process[call[c].process].owner = handle
  /\ closing =>
       /\ handle = None
       /\ \A p \in Processes :
            Afoot(p) => \E c \in Calls : Kind(c, "shutdown") /\ call[c].process = p

(* The invariant holds of every step that begins no stop, bears no process *)
(* once the core is closing, and ends stops only of what has exited.       *)
LEMMA ClosingKept ==
  ASSUME IInv, ClosingInv, closing' = closing,
         handle' = handle \/ (~closing /\ handle = None),
         \A c \in Calls :
           /\ call'[c].kind = call[c].kind
           /\ Stopping(c)' => Stopping(c) /\ call'[c].process = call[c].process
           /\ Stopping(c) => \/ Stopping(c)' /\ call'[c].process = call[c].process
                             \/ process'[call[c].process].at = "reaped",
         \A p \in Processes :
           /\ closing /\ Afoot(p)' => Afoot(p)
           /\ Afoot(p) => process'[p].owner = process[p].owner
  PROVE  ClosingInv'
  <1>1. ASSUME closing'
        PROVE  /\ handle' = None
               /\ \A p \in Processes :
                    Afoot(p)' => \E c \in Calls : Kind(c, "shutdown")' /\ call'[c].process = p
    <2>1. handle' = None /\ closing
      BY <1>1 DEF ClosingInv
    <2>2. ASSUME NEW p \in Processes, Afoot(p)'
          PROVE  \E c \in Calls : Kind(c, "shutdown")' /\ call'[c].process = p
      <3>1. PICK c \in Calls : Kind(c, "shutdown") /\ call[c].process = p
        BY <2>1, <2>2 DEF ClosingInv
      <3>2. process'[p].at # "reaped"
        BY <2>2 DEF Afoot
      <3> QED
        BY <3>1, <3>2 DEF Kind
    <2> QED
      BY <2>1, <2>2
  <1>2. ASSUME ~closing', NEW c \in Calls, Kind(c, "evict")'
        PROVE  process'[call'[c].process].owner = handle'
    <2>1. Stopping(c) /\ Kind(c, "evict") /\ call'[c].process = call[c].process
      BY <1>2 DEF Kind
    <2>2. /\ call[c].process \in Processes /\ Afoot(call[c].process)
          /\ process[call[c].process].owner = handle
      BY <1>2, <2>1 DEF IInv, CallInv, ClosingInv
    <2>3. process[call[c].process].owner \in Handles
      BY <2>2 DEF IInv, ProcessInv, Afoot
    <2>4. handle # None
      BY <2>2, <2>3, SupervisorAssumption
    <2> QED
      BY <2>1, <2>2, <2>4
  <1>3. \A c \in Calls : Stopping(c)' => call'[c].kind # "none"
    BY DEF ClosingInv
  <1>4. /\ \A c, d \in Calls : call'[c].kind = "shutdown" /\ call'[d].kind = "shutdown" => c = d
        /\ ~closing' => \A c \in Calls : call'[c].kind # "shutdown"
    BY DEF ClosingInv
  <1> QED
    BY <1>1, <1>2, <1>3, <1>4 DEF ClosingInv

(* Who changes no call, and whose processes stay what they are.            *)
LEMMA ClosingFramed ==
  ASSUME IInv, ClosingInv, closing' = closing, call' = call,
         handle' = handle \/ (~closing /\ handle = None),
         \A p \in Processes :
           /\ closing /\ Afoot(p)' => Afoot(p)
           /\ Afoot(p) => process'[p].owner = process[p].owner
  PROVE  ClosingInv'
  <1>1. \A c \in Calls :
          /\ call'[c].kind = call[c].kind
          /\ Stopping(c)' => Stopping(c) /\ call'[c].process = call[c].process
          /\ Stopping(c) => \/ Stopping(c)' /\ call'[c].process = call[c].process
                            \/ process'[call[c].process].at = "reaped"
    BY DEF Stopping
  <1> QED
    BY <1>1, ClosingKept

(* What a step of one process leaves of the others, and of it.             *)
LEMMA StepsKeep ==
  ASSUME TypeOK, NEW p \in Processes, NEW at, NEW asked, Steps(p, at, asked), Afoot(p)
  PROVE  \A x \in Processes : /\ Afoot(x)' => Afoot(x)
                              /\ process'[x].owner = process[x].owner
  BY DEF Steps, Runs, TypeOK, Afoot

LEMMA ClosingSpawn ==
  ASSUME IInv, ClosingInv, NEW h \in Handles, Spawn(h)
  PROVE  ClosingInv'
  <1>1. /\ closing' = closing /\ call' = call /\ handle' = handle
    BY DEF Spawn
  <1>2. closing => ~state[h].wanted
    <2>1. HandleInv(h) /\ h # None
      BY SupervisorAssumption DEF IInv
    <2> QED
      BY <2>1 DEF ClosingInv, HandleInv
  <1>3. \/ process' = process
        \/ state[h].wanted /\ \E x \in Processes : \E s :
             process[x].at = "unborn" /\ process' = [process EXCEPT ![x] = s]
    BY DEF Spawn
  <1>4. \A p \in Processes : /\ closing /\ Afoot(p)' => Afoot(p)
                             /\ Afoot(p) => process'[p].owner = process[p].owner
    <2>1. CASE process' = process
      BY <2>1 DEF Afoot
    <2>2. CASE state[h].wanted /\ \E x \in Processes : \E s :
                 process[x].at = "unborn" /\ process' = [process EXCEPT ![x] = s]
      <3>1. PICK x \in Processes : \E s :
              process[x].at = "unborn" /\ process' = [process EXCEPT ![x] = s]
        BY <2>2
      <3>2. \A p \in Processes : Afoot(p) => process'[p] = process[p]
        BY <3>1 DEF Afoot, IInv, TypeOK
      <3> QED
        BY <1>2, <2>2, <3>2
    <2> QED
      BY <1>3, <2>1, <2>2
  <1> QED
    BY <1>1, <1>4, ClosingFramed

LEMMA ClosingExit ==
  ASSUME IInv, ClosingInv, NEW x \in Processes, Exit(x)
  PROVE  ClosingInv'
  <1>1. closing' = closing /\ handle' = handle
    BY DEF Exit
  <1>2. process[x].owner \in Handles
    BY DEF Exit, IInv, ProcessInv
  <1>3. PICK s : /\ process' = [process EXCEPT ![x] = s]
                 /\ Runs(s, "reaped", process[x].owner, FALSE, process[x].asked)
    BY <1>2, ExitEffect DEF IInv
  <1>4. \A p \in Processes : /\ Afoot(p)' => Afoot(p)
                             /\ process'[p].owner = process[p].owner
    BY <1>3 DEF Runs, Afoot, IInv, TypeOK
  <1>5. process'[x].at = "reaped"
    BY <1>3 DEF Runs, IInv, TypeOK
  <1>6. \A c \in Calls : call'[c] = IF Stopping(c) /\ call[c].process = x
                                    THEN CallOver(call[c].kind) ELSE call[c]
    BY DEF Exit
  <1>7. \A c \in Calls :
          /\ call'[c].kind = call[c].kind
          /\ Stopping(c)' => Stopping(c) /\ call'[c].process = call[c].process
          /\ Stopping(c) => \/ Stopping(c)' /\ call'[c].process = call[c].process
                            \/ process'[call[c].process].at = "reaped"
    <2> SUFFICES ASSUME NEW c \in Calls
                 PROVE  /\ call'[c].kind = call[c].kind
                        /\ Stopping(c)' => Stopping(c) /\ call'[c].process = call[c].process
                        /\ Stopping(c) => \/ Stopping(c)' /\ call'[c].process = call[c].process
                                          \/ process'[call[c].process].at = "reaped"
      OBVIOUS
    <2>1. CASE Stopping(c) /\ call[c].process = x
      <3>1. call'[c] = CallOver(call[c].kind)
        BY <1>6, <2>1
      <3>2. call'[c].kind = call[c].kind /\ call'[c].pc = "done"
        BY <3>1 DEF CallOver
      <3>3. ~Stopping(c)'
        BY <3>2 DEF Stopping
      <3> QED
        BY <1>5, <2>1, <3>2, <3>3
    <2>2. CASE ~(Stopping(c) /\ call[c].process = x)
      <3>1. call'[c] = call[c]
        BY <1>6, <2>2
      <3> QED
        BY <3>1 DEF Stopping
    <2> QED
      BY <2>1, <2>2
  <1> QED
    BY <1>1, <1>4, <1>7, ClosingKept

LEMMA StopKind ==
  ASSUME TypeOK, NEW c \in Calls, NEW kind \in CallKinds, NEW h, NEW held, Stop(c, kind, h, held)
  PROVE  /\ call'[c].kind = kind
         /\ \A d \in Calls \ {c} : call'[d] = call[d]
  BY DEF Stop, TypeOK, CallOver

(* Among the calls that change a process's steps only, a call keeps its    *)
(* kind and the process it stops.                                          *)
LEMMA ClosingAsked ==
  ASSUME IInv, ClosingInv, NEW c \in Calls, AskedToTerminate(c)
  PROVE  ClosingInv'
  <1> DEFINE x == call[c].process
  <1>1. x \in Processes /\ Afoot(x)
    BY DEF IInv, AskedToTerminate, CallInv, Stopping
  <1>2. \A d \in Calls : /\ call'[d].kind = call[d].kind /\ (Stopping(d)' <=> Stopping(d))
                         /\ call'[d].process = call[d].process
    BY DEF AskedToTerminate, Stopping, IInv, TypeOK, Call
  <1>3. process' = [process EXCEPT ![x] = ToldToLeave(x)]
    BY DEF AskedToTerminate
  <1>4. closing' = closing /\ handle' = handle
    BY DEF AskedToTerminate
  <1> HIDE DEF x
  <1>5. \A p \in Processes : /\ Afoot(p)' => Afoot(p)
                             /\ process'[p].owner = process[p].owner
    <2>1. PICK at : Steps(x, at, TRUE)
      BY <1>1, <1>3, ToldEffect DEF IInv
    <2> QED
      BY <1>1, <2>1, StepsKeep DEF IInv
  <1> QED
    BY <1>2, <1>4, <1>5, ClosingKept

LEMMA ClosingEvict ==
  ASSUME IInv, IInv', ClosingInv, NEW c \in Calls, Evict(c)
  PROVE  ClosingInv'
  <1>1. PICK h \in Handles : HandleOf(h) /\ Stop(c, "evict", h, Handled(h)) /\ handle' = h
    BY DEF Evict
  <1>2. "evict" \in CallKinds /\ ~closing /\ closing' = closing /\ Alone(Forgets \cup {"evict"})
    BY DEF Evict
  <1> DEFINE held == Handled(h)
  <1>3. held \in HandleState /\ Stop(c, "evict", h, held)
    BY <1>1, HandledSame
  <1> HIDE DEF held
  <1>4. call'[c].kind = "evict" /\ \A d \in Calls \ {c} : call'[d] = call[d]
    BY <1>2, <1>3, StopKind DEF IInv
  <1>5. ASSUME Stopping(c)'
        PROVE  process'[call'[c].process].owner = handle'
    <2>1. StopsChild(c, h, held)
      BY <1>2, <1>3, <1>5, StopEffect DEF IInv, StopsNothing, Stopping
    <2>2. PICK q : /\ state' = [state EXCEPT ![h] = q]
                   /\ Held(q, held.entry, FALSE, held.child, held.client, held.start)
      BY <2>1 DEF StopsChild
    <2>3. state'[h].child = held.child /\ held.child \in Processes
      BY <2>1, <2>2 DEF StopsChild, Held, IInv, TypeOK
    <2>4. process'[held.child].owner = h
      BY <2>3, SupervisorAssumption DEF IInv, HandleInv
    <2> QED
      BY <1>1, <2>1, <2>4 DEF StopsChild
  <1>6. \A d \in Calls \ {c} : ~Kind(d, "evict")' /\ (Stopping(d)' => Stopping(d))
    BY <1>2, <1>4 DEF Kind, Stopping, Alone
  <1>7. \A d \in Calls : Stopping(d)' => call'[d].kind # "none"
    BY <1>4, <1>6 DEF ClosingInv
  <1>8. \A d \in Calls : call'[d].kind # "shutdown"
    BY <1>2, <1>4 DEF ClosingInv
  <1> QED
    BY <1>2, <1>5, <1>6, <1>7, <1>8 DEF ClosingInv, Kind

LEMMA ClosingForget ==
  ASSUME IInv, ClosingInv, NEW c \in Calls, Forget(c)
  PROVE  ClosingInv'
  <1>1. ~closing /\ closing' = closing /\ Alone(Forgets \cup {"evict"})
    BY DEF Forget
  <1>2. PICK kind \in CallKinds \cap Forgets :
          \/ handle # None /\ Stop(c, kind, handle, state[handle])
          \/ call' = [call EXCEPT ![c] = CallOver(kind)]
    BY DEF Forget
  <1>3. call'[c].kind = kind /\ \A d \in Calls \ {c} : call'[d] = call[d]
    <2>1. CASE handle # None /\ Stop(c, kind, handle, state[handle])
      BY <2>1, StopKind DEF IInv
    <2>2. CASE call' = [call EXCEPT ![c] = CallOver(kind)]
      BY <2>2 DEF CallOver, IInv, TypeOK
    <2> QED
      BY <1>2, <2>1, <2>2
  <1>4. kind \notin {"none", "evict", "shutdown"}
    BY <1>2 DEF Forgets
  <1>5. \A d \in Calls \ {c} : ~Kind(d, "evict")' /\ (Stopping(d)' => Stopping(d))
    BY <1>1, <1>3 DEF Kind, Stopping, Alone
  <1>6. \A d \in Calls : ~Kind(d, "evict")'
    BY <1>3, <1>4, <1>5 DEF Kind
  <1>7. \A d \in Calls : Stopping(d)' => call'[d].kind # "none"
    BY <1>3, <1>4, <1>5 DEF ClosingInv
  <1>8. \A d \in Calls : call'[d].kind # "shutdown"
    BY <1>1, <1>3, <1>4 DEF ClosingInv
  <1> QED
    BY <1>1, <1>6, <1>7, <1>8 DEF ClosingInv

(* What is afoot as the core is stopped is the child of the registry's     *)
(* handle: the forgets are over, and an eviction leaves the handle there.  *)
LEMMA ClosingStopAll ==
  ASSUME IInv, IInv', ClosingInv, NEW c \in Calls, StopAll(c)
  PROVE  ClosingInv'
  <1>1. /\ ~closing /\ closing' = TRUE /\ handle' = None /\ Alone(Forgets)
        /\ "shutdown" \in CallKinds /\ call[c].pc = "idle"
    BY DEF StopAll
  <1>2. call'[c].kind = "shutdown" /\ \A d \in Calls \ {c} : call'[d] = call[d]
    <2>1. CASE handle # None /\ Stop(c, "shutdown", handle, state[handle])
      BY <1>1, <2>1, StopKind DEF IInv
    <2>2. CASE call' = [call EXCEPT ![c] = CallOver("shutdown")]
      BY <2>2 DEF CallOver, IInv, TypeOK
    <2> QED
      BY <2>1, <2>2 DEF StopAll
  <1>3. \A d \in Calls \ {c} : call'[d].kind # "shutdown" /\ (Stopping(d)' => Stopping(d))
    BY <1>1, <1>2 DEF ClosingInv, Stopping
  <1>4. \A d \in Calls : Stopping(d)' => call'[d].kind # "none"
    BY <1>2, <1>3 DEF ClosingInv
  <1>5. ASSUME NEW p \in Processes, Afoot(p)'
        PROVE  Kind(c, "shutdown")' /\ call'[c].process = p
    <2>1. PICK d \in Calls : Stopping(d)' /\ call'[d].process = p
      <3>1. process'[p].owner \in Handles
        BY <1>5 DEF IInv, ProcessInv, Afoot
      <3>2. process'[p].owner # handle'
        BY <1>1, <3>1, SupervisorAssumption
      <3> QED
        BY <1>5, <3>2 DEF IInv, ProcessInv
    <2>2. CASE d = c
      BY <1>2, <2>1, <2>2 DEF Kind
    <2>3. CASE d # c
      <3>1. Stopping(d) /\ call[d].process = p
        BY <1>2, <1>3, <2>1, <2>3
      <3>2. call[d].kind = "evict"
        <4>1. call[d].kind \in CallKinds \cup {"none"} /\ call[d].kind # "none"
              /\ call[d].kind # "shutdown"
          BY <1>1, <3>1 DEF ClosingInv, IInv, TypeOK, Call
        <4>2. call[d].kind \notin Forgets
          BY <1>1, <3>1 DEF Alone
        <4> QED
          BY <4>1, <4>2, SupervisorAssumption DEF Forgets
      <3>3. process[p].owner = handle /\ Afoot(p) /\ handle \in Handles
        BY <1>1, <3>1, <3>2 DEF ClosingInv, Kind, IInv, CallInv, ProcessInv, Afoot
      <3>4. state[handle].child = p
        BY <3>3 DEF IInv, ProcessInv
      <3>5. ~Gone(state[handle])
        BY <3>3, <3>4, SupervisorAssumption DEF Gone, Exited, Afoot
      <3>6. Stop(c, "shutdown", handle, state[handle])
        BY <3>3, SupervisorAssumption DEF StopAll
      <3>7. state[handle] \in HandleState
        BY <3>3 DEF IInv, TypeOK
      <3>8. StopsChild(c, handle, state[handle])
        BY <1>1, <3>3, <3>5, <3>6, <3>7, StopEffect DEF IInv, StopsNothing
      <3> QED
        BY <1>2, <3>4, <3>8 DEF StopsChild, Kind, Stopping
    <2> QED
      BY <2>2, <2>3
  <1>6. \A x, y \in Calls : call'[x].kind = "shutdown" /\ call'[y].kind = "shutdown" => x = y
    BY <1>3
  <1> QED
    BY <1>1, <1>4, <1>5, <1>6 DEF ClosingInv

LEMMA ClosingNext ==
  ASSUME "slow" \notin Faults, "stranger" \notin Faults, IInv, ClosingInv, [Next]_vars
  PROVE  ClosingInv'
  <1>0. IInv' /\ TypeOK
    BY NextInv DEF IInv
  <1>1. CASE UNCHANGED vars
    <2>1. closing' = closing /\ call' = call /\ handle' = handle /\ process' = process
      BY <1>1 DEF vars
    <2>2. \A p \in Processes : (Afoot(p)' => Afoot(p)) /\ process'[p].owner = process[p].owner
      BY <2>1 DEF Afoot
    <2> QED
      BY <2>1, <2>2, ClosingFramed
  <1>2. CASE LongTime
    <2>1. closing' = closing /\ call' = call /\ handle' = handle
      BY <1>2 DEF LongTime
    <2>2. \A p \in Processes : (Afoot(p)' => Afoot(p)) /\ process'[p].owner = process[p].owner
      BY <1>0, <1>2, LongTimeEffect DEF Runs, Afoot
    <2> QED
      BY <2>1, <2>2, ClosingFramed
  <1>3. ASSUME NEW c \in Callers, Client(c)
        PROVE  ClosingInv'
    <2>1. closing' = closing /\ ~closing /\ call' = call /\ process' = process
          /\ (handle' = handle \/ handle = None)
      BY <1>3 DEF Client, HandleOf
    <2>2. \A p \in Processes : (Afoot(p)' => Afoot(p)) /\ process'[p].owner = process[p].owner
      BY <2>1 DEF Afoot
    <2> QED
      BY <2>1, <2>2, ClosingFramed
  <1>4. ASSUME NEW h \in Handles, HandShake(h)
        PROVE  ClosingInv'
    <2>1. closing' = closing /\ call' = call /\ handle' = handle
      BY <1>4 DEF HandShake
    <2>2. PICK x \in Processes : process' = [process EXCEPT ![x].awaited = FALSE]
      BY <1>4 DEF HandShake
    <2>3. \A p \in Processes : process[p] \in Process
      BY <1>0 DEF TypeOK
    <2>4. \A p \in Processes : (Afoot(p)' => Afoot(p)) /\ process'[p].owner = process[p].owner
      BY <1>0, <2>2, <2>3 DEF TypeOK, Process, Afoot
    <2> QED
      BY <2>1, <2>4, ClosingFramed
  <1>5. ASSUME NEW x \in Processes, NEW at, NEW asked, Steps(x, at, asked), Afoot(x),
               closing' = closing, call' = call, handle' = handle
        PROVE  ClosingInv'
    BY <1>0, <1>5, StepsKeep, ClosingFramed
  <1>6. ASSUME NEW p \in Processes, Announce(p) \/ Dies(p)
        PROVE  ClosingInv'
    <2>1. Afoot(p) /\ closing' = closing /\ call' = call /\ handle' = handle
      BY <1>6 DEF Announce, Dies, Afoot
    <2>2. Steps(p, "up", process[p].asked) \/ Steps(p, "dead", process[p].asked)
      BY <1>0, <1>6, AnnounceEffect, DiesEffect
    <2> QED
      BY <1>5, <2>1, <2>2
  <1>7. ASSUME NEW c \in Calls, Kill(c)
        PROVE  ClosingInv'
    <2>1. /\ call[c].process \in Processes /\ Afoot(call[c].process)
          /\ Steps(call[c].process, "dead", TRUE)
      BY <1>0, <1>7, KillEffect DEF Alive, Afoot
    <2>2. closing' = closing /\ call' = call /\ handle' = handle
      BY <1>7 DEF Kill
    <2> QED
      BY <1>5, <2>1, <2>2
  <1> QED
    BY <1>0, <1>1, <1>2, <1>3, <1>4, <1>6, <1>7, ClosingSpawn, ClosingExit, ClosingAsked,
       ClosingEvict, ClosingForget, ClosingStopAll, NeverGivenUp DEF Next

(* "A core stops what it spawned" (docs/protocol.md:114) holds of one      *)
(* whose workers print the right line in time: what a start gave up on is  *)
(* all that a stopped core can leave behind.                               *)
THEOREM StoppedCore ==
  ASSUME "slow" \notin Faults, "stranger" \notin Faults
  PROVE  Spec => []StoppedCoreLeavesNothing
  <1>1. Init => IInv /\ ClosingInv
    <2> SUFFICES ASSUME Init
                 PROVE  ClosingInv
      BY InitInv
    <2>1. closing = FALSE /\ \A c \in Calls : call[c].pc = "idle" /\ call[c].kind = "none"
      BY DEF Init
    <2> QED
      BY <2>1 DEF ClosingInv, Kind, Stopping
  <1>2. IInv /\ ClosingInv /\ [Next]_vars => (IInv /\ ClosingInv)'
    BY NextInv, ClosingNext
  <1>3. IInv /\ ClosingInv => StoppedCoreLeavesNothing
    <2> SUFFICES ASSUME IInv, ClosingInv, NEW c \in Calls, call[c].kind = "shutdown",
                        call[c].pc = "done", NEW p \in Alive
                 PROVE  FALSE
      BY DEF StoppedCoreLeavesNothing
    <2>1. p \in Processes /\ Afoot(p)
      BY DEF Alive, Afoot
    <2>2. PICK d \in Calls : Kind(d, "shutdown")
      BY <2>1 DEF ClosingInv
    <2>3. d = c
      BY <2>2 DEF ClosingInv, Kind
    <2> QED
      BY <2>2, <2>3 DEF Kind, Stopping
  <1> QED
    BY <1>1, <1>2, <1>3, PTL DEF Spec

=============================================================================
