--------------------------- MODULE WorkerSupervisor ---------------------------
(***************************************************************************)
(* The supervisor of one engine's worker: the registry's handle, the child *)
(* process it spawns, and the client that speaks to it                     *)
(* (packages/core/src/workers/worker.handle.ts, worker.registry.ts).       *)
(*                                                                         *)
(* A handle is built from the engine's entry and outlives its place in the *)
(* registry's Map while its process drains, so there may be several.  A    *)
(* process may be dead before the core hears of it.                        *)
(***************************************************************************)
EXTENDS Integers

CONSTANTS
  Callers,      \* callers of WorkerRegistry.client: one call of it each
  Calls,        \* evictions, uninstalls, installs, reinstalls and shutdowns, one each
  Handles,      \* handles ever built: bounds the run
  Processes,    \* processes ever spawned: bounds the run
  None,         \* no handle, no process
  MaxRestarts,  \* workers.maxRestarts
  CallKinds,    \* the calls of this instance
  Faults        \* what the processes of this instance do wrong

ASSUME SupervisorAssumption ==
  /\ None \notin Handles \cup Processes
  /\ MaxRestarts \in Nat \ {0}
  /\ CallKinds \subseteq {"evict", "uninstall", "install", "reinstall", "shutdown"}
  /\ Faults \subseteq {"crash", "nospawn", "slow", "stranger"}

VARIABLES
  declared,  \* the registry knows the engine
  version,   \* which entry of the engine it was last declared with
  handle,    \* WorkerRegistry.handles: the engine's handle
  state,     \* what each handle holds
  process,   \* the processes, as the operating system has them (external)
  caller,    \* every call of client(id)
  call,      \* every call that stops the worker
  reported,  \* EngineRegistry.observe: the process state it reports
  closing    \* stopAll has been called: the core is going down

vars == <<declared, version, handle, state, process, caller, call, reported, closing>>

HandleState ==
  [entry : Nat, wanted : BOOLEAN, child : Processes \cup {None},
   client : Processes \cup {None}, start : {"no", "allocating", "shaking"},
   restarts : Nat, since : {"never", "lately", "long"}]
Process ==
  [at : {"unborn", "booting", "up", "leaving", "dead", "reaped"},
   owner : Handles \cup {None}, awaited : BOOLEAN, said : BOOLEAN, stable : BOOLEAN,
   asked : BOOLEAN]
Caller == [pc : {"idle", "waiting", "served", "failed"}, handle : Handles \cup {None}]
Call == [pc : {"idle", "asking", "exiting", "done"}, kind : CallKinds \cup {"none"},
         handle : Handles \cup {None}, process : Processes \cup {None}]

(* A handle as its constructor leaves it; entry 0 is one that was never built. *)
Fresh(entry) ==
  [entry |-> entry, wanted |-> FALSE, child |-> None, client |-> None, start |-> "no",
   restarts |-> 0, since |-> "never"]
Unborn == [at |-> "unborn", owner |-> None, awaited |-> FALSE, said |-> FALSE,
           stable |-> FALSE, asked |-> FALSE]

Alive == {p \in Processes : process[p].at \in {"booting", "up", "leaving"}}
Stopping(c) == call[c].pc \in {"asking", "exiting"}

CallOver(kind) == [pc |-> "done", kind |-> kind, handle |-> None, process |-> None]

(* The core has been told of the exit: exitCode or signalCode is set. *)
Exited == {p \in Processes : process[p].at = "reaped"}

(* Mutant: a child that is gone already is waited for, and its exit never comes again. *)
NeverSpawned(held) == held.child = None

(* stop finds no child to signal. *)
Gone(held) == held.child \in {None} \cup Exited

(* registry.handle: the engine's handle, built on demand from the entry declared now. *)
HandleOf(h) ==
  \/ h = handle
  \/ handle = None /\ declared /\ state[h].entry = 0
Handled(h) == IF state[h].entry = 0 THEN Fresh(version) ELSE state[h]

(* Everyone waiting on the start in flight is told how it ended. *)
Settled(h, how) ==
  [c \in Callers |-> IF caller[c] = [pc |-> "waiting", handle |-> h]
                     THEN [pc |-> how, handle |-> None] ELSE caller[c]]

----------------------------------------------------------------------------
Init ==
  /\ declared = TRUE /\ version = 1
  /\ handle = None
  /\ state = [h \in Handles |-> Fresh(0)]
  /\ process = [p \in Processes |-> Unborn]
  /\ caller = [c \in Callers |-> [pc |-> "idle", handle |-> None]]
  /\ call = [c \in Calls |-> [pc |-> "idle", kind |-> "none", handle |-> None, process |-> None]]
  /\ reported = "down"
  /\ closing = FALSE

(* More than restartDecaySeconds go by. *)
LongTime ==
  /\ \E h \in Handles : state[h].since = "lately"
  /\ state' = [h \in Handles |-> [state[h] EXCEPT !.since = IF @ = "lately" THEN "long" ELSE @]]
  /\ process' = [p \in Processes |->
       [process[p] EXCEPT !.stable = @ \/ \E h \in Handles : state[h].client = p]]
  /\ UNCHANGED <<declared, version, handle, caller, call, reported, closing>>

----------------------------------------------------------------------------
Answer(c, pc, h) == caller' = [caller EXCEPT ![c] = [pc |-> pc, handle |-> h]]

(* ensureUp hands out the client it has. *)
IsUp(held) == held.client # None /\ ~Gone(held)

(* ensureUp begins a start: none is in flight, and the circuit is closed. *)
MayStart(held) == held.start = "no" /\ held.restarts < MaxRestarts

(* Mutant: a client handed out marks the worker as wanted. *)
EnsureUpWanted(c, h, held) ==
  \/ /\ IsUp(held)
     /\ Answer(c, "served", None)
     /\ state' = [state EXCEPT ![h] = [held EXCEPT !.wanted = TRUE]]
     /\ UNCHANGED reported
  \/ /\ ~IsUp(held) /\ MayStart(held)
     /\ Answer(c, "waiting", h)
     /\ state' = [state EXCEPT ![h] = [held EXCEPT !.wanted = TRUE, !.start = "allocating"]]
     /\ reported' = "starting"

(* ensureUp, and start up to its first await. *)
EnsureUp(c, h, held) ==
  \/ /\ IsUp(held)
     /\ Answer(c, "served", None)
     /\ state' = [state EXCEPT ![h] = held]
     /\ UNCHANGED reported
  \/ /\ ~IsUp(held) /\ MayStart(held)
     /\ Answer(c, "waiting", h)
     /\ state' = [state EXCEPT ![h] = [held EXCEPT !.wanted = TRUE, !.start = "allocating"]]
     /\ reported' = "starting"
  \/ /\ ~IsUp(held) /\ ~MayStart(held)
     /\ IF held.start = "no" THEN Answer(c, "failed", None) ELSE Answer(c, "waiting", h)
     /\ state' = [state EXCEPT ![h] = held]
     /\ UNCHANGED reported

(* client(id). *)
Client(c) ==
  /\ caller[c].pc = "idle" /\ declared /\ ~closing
  /\ \E h \in Handles : HandleOf(h) /\ EnsureUp(c, h, Handled(h)) /\ handle' = h
  /\ UNCHANGED <<declared, version, process, call, closing>>

(* Mutant: no second look at wanted once the socket is allocated. *)
SpawnUnwanted(h) ==
  /\ state[h].start = "allocating"
  /\ \E p \in Processes :
       /\ process[p].at = "unborn"
       /\ process' = [process EXCEPT ![p] = [Unborn EXCEPT !.at = "booting", !.owner = h,
                                                           !.awaited = TRUE]]
       /\ state' = [state EXCEPT ![h].child = p, ![h].start = "shaking"]
  /\ UNCHANGED <<declared, version, handle, caller, call, reported, closing>>

(* Mutant: a start that was stopped is dropped, and nobody is told. *)
SpawnInSilence(h) ==
  \/ state[h].wanted /\ SpawnUnwanted(h)
  \/ /\ state[h].start = "allocating" /\ ~state[h].wanted
     /\ state' = [state EXCEPT ![h].start = "no"]
     /\ UNCHANGED <<declared, version, handle, process, caller, call, reported, closing>>

(* start, from its socket to the handshake.  A command that cannot run emits an error, *)
(* never exits, and leaves a child that counts as exited.                              *)
Spawn(h) ==
  /\ state[h].start = "allocating"
  /\ \/ /\ ~state[h].wanted
        /\ state' = [state EXCEPT ![h].start = "no"]
        /\ caller' = Settled(h, "failed")
        /\ UNCHANGED process
     \/ /\ state[h].wanted /\ "nospawn" \in Faults
        /\ state' = [state EXCEPT ![h].start = "no", ![h].child = None]
        /\ caller' = Settled(h, "failed")
        /\ UNCHANGED process
     \/ /\ state[h].wanted
        /\ \E p \in Processes :
             /\ process[p].at = "unborn"
             /\ process' = [process EXCEPT ![p] = [Unborn EXCEPT !.at = "booting", !.owner = h,
                                                                 !.awaited = TRUE]]
             /\ state' = [state EXCEPT ![h].child = p, ![h].start = "shaking"]
        /\ UNCHANGED caller
  /\ UNCHANGED <<declared, version, handle, call, reported, closing>>

(* The worker prints its one line. *)
Announce(p) ==
  /\ process[p].at = "booting"
  /\ process' = [process EXCEPT ![p].at = "up", ![p].said = TRUE]
  /\ UNCHANGED <<declared, version, handle, state, caller, call, reported, closing>>

(* The process the start in flight is waiting for. *)
Awaited(h, p) == process[p].owner = h /\ process[p].awaited

(* The line is right; the process may be on its way out already. *)
HandShake(h) ==
  /\ \E p \in Processes :
       /\ Awaited(h, p) /\ process[p].said
       /\ process' = [process EXCEPT ![p].awaited = FALSE]
       /\ state' = [state EXCEPT ![h].client = p, ![h].start = "no", ![h].since = "lately"]
  /\ caller' = Settled(h, "served")
  /\ reported' = "up"
  /\ UNCHANGED <<declared, version, handle, call, closing>>

(* No line in time; or one that is no handshake, speaks another contract or names *)
(* another engine.  The start fails, and the process runs on.                     *)
GiveUp(h) ==
  /\ \E p \in Processes :
       /\ Awaited(h, p)
       /\ IF process[p].said THEN "stranger" \in Faults ELSE "slow" \in Faults
       /\ process' = [process EXCEPT ![p].awaited = FALSE]
  /\ state' = [state EXCEPT ![h].start = "no"]
  /\ caller' = Settled(h, "failed")
  /\ UNCHANGED <<declared, version, handle, call, reported, closing>>

----------------------------------------------------------------------------
(* A process dies: of its own, or having drained. *)
Dies(p) ==
  /\ \/ process[p].at = "leaving"
     \/ process[p].at \in {"booting", "up"} /\ "crash" \in Faults
  /\ process' = [process EXCEPT ![p].at = "dead"]
  /\ UNCHANGED <<declared, version, handle, state, caller, call, reported, closing>>

(* Mutant: the count decays by one. *)
CountedDown(held) == IF held.since = "long" THEN held.restarts - 1 ELSE held.restarts + 1

(* The count that an exit nobody asked for leaves behind. *)
Counted(held) == (IF held.since = "long" THEN 0 ELSE held.restarts) + 1

(* What an uninstall, an install or a reinstall does once forget is over: an entry *)
(* removed takes what was reported of the engine with it.                          *)
Redeclare(kinds, observed) ==
  /\ declared' = IF "uninstall" \in kinds THEN FALSE
                 ELSE declared \/ kinds \cap {"install", "reinstall"} # {}
  /\ version' = IF kinds \cap {"install", "reinstall"} # {} THEN version + 1 ELSE version
  /\ reported' = IF kinds \cap {"uninstall", "reinstall"} # {} THEN "down" ELSE observed

(* onExit, then every stop that awaited this exit, then what their callers do next. *)
Exit(p) ==
  LET h == process[p].owner
      held == state[h]
      stops == {c \in Calls : Stopping(c) /\ call[c].process = p}
      kinds == {call[c].kind : c \in stops}
      counted == Counted(held)
  IN
  /\ process[p].at = "dead"
  /\ process' = [process EXCEPT ![p].at = "reaped", ![p].awaited = FALSE]
  /\ state' = [state EXCEPT ![h] =
       [held EXCEPT !.client = None,
                    !.child = IF stops = {} THEN held.child ELSE None,
                    !.start = IF process[p].awaited THEN "no" ELSE held.start,
                    !.restarts = IF held.wanted THEN counted ELSE held.restarts]]
  /\ caller' = IF process[p].awaited THEN Settled(h, "failed") ELSE caller
  /\ call' = [c \in Calls |->
       IF c \in stops THEN CallOver(call[c].kind) ELSE call[c]]
  /\ Redeclare(kinds, IF held.wanted /\ counted >= MaxRestarts THEN "failed" ELSE "down")
  /\ UNCHANGED <<handle, closing>>

----------------------------------------------------------------------------
(* SIGTERM, or the terminate verb. *)
ToldToLeave(p) ==
  [process[p] EXCEPT !.at = IF @ \in {"booting", "up"} THEN "leaving" ELSE @, !.asked = TRUE]

(* A stop begun: its exit is no crash, and the client stays until the process is gone. *)
Unwanted(held) == [held EXCEPT !.wanted = FALSE]

(* stop, up to its first await.  An eviction asks over the socket if there is one. *)
Stop(c, kind, h, held) ==
  \/ /\ Gone(held)
     /\ state' = [state EXCEPT ![h] = [held EXCEPT !.wanted = FALSE, !.client = None]]
     /\ call' = [call EXCEPT ![c] = CallOver(kind)]
     /\ Redeclare({kind}, reported)
     /\ UNCHANGED process
  \/ /\ ~Gone(held)
     /\ state' = [state EXCEPT ![h] = Unwanted(held)]
     /\ LET asks == kind = "evict" /\ held.client # None IN
          /\ call' = [call EXCEPT ![c] =
               [pc |-> IF asks THEN "asking" ELSE "exiting", kind |-> kind, handle |-> h,
                process |-> held.child]]
          /\ process' = IF asks THEN process
                        ELSE [process EXCEPT ![held.child] = ToldToLeave(held.child)]
     /\ UNCHANGED <<declared, version, reported>>

(* What the transition lock and the job queue keep apart, and shutdown waits for. *)
Alone(kinds) == \A c \in Calls : Stopping(c) => call[c].kind \notin kinds
Forgets == {"uninstall", "install", "reinstall"}

(* An eviction, or an operator's terminate. *)
Evict(c) ==
  /\ call[c].pc = "idle" /\ ~closing /\ "evict" \in CallKinds
  /\ declared /\ Alone(Forgets \cup {"evict"})
  /\ \E h \in Handles : HandleOf(h) /\ Stop(c, "evict", h, Handled(h)) /\ handle' = h
  /\ UNCHANGED <<caller, closing>>

(* forget: out of the Map, then stopped, then removed or declared anew. *)
Forget(c) ==
  /\ call[c].pc = "idle" /\ ~closing
  /\ Alone(Forgets \cup {"evict"})
  /\ \E kind \in CallKinds \cap Forgets :
       /\ declared <=> kind # "install"
       /\ \/ handle # None /\ Stop(c, kind, handle, state[handle])
          \/ /\ handle = None
             /\ call' = [call EXCEPT ![c] = CallOver(kind)]
             /\ Redeclare({kind}, reported)
             /\ UNCHANGED <<state, process>>
  /\ handle' = None
  /\ UNCHANGED <<caller, closing>>

(* stopAll, once the install jobs are stopped. *)
StopAll(c) ==
  /\ call[c].pc = "idle" /\ ~closing /\ "shutdown" \in CallKinds
  /\ Alone(Forgets)
  /\ \/ handle # None /\ Stop(c, "shutdown", handle, state[handle])
     \/ /\ handle = None
        /\ call' = [call EXCEPT ![c] = CallOver("shutdown")]
        /\ UNCHANGED <<declared, version, state, process, reported>>
  /\ handle' = None /\ closing' = TRUE
  /\ UNCHANGED caller

(* The verb landed, or it did not and the worker is signalled. *)
AskedToTerminate(c) ==
  /\ call[c].pc = "asking"
  /\ process' = [process EXCEPT ![call[c].process] = ToldToLeave(call[c].process)]
  /\ call' = [call EXCEPT ![c].pc = "exiting"]
  /\ UNCHANGED <<declared, version, handle, state, caller, reported, closing>>

(* drainGraceMs is over. *)
Kill(c) ==
  /\ Stopping(c)
  /\ call[c].process \in Alive
  /\ process' = [process EXCEPT ![call[c].process].at = "dead", ![call[c].process].asked = TRUE]
  /\ UNCHANGED <<declared, version, handle, state, caller, call, reported, closing>>

----------------------------------------------------------------------------
Next ==
  \/ LongTime
  \/ \E c \in Callers : Client(c)
  \/ \E h \in Handles : Spawn(h) \/ HandShake(h) \/ GiveUp(h)
  \/ \E p \in Processes : Announce(p) \/ Dies(p) \/ Exit(p)
  \/ \E c \in Calls : Evict(c) \/ Forget(c) \/ StopAll(c) \/ AskedToTerminate(c) \/ Kill(c)

(* Promises continue, the startup and the drain timers fire, the terminate verb has a *)
(* timeout, and the core is told of an exit.  A worker owes nothing.                  *)
Fairness ==
  /\ \A h \in Handles : WF_vars(Spawn(h)) /\ WF_vars(HandShake(h) \/ GiveUp(h))
  /\ \A p \in Processes : WF_vars(Exit(p))
  /\ \A c \in Calls : WF_vars(AskedToTerminate(c)) /\ WF_vars(Kill(c))

Spec == Init /\ [][Next]_vars /\ Fairness

----------------------------------------------------------------------------
(* Every variable has its type. *)
TypeOK ==
  /\ declared \in BOOLEAN /\ version \in Nat
  /\ handle \in Handles \cup {None}
  /\ state \in [Handles -> HandleState]
  /\ process \in [Processes -> Process]
  /\ caller \in [Callers -> Caller]
  /\ call \in [Calls -> Call]
  /\ reported \in {"down", "starting", "up", "failed"}
  /\ closing \in BOOLEAN

(* No process without a supervisor: each one alive is the child of its handle, and *)
(* that handle is the registry's or is being stopped.  A stop that finds a start   *)
(* allocating its socket, and forgets that overlap a start, leave nothing behind.  *)
Supervised ==
  \A p \in Alive :
    LET h == process[p].owner
    IN /\ state[h].child = p
       /\ h = handle \/ \E c \in Calls : Stopping(c) /\ call[c].process = p

(* An exit that follows a SIGTERM or a /terminate is not held against the worker, *)
(* however it is timed and whoever asked for the client meanwhile.                *)
StopIsNoCrash ==
  [][\A p \in Processes :
       process[p].asked /\ process[p].at = "dead" /\ process'[p].at = "reaped" =>
       state'[process[p].owner].restarts = state[process[p].owner].restarts]_vars

(* Whoever asks for a client gets one or an error, whatever the process does. *)
CallerAnswered ==
  \A c \in Callers : caller[c].pc = "waiting" ~> caller[c].pc \in {"served", "failed"}

(* Every stop comes to its end, though the worker neither drains nor answers, and *)
(* though it was gone before: closing a core whose worker was SIGKILLed hung.      *)
StopEnds == \A c \in Calls : Stopping(c) ~> call[c].pc = "done"

(* "A core stops what it spawned however it is itself stopped" (docs/protocol.md:114): *)
(* once stopAll is over, no process is left.                                           *)
StoppedCoreLeavesNothing ==
  (\E c \in Calls : call[c].kind = "shutdown" /\ call[c].pc = "done") => Alive = {}

(* "The count decays only after a worker has been up continuously for               *)
(* `restartDecaySeconds`" (docs/operating.md:729): an exit of one that was not adds *)
(* to the count.                                                                    *)
DecayOnlyWhenStable ==
  [][\A p \in Processes :
       LET h == process[p].owner
       IN process[p].at = "dead" /\ process'[p].at = "reaped" /\ ~process[p].stable
            /\ state[h].wanted => state'[h].restarts = state[h].restarts + 1]_vars
=============================================================================
