----------------------------- MODULE EngineInstall -----------------------------
(***************************************************************************)
(* Installing, reinstalling and removing engines: the queue of jobs, the    *)
(* two slots a virtualenv can live in, the registry that says which one an *)
(* engine runs from, and the database that says which one it boots from    *)
(* (packages/core/src/install/engine.installer.ts, install.jobs.ts,        *)
(* registry/managed.engines.ts).                                           *)
(*                                                                         *)
(* A directory is removed or built over a while, so each of these is two   *)
(* actions, and the core may die between them.                             *)
(***************************************************************************)
EXTENDS Naturals, Sequences

CONSTANTS
  Engines,      \* catalogued engines, none of them in the operator's file
  MaxCalls,     \* jobs submitted and uninstalls asked for: bounds the run
  MaxRestarts,  \* times the core goes down: bounds the run
  Faults        \* what goes wrong in this instance

ASSUME InstallAssumption ==
  /\ MaxCalls \in Nat /\ MaxRestarts \in Nat
  /\ Faults \subseteq {"command", "database", "overlap"}

VARIABLES
  up,         \* the core runs
  entry,      \* EngineRegistry.entries: the slot each engine runs from
  record,     \* the state database: the slot each engine boots from
  disk,       \* what is in each slot of each engine
  job,        \* the job of each engine that has not finished
  queue,      \* InstallJobs.queue: the job that runs, then those that wait
  uninstall,  \* the uninstall of each engine that has not finished
  stopping,   \* InstallJobs.stopping
  kept,       \* engines an uninstall removed, and could not delete from the database
  calls, restarts

vars == <<up, entry, record, disk, job, queue, uninstall, stopping, kept, calls, restarts>>

Slots == {"primary", "alternate"}

(* An entry may also be absent, or name no virtualenv. *)
Venv == Slots \cup {"absent", "bare"}

Kinds == {"install", "reinstall", "pull", "warm"}

Job ==
  [pc : {"none", "queued", "clearing", "emptying", "building", "swapping", "stopping",
         "dropping", "undoing", "fetching"},
   kind : Kinds \cup {"none"}, slot : Slots, old : Venv]
NoJob == [pc |-> "none", kind |-> "none", slot |-> "primary", old |-> "absent"]

Uninstall == [pc : {"none", "locking", "stopping", "forgetting", "deleting"}, todo : Seq(Slots)]
NoUninstall == [pc |-> "none", todo |-> <<>>]

(* Mutant: a job that waits is not looked for. *)
BusyRunning(e) == job[e].pc \notin {"none", "queued"}

(* refuseIfBusy: a job for this engine is queued or running. *)
Busy(e) == job[e].pc # "none"

(* Somebody holds the transition lock to take an engine out of residency. *)
Locked ==
  \E e \in Engines :
    \/ uninstall[e].pc = "stopping"
    \/ job[e].pc = "stopping" /\ job[e].kind = "reinstall"

(* rm has begun on a slot: what was there is no longer whole. *)
Going(d, e, slot) == [d EXCEPT ![e][slot] = IF @ = "empty" THEN @ ELSE "partial"]

(* Mutant: a reinstall builds where the engine runs from. *)
SameSlot(venv) == IF venv = "alternate" THEN "alternate" ELSE "primary"

(* rebuild: the slot the engine does not run from. *)
OtherSlot(venv) == IF venv = "primary" THEN "alternate" ELSE "primary"

(* Both slots, the one the engine runs from first. *)
SlotsOf(venv) ==
  IF venv = "alternate" THEN <<"alternate", "primary">> ELSE <<"primary", "alternate">>

----------------------------------------------------------------------------
Init ==
  /\ up = TRUE
  /\ record \in [Engines -> {"absent", "primary"}] /\ entry = record
  /\ disk = [e \in Engines |-> [s \in Slots |-> IF s = record[e] THEN "built" ELSE "empty"]]
  /\ job = [e \in Engines |-> NoJob] /\ queue = <<>>
  /\ uninstall = [e \in Engines |-> NoUninstall]
  /\ stopping = FALSE /\ kept = {} /\ calls = 0 /\ restarts = 0

----------------------------------------------------------------------------
(* Jobs.  They run one at a time, in the order they were asked for. *)

(* install, reinstall, pull and warmOne, up to the queue.  Without the fault, nobody asks *)
(* while an uninstall of the same engine is under way: the code does not look.            *)
Submit(e) ==
  /\ up /\ ~stopping /\ ~Busy(e) /\ calls < MaxCalls
  /\ uninstall[e] = NoUninstall \/ "overlap" \in Faults
  /\ \E kind \in Kinds :
       /\ kind = "install" <=> entry[e] = "absent"
       /\ kind = "reinstall" => record[e] # "absent"
       /\ job' = [job EXCEPT ![e] = [NoJob EXCEPT !.pc = "queued", !.kind = kind]]
  /\ queue' = Append(queue, e) /\ calls' = calls + 1
  /\ UNCHANGED <<up, entry, record, disk, uninstall, stopping, kept, restarts>>

(* Mutant: a job that fails keeps its place in the queue. *)
NeverOver(e) == job' = [job EXCEPT ![e] = NoJob] /\ UNCHANGED queue

(* The job ends, well or not, and the next one may run. *)
JobOver(e) == job' = [job EXCEPT ![e] = NoJob] /\ queue' = Tail(queue)

GoesTo(e, pc) == job' = [job EXCEPT ![e].pc = pc] /\ UNCHANGED queue

(* execute, and the work up to its first await. *)
Begin(e) ==
  /\ job[e].pc = "queued" /\ Head(queue) = e
  /\ CASE stopping -> JobOver(e) /\ UNCHANGED disk
       [] ~stopping /\ job[e].kind = "install" ->
            GoesTo(e, "clearing") /\ disk' = Going(disk, e, "alternate")
       [] ~stopping /\ job[e].kind = "reinstall" ->
            LET next == OtherSlot(entry[e]) IN
            /\ job' = [job EXCEPT ![e] = [@ EXCEPT !.pc = "emptying", !.slot = next,
                                                   !.old = entry[e]]]
            /\ disk' = Going(disk, e, next) /\ UNCHANGED queue
       [] OTHER -> GoesTo(e, "fetching") /\ UNCHANGED disk
  /\ UNCHANGED <<up, entry, record, uninstall, stopping, kept, calls, restarts>>

(* run: the other slot is empty, and build begins on this one. *)
Cleared(e) ==
  /\ job[e].pc = "clearing"
  /\ disk' = Going([disk EXCEPT ![e]["alternate"] = "empty"], e, "primary")
  /\ GoesTo(e, "emptying")
  /\ UNCHANGED <<up, entry, record, uninstall, stopping, kept, calls, restarts>>

(* Mutant: an install is recorded before it is built. *)
RecordedFirst(e) ==
  /\ job[e].pc = "emptying"
  /\ disk' = [disk EXCEPT ![e][job[e].slot] = "partial"]
  /\ record' = IF job[e].kind = "install" THEN [record EXCEPT ![e] = job[e].slot] ELSE record
  /\ GoesTo(e, "building")
  /\ UNCHANGED <<up, entry, uninstall, stopping, kept, calls, restarts>>

(* build: what was there is gone, and the first command runs. *)
Emptied(e) ==
  /\ job[e].pc = "emptying"
  /\ disk' = [disk EXCEPT ![e][job[e].slot] = "partial"]
  /\ GoesTo(e, "building")
  /\ UNCHANGED <<up, entry, record, uninstall, stopping, kept, calls, restarts>>

(* A command fails, is killed because the core stops, or finds its directory gone.  What it *)
(* has built stays where it is.                                                             *)
BuildFails(e) ==
  /\ job[e].pc = "building"
  /\ stopping \/ disk[e][job[e].slot] = "empty" \/ "command" \in Faults
  /\ JobOver(e)
  /\ UNCHANGED <<up, entry, record, disk, uninstall, stopping, kept, calls, restarts>>

(* The slot that was built is the one to boot from. *)
Records(e) == record' = [record EXCEPT ![e] = job[e].slot]

(* The engine imports.  An install is recorded, and its worker, if there is one, stopped; a *)
(* reinstall waits for the lock, and for the engine to stop speaking.                       *)
Built(e) ==
  /\ job[e].pc = "building" /\ disk[e][job[e].slot] = "partial"
  /\ disk' = [disk EXCEPT ![e][job[e].slot] = "built"]
  /\ \/ /\ job[e].kind = "install"
        /\ Records(e) /\ GoesTo(e, "stopping")
     \/ /\ job[e].kind = "install" /\ "database" \in Faults
        /\ JobOver(e) /\ UNCHANGED record
     \/ /\ job[e].kind = "reinstall"
        /\ GoesTo(e, "swapping") /\ UNCHANGED record
  /\ UNCHANGED <<up, entry, uninstall, stopping, kept, calls, restarts>>

(* Mutant: the core asks to boot from the new slot before it knows that it may swap. *)
SwapGoesOn(e) ==
  /\ job[e].pc = "swapping"
  /\ \/ ~Locked /\ Records(e) /\ GoesTo(e, "stopping")
     \/ Records(e) /\ UNCHANGED <<job, queue>>
  /\ UNCHANGED <<up, entry, disk, uninstall, stopping, kept, calls, restarts>>

(* replace has the lock and nobody speaks: the database first. *)
Swap(e) ==
  /\ job[e].pc = "swapping" /\ ~Locked
  /\ \/ Records(e) /\ GoesTo(e, "stopping")
     \/ "database" \in Faults /\ JobOver(e) /\ UNCHANGED record
  /\ UNCHANGED <<up, entry, disk, uninstall, stopping, kept, calls, restarts>>

(* It still spoke when replace gave up: the slot just built is removed again. *)
GiveUp(e) ==
  /\ job[e].pc = "swapping"
  /\ disk' = Going(disk, e, job[e].slot) /\ GoesTo(e, "undoing")
  /\ UNCHANGED <<up, entry, record, uninstall, stopping, kept, calls, restarts>>

Undone(e) ==
  /\ job[e].pc = "undoing"
  /\ disk' = [disk EXCEPT ![e][job[e].slot] = "empty"]
  /\ JobOver(e)
  /\ UNCHANGED <<up, entry, record, uninstall, stopping, kept, calls, restarts>>

(* An install asked for weights, or a reinstall of what was warmed, goes on; others end. *)
GoesOn(e) == GoesTo(e, "fetching") \/ JobOver(e)

(* The old worker has left: the engine is declared with the slot that was built, and the *)
(* slot it ran from is deleted.                                                          *)
Declare(e) ==
  /\ job[e].pc = "stopping"
  /\ entry' = [entry EXCEPT ![e] = job[e].slot]
  /\ IF job[e].old \in Slots
     THEN disk' = Going(disk, e, job[e].old) /\ GoesTo(e, "dropping")
     ELSE GoesOn(e) /\ UNCHANGED disk
  /\ kept' = kept \ {e}
  /\ UNCHANGED <<up, record, uninstall, stopping, calls, restarts>>

Dropped(e) ==
  /\ job[e].pc = "dropping"
  /\ disk' = [disk EXCEPT ![e][job[e].old] = "empty"]
  /\ GoesOn(e)
  /\ UNCHANGED <<up, entry, record, uninstall, stopping, kept, calls, restarts>>

(* The weights are there, or not, and what compiles is warm: an install says so in its *)
(* record, if it has one or not.                                                       *)
Fetched(e) ==
  /\ job[e].pc = "fetching"
  /\ \/ UNCHANGED record
     \/ /\ job[e].kind = "install"
        /\ record' = [record EXCEPT ![e] = IF @ = "absent" THEN "bare" ELSE @]
  /\ JobOver(e)
  /\ UNCHANGED <<up, entry, disk, uninstall, stopping, kept, calls, restarts>>

----------------------------------------------------------------------------
(* uninstall, which is no job: what it refuses, it refuses before it waits. *)
AskUninstall(e) ==
  /\ up /\ uninstall[e] = NoUninstall /\ ~Busy(e) /\ calls < MaxCalls
  /\ entry[e] # "absent" /\ record[e] # "absent"
  /\ uninstall' = [uninstall EXCEPT ![e] = [pc |-> "locking", todo |-> SlotsOf(entry[e])]]
  /\ calls' = calls + 1
  /\ UNCHANGED <<up, entry, record, disk, job, queue, stopping, kept, restarts>>

(* forget has the lock: refused because the engine speaks, or its worker is being stopped. *)
UninstallBegins(e) ==
  /\ uninstall[e].pc = "locking" /\ ~Locked
  /\ \/ uninstall' = [uninstall EXCEPT ![e] = NoUninstall]
     \/ uninstall' = [uninstall EXCEPT ![e].pc = "stopping"]
  /\ UNCHANGED <<up, entry, record, disk, job, queue, stopping, kept, calls, restarts>>

UninstallRemoves(e) ==
  /\ uninstall[e].pc = "stopping"
  /\ entry' = [entry EXCEPT ![e] = "absent"]
  /\ uninstall' = [uninstall EXCEPT ![e].pc = "forgetting"]
  /\ UNCHANGED <<up, record, disk, job, queue, stopping, kept, calls, restarts>>

(* The slots that are left are deleted, one after the other. *)
Deletes(e, d, todo) ==
  IF todo = <<>>
  THEN disk' = d /\ uninstall' = [uninstall EXCEPT ![e] = NoUninstall]
  ELSE /\ disk' = Going(d, e, Head(todo))
       /\ uninstall' = [uninstall EXCEPT ![e] = [pc |-> "deleting", todo |-> todo]]

(* Mutant: the virtualenv goes while the database still names it. *)
ForgetsLast(e) ==
  /\ uninstall[e].pc = "forgetting"
  /\ Deletes(e, disk, uninstall[e].todo)
  /\ UNCHANGED <<up, entry, record, job, queue, stopping, kept, calls, restarts>>

UninstallForgets(e) ==
  /\ uninstall[e].pc = "forgetting"
  /\ \/ /\ record' = [record EXCEPT ![e] = "absent"] /\ kept' = kept \ {e}
        /\ Deletes(e, disk, uninstall[e].todo)
     \/ /\ "database" \in Faults /\ kept' = kept \cup {e}
        /\ uninstall' = [uninstall EXCEPT ![e] = NoUninstall] /\ UNCHANGED <<record, disk>>
  /\ UNCHANGED <<up, entry, job, queue, stopping, calls, restarts>>

UninstallDeleted(e) ==
  /\ uninstall[e].pc = "deleting"
  /\ LET todo == uninstall[e].todo IN
     Deletes(e, [disk EXCEPT ![e][Head(todo)] = "empty"], Tail(todo))
  /\ UNCHANGED <<up, entry, record, job, queue, stopping, kept, calls, restarts>>

----------------------------------------------------------------------------
(* stop: no more jobs, and the one that runs is interrupted if it runs a command. *)
Stop ==
  /\ up /\ ~stopping /\ restarts < MaxRestarts
  /\ stopping' = TRUE
  /\ UNCHANGED <<up, entry, record, disk, job, queue, uninstall, kept, calls, restarts>>

(* Everything in memory is forgotten. *)
Down ==
  /\ up' = FALSE /\ restarts' = restarts + 1
  /\ entry' = [e \in Engines |-> "absent"]
  /\ job' = [e \in Engines |-> NoJob] /\ queue' = <<>>
  /\ uninstall' = [e \in Engines |-> NoUninstall] /\ stopping' = FALSE
  /\ UNCHANGED <<record, disk, kept, calls>>

Crash == up /\ restarts < MaxRestarts /\ Down

(* The queue is empty, and the requests are answered. *)
Exit == stopping /\ queue = <<>> /\ (\A e \in Engines : uninstall[e] = NoUninstall) /\ Down

(* loadSettings and buildRegistry: each engine recorded is declared. *)
Boot ==
  /\ ~up /\ up' = TRUE
  /\ entry' = record
  /\ UNCHANGED <<record, disk, job, queue, uninstall, stopping, kept, calls, restarts>>

----------------------------------------------------------------------------
Works(e) ==
  \/ Begin(e) \/ Cleared(e) \/ Emptied(e) \/ Built(e) \/ BuildFails(e) \/ Swap(e) \/ GiveUp(e)
  \/ Undone(e) \/ Declare(e) \/ Dropped(e) \/ Fetched(e)

Removes(e) ==
  UninstallBegins(e) \/ UninstallRemoves(e) \/ UninstallForgets(e) \/ UninstallDeleted(e)

Next ==
  \/ \E e \in Engines : Submit(e) \/ Works(e) \/ AskUninstall(e) \/ Removes(e)
  \/ Stop \/ Crash \/ Exit \/ Boot

(* A job and an uninstall go on: commands end, replace gives up, a worker is killed. *)
Fairness == WF_vars(Exit) /\ \A e \in Engines : WF_vars(Works(e)) /\ WF_vars(Removes(e))

Spec == Init /\ [][Next]_vars /\ Fairness

----------------------------------------------------------------------------
(* Every variable has its type, and the queue holds each job that has not finished, once. *)
TypeOK ==
  /\ up \in BOOLEAN /\ stopping \in BOOLEAN
  /\ entry \in [Engines -> Venv] /\ record \in [Engines -> Venv]
  /\ disk \in [Engines -> [Slots -> {"empty", "partial", "built"}]]
  /\ job \in [Engines -> Job] /\ queue \in Seq(Engines)
  /\ {queue[i] : i \in DOMAIN queue} = {e \in Engines : job[e].pc # "none"}
  /\ \A i, j \in DOMAIN queue : queue[i] = queue[j] => i = j
  /\ uninstall \in [Engines -> Uninstall] /\ kept \subseteq Engines
  /\ calls \in 0..MaxCalls /\ restarts \in 0..MaxRestarts

(* The virtualenv an engine runs from is whole: no job builds over it, no reinstall that *)
(* fails and no uninstall deletes it while the engine is still declared.                 *)
EngineIntact ==
  \A e \in Engines \ kept : entry[e] \in Slots => disk[e][entry[e]] = "built"

(* A core that dies at any moment boots every engine it has on a virtualenv that is whole. *)
(* Not so the engine whose record would not be deleted: another install clears its slot.   *)
BootsIntact ==
  \A e \in Engines \ kept : record[e] \in Slots => disk[e][record[e]] = "built"

(* A reinstall changes nothing until it swaps, whatever else is asked for meanwhile: the *)
(* engine runs, and would boot, from where it did.                                       *)
KeepsWorking ==
  \A e \in Engines :
    job[e].kind = "reinstall" /\ job[e].pc \in {"emptying", "building", "swapping", "undoing"} =>
      entry[e] = job[e].old /\ record[e] = job[e].old

(* A core that is told to stop gets to, with jobs queued and running. *)
StopEnds == stopping ~> ~up

(* "A reinstall removes whatever is in the other slot ..., builds there, and verifies there, *)
(* so the interpreter it imports the engine with is the one the core will spawn"             *)
(* (docs/protocol.md:1747-1749): an engine is declared with what was verified, and not with  *)
(* what has been deleted since.                                                              *)
DeclaresWhatItVerified ==
  [][\A e \in Engines : entry'[e] # entry[e] /\ entry'[e] \in Slots /\ up =>
       disk'[e][entry'[e]] = "built"]_vars
=============================================================================
