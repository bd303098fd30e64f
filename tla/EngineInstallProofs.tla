-------------------------- MODULE EngineInstallProofs --------------------------
(***************************************************************************)
(* That installing never breaks an engine that works, for every set of     *)
(* engines, any number of calls and restarts, and commands and databases   *)
(* that fail when they like.                                               *)
(***************************************************************************)
EXTENDS EngineInstall, SequenceTheorems, TLAPS

-----------------------------------------------------------------------------
(* The inductive invariant.  First the queue, which needs no hypothesis.   *)

Line(q) == {q[i] : i \in DOMAIN q}
Once(q) == \A i, j \in DOMAIN q : q[i] = q[j] => i = j

(* The queue holds the jobs, once each, and only its head has begun.       *)
JobInv ==
  /\ job \in [Engines -> Job] /\ queue \in Seq(Engines)
  /\ Line(queue) = {e \in Engines : job[e].pc # "none"}
  /\ Once(queue)
  /\ \A e \in Engines : job[e].pc \notin {"none", "queued"} => queue # <<>> /\ Head(queue) = e

RestInv ==
  /\ up \in BOOLEAN /\ stopping \in BOOLEAN
  /\ entry \in [Engines -> Venv] /\ record \in [Engines -> Venv]
  /\ disk \in [Engines -> [Slots -> {"empty", "partial", "built"}]]
  /\ uninstall \in [Engines -> Uninstall] /\ kept \subseteq Engines
  /\ calls \in 0..MaxCalls /\ restarts \in 0..MaxRestarts
  /\ stopping => restarts < MaxRestarts
  /\ \A e \in Engines : uninstall[e].pc = "deleting" => uninstall[e].todo # <<>>

TypeInv == JobInv /\ RestInv

(* Then each engine, when nobody asks for a job of an engine that is being *)
(* uninstalled.  The job and the uninstall of an engine exclude each other, *)
(* and neither outlives the core.                                          *)
Alone(e) ==
  /\ uninstall[e] # NoUninstall => job[e].pc = "none"
  /\ ~up => job[e].pc = "none" /\ uninstall[e] = NoUninstall

(* What an engine runs from is what it would boot from, but between the    *)
(* two halves of a swap; what does not run is not recorded, but between    *)
(* those of an install or an uninstall, or if its record would not go.     *)
Agrees(e) ==
  /\ entry[e] # "absent" =>
       \/ entry[e] = record[e]
       \/ job[e].pc = "stopping" /\ job[e].kind = "reinstall"
  /\ up /\ entry[e] = "absent" /\ uninstall[e].pc # "forgetting" /\ job[e].pc # "stopping" =>
       record[e] = "absent" \/ e \in kept
  /\ uninstall[e].pc \in {"forgetting", "deleting"} => entry[e] = "absent"
  /\ uninstall[e].pc = "deleting" => record[e] = "absent"

(* How far an install has come, and a reinstall.                           *)
InstallStage(e) ==
  job[e].kind = "install" =>
    /\ job[e].pc \in {"none", "queued", "clearing", "emptying", "building", "stopping", "fetching"}
    /\ job[e].slot = "primary" /\ job[e].old = "absent"
    /\ job[e].pc \in {"queued", "clearing", "emptying", "building", "stopping"} =>
         entry[e] = "absent"
    /\ job[e].pc = "fetching" => entry[e] # "absent"

ReinstallStage(e) ==
  job[e].kind = "reinstall" =>
    /\ job[e].pc # "clearing"
    /\ job[e].pc = "queued" => entry[e] # "absent"
    /\ job[e].pc \in {"emptying", "building", "swapping", "undoing"} =>
         entry[e] = job[e].old /\ record[e] = job[e].old /\ entry[e] # "absent"
    /\ job[e].pc \in {"emptying", "building", "swapping", "undoing", "stopping", "dropping"} =>
         job[e].slot # job[e].old
    /\ job[e].pc = "dropping" => entry[e] = job[e].slot /\ job[e].old \in Slots

Stage(e) ==
  /\ InstallStage(e) /\ ReinstallStage(e)
  /\ job[e].pc \notin {"none", "queued", "fetching"} => job[e].kind \in {"install", "reinstall"}
  /\ job[e].pc \in {"swapping", "stopping"} => disk[e][job[e].slot] = "built"
  /\ job[e].pc = "stopping" => record[e] = job[e].slot

(* What an engine runs and boots from is whole.                            *)
Whole(e) ==
  e \notin kept =>
    /\ entry[e] \in Slots => disk[e][entry[e]] = "built"
    /\ record[e] \in Slots => disk[e][record[e]] = "built"

Sound(e) == Alone(e) /\ Agrees(e) /\ Stage(e) /\ Whole(e)

IInv == TypeInv /\ \A e \in Engines : Sound(e)

-----------------------------------------------------------------------------
(* The queue.                                                              *)

LEMMA LineLeaves ==
  ASSUME NEW q \in Seq(Engines), q # <<>>, Once(q)
  PROVE  /\ Tail(q) \in Seq(Engines) /\ Once(Tail(q))
         /\ Line(Tail(q)) = Line(q) \ {Head(q)}
  <1>1. /\ Tail(q) \in Seq(Engines) /\ Len(q) \in Nat /\ Len(q) # 0
        /\ Len(Tail(q)) = Len(q) - 1 /\ \A i \in 1..Len(Tail(q)) : Tail(q)[i] = q[i + 1]
    BY HeadTailProperties, EmptySeq
  <1>2. DOMAIN q = 1..Len(q) /\ DOMAIN Tail(q) = 1..(Len(q) - 1) /\ Head(q) = q[1]
    BY <1>1
  <1>3. Once(Tail(q))
    <2> SUFFICES ASSUME NEW i \in 1..(Len(q) - 1), NEW j \in 1..(Len(q) - 1),
                        Tail(q)[i] = Tail(q)[j]
                 PROVE  i = j
      BY <1>2 DEF Once
    <2>1. q[i + 1] = q[j + 1] /\ i + 1 \in DOMAIN q /\ j + 1 \in DOMAIN q
      BY <1>1, <1>2
    <2>2. i + 1 = j + 1
      BY <2>1 DEF Once
    <2> QED
      BY <2>2
  <1>4. ASSUME NEW x
        PROVE  x \in Line(Tail(q)) <=> x \in Line(q) \ {Head(q)}
    <2>1. ASSUME x \in Line(Tail(q))
          PROVE  x \in Line(q) \ {Head(q)}
      <3>1. PICK i \in DOMAIN Tail(q) : x = Tail(q)[i]
        BY <2>1 DEF Line
      <3>2. x = q[i + 1] /\ i + 1 \in DOMAIN q /\ 1 \in DOMAIN q /\ i + 1 # 1
        BY <1>1, <1>2, <3>1
      <3>3. q[i + 1] # q[1]
        BY <3>2 DEF Once
      <3> QED
        BY <1>2, <3>2, <3>3 DEF Line
    <2>2. ASSUME x \in Line(q) \ {Head(q)}
          PROVE  x \in Line(Tail(q))
      <3>1. PICK i \in DOMAIN q : x = q[i]
        BY <2>2 DEF Line
      <3>2. i \in 2..Len(q)
        BY <1>1, <1>2, <2>2, <3>1
      <3>3. i - 1 \in 1..(Len(q) - 1) /\ (i - 1) + 1 = i
        BY <1>1, <3>2
      <3>4. Tail(q)[i - 1] = q[(i - 1) + 1]
        BY <1>1, <3>3
      <3> QED
        BY <1>2, <3>1, <3>3, <3>4 DEF Line
    <2> QED
      BY <2>1, <2>2
  <1> QED
    BY <1>1, <1>3, <1>4

LEMMA LineGrows ==
  ASSUME NEW q \in Seq(Engines), NEW e \in Engines, Once(q), e \notin Line(q)
  PROVE  /\ Append(q, e) \in Seq(Engines) /\ Once(Append(q, e))
         /\ Line(Append(q, e)) = Line(q) \cup {e} /\ Append(q, e) # <<>>
         /\ q # <<>> => Head(Append(q, e)) = Head(q)
  <1>1. /\ Append(q, e) \in Seq(Engines) /\ Append(q, e) # <<>>
        /\ Len(q) \in Nat /\ Len(Append(q, e)) = Len(q) + 1
        /\ \A i \in 1..Len(q) : Append(q, e)[i] = q[i]
        /\ Append(q, e)[Len(q) + 1] = e
    BY AppendProperties
  <1>2. DOMAIN q = 1..Len(q) /\ DOMAIN Append(q, e) = 1..(Len(q) + 1)
    BY <1>1
  <1>3. Line(Append(q, e)) = Line(q) \cup {e}
    <2>1. ASSUME NEW x
          PROVE  x \in Line(Append(q, e)) <=> x \in Line(q) \/ x = e
      <3>1. \A i \in DOMAIN Append(q, e) : i \in DOMAIN q \/ i = Len(q) + 1
        BY <1>1, <1>2
      <3>2. Len(q) + 1 \in DOMAIN Append(q, e) /\ \A i \in DOMAIN q : i \in DOMAIN Append(q, e)
        BY <1>1, <1>2
      <3> QED
        BY <1>1, <1>2, <3>1, <3>2 DEF Line
    <2> QED
      BY <2>1
  <1>4. Once(Append(q, e))
    <2>1. \A i \in DOMAIN q : q[i] # e
      BY DEF Line
    <2>2. \A i \in DOMAIN Append(q, e) : i \in DOMAIN q \/ i = Len(q) + 1
      BY <1>1, <1>2
    <2> QED
      BY <1>1, <1>2, <2>1, <2>2 DEF Once
  <1>5. q # <<>> => Head(Append(q, e)) = Head(q)
    BY HeadTailAppend
  <1> QED
    BY <1>1, <1>3, <1>4, <1>5

LEMMA NoJobTyped == NoJob \in Job /\ NoJob.pc = "none" /\ NoJob.kind = "none"
  BY DEF NoJob, Job, Venv, Slots, Kinds

(* Whoever works is at the head of the queue.                              *)
LEMMA AtHead ==
  ASSUME JobInv, NEW e \in Engines, Works(e)
  PROVE  queue # <<>> /\ Head(queue) = e /\ job[e].pc # "none"
  <1>1. CASE Begin(e)
    <2>1. e \in Line(queue)
      BY <1>1 DEF Begin, JobInv
    <2>2. queue # <<>>
      BY <2>1 DEF Line
    <2> QED
      BY <1>1, <2>2 DEF Begin
  <1>2. CASE ~Begin(e)
    <2>1. job[e].pc \notin {"none", "queued"}
      BY <1>2 DEF Works, Cleared, Emptied, Built, BuildFails, Swap, GiveUp, Undone, Declare,
                  Dropped, Fetched
    <2> QED
      BY <2>1 DEF JobInv
  <1> QED
    BY <1>1, <1>2

(* The running job goes on, or ends.                                       *)
LEMMA JobGoesOn ==
  ASSUME JobInv, NEW e \in Engines, queue # <<>>, Head(queue) = e, job[e].pc # "none",
         NEW j \in Job, j.pc # "none", job' = [job EXCEPT ![e] = j], queue' = queue
  PROVE  JobInv'
  <1>1. job' \in [Engines -> Job] /\ job'[e] = j /\ \A f \in Engines \ {e} : job'[f] = job[f]
    BY DEF JobInv
  <1>2. {f \in Engines : job'[f].pc # "none"} = {f \in Engines : job[f].pc # "none"}
    BY <1>1
  <1>3. \A f \in Engines : job'[f].pc \notin {"none", "queued"} => queue # <<>> /\ Head(queue) = f
    BY <1>1 DEF JobInv
  <1> QED
    BY <1>1, <1>2, <1>3 DEF JobInv

LEMMA JobEnds ==
  ASSUME JobInv, NEW e \in Engines, queue # <<>>, Head(queue) = e, job[e].pc # "none", JobOver(e)
  PROVE  JobInv'
  <1>1. queue' = Tail(queue) /\ job' = [job EXCEPT ![e] = NoJob]
    BY DEF JobOver
  <1>2. job' \in [Engines -> Job] /\ job'[e] = NoJob /\ \A f \in Engines \ {e} : job'[f] = job[f]
    BY <1>1, NoJobTyped DEF JobInv
  <1>3. queue' \in Seq(Engines) /\ Once(queue') /\ Line(queue') = Line(queue) \ {e}
    BY <1>1, LineLeaves DEF JobInv
  <1>4. Line(queue') = {f \in Engines : job'[f].pc # "none"}
    BY <1>2, <1>3, NoJobTyped DEF JobInv
  <1>5. \A f \in Engines : job'[f].pc \notin {"none", "queued"} => queue' # <<>> /\ Head(queue') = f
    BY <1>2, NoJobTyped DEF JobInv
  <1> QED
    BY <1>2, <1>3, <1>4, <1>5 DEF JobInv

Pcs == {"none", "queued", "clearing", "emptying", "building", "swapping", "stopping",
        "dropping", "undoing", "fetching"}

(* GoesTo: another pc, and nothing else of the job.                        *)
Moves(e, pc) ==
  /\ job' \in [Engines -> Job]
  /\ job'[e].pc = pc /\ job'[e].kind = job[e].kind
  /\ job'[e].slot = job[e].slot /\ job'[e].old = job[e].old

LEMMA JobMoves ==
  ASSUME JobInv, NEW e \in Engines, queue # <<>>, Head(queue) = e, job[e].pc # "none",
         NEW pc \in Pcs, pc # "none", GoesTo(e, pc)
  PROVE  JobInv' /\ Moves(e, pc)
  <1> DEFINE j == [job[e] EXCEPT !.pc = pc]
  <1>1. job[e] \in Job
    BY DEF JobInv
  <1>2. /\ j \in Job /\ j.pc = pc /\ j.kind = job[e].kind /\ j.slot = job[e].slot
        /\ j.old = job[e].old
    BY <1>1 DEF Job, Pcs
  <1>3. job' = [job EXCEPT ![e] = j] /\ queue' = queue
    BY DEF GoesTo
  <1> HIDE DEF j
  <1>4. job'[e] = j
    BY <1>3 DEF JobInv
  <1>5. JobInv'
    BY <1>2, <1>3, JobGoesOn
  <1> QED
    BY <1>2, <1>4, <1>5 DEF Moves, JobInv

-----------------------------------------------------------------------------
(* Types.                                                                  *)

Disk == [Engines -> [Slots -> {"empty", "partial", "built"}]]

(* What beginning to remove a slot does to the disk.                       *)
LEMMA GoingStep ==
  ASSUME NEW d \in Disk, NEW e \in Engines, NEW s
  PROVE  /\ Going(d, e, s) \in Disk
         /\ \A f \in Engines \ {e} : Going(d, e, s)[f] = d[f]
         /\ \A t \in Slots \ {s} : Going(d, e, s)[e][t] = d[e][t]
  BY DEF Going, Disk

(* Every other engine is left alone.                                       *)
Touches(e) ==
  /\ up' = up
  /\ \A f \in Engines \ {e} :
       /\ entry'[f] = entry[f] /\ record'[f] = record[f] /\ disk'[f] = disk[f]
       /\ job'[f] = job[f] /\ uninstall'[f] = uninstall[f]
       /\ f \in kept' <=> f \in kept

LEMMA OthersSound ==
  ASSUME NEW e \in Engines, Touches(e), NEW f \in Engines, f # e, Sound(f)
  PROVE  Sound(f)'
  <1>1. Alone(f)'
    BY DEF Touches, Sound, Alone
  <1>2. Agrees(f)'
    BY DEF Touches, Sound, Agrees
  <1>3. Stage(f)'
    BY DEF Touches, Sound, Stage, InstallStage, ReinstallStage
  <1>4. Whole(f)'
    BY DEF Touches, Sound, Whole
  <1> QED
    BY <1>1, <1>2, <1>3, <1>4 DEF Sound

LEMMA JobOthers ==
  ASSUME JobInv, NEW e \in Engines,
         JobOver(e) \/ \E pc \in Pcs : GoesTo(e, pc)
  PROVE  \A f \in Engines \ {e} : job'[f] = job[f]
  BY DEF JobOver, GoesTo, JobInv

LEMMA BeginTyped ==
  ASSUME TypeInv, NEW e \in Engines, Begin(e)
  PROVE  TypeInv' /\ Touches(e)
  <1>1. queue # <<>> /\ Head(queue) = e /\ job[e].pc = "queued"
    BY AtHead DEF TypeInv, Works, Begin
  <1>2. disk \in Disk
    BY DEF TypeInv, RestInv, Disk
  <1>3. CASE stopping /\ JobOver(e) /\ UNCHANGED disk
    <2>1. JobInv'
      BY <1>1, <1>3, JobEnds DEF TypeInv
    <2>2. RestInv'
      BY <1>3 DEF TypeInv, RestInv, Begin
    <2>3. Touches(e)
      BY <1>3, JobOthers DEF Touches, TypeInv, Begin
    <2> QED
      BY <2>1, <2>2, <2>3 DEF TypeInv
  <1>4. CASE GoesTo(e, "clearing") /\ disk' = Going(disk, e, "alternate")
    <2>1. JobInv'
      BY <1>1, <1>4, JobMoves DEF TypeInv, Pcs
    <2>2. disk' \in Disk /\ \A f \in Engines \ {e} : disk'[f] = disk[f]
      BY <1>2, <1>4, GoingStep
    <2>3. RestInv'
      BY <2>2 DEF TypeInv, RestInv, Begin, Disk
    <2>4. Touches(e)
      BY <1>4, <2>2, JobOthers DEF Touches, TypeInv, Begin, Pcs
    <2> QED
      BY <2>1, <2>3, <2>4 DEF TypeInv
  <1>5. CASE /\ job' = [job EXCEPT ![e] = [@ EXCEPT !.pc = "emptying", !.slot = OtherSlot(entry[e]),
                                                    !.old = entry[e]]]
             /\ disk' = Going(disk, e, OtherSlot(entry[e])) /\ UNCHANGED queue
    <2> DEFINE j == [job[e] EXCEPT !.pc = "emptying", !.slot = OtherSlot(entry[e]), !.old = entry[e]]
    <2>1. j \in Job /\ j.pc # "none"
      <3>1. job[e] \in Job /\ entry[e] \in Venv
        BY DEF TypeInv, JobInv, RestInv
      <3>2. OtherSlot(entry[e]) \in Slots
        BY DEF OtherSlot, Slots
      <3> QED
        BY <3>1, <3>2 DEF Job
    <2>2. job' = [job EXCEPT ![e] = j] /\ queue' = queue
      BY <1>5
    <2> HIDE DEF j
    <2>3. JobInv' /\ \A f \in Engines \ {e} : job'[f] = job[f]
      BY <1>1, <2>1, <2>2, JobGoesOn DEF TypeInv, JobInv
    <2>4. disk' \in Disk /\ \A f \in Engines \ {e} : disk'[f] = disk[f]
      BY <1>2, <1>5, GoingStep
    <2>5. RestInv'
      BY <2>4 DEF TypeInv, RestInv, Begin, Disk
    <2>6. Touches(e)
      BY <2>3, <2>4 DEF Touches, Begin
    <2> QED
      BY <2>3, <2>5, <2>6 DEF TypeInv
  <1>6. CASE GoesTo(e, "fetching") /\ UNCHANGED disk
    <2>1. JobInv'
      BY <1>1, <1>6, JobMoves DEF TypeInv, Pcs
    <2>2. RestInv'
      BY <1>6 DEF TypeInv, RestInv, Begin
    <2>3. Touches(e)
      BY <1>6, JobOthers DEF Touches, TypeInv, Begin, Pcs
    <2> QED
      BY <2>1, <2>2, <2>3 DEF TypeInv
  <1> QED
    BY <1>3, <1>4, <1>5, <1>6 DEF Begin

(* An action of the running job: what it does to the job, and the rest.    *)
LEMMA StepTyped ==
  ASSUME TypeInv, NEW e \in Engines, Works(e),
         JobOver(e) \/ \E pc \in Pcs \ {"none"} : GoesTo(e, pc),
         RestInv', up' = up, uninstall' = uninstall,
         \A f \in Engines \ {e} :
           /\ entry'[f] = entry[f] /\ record'[f] = record[f] /\ disk'[f] = disk[f]
           /\ f \in kept' <=> f \in kept
  PROVE  TypeInv' /\ Touches(e)
  <1>1. queue # <<>> /\ Head(queue) = e /\ job[e].pc # "none" /\ JobInv
    BY AtHead DEF TypeInv
  <1>2. JobInv'
    BY <1>1, JobEnds, JobMoves
  <1>3. \A f \in Engines \ {e} : job'[f] = job[f]
    BY <1>1, JobOthers
  <1> QED
    BY <1>2, <1>3 DEF TypeInv, Touches

LEMMA WorksTyped ==
  ASSUME TypeInv, NEW e \in Engines, Works(e)
  PROVE  TypeInv' /\ Touches(e)
  <1>0. /\ disk \in Disk /\ JobInv /\ RestInv /\ job[e].slot \in Slots
        /\ record \in [Engines -> Venv] /\ entry \in [Engines -> Venv]
    BY DEF TypeInv, RestInv, JobInv, Disk, Job
  <1>1. CASE Begin(e)
    BY <1>1, BeginTyped
  <1>2. CASE Cleared(e)
    <2> DEFINE d == [disk EXCEPT ![e]["alternate"] = "empty"]
    <2>1. d \in Disk /\ \A f \in Engines \ {e} : d[f] = disk[f]
      BY <1>0 DEF Disk
    <2>2. disk' = Going(d, e, "primary")
      BY <1>2 DEF Cleared
    <2> HIDE DEF d
    <2>3. disk' \in Disk /\ \A f \in Engines \ {e} : disk'[f] = disk[f]
      BY <2>1, <2>2, GoingStep
    <2>4. RestInv'
      BY <1>0, <1>2, <2>3 DEF RestInv, Cleared, Disk
    <2>5. \E pc \in Pcs \ {"none"} : GoesTo(e, pc)
      BY <1>2 DEF Cleared, Pcs
    <2> QED
      BY <1>2, <2>3, <2>4, <2>5, StepTyped DEF Cleared
  <1>3. CASE Emptied(e)
    <2>1. disk' \in Disk /\ \A f \in Engines \ {e} : disk'[f] = disk[f]
      BY <1>0, <1>3 DEF Emptied, Disk
    <2>2. RestInv'
      BY <1>0, <1>3, <2>1 DEF RestInv, Emptied, Disk
    <2>3. \E pc \in Pcs \ {"none"} : GoesTo(e, pc)
      BY <1>3 DEF Emptied, Pcs
    <2> QED
      BY <1>3, <2>1, <2>2, <2>3, StepTyped DEF Emptied
  <1>4. CASE Built(e)
    <2>1. disk' \in Disk /\ \A f \in Engines \ {e} : disk'[f] = disk[f]
      BY <1>0, <1>4 DEF Built, Disk
    <2>2. record' \in [Engines -> Venv] /\ \A f \in Engines \ {e} : record'[f] = record[f]
      BY <1>0, <1>4 DEF Built, Records, Venv
    <2>3. RestInv'
      BY <1>0, <1>4, <2>1, <2>2 DEF RestInv, Built, Disk
    <2>4. JobOver(e) \/ \E pc \in Pcs \ {"none"} : GoesTo(e, pc)
      BY <1>4 DEF Built, Pcs
    <2> QED
      BY <1>4, <2>1, <2>2, <2>3, <2>4, StepTyped DEF Built
  <1>5. CASE BuildFails(e)
    <2>1. RestInv'
      BY <1>0, <1>5 DEF RestInv, BuildFails
    <2> QED
      BY <1>5, <2>1, StepTyped DEF BuildFails
  <1>6. CASE Swap(e)
    <2>1. record' \in [Engines -> Venv] /\ \A f \in Engines \ {e} : record'[f] = record[f]
      BY <1>0, <1>6 DEF Swap, Records, Venv
    <2>2. RestInv'
      BY <1>0, <1>6, <2>1 DEF RestInv, Swap
    <2>3. JobOver(e) \/ \E pc \in Pcs \ {"none"} : GoesTo(e, pc)
      BY <1>6 DEF Swap, Pcs
    <2> QED
      BY <1>6, <2>1, <2>2, <2>3, StepTyped DEF Swap
  <1>7. CASE GiveUp(e)
    <2>1. disk' \in Disk /\ \A f \in Engines \ {e} : disk'[f] = disk[f]
      BY <1>0, <1>7, GoingStep DEF GiveUp
    <2>2. RestInv'
      BY <1>0, <1>7, <2>1 DEF RestInv, GiveUp, Disk
    <2>3. \E pc \in Pcs \ {"none"} : GoesTo(e, pc)
      BY <1>7 DEF GiveUp, Pcs
    <2> QED
      BY <1>7, <2>1, <2>2, <2>3, StepTyped DEF GiveUp
  <1>8. CASE Undone(e)
    <2>1. disk' \in Disk /\ \A f \in Engines \ {e} : disk'[f] = disk[f]
      BY <1>0, <1>8 DEF Undone, Disk
    <2>2. RestInv'
      BY <1>0, <1>8, <2>1 DEF RestInv, Undone, Disk
    <2> QED
      BY <1>8, <2>1, <2>2, StepTyped DEF Undone
  <1>9. CASE Declare(e)
    <2>1. disk' \in Disk /\ \A f \in Engines \ {e} : disk'[f] = disk[f]
      BY <1>0, <1>9, GoingStep DEF Declare
    <2>2. entry' \in [Engines -> Venv] /\ \A f \in Engines \ {e} : entry'[f] = entry[f]
      BY <1>0, <1>9 DEF Declare, Venv
    <2>3. kept' \subseteq Engines /\ \A f \in Engines \ {e} : f \in kept' <=> f \in kept
      BY <1>0, <1>9 DEF Declare, RestInv
    <2>4. RestInv'
      BY <1>0, <1>9, <2>1, <2>2, <2>3 DEF RestInv, Declare, Disk
    <2>5. JobOver(e) \/ \E pc \in Pcs \ {"none"} : GoesTo(e, pc)
      BY <1>9 DEF Declare, GoesOn, Pcs
    <2> QED
      BY <1>9, <2>1, <2>2, <2>3, <2>4, <2>5, StepTyped DEF Declare
  <1>10. CASE Dropped(e)
    <2>1. disk' \in Disk /\ \A f \in Engines \ {e} : disk'[f] = disk[f]
      BY <1>0, <1>10 DEF Dropped, Disk
    <2>2. RestInv'
      BY <1>0, <1>10, <2>1 DEF RestInv, Dropped, Disk
    <2>3. JobOver(e) \/ \E pc \in Pcs \ {"none"} : GoesTo(e, pc)
      BY <1>10 DEF Dropped, GoesOn, Pcs
    <2> QED
      BY <1>10, <2>1, <2>2, <2>3, StepTyped DEF Dropped
  <1>11. CASE Fetched(e)
    <2>1. record' \in [Engines -> Venv] /\ \A f \in Engines \ {e} : record'[f] = record[f]
      BY <1>0, <1>11 DEF Fetched, Venv
    <2>2. RestInv'
      BY <1>0, <1>11, <2>1 DEF RestInv, Fetched
    <2> QED
      BY <1>11, <2>1, <2>2, StepTyped DEF Fetched
  <1> QED
    BY <1>1, <1>2, <1>3, <1>4, <1>5, <1>6, <1>7, <1>8, <1>9, <1>10, <1>11 DEF Works

(* Submitting: the engine had no job, and is the last in line.             *)
LEMMA SubmitTyped ==
  ASSUME TypeInv, NEW e \in Engines, Submit(e)
  PROVE  TypeInv' /\ Touches(e)
  <1>1. PICK kind \in Kinds : job' = [job EXCEPT ![e] = [NoJob EXCEPT !.pc = "queued", !.kind = kind]]
    BY DEF Submit
  <1> DEFINE j == [NoJob EXCEPT !.pc = "queued", !.kind = kind]
  <1>2. j \in Job /\ j.pc = "queued"
    BY NoJobTyped DEF Job
  <1>3. job' = [job EXCEPT ![e] = j]
    BY <1>1
  <1> HIDE DEF j
  <1>4. job' \in [Engines -> Job] /\ job'[e] = j /\ \A f \in Engines \ {e} : job'[f] = job[f]
    BY <1>2, <1>3 DEF TypeInv, JobInv
  <1>5. job[e].pc = "none" /\ e \notin Line(queue)
    BY DEF Submit, Busy, TypeInv, JobInv
  <1>6. /\ queue' \in Seq(Engines) /\ Once(queue') /\ Line(queue') = Line(queue) \cup {e}
        /\ queue' # <<>> /\ (queue # <<>> => Head(queue') = Head(queue))
    BY <1>5, LineGrows DEF Submit, TypeInv, JobInv
  <1>7. Line(queue') = {f \in Engines : job'[f].pc # "none"}
    BY <1>2, <1>4, <1>6 DEF TypeInv, JobInv
  <1>8. \A f \in Engines : job'[f].pc \notin {"none", "queued"} => queue' # <<>> /\ Head(queue') = f
    BY <1>2, <1>4, <1>6 DEF TypeInv, JobInv
  <1>9. JobInv'
    BY <1>4, <1>6, <1>7, <1>8 DEF JobInv
  <1>10. RestInv'
    <2>1. calls' \in 0..MaxCalls
      BY InstallAssumption DEF Submit, TypeInv, RestInv
    <2> QED
      BY <2>1 DEF Submit, TypeInv, RestInv
  <1>11. Touches(e)
    BY <1>4 DEF Submit, Touches
  <1> QED
    BY <1>9, <1>10, <1>11 DEF TypeInv

(* An uninstall asks, waits, removes: no job is touched.                   *)
LEMMA UninstallTyped ==
  \A pc \in {"none", "locking", "stopping", "forgetting", "deleting"}, todo \in Seq(Slots) :
    /\ [pc |-> pc, todo |-> todo] \in Uninstall
    /\ NoUninstall \in Uninstall /\ NoUninstall.pc = "none"
  <1>1. <<>> \in Seq(Slots)
    BY EmptySeq
  <1> QED
    BY <1>1 DEF Uninstall, NoUninstall

LEMMA JobAside ==
  ASSUME JobInv, job' = job, queue' = queue
  PROVE  JobInv'
  BY DEF JobInv

LEMMA AskTyped ==
  ASSUME TypeInv, NEW e \in Engines, AskUninstall(e)
  PROVE  TypeInv' /\ Touches(e)
  <1>1. SlotsOf(entry[e]) \in Seq(Slots)
    <2>1. <<"alternate", "primary">> \in Seq(Slots) /\ <<"primary", "alternate">> \in Seq(Slots)
      BY DEF Slots
    <2> QED
      BY <2>1 DEF SlotsOf
  <1> DEFINE u == [pc |-> "locking", todo |-> SlotsOf(entry[e])]
  <1>2. u \in Uninstall /\ u.pc = "locking"
    BY <1>1, UninstallTyped
  <1>3. uninstall' = [uninstall EXCEPT ![e] = u]
    BY DEF AskUninstall
  <1> HIDE DEF u
  <1>4. /\ uninstall' \in [Engines -> Uninstall] /\ uninstall'[e] = u
        /\ \A f \in Engines \ {e} : uninstall'[f] = uninstall[f]
    BY <1>2, <1>3 DEF TypeInv, RestInv
  <1>5. calls' \in 0..MaxCalls
    BY InstallAssumption DEF AskUninstall, TypeInv, RestInv
  <1>6. RestInv'
    BY <1>2, <1>4, <1>5 DEF AskUninstall, TypeInv, RestInv
  <1>7. JobInv'
    BY JobAside DEF AskUninstall, TypeInv
  <1>8. Touches(e)
    BY <1>4 DEF AskUninstall, Touches
  <1> QED
    BY <1>6, <1>7, <1>8 DEF TypeInv

(* Deletes: the next slot begins to go, or the uninstall is over.          *)
LEMMA DeletesTyped ==
  ASSUME TypeInv, NEW e \in Engines, NEW d \in Disk, NEW todo \in Seq(Slots),
         \A f \in Engines \ {e} : d[f] = disk[f], Deletes(e, d, todo)
  PROVE  /\ disk' \in Disk /\ \A f \in Engines \ {e} : disk'[f] = disk[f]
         /\ uninstall' \in [Engines -> Uninstall]
         /\ \A f \in Engines \ {e} : uninstall'[f] = uninstall[f]
         /\ uninstall'[e] = NoUninstall \/ uninstall'[e] = [pc |-> "deleting", todo |-> todo]
         /\ uninstall'[e].pc = "deleting" => uninstall'[e].todo # <<>>
  <1>0. uninstall \in [Engines -> Uninstall]
    BY DEF TypeInv, RestInv
  <1>1. CASE todo = <<>> /\ disk' = d /\ uninstall' = [uninstall EXCEPT ![e] = NoUninstall]
    <2>1. NoUninstall \in Uninstall /\ NoUninstall.pc = "none"
      BY UninstallTyped
    <2> QED
      BY <1>0, <1>1, <2>1
  <1>2. CASE /\ todo # <<>> /\ disk' = Going(d, e, Head(todo))
             /\ uninstall' = [uninstall EXCEPT ![e] = [pc |-> "deleting", todo |-> todo]]
    <2>1. disk' \in Disk /\ \A f \in Engines \ {e} : disk'[f] = disk[f]
      BY <1>2, GoingStep
    <2> DEFINE u == [pc |-> "deleting", todo |-> todo]
    <2>2. u \in Uninstall /\ u.todo = todo
      BY UninstallTyped
    <2>3. uninstall' = [uninstall EXCEPT ![e] = u]
      BY <1>2
    <2>4. u = [pc |-> "deleting", todo |-> todo]
      OBVIOUS
    <2> HIDE DEF u
    <2>5. /\ uninstall' \in [Engines -> Uninstall] /\ uninstall'[e] = u
          /\ \A f \in Engines \ {e} : uninstall'[f] = uninstall[f]
      BY <1>0, <2>2, <2>3
    <2> QED
      BY <1>2, <2>1, <2>2, <2>4, <2>5
  <1> QED
    BY <1>1, <1>2 DEF Deletes

LEMMA RemovesTyped ==
  ASSUME TypeInv, NEW e \in Engines, Removes(e)
  PROVE  TypeInv' /\ Touches(e)
  <1>0. /\ uninstall \in [Engines -> Uninstall] /\ uninstall[e] \in Uninstall
        /\ uninstall[e].todo \in Seq(Slots)
        /\ NoUninstall \in Uninstall /\ NoUninstall.pc = "none" /\ disk \in Disk
    <2>1. uninstall[e] \in Uninstall /\ uninstall \in [Engines -> Uninstall] /\ disk \in Disk
      BY DEF TypeInv, RestInv, Disk
    <2>2. <<>> \in Seq(Slots)
      BY EmptySeq
    <2> QED
      BY <2>1, <2>2, UninstallTyped DEF Uninstall
  <1>1. JobInv'
    BY JobAside DEF TypeInv, Removes, UninstallBegins, UninstallRemoves, UninstallForgets,
                    UninstallDeleted
  <1>2. CASE UninstallBegins(e)
    <2>1. /\ uninstall' \in [Engines -> Uninstall] /\ uninstall'[e].pc # "deleting"
          /\ \A f \in Engines \ {e} : uninstall'[f] = uninstall[f]
      <3> DEFINE u == [uninstall[e] EXCEPT !.pc = "stopping"]
      <3>1. u \in Uninstall /\ u.pc = "stopping"
        BY <1>0 DEF Uninstall
      <3>2. \E v \in {NoUninstall, u} : uninstall' = [uninstall EXCEPT ![e] = v]
        BY <1>2 DEF UninstallBegins
      <3> HIDE DEF u
      <3> QED
        BY <1>0, <3>1, <3>2
    <2>2. RestInv'
      BY <1>2, <2>1 DEF UninstallBegins, TypeInv, RestInv
    <2>3. Touches(e)
      BY <1>2, <2>1 DEF UninstallBegins, Touches
    <2> QED
      BY <1>1, <2>2, <2>3 DEF TypeInv
  <1>3. CASE UninstallRemoves(e)
    <2>1. /\ uninstall' \in [Engines -> Uninstall] /\ uninstall'[e].pc # "deleting"
          /\ \A f \in Engines \ {e} : uninstall'[f] = uninstall[f]
      BY <1>0, <1>3 DEF UninstallRemoves, Uninstall
    <2>2. entry' \in [Engines -> Venv] /\ \A f \in Engines \ {e} : entry'[f] = entry[f]
      BY <1>3 DEF UninstallRemoves, TypeInv, RestInv, Venv
    <2>3. RestInv'
      BY <1>3, <2>1, <2>2 DEF UninstallRemoves, TypeInv, RestInv
    <2>4. Touches(e)
      BY <1>3, <2>1, <2>2 DEF UninstallRemoves, Touches
    <2> QED
      BY <1>1, <2>3, <2>4 DEF TypeInv
  <1>4. CASE UninstallForgets(e)
    <2>1. CASE /\ record' = [record EXCEPT ![e] = "absent"] /\ kept' = kept \ {e}
               /\ Deletes(e, disk, uninstall[e].todo)
      <3>1. /\ disk' \in Disk /\ \A f \in Engines \ {e} : disk'[f] = disk[f]
            /\ uninstall' \in [Engines -> Uninstall]
            /\ \A f \in Engines \ {e} : uninstall'[f] = uninstall[f]
            /\ uninstall'[e].pc = "deleting" => uninstall'[e].todo # <<>>
        BY <1>0, <2>1, DeletesTyped
      <3>2. record' \in [Engines -> Venv] /\ \A f \in Engines \ {e} : record'[f] = record[f]
        BY <2>1 DEF TypeInv, RestInv, Venv
      <3>3. RestInv'
        BY <1>4, <2>1, <3>1, <3>2 DEF UninstallForgets, TypeInv, RestInv, Disk
      <3>4. Touches(e)
        BY <1>4, <2>1, <3>1, <3>2 DEF UninstallForgets, Touches
      <3> QED
        BY <1>1, <3>3, <3>4 DEF TypeInv
    <2>2. CASE /\ kept' = kept \cup {e}
               /\ uninstall' = [uninstall EXCEPT ![e] = NoUninstall] /\ UNCHANGED <<record, disk>>
      <3>1. /\ uninstall' \in [Engines -> Uninstall] /\ uninstall'[e].pc # "deleting"
            /\ \A f \in Engines \ {e} : uninstall'[f] = uninstall[f]
        BY <1>0, <2>2
      <3>2. RestInv'
        BY <1>4, <2>2, <3>1 DEF UninstallForgets, TypeInv, RestInv
      <3>3. Touches(e)
        BY <1>4, <2>2, <3>1 DEF UninstallForgets, Touches
      <3> QED
        BY <1>1, <3>2, <3>3 DEF TypeInv
    <2> QED
      BY <1>4, <2>1, <2>2 DEF UninstallForgets
  <1>5. CASE UninstallDeleted(e)
    <2> DEFINE todo == Tail(uninstall[e].todo)
               d == [disk EXCEPT ![e][Head(uninstall[e].todo)] = "empty"]
    <2>1. todo \in Seq(Slots)
      <3>1. uninstall[e].todo # <<>>
        BY <1>5 DEF UninstallDeleted, TypeInv, RestInv
      <3> QED
        BY <1>0, <3>1, HeadTailProperties
    <2>2. d \in Disk /\ \A f \in Engines \ {e} : d[f] = disk[f]
      BY <1>0 DEF Disk
    <2>3. Deletes(e, d, todo)
      BY <1>5 DEF UninstallDeleted
    <2> HIDE DEF d, todo
    <2>4. /\ disk' \in Disk /\ \A f \in Engines \ {e} : disk'[f] = disk[f]
          /\ uninstall' \in [Engines -> Uninstall]
          /\ \A f \in Engines \ {e} : uninstall'[f] = uninstall[f]
          /\ uninstall'[e].pc = "deleting" => uninstall'[e].todo # <<>>
      BY <2>1, <2>2, <2>3, DeletesTyped
    <2>5. RestInv'
      BY <1>5, <2>4 DEF UninstallDeleted, TypeInv, RestInv, Disk
    <2>6. Touches(e)
      BY <1>5, <2>4 DEF UninstallDeleted, Touches
    <2> QED
      BY <1>1, <2>5, <2>6 DEF TypeInv
  <1> QED
    BY <1>2, <1>3, <1>4, <1>5 DEF Removes

(* The core stops, dies, leaves and boots.                                 *)
LEMMA DownTyped ==
  ASSUME TypeInv, Crash \/ Exit
  PROVE  TypeInv'
  <1>1. Down /\ restarts < MaxRestarts
    BY DEF Crash, Exit, TypeInv, RestInv
  <1>2. JobInv'
    <2>1. job' \in [Engines -> Job] /\ \A f \in Engines : job'[f].pc = "none"
      BY <1>1, NoJobTyped DEF Down
    <2>2. queue' = <<>> /\ queue' \in Seq(Engines) /\ DOMAIN queue' = {}
      BY <1>1, EmptySeq DEF Down
    <2>3. Line(queue') = {} /\ Once(queue')
      BY <2>2 DEF Line, Once
    <2> QED
      BY <2>1, <2>2, <2>3 DEF JobInv
  <1>3. RestInv'
    <2>1. uninstall' \in [Engines -> Uninstall] /\ \A f \in Engines : uninstall'[f].pc = "none"
      <3>1. <<>> \in Seq(Slots)
        BY EmptySeq
      <3>2. NoUninstall \in Uninstall /\ NoUninstall.pc = "none"
        BY <3>1, UninstallTyped
      <3> QED
        BY <1>1, <3>2 DEF Down
    <2>2. restarts' \in 0..MaxRestarts
      BY <1>1, InstallAssumption DEF Down, TypeInv, RestInv
    <2> QED
      BY <1>1, <2>1, <2>2 DEF Down, TypeInv, RestInv, Venv
  <1> QED
    BY <1>2, <1>3 DEF TypeInv

LEMMA CoreTyped ==
  ASSUME TypeInv, Stop \/ Boot \/ UNCHANGED vars
  PROVE  TypeInv'
  <1>1. JobInv'
    BY JobAside DEF TypeInv, Stop, Boot, vars
  <1>2. RestInv'
    <2>1. CASE Stop
      <3>1. stopping' \in BOOLEAN /\ restarts' < MaxRestarts /\ up' \in BOOLEAN
        BY <2>1 DEF Stop, TypeInv, RestInv
      <3> QED
        BY <2>1, <3>1 DEF Stop, TypeInv, RestInv
    <2>2. CASE Boot
      <3>1. up' \in BOOLEAN /\ stopping' = stopping
        BY <2>2 DEF Boot
      <3> QED
        BY <2>2, <3>1 DEF Boot, TypeInv, RestInv
    <2>3. CASE UNCHANGED vars
      BY <2>3 DEF TypeInv, RestInv, vars
    <2> QED
      BY <2>1, <2>2, <2>3
  <1> QED
    BY <1>1, <1>2 DEF TypeInv

LEMMA NextTyped ==
  ASSUME TypeInv, [Next]_vars
  PROVE  TypeInv'
  BY WorksTyped, SubmitTyped, AskTyped, RemovesTyped, DownTyped, CoreTyped DEF Next

LEMMA InitTyped ==
  ASSUME Init
  PROVE  TypeInv
  <1>1. JobInv
    <2>1. job \in [Engines -> Job] /\ \A f \in Engines : job[f].pc = "none"
      BY NoJobTyped DEF Init
    <2>2. queue = <<>> /\ queue \in Seq(Engines) /\ DOMAIN queue = {}
      BY EmptySeq DEF Init
    <2>3. Line(queue) = {} /\ Once(queue)
      BY <2>2 DEF Line, Once
    <2> QED
      BY <2>1, <2>2, <2>3 DEF JobInv
  <1>2. RestInv
    <2>1. uninstall \in [Engines -> Uninstall] /\ \A f \in Engines : uninstall[f].pc = "none"
      <3>1. <<>> \in Seq(Slots)
        BY EmptySeq
      <3>2. NoUninstall \in Uninstall /\ NoUninstall.pc = "none"
        BY <3>1, UninstallTyped
      <3> QED
        BY <3>2 DEF Init
    <2>2. record \in [Engines -> Venv] /\ entry \in [Engines -> Venv]
      BY DEF Init, Venv, Slots
    <2>3. disk \in Disk
      BY DEF Init, Disk
    <2> QED
      <3>1. up \in BOOLEAN /\ stopping \in BOOLEAN /\ ~stopping
        BY DEF Init
      <3>2. kept \subseteq Engines /\ calls \in 0..MaxCalls /\ restarts \in 0..MaxRestarts
        BY InstallAssumption DEF Init
      <3> QED
        BY <2>1, <2>2, <2>3, <3>1, <3>2 DEF RestInv, Disk
  <1> QED
    BY <1>1, <1>2 DEF TypeInv

-----------------------------------------------------------------------------
(* What each action does to its engine.                                    *)

(* A job at work is alone with its engine, in a core that runs.            *)
LEMMA Working ==
  ASSUME TypeInv, NEW e \in Engines, Sound(e), Works(e)
  PROVE  /\ job[e].pc # "none" /\ up /\ uninstall[e] = NoUninstall /\ uninstall[e].pc = "none"
         /\ job[e] \in Job /\ job[e].slot \in Slots
         /\ entry[e] \in Venv /\ record[e] \in Venv /\ disk \in Disk
         /\ disk[e] \in [Slots -> {"empty", "partial", "built"}]
         /\ \A pc \in Pcs \ {"none"} : GoesTo(e, pc) => Moves(e, pc)
         /\ JobOver(e) => job'[e] = NoJob
  <1>1. job[e].pc # "none" /\ JobInv /\ queue # <<>> /\ Head(queue) = e
    BY AtHead DEF TypeInv
  <1>2. up /\ uninstall[e] = NoUninstall
    BY <1>1 DEF Sound, Alone
  <1>3. job[e] \in Job /\ entry[e] \in Venv /\ record[e] \in Venv /\ disk \in Disk
    BY DEF TypeInv, JobInv, RestInv, Disk
  <1>4. \A pc \in Pcs \ {"none"} : GoesTo(e, pc) => Moves(e, pc)
    BY <1>1, JobMoves
  <1>5. JobOver(e) => job'[e] = NoJob
    BY <1>1 DEF JobOver, JobInv
  <1> QED
    BY <1>1, <1>2, <1>3, <1>4, <1>5 DEF Disk, Job, NoUninstall

(* A job that is over leaves an engine sound that is whole, and recorded   *)
(* as it runs.                                                             *)
LEMMA OverSound ==
  ASSUME TypeInv, NEW e \in Engines, Sound(e), Works(e), job'[e] = NoJob,
         up' = up, uninstall' = uninstall, Agrees(e)', Whole(e)'
  PROVE  Sound(e)'
  <1>1. Alone(e)'
    BY Working, NoJobTyped DEF Alone
  <1>2. Stage(e)'
    BY NoJobTyped DEF Stage, InstallStage, ReinstallStage
  <1> QED
    BY <1>1, <1>2 DEF Sound

LEMMA AloneStays ==
  ASSUME TypeInv, NEW e \in Engines, Sound(e), Works(e), up' = up, uninstall' = uninstall
  PROVE  Alone(e)'
  BY Working DEF Alone

LEMMA BeginSound ==
  ASSUME TypeInv, NEW e \in Engines, Sound(e), Begin(e)
  PROVE  Sound(e)'
  <1>0. Works(e) /\ up' = up /\ uninstall' = uninstall /\ job[e].pc = "queued"
    BY DEF Works, Begin
  <1>1. entry' = entry /\ record' = record /\ kept' = kept
    BY DEF Begin
  <1>2. Alone(e)'
    BY <1>0, AloneStays
  <1>3. entry[e] # "absent" => entry[e] = record[e]
    BY <1>0 DEF Sound, Agrees
  <1>4. Agrees(e)
    BY DEF Sound
  <1>5. CASE JobOver(e) /\ UNCHANGED disk
    <2>1. job'[e] = NoJob
      BY <1>0, <1>5, Working
    <2>2. Agrees(e)'
      BY <1>0, <1>1, <1>3, <1>4, <2>1 DEF Agrees
    <2>3. Whole(e)'
      BY <1>1, <1>5 DEF Sound, Whole
    <2> QED
      BY <1>0, <2>1, <2>2, <2>3, OverSound
  <1>6. CASE job[e].kind = "install" /\ GoesTo(e, "clearing") /\ disk' = Going(disk, e, "alternate")
    <2>1. Moves(e, "clearing")
      BY <1>0, <1>6, Working DEF Pcs
    <2>2. Agrees(e)'
      BY <1>0, <1>1, <1>3, <1>4, <2>1 DEF Agrees, Moves
    <2>3. entry[e] = "absent" /\ (record[e] = "absent" \/ e \in kept)
      BY <1>0, <1>4, <1>6, Working DEF Agrees, Sound, Stage, InstallStage
    <2>4. Whole(e)'
      BY <1>1, <2>3 DEF Whole, Slots
    <2>5. Stage(e)'
      BY <1>0, <1>1, <1>6, <2>1 DEF Sound, Stage, InstallStage, ReinstallStage, Moves
    <2> QED
      BY <1>2, <2>2, <2>4, <2>5 DEF Sound
  <1>7. CASE /\ job[e].kind = "reinstall"
             /\ job' = [job EXCEPT ![e] = [@ EXCEPT !.pc = "emptying", !.slot = OtherSlot(entry[e]),
                                                    !.old = entry[e]]]
             /\ disk' = Going(disk, e, OtherSlot(entry[e])) /\ UNCHANGED queue
    <2>1. /\ job'[e].pc = "emptying" /\ job'[e].kind = "reinstall"
          /\ job'[e].slot = OtherSlot(entry[e]) /\ job'[e].old = entry[e]
      <3>1. job'[e] = [job[e] EXCEPT !.pc = "emptying", !.slot = OtherSlot(entry[e]), !.old = entry[e]]
        BY <1>7 DEF TypeInv, JobInv
      <3>2. job[e] \in Job /\ job[e].kind = "reinstall"
        BY <1>0, <1>7, Working
      <3> QED
        BY <3>1, <3>2 DEF Job
    <2>2. entry[e] # "absent" /\ OtherSlot(entry[e]) # entry[e] /\ OtherSlot(entry[e]) \in Slots
      BY <1>0, <1>7 DEF Sound, Stage, ReinstallStage, OtherSlot, Slots
    <2>3. Agrees(e)'
      BY <1>0, <1>1, <1>3, <1>4, <2>1 DEF Agrees
    <2>4. \A t \in Slots \ {OtherSlot(entry[e])} : disk'[e][t] = disk[e][t]
      BY <1>0, <1>7, Working, GoingStep
    <2>5. Whole(e)'
      BY <1>1, <1>3, <2>2, <2>4 DEF Sound, Whole
    <2>6. Stage(e)'
      BY <1>1, <1>3, <2>1, <2>2 DEF Stage, InstallStage, ReinstallStage
    <2> QED
      BY <1>2, <2>3, <2>5, <2>6 DEF Sound
  <1>8. CASE job[e].kind \notin {"install", "reinstall"} /\ GoesTo(e, "fetching") /\ UNCHANGED disk
    <2>1. Moves(e, "fetching")
      BY <1>0, <1>8, Working DEF Pcs
    <2>2. Agrees(e)'
      BY <1>0, <1>1, <1>3, <1>4, <2>1 DEF Agrees, Moves
    <2>3. Whole(e)'
      BY <1>1, <1>8 DEF Sound, Whole
    <2>4. Stage(e)'
      BY <1>8, <2>1 DEF Stage, InstallStage, ReinstallStage, Moves
    <2> QED
      BY <1>2, <2>2, <2>3, <2>4 DEF Sound
  <1> QED
    BY <1>5, <1>6, <1>7, <1>8 DEF Begin

LEMMA ClearedSound ==
  ASSUME TypeInv, NEW e \in Engines, Sound(e), Cleared(e)
  PROVE  Sound(e)'
  <1>0. Works(e) /\ up' = up /\ uninstall' = uninstall /\ job[e].pc = "clearing"
    BY DEF Works, Cleared
  <1>1. entry' = entry /\ record' = record /\ kept' = kept
    BY DEF Cleared
  <1>2. Moves(e, "emptying")
    BY <1>0, Working DEF Pcs, Cleared
  <1>3. job[e].kind = "install"
    BY <1>0 DEF Sound, Stage, ReinstallStage
  <1>4. entry[e] = "absent" /\ (record[e] = "absent" \/ e \in kept)
    BY <1>0, <1>3, Working DEF Agrees, Sound, Stage, InstallStage
  <1>5. Alone(e)'
    BY <1>0, AloneStays
  <1>6. Agrees(e)'
    BY <1>0, <1>1, <1>2, <1>4, Working DEF Agrees, Moves
  <1>7. Stage(e)'
    BY <1>0, <1>1, <1>2, <1>3, <1>4 DEF Sound, Stage, InstallStage, ReinstallStage, Moves
  <1>8. Whole(e)'
    BY <1>1, <1>4 DEF Whole, Slots
  <1> QED
    BY <1>5, <1>6, <1>7, <1>8 DEF Sound

(* While it builds, a job's slot is none that its engine uses.             *)
LEMMA SlotUnused ==
  ASSUME TypeInv, NEW e \in Engines, Sound(e), Works(e), e \notin kept,
         job[e].pc \in {"emptying", "building", "undoing"}
  PROVE  entry[e] # job[e].slot /\ record[e] # job[e].slot
  <1>1. CASE job[e].kind = "install"
    <2>1. entry[e] = "absent" /\ record[e] = "absent"
      BY <1>1, Working DEF Agrees, Sound, Stage, InstallStage
    <2> QED
      BY <2>1, Working DEF Slots
  <1>2. CASE job[e].kind = "reinstall"
    BY <1>2 DEF Sound, Stage, ReinstallStage
  <1> QED
    BY <1>1, <1>2 DEF Sound, Stage

(* A step that only disturbs such a slot keeps the engine whole.           *)
LEMMA WholeElsewhere ==
  ASSUME NEW e \in Engines, Whole(e), NEW s \in Slots,
         e \notin kept => entry[e] # s /\ record[e] # s,
         entry' = entry, record' = record, kept' = kept,
         \A t \in Slots \ {s} : disk'[e][t] = disk[e][t]
  PROVE  Whole(e)'
  BY DEF Whole

LEMMA EmptiedSound ==
  ASSUME TypeInv, NEW e \in Engines, Sound(e), Emptied(e)
  PROVE  Sound(e)'
  <1>0. Works(e) /\ up' = up /\ uninstall' = uninstall /\ job[e].pc = "emptying"
    BY DEF Works, Emptied
  <1>1. entry' = entry /\ record' = record /\ kept' = kept
    BY DEF Emptied
  <1>2. Moves(e, "building")
    BY <1>0, Working DEF Pcs, Emptied
  <1>3. \A t \in Slots \ {job[e].slot} : disk'[e][t] = disk[e][t]
    BY <1>0, Working DEF Emptied, Disk
  <1>4. Whole(e)'
    BY <1>0, <1>1, <1>3, SlotUnused, Working, WholeElsewhere DEF Sound
  <1>5. Agrees(e)'
    BY <1>0, <1>1, <1>2 DEF Sound, Agrees, Moves
  <1>6. Stage(e)'
    BY <1>0, <1>1, <1>2 DEF Sound, Stage, InstallStage, ReinstallStage, Moves
  <1> QED
    BY <1>0, <1>4, <1>5, <1>6, AloneStays DEF Sound

LEMMA BuildFailsSound ==
  ASSUME TypeInv, NEW e \in Engines, Sound(e), BuildFails(e)
  PROVE  Sound(e)'
  <1>0. Works(e) /\ up' = up /\ uninstall' = uninstall /\ job[e].pc = "building"
    BY DEF Works, BuildFails
  <1>1. entry' = entry /\ record' = record /\ kept' = kept /\ disk' = disk /\ job'[e] = NoJob
    BY <1>0, Working DEF BuildFails
  <1>2. Agrees(e)'
    BY <1>0, <1>1, NoJobTyped DEF Sound, Agrees
  <1>3. Whole(e)'
    BY <1>1 DEF Sound, Whole
  <1> QED
    BY <1>0, <1>1, <1>2, <1>3, OverSound

(* An install that was built is recorded or given up; a reinstall waits.   *)
LEMMA BuiltSound ==
  ASSUME TypeInv, NEW e \in Engines, Sound(e), Built(e)
  PROVE  Sound(e)'
  <1>0. Works(e) /\ up' = up /\ uninstall' = uninstall /\ job[e].pc = "building"
    BY DEF Works, Built
  <1>1. entry' = entry /\ kept' = kept
    BY DEF Built
  <1>2. /\ \A t \in Slots \ {job[e].slot} : disk'[e][t] = disk[e][t]
        /\ disk'[e][job[e].slot] = "built"
    BY <1>0, Working DEF Built, Disk
  <1>3. CASE job[e].kind = "install" /\ Records(e) /\ GoesTo(e, "stopping")
    <2>1. Moves(e, "stopping")
      BY <1>0, <1>3, Working DEF Pcs
    <2>2. record'[e] = job[e].slot
      BY <1>3 DEF Records, TypeInv, RestInv
    <2>3. entry[e] = "absent"
      BY <1>0, <1>3 DEF Sound, Stage, InstallStage
    <2>4. Agrees(e)'
      BY <1>0, <1>1, <2>1, <2>3, Working DEF Agrees, Moves
    <2>5. Stage(e)'
      BY <1>0, <1>1, <1>2, <1>3, <2>1, <2>2, <2>3 DEF Sound, Stage, InstallStage, ReinstallStage, Moves
    <2>6. Whole(e)'
      BY <1>1, <1>2, <2>2, <2>3 DEF Whole, Slots
    <2> QED
      BY <1>0, <2>4, <2>5, <2>6, AloneStays DEF Sound
  <1>4. CASE JobOver(e) /\ UNCHANGED record
    <2>1. job'[e] = NoJob
      BY <1>0, <1>4, Working
    <2>2. Agrees(e)'
      BY <1>0, <1>1, <1>4, <2>1, NoJobTyped DEF Sound, Agrees
    <2>3. Whole(e)'
      BY <1>1, <1>2, <1>4 DEF Sound, Whole
    <2> QED
      BY <1>0, <2>1, <2>2, <2>3, OverSound
  <1>5. CASE job[e].kind = "reinstall" /\ GoesTo(e, "swapping") /\ UNCHANGED record
    <2>1. Moves(e, "swapping")
      BY <1>0, <1>5, Working DEF Pcs
    <2>2. Agrees(e)'
      BY <1>0, <1>1, <1>5, <2>1 DEF Sound, Agrees, Moves
    <2>3. Stage(e)'
      BY <1>0, <1>1, <1>2, <1>5, <2>1 DEF Sound, Stage, InstallStage, ReinstallStage, Moves
    <2>4. Whole(e)'
      BY <1>1, <1>2, <1>5 DEF Sound, Whole
    <2> QED
      BY <1>0, <2>2, <2>3, <2>4, AloneStays DEF Sound
  <1> QED
    BY <1>3, <1>4, <1>5 DEF Built

LEMMA SwapSound ==
  ASSUME TypeInv, NEW e \in Engines, Sound(e), Swap(e)
  PROVE  Sound(e)'
  <1>0. Works(e) /\ up' = up /\ uninstall' = uninstall /\ job[e].pc = "swapping"
    BY DEF Works, Swap
  <1>1. entry' = entry /\ kept' = kept /\ disk' = disk
    BY DEF Swap
  <1>2. job[e].kind = "reinstall" /\ disk[e][job[e].slot] = "built" /\ entry[e] # "absent"
    BY <1>0 DEF Sound, Stage, InstallStage, ReinstallStage
  <1>3. CASE Records(e) /\ GoesTo(e, "stopping")
    <2>1. Moves(e, "stopping")
      BY <1>0, <1>3, Working DEF Pcs
    <2>2. record'[e] = job[e].slot
      BY <1>3 DEF Records, TypeInv, RestInv
    <2>3. Agrees(e)'
      BY <1>0, <1>1, <1>2, <2>1, Working DEF Agrees, Moves
    <2>4. Stage(e)'
      BY <1>0, <1>1, <1>2, <2>1, <2>2 DEF Sound, Stage, InstallStage, ReinstallStage, Moves
    <2>5. Whole(e)'
      BY <1>1, <1>2, <2>2 DEF Sound, Whole
    <2> QED
      BY <1>0, <2>3, <2>4, <2>5, AloneStays DEF Sound
  <1>4. CASE JobOver(e) /\ UNCHANGED record
    <2>1. job'[e] = NoJob
      BY <1>0, <1>4, Working
    <2>2. Agrees(e)'
      BY <1>0, <1>1, <1>4, <2>1, NoJobTyped DEF Sound, Agrees
    <2>3. Whole(e)'
      BY <1>1, <1>4 DEF Sound, Whole
    <2> QED
      BY <1>0, <2>1, <2>2, <2>3, OverSound
  <1> QED
    BY <1>3, <1>4 DEF Swap

LEMMA GiveUpSound ==
  ASSUME TypeInv, NEW e \in Engines, Sound(e), GiveUp(e)
  PROVE  Sound(e)'
  <1>0. Works(e) /\ up' = up /\ uninstall' = uninstall /\ job[e].pc = "swapping"
    BY DEF Works, GiveUp
  <1>1. entry' = entry /\ record' = record /\ kept' = kept
    BY DEF GiveUp
  <1>2. Moves(e, "undoing")
    BY <1>0, Working DEF Pcs, GiveUp
  <1>3. \A t \in Slots \ {job[e].slot} : disk'[e][t] = disk[e][t]
    BY <1>0, Working, GoingStep DEF GiveUp
  <1>4. entry[e] # job[e].slot /\ record[e] # job[e].slot
    BY <1>0 DEF Sound, Stage, InstallStage, ReinstallStage
  <1>5. Whole(e)'
    BY <1>0, <1>1, <1>3, <1>4, Working, WholeElsewhere DEF Sound
  <1>6. Agrees(e)'
    BY <1>0, <1>1, <1>2 DEF Sound, Agrees, Moves
  <1>7. Stage(e)'
    BY <1>0, <1>1, <1>2 DEF Sound, Stage, InstallStage, ReinstallStage, Moves
  <1> QED
    BY <1>0, <1>5, <1>6, <1>7, AloneStays DEF Sound

LEMMA UndoneSound ==
  ASSUME TypeInv, NEW e \in Engines, Sound(e), Undone(e)
  PROVE  Sound(e)'
  <1>0. Works(e) /\ up' = up /\ uninstall' = uninstall /\ job[e].pc = "undoing"
    BY DEF Works, Undone
  <1>1. entry' = entry /\ record' = record /\ kept' = kept /\ job'[e] = NoJob
    BY <1>0, Working DEF Undone
  <1>2. \A t \in Slots \ {job[e].slot} : disk'[e][t] = disk[e][t]
    BY <1>0, Working DEF Undone, Disk
  <1>3. Whole(e)'
    BY <1>0, <1>1, <1>2, SlotUnused, Working, WholeElsewhere DEF Sound
  <1>4. Agrees(e)'
    BY <1>0, <1>1, NoJobTyped DEF Sound, Agrees
  <1> QED
    BY <1>0, <1>1, <1>3, <1>4, OverSound

(* The engine is declared: from here on it runs and boots from its slot.   *)
LEMMA DeclareSound ==
  ASSUME TypeInv, NEW e \in Engines, Sound(e), Declare(e)
  PROVE  Sound(e)' /\ disk'[e][job[e].slot] = "built"
  <1>0. Works(e) /\ up' = up /\ uninstall' = uninstall /\ job[e].pc = "stopping"
    BY DEF Works, Declare
  <1>1. entry'[e] = job[e].slot /\ record'[e] = job[e].slot /\ entry'[e] # "absent"
    BY <1>0, Working DEF Declare, TypeInv, RestInv, Sound, Stage, Slots
  <1>2. disk[e][job[e].slot] = "built"
    BY <1>0 DEF Sound, Stage
  <1>3. CASE /\ job[e].old \in Slots /\ disk' = Going(disk, e, job[e].old)
             /\ GoesTo(e, "dropping")
    <2>1. Moves(e, "dropping")
      BY <1>0, <1>3, Working DEF Pcs
    <2>2. job[e].kind = "reinstall" /\ job[e].slot # job[e].old
      BY <1>0, <1>3 DEF Sound, Stage, InstallStage, ReinstallStage, Slots
    <2>3. disk'[e][job[e].slot] = "built"
      BY <1>0, <1>2, <1>3, <2>2, Working, GoingStep
    <2>4. Whole(e)'
      BY <1>1, <2>3 DEF Whole
    <2>5. Agrees(e)'
      BY <1>0, <1>1, Working DEF Agrees
    <2>6. Stage(e)'
      BY <1>1, <1>3, <2>1, <2>2, <2>3 DEF Sound, Stage, InstallStage, ReinstallStage, Moves
    <2> QED
      BY <1>0, <2>3, <2>4, <2>5, <2>6, AloneStays DEF Sound
  <1>4. CASE GoesOn(e) /\ UNCHANGED disk
    <2>1. Whole(e)'
      BY <1>1, <1>2, <1>4 DEF Whole
    <2>2. Agrees(e)'
      BY <1>0, <1>1, Working DEF Agrees
    <2>3. CASE JobOver(e)
      <3>1. job'[e] = NoJob
        BY <1>0, <2>3, Working
      <3> QED
        BY <1>0, <1>2, <1>4, <2>1, <2>2, <3>1, OverSound
    <2>4. CASE GoesTo(e, "fetching")
      <3>1. Moves(e, "fetching")
        BY <1>0, <2>4, Working DEF Pcs
      <3>2. Stage(e)'
        BY <1>0, <1>1, <3>1 DEF Sound, Stage, InstallStage, ReinstallStage, Moves
      <3> QED
        BY <1>0, <1>2, <1>4, <2>1, <2>2, <3>2, AloneStays DEF Sound
    <2> QED
      BY <1>4, <2>3, <2>4 DEF GoesOn
  <1> QED
    BY <1>3, <1>4 DEF Declare

LEMMA DroppedSound ==
  ASSUME TypeInv, NEW e \in Engines, Sound(e), Dropped(e)
  PROVE  Sound(e)'
  <1>0. Works(e) /\ up' = up /\ uninstall' = uninstall /\ job[e].pc = "dropping"
    BY DEF Works, Dropped
  <1>1. entry' = entry /\ record' = record /\ kept' = kept
    BY DEF Dropped
  <1>2. /\ job[e].kind = "reinstall" /\ job[e].old \in Slots /\ entry[e] = job[e].slot
        /\ job[e].slot # job[e].old /\ entry[e] # "absent" /\ entry[e] = record[e]
    <2>1. /\ job[e].kind = "reinstall" /\ job[e].old \in Slots /\ entry[e] = job[e].slot
          /\ job[e].slot # job[e].old
      BY <1>0 DEF Sound, Stage, InstallStage, ReinstallStage
    <2>2. entry[e] # "absent"
      BY <1>0, <2>1, Working DEF Slots
    <2> QED
      BY <1>0, <2>1, <2>2 DEF Sound, Agrees
  <1>3. \A t \in Slots \ {job[e].old} : disk'[e][t] = disk[e][t]
    BY <1>0, Working DEF Dropped, Disk
  <1>4. Whole(e)'
    BY <1>1, <1>2, <1>3, WholeElsewhere DEF Sound
  <1>5. Agrees(e)'
    BY <1>0, <1>1, <1>2, Working DEF Agrees
  <1>6. CASE JobOver(e)
    <2>1. job'[e] = NoJob
      BY <1>0, <1>6, Working
    <2> QED
      BY <1>0, <1>4, <1>5, <2>1, OverSound
  <1>7. CASE GoesTo(e, "fetching")
    <2>1. Moves(e, "fetching")
      BY <1>0, <1>7, Working DEF Pcs
    <2>2. Stage(e)'
      BY <1>1, <1>2, <2>1 DEF Stage, InstallStage, ReinstallStage, Moves
    <2> QED
      BY <1>0, <1>4, <1>5, <2>2, AloneStays DEF Sound
  <1> QED
    BY <1>6, <1>7 DEF Dropped, GoesOn

LEMMA FetchedSound ==
  ASSUME TypeInv, NEW e \in Engines, Sound(e), Fetched(e)
  PROVE  Sound(e)'
  <1>0. Works(e) /\ up' = up /\ uninstall' = uninstall /\ job[e].pc = "fetching"
    BY DEF Works, Fetched
  <1>1. entry' = entry /\ kept' = kept /\ disk' = disk /\ job'[e] = NoJob
    BY <1>0, Working DEF Fetched
  <1>2. record'[e] = record[e]
    <2>1. job[e].kind = "install" => record[e] # "absent"
      BY <1>0 DEF Sound, Stage, InstallStage, Agrees
    <2> QED
      BY <2>1 DEF Fetched, TypeInv, RestInv
  <1>3. Agrees(e)'
    BY <1>0, <1>1, <1>2, NoJobTyped DEF Sound, Agrees
  <1>4. Whole(e)'
    BY <1>1, <1>2 DEF Sound, Whole
  <1> QED
    BY <1>0, <1>1, <1>3, <1>4, OverSound

LEMMA WorksSound ==
  ASSUME TypeInv, NEW e \in Engines, Sound(e), Works(e)
  PROVE  Sound(e)'
  BY BeginSound, ClearedSound, EmptiedSound, BuiltSound, BuildFailsSound, SwapSound, GiveUpSound,
     UndoneSound, DeclareSound, DroppedSound, FetchedSound DEF Works

(* A job is asked for of an engine that is not being uninstalled.          *)
LEMMA SubmitSound ==
  ASSUME "overlap" \notin Faults, TypeInv, NEW e \in Engines, Sound(e), Submit(e)
  PROVE  Sound(e)'
  <1>1. /\ up /\ up' = up /\ job[e].pc = "none" /\ uninstall[e] = NoUninstall
        /\ uninstall' = uninstall /\ entry' = entry /\ record' = record /\ kept' = kept
        /\ disk' = disk
    BY DEF Submit, Busy
  <1>2. PICK kind \in Kinds :
          /\ kind = "install" <=> entry[e] = "absent"
          /\ job' = [job EXCEPT ![e] = [NoJob EXCEPT !.pc = "queued", !.kind = kind]]
    BY DEF Submit
  <1>3. job'[e] = [NoJob EXCEPT !.pc = "queued", !.kind = kind]
    BY <1>2 DEF TypeInv, JobInv
  <1>4. /\ job'[e].pc = "queued" /\ job'[e].kind = kind /\ job'[e].slot = "primary"
        /\ job'[e].old = "absent"
    BY <1>3 DEF NoJob
  <1>5. Alone(e)'
    BY <1>1 DEF Alone
  <1>6. Agrees(e)'
    BY <1>1, <1>4 DEF Sound, Agrees
  <1>7. Stage(e)'
    BY <1>1, <1>2, <1>4 DEF Stage, InstallStage, ReinstallStage
  <1>8. Whole(e)'
    BY <1>1 DEF Sound, Whole
  <1> QED
    BY <1>5, <1>6, <1>7, <1>8 DEF Sound

LEMMA AskSound ==
  ASSUME TypeInv, NEW e \in Engines, Sound(e), AskUninstall(e)
  PROVE  Sound(e)'
  <1>1. /\ up /\ up' = up /\ job[e].pc = "none" /\ job' = job /\ entry[e] # "absent"
        /\ entry' = entry /\ record' = record /\ kept' = kept /\ disk' = disk
    BY DEF AskUninstall, Busy
  <1>2. uninstall'[e].pc = "locking"
    <2>1. uninstall'[e] = [pc |-> "locking", todo |-> SlotsOf(entry[e])]
      BY DEF AskUninstall, TypeInv, RestInv
    <2> QED
      BY <2>1
  <1>3. Alone(e)'
    BY <1>1 DEF Alone
  <1>4. Agrees(e)'
    BY <1>1, <1>2 DEF Sound, Agrees
  <1>5. Stage(e)'
    BY <1>1 DEF Sound, Stage, InstallStage, ReinstallStage
  <1>6. Whole(e)'
    BY <1>1 DEF Sound, Whole
  <1> QED
    BY <1>3, <1>4, <1>5, <1>6 DEF Sound

(* An uninstall at work has the engine to itself, and the core runs.       *)
LEMMA Removing ==
  ASSUME TypeInv, NEW e \in Engines, Sound(e), Removes(e)
  PROVE  /\ up /\ job[e].pc = "none" /\ job' = job /\ up' = up
         /\ uninstall[e] \in Uninstall /\ uninstall[e].todo \in Seq(Slots) /\ disk \in Disk
         /\ NoUninstall.pc = "none"
  <1>1. uninstall[e].pc # "none"
    BY DEF Removes, UninstallBegins, UninstallRemoves, UninstallForgets, UninstallDeleted
  <1>2. NoUninstall.pc = "none"
    BY DEF NoUninstall
  <1>3. uninstall[e] # NoUninstall
    BY <1>1, <1>2
  <1>4. up /\ job[e].pc = "none"
    BY <1>3 DEF Sound, Alone
  <1>5. job' = job /\ up' = up
    BY DEF Removes, UninstallBegins, UninstallRemoves, UninstallForgets, UninstallDeleted
  <1>6. uninstall[e] \in Uninstall /\ disk \in Disk
    BY DEF TypeInv, RestInv, Disk
  <1> QED
    BY <1>2, <1>4, <1>5, <1>6 DEF Uninstall

LEMMA RemovesSound ==
  ASSUME TypeInv, NEW e \in Engines, Sound(e), Removes(e)
  PROVE  Sound(e)'
  <1>1. Alone(e)' /\ (entry[e] # "absent" => entry[e] = record[e])
    BY Removing DEF Sound, Alone, Agrees
  <1>2. CASE UninstallBegins(e)
    <2>1. uninstall'[e].pc \in {"none", "stopping"}
      BY <1>2, Removing DEF UninstallBegins, TypeInv, RestInv, Uninstall
    <2>2. entry' = entry /\ record' = record /\ kept' = kept /\ disk' = disk /\ uninstall[e].pc = "locking"
      BY <1>2 DEF UninstallBegins
    <2>3. Agrees(e)'
      BY <2>1, <2>2, Removing DEF Sound, Agrees
    <2>4. Stage(e)' /\ Whole(e)'
      BY <2>2, Removing DEF Sound, Whole, Stage, InstallStage, ReinstallStage
    <2> QED
      BY <1>1, <2>3, <2>4 DEF Sound
  <1>3. CASE UninstallRemoves(e)
    <2>1. uninstall'[e].pc = "forgetting"
      BY <1>3, Removing DEF UninstallRemoves, TypeInv, RestInv, Uninstall
    <2>2. entry'[e] = "absent" /\ record' = record /\ kept' = kept /\ disk' = disk
      BY <1>3 DEF UninstallRemoves, TypeInv, RestInv
    <2>3. Agrees(e)'
      BY <2>1, <2>2, Removing DEF Agrees
    <2>4. Stage(e)'
      BY <2>2, Removing DEF Sound, Stage, InstallStage, ReinstallStage
    <2>5. Whole(e)'
      BY <2>2 DEF Sound, Whole, Slots
    <2> QED
      BY <1>1, <2>3, <2>4, <2>5 DEF Sound
  <1>4. CASE UninstallForgets(e)
    <2>1. entry' = entry /\ entry[e] = "absent"
      BY <1>4 DEF UninstallForgets, Sound, Agrees
    <2>2. CASE /\ record' = [record EXCEPT ![e] = "absent"] /\ kept' = kept \ {e}
               /\ Deletes(e, disk, uninstall[e].todo)
      <3>1. record'[e] = "absent"
        BY <2>2 DEF TypeInv, RestInv
      <3>2. Agrees(e)' /\ Whole(e)'
        BY <2>1, <3>1 DEF Agrees, Whole, Slots
      <3>3. Stage(e)'
        BY <2>1, Removing DEF Sound, Stage, InstallStage, ReinstallStage
      <3> QED
        BY <1>1, <3>2, <3>3 DEF Sound
    <2>3. CASE /\ kept' = kept \cup {e}
               /\ uninstall' = [uninstall EXCEPT ![e] = NoUninstall] /\ UNCHANGED <<record, disk>>
      <3>1. uninstall'[e].pc = "none"
        BY <2>3, Removing DEF TypeInv, RestInv
      <3>2. Agrees(e)' /\ Whole(e)'
        BY <2>1, <2>3, <3>1 DEF Agrees, Whole
      <3>3. Stage(e)'
        BY <2>1, <2>3, Removing DEF Sound, Stage, InstallStage, ReinstallStage
      <3> QED
        BY <1>1, <3>2, <3>3 DEF Sound
    <2> QED
      BY <1>4, <2>2, <2>3 DEF UninstallForgets
  <1>5. CASE UninstallDeleted(e)
    <2>1. /\ entry' = entry /\ entry[e] = "absent" /\ record' = record /\ record[e] = "absent"
      BY <1>5 DEF UninstallDeleted, Sound, Agrees
    <2>2. Agrees(e)' /\ Whole(e)'
      BY <2>1 DEF Agrees, Whole, Slots
    <2>3. Stage(e)'
      BY <2>1, Removing DEF Sound, Stage, InstallStage, ReinstallStage
    <2> QED
      BY <1>1, <2>2, <2>3 DEF Sound
  <1> QED
    BY <1>2, <1>3, <1>4, <1>5 DEF Removes

(* The core goes down, and comes up with what is recorded.                 *)
LEMMA DownSound ==
  ASSUME TypeInv, NEW e \in Engines, Sound(e), Down
  PROVE  Sound(e)'
  <1>1. /\ up' = FALSE /\ entry'[e] = "absent" /\ job'[e] = NoJob /\ uninstall'[e] = NoUninstall
        /\ record' = record /\ disk' = disk /\ kept' = kept
    BY DEF Down
  <1>2. NoUninstall.pc = "none"
    BY DEF NoUninstall
  <1>3. Alone(e)'
    BY <1>1, NoJobTyped DEF Alone
  <1>4. Agrees(e)'
    BY <1>1, <1>2 DEF Agrees
  <1>5. Stage(e)'
    BY <1>1, NoJobTyped DEF Stage, InstallStage, ReinstallStage
  <1>6. Whole(e)'
    BY <1>1 DEF Sound, Whole, Slots
  <1> QED
    BY <1>3, <1>4, <1>5, <1>6 DEF Sound

LEMMA BootSound ==
  ASSUME TypeInv, NEW e \in Engines, Sound(e), Boot
  PROVE  Sound(e)'
  <1>1. /\ ~up /\ entry' = record /\ record' = record /\ job' = job /\ uninstall' = uninstall
        /\ disk' = disk /\ kept' = kept /\ up' = TRUE
    BY DEF Boot
  <1>2. job[e].pc = "none" /\ uninstall[e] = NoUninstall /\ NoUninstall.pc = "none"
    BY <1>1 DEF Sound, Alone, NoUninstall
  <1>3. Alone(e)'
    BY <1>1, <1>2 DEF Alone
  <1>4. Agrees(e)'
    BY <1>1, <1>2 DEF Agrees
  <1>5. Stage(e)'
    BY <1>1, <1>2 DEF Sound, Stage, InstallStage, ReinstallStage
  <1>6. Whole(e)'
    BY <1>1 DEF Sound, Whole
  <1> QED
    BY <1>3, <1>4, <1>5, <1>6 DEF Sound

LEMMA AsideSound ==
  ASSUME TypeInv, NEW e \in Engines, Sound(e), Stop \/ UNCHANGED vars
  PROVE  Sound(e)'
  <1>1. /\ up' = up /\ entry' = entry /\ record' = record /\ job' = job
        /\ uninstall' = uninstall /\ disk' = disk /\ kept' = kept
    BY DEF Stop, vars
  <1> QED
    BY <1>1 DEF Sound, Alone, Agrees, Whole, Stage, InstallStage, ReinstallStage

LEMMA InitIInv ==
  ASSUME Init
  PROVE  IInv
  <1>1. ASSUME NEW e \in Engines
        PROVE  Sound(e)
    <2>1. /\ up /\ job[e] = NoJob /\ uninstall[e] = NoUninstall /\ entry[e] = record[e]
          /\ record[e] \in {"absent", "primary"} /\ kept = {}
          /\ \A s \in Slots : disk[e][s] = IF s = record[e] THEN "built" ELSE "empty"
      BY DEF Init
    <2>2. Alone(e) /\ Stage(e)
      BY <2>1, NoJobTyped DEF Alone, Stage, InstallStage, ReinstallStage
    <2>3. NoUninstall.pc = "none"
      BY DEF NoUninstall
    <2>4. Agrees(e)
      BY <2>1, <2>3 DEF Agrees
    <2>5. Whole(e)
      BY <2>1 DEF Whole
    <2> QED
      BY <2>2, <2>4, <2>5 DEF Sound
  <1> QED
    BY <1>1, InitTyped DEF IInv

LEMMA NextIInv ==
  ASSUME "overlap" \notin Faults, IInv, [Next]_vars
  PROVE  IInv'
  <1>1. TypeInv /\ TypeInv'
    BY NextTyped DEF IInv
  <1>2. CASE Stop \/ Crash \/ Exit \/ Boot \/ UNCHANGED vars
    <2>1. Stop \/ UNCHANGED vars \/ Down \/ Boot
      BY <1>2 DEF Crash, Exit
    <2> QED
      BY <1>1, <2>1, AsideSound, DownSound, BootSound DEF IInv
  <1>3. ASSUME NEW e \in Engines, Submit(e) \/ Works(e) \/ AskUninstall(e) \/ Removes(e)
        PROVE  IInv'
    <2>1. Touches(e)
      BY <1>1, <1>3, SubmitTyped, WorksTyped, AskTyped, RemovesTyped
    <2>2. Sound(e)'
      BY <1>1, <1>3, SubmitSound, WorksSound, AskSound, RemovesSound DEF IInv
    <2>3. \A f \in Engines \ {e} : Sound(f)'
      BY <2>1, OthersSound DEF IInv
    <2> QED
      BY <1>1, <2>2, <2>3 DEF IInv
  <1> QED
    BY <1>2, <1>3 DEF Next

-----------------------------------------------------------------------------
(* Every variable has its type, and the queue of jobs holds each job that  *)
(* has not finished once, whatever is asked for, fails and dies.           *)
THEOREM InstallTypeCorrect == Spec => []TypeOK
  <1>1. Init => TypeInv
    BY InitTyped
  <1>2. TypeInv /\ [Next]_vars => TypeInv'
    BY NextTyped
  <1>3. TypeInv => TypeOK
    BY DEF TypeInv, JobInv, RestInv, TypeOK, Line, Once
  <1> QED
    BY <1>1, <1>2, <1>3, PTL DEF Spec

(* As long as no job is asked for of an engine while it is uninstalled,    *)
(* the invariant that follows each install, reinstall and uninstall.       *)
THEOREM InstallInvariance ==
  ASSUME "overlap" \notin Faults
  PROVE  Spec => []IInv
  <1>1. Init => IInv
    BY InitIInv
  <1>2. IInv /\ [Next]_vars => IInv'
    BY NextIInv
  <1> QED
    BY <1>1, <1>2, PTL DEF Spec

(* An engine never runs from a virtualenv that a job builds over, a failed *)
(* reinstall removes or an uninstall deletes.                              *)
THEOREM EngineNeverBroken ==
  ASSUME "overlap" \notin Faults
  PROVE  Spec => []EngineIntact
  <1>1. IInv => EngineIntact
    BY DEF IInv, Sound, Whole, EngineIntact
  <1> QED
    BY <1>1, InstallInvariance, PTL

(* A core that dies between any two steps of a job or an uninstall boots   *)
(* each engine it has recorded on a virtualenv that is whole.              *)
THEOREM EveryBootWhole ==
  ASSUME "overlap" \notin Faults
  PROVE  Spec => []BootsIntact
  <1>1. IInv => BootsIntact
    BY DEF IInv, Sound, Whole, BootsIntact
  <1> QED
    BY <1>1, InstallInvariance, PTL

(* Until a reinstall swaps, the engine runs, and would boot, from the slot *)
(* it did before.                                                          *)
THEOREM ReinstallKeepsWorking ==
  ASSUME "overlap" \notin Faults
  PROVE  Spec => []KeepsWorking
  <1>1. IInv => KeepsWorking
    BY DEF IInv, Sound, Stage, ReinstallStage, KeepsWorking
  <1> QED
    BY <1>1, InstallInvariance, PTL

(* Without such an overlap an engine is declared with what was built and   *)
(* verified: the overlap that TLC finds is the only way it is not.         *)
THEOREM DeclaredAsVerified ==
  ASSUME "overlap" \notin Faults
  PROVE  Spec => DeclaresWhatItVerified
  <1>1. IInv /\ [Next]_vars =>
          [\A e \in Engines : entry'[e] # entry[e] /\ entry'[e] \in Slots /\ up =>
             disk'[e][entry'[e]] = "built"]_vars
    <2> SUFFICES ASSUME IInv, [Next]_vars, NEW e \in Engines,
                        entry'[e] # entry[e], entry'[e] \in Slots, up
                 PROVE  disk'[e][entry'[e]] = "built"
      OBVIOUS
    <2>1. TypeInv /\ Sound(e)
      BY DEF IInv
    <2>2. ASSUME NEW f \in Engines, Submit(f) \/ Works(f) \/ AskUninstall(f) \/ Removes(f), f # e
          PROVE  FALSE
      <3>1. Touches(f)
        BY <2>1, <2>2, SubmitTyped, WorksTyped, AskTyped, RemovesTyped
      <3> QED
        BY <2>2, <3>1 DEF Touches
    <2>3. CASE Declare(e)
      <3>1. entry'[e] = job[e].slot
        BY <2>1, <2>3 DEF Declare, TypeInv, RestInv
      <3> QED
        BY <2>1, <2>3, <3>1, DeclareSound
    <2>4. CASE UninstallRemoves(e)
      <3>1. entry'[e] = "absent"
        BY <2>1, <2>4 DEF UninstallRemoves, TypeInv, RestInv
      <3> QED
        BY <3>1 DEF Slots
    <2>5. CASE Works(e) /\ ~Declare(e)
      BY <2>5 DEF Works, Begin, Cleared, Emptied, Built, BuildFails, Swap, GiveUp, Undone,
                  Dropped, Fetched
    <2>6. CASE Submit(e) \/ AskUninstall(e) \/ (Removes(e) /\ ~UninstallRemoves(e))
      BY <2>6 DEF Submit, AskUninstall, Removes, UninstallBegins, UninstallForgets, UninstallDeleted
    <2>7. CASE Stop \/ Boot \/ UNCHANGED vars
      BY <2>7 DEF Stop, Boot, vars
    <2>8. CASE Crash \/ Exit
      BY <2>8 DEF Crash, Exit, Down, Slots
    <2> QED
      BY <2>2, <2>3, <2>4, <2>5, <2>6, <2>7, <2>8 DEF Next
  <1> QED
    BY <1>1, InstallInvariance, PTL DEF Spec, DeclaresWhatItVerified

=============================================================================
