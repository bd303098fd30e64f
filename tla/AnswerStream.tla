----------------------------- MODULE AnswerStream -----------------------------
(***************************************************************************)
(* One answer of a Python worker, from the engine's thread to the client:  *)
(* the thread and its bounded queue (rhapsode_worker/streaming.py), the    *)
(* encoder between its three pipes (encoding.py), the handler that primes  *)
(* both and streams the rest, and the trailer (app.py, trailers.py).       *)
(*                                                                         *)
(* It starts where ModelWorker's request starts to speak, with the slot    *)
(* held.  A chunk of the engine is its number, and so is the block that an *)
(* encoder makes of it.  Who reads the answer is SpeakDelivery's: it says  *)
(* when Send and HangsUp may happen, and is the specification of both.     *)
(***************************************************************************)
EXTENDS Integers, Sequences, SequencesExt

CONSTANTS
  Most,     \* the longest utterance, in chunks
  Depth,    \* QUEUE_DEPTH
  Pipe,     \* what one pipe of the encoder holds, in blocks
  Formats,  \* those of this instance
  Faults    \* what goes wrong in this instance

(* A queue of one would hold a thread that has a chunk and its end to deliver to nobody. *)
ASSUME StreamAssumption ==
  /\ Most \in Nat \ {0} /\ Pipe \in Nat \ {0}
  /\ Depth \in Nat /\ Depth > 1
  /\ Formats \subseteq {"pcm", "wav", "opus"}
  /\ Faults \subseteq {"engine", "spawn", "encoder", "early"}

VARIABLES
  request,  \* what was asked for: its format, and whether to stream
  engine,   \* the thread that runs the adapter's generator
  queue,    \* from_blocking's queue
  source,   \* from_blocking's generator: read, closing, or over
  replay,   \* PCM taken from the queue ahead of whoever reads it
  counted,  \* _Counted.bytes
  feeder,   \* the task that writes to the encoder
  ffmpeg,   \* the encoder (external)
  pipe,     \* its stdin, stdout and stderr (external)
  drainer,  \* the task that reads its diagnostics
  task,     \* where the handler is, and then the response
  out,      \* what it has in hand for the client
  wire,     \* what the client has been sent
  slot      \* whether release() was called, and what the semaphore holds

vars == <<request, engine, queue, source, replay, counted, feeder, ffmpeg, pipe, drainer,
          task, out, wire, slot>>
pcmVars == <<engine, queue, source, replay, counted>>
encoderVars == <<feeder, ffmpeg, pipe, drainer>>
answerVars == <<task, out, wire, slot>>

Header == 0          \* what a WAV starts with
End == Most + 1      \* _Stop(None)
Raised == Most + 2   \* _Stop(error)
IsChunk(item) == item \notin {End, Raised}
Encodes == request.format = "opus"

Init ==
  /\ request \in [format : Formats, stream : BOOLEAN]
  /\ engine \in [at : {"making"}, made : {0}, length : 0..Most, failed : {FALSE}]
  /\ queue = <<>> /\ source = "open" /\ replay = <<>> /\ counted = 0
  /\ feeder = [at |-> "off", hand |-> End, upstream |-> FALSE]
  /\ ffmpeg = [at |-> "off", hand |-> End, early |-> FALSE]
  /\ pipe = [in |-> <<>>, open |-> TRUE, out |-> <<>>, err |-> 0]
  /\ drainer = "off"
  /\ task = IF request.stream THEN "prime" ELSE "collect"
  /\ out = <<>>
  /\ wire = [status |-> "none", sent |-> <<>>, ending |-> "none", duration |-> -1]
  /\ slot = [released |-> FALSE, free |-> 0]

----------------------------------------------------------------------------
(* The engine's thread: it makes a chunk, and looks whether anyone still wants it. *)
Make ==
  /\ engine.at = "making" /\ engine.made < engine.length
  /\ engine' = [engine EXCEPT !.made = @ + 1,
                              !.at = IF source = "open" THEN "putting" ELSE "stopping"]
  /\ UNCHANGED <<request, queue, source, replay, counted, encoderVars, answerVars>>

(* The adapter's generator is exhausted, or raises. *)
Exhausted ==
  /\ engine.at = "making" /\ engine.made = engine.length
  /\ engine' = [engine EXCEPT !.at = "stopping"]
  /\ UNCHANGED <<request, queue, source, replay, counted, encoderVars, answerVars>>

EngineRaises ==
  /\ "engine" \in Faults /\ engine.at = "making"
  /\ engine' = [engine EXCEPT !.at = "stopping", !.failed = TRUE]
  /\ UNCHANGED <<request, queue, source, replay, counted, encoderVars, answerVars>>

(* Mutant: a queue without a bound. *)
AlwaysRoom == Len(queue) < 3 * Depth

(* queue.put waits for room. *)
Room == Len(queue) < Depth

Put ==
  /\ engine.at \in {"putting", "stopping"} /\ Room
  /\ \/ /\ engine.at = "putting"
        /\ queue' = Append(queue, engine.made)
        /\ engine' = [engine EXCEPT !.at = "making"]
     \/ /\ engine.at = "stopping"
        /\ queue' = Append(queue, IF engine.failed THEN Raised ELSE End)
        /\ engine' = [engine EXCEPT !.at = "exited"]
  /\ UNCHANGED <<request, source, replay, counted, encoderVars, answerVars>>

(* on_exit has told the loop that the device is free. *)
ThreadGone ==
  /\ engine.at = "exited"
  /\ engine' = [engine EXCEPT !.at = "gone"]
  /\ UNCHANGED <<request, queue, source, replay, counted, encoderVars, answerVars>>

(* The generator is closed by a task of its own: it stops the thread and drains the queue. *)
Abandon == IF source = "open" THEN "draining" ELSE source

Drain ==
  /\ source = "draining"
  /\ \/ queue # <<>> /\ queue' = Tail(queue) /\ UNCHANGED source
     \/ /\ queue = <<>> /\ engine.at \in {"exited", "gone"}
        /\ source' = "closed" /\ UNCHANGED queue
  /\ UNCHANGED <<request, engine, replay, counted, encoderVars, answerVars>>

----------------------------------------------------------------------------
(* What the next reader of the PCM finds, and the reading of it. *)
Available == replay # <<>> \/ (source = "open" /\ queue # <<>>)
Item == IF replay # <<>> THEN Head(replay) ELSE Head(queue)
Take ==
  /\ Available
  /\ IF replay # <<>> THEN replay' = Tail(replay) /\ UNCHANGED queue
                      ELSE queue' = Tail(queue) /\ UNCHANGED replay
  /\ source' = IF IsChunk(Item) THEN source ELSE "closed"
  /\ counted' = IF IsChunk(Item) /\ request.stream THEN counted + 1 ELSE counted
  /\ UNCHANGED <<request, engine>>

(* release(), called as often as the code that is left calls it. *)
Release(calls) ==
  slot' = [released |-> TRUE, free |-> IF slot.released THEN slot.free ELSE slot.free + 1]

(* The handler raises: a status.  A buffered answer gives its slot back twice on the way. *)
Refuse ==
  /\ task' = "returned" /\ Release(IF request.stream THEN 1 ELSE 2)
  /\ wire' = [wire EXCEPT !.status = "refused"]

(* The body raises: the connection is aborted. *)
Abort ==
  /\ task' = "returned" /\ Release(1)
  /\ wire' = [wire EXCEPT !.ending = "aborted"]

Fail == (task = "pull" /\ Abort) \/ (task # "pull" /\ Refuse)

(* The body is exhausted: the slot goes back, and the end and the trailer are to come. *)
EndOfBody ==
  /\ task' = "end" /\ Release(1) /\ UNCHANGED wire

(* A buffered answer, all at once. *)
Reply(blocks) ==
  /\ task' = "returned" /\ Release(1)
  /\ wire' = [status |-> "ok", sent |-> blocks, ending |-> "whole", duration |-> counted]

(* Mutant: the first chunk is looked at and not put back. *)
Forgotten(item) == <<>>

(* _replay: a stream that still starts with the chunk that was pulled. *)
Replayed(item) == <<item>>

(* The engine's first chunk is pulled, or what it has instead. *)
PullFirst ==
  /\ task = "prime" /\ queue # <<>>
  /\ queue' = Tail(queue)
  /\ \/ /\ IsChunk(Head(queue))
        /\ replay' = Replayed(Head(queue)) /\ task' = "encoder"
        /\ UNCHANGED <<source, wire, slot>>
     \/ /\ ~IsChunk(Head(queue))
        /\ source' = "closed" /\ Refuse /\ UNCHANGED replay
  /\ UNCHANGED <<request, engine, counted, encoderVars, out>>

(* Mutant: only the encoded stream is primed, and a WAV's starts with its header. *)
PrimeEncodedOnly ==
  \/ request.format # "wav" /\ PullFirst
  \/ /\ task = "prime" /\ request.format = "wav" /\ task' = "encoder"
     /\ UNCHANGED <<request, pcmVars, encoderVars, out, wire, slot>>

(* A stream is primed with PCM first, before a status exists. *)
Prime == PullFirst

(* stream: false reads all of the engine's PCM first. *)
Collect ==
  /\ task = "collect" /\ queue # <<>>
  /\ queue' = Tail(queue)
  /\ \/ /\ IsChunk(Head(queue))
        /\ replay' = Append(replay, Head(queue)) /\ counted' = counted + 1
        /\ UNCHANGED <<source, task, wire, slot>>
     \/ /\ Head(queue) = End
        /\ replay' = Append(replay, End) /\ source' = "closed" /\ task' = "encodeAll"
        /\ UNCHANGED <<counted, wire, slot>>
     \/ /\ Head(queue) = Raised
        /\ source' = "closed" /\ Refuse /\ UNCHANGED <<replay, counted>>
  /\ UNCHANGED <<request, engine, encoderVars, out>>

(* The first block of a stream that needs no encoder. *)
PrimeEncoded ==
  /\ task = "encoder" /\ ~Encodes
  /\ \/ /\ request.format = "wav" /\ out' = <<Header>>
        /\ UNCHANGED pcmVars
     \/ /\ request.format = "pcm" /\ Take /\ out' = <<Item>>
  /\ task' = "start"
  /\ UNCHANGED <<request, engine, encoderVars, wire, slot>>

ReplyPlain ==
  /\ task = "encodeAll" /\ ~Encodes
  /\ Reply((IF request.format = "wav" THEN <<Header>> ELSE <<>>) \o Front(replay))
  /\ UNCHANGED <<request, pcmVars, encoderVars, out>>

(* The encoder is started, and with it the tasks that feed it and drain its diagnostics. *)
StartEncoder ==
  /\ task \in {"encoder", "encodeAll"} /\ Encodes /\ ffmpeg.at = "off"
  /\ \/ /\ ffmpeg' = [ffmpeg EXCEPT !.at = "reading"]
        /\ feeder' = [feeder EXCEPT !.at = "pulling"] /\ drainer' = "reading"
        /\ UNCHANGED <<source, task, wire, slot>>
     \/ /\ "spawn" \in Faults
        /\ Refuse /\ source' = Abandon /\ UNCHANGED <<ffmpeg, feeder, drainer>>
  /\ UNCHANGED <<request, engine, queue, replay, counted, pipe, out>>

----------------------------------------------------------------------------
Running == ffmpeg.at \in {"reading", "complaining", "writing"}
Exited == ffmpeg.at \in {"ok", "failed"}

(* feed(): the next chunk of PCM, or the end or the failure of it. *)
FeederPulls ==
  /\ feeder.at = "pulling" /\ Take
  /\ feeder' = IF IsChunk(Item)
                 THEN [feeder EXCEPT !.at = "writing", !.hand = Item]
                 ELSE [feeder EXCEPT !.at = "closing", !.upstream = Item = Raised]
  /\ UNCHANGED <<ffmpeg, pipe, drainer, answerVars>>

(* The chunk is written when stdin has room; a pipe that broke is the encoder's to explain. *)
FeederWrites ==
  /\ feeder.at = "writing"
  /\ \/ /\ Running /\ Len(pipe.in) < Pipe
        /\ pipe' = [pipe EXCEPT !.in = Append(@, feeder.hand)]
        /\ feeder' = [feeder EXCEPT !.at = "pulling"]
     \/ /\ Exited
        /\ feeder' = [feeder EXCEPT !.at = "closing"] /\ UNCHANGED pipe
  /\ UNCHANGED <<request, pcmVars, ffmpeg, drainer, answerVars>>

(* It closes stdin and ends, and PCM that it has not read to its end is abandoned. *)
FeederCloses ==
  /\ feeder.at = "closing"
  /\ feeder' = [feeder EXCEPT !.at = "done"]
  /\ pipe' = [pipe EXCEPT !.open = FALSE] /\ source' = Abandon
  /\ UNCHANGED <<request, engine, queue, replay, counted, ffmpeg, drainer, answerVars>>

(* The encoder (external): it reads a block, may complain about it, and writes it. *)
EncoderReads ==
  /\ ffmpeg.at = "reading" /\ pipe.in # <<>>
  /\ pipe' = [pipe EXCEPT !.in = Tail(@)]
  /\ \E at \in {"complaining", "writing"} :
       ffmpeg' = [ffmpeg EXCEPT !.at = at, !.hand = Head(pipe.in)]
  /\ UNCHANGED <<request, pcmVars, feeder, drainer, answerVars>>

EncoderComplains ==
  /\ ffmpeg.at = "complaining" /\ pipe.err < Pipe
  /\ ffmpeg' = [ffmpeg EXCEPT !.at = "writing"]
  /\ pipe' = [pipe EXCEPT !.err = @ + 1]
  /\ UNCHANGED <<request, pcmVars, feeder, drainer, answerVars>>

EncoderWrites ==
  /\ ffmpeg.at = "writing" /\ Len(pipe.out) < Pipe
  /\ ffmpeg' = [ffmpeg EXCEPT !.at = "reading"]
  /\ pipe' = [pipe EXCEPT !.out = Append(@, ffmpeg.hand)]
  /\ UNCHANGED <<request, pcmVars, feeder, drainer, answerVars>>

(* It exits 0 at the end of its input, or when it decides that it is finished. *)
EncoderExits ==
  /\ ffmpeg.at = "reading"
  /\ LET atEnd == pipe.in = <<>> /\ ~pipe.open IN
       /\ atEnd \/ "early" \in Faults
       /\ ffmpeg' = [ffmpeg EXCEPT !.at = "ok", !.early = ~atEnd]
  /\ pipe' = [pipe EXCEPT !.in = <<>>]
  /\ UNCHANGED <<request, pcmVars, feeder, drainer, answerVars>>

EncoderDies ==
  /\ "encoder" \in Faults /\ Running
  /\ ffmpeg' = [ffmpeg EXCEPT !.at = "failed"]
  /\ pipe' = [pipe EXCEPT !.in = <<>>]
  /\ UNCHANGED <<request, pcmVars, feeder, drainer, answerVars>>

(* Mutant: nobody reads the diagnostics until the encoder has exited. *)
DrainLate ==
  /\ drainer = "reading" /\ Exited
  /\ pipe' = [pipe EXCEPT !.err = 0] /\ drainer' = "done"
  /\ UNCHANGED <<request, pcmVars, feeder, ffmpeg, answerVars>>

(* drain_stderr(). *)
DrainStderr ==
  /\ drainer = "reading"
  /\ \/ /\ pipe.err > 0
        /\ pipe' = [pipe EXCEPT !.err = 0] /\ UNCHANGED drainer
     \/ /\ pipe.err = 0 /\ Exited
        /\ drainer' = "done" /\ UNCHANGED pipe
  /\ UNCHANGED <<request, pcmVars, feeder, ffmpeg, answerVars>>

(* A block of the encoded stream: the first one, the next one, or one more of the whole. *)
ReadBlock ==
  /\ task \in {"encoder", "encodeAll", "pull"} /\ pipe.out # <<>>
  /\ pipe' = [pipe EXCEPT !.out = Tail(@)]
  /\ out' = Append(out, Head(pipe.out))
  /\ task' = CASE task = "encoder" -> "start" [] task = "pull" -> "send" [] OTHER -> task
  /\ UNCHANGED <<request, pcmVars, feeder, ffmpeg, drainer, wire, slot>>

(* Everything was read, the encoder has exited, and both tasks are over: what was it? *)
EncoderVerdict ==
  /\ IF feeder.upstream \/ ffmpeg.at = "failed" THEN Fail
     ELSE CASE task = "encoder" -> Refuse [] task = "pull" -> EndOfBody [] OTHER -> Reply(out)

EncoderEnds ==
  /\ task \in {"encoder", "encodeAll", "pull"} /\ Encodes
  /\ Exited /\ pipe.out = <<>> /\ drainer = "done" /\ feeder.at = "done"
  /\ EncoderVerdict /\ out' = <<>>
  /\ UNCHANGED <<request, pcmVars, encoderVars>>

----------------------------------------------------------------------------
(* http.response.start: the 200 is on the wire. *)
Start ==
  /\ task = "start"
  /\ task' = "send" /\ wire' = [wire EXCEPT !.status = "ok"]
  /\ UNCHANGED <<request, pcmVars, encoderVars, out, slot>>

(* The client takes what is in hand. *)
Send ==
  /\ task = "send"
  /\ task' = "pull" /\ out' = <<>> /\ wire' = [wire EXCEPT !.sent = @ \o out]
  /\ UNCHANGED <<request, pcmVars, encoderVars, slot>>

(* The next chunk of a stream that needs no encoder. *)
PullPlain ==
  /\ task = "pull" /\ ~Encodes /\ Take
  /\ CASE IsChunk(Item) -> task' = "send" /\ out' = <<Item>> /\ UNCHANGED <<wire, slot>>
       [] Item = End -> EndOfBody /\ UNCHANGED out
       [] Item = Raised -> Fail /\ UNCHANGED out
  /\ UNCHANGED encoderVars

(* The end of the body and the trailer with the duration, in one message. *)
Finish ==
  /\ task = "end"
  /\ task' = "returned"
  /\ wire' = [wire EXCEPT !.ending = "trailer", !.duration = counted]
  /\ UNCHANGED <<request, pcmVars, encoderVars, out, slot>>

(* What cancelling the feeder and the drainer leaves of them. *)
CancelTasks ==
  /\ feeder' = [feeder EXCEPT !.at = "done"] /\ drainer' = "done"
  /\ pipe' = [pipe EXCEPT !.open = FALSE] /\ source' = Abandon

(* The client hangs up while the response waits for a chunk.  Its cancellation is delivered *)
(* again at every await, so a drain stops at its first, when the queue is empty; and where  *)
(* the encoder still runs, the wait for it to die is the last thing that is done.           *)
HangUpReading ==
  /\ task = "pull" /\ replay = <<>> /\ pipe.out = <<>>
  /\ task' = "returned" /\ Release(1) /\ wire' = [wire EXCEPT !.ending = "gone"]
  /\ \/ /\ ~Encodes
        /\ queue' = <<>> /\ source' = "closed" /\ UNCHANGED encoderVars
     \/ /\ Encodes /\ Running
        /\ ffmpeg' = [ffmpeg EXCEPT !.at = "failed"] /\ pipe' = [pipe EXCEPT !.in = <<>>]
        /\ UNCHANGED <<queue, source, feeder, drainer>>
     \/ /\ Encodes /\ Exited
        /\ CancelTasks /\ UNCHANGED <<queue, ffmpeg>>
  /\ UNCHANGED <<request, engine, replay, counted, out>>

(* It hangs up while a send waits for it: nothing closes the generators but their collection. *)
HangUpSending ==
  /\ task \in {"send", "end"}
  /\ task' = IF task = "send" THEN "hungup" ELSE "returned"
  /\ wire' = [wire EXCEPT !.ending = "gone"]
  /\ UNCHANGED <<request, pcmVars, encoderVars, out, slot>>

(* The body is collected, and then the streams that it read. *)
CloseBody ==
  /\ task = "hungup"
  /\ task' = "unwinding" /\ Release(1)
  /\ UNCHANGED <<request, pcmVars, encoderVars, out, wire>>

CloseStreams ==
  /\ task = "unwinding"
  /\ task' = "returned"
  /\ \/ /\ ~Encodes
        /\ source' = Abandon /\ UNCHANGED encoderVars
     \/ /\ Encodes
        /\ CancelTasks
        /\ ffmpeg' = IF Running THEN [ffmpeg EXCEPT !.at = "failed"] ELSE ffmpeg
  /\ UNCHANGED <<request, engine, queue, replay, counted, out, wire, slot>>

(* Nothing of the answer is left, on the loop, on a thread or in a process. *)
Over ==
  /\ task = "returned" /\ engine.at = "gone" /\ source # "draining"
  /\ ~Running /\ (ffmpeg.at # "off" => feeder.at = "done" /\ drainer = "done")

(* What goes on by itself, what goes wrong by itself, and how its client leaves. *)
Works ==
  \/ Make \/ Exhausted \/ Put \/ ThreadGone \/ Drain
  \/ Prime \/ Collect \/ PrimeEncoded \/ ReplyPlain \/ StartEncoder
  \/ FeederPulls \/ FeederWrites \/ FeederCloses
  \/ EncoderReads \/ EncoderComplains \/ EncoderWrites \/ EncoderExits
  \/ DrainStderr \/ ReadBlock \/ EncoderEnds
  \/ Start \/ PullPlain \/ Finish \/ CloseBody \/ CloseStreams
Breaks == EngineRaises \/ EncoderDies
HangsUp == HangUpReading \/ HangUpSending

----------------------------------------------------------------------------
(* Every variable has its type. *)
TypeOK ==
  /\ request \in [format : Formats, stream : BOOLEAN]
  /\ engine \in [at : {"making", "putting", "stopping", "exited", "gone"},
                 made : 0..Most, length : 0..Most, failed : BOOLEAN]
  /\ queue \in Seq(1..Raised) /\ Len(queue) <= Depth
  /\ source \in {"open", "draining", "closed"}
  /\ replay \in Seq(1..End) /\ counted \in 0..Most
  /\ feeder \in [at : {"off", "pulling", "writing", "closing", "done"},
                 hand : 1..End, upstream : BOOLEAN]
  /\ ffmpeg \in [at : {"off", "reading", "complaining", "writing", "ok", "failed"},
                 hand : 1..End, early : BOOLEAN]
  /\ pipe \in [in : Seq(1..Most), open : BOOLEAN, out : Seq(1..Most), err : 0..Pipe]
  /\ drainer \in {"off", "reading", "done"}
  /\ task \in {"prime", "collect", "encoder", "encodeAll", "start", "pull", "send", "end",
               "hungup", "unwinding", "returned"}
  /\ out \in Seq(0..Most) /\ Len(out) <= Most
  /\ wire \in [status : {"none", "ok", "refused"}, sent : Seq(0..Most),
               ending : {"none", "trailer", "whole", "aborted", "gone"}, duration : -1..Most]
  /\ slot \in [released : BOOLEAN, free : 0..2]

(* What an engine of n chunks sounds like in the format that was asked for. *)
Blocks(n) ==
  (IF request.format = "wav" THEN <<Header>> ELSE <<>>) \o [i \in 1..n |-> i]

(* An answer that ends well carries all that the engine made, and the duration of exactly *)
(* that; one whose encoder decided to stop carries the start of it.  Audio that was cut    *)
(* short by a failure never ends like audio that was not.                                  *)
CompleteIsWhole ==
  wire.ending \in {"trailer", "whole"} =>
    /\ ffmpeg.at # "failed" /\ feeder.upstream = FALSE
    /\ IF ffmpeg.early THEN IsPrefix(wire.sent, Blocks(engine.length))
       ELSE /\ ~engine.failed /\ wire.sent = Blocks(engine.length)
            /\ wire.duration = engine.length

(* Through every buffer between the model and the wire, nothing is lost, doubled or swapped. *)
SentInOrder == IsPrefix(wire.sent \o out, Blocks(engine.made))

(* What fails before there is audio is a status, with a code that says whether to retry: a *)
(* 200 means that the engine has made a chunk.                                            *)
EarlyFailureIsAStatus ==
  request.stream /\ wire.status = "ok" => engine.made > 0

(* The slot goes back once, whichever of an answer's ends come together. *)
ReleasedOnce == slot.free <= 1 /\ (task = "returned" => slot.free = 1)
=============================================================================
