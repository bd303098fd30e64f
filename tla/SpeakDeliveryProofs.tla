-------------------------- MODULE SpeakDeliveryProofs --------------------------
(***************************************************************************)
(* That a clean end is all of the audio and a slot and a lease go back     *)
(* once, for utterances, queues, pipes, relays and floors of any size, any *)
(* formats, and whatever fails or hangs up.                                *)
(***************************************************************************)
EXTENDS SpeakDelivery, SequenceTheorems, TLAPS

-----------------------------------------------------------------------------
(* Everything between the model and the client is a run of numbers, and    *)
(* what is proved of it is where each buffer's run begins.                 *)

(* The run that goes on after n; and one that ends in a mark.              *)
Follows(s, n) == \A i \in 1..Len(s) : s[i] = n + i
EndsAfter(s, n, mark) ==
  /\ s # <<>> /\ s[Len(s)] = mark
  /\ \A i \in 1..(Len(s) - 1) : s[i] = n + i

(* The variables without the bounds that only counting gives.              *)
EngineShape == [at : {"making", "putting", "stopping", "exited", "gone"},
                made : Nat, length : 0..Most, failed : BOOLEAN]
FeederShape == [at : {"off", "pulling", "writing", "closing", "done"},
                hand : Nat, upstream : BOOLEAN]
EncoderShape == [at : {"off", "reading", "complaining", "writing", "ok", "failed"},
                 hand : Nat, early : BOOLEAN]
PipeShape == [in : Seq(Nat), open : BOOLEAN, out : Seq(Nat), err : Nat]
Places == {"prime", "collect", "encoder", "encodeAll", "start", "pull", "send", "end",
           "hungup", "unwinding", "returned"}
WireShape == [status : {"none", "ok", "refused"}, sent : Seq(Nat),
              ending : {"none", "trailer", "whole", "aborted", "gone"}, duration : Int]
SlotShape == [released : BOOLEAN, free : Nat]

Shape ==
  /\ request \in [format : Formats, stream : BOOLEAN] /\ engine \in EngineShape
  /\ queue \in Seq(Nat) /\ source \in {"open", "draining", "closed"}
  /\ replay \in Seq(Nat) /\ counted \in Nat
  /\ feeder \in FeederShape /\ ffmpeg \in EncoderShape /\ pipe \in PipeShape
  /\ drainer \in {"off", "reading", "done"}
  /\ task \in Places /\ out \in Seq(Nat) /\ wire \in WireShape /\ slot \in SlotShape

(* Which of the two ways of answering the response is on, what it has in   *)
(* hand there and has sent, and whether its slot is still held.            *)
Streaming == {"start", "send", "pull", "end", "hungup", "unwinding"}
Waiting == {"prime", "collect", "encoder", "encodeAll"}
TaskInv ==
  /\ IF request.stream THEN task \notin {"collect", "encodeAll"}
                       ELSE task \in {"collect", "encodeAll", "returned"}
  /\ task \in {"prime", "collect", "encoder", "pull", "end"} => out = <<>>
  /\ task \in {"start", "send"} => Len(out) = 1
  /\ task = "encodeAll" /\ ~Encodes => out = <<>>
  /\ task \in Waiting \cup {"start"} => wire.status = "none" /\ wire.sent = <<>>
  /\ task \in Streaming \ {"start"} => wire.status = "ok"
  /\ task \in Waiting \cup {"start", "send", "pull", "end"} => wire.ending = "none"
  /\ task \in {"hungup", "unwinding"} => wire.ending = "gone"
  /\ task = "returned" => wire.status = "refused" \/ (wire.status = "ok" /\ wire.ending # "none")
  /\ wire.ending = "whole" => ~request.stream
  /\ ~request.stream => wire.ending \in {"none", "whole"}
  /\ wire.ending \in {"trailer", "whole"} => out = <<>> /\ wire.status = "ok"
  /\ wire.status = "refused" => wire.sent = <<>> /\ wire.ending = "none"

SlotInv ==
  /\ slot.released <=> task \in {"end", "unwinding", "returned"}
  /\ slot.free = IF slot.released THEN 1 ELSE 0

(* How far the engine has come, what of it is in the queue, and what of    *)
(* that was taken.                                                         *)
Told == engine.at \in {"exited", "gone"}
Mark == IF engine.failed THEN Raised ELSE End
EngineDone == Told /\ ~engine.failed /\ engine.made = engine.length
Fetched == IF request.stream THEN counted + Len(replay) ELSE counted
Position == IF request.stream \/ replay = <<>> THEN counted ELSE counted + 1 - Len(replay)

EngineInv ==
  /\ engine.made <= engine.length
  /\ engine.at = "putting" => engine.made > 0
  /\ engine.failed => engine.at \notin {"making", "putting"}
  /\ Len(queue) <= Depth

QueueInv ==
  source = "open" =>
    /\ engine.at \in {"stopping", "exited", "gone"} => engine.failed \/ engine.made = engine.length
    /\ engine.at = "putting" => Fetched + Len(queue) + 1 = engine.made
    /\ engine.at \in {"making", "stopping"} => Fetched + Len(queue) = engine.made
    /\ Told => Fetched + Len(queue) = engine.made + 1 /\ EndsAfter(queue, Fetched, Mark)
    /\ ~Told => Follows(queue, Fetched)

ReplayInv ==
  /\ Fetched <= engine.made
  /\ request.stream => replay = <<>> \/ (replay = <<1>> /\ counted = 0)
  /\ request.stream /\ task \notin {"prime", "returned"} => engine.made > 0
  /\ request.stream /\ wire.status = "ok" => engine.made > 0
  /\ task \in {"prime", "collect"} => source = "open"
  /\ task = "prime" => replay = <<>> /\ counted = 0
  /\ task = "collect" => Len(replay) = counted /\ Follows(replay, 0)
  /\ task = "encodeAll" =>
       /\ source = "closed" /\ EngineDone /\ counted = engine.length
       /\ replay # <<>> => Len(replay) <= counted + 1 /\ EndsAfter(replay, Position, End)

(* The numbers that have left for the client, and those an encoder made.   *)
Lead == IF request.format = "wav" THEN 1 ELSE 0
Handed == Len(wire.sent) + Len(out)
Encoded == Handed + Len(pipe.out)
Busy == ffmpeg.at \in {"complaining", "writing"}
Consumed == Encoded + (IF Busy THEN 1 ELSE 0)

SentInv ==
  /\ Follows(wire.sent, 0 - Lead) /\ Follows(out, Len(wire.sent) - Lead)
  /\ Handed <= engine.made + Lead
  /\ task \in Waiting /\ ffmpeg.at = "off" => Handed = 0
  /\ request.stream /\ ~Encodes /\ task \in Streaming => Handed = counted + Lead

(* The encoder is between its feeder and its reader, and loses nothing.    *)
EncoderInv ==
  /\ ffmpeg.at = "off" => /\ feeder.at = "off" /\ ~feeder.upstream
                          /\ pipe.in = <<>> /\ pipe.out = <<>> /\ drainer = "off"
  /\ feeder.at = "off" => ffmpeg.at = "off"
  /\ ~Encodes => ffmpeg.at = "off"
  /\ task \in {"prime", "collect"} => ffmpeg.at = "off"
  /\ task \in {"encoder", "encodeAll"} /\ ffmpeg.at = "off" => replay # <<>> /\ Position = 0
  /\ Encodes /\ task \in Streaming => ffmpeg.at # "off"
  /\ ffmpeg.at # "off" /\ ~request.stream /\ task = "returned" => feeder.at = "done"
  /\ Running => task # "returned"
  /\ ffmpeg.early => ffmpeg.at = "ok"
  /\ pipe.open <=> feeder.at # "done"
  /\ pipe.err <= Pipe

PipeInv ==
  Encodes =>
    /\ Encoded <= engine.made /\ Follows(pipe.out, Handed)
    /\ Running =>
         /\ Busy => ffmpeg.hand = Encoded + 1
         /\ Follows(pipe.in, Consumed)
         /\ feeder.at = "writing" => feeder.hand = Consumed + Len(pipe.in) + 1
         /\ Position = Consumed + Len(pipe.in) + (IF feeder.at = "writing" THEN 1 ELSE 0)
    /\ feeder.at \in {"closing", "done"} =>
         \/ feeder.upstream \/ ffmpeg.at = "failed" \/ ffmpeg.early \/ task = "returned"
         \/ EngineDone /\ counted = engine.length /\ Position = engine.length
    /\ ffmpeg.at = "ok" /\ ~ffmpeg.early =>
         feeder.at = "done" /\ (task # "returned" => Encoded = Position)
    /\ ffmpeg.hand <= End /\ feeder.hand <= End
    /\ \A i \in 1..Len(pipe.in) : pipe.in[i] \in 1..Most

(* An answer that ends well.                                               *)
EndsWell == task = "end" \/ wire.ending \in {"trailer", "whole"}
WholeInv ==
  EndsWell =>
    /\ ffmpeg.at \in {"off", "ok"} /\ feeder.at \in {"off", "done"} /\ ~feeder.upstream
    /\ task # "end" => wire.duration = counted
    /\ ~ffmpeg.early => /\ EngineDone /\ counted = engine.length
                        /\ Handed = engine.length + Lead

AnswerInv ==
  /\ Shape /\ TaskInv /\ SlotInv
  /\ EngineInv /\ QueueInv /\ ReplayInv
  /\ SentInv /\ EncoderInv /\ PipeInv /\ WholeInv

(* The delivery in front of it.                                            *)
ClientShape == [status : {"none", "ok", "refused"}, sent : Seq(Nat),
                ending : {"none", "trailer", "whole", "aborted"}, duration : Int]
DeliveryShape ==
  /\ core \in {"asking", "relaying", "buffering", "over"} /\ link \in {"up", "dropped", "dead"}
  /\ relay \in Seq(Nat) /\ Len(relay) <= Hop
  /\ listens \in BOOLEAN /\ returned \in Nat /\ reply \in ClientShape

CoreInv ==
  /\ core # "over" => link = "up" /\ returned = 0 /\ reply.ending = "none"
  /\ core = "over" => returned = 1 /\ relay = <<>> /\ (link = "up" => task = "returned")
  /\ wire.ending = "gone" => link # "up"
  /\ core \in {"asking", "buffering"} => reply.status = "none"
  /\ core = "relaying" => request.stream /\ reply.status = "ok" /\ wire.status = "ok"
  /\ core = "buffering" => ~request.stream /\ wire.status = "ok"
  /\ reply.status = "ok" => wire.status = "ok"
  /\ ~request.stream =>
       reply.ending \in {"none", "whole"} /\ (reply.status = "ok" => reply.ending = "whole")

RelayInv ==
  /\ Follows(reply.sent, 0 - Lead) /\ Follows(relay, Len(reply.sent) - Lead)
  /\ Len(reply.sent) + Len(relay) <= Len(wire.sent)
  /\ request.stream /\ core # "over" => Len(reply.sent) + Len(relay) = Len(wire.sent)
  /\ reply.ending \in {"trailer", "whole"} =>
       /\ wire.ending = reply.ending /\ reply.sent = wire.sent /\ Len(reply.sent) >= Floor
       /\ reply.duration = wire.duration

IInv == AnswerInv /\ DeliveryShape /\ CoreInv /\ RelayInv

-----------------------------------------------------------------------------
(* Runs.                                                                   *)

LEMMA LengthZero == \A s \in Seq(Nat) : Len(s) \in Nat /\ (s = <<>> <=> Len(s) = 0)
  BY EmptySeq

LEMMA OneOrMore == \A n \in Nat : n > 0 => n = 1 \/ n > 1
  OBVIOUS

LEMMA RunEmpty == \A n \in Int : Follows(<<>>, n)
  BY DEF Follows

LEMMA RunTail ==
  ASSUME NEW s \in Seq(Nat), NEW n \in Int, s # <<>>, Follows(s, n)
  PROVE  /\ Head(s) = n + 1 /\ Head(s) \in Nat
         /\ Tail(s) \in Seq(Nat) /\ Len(Tail(s)) = Len(s) - 1
         /\ Follows(Tail(s), n + 1)
  <1>1. Len(s) \in Nat /\ Len(s) > 0 /\ Head(s) = s[1] /\ s[1] \in Nat
    BY EmptySeq
  <1>2. Tail(s) \in Seq(Nat) /\ Len(Tail(s)) = Len(s) - 1
        /\ \A i \in 1..(Len(s) - 1) : Tail(s)[i] = s[i + 1]
    BY <1>1, HeadTailProperties
  <1> QED
    BY <1>1, <1>2 DEF Follows

LEMMA RunAppend ==
  ASSUME NEW s \in Seq(Nat), NEW n \in Int, NEW m \in Nat, Follows(s, n), m = n + Len(s) + 1
  PROVE  /\ Append(s, m) \in Seq(Nat) /\ Len(Append(s, m)) = Len(s) + 1
         /\ Follows(Append(s, m), n)
  BY DEF Follows

LEMMA RunMarked ==
  ASSUME NEW s \in Seq(Nat), NEW n \in Int, NEW m \in Nat, Follows(s, n)
  PROVE  /\ Append(s, m) \in Seq(Nat) /\ Len(Append(s, m)) = Len(s) + 1
         /\ EndsAfter(Append(s, m), n, m)
  <1>1. Append(s, m) \in Seq(Nat) /\ Len(Append(s, m)) = Len(s) + 1 /\ Len(s) \in Nat
    OBVIOUS
  <1>2. Append(s, m)[Len(s) + 1] = m /\ \A i \in 1..Len(s) : Append(s, m)[i] = s[i]
    OBVIOUS
  <1>3. Append(s, m) # <<>>
    BY <1>1
  <1> QED
    BY <1>1, <1>2, <1>3 DEF Follows, EndsAfter

LEMMA RunMarkedTail ==
  ASSUME NEW s \in Seq(Nat), NEW n \in Int, NEW m \in Nat, EndsAfter(s, n, m)
  PROVE  /\ Tail(s) \in Seq(Nat) /\ Len(Tail(s)) = Len(s) - 1 /\ Len(s) \in Nat /\ Len(s) > 0
         /\ Head(s) \in Nat
         /\ Len(s) = 1 => Head(s) = m /\ Tail(s) = <<>>
         /\ Len(s) > 1 => Head(s) = n + 1 /\ Tail(s) # <<>> /\ EndsAfter(Tail(s), n + 1, m)
  <1>1. s # <<>> /\ Len(s) \in Nat /\ Len(s) > 0 /\ Head(s) = s[1] /\ s[1] \in Nat
    BY EmptySeq DEF EndsAfter
  <1>2. Tail(s) \in Seq(Nat) /\ Len(Tail(s)) = Len(s) - 1
        /\ \A i \in 1..(Len(s) - 1) : Tail(s)[i] = s[i + 1]
    BY <1>1, HeadTailProperties
  <1>3. ASSUME Len(s) = 1
        PROVE  Head(s) = m /\ Tail(s) = <<>>
    <2>1. Head(s) = m
      BY <1>1, <1>3 DEF EndsAfter
    <2>2. Len(Tail(s)) = 0
      BY <1>2, <1>3
    <2> QED
      BY <2>1, <2>2, <1>2, LengthZero
  <1>4. ASSUME Len(s) > 1
        PROVE  Head(s) = n + 1 /\ Tail(s) # <<>> /\ EndsAfter(Tail(s), n + 1, m)
    <2>0. Len(Tail(s)) # 0
      BY <1>2, <1>4, <1>1
    <2>1. Tail(s) # <<>>
      BY <2>0, Len(<<>>) = 0
    <2>4. Head(s) = n + 1
      BY <1>1, <1>4 DEF EndsAfter
    <2>2. Tail(s)[Len(s) - 1] = m
      BY <1>1, <1>2, <1>4 DEF EndsAfter
    <2>3. \A i \in 1..(Len(s) - 2) : Tail(s)[i] = n + 1 + i
      BY <1>1, <1>2, <1>4 DEF EndsAfter
    <2> QED
      BY <2>1, <2>2, <2>3, <2>4, <1>1, <1>2 DEF EndsAfter
  <1> QED
    BY <1>1, <1>2, <1>3, <1>4

LEMMA RunJoined ==
  ASSUME NEW s \in Seq(Nat), NEW t \in Seq(Nat), NEW n \in Int,
         Follows(s, n), Follows(t, n + Len(s))
  PROVE  /\ s \o t \in Seq(Nat) /\ Len(s \o t) = Len(s) + Len(t)
         /\ Follows(s \o t, n)
  BY DEF Follows

LEMMA RunsAgree ==
  ASSUME NEW s \in Seq(Nat), NEW t \in Seq(Nat), NEW n \in Int, Follows(s, n), Follows(t, n)
  PROVE  /\ Len(s) <= Len(t) => IsPrefix(s, t)
         /\ Len(s) = Len(t) => s = t
  <1>1. Len(s) \in Nat /\ Len(t) \in Nat
    OBVIOUS
  <1>2. \A i \in 1..Len(s) : i \in 1..Len(t) => s[i] = t[i]
    BY DEF Follows
  <1>3. Len(s) = Len(t) => s = t
    BY <1>1, <1>2, SeqEqual
  <1>4. ASSUME Len(s) <= Len(t)
        PROVE  IsPrefix(s, t)
    <2>1. SubSeq(s, 1, Len(s)) = s
      BY SubSeqFull
    <2>2. \A i \in 1..Len(s) : t[i] \in Nat
      BY <1>1, <1>4
    <2>3. /\ SubSeq(t, 1, Len(s)) \in Seq(Nat)
          /\ Len(SubSeq(t, 1, Len(s))) = Len(s)
          /\ \A i \in 1..Len(s) : SubSeq(t, 1, Len(s))[i] = t[i]
      BY <2>2, <1>1, SubSeqProperties
    <2>4. \A i \in 1..Len(s) : s[i] = SubSeq(t, 1, Len(s))[i]
      BY <1>1, <1>2, <1>4, <2>3
    <2>5. s = SubSeq(t, 1, Len(s))
      BY <2>3, <2>4, SeqEqual
    <2> QED
      BY <1>4, <2>1, <2>5 DEF IsPrefix
  <1> QED
    BY <1>3, <1>4

LEMMA RunFront ==
  ASSUME NEW s \in Seq(Nat), NEW n \in Int, NEW m \in Nat, EndsAfter(s, n, m)
  PROVE  Front(s) \in Seq(Nat) /\ Len(Front(s)) = Len(s) - 1 /\ Follows(Front(s), n)
  <1>1. Len(s) \in Nat /\ Len(s) > 0
    BY EmptySeq DEF EndsAfter
  <1>2. /\ Front(s) \in Seq(Nat) /\ Len(Front(s)) = Len(s) - 1
        /\ \A i \in 1..(Len(s) - 1) : Front(s)[i] = s[i]
    <2>1. \A i \in 1..(Len(s) - 1) : s[i] \in Nat
      BY <1>1
    <2> QED
      <3> DEFINE k == Len(s) - 1
      <3>1. k \in Nat
        BY <1>1
      <3>2. \A i \in 1..k : s[i] \in Nat
        BY <2>1
      <3> HIDE DEF k
      <3>3. /\ SubSeq(s, 1, k) \in Seq(Nat)
            /\ Len(SubSeq(s, 1, k)) = IF 1 <= k THEN k - 1 + 1 ELSE 0
            /\ \A i \in 1..(k - 1 + 1) : SubSeq(s, 1, k)[i] = s[1 + i - 1]
        BY <3>1, <3>2, SubSeqProperties
      <3>4. Front(s) = SubSeq(s, 1, k)
        BY DEF Front, k
      <3>5. Len(SubSeq(s, 1, k)) = k /\ \A i \in 1..k : SubSeq(s, 1, k)[i] = s[i]
        BY <3>1, <3>3
      <3> QED
        BY <3>3, <3>4, <3>5 DEF k
  <1> QED
    BY <1>1, <1>2 DEF Follows, EndsAfter

(* A run is of chunks, and neither is a mark.                              *)
LEMMA Numbers ==
  /\ Most \in Nat /\ Most > 0 /\ Depth \in Nat /\ Pipe \in Nat /\ Pipe > 0
  /\ End = Most + 1 /\ Raised = Most + 2 /\ Header = 0
  /\ ~IsChunk(End) /\ ~IsChunk(Raised)
  /\ \A n \in Nat : n <= Most => IsChunk(n)
  BY StreamAssumption DEF End, Raised, Header, IsChunk

-----------------------------------------------------------------------------
(* The records, and what the actions make of them.                         *)

EngineIs(at, made, failed) ==
  engine' = [at |-> at, made |-> made, length |-> engine.length, failed |-> failed]
FeederIs(at, hand, upstream) == feeder' = [at |-> at, hand |-> hand, upstream |-> upstream]
EncoderIs(at, hand, early) == ffmpeg' = [at |-> at, hand |-> hand, early |-> early]
PipeIs(in, open, made, err) == pipe' = [in |-> in, open |-> open, out |-> made, err |-> err]
WireIs(status, sent, ending, duration) ==
  wire' = [status |-> status, sent |-> sent, ending |-> ending, duration |-> duration]

LEMMA EngineMoves ==
  ASSUME engine \in EngineShape
  PROVE  /\ Make => EngineIs(IF source = "open" THEN "putting" ELSE "stopping", engine.made + 1, engine.failed)
         /\ Exhausted => EngineIs("stopping", engine.made, engine.failed)
         /\ EngineRaises => EngineIs("stopping", engine.made, TRUE)
         /\ Put => EngineIs(IF engine.at = "putting" THEN "making" ELSE "exited", engine.made, engine.failed)
         /\ ThreadGone => EngineIs("gone", engine.made, engine.failed)
  <1> USE DEF EngineShape, EngineIs
  <1>1. Make => EngineIs(IF source = "open" THEN "putting" ELSE "stopping", engine.made + 1, engine.failed)
    BY DEF Make
  <1>2. Exhausted => EngineIs("stopping", engine.made, engine.failed)
    BY DEF Exhausted
  <1>3. EngineRaises => EngineIs("stopping", engine.made, TRUE)
    BY DEF EngineRaises
  <1>4. Put => EngineIs(IF engine.at = "putting" THEN "making" ELSE "exited", engine.made, engine.failed)
    BY DEF Put
  <1>5. ThreadGone => EngineIs("gone", engine.made, engine.failed)
    BY DEF ThreadGone
  <1> QED
    BY <1>1, <1>2, <1>3, <1>4, <1>5

LEMMA FeederMoves ==
  ASSUME feeder \in FeederShape
  PROVE  /\ FeederPulls => IF IsChunk(Item) THEN FeederIs("writing", Item, feeder.upstream)
                                            ELSE FeederIs("closing", feeder.hand, Item = Raised)
         /\ FeederWrites => FeederIs(IF Running THEN "pulling" ELSE "closing", feeder.hand, feeder.upstream)
         /\ FeederCloses \/ CancelTasks => FeederIs("done", feeder.hand, feeder.upstream)
         /\ StartEncoder => UNCHANGED feeder \/ FeederIs("pulling", feeder.hand, feeder.upstream)
  <1> USE DEF FeederShape, FeederIs
  <1>1. FeederPulls => IF IsChunk(Item) THEN FeederIs("writing", Item, feeder.upstream)
                                        ELSE FeederIs("closing", feeder.hand, Item = Raised)
    BY DEF FeederPulls
  <1>2. FeederWrites => FeederIs(IF Running THEN "pulling" ELSE "closing", feeder.hand, feeder.upstream)
    BY DEF FeederWrites, Running, Exited
  <1>3. FeederCloses \/ CancelTasks => FeederIs("done", feeder.hand, feeder.upstream)
    BY DEF FeederCloses, CancelTasks
  <1>4. StartEncoder => UNCHANGED feeder \/ FeederIs("pulling", feeder.hand, feeder.upstream)
    BY DEF StartEncoder
  <1> QED
    BY <1>1, <1>2, <1>3, <1>4

LEMMA EncoderMoves ==
  ASSUME ffmpeg \in EncoderShape
  PROVE  /\ StartEncoder => UNCHANGED ffmpeg \/ EncoderIs("reading", ffmpeg.hand, ffmpeg.early)
         /\ EncoderReads => \E at \in {"complaining", "writing"} : EncoderIs(at, Head(pipe.in), ffmpeg.early)
         /\ EncoderComplains => EncoderIs("writing", ffmpeg.hand, ffmpeg.early)
         /\ EncoderWrites => EncoderIs("reading", ffmpeg.hand, ffmpeg.early)
         /\ EncoderExits => EncoderIs("ok", ffmpeg.hand, ~(pipe.in = <<>> /\ ~pipe.open))
         /\ EncoderDies => EncoderIs("failed", ffmpeg.hand, ffmpeg.early)
         /\ HangUpReading => UNCHANGED ffmpeg \/ (Running /\ EncoderIs("failed", ffmpeg.hand, ffmpeg.early))
         /\ CloseStreams => IF Encodes /\ Running THEN EncoderIs("failed", ffmpeg.hand, ffmpeg.early)
                                                  ELSE UNCHANGED ffmpeg
  <1> USE DEF EncoderShape, EncoderIs
  <1>1. StartEncoder => UNCHANGED ffmpeg \/ EncoderIs("reading", ffmpeg.hand, ffmpeg.early)
    BY DEF StartEncoder
  <1>2. EncoderReads => \E at \in {"complaining", "writing"} : EncoderIs(at, Head(pipe.in), ffmpeg.early)
    BY DEF EncoderReads
  <1>3. EncoderComplains => EncoderIs("writing", ffmpeg.hand, ffmpeg.early)
    BY DEF EncoderComplains
  <1>4. EncoderWrites => EncoderIs("reading", ffmpeg.hand, ffmpeg.early)
    BY DEF EncoderWrites
  <1>5. EncoderExits => EncoderIs("ok", ffmpeg.hand, ~(pipe.in = <<>> /\ ~pipe.open))
    BY DEF EncoderExits
  <1>6. EncoderDies => EncoderIs("failed", ffmpeg.hand, ffmpeg.early)
    BY DEF EncoderDies
  <1>7. HangUpReading => UNCHANGED ffmpeg \/ (Running /\ EncoderIs("failed", ffmpeg.hand, ffmpeg.early))
    BY DEF HangUpReading, encoderVars
  <1>8. CloseStreams => IF Encodes /\ Running THEN EncoderIs("failed", ffmpeg.hand, ffmpeg.early)
                                              ELSE UNCHANGED ffmpeg
    BY DEF CloseStreams, encoderVars
  <1> QED
    BY <1>1, <1>2, <1>3, <1>4, <1>5, <1>6, <1>7, <1>8

LEMMA PipeMoves ==
  ASSUME pipe \in PipeShape
  PROVE  /\ FeederWrites => IF Running THEN PipeIs(Append(pipe.in, feeder.hand), pipe.open, pipe.out, pipe.err)
                                       ELSE UNCHANGED pipe
         /\ FeederCloses \/ CancelTasks => PipeIs(pipe.in, FALSE, pipe.out, pipe.err)
         /\ EncoderReads => PipeIs(Tail(pipe.in), pipe.open, pipe.out, pipe.err)
         /\ EncoderComplains => PipeIs(pipe.in, pipe.open, pipe.out, pipe.err + 1)
         /\ EncoderWrites => PipeIs(pipe.in, pipe.open, Append(pipe.out, ffmpeg.hand), pipe.err)
         /\ EncoderExits \/ EncoderDies => PipeIs(<<>>, pipe.open, pipe.out, pipe.err)
         /\ DrainStderr => UNCHANGED pipe \/ PipeIs(pipe.in, pipe.open, pipe.out, 0)
         /\ ReadBlock => PipeIs(pipe.in, pipe.open, Tail(pipe.out), pipe.err)
         /\ HangUpReading =>
              \/ ~Encodes /\ UNCHANGED pipe
              \/ Encodes /\ Running /\ PipeIs(<<>>, pipe.open, pipe.out, pipe.err)
              \/ Encodes /\ Exited /\ PipeIs(pipe.in, FALSE, pipe.out, pipe.err)
  <1> USE DEF PipeShape, PipeIs
  <1>1. FeederWrites => IF Running THEN PipeIs(Append(pipe.in, feeder.hand), pipe.open, pipe.out, pipe.err)
                                   ELSE UNCHANGED pipe
    BY DEF FeederWrites, Running, Exited
  <1>2. FeederCloses \/ CancelTasks => PipeIs(pipe.in, FALSE, pipe.out, pipe.err)
    BY DEF FeederCloses, CancelTasks
  <1>3. EncoderReads => PipeIs(Tail(pipe.in), pipe.open, pipe.out, pipe.err)
    BY DEF EncoderReads
  <1>4. EncoderComplains => PipeIs(pipe.in, pipe.open, pipe.out, pipe.err + 1)
    BY DEF EncoderComplains
  <1>5. EncoderWrites => PipeIs(pipe.in, pipe.open, Append(pipe.out, ffmpeg.hand), pipe.err)
    BY DEF EncoderWrites
  <1>6. EncoderExits \/ EncoderDies => PipeIs(<<>>, pipe.open, pipe.out, pipe.err)
    BY DEF EncoderExits, EncoderDies
  <1>7. DrainStderr => UNCHANGED pipe \/ PipeIs(pipe.in, pipe.open, pipe.out, 0)
    BY DEF DrainStderr
  <1>8. ReadBlock => PipeIs(pipe.in, pipe.open, Tail(pipe.out), pipe.err)
    BY DEF ReadBlock
  <1>9. HangUpReading =>
          \/ ~Encodes /\ UNCHANGED pipe
          \/ Encodes /\ Running /\ PipeIs(<<>>, pipe.open, pipe.out, pipe.err)
          \/ Encodes /\ Exited /\ PipeIs(pipe.in, FALSE, pipe.out, pipe.err)
    BY DEF HangUpReading, CancelTasks, encoderVars
  <1> QED
    BY <1>1, <1>2, <1>3, <1>4, <1>5, <1>6, <1>7, <1>8, <1>9

LEMMA WireMoves ==
  ASSUME wire \in WireShape
  PROVE  /\ Refuse => WireIs("refused", wire.sent, wire.ending, wire.duration)
         /\ Abort => WireIs(wire.status, wire.sent, "aborted", wire.duration)
         /\ Start => WireIs("ok", wire.sent, wire.ending, wire.duration)
         /\ Send => WireIs(wire.status, wire.sent \o out, wire.ending, wire.duration)
         /\ Finish => WireIs(wire.status, wire.sent, "trailer", counted)
         /\ HangUpReading \/ HangUpSending => WireIs(wire.status, wire.sent, "gone", wire.duration)
  <1> USE DEF WireShape, WireIs
  <1>1. Refuse => WireIs("refused", wire.sent, wire.ending, wire.duration)
    BY DEF Refuse
  <1>2. Abort => WireIs(wire.status, wire.sent, "aborted", wire.duration)
    BY DEF Abort
  <1>3. Start => WireIs("ok", wire.sent, wire.ending, wire.duration)
    BY DEF Start
  <1>4. Send => WireIs(wire.status, wire.sent \o out, wire.ending, wire.duration)
    BY DEF Send
  <1>5. Finish => WireIs(wire.status, wire.sent, "trailer", counted)
    BY DEF Finish
  <1>6. HangUpReading \/ HangUpSending => WireIs(wire.status, wire.sent, "gone", wire.duration)
    BY DEF HangUpReading, HangUpSending
  <1> QED
    BY <1>1, <1>2, <1>3, <1>4, <1>5, <1>6

-----------------------------------------------------------------------------
(* The variables keep their shape.                                         *)

AnswerStep == Works \/ Breaks \/ Send \/ HangsUp

LEMMA SeqShape ==
  /\ <<>> \in Seq(Nat)
  /\ \A s \in Seq(Nat), n \in Nat : Append(s, n) \in Seq(Nat) /\ <<n>> \in Seq(Nat)
  /\ \A s \in Seq(Nat) : s # <<>> => Head(s) \in Nat /\ Tail(s) \in Seq(Nat)
  /\ \A s, t \in Seq(Nat) : s \o t \in Seq(Nat)
  /\ \A s \in Seq(Nat) : Front(s) \in Seq(Nat)
  <1>1. \A s \in Seq(Nat) : s # <<>> => Head(s) \in Nat /\ Tail(s) \in Seq(Nat)
    BY HeadTailProperties
  <1>2. ASSUME NEW s \in Seq(Nat)
        PROVE  Front(s) \in Seq(Nat)
    <2>1. \A i \in 1..(Len(s) - 1) : s[i] \in Nat
      OBVIOUS
    <2>2. Len(s) - 1 \in Int
      OBVIOUS
    <2> QED
      BY <2>1, <2>2, SubSeqProperties DEF Front
  <1> QED
    BY <1>1, <1>2

LEMMA ItemShape ==
  ASSUME Shape, Available
  PROVE  /\ Item \in Nat
         /\ replay # <<>> => Item = Head(replay) /\ Tail(replay) \in Seq(Nat)
         /\ replay = <<>> => source = "open" /\ queue # <<>> /\ Item = Head(queue)
                             /\ Tail(queue) \in Seq(Nat)
  BY HeadTailProperties DEF Shape, Available, Item

LEMMA TakeShape ==
  ASSUME Shape, Take
  PROVE  /\ UNCHANGED <<request, engine>>
         /\ queue' \in Seq(Nat) /\ source' \in {"open", "draining", "closed"}
         /\ replay' \in Seq(Nat) /\ counted' \in Nat
  <1>1. Available /\ Item \in Nat
    BY ItemShape DEF Take
  <1>2. UNCHANGED <<request, engine>> /\ source' \in {"open", "draining", "closed"} /\ counted' \in Nat
    BY DEF Shape, Take
  <1>3. queue' \in Seq(Nat) /\ replay' \in Seq(Nat)
    BY <1>1, ItemShape DEF Shape, Take
  <1> QED
    BY <1>2, <1>3

LEMMA RecordsShape ==
  /\ engine \in EngineShape =>
       \A at \in {"making", "putting", "stopping", "exited", "gone"}, made \in Nat, failed \in BOOLEAN :
         EngineIs(at, made, failed) => engine' \in EngineShape
  /\ \A at \in {"off", "pulling", "writing", "closing", "done"}, hand \in Nat, upstream \in BOOLEAN :
       FeederIs(at, hand, upstream) => feeder' \in FeederShape
  /\ \A at \in {"off", "reading", "complaining", "writing", "ok", "failed"}, hand \in Nat,
        early \in BOOLEAN : EncoderIs(at, hand, early) => ffmpeg' \in EncoderShape
  /\ \A in \in Seq(Nat), open \in BOOLEAN, made \in Seq(Nat), err \in Nat :
       PipeIs(in, open, made, err) => pipe' \in PipeShape
  /\ \A status \in {"none", "ok", "refused"}, sent \in Seq(Nat), duration \in Int,
        ending \in {"none", "trailer", "whole", "aborted", "gone"} :
       WireIs(status, sent, ending, duration) => wire' \in WireShape
  <1>1. engine \in EngineShape =>
          \A at \in {"making", "putting", "stopping", "exited", "gone"}, made \in Nat, failed \in BOOLEAN :
            EngineIs(at, made, failed) => engine' \in EngineShape
    BY DEF EngineIs, EngineShape
  <1>2. \A at \in {"off", "pulling", "writing", "closing", "done"}, hand \in Nat, upstream \in BOOLEAN :
          FeederIs(at, hand, upstream) => feeder' \in FeederShape
    BY DEF FeederIs, FeederShape
  <1>3. \A at \in {"off", "reading", "complaining", "writing", "ok", "failed"}, hand \in Nat,
           early \in BOOLEAN : EncoderIs(at, hand, early) => ffmpeg' \in EncoderShape
    BY DEF EncoderIs, EncoderShape
  <1>4. \A in \in Seq(Nat), open \in BOOLEAN, made \in Seq(Nat), err \in Nat :
          PipeIs(in, open, made, err) => pipe' \in PipeShape
    BY DEF PipeIs, PipeShape
  <1>5. \A status \in {"none", "ok", "refused"}, sent \in Seq(Nat), duration \in Int,
           ending \in {"none", "trailer", "whole", "aborted", "gone"} :
          WireIs(status, sent, ending, duration) => wire' \in WireShape
    BY DEF WireIs, WireShape
  <1> QED
    BY <1>1, <1>2, <1>3, <1>4, <1>5

LEMMA FieldShape ==
  ASSUME Shape
  PROVE  /\ engine.at \in {"making", "putting", "stopping", "exited", "gone"}
         /\ engine.made \in Nat /\ engine.length \in 0..Most /\ engine.failed \in BOOLEAN
         /\ feeder.at \in {"off", "pulling", "writing", "closing", "done"}
         /\ feeder.hand \in Nat /\ feeder.upstream \in BOOLEAN
         /\ ffmpeg.at \in {"off", "reading", "complaining", "writing", "ok", "failed"}
         /\ ffmpeg.hand \in Nat /\ ffmpeg.early \in BOOLEAN
         /\ pipe.in \in Seq(Nat) /\ pipe.open \in BOOLEAN /\ pipe.out \in Seq(Nat) /\ pipe.err \in Nat
         /\ wire.status \in {"none", "ok", "refused"} /\ wire.sent \in Seq(Nat)
         /\ wire.ending \in {"none", "trailer", "whole", "aborted", "gone"} /\ wire.duration \in Int
         /\ slot.released \in BOOLEAN /\ slot.free \in Nat
         /\ <<>> \in Seq(Nat) /\ counted \in Int
  BY DEF Shape, EngineShape, FeederShape, EncoderShape, PipeShape, WireShape, SlotShape

LEMMA ReleaseShape ==
  ASSUME Shape, Release(1) \/ Release(2) \/ UNCHANGED slot
  PROVE  slot' \in SlotShape
  <1>1. slot \in SlotShape /\ slot.free \in Nat
    BY DEF Shape, SlotShape
  <1>2. CASE UNCHANGED slot
    BY <1>1, <1>2
  <1>3. CASE Release(1) \/ Release(2)
    <2>1. slot' = [released |-> TRUE, free |-> IF slot.released THEN slot.free ELSE slot.free + 1]
      BY <1>3 DEF Release
    <2>2. (IF slot.released THEN slot.free ELSE slot.free + 1) \in Nat
      BY <1>1
    <2> QED
      BY <2>1, <2>2 DEF SlotShape
  <1> QED
    BY <1>2, <1>3

LEMMA EndingShape ==
  ASSUME Shape, Refuse \/ Abort \/ EndOfBody
  PROVE  task' \in Places /\ wire' \in WireShape /\ slot' \in SlotShape
  <1>1. Release(1) \/ Release(2)
    BY DEF Refuse, Abort, EndOfBody
  <1>2. task' \in Places
    BY DEF Refuse, Abort, EndOfBody, Places
  <1>3. wire' \in WireShape
    <2>1. wire \in WireShape
      BY DEF Shape
    <2>2. CASE Refuse
      BY <2>1, <2>2, FieldShape, RecordsShape, WireMoves
    <2>3. CASE Abort
      BY <2>1, <2>3, FieldShape, RecordsShape, WireMoves
    <2>4. CASE EndOfBody
      BY <2>1, <2>4 DEF EndOfBody
    <2> QED
      BY <2>2, <2>3, <2>4
  <1> QED
    BY <1>1, <1>2, <1>3, ReleaseShape

LEMMA ReplyShape ==
  ASSUME Shape, NEW blocks \in Seq(Nat), Reply(blocks)
  PROVE  task' \in Places /\ wire' \in WireShape /\ slot' \in SlotShape
  <1>1. Release(1)
    BY DEF Reply
  <1>2. task' \in Places
    BY DEF Reply, Places
  <1>3. wire' \in WireShape
    BY DEF Reply, Shape, WireShape
  <1> QED
    BY <1>1, <1>2, <1>3, ReleaseShape

(* What a reader of the PCM makes of what it takes.                        *)
LEMMA PullPlainDoes ==
  ASSUME PullPlain
  PROVE  /\ task = "pull" /\ ~Encodes /\ Take /\ UNCHANGED encoderVars
         /\ \/ IsChunk(Item) /\ task' = "send" /\ out' = <<Item>> /\ UNCHANGED <<wire, slot>>
            \/ Item = End /\ ~IsChunk(Item) /\ EndOfBody /\ UNCHANGED out
            \/ Item = Raised /\ ~IsChunk(Item) /\ Abort /\ UNCHANGED out
  <1>1. IsChunk(Item) \/ Item = End \/ Item = Raised
    BY DEF IsChunk
  <1>2. ~IsChunk(End) /\ ~IsChunk(Raised) /\ End # Raised
    BY Numbers
  <1>3. task = "pull" /\ ~Encodes /\ Take /\ UNCHANGED encoderVars
    BY DEF PullPlain
  <1>4. CASE IsChunk(Item)
    BY <1>2, <1>3, <1>4 DEF PullPlain
  <1>5. CASE Item = End
    BY <1>2, <1>3, <1>5 DEF PullPlain
  <1>6. CASE Item = Raised
    BY <1>2, <1>3, <1>6 DEF PullPlain, Fail
  <1> QED
    BY <1>1, <1>4, <1>5, <1>6

LEMMA EncoderEndsDoes ==
  ASSUME EncoderEnds
  PROVE  /\ Encodes /\ Exited /\ pipe.out = <<>> /\ feeder.at = "done" /\ drainer = "done"
         /\ out' = <<>> /\ UNCHANGED <<request, pcmVars, encoderVars>>
         /\ \/ task \in {"encoder", "encodeAll"} /\ Refuse
            \/ task = "pull" /\ Abort
            \/ /\ ~feeder.upstream /\ ffmpeg.at # "failed"
               /\ (task = "pull" /\ EndOfBody) \/ (task = "encodeAll" /\ Reply(out))
  BY DEF EncoderEnds, EncoderVerdict, Fail

LEMMA EngineKeepsShape ==
  ASSUME Shape,
         Make \/ Exhausted \/ EngineRaises \/ Put \/ ThreadGone \/ Drain
  PROVE  Shape'
  <1>1. CASE Make
    <2>1. engine' \in EngineShape
      BY <1>1, FieldShape, RecordsShape, EngineMoves DEF Shape
    <2>2. UNCHANGED <<request, queue, source, replay, counted, feeder, ffmpeg, pipe, drainer, task, out, wire, slot>>
      BY <1>1 DEF Make, pcmVars, encoderVars, answerVars
    <2> QED
      BY <2>1, <2>2 DEF Shape
  <1>2. CASE Exhausted
    <2>1. engine' \in EngineShape
      BY <1>2, FieldShape, RecordsShape, EngineMoves DEF Shape
    <2>2. UNCHANGED <<request, queue, source, replay, counted, feeder, ffmpeg, pipe, drainer, task, out, wire, slot>>
      BY <1>2 DEF Exhausted, pcmVars, encoderVars, answerVars
    <2> QED
      BY <2>1, <2>2 DEF Shape
  <1>3. CASE EngineRaises
    <2>1. engine' \in EngineShape
      BY <1>3, FieldShape, RecordsShape, EngineMoves DEF Shape
    <2>2. UNCHANGED <<request, queue, source, replay, counted, feeder, ffmpeg, pipe, drainer, task, out, wire, slot>>
      BY <1>3 DEF EngineRaises, pcmVars, encoderVars, answerVars
    <2> QED
      BY <2>1, <2>2 DEF Shape
  <1>4. CASE Put
    <2>1. queue' \in Seq(Nat)
      <3>1. engine.made \in Nat /\ End \in Nat /\ Raised \in Nat
        BY FieldShape, Numbers
      <3>2. \E n \in Nat : queue' = Append(queue, n)
        BY <3>1, <1>4 DEF Put
      <3>3. queue \in Seq(Nat)
        BY DEF Shape
      <3> QED
        BY <3>2, <3>3, SeqShape
    <2>2. engine' \in EngineShape
      BY <1>4, FieldShape, RecordsShape, EngineMoves DEF Shape
    <2>3. UNCHANGED <<request, source, replay, counted, feeder, ffmpeg, pipe, drainer, task, out, wire, slot>>
      BY <1>4 DEF Put, EngineShape, pcmVars, encoderVars, answerVars
    <2> QED
      BY <2>1, <2>2, <2>3 DEF Shape
  <1>5. CASE ThreadGone
    <2>1. engine' \in EngineShape
      BY <1>5, FieldShape, RecordsShape, EngineMoves DEF Shape
    <2>2. UNCHANGED <<request, queue, source, replay, counted, feeder, ffmpeg, pipe, drainer, task, out, wire, slot>>
      BY <1>5 DEF ThreadGone, pcmVars, encoderVars, answerVars
    <2> QED
      BY <2>1, <2>2 DEF Shape
  <1>6. CASE Drain
    <2>1. queue' \in Seq(Nat)
      BY <1>6, SeqShape DEF Shape, Drain
    <2>2. source' \in {"open", "draining", "closed"}
      BY <1>6, SeqShape DEF Shape, Drain
    <2>3. UNCHANGED <<request, engine, replay, counted, feeder, ffmpeg, pipe, drainer, task, out, wire, slot>>
      BY <1>6 DEF Drain, pcmVars, encoderVars, answerVars
    <2> QED
      BY <2>1, <2>2, <2>3 DEF Shape
  <1> QED
    BY <1>1, <1>2, <1>3, <1>4, <1>5, <1>6

LEMMA EncoderKeepsShape ==
  ASSUME Shape,
         \/ FeederPulls \/ FeederWrites \/ FeederCloses \/ EncoderReads \/ EncoderComplains
         \/ EncoderWrites \/ EncoderExits \/ EncoderDies \/ DrainStderr
  PROVE  Shape'
  <1>1. CASE FeederPulls
    <2>1. queue' \in Seq(Nat)
      BY <1>1, TakeShape, ItemShape DEF Shape, FeederPulls, Take
    <2>2. source' \in {"open", "draining", "closed"}
      BY <1>1, TakeShape, ItemShape DEF Shape, FeederPulls, Take
    <2>3. replay' \in Seq(Nat)
      BY <1>1, TakeShape, ItemShape DEF Shape, FeederPulls, Take
    <2>4. counted' \in Nat
      BY <1>1, TakeShape, ItemShape DEF Shape, FeederPulls, Take
    <2>5. feeder' \in FeederShape
      BY <1>1, FieldShape, RecordsShape, FeederMoves, ItemShape DEF Shape, FeederPulls, Take
    <2>6. UNCHANGED <<request, engine, ffmpeg, pipe, drainer, task, out, wire, slot>>
      BY <1>1 DEF FeederPulls, Take, pcmVars, encoderVars, answerVars
    <2> QED
      BY <2>1, <2>2, <2>3, <2>4, <2>5, <2>6 DEF Shape
  <1>2. CASE FeederWrites
    <2>1. pipe' \in PipeShape
      <3>1. PipeIs(Append(pipe.in, feeder.hand), pipe.open, pipe.out, pipe.err) \/ UNCHANGED pipe
        BY <1>2, PipeMoves DEF Shape
      <3>2. Append(pipe.in, feeder.hand) \in Seq(Nat)
        BY FieldShape, SeqShape
      <3> QED
        BY <3>1, <3>2, FieldShape, RecordsShape DEF Shape
    <2>2. feeder' \in FeederShape
      BY <1>2, FieldShape, RecordsShape, FeederMoves, ItemShape DEF Shape
    <2>3. UNCHANGED <<request, engine, queue, source, replay, counted, ffmpeg, drainer, task, out, wire, slot>>
      BY <1>2 DEF FeederWrites, FeederShape, pcmVars, encoderVars, answerVars
    <2> QED
      BY <2>1, <2>2, <2>3 DEF Shape
  <1>3. CASE FeederCloses
    <2>1. feeder' \in FeederShape
      BY <1>3, FieldShape, RecordsShape, FeederMoves, ItemShape DEF Shape
    <2>2. pipe' \in PipeShape
      BY <1>3, FieldShape, RecordsShape, PipeMoves, SeqShape DEF Shape
    <2>3. source' \in {"open", "draining", "closed"}
      BY <1>3 DEF Shape, FeederCloses, Abandon
    <2>4. UNCHANGED <<request, engine, queue, replay, counted, ffmpeg, drainer, task, out, wire, slot>>
      BY <1>3 DEF FeederCloses, Abandon, pcmVars, encoderVars, answerVars
    <2> QED
      BY <2>1, <2>2, <2>3, <2>4 DEF Shape
  <1>4. CASE EncoderReads
    <2>1. pipe' \in PipeShape
      <3>1. PipeIs(Tail(pipe.in), pipe.open, pipe.out, pipe.err) /\ pipe.in # <<>>
        BY <1>4, PipeMoves DEF Shape, EncoderReads
      <3>2. Tail(pipe.in) \in Seq(Nat)
        BY <3>1, FieldShape, SeqShape
      <3> QED
        BY <3>1, <3>2, FieldShape, RecordsShape
    <2>2. ffmpeg' \in EncoderShape
      <3>1. \E at \in {"complaining", "writing"} : EncoderIs(at, Head(pipe.in), ffmpeg.early)
        BY <1>4, EncoderMoves DEF Shape
      <3>2. pipe.in # <<>>
        BY <1>4 DEF EncoderReads
      <3>3. Head(pipe.in) \in Nat
        BY <3>2, FieldShape, SeqShape
      <3> QED
        BY <3>1, <3>3, FieldShape, RecordsShape
    <2>3. UNCHANGED <<request, engine, queue, source, replay, counted, feeder, drainer, task, out, wire, slot>>
      BY <1>4 DEF EncoderReads, PipeShape, pcmVars, encoderVars, answerVars
    <2> QED
      BY <2>1, <2>2, <2>3 DEF Shape
  <1>5. CASE EncoderComplains
    <2>1. pipe' \in PipeShape
      BY <1>5, FieldShape, RecordsShape, PipeMoves, SeqShape DEF Shape
    <2>2. ffmpeg' \in EncoderShape
      BY <1>5, FieldShape, RecordsShape, EncoderMoves DEF Shape
    <2>3. UNCHANGED <<request, engine, queue, source, replay, counted, feeder, drainer, task, out, wire, slot>>
      BY <1>5 DEF EncoderComplains, pcmVars, encoderVars, answerVars
    <2> QED
      BY <2>1, <2>2, <2>3 DEF Shape
  <1>6. CASE EncoderWrites
    <2>1. pipe' \in PipeShape
      <3>1. PipeIs(pipe.in, pipe.open, Append(pipe.out, ffmpeg.hand), pipe.err)
        BY <1>6, PipeMoves DEF Shape
      <3>2. Append(pipe.out, ffmpeg.hand) \in Seq(Nat)
        BY FieldShape, SeqShape
      <3> QED
        BY <3>1, <3>2, FieldShape, RecordsShape
    <2>2. ffmpeg' \in EncoderShape
      BY <1>6, FieldShape, RecordsShape, EncoderMoves DEF Shape, EncoderWrites
    <2>3. UNCHANGED <<request, engine, queue, source, replay, counted, feeder, drainer, task, out, wire, slot>>
      BY <1>6 DEF EncoderWrites, EncoderShape, pcmVars, encoderVars, answerVars
    <2> QED
      BY <2>1, <2>2, <2>3 DEF Shape
  <1>7. CASE EncoderExits
    <2>1. pipe' \in PipeShape
      BY <1>7, FieldShape, RecordsShape, PipeMoves, SeqShape DEF Shape
    <2>2. ffmpeg' \in EncoderShape
      BY <1>7, FieldShape, RecordsShape, EncoderMoves DEF Shape
    <2>3. UNCHANGED <<request, engine, queue, source, replay, counted, feeder, drainer, task, out, wire, slot>>
      BY <1>7 DEF EncoderExits, pcmVars, encoderVars, answerVars
    <2> QED
      BY <2>1, <2>2, <2>3 DEF Shape
  <1>8. CASE EncoderDies
    <2>1. pipe' \in PipeShape
      BY <1>8, FieldShape, RecordsShape, PipeMoves, SeqShape DEF Shape
    <2>2. ffmpeg' \in EncoderShape
      BY <1>8, FieldShape, RecordsShape, EncoderMoves DEF Shape
    <2>3. UNCHANGED <<request, engine, queue, source, replay, counted, feeder, drainer, task, out, wire, slot>>
      BY <1>8 DEF EncoderDies, pcmVars, encoderVars, answerVars
    <2> QED
      BY <2>1, <2>2, <2>3 DEF Shape
  <1>9. CASE DrainStderr
    <2>1. pipe' \in PipeShape
      <3>1. PipeIs(pipe.in, pipe.open, pipe.out, 0) \/ UNCHANGED pipe
        BY <1>9, PipeMoves DEF Shape
      <3> QED
        BY <3>1, FieldShape, RecordsShape DEF Shape
    <2>2. drainer' \in {"off", "reading", "done"}
      BY <1>9 DEF Shape, DrainStderr
    <2>3. UNCHANGED <<request, engine, queue, source, replay, counted, feeder, ffmpeg, task, out, wire, slot>>
      BY <1>9 DEF DrainStderr, pcmVars, encoderVars, answerVars
    <2> QED
      BY <2>1, <2>2, <2>3 DEF Shape
  <1> QED
    BY <1>1, <1>2, <1>3, <1>4, <1>5, <1>6, <1>7, <1>8, <1>9

LEMMA TaskKeepsShape ==
  ASSUME Shape,
         \/ Prime \/ Collect \/ PrimeEncoded \/ ReplyPlain \/ StartEncoder \/ ReadBlock \/ EncoderEnds
         \/ Start \/ Send \/ PullPlain \/ Finish \/ CloseBody \/ CloseStreams
         \/ HangUpReading \/ HangUpSending
  PROVE  Shape'
  <1>1. CASE Prime
    <2>1. queue' \in Seq(Nat)
      BY <1>1, SeqShape, EndingShape DEF Shape, Prime, PullFirst, Replayed, Places
    <2>2. replay' \in Seq(Nat)
      BY <1>1, SeqShape, EndingShape DEF Shape, Prime, PullFirst, Replayed, Places
    <2>3. source' \in {"open", "draining", "closed"}
      BY <1>1, SeqShape, EndingShape DEF Shape, Prime, PullFirst, Replayed, Places
    <2>4. task' \in Places
      BY <1>1, EndingShape DEF Shape, Prime, Places, PullFirst, Replayed
    <2>5. wire' \in WireShape
      BY <1>1, EndingShape DEF Shape, Prime, WireShape, PullFirst, Replayed, Places
    <2>6. slot' \in SlotShape
      BY <1>1, EndingShape DEF Shape, Prime, SlotShape, PullFirst, Replayed, Places
    <2>7. UNCHANGED <<request, engine, counted, feeder, ffmpeg, pipe, drainer, out>>
      BY <1>1 DEF Prime, PullFirst, Replayed, Places, pcmVars, encoderVars, answerVars
    <2> QED
      BY <2>1, <2>2, <2>3, <2>4, <2>5, <2>6, <2>7 DEF Shape
  <1>2. CASE Collect
    <2>1. queue' \in Seq(Nat)
      BY <1>2, SeqShape, EndingShape, Numbers DEF Shape, Collect, Places
    <2>2. replay' \in Seq(Nat)
      <3>1. queue \in Seq(Nat) /\ replay \in Seq(Nat) /\ queue # <<>>
        BY <1>2 DEF Shape, Collect
      <3>2. Head(queue) \in Nat /\ End \in Nat
        BY <3>1, SeqShape, Numbers
      <3>3. replay' = replay \/ replay' = Append(replay, Head(queue)) \/ replay' = Append(replay, End)
        BY <1>2 DEF Collect
      <3> QED
        BY <3>1, <3>2, <3>3, SeqShape
    <2>3. counted' \in Nat
      BY <1>2, SeqShape, EndingShape, Numbers DEF Shape, Collect, Places
    <2>4. source' \in {"open", "draining", "closed"}
      BY <1>2, SeqShape, EndingShape, Numbers DEF Shape, Collect, Places
    <2>5. task' \in Places
      BY <1>2, EndingShape DEF Shape, Collect, Places
    <2>6. wire' \in WireShape
      BY <1>2, EndingShape DEF Shape, Collect, WireShape, Places
    <2>7. slot' \in SlotShape
      BY <1>2, EndingShape DEF Shape, Collect, SlotShape, Places
    <2>8. UNCHANGED <<request, engine, feeder, ffmpeg, pipe, drainer, out>>
      BY <1>2 DEF Collect, Places, pcmVars, encoderVars, answerVars
    <2> QED
      BY <2>1, <2>2, <2>3, <2>4, <2>5, <2>6, <2>7, <2>8 DEF Shape
  <1>3. CASE PrimeEncoded
    <2>1. queue' \in Seq(Nat)
      BY <1>3, TakeShape, ItemShape, Numbers DEF Shape, PrimeEncoded, Take, pcmVars
    <2>2. source' \in {"open", "draining", "closed"}
      BY <1>3, TakeShape, ItemShape, Numbers DEF Shape, PrimeEncoded, Take, pcmVars
    <2>3. replay' \in Seq(Nat)
      BY <1>3, TakeShape, ItemShape, Numbers DEF Shape, PrimeEncoded, Take, pcmVars
    <2>4. counted' \in Nat
      BY <1>3, TakeShape, ItemShape, Numbers DEF Shape, PrimeEncoded, Take, pcmVars
    <2>5. task' \in Places
      BY <1>3 DEF Shape, PrimeEncoded, Places, Take, pcmVars
    <2>6. out' \in Seq(Nat)
      <3>1. out' = <<Header>> \/ (Take /\ out' = <<Item>>)
        BY <1>3 DEF PrimeEncoded
      <3>2. Take => Item \in Nat
        BY ItemShape DEF Take
      <3>3. Header \in Nat
        BY Numbers
      <3> QED
        BY <3>1, <3>2, <3>3, SeqShape
    <2>7. UNCHANGED <<request, engine, feeder, ffmpeg, pipe, drainer, wire, slot>>
      BY <1>3 DEF PrimeEncoded, Take, pcmVars, encoderVars, answerVars
    <2> QED
      BY <2>1, <2>2, <2>3, <2>4, <2>5, <2>6, <2>7 DEF Shape
  <1>4. CASE ReplyPlain
    <2>1. PICK blocks \in Seq(Nat) : Reply(blocks)
      <3>1. <<Header>> \in Seq(Nat) /\ <<>> \in Seq(Nat) /\ Front(replay) \in Seq(Nat)
        BY SeqShape, Numbers DEF Shape
      <3>2. (IF request.format = "wav" THEN <<Header>> ELSE <<>>) \o Front(replay) \in Seq(Nat)
        BY <3>1, SeqShape
      <3> QED
        BY <3>2, <1>4 DEF ReplyPlain
    <2>2. task' \in Places /\ wire' \in WireShape /\ slot' \in SlotShape
      BY <2>1, ReplyShape
    <2>3. UNCHANGED <<request, engine, queue, source, replay, counted, feeder, ffmpeg, pipe, drainer, out>>
      BY <1>4 DEF ReplyPlain, pcmVars, encoderVars
    <2> QED
      BY <2>2, <2>3 DEF Shape
  <1>5. CASE StartEncoder
    <2>1. ffmpeg' \in EncoderShape
      BY <1>5, FieldShape, RecordsShape, EncoderMoves DEF Shape, StartEncoder
    <2>2. feeder' \in FeederShape
      BY <1>5, FieldShape, RecordsShape, FeederMoves, ItemShape DEF Shape, StartEncoder
    <2>3. drainer' \in {"off", "reading", "done"}
      BY <1>5, EndingShape DEF Shape, StartEncoder, Abandon
    <2>4. source' \in {"open", "draining", "closed"}
      BY <1>5, EndingShape DEF Shape, StartEncoder, Abandon
    <2>5. task' \in Places
      BY <1>5, EndingShape DEF Shape, StartEncoder, Places, Abandon
    <2>6. wire' \in WireShape
      BY <1>5, EndingShape DEF Shape, StartEncoder, WireShape, Abandon
    <2>7. slot' \in SlotShape
      BY <1>5, EndingShape DEF Shape, StartEncoder, SlotShape, Abandon
    <2>8. UNCHANGED <<request, engine, queue, replay, counted, pipe, out>>
      BY <1>5 DEF StartEncoder, Abandon, pcmVars, encoderVars, answerVars
    <2> QED
      BY <2>1, <2>2, <2>3, <2>4, <2>5, <2>6, <2>7, <2>8 DEF Shape
  <1>6. CASE ReadBlock
    <2>1. pipe' \in PipeShape
      <3>1. PipeIs(pipe.in, pipe.open, Tail(pipe.out), pipe.err) /\ pipe.out # <<>>
        BY <1>6, PipeMoves DEF Shape, ReadBlock
      <3>2. Tail(pipe.out) \in Seq(Nat)
        BY <3>1, FieldShape, SeqShape
      <3> QED
        BY <3>1, <3>2, FieldShape, RecordsShape
    <2>2. out' \in Seq(Nat)
      BY <1>6, SeqShape DEF Shape, ReadBlock, PipeShape
    <2>3. task' \in Places
      BY <1>6 DEF Shape, ReadBlock, Places, PipeShape
    <2>4. UNCHANGED <<request, engine, queue, source, replay, counted, feeder, ffmpeg, drainer, wire, slot>>
      BY <1>6 DEF ReadBlock, PipeShape, pcmVars, encoderVars, answerVars
    <2> QED
      BY <2>1, <2>2, <2>3, <2>4 DEF Shape
  <1>7. CASE EncoderEnds
    <2>1. task' \in Places
      BY <1>7, EndingShape, ReplyShape DEF Shape, EncoderEnds, Places, EncoderVerdict, Fail
    <2>2. out' \in Seq(Nat)
      BY <1>7, EndingShape, ReplyShape DEF Shape, EncoderEnds, EncoderVerdict, Fail
    <2>3. wire' \in WireShape
      BY <1>7, EndingShape, ReplyShape DEF Shape, EncoderEnds, WireShape, EncoderVerdict, Fail
    <2>4. slot' \in SlotShape
      BY <1>7, EndingShape, ReplyShape DEF Shape, EncoderEnds, SlotShape, EncoderVerdict, Fail
    <2>5. UNCHANGED <<request, engine, queue, source, replay, counted, feeder, ffmpeg, pipe, drainer>>
      BY <1>7 DEF EncoderEnds, EncoderVerdict, Fail, pcmVars, encoderVars, answerVars
    <2> QED
      BY <2>1, <2>2, <2>3, <2>4, <2>5 DEF Shape
  <1>8. CASE Start
    <2>1. task' \in Places
      BY <1>8 DEF Shape, Start, Places
    <2>2. wire' \in WireShape
      BY <1>8, FieldShape, RecordsShape, WireMoves DEF Shape
    <2>3. UNCHANGED <<request, engine, queue, source, replay, counted, feeder, ffmpeg, pipe, drainer, out, slot>>
      BY <1>8 DEF Start, pcmVars, encoderVars, answerVars
    <2> QED
      BY <2>1, <2>2, <2>3 DEF Shape
  <1>9. CASE Send
    <2>1. task' \in Places
      BY <1>9 DEF Shape, Send, Places
    <2>2. out' \in Seq(Nat)
      BY <1>9 DEF Shape, Send
    <2>3. wire' \in WireShape
      <3>1. WireIs(wire.status, wire.sent \o out, wire.ending, wire.duration)
        BY <1>9, WireMoves DEF Shape
      <3>2. wire.sent \o out \in Seq(Nat)
        BY FieldShape, SeqShape DEF Shape
      <3>3. \A sent \in Seq(Nat) : WireIs(wire.status, sent, wire.ending, wire.duration) => wire' \in WireShape
        BY FieldShape, RecordsShape
      <3> QED
        BY <3>1, <3>2, <3>3
    <2>4. UNCHANGED <<request, engine, queue, source, replay, counted, feeder, ffmpeg, pipe, drainer, slot>>
      BY <1>9 DEF Send, pcmVars, encoderVars, answerVars
    <2> QED
      BY <2>1, <2>2, <2>3, <2>4 DEF Shape
  <1>10. CASE PullPlain
    <2>1. Take /\ UNCHANGED <<feeder, ffmpeg, pipe, drainer>>
      BY <1>10, PullPlainDoes DEF encoderVars
    <2>2. Item \in Nat
      BY <2>1, ItemShape DEF Take
    <2>3. task' \in Places /\ wire' \in WireShape /\ slot' \in SlotShape
      <3>1. CASE EndOfBody \/ Abort
        BY <3>1, EndingShape
      <3>2. CASE task' = "send" /\ UNCHANGED <<wire, slot>>
        BY <3>2 DEF Shape, Places
      <3> QED
        BY <3>1, <3>2, <1>10, PullPlainDoes
    <2>4. out' \in Seq(Nat)
      <3>1. out' = <<Item>> \/ out' = out
        BY <1>10, PullPlainDoes
      <3> QED
        BY <3>1, <2>2, SeqShape DEF Shape
    <2>5. UNCHANGED <<request, engine>> /\ queue' \in Seq(Nat) /\ replay' \in Seq(Nat)
          /\ source' \in {"open", "draining", "closed"} /\ counted' \in Nat
      BY <2>1, TakeShape
    <2> QED
      BY <2>1, <2>3, <2>4, <2>5 DEF Shape
  <1>11. CASE Finish
    <2>1. task' \in Places
      BY <1>11 DEF Shape, Finish, Places
    <2>2. wire' \in WireShape
      BY <1>11, FieldShape, RecordsShape, WireMoves DEF Shape
    <2>3. UNCHANGED <<request, engine, queue, source, replay, counted, feeder, ffmpeg, pipe, drainer, out, slot>>
      BY <1>11 DEF Finish, pcmVars, encoderVars, answerVars
    <2> QED
      BY <2>1, <2>2, <2>3 DEF Shape
  <1>12. CASE CloseBody
    <2>1. task' \in Places
      BY <1>12, ReleaseShape DEF Shape, CloseBody, Places
    <2>2. slot' \in SlotShape
      BY <1>12, ReleaseShape DEF Shape, CloseBody, SlotShape
    <2>3. UNCHANGED <<request, engine, queue, source, replay, counted, feeder, ffmpeg, pipe, drainer, out, wire>>
      BY <1>12 DEF CloseBody, pcmVars, encoderVars, answerVars
    <2> QED
      BY <2>1, <2>2, <2>3 DEF Shape
  <1>13. CASE CloseStreams
    <2>1. task' \in Places
      BY <1>13 DEF Shape, CloseStreams, Places, CancelTasks, Abandon, encoderVars
    <2>2. source' \in {"open", "draining", "closed"}
      BY <1>13 DEF Shape, CloseStreams, CancelTasks, Abandon, encoderVars
    <2>3. feeder' \in FeederShape
      BY <1>13, FieldShape, RecordsShape, FeederMoves, ItemShape DEF Shape, CloseStreams, encoderVars
    <2>4. drainer' \in {"off", "reading", "done"}
      BY <1>13 DEF Shape, CloseStreams, CancelTasks, Abandon, encoderVars
    <2>5. pipe' \in PipeShape
      BY <1>13, FieldShape, RecordsShape, PipeMoves, SeqShape DEF Shape, CloseStreams, encoderVars
    <2>6. ffmpeg' \in EncoderShape
      BY <1>13, FieldShape, RecordsShape, EncoderMoves DEF Shape, CloseStreams
    <2>7. UNCHANGED <<request, engine, queue, replay, counted, out, wire, slot>>
      BY <1>13 DEF CloseStreams, CancelTasks, Abandon, encoderVars, pcmVars, answerVars
    <2> QED
      BY <2>1, <2>2, <2>3, <2>4, <2>5, <2>6, <2>7 DEF Shape
  <1>14. CASE HangUpReading
    <2>1. task' \in Places
      BY <1>14, ReleaseShape DEF Shape, HangUpReading, Places, CancelTasks, Abandon, encoderVars
    <2>2. wire' \in WireShape
      BY <1>14, FieldShape, RecordsShape, WireMoves DEF Shape, HangUpReading
    <2>3. slot' \in SlotShape
      BY <1>14, ReleaseShape DEF Shape, HangUpReading, SlotShape, CancelTasks, Abandon, encoderVars
    <2>4. queue' \in Seq(Nat)
      BY <1>14, ReleaseShape DEF Shape, HangUpReading, CancelTasks, Abandon, encoderVars
    <2>5. source' \in {"open", "draining", "closed"}
      BY <1>14, ReleaseShape DEF Shape, HangUpReading, CancelTasks, Abandon, encoderVars
    <2>6. ffmpeg' \in EncoderShape
      BY <1>14, FieldShape, RecordsShape, EncoderMoves DEF Shape, HangUpReading
    <2>7. pipe' \in PipeShape
      BY <1>14, FieldShape, RecordsShape, PipeMoves, SeqShape DEF Shape, HangUpReading, encoderVars
    <2>8. feeder' \in FeederShape
      BY <1>14, FieldShape, RecordsShape, FeederMoves, ItemShape DEF Shape, HangUpReading, encoderVars
    <2>9. drainer' \in {"off", "reading", "done"}
      BY <1>14, ReleaseShape DEF Shape, HangUpReading, CancelTasks, Abandon, encoderVars
    <2>10. UNCHANGED <<request, engine, replay, counted, out>>
      BY <1>14 DEF HangUpReading, CancelTasks, Abandon, encoderVars, pcmVars, answerVars
    <2> QED
      BY <2>1, <2>2, <2>3, <2>4, <2>5, <2>6, <2>7, <2>8, <2>9, <2>10 DEF Shape
  <1>15. CASE HangUpSending
    <2>1. task' \in Places
      BY <1>15 DEF Shape, HangUpSending, Places
    <2>2. wire' \in WireShape
      BY <1>15, FieldShape, RecordsShape, WireMoves DEF Shape
    <2>3. UNCHANGED <<request, engine, queue, source, replay, counted, feeder, ffmpeg, pipe, drainer, out, slot>>
      BY <1>15 DEF HangUpSending, pcmVars, encoderVars, answerVars
    <2> QED
      BY <2>1, <2>2, <2>3 DEF Shape
  <1> QED
    BY <1>1, <1>2, <1>3, <1>4, <1>5, <1>6, <1>7, <1>8, <1>9, <1>10, <1>11, <1>12, <1>13, <1>14, <1>15

LEMMA ShapeKept ==
  ASSUME Shape, [AnswerStep]_vars
  PROVE  Shape'
  <1>1. CASE UNCHANGED vars
    BY <1>1 DEF vars, Shape
  <1>2. CASE Works
    BY <1>2, EngineKeepsShape, EncoderKeepsShape, TaskKeepsShape DEF Works
  <1>3. CASE Breaks \/ Send \/ HangsUp
    BY <1>3, EngineKeepsShape, EncoderKeepsShape, TaskKeepsShape DEF Breaks, HangsUp
  <1> QED
    BY <1>1, <1>2, <1>3 DEF AnswerStep

-----------------------------------------------------------------------------
(* The handler and its response.                                           *)

TaskActs ==
  \/ Prime \/ Collect \/ PrimeEncoded \/ ReplyPlain \/ StartEncoder \/ ReadBlock \/ EncoderEnds
  \/ Start \/ Send \/ PullPlain \/ Finish \/ CloseBody \/ CloseStreams
  \/ HangUpReading \/ HangUpSending

LEMMA OthersLeaveTask ==
  ASSUME [AnswerStep]_vars, ~TaskActs
  PROVE  UNCHANGED <<request, task, out, wire, slot>>
  <1>1. CASE UNCHANGED vars
    BY <1>1 DEF vars
  <1>2. CASE Make \/ Exhausted \/ EngineRaises \/ Put \/ ThreadGone \/ Drain
    BY <1>2 DEF Make, Exhausted, EngineRaises, Put, ThreadGone, Drain, answerVars
  <1>3. CASE FeederPulls \/ FeederWrites \/ FeederCloses \/ EncoderReads \/ EncoderComplains
    BY <1>3 DEF FeederPulls, FeederWrites, FeederCloses, EncoderReads, EncoderComplains, answerVars, Take
  <1>4. CASE EncoderWrites \/ EncoderExits \/ EncoderDies \/ DrainStderr
    BY <1>4 DEF EncoderWrites, EncoderExits, EncoderDies, DrainStderr, answerVars
  <1> QED
    BY <1>1, <1>2, <1>3, <1>4 DEF AnswerStep, Works, Breaks, HangsUp, TaskActs

(* What the ends of a handler do to the answer.                            *)
LEMMA RefuseEnds ==
  ASSUME Shape, TaskInv, SlotInv, Refuse, task \in Waiting, request' = request,
         out' = out \/ out' = <<>>
  PROVE  TaskInv' /\ SlotInv'
  <1>1. WireIs("refused", wire.sent, wire.ending, wire.duration)
    BY WireMoves DEF Refuse, Shape
  <1>2. /\ task' = "returned" /\ wire'.status = "refused"
        /\ wire'.sent = wire.sent /\ wire'.ending = wire.ending
    BY <1>1 DEF WireIs, Refuse
  <1>3. ~slot.released /\ slot'.released /\ slot'.free = 1
    BY FieldShape DEF SlotInv, Waiting, Refuse, Release
  <1>4. SlotInv'
    BY <1>2, <1>3 DEF SlotInv
  <1>5. wire.sent = <<>> /\ wire.ending = "none"
    BY DEF TaskInv, Waiting
  <1>6. TaskInv'
    BY <1>2, <1>5 DEF TaskInv, Waiting, Streaming, Encodes
  <1> QED
    BY <1>4, <1>6

LEMMA AbortEnds ==
  ASSUME Shape, TaskInv, SlotInv, Abort, task = "pull", request' = request,
         out' = out \/ out' = <<>>
  PROVE  TaskInv' /\ SlotInv'
  <1>1. WireIs(wire.status, wire.sent, "aborted", wire.duration)
    BY WireMoves DEF Shape
  <1>2. /\ task' = "returned" /\ wire'.status = wire.status
        /\ wire'.sent = wire.sent /\ wire'.ending = "aborted"
    BY <1>1 DEF WireIs, Abort
  <1>3. ~slot.released /\ slot'.released /\ slot'.free = 1
    BY FieldShape DEF SlotInv, Abort, Release
  <1>4. SlotInv'
    BY <1>2, <1>3 DEF SlotInv
  <1>5. wire.status = "ok" /\ request.stream
    BY DEF TaskInv, Streaming
  <1>6. TaskInv'
    BY <1>2, <1>5 DEF TaskInv, Waiting, Streaming, Encodes
  <1> QED
    BY <1>4, <1>6

LEMMA BodyEnds ==
  ASSUME Shape, TaskInv, SlotInv, EndOfBody, task = "pull", request' = request,
         out' = out \/ out' = <<>>
  PROVE  TaskInv' /\ SlotInv'
  <1>1. task' = "end" /\ wire' = wire
    BY DEF EndOfBody
  <1>2. ~slot.released /\ slot'.released /\ slot'.free = 1
    BY FieldShape DEF SlotInv, EndOfBody, Release
  <1>3. SlotInv'
    BY <1>1, <1>2 DEF SlotInv
  <1>4. TaskInv'
    BY <1>1 DEF TaskInv, Waiting, Streaming, Encodes
  <1> QED
    BY <1>3, <1>4

LEMMA ReplyEnds ==
  ASSUME Shape, TaskInv, SlotInv, NEW blocks, Reply(blocks), task = "encodeAll", request' = request,
         out' = <<>>
  PROVE  TaskInv' /\ SlotInv'
  <1>1. task' = "returned" /\ wire'.status = "ok" /\ wire'.ending = "whole"
    BY DEF Reply
  <1>2. ~slot.released /\ slot'.released /\ slot'.free = 1
    BY FieldShape DEF SlotInv, Reply, Release
  <1>3. SlotInv'
    BY <1>1, <1>2 DEF SlotInv
  <1>4. TaskInv'
    BY <1>1 DEF TaskInv, Waiting, Streaming, Encodes
  <1> QED
    BY <1>3, <1>4

LEMMA TaskStep ==
  ASSUME Shape, TaskInv, SlotInv, EncoderInv, TaskActs
  PROVE  TaskInv' /\ SlotInv'
  <1> USE DEF Waiting, Streaming
  <1>1. CASE Prime
    <2>1. task = "prime" /\ UNCHANGED <<request, out>>
      BY <1>1 DEF Prime, PullFirst
    <2>2. CASE Refuse
      BY <2>1, <2>2, RefuseEnds
    <2>3. CASE ~Refuse
      <3>1. task' = "encoder" /\ UNCHANGED <<wire, slot>>
        BY <1>1, <2>3 DEF Prime, PullFirst
      <3> QED
        BY <2>1, <3>1 DEF TaskInv, SlotInv, Encodes
    <2> QED
      BY <2>2, <2>3
  <1>2. CASE Collect
    <2>1. task = "collect" /\ UNCHANGED <<request, out>>
      BY <1>2 DEF Collect
    <2>2. CASE Refuse
      BY <2>1, <2>2, RefuseEnds
    <2>3. CASE ~Refuse
      <3>1. task' \in {"collect", "encodeAll"} /\ UNCHANGED <<wire, slot>>
        BY <1>2, <2>1, <2>3 DEF Collect
      <3> QED
        BY <2>1, <3>1 DEF TaskInv, SlotInv, Encodes
    <2> QED
      BY <2>2, <2>3
  <1>3. CASE PrimeEncoded
    <2>1. task = "encoder" /\ task' = "start" /\ UNCHANGED <<request, wire, slot>> /\ Len(out') = 1
      BY <1>3 DEF PrimeEncoded
    <2> QED
      BY <2>1 DEF TaskInv, SlotInv, Encodes
  <1>4. CASE ReplyPlain
    <2>1. task = "encodeAll" /\ ~Encodes /\ UNCHANGED <<request, out>> /\ \E blocks : Reply(blocks)
      BY <1>4 DEF ReplyPlain
    <2>2. out' = <<>>
      BY <2>1 DEF TaskInv
    <2> QED
      BY <2>1, <2>2, ReplyEnds
  <1>5. CASE StartEncoder
    <2>1. task \in {"encoder", "encodeAll"} /\ UNCHANGED <<request, out>>
      BY <1>5 DEF StartEncoder
    <2>2. CASE Refuse
      BY <2>1, <2>2, RefuseEnds
    <2>3. CASE ~Refuse
      <3>1. UNCHANGED <<task, wire, slot>>
        BY <1>5, <2>3 DEF StartEncoder
      <3> QED
        BY <2>1, <3>1 DEF TaskInv, SlotInv, Encodes
    <2> QED
      BY <2>2, <2>3
  <1>6. CASE ReadBlock
    <2>1. /\ task \in {"encoder", "encodeAll", "pull"} /\ UNCHANGED <<request, wire, slot>>
          /\ out' = Append(out, Head(pipe.out))
          /\ task' = IF task = "encoder" THEN "start" ELSE IF task = "pull" THEN "send" ELSE task
      BY <1>6 DEF ReadBlock
    <2>2. Encodes
      BY <1>6 DEF ReadBlock, EncoderInv
    <2>3. task # "encodeAll" => Len(out') = 1
      <3>1. task # "encodeAll" => out = <<>>
        BY <2>1 DEF TaskInv
      <3> QED
        BY <2>1, <3>1
    <2>4. Encodes'
      BY <2>1, <2>2 DEF Encodes
    <2> QED
      BY <2>1, <2>2, <2>3, <2>4 DEF TaskInv, SlotInv
  <1>7. CASE EncoderEnds
    <2>1. /\ request' = request /\ out' = <<>>
          /\ \/ task \in {"encoder", "encodeAll"} /\ Refuse
             \/ task = "pull" /\ Abort
             \/ task = "pull" /\ EndOfBody
             \/ task = "encodeAll" /\ Reply(out)
      BY <1>7, EncoderEndsDoes
    <2> QED
      BY <2>1, RefuseEnds, AbortEnds, BodyEnds, ReplyEnds
  <1>8. CASE Start
    <2>1. task = "start" /\ task' = "send" /\ UNCHANGED <<request, out, slot>>
      BY <1>8 DEF Start
    <2>2. wire'.status = "ok" /\ wire'.sent = wire.sent /\ wire'.ending = wire.ending
      BY <1>8, WireMoves DEF WireIs, Shape
    <2> QED
      BY <2>1, <2>2 DEF TaskInv, SlotInv, Encodes
  <1>9. CASE Send
    <2>1. task = "send" /\ task' = "pull" /\ out' = <<>> /\ UNCHANGED <<request, slot>>
      BY <1>9 DEF Send
    <2>2. wire'.status = wire.status /\ wire'.ending = wire.ending
      BY <1>9, WireMoves DEF WireIs, Shape
    <2> QED
      BY <2>1, <2>2 DEF TaskInv, SlotInv, Encodes
  <1>10. CASE PullPlain
    <2>1. task = "pull" /\ request' = request
      BY <1>10, PullPlainDoes DEF Take
    <2>2. CASE task' = "send" /\ out' = <<Item>> /\ UNCHANGED <<wire, slot>>
      <3>1. Len(out') = 1
        BY <2>2
      <3> QED
        BY <2>1, <2>2, <3>1 DEF TaskInv, SlotInv, Encodes
    <2>3. CASE EndOfBody /\ UNCHANGED out
      BY <2>1, <2>3, BodyEnds
    <2>4. CASE Abort /\ UNCHANGED out
      BY <2>1, <2>4, AbortEnds
    <2> QED
      BY <1>10, <2>2, <2>3, <2>4, PullPlainDoes
  <1>11. CASE Finish
    <2>1. task = "end" /\ task' = "returned" /\ UNCHANGED <<request, out, slot>>
      BY <1>11 DEF Finish
    <2>2. wire'.status = wire.status /\ wire'.sent = wire.sent /\ wire'.ending = "trailer"
      BY <1>11, WireMoves DEF WireIs, Shape
    <2> QED
      BY <2>1, <2>2 DEF TaskInv, SlotInv, Encodes
  <1>12. CASE CloseBody
    <2>1. task = "hungup" /\ task' = "unwinding" /\ UNCHANGED <<request, out, wire>>
      BY <1>12 DEF CloseBody
    <2>2. ~slot.released /\ slot'.released /\ slot'.free = 1
      BY <1>12, FieldShape DEF SlotInv, CloseBody, Release
    <2> QED
      BY <2>1, <2>2 DEF TaskInv, SlotInv, Encodes
  <1>13. CASE CloseStreams
    <2>1. task = "unwinding" /\ task' = "returned" /\ UNCHANGED <<request, out, wire, slot>>
      BY <1>13 DEF CloseStreams
    <2> QED
      BY <2>1 DEF TaskInv, SlotInv, Encodes
  <1>14. CASE HangUpReading
    <2>1. task = "pull" /\ task' = "returned" /\ UNCHANGED <<request, out>>
      BY <1>14 DEF HangUpReading
    <2>2. wire'.status = wire.status /\ wire'.sent = wire.sent /\ wire'.ending = "gone"
      BY <1>14, WireMoves DEF WireIs, Shape
    <2>3. ~slot.released /\ slot'.released /\ slot'.free = 1
      BY <1>14, FieldShape DEF SlotInv, HangUpReading, Release
    <2> QED
      BY <2>1, <2>2, <2>3 DEF TaskInv, SlotInv, Encodes
  <1>15. CASE HangUpSending
    <2>1. /\ task \in {"send", "end"} /\ task' = IF task = "send" THEN "hungup" ELSE "returned"
          /\ UNCHANGED <<request, out, slot>>
      BY <1>15 DEF HangUpSending
    <2>2. wire'.status = wire.status /\ wire'.sent = wire.sent /\ wire'.ending = "gone"
      BY <1>15, WireMoves DEF WireIs, Shape
    <2> QED
      BY <2>1, <2>2 DEF TaskInv, SlotInv, Encodes
  <1> QED
    BY <1>1, <1>2, <1>3, <1>4, <1>5, <1>6, <1>7, <1>8, <1>9, <1>10, <1>11, <1>12, <1>13, <1>14, <1>15
       DEF TaskActs

LEMMA TaskKept ==
  ASSUME Shape, TaskInv, SlotInv, EncoderInv, [AnswerStep]_vars
  PROVE  TaskInv' /\ SlotInv'
  <1>1. CASE ~TaskActs
    BY <1>1, OthersLeaveTask DEF TaskInv, SlotInv, Encodes
  <1> QED
    BY <1>1, TaskStep

-----------------------------------------------------------------------------
(* The engine's thread, the queue and its readers.                         *)

PcmInv == EngineInv /\ QueueInv /\ ReplayInv

(* Whoever reads has PCM ahead of him, in order and then the mark.         *)
Reads == task \notin {"prime", "collect"} /\ (request.stream \/ task = "encodeAll")

LEMMA Lengths ==
  ASSUME Shape
  PROVE  /\ Len(queue) \in Nat /\ Len(replay) \in Nat /\ Len(out) \in Nat
         /\ Len(pipe.in) \in Nat /\ Len(pipe.out) \in Nat /\ Len(wire.sent) \in Nat
         /\ Position \in Int /\ Fetched \in Nat
  <1>1. /\ Len(queue) \in Nat /\ Len(replay) \in Nat /\ Len(out) \in Nat
        /\ Len(pipe.in) \in Nat /\ Len(pipe.out) \in Nat /\ Len(wire.sent) \in Nat
    BY LengthZero, FieldShape DEF Shape
  <1>2. counted \in Nat
    BY DEF Shape
  <1> QED
    BY <1>1, <1>2 DEF Position, Fetched

LEMMA QueueIsNext ==
  ASSUME Shape, EngineInv, QueueInv, source = "open", queue # <<>>
  PROVE  /\ Tail(queue) \in Seq(Nat) /\ Len(Tail(queue)) = Len(queue) - 1
         /\ IsChunk(Head(queue)) =>
              /\ Head(queue) = Fetched + 1 /\ Head(queue) <= engine.made
              /\ Told => EndsAfter(Tail(queue), Fetched + 1, Mark)
              /\ ~Told => Follows(Tail(queue), Fetched + 1)
         /\ ~IsChunk(Head(queue)) =>
              \/ Head(queue) = End /\ EngineDone /\ Fetched = engine.length
              \/ Head(queue) = Raised /\ Told /\ engine.failed
  <1> DEFINE f == Fetched
             m == Mark
  <1>1. /\ queue \in Seq(Nat) /\ Len(queue) \in Nat /\ f \in Nat /\ f \in Int
        /\ engine.made \in Nat /\ engine.length \in 0..Most /\ engine.made <= engine.length
        /\ engine.at \in {"making", "putting", "stopping", "exited", "gone"}
    BY Lengths, FieldShape DEF Shape, EngineInv
  <1>2. m \in {End, Raised} /\ m \in Nat /\ ~IsChunk(m)
    BY Numbers DEF Mark
  <1>3. Len(queue) > 0
    BY <1>1, LengthZero
  <1>4. CASE Told
    <2>1. f + Len(queue) = engine.made + 1 /\ EndsAfter(queue, f, m)
      BY <1>4 DEF QueueInv
    <2>2. engine.failed \/ engine.made = engine.length
      BY <1>4 DEF QueueInv, Told
    <2> HIDE DEF f, m
    <2>3. /\ Tail(queue) \in Seq(Nat) /\ Len(Tail(queue)) = Len(queue) - 1
          /\ Len(queue) = 1 => Head(queue) = m
          /\ Len(queue) > 1 => Head(queue) = f + 1 /\ EndsAfter(Tail(queue), f + 1, m)
      BY <2>1, <1>1, <1>2, RunMarkedTail
    <2>4. CASE Len(queue) = 1
      <3>1. Head(queue) = m /\ ~IsChunk(Head(queue)) /\ f = engine.made
        BY <2>1, <2>3, <2>4, <1>1, <1>2
      <3>2. \/ Head(queue) = End /\ EngineDone /\ f = engine.length
            \/ Head(queue) = Raised /\ Told /\ engine.failed
        BY <3>1, <2>2, <1>4 DEF m, Mark, EngineDone
      <3> QED
        BY <3>1, <3>2, <2>3 DEF f
    <2>5. CASE Len(queue) > 1
      <3>1. Head(queue) = f + 1 /\ EndsAfter(Tail(queue), f + 1, m) /\ f + 1 <= engine.made
        BY <2>1, <2>3, <2>5, <1>1
      <3>2. f + 1 \in Nat /\ f + 1 <= Most
        BY <3>1, <1>1, Numbers
      <3>3. IsChunk(Head(queue))
        BY <3>1, <3>2, Numbers
      <3> QED
        BY <3>1, <3>3, <2>3, <1>4 DEF f, m
    <2>6. Len(queue) = 1 \/ Len(queue) > 1
      BY <1>1, <1>3, OneOrMore
    <2> QED
      BY <2>4, <2>5, <2>6
  <1>5. CASE ~Told
    <2>1. Follows(queue, f) /\ f + Len(queue) <= engine.made
      <3>1. engine.at \in {"making", "stopping", "putting"}
        BY <1>1, <1>5 DEF Told
      <3>2. \/ f + Len(queue) + 1 = engine.made
            \/ f + Len(queue) = engine.made
        BY <3>1 DEF QueueInv
      <3>3. Follows(queue, f)
        BY <1>5 DEF QueueInv
      <3> HIDE DEF f
      <3> QED
        BY <3>2, <3>3, <1>1
    <2> HIDE DEF f
    <2>2. /\ Tail(queue) \in Seq(Nat) /\ Len(Tail(queue)) = Len(queue) - 1
          /\ Head(queue) = f + 1 /\ Follows(Tail(queue), f + 1)
      BY <2>1, <1>1, RunTail
    <2>3. f + 1 \in Nat /\ f + 1 <= engine.made /\ f + 1 <= Most
      BY <2>1, <1>1, <1>3, Numbers
    <2>4. IsChunk(Head(queue))
      BY <2>2, <2>3, Numbers
    <2> QED
      BY <2>2, <2>3, <2>4, <1>5 DEF f
  <1> QED
    BY <1>4, <1>5

LEMMA WhatIsNext ==
  ASSUME Shape, PcmInv, Available, Reads
  PROVE  /\ IsChunk(Item) => Item = Position + 1 /\ Item <= engine.made
         /\ ~IsChunk(Item) =>
              \/ Item = End /\ EngineDone /\ counted = engine.length /\ Position = engine.length
              \/ Item = Raised /\ engine.failed
  <1>1. /\ counted \in Nat /\ Len(replay) \in Nat /\ replay \in Seq(Nat)
        /\ engine.made \in Nat /\ engine.length \in 0..Most /\ engine.made <= engine.length
    BY Lengths, FieldShape DEF Shape, PcmInv, EngineInv
  <1>2. CASE replay # <<>> /\ request.stream
    <2>1. replay = <<1>> /\ counted = 0 /\ Fetched <= engine.made
      BY <1>2 DEF PcmInv, ReplayInv
    <2>2. Item = 1 /\ Position = 0 /\ 1 <= engine.made
      BY <1>1, <1>2, <2>1 DEF Item, Position, Fetched
    <2>3. IsChunk(1)
      BY <1>1, <2>2, Numbers
    <2> QED
      BY <2>2, <2>3
  <1>3. CASE replay # <<>> /\ ~request.stream
    <2>1. task = "encodeAll"
      BY <1>3 DEF Reads
    <2>2. /\ EngineDone /\ counted = engine.length
          /\ Len(replay) <= counted + 1 /\ EndsAfter(replay, Position, End)
      BY <1>3, <2>1 DEF PcmInv, ReplayInv
    <2>3. Position = counted + 1 - Len(replay) /\ Item = Head(replay) /\ Len(replay) > 0
      BY <1>1, <1>3, LengthZero DEF Position, Item
    <2>4. Position \in Int /\ End \in Nat
      BY <1>1, <2>3, Numbers
    <2>5. /\ Len(replay) = 1 => Item = End
          /\ Len(replay) > 1 => Item = Position + 1
      BY <2>2, <2>3, <2>4, <1>1, RunMarkedTail
    <2>6. CASE Len(replay) = 1
      BY <2>2, <2>3, <2>5, <2>6, <1>1, Numbers
    <2>7. CASE Len(replay) > 1
      <3>1. Position + 1 \in Nat /\ Position + 1 <= counted /\ Position + 1 <= Most
            /\ Position + 1 <= engine.made
        BY <2>2, <2>3, <2>7, <1>1, Numbers DEF EngineDone
      <3> QED
        BY <3>1, <2>5, <2>7, Numbers
    <2>8. Len(replay) = 1 \/ Len(replay) > 1
      BY <1>1, <2>3, OneOrMore
    <2> QED
      BY <2>6, <2>7, <2>8
  <1>4. CASE replay = <<>>
    <2>1. source = "open" /\ queue # <<>> /\ Item = Head(queue)
      BY <1>4 DEF Available, Item
    <2>2. request.stream
      BY <2>1 DEF Reads, PcmInv, ReplayInv
    <2>3. Position = counted /\ Fetched = counted
      BY <1>1, <1>4, <2>2 DEF Position, Fetched
    <2> QED
      BY <2>1, <2>3, QueueIsNext DEF PcmInv
  <1> QED
    BY <1>2, <1>3, <1>4

(* What taking it leaves to the next.                                      *)
LEMMA TakeMoves ==
  ASSUME Shape, PcmInv, Take, Reads
  PROVE  /\ Position' = IF IsChunk(Item) THEN Position + 1 ELSE Position
         /\ request.stream => /\ counted' = Position' /\ replay' = <<>>
                              /\ IsChunk(Item) => Fetched' = Fetched + (IF replay = <<>> THEN 1 ELSE 0)
         /\ ~request.stream =>
              /\ counted' = counted /\ source = "closed"
              /\ replay' # <<>> => /\ Len(replay') <= counted + 1
                                   /\ EndsAfter(replay', Position', End)
  <1> USE DEF Available
  <1>1. /\ counted \in Nat /\ Len(replay) \in Nat /\ replay \in Seq(Nat) /\ Available
        /\ UNCHANGED <<request, engine>>
    BY Lengths, FieldShape DEF Shape, Take
  <1>2. CASE replay # <<>> /\ request.stream
    <2>1. replay = <<1>> /\ counted = 0
      BY <1>2 DEF PcmInv, ReplayInv
    <2>2. Item = 1 /\ Position = 0
      BY <1>1, <1>2, <2>1 DEF Item, Position
    <2>3. Tail(replay) = <<>>
      <3>1. Len(Tail(replay)) = 0 /\ Tail(replay) \in Seq(Nat)
        BY <2>1, HeadTailProperties, <1>1
      <3> QED
        BY <3>1, LengthZero
    <2>4. IsChunk(Item)
      BY <1>1, <2>2, WhatIsNext, Numbers
    <2>5. replay' = <<>> /\ counted' = 1
      BY <2>1, <2>3, <2>4, <1>2 DEF Take
    <2>6. Fetched = 1 /\ Fetched' = 1 /\ Position' = 1
      BY <1>1, <1>2, <2>1, <2>5 DEF Fetched, Position
    <2> QED
      BY <1>2, <2>1, <2>2, <2>4, <2>5, <2>6
  <1>3. CASE replay # <<>> /\ ~request.stream
    <2>1. task = "encodeAll"
      BY <1>3 DEF Reads
    <2>2. /\ source = "closed" /\ counted = engine.length
          /\ Len(replay) <= counted + 1 /\ EndsAfter(replay, Position, End)
      BY <1>3, <2>1 DEF PcmInv, ReplayInv
    <2>3. Position = counted + 1 - Len(replay) /\ Item = Head(replay) /\ Len(replay) > 0
      BY <1>1, <1>3, LengthZero DEF Position, Item
    <2>4. Position \in Int /\ End \in Nat /\ Position + 1 \in Int
      BY <1>1, <2>3, Numbers
    <2>5. replay' = Tail(replay) /\ counted' = counted
      BY <1>3 DEF Take
    <2>6. /\ Len(replay') = Len(replay) - 1
          /\ Len(replay) = 1 => Item = End /\ replay' = <<>>
          /\ Len(replay) > 1 => Item = Position + 1 /\ replay' # <<>> /\ EndsAfter(replay', Position + 1, End)
      BY <2>2, <2>3, <2>4, <2>5, <1>1, RunMarkedTail
    <2>7. CASE Len(replay) = 1
      <3>1. ~IsChunk(Item) /\ Position = counted /\ Position' = counted
        BY <2>3, <2>5, <2>6, <2>7, <1>1, Numbers DEF Position
      <3> QED
        BY <3>1, <2>2, <2>5, <2>6, <2>7, <1>3
    <2>8. CASE Len(replay) > 1
      <3>1. IsChunk(Item)
        <4>1. engine.made \in Nat /\ engine.length \in 0..Most /\ engine.made <= engine.length
          BY FieldShape DEF PcmInv, EngineInv
        <4>2. Item = Position + 1 /\ Position + 1 \in Nat /\ Position + 1 <= Most
          BY <2>2, <2>3, <2>6, <2>8, <4>1, <1>1, Numbers
        <4> QED
          BY <4>2, Numbers
      <3>2. Position' = Position + 1
        BY <2>3, <2>5, <2>6, <2>8, <1>1, <1>3 DEF Position
      <3>3. Len(replay') <= counted + 1
        BY <2>2, <2>6, <1>1
      <3> QED
        BY <3>1, <3>2, <3>3, <2>2, <2>5, <2>6, <2>8, <1>3
    <2>9. Len(replay) = 1 \/ Len(replay) > 1
      BY <1>1, <2>3, OneOrMore
    <2> QED
      BY <2>7, <2>8, <2>9
  <1>4. CASE replay = <<>>
    <2>1. source = "open" /\ queue # <<>> /\ Item = Head(queue)
      BY <1>1, <1>4 DEF Item
    <2>2. request.stream
      BY <2>1 DEF Reads, PcmInv, ReplayInv
    <2>3. Position = counted /\ Fetched = counted
      BY <1>1, <1>4, <2>2 DEF Position, Fetched
    <2>4. replay' = <<>> /\ counted' = IF IsChunk(Item) THEN counted + 1 ELSE counted
      BY <1>4, <2>2 DEF Take
    <2>5. Position' = counted' /\ Fetched' = counted'
      BY <2>4, <2>2, <1>1 DEF Position, Fetched
    <2> QED
      BY <1>4, <2>2, <2>3, <2>4, <2>5
  <1> QED
    BY <1>2, <1>3, <1>4

LEMMA TakeKeepsPcm ==
  ASSUME Shape, PcmInv, Take, Reads,
         task' = task \/ (task \in {"encoder", "pull"} /\ task' \in {"start", "send", "end", "returned"}),
         wire'.status = "ok" => wire.status = "ok", task \in {"encoder", "pull"} => request.stream
  PROVE  PcmInv'
  <1>1. /\ counted \in Nat /\ Len(replay) \in Nat /\ replay \in Seq(Nat) /\ Available /\ queue \in Seq(Nat)
        /\ UNCHANGED <<request, engine>> /\ Len(queue) \in Nat
        /\ engine.made \in Nat /\ engine.length \in Nat /\ engine.made <= engine.length
    BY Lengths, FieldShape DEF Shape, Take, PcmInv, EngineInv
  <1>2. EngineInv'
    <2>1. Len(queue') <= Depth
      <3>1. queue' = queue \/ (queue # <<>> /\ queue' = Tail(queue))
        BY <1>1 DEF Take, Available
      <3>2. queue # <<>> => Len(Tail(queue)) = Len(queue) - 1
        BY <1>1, HeadTailProperties
      <3>3. Len(queue) <= Depth /\ Depth \in Nat
        BY Numbers DEF PcmInv, EngineInv
      <3> QED
        BY <3>1, <3>2, <3>3, <1>1
    <2> QED
      BY <1>1, <2>1 DEF PcmInv, EngineInv
  <1>3. QueueInv'
    <2>1. SUFFICES ASSUME source' = "open"
                   PROVE  QueueInv'
      BY DEF QueueInv
    <2>2. IsChunk(Item) /\ source = "open"
      BY <2>1, Numbers DEF Take
    <2>3. request.stream
      BY <2>2, TakeMoves
    <2>4. CASE replay # <<>>
      <3>1. Fetched' = Fetched /\ queue' = queue
        BY <2>2, <2>3, <2>4, <1>1, TakeMoves, Lengths DEF Take
      <3> QED
        BY <3>1, <2>2, <1>1 DEF QueueInv, PcmInv, Told, Mark
    <2>5. CASE replay = <<>>
      <3>1. Fetched' = Fetched + 1 /\ queue' = Tail(queue) /\ queue # <<>> /\ Item = Head(queue)
        BY <2>2, <2>3, <2>5, <1>1, TakeMoves DEF Take, Available, Item
      <3>2. /\ Len(queue') = Len(queue) - 1
            /\ Told => EndsAfter(queue', Fetched + 1, Mark)
            /\ ~Told => Follows(queue', Fetched + 1)
        BY <3>1, <2>2, QueueIsNext DEF PcmInv
      <3>3. Fetched \in Nat
        BY Lengths
      <3>4. Told' = Told /\ Mark' = Mark
        BY <1>1 DEF Told, Mark
      <3>5. /\ engine.at \in {"stopping", "exited", "gone"} => engine.failed \/ engine.made = engine.length
            /\ engine.at = "putting" => Fetched + Len(queue) + 1 = engine.made
            /\ engine.at \in {"making", "stopping"} => Fetched + Len(queue) = engine.made
            /\ Told => Fetched + Len(queue) = engine.made + 1
        BY <2>2 DEF PcmInv, QueueInv
      <3>6. Fetched' + Len(queue') = Fetched + Len(queue)
        BY <3>1, <3>2, <3>3, <1>1
      <3>7. Told' => Fetched' + Len(queue') = engine'.made + 1 /\ EndsAfter(queue', Fetched', Mark')
        BY <3>1, <3>2, <3>4, <3>5, <3>6, <1>1
      <3>8. ~Told' => Follows(queue', Fetched')
        BY <3>1, <3>2, <3>4
      <3>9. /\ engine'.at = "putting" => Fetched' + Len(queue') + 1 = engine'.made
            /\ engine'.at \in {"making", "stopping"} => Fetched' + Len(queue') = engine'.made
            /\ engine'.at \in {"stopping", "exited", "gone"} => engine'.failed \/ engine'.made = engine'.length
        BY <3>5, <3>6, <1>1
      <3> QED
        BY <3>7, <3>8, <3>9 DEF QueueInv
    <2> QED
      BY <2>4, <2>5
  <1>4. ReplayInv'
    <2>1. CASE request.stream
      <3>1. counted' = Position' /\ replay' = <<>> /\ Len(replay') = 0
        BY <2>1, TakeMoves
      <3>2. Fetched' = Position' /\ Position' \in Int
        BY <3>1, <2>1, <1>1, Lengths, TakeMoves DEF Fetched
      <3>3. Position' <= engine.made
        <4>1. CASE IsChunk(Item)
          BY <4>1, WhatIsNext, TakeMoves, Lengths, <1>1
        <4>2. CASE ~IsChunk(Item)
          BY <4>2, WhatIsNext, TakeMoves, Lengths, <1>1, <2>1 DEF PcmInv, ReplayInv, Fetched, Position
        <4> QED
          BY <4>1, <4>2
      <3>4. task' \notin {"prime", "returned"} => engine.made > 0
        BY <2>1 DEF PcmInv, ReplayInv, Reads
      <3>5. wire'.status = "ok" => engine.made > 0
        BY <2>1 DEF PcmInv, ReplayInv
      <3>6. task' \notin {"prime", "collect"} /\ (task' = "encodeAll" => task = "encodeAll")
        BY DEF Reads
      <3>7. task' = "encodeAll" => source' = "closed" /\ EngineDone' /\ counted' = engine'.length
        <4> SUFFICES ASSUME task = "encodeAll"
                     PROVE  source' = "closed" /\ EngineDone' /\ counted' = engine'.length
          BY <3>6
        <4>1. source = "closed" /\ EngineDone /\ counted = engine.length
          BY DEF PcmInv, ReplayInv
        <4>2. replay # <<>>
          BY <4>1, <1>1 DEF Available
        <4>3. counted = 0 /\ replay = <<1>> /\ Fetched <= engine.made
          BY <4>2, <2>1 DEF PcmInv, ReplayInv
        <4>4. Fetched = 1 /\ engine.made = engine.length
          BY <4>1, <4>3, <2>1 DEF Fetched, EngineDone
        <4>5. 1 <= 0
          BY <4>1, <4>3, <4>4
        <4> QED
          BY <4>5
      <3> QED
        BY <3>1, <3>2, <3>3, <3>4, <3>5, <3>6, <3>7, <2>1, <1>1 DEF ReplayInv
    <2>2. CASE ~request.stream
      <3>1. task = "encodeAll" /\ task' = "encodeAll"
        BY <2>2 DEF Reads
      <3>2. counted' = counted /\ source = "closed" /\ EngineDone /\ counted = engine.length
        BY <2>2, <3>1, TakeMoves DEF PcmInv, ReplayInv
      <3>3. source' = "closed" /\ EngineDone'
        BY <3>2, <1>1 DEF Take, EngineDone, Told
      <3>4. Fetched' = counted /\ Fetched = counted
        BY <2>2, <3>2, <1>1 DEF Fetched
      <3>5. replay' # <<>> => Len(replay') <= counted' + 1 /\ EndsAfter(replay', Position', End)
        BY <2>2, <3>2, TakeMoves
      <3> QED
        BY <3>1, <3>2, <3>3, <3>4, <3>5, <2>2, <1>1 DEF PcmInv, ReplayInv
    <2> QED
      BY <2>1, <2>2
  <1> QED
    BY <1>2, <1>3, <1>4 DEF PcmInv

LEMMA EngineKeepsPcm ==
  ASSUME Shape, PcmInv, Make \/ Exhausted \/ EngineRaises \/ Put \/ ThreadGone
  PROVE  PcmInv'
  <1>1. /\ engine \in EngineShape /\ queue \in Seq(Nat) /\ Len(queue) \in Nat /\ Fetched \in Nat
        /\ engine.made \in Nat /\ engine.length \in 0..Most /\ engine.made <= engine.length
        /\ engine.at \in {"making", "putting", "stopping", "exited", "gone"}
        /\ engine.failed \in BOOLEAN /\ Fetched <= engine.made /\ Len(queue) <= Depth
    BY Lengths, FieldShape DEF Shape, PcmInv, EngineInv, ReplayInv
  <1>2. UNCHANGED <<request, source, replay, counted, task, wire, Fetched, Position>>
    BY DEF Make, Exhausted, EngineRaises, Put, ThreadGone, answerVars, Fetched, Position
  <1>4. /\ engine'.made >= engine.made /\ engine'.made \in Nat /\ engine'.length = engine.length
        /\ EngineDone => engine'.made = engine.made /\ EngineDone'
    <2>1. CASE Make
      <3>1. engine.at = "making"
        BY <2>1 DEF Make
      <3>2. engine'.made = engine.made + 1 /\ engine'.length = engine.length
        BY <2>1, <1>1, EngineMoves DEF EngineIs
      <3> QED
        BY <3>1, <3>2, <1>1 DEF EngineDone, Told
    <2>2. CASE Exhausted \/ EngineRaises
      <3>1. engine.at = "making"
        BY <2>2 DEF Exhausted, EngineRaises
      <3>2. engine'.made = engine.made /\ engine'.length = engine.length
        BY <2>2, <1>1, EngineMoves DEF EngineIs
      <3> QED
        BY <3>1, <3>2, <1>1 DEF EngineDone, Told
    <2>3. CASE Put
      <3>1. engine.at \in {"putting", "stopping"}
        BY <2>3 DEF Put
      <3>2. engine'.made = engine.made /\ engine'.length = engine.length
        BY <2>3, <1>1, EngineMoves DEF EngineIs
      <3> QED
        BY <3>1, <3>2, <1>1 DEF EngineDone, Told
    <2>4. CASE ThreadGone
      <3>1. engine'.made = engine.made /\ engine'.length = engine.length
            /\ engine'.failed = engine.failed /\ engine'.at = "gone"
        BY <2>4, <1>1, EngineMoves DEF EngineIs
      <3> QED
        BY <3>1, <1>1 DEF EngineDone, Told
    <2> QED
      BY <2>1, <2>2, <2>3, <2>4
  <1>5. ReplayInv'
    BY <1>1, <1>2, <1>4 DEF PcmInv, ReplayInv
  <1>6. EngineInv' /\ QueueInv'
    <2>1. CASE Make
      <3>1. /\ engine'.at = IF source = "open" THEN "putting" ELSE "stopping"
            /\ engine'.made = engine.made + 1 /\ engine'.length = engine.length
            /\ engine'.failed = engine.failed /\ queue' = queue
            /\ engine.at = "making" /\ engine.made < engine.length
        BY <2>1, <1>1, EngineMoves DEF EngineIs, Make
      <3>2. EngineInv'
        BY <3>1, <1>1 DEF PcmInv, EngineInv
      <3>3. ASSUME source = "open"
            PROVE  QueueInv'
        <4>1. Fetched + Len(queue) = engine.made /\ Follows(queue, Fetched)
          BY <3>1, <3>3 DEF PcmInv, QueueInv, Told
        <4>2. ~Told' /\ engine'.at = "putting" /\ Fetched' + Len(queue') + 1 = engine'.made
          BY <3>1, <3>3, <4>1, <1>1, <1>2 DEF Told
        <4>3. Follows(queue', Fetched')
          BY <4>1, <3>1, <1>2
        <4> QED
          BY <4>2, <4>3 DEF QueueInv
      <3> QED
        BY <3>2, <3>3, <1>2 DEF QueueInv
    <2>2. CASE Exhausted \/ EngineRaises
      <3>1. /\ engine'.at = "stopping"
            /\ engine'.made = engine.made /\ engine'.length = engine.length /\ queue' = queue
            /\ engine'.failed \/ engine.made = engine.length
            /\ engine.at = "making"
        BY <2>2, <1>1, EngineMoves DEF EngineIs, Exhausted, EngineRaises
      <3>2. EngineInv'
        BY <3>1, <1>1 DEF PcmInv, EngineInv
      <3>3. ASSUME source = "open"
            PROVE  QueueInv'
        <4>1. Fetched + Len(queue) = engine.made /\ Follows(queue, Fetched)
          BY <3>1, <3>3 DEF PcmInv, QueueInv, Told
        <4>2. ~Told' /\ Fetched' + Len(queue') = engine'.made
          BY <3>1, <4>1, <1>2 DEF Told
        <4>3. Follows(queue', Fetched')
          BY <4>1, <3>1, <1>2
        <4> QED
          BY <3>1, <4>2, <4>3 DEF QueueInv
      <3> QED
        BY <3>2, <3>3, <1>2 DEF QueueInv
    <2>3. CASE Put /\ engine.at = "putting"
      <3>1. /\ engine'.at = "making" /\ queue' = Append(queue, engine.made)
            /\ engine'.made = engine.made /\ engine'.length = engine.length
            /\ engine'.failed = engine.failed /\ Len(queue) < Depth
        BY <2>3, <1>1, EngineMoves DEF EngineIs, Put, Room
      <3>2. EngineInv'
        BY <3>1, <2>3, <1>1, Numbers DEF PcmInv, EngineInv
      <3>3. ASSUME source = "open"
            PROVE  QueueInv'
        <4>1. Fetched + Len(queue) + 1 = engine.made /\ Follows(queue, Fetched)
          BY <2>3, <3>3 DEF PcmInv, QueueInv, Told
        <4> DEFINE fr == Fetched
        <4>2. fr \in Int /\ engine.made = fr + Len(queue) + 1 /\ Follows(queue, fr)
          BY <4>1, <1>1
        <4> HIDE DEF fr
        <4>3. Len(queue') = Len(queue) + 1 /\ Follows(queue', fr)
          BY <4>2, <3>1, <1>1, RunAppend
        <4>4. Fetched' = fr
          BY <1>2 DEF fr
        <4>5. ~Told' /\ Fetched' + Len(queue') = engine'.made
          BY <3>1, <4>2, <4>3, <4>4, <1>1 DEF Told
        <4> QED
          BY <3>1, <4>3, <4>4, <4>5 DEF QueueInv
      <3> QED
        BY <3>2, <3>3, <1>2 DEF QueueInv
    <2>4. CASE Put /\ engine.at = "stopping"
      <3>1. /\ engine'.at = "exited" /\ queue' = Append(queue, Mark)
            /\ engine'.made = engine.made /\ engine'.length = engine.length
            /\ engine'.failed = engine.failed /\ Len(queue) < Depth
        BY <2>4, <1>1, EngineMoves DEF EngineIs, Put, Room, Mark
      <3>2. EngineInv'
        BY <3>1, <2>4, <1>1, Numbers DEF PcmInv, EngineInv
      <3>3. ASSUME source = "open"
            PROVE  QueueInv'
        <4>1. Fetched + Len(queue) = engine.made /\ Follows(queue, Fetched)
              /\ (engine.failed \/ engine.made = engine.length)
          BY <2>4, <3>3 DEF PcmInv, QueueInv, Told
        <4> DEFINE fr == Fetched
                   m == Mark
        <4>2. fr \in Int /\ engine.made = fr + Len(queue) /\ Follows(queue, fr) /\ m \in Nat
              /\ queue' = Append(queue, m)
          BY <4>1, <1>1, <3>1, Numbers DEF Mark
        <4>4. Fetched' = fr /\ Mark' = m /\ Told'
          BY <1>2, <3>1 DEF fr, Mark, Told
        <4> HIDE DEF fr, m
        <4>3. Len(queue') = Len(queue) + 1 /\ EndsAfter(queue', fr, m)
          BY <4>2, <1>1, RunMarked
        <4>5. Fetched' + Len(queue') = engine'.made + 1
          BY <3>1, <4>2, <4>3, <4>4, <1>1
        <4> QED
          BY <3>1, <4>1, <4>3, <4>4, <4>5 DEF QueueInv
      <3> QED
        BY <3>2, <3>3, <1>2 DEF QueueInv
    <2>5. CASE ThreadGone
      <3>1. /\ engine'.at = "gone" /\ queue' = queue /\ engine.at = "exited"
            /\ engine'.made = engine.made /\ engine'.length = engine.length
            /\ engine'.failed = engine.failed
        BY <2>5, <1>1, EngineMoves DEF EngineIs, ThreadGone
      <3>2. EngineInv'
        BY <3>1, <1>1 DEF PcmInv, EngineInv
      <3>3. Told /\ Told' /\ Mark' = Mark
        BY <3>1 DEF Told, Mark
      <3>4. QueueInv'
        BY <3>1, <3>3, <1>2 DEF PcmInv, QueueInv
      <3> QED
        BY <3>2, <3>4
    <2>6. Put => engine.at = "putting" \/ engine.at = "stopping"
      BY DEF Put
    <2> QED
      BY <2>1, <2>2, <2>3, <2>4, <2>5, <2>6
  <1> QED
    BY <1>5, <1>6 DEF PcmInv

(* Where nothing is read, and the reader at most abandoned.                *)
LEMMA PcmLeft ==
  ASSUME Shape, PcmInv, UNCHANGED <<request, engine, replay, counted>>,
         queue' = queue \/ (source' # "open" /\ Len(queue') <= Len(queue) /\ Len(queue') \in Nat),
         source' = source \/ (source' # "open" /\ task' \notin {"prime", "collect"}
                              /\ (source = "closed" => source' = "closed")),
         task' = task \/ task' \notin {"prime", "collect", "encodeAll"},
         request.stream /\ task = "prime" => task' \in {"prime", "returned"},
         request.stream /\ task = "returned" => task' = "returned",
         request.stream /\ wire'.status = "ok" => wire.status = "ok" \/ engine.made > 0
  PROVE  PcmInv'
  <1>1. Fetched' = Fetched /\ Position' = Position /\ Told' = Told /\ Mark' = Mark
        /\ EngineDone' = EngineDone
    BY DEF Fetched, Position, Told, Mark, EngineDone
  <1>2. EngineInv'
    <2>1. Len(queue) \in Nat /\ Depth \in Nat
      BY Lengths, Numbers
    <2> QED
      BY <2>1 DEF PcmInv, EngineInv
  <1>3. QueueInv'
    BY <1>1 DEF PcmInv, QueueInv
  <1>4. ReplayInv'
    BY <1>1 DEF PcmInv, ReplayInv
  <1> QED
    BY <1>2, <1>3, <1>4 DEF PcmInv

LEMMA PrimeKeepsPcm ==
  ASSUME Shape, TaskInv, PcmInv, Prime
  PROVE  PcmInv'
  <1>1. /\ task = "prime" /\ queue # <<>> /\ queue' = Tail(queue) /\ source = "open"
        /\ replay = <<>> /\ counted = 0 /\ UNCHANGED <<request, engine, counted>>
    BY DEF Prime, PullFirst, PcmInv, ReplayInv
  <1>2. request.stream /\ Fetched = 0 /\ Len(replay) = 0
    BY <1>1 DEF TaskInv, Fetched
  <1>3. /\ Tail(queue) \in Seq(Nat) /\ Len(Tail(queue)) = Len(queue) - 1
        /\ IsChunk(Head(queue)) =>
             /\ Head(queue) = 1 /\ 1 <= engine.made
             /\ Told => EndsAfter(Tail(queue), 1, Mark)
             /\ ~Told => Follows(Tail(queue), 1)
    BY <1>1, <1>2, QueueIsNext DEF PcmInv
  <1>4. /\ Len(queue) \in Nat /\ Len(queue) <= Depth /\ Depth \in Nat
        /\ engine.made \in Nat /\ engine.made <= engine.length /\ engine.length \in Nat
    BY Lengths, Numbers, FieldShape DEF PcmInv, EngineInv
  <1>5. EngineInv'
    BY <1>1, <1>3, <1>4 DEF PcmInv, EngineInv
  <1>6. Told' = Told /\ Mark' = Mark
    BY <1>1 DEF Told, Mark
  <1>7. CASE IsChunk(Head(queue))
    <2>1. replay' = <<1>> /\ task' = "encoder" /\ UNCHANGED <<source, wire>>
      BY <1>1, <1>3, <1>7 DEF Prime, PullFirst, Replayed
    <2>2. Fetched' = 1 /\ Len(replay') = 1 /\ replay' # <<>>
      BY <2>1, <1>1, <1>2 DEF Fetched
    <2>3. QueueInv'
      <3>1. /\ engine.at \in {"stopping", "exited", "gone"} => engine.failed \/ engine.made = engine.length
            /\ engine.at = "putting" => 0 + Len(queue) + 1 = engine.made
            /\ engine.at \in {"making", "stopping"} => 0 + Len(queue) = engine.made
            /\ Told => 0 + Len(queue) = engine.made + 1
        BY <1>1, <1>2 DEF PcmInv, QueueInv
      <3>2. Fetched' + Len(queue') = Len(queue)
        BY <2>2, <1>1, <1>3, <1>4
      <3>3. Told' => Fetched' + Len(queue') = engine'.made + 1 /\ EndsAfter(queue', Fetched', Mark')
        BY <3>1, <3>2, <2>2, <1>1, <1>3, <1>4, <1>6, <1>7
      <3>4. ~Told' => Follows(queue', Fetched')
        BY <2>2, <1>1, <1>3, <1>6, <1>7
      <3> QED
        BY <3>1, <3>2, <3>3, <3>4, <1>1, <1>4 DEF QueueInv
    <2>4. ReplayInv'
      BY <2>1, <2>2, <1>1, <1>2, <1>3, <1>4, <1>7 DEF ReplayInv
    <2> QED
      BY <1>5, <2>3, <2>4 DEF PcmInv
  <1>8. CASE ~IsChunk(Head(queue))
    <2>1. task' = "returned" /\ source' = "closed" /\ replay' = replay
      BY <1>1, <1>8 DEF Prime, PullFirst, Refuse
    <2>2. wire'.status = "refused"
      <3>1. Refuse
        BY <1>8 DEF Prime, PullFirst
      <3> QED
        BY <3>1, WireMoves DEF Shape, WireIs
    <2>3. Fetched' = 0
      BY <2>1, <1>1, <1>2 DEF Fetched
    <2>4. ReplayInv'
      BY <2>1, <2>2, <2>3, <1>1, <1>4 DEF ReplayInv
    <2> QED
      BY <1>5, <2>1, <2>4 DEF PcmInv, QueueInv
  <1> QED
    BY <1>7, <1>8

LEMMA CollectKeepsPcm ==
  ASSUME Shape, TaskInv, PcmInv, Collect
  PROVE  PcmInv'
  <1>1. /\ task = "collect" /\ queue # <<>> /\ queue' = Tail(queue) /\ source = "open"
        /\ Len(replay) = counted /\ Follows(replay, 0) /\ UNCHANGED <<request, engine>>
        /\ replay \in Seq(Nat) /\ counted \in Nat
    BY DEF Collect, PcmInv, ReplayInv, Shape
  <1>2. ~request.stream /\ Fetched = counted
    BY <1>1 DEF TaskInv, Fetched
  <1>3. /\ Tail(queue) \in Seq(Nat) /\ Len(Tail(queue)) = Len(queue) - 1
        /\ IsChunk(Head(queue)) =>
             /\ Head(queue) = counted + 1 /\ Head(queue) <= engine.made
             /\ Told => EndsAfter(Tail(queue), counted + 1, Mark)
             /\ ~Told => Follows(Tail(queue), counted + 1)
        /\ ~IsChunk(Head(queue)) =>
             \/ Head(queue) = End /\ EngineDone /\ counted = engine.length
             \/ Head(queue) = Raised
    BY <1>1, <1>2, QueueIsNext DEF PcmInv
  <1>4. /\ Len(queue) \in Nat /\ Len(queue) <= Depth /\ Depth \in Nat
        /\ engine.made \in Nat /\ engine.made <= engine.length /\ engine.length \in Nat
    BY Lengths, Numbers, FieldShape DEF PcmInv, EngineInv
  <1>5. EngineInv'
    BY <1>1, <1>3, <1>4 DEF PcmInv, EngineInv
  <1>6. Told' = Told /\ Mark' = Mark /\ EngineDone' = EngineDone
    BY <1>1 DEF Told, Mark, EngineDone
  <1>7. CASE IsChunk(Head(queue))
    <2>1. /\ replay' = Append(replay, counted + 1) /\ counted' = counted + 1
          /\ UNCHANGED <<source, task, wire>>
      BY <1>1, <1>3, <1>7, Numbers DEF Collect
    <2>2. Len(replay') = counted' /\ Follows(replay', 0)
      <3>1. counted + 1 \in Nat /\ counted + 1 = 0 + Len(replay) + 1
        BY <1>1
      <3> QED
        BY <3>1, <2>1, <1>1, RunAppend
    <2>3. Fetched' = counted + 1
      BY <2>1, <1>1, <1>2 DEF Fetched
    <2>4. QueueInv'
      <3>1. /\ engine.at \in {"stopping", "exited", "gone"} => engine.failed \/ engine.made = engine.length
            /\ engine.at = "putting" => counted + Len(queue) + 1 = engine.made
            /\ engine.at \in {"making", "stopping"} => counted + Len(queue) = engine.made
            /\ Told => counted + Len(queue) = engine.made + 1
        BY <1>1, <1>2 DEF PcmInv, QueueInv
      <3>2. Fetched' + Len(queue') = counted + Len(queue)
        BY <2>3, <1>1, <1>3, <1>4
      <3>3. Told' => Fetched' + Len(queue') = engine'.made + 1 /\ EndsAfter(queue', Fetched', Mark')
        BY <3>1, <3>2, <2>3, <1>1, <1>3, <1>4, <1>6, <1>7
      <3>4. ~Told' => Follows(queue', Fetched')
        BY <2>3, <1>1, <1>3, <1>6, <1>7
      <3> QED
        BY <3>1, <3>2, <3>3, <3>4, <1>1, <1>4 DEF QueueInv
    <2>5. ReplayInv'
      BY <2>1, <2>2, <2>3, <1>1, <1>2, <1>3, <1>4, <1>7 DEF ReplayInv
    <2> QED
      BY <1>5, <2>4, <2>5 DEF PcmInv
  <1>8. CASE ~IsChunk(Head(queue)) /\ Head(queue) = End
    <2>1. /\ replay' = Append(replay, End) /\ source' = "closed" /\ task' = "encodeAll"
          /\ UNCHANGED <<counted, wire>>
      BY <1>8, Numbers DEF Collect
    <2>2. EngineDone /\ counted = engine.length
      BY <1>3, <1>8, Numbers
    <2>3. Len(replay') = counted + 1 /\ EndsAfter(replay', 0, End) /\ replay' # <<>>
      <3>1. End \in Nat
        BY Numbers
      <3>2. Len(replay') = Len(replay) + 1 /\ EndsAfter(replay', 0, End)
        BY <3>1, <2>1, <1>1, RunMarked
      <3> QED
        BY <3>2, <1>1 DEF EndsAfter
    <2>4. Position' = 0 /\ Fetched' = counted
      BY <2>1, <2>3, <1>1, <1>2 DEF Position, Fetched
    <2>5. counted <= engine.made
      BY <1>2 DEF PcmInv, ReplayInv
    <2>6. ReplayInv'
      BY <2>1, <2>2, <2>3, <2>4, <2>5, <1>1, <1>2, <1>6 DEF ReplayInv
    <2> QED
      BY <1>5, <2>1, <2>6 DEF PcmInv, QueueInv
  <1>9. CASE Head(queue) = Raised
    <2>1. task' = "returned" /\ source' = "closed" /\ replay' = replay /\ counted' = counted
      BY <1>1, <1>9, Numbers DEF Collect, Refuse
    <2>2. Fetched' = counted /\ counted <= engine.made
      BY <2>1, <1>1, <1>2 DEF Fetched, PcmInv, ReplayInv
    <2>3. ReplayInv'
      BY <2>1, <2>2, <1>1, <1>2 DEF ReplayInv
    <2> QED
      BY <1>5, <2>1, <2>3 DEF PcmInv, QueueInv
  <1> QED
    BY <1>3, <1>7, <1>8, <1>9

LEMMA ReadersKeepPcm ==
  ASSUME Shape, TaskInv, EncoderInv, PcmInv, FeederPulls \/ PullPlain \/ PrimeEncoded
  PROVE  PcmInv'
  <1>1. task \in {"encoder", "pull"} => request.stream
    BY DEF TaskInv
  <1>2. wire'.status = "ok" => wire.status = "ok" \/ (PullPlain /\ task = "pull")
    BY DEF FeederPulls, PrimeEncoded, answerVars, PullPlain
  <1>3. CASE FeederPulls
    <2>1. Take /\ feeder.at = "pulling" /\ task' = task /\ wire' = wire
      BY <1>3 DEF FeederPulls, answerVars
    <2>2. ffmpeg.at # "off"
      BY <2>1 DEF EncoderInv
    <2>3. Reads
      BY <2>1, <2>2 DEF Reads, EncoderInv, TaskInv
    <2> QED
      BY <1>1, <2>1, <2>3, TakeKeepsPcm
  <1>4. CASE PullPlain
    <2>1. Take /\ task = "pull" /\ task' \in {"send", "end", "returned"}
      BY <1>4, PullPlainDoes DEF Abort, EndOfBody
    <2>2. wire.status = "ok"
      BY <2>1 DEF TaskInv, Streaming
    <2>3. Reads
      BY <1>1, <2>1 DEF Reads
    <2> QED
      BY <1>1, <2>1, <2>2, <2>3, TakeKeepsPcm
  <1>5. CASE PrimeEncoded
    <2>1. task = "encoder" /\ task' = "start" /\ wire' = wire /\ UNCHANGED request
      BY <1>5 DEF PrimeEncoded
    <2>2. CASE Take
      <3>1. Reads
        BY <1>1, <2>1 DEF Reads
      <3> QED
        BY <1>1, <2>1, <2>2, <3>1, TakeKeepsPcm
    <2>3. CASE UNCHANGED pcmVars
      BY <2>1, <2>3, <1>1, PcmLeft DEF pcmVars
    <2> QED
      BY <1>5, <2>2, <2>3 DEF PrimeEncoded
  <1> QED
    BY <1>3, <1>4, <1>5

LEMMA DrainKeepsPcm ==
  ASSUME Shape, PcmInv, Drain
  PROVE  PcmInv'
  <1>1. /\ source = "draining" /\ UNCHANGED <<request, engine, replay, counted, task, wire>>
        /\ \/ queue # <<>> /\ queue' = Tail(queue) /\ source' = source
           \/ queue' = queue /\ source' = "closed"
    BY DEF Drain, answerVars
  <1>2. task \notin {"prime", "collect"}
    BY <1>1 DEF PcmInv, ReplayInv
  <1>3. queue' = queue \/ (source' # "open" /\ Len(queue') <= Len(queue) /\ Len(queue') \in Nat)
    <2>1. queue \in Seq(Nat)
      BY DEF Shape
    <2>2. queue # <<>> => Len(Tail(queue)) = Len(queue) - 1 /\ Tail(queue) \in Seq(Nat)
      BY <2>1, HeadTailProperties
    <2>3. queue # <<>> => Len(Tail(queue)) \in Nat /\ Len(queue) \in Nat
      BY <2>1, <2>2, LengthZero
    <2> QED
      BY <1>1, <2>2, <2>3
  <1> QED
    BY <1>1, <1>2, <1>3, PcmLeft

LEMMA EndingsKeepPcm ==
  ASSUME Shape, TaskInv, EncoderInv, PcmInv,
         StartEncoder \/ FeederCloses \/ CloseStreams \/ HangUpReading
  PROVE  PcmInv'
  <1>1. CASE StartEncoder
    <2>1. /\ task \in {"encoder", "encodeAll"} /\ UNCHANGED <<request, engine, queue, replay, counted>>
          /\ \/ UNCHANGED <<source, task, wire>>
             \/ Refuse /\ source' = Abandon
      BY <1>1 DEF StartEncoder
    <2>2. Refuse => task' = "returned" /\ wire'.status = "refused"
      BY WireMoves DEF Refuse, WireIs, Shape
    <2>3. source' = Abandon => source' # "open" /\ (source = "closed" => source' = "closed")
      BY DEF Abandon
    <2> QED
      BY <2>1, <2>2, <2>3, PcmLeft
  <1>2. CASE FeederCloses
    <2>1. /\ feeder.at = "closing" /\ source' = Abandon
          /\ UNCHANGED <<request, engine, queue, replay, counted, task, wire>>
      BY <1>2 DEF FeederCloses, answerVars
    <2>2. task \notin {"prime", "collect"}
      BY <2>1 DEF EncoderInv
    <2> QED
      BY <2>1, <2>2, PcmLeft DEF Abandon
  <1>3. CASE CloseStreams
    <2>1. /\ task = "unwinding" /\ task' = "returned" /\ source' = Abandon
          /\ UNCHANGED <<request, engine, queue, replay, counted, wire>>
      BY <1>3 DEF CloseStreams, CancelTasks
    <2> QED
      BY <2>1, PcmLeft DEF Abandon
  <1>4. CASE HangUpReading
    <2>1. /\ task = "pull" /\ task' = "returned" /\ UNCHANGED <<request, engine, replay, counted>>
          /\ \/ queue' = <<>> /\ source' = "closed"
             \/ UNCHANGED <<queue, source>>
             \/ UNCHANGED queue /\ source' = Abandon
      BY <1>4 DEF HangUpReading, CancelTasks
    <2>2. wire'.status = "ok" => wire.status = "ok"
      BY <1>4, WireMoves DEF WireIs, Shape
    <2>3. Len(<<>>) <= Len(queue) /\ Len(<<>>) \in Nat
      BY Lengths
    <2> QED
      BY <2>1, <2>2, <2>3, PcmLeft DEF Abandon
  <1> QED
    BY <1>1, <1>2, <1>3, <1>4

(* Everything else leaves the PCM where it is.                             *)
LEMMA OthersKeepPcm ==
  ASSUME Shape, TaskInv, PcmInv, UNCHANGED <<request, pcmVars>>,
         task' = task \/ task' \notin {"prime", "collect", "encodeAll"},
         task = "prime" => task' = task, task = "returned" => task' = task,
         wire'.status = "ok" => wire.status = "ok" \/ task = "start" \/ ~request.stream
  PROVE  PcmInv'
  <1>1. request.stream /\ task = "start" => engine.made > 0
    BY DEF PcmInv, ReplayInv
  <1> QED
    BY <1>1, PcmLeft DEF pcmVars

LEMMA PcmKept ==
  ASSUME Shape, TaskInv, EncoderInv, PcmInv, [AnswerStep]_vars
  PROVE  PcmInv'
  <1>1. CASE Make \/ Exhausted \/ EngineRaises \/ Put \/ ThreadGone
    BY <1>1, EngineKeepsPcm
  <1>2. CASE Drain
    BY <1>2, DrainKeepsPcm
  <1>3. CASE Prime
    BY <1>3, PrimeKeepsPcm
  <1>4. CASE Collect
    BY <1>4, CollectKeepsPcm
  <1>5. CASE FeederPulls \/ PullPlain \/ PrimeEncoded
    BY <1>5, ReadersKeepPcm
  <1>6. CASE StartEncoder \/ FeederCloses \/ CloseStreams \/ HangUpReading
    BY <1>6, EndingsKeepPcm
  <1>7. CASE \/ FeederWrites \/ EncoderReads \/ EncoderComplains \/ EncoderWrites
             \/ EncoderExits \/ EncoderDies \/ DrainStderr
    <2>1. UNCHANGED <<request, pcmVars, task, wire>>
      BY <1>7 DEF FeederWrites, EncoderReads, EncoderComplains, EncoderWrites, EncoderExits,
                  EncoderDies, DrainStderr, answerVars
    <2> QED
      BY <2>1, OthersKeepPcm
  <1>8. CASE ReplyPlain \/ EncoderEnds
    <2>1. /\ task \in {"encoder", "encodeAll", "pull"} /\ UNCHANGED <<request, pcmVars>>
          /\ task' \in {"returned", "end"}
      BY <1>8, EncoderEndsDoes DEF ReplyPlain, Reply, Refuse, Abort, EndOfBody
    <2>2. wire'.status = "ok" => wire.status = "ok" \/ ~request.stream
      <3>1. CASE Refuse \/ Abort \/ EndOfBody
        BY <3>1, WireMoves DEF WireIs, Shape, EndOfBody
      <3>2. CASE task = "encodeAll"
        BY <3>2 DEF TaskInv
      <3> QED
        BY <1>8, <3>1, <3>2, EncoderEndsDoes DEF ReplyPlain
    <2> QED
      BY <2>1, <2>2, OthersKeepPcm
  <1>9. CASE ReadBlock \/ Start \/ Send \/ Finish \/ CloseBody \/ HangUpSending
    <2>1. UNCHANGED <<request, pcmVars>>
      BY <1>9 DEF ReadBlock, Start, Send, Finish, CloseBody, HangUpSending, pcmVars
    <2>2. /\ task \in Places
          /\ task' = task \/ task' \in {"start", "send", "pull", "returned", "unwinding", "hungup"}
          /\ task \notin {"prime", "returned"}
      BY <1>9 DEF ReadBlock, Start, Send, Finish, CloseBody, HangUpSending, Shape
    <2>3. wire'.status = wire.status \/ task = "start"
      BY <1>9, WireMoves DEF WireIs, Shape, ReadBlock, CloseBody, Start
    <2> QED
      BY <2>1, <2>2, <2>3, OthersKeepPcm
  <1>10. CASE UNCHANGED vars
    BY <1>10, OthersKeepPcm DEF vars, pcmVars
  <1> QED
    BY <1>1, <1>2, <1>3, <1>4, <1>5, <1>6, <1>7, <1>8, <1>9, <1>10
       DEF AnswerStep, Works, Breaks, HangsUp

-----------------------------------------------------------------------------
(* The encoder.                                                            *)

LEMMA EncoderLeft ==
  ASSUME Shape, EncoderInv, UNCHANGED <<request, encoderVars>>,
         task' \in {"prime", "collect"} => task' = task,
         task' \in {"encoder", "encodeAll"} /\ ffmpeg.at = "off" => replay' # <<>> /\ Position' = 0,
         Encodes /\ task' \in Streaming => ffmpeg.at # "off",
         ffmpeg.at # "off" /\ ~request.stream /\ task' = "returned" => feeder.at = "done",
         Running => task' # "returned"
  PROVE  EncoderInv'
  BY DEF EncoderInv, encoderVars, Running, Encodes

(* A step of the encoder itself, its feeder or its drainer.                *)
LEMMA EncoderOn ==
  ASSUME Shape, EncoderInv, UNCHANGED <<request, task>>,
         ffmpeg.at # "off", ffmpeg'.at # "off", Running' => Running,
         feeder'.at # "off", feeder.at = "done" => feeder'.at = "done",
         ffmpeg'.early => ffmpeg'.at = "ok",
         pipe'.open <=> feeder'.at # "done", pipe'.err <= Pipe
  PROVE  EncoderInv'
  BY DEF EncoderInv, Encodes

LEMMA EncoderActsKeep ==
  ASSUME Shape, EncoderInv,
         \/ FeederPulls \/ FeederWrites \/ FeederCloses \/ EncoderReads \/ EncoderComplains
         \/ EncoderWrites \/ EncoderExits \/ EncoderDies \/ DrainStderr
  PROVE  EncoderInv'
  <1> USE DEF FeederIs, EncoderIs, PipeIs, Running
  <1>0. /\ feeder \in FeederShape /\ ffmpeg \in EncoderShape /\ pipe \in PipeShape
        /\ pipe.err \in Nat /\ Pipe \in Nat /\ pipe.err <= Pipe
    BY FieldShape, Numbers DEF Shape, EncoderInv
  <1>1. CASE FeederPulls
    <2>1. feeder.at = "pulling" /\ UNCHANGED <<request, task, ffmpeg, pipe>>
      BY <1>1 DEF FeederPulls, Take, answerVars
    <2>2. feeder'.at \in {"writing", "closing"}
      BY <1>1, <1>0, FeederMoves
    <2> QED
      BY <2>1, <2>2, <1>0, EncoderOn DEF EncoderInv
  <1>2. CASE FeederWrites
    <2>1. feeder.at = "writing" /\ UNCHANGED <<request, task, ffmpeg>>
      BY <1>2 DEF FeederWrites, answerVars
    <2>2. feeder'.at \in {"pulling", "closing"}
      BY <1>2, <1>0, FeederMoves
    <2>3. pipe'.open = pipe.open /\ pipe'.err = pipe.err
      BY <1>2, <1>0, PipeMoves
    <2> QED
      BY <2>1, <2>2, <2>3, <1>0, EncoderOn DEF EncoderInv
  <1>3. CASE FeederCloses
    <2>1. feeder.at = "closing" /\ UNCHANGED <<request, task, ffmpeg>>
      BY <1>3 DEF FeederCloses, answerVars
    <2>2. feeder'.at = "done"
      BY <1>3, <1>0, FeederMoves
    <2>3. pipe'.open = FALSE /\ pipe'.err = pipe.err
      BY <1>3, <1>0, PipeMoves
    <2> QED
      BY <2>1, <2>2, <2>3, <1>0, EncoderOn DEF EncoderInv
  <1>4. CASE EncoderReads
    <2>1. ffmpeg.at = "reading" /\ UNCHANGED <<request, task, feeder>>
      BY <1>4 DEF EncoderReads, answerVars
    <2>2. ffmpeg'.at \in {"complaining", "writing"} /\ ffmpeg'.early = ffmpeg.early
      BY <1>4, <1>0, EncoderMoves
    <2>3. pipe'.open = pipe.open /\ pipe'.err = pipe.err
      BY <1>4, <1>0, PipeMoves
    <2> QED
      BY <2>1, <2>2, <2>3, <1>0, EncoderOn DEF EncoderInv
  <1>5. CASE EncoderComplains
    <2>1. ffmpeg.at = "complaining" /\ pipe.err < Pipe /\ UNCHANGED <<request, task, feeder>>
      BY <1>5 DEF EncoderComplains, answerVars
    <2>2. ffmpeg'.at = "writing" /\ ffmpeg'.early = ffmpeg.early
      BY <1>5, <1>0, EncoderMoves
    <2>3. pipe'.open = pipe.open /\ pipe'.err = pipe.err + 1
      BY <1>5, <1>0, PipeMoves
    <2>4. pipe'.err <= Pipe
      BY <2>1, <2>3, <1>0
    <2> QED
      BY <2>1, <2>2, <2>3, <2>4, <1>0, EncoderOn DEF EncoderInv
  <1>6. CASE EncoderWrites
    <2>1. ffmpeg.at = "writing" /\ UNCHANGED <<request, task, feeder>>
      BY <1>6 DEF EncoderWrites, answerVars
    <2>2. ffmpeg'.at = "reading" /\ ffmpeg'.early = ffmpeg.early
      BY <1>6, <1>0, EncoderMoves
    <2>3. pipe'.open = pipe.open /\ pipe'.err = pipe.err
      BY <1>6, <1>0, PipeMoves
    <2> QED
      BY <2>1, <2>2, <2>3, <1>0, EncoderOn DEF EncoderInv
  <1>7. CASE EncoderExits
    <2>1. ffmpeg.at = "reading" /\ UNCHANGED <<request, task, feeder>>
      BY <1>7 DEF EncoderExits, answerVars
    <2>2. ffmpeg'.at = "ok"
      BY <1>7, <1>0, EncoderMoves
    <2>3. pipe'.open = pipe.open /\ pipe'.err = pipe.err
      BY <1>7, <1>0, PipeMoves
    <2> QED
      BY <2>1, <2>2, <2>3, <1>0, EncoderOn DEF EncoderInv
  <1>8. CASE EncoderDies
    <2>1. Running /\ UNCHANGED <<request, task, feeder>>
      BY <1>8 DEF EncoderDies, answerVars
    <2>2. ffmpeg'.at = "failed" /\ ffmpeg'.early = ffmpeg.early
      BY <1>8, <1>0, EncoderMoves
    <2>3. pipe'.open = pipe.open /\ pipe'.err = pipe.err
      BY <1>8, <1>0, PipeMoves
    <2> QED
      BY <2>1, <2>2, <2>3, <1>0, EncoderOn DEF EncoderInv
  <1>9. CASE DrainStderr
    <2>1. drainer = "reading" /\ UNCHANGED <<request, task, feeder, ffmpeg>>
      BY <1>9 DEF DrainStderr, answerVars
    <2>2. pipe'.open = pipe.open /\ (pipe'.err = pipe.err \/ pipe'.err = 0)
      BY <1>9, <1>0, PipeMoves
    <2> QED
      BY <2>1, <2>2, <1>0, EncoderOn DEF EncoderInv
  <1> QED
    BY <1>1, <1>2, <1>3, <1>4, <1>5, <1>6, <1>7, <1>8, <1>9

LEMMA EncoderHandled ==
  ASSUME Shape, TaskInv, EncoderInv, StartEncoder \/ ReadBlock \/ CloseStreams \/ HangUpReading
  PROVE  EncoderInv'
  <1> USE DEF FeederIs, EncoderIs, PipeIs, Running
  <1>0. /\ feeder \in FeederShape /\ ffmpeg \in EncoderShape /\ pipe \in PipeShape
        /\ pipe.err \in Nat /\ Pipe \in Nat /\ pipe.err <= Pipe
    BY FieldShape, Numbers DEF Shape, EncoderInv
  <1>1. CASE StartEncoder
    <2>1. /\ task \in {"encoder", "encodeAll"} /\ Encodes /\ ffmpeg.at = "off"
          /\ UNCHANGED <<request, replay, counted, pipe>>
      BY <1>1 DEF StartEncoder
    <2>2. CASE UNCHANGED task
      <3>1. ffmpeg' = [ffmpeg EXCEPT !.at = "reading"] /\ feeder' = [feeder EXCEPT !.at = "pulling"]
        BY <1>1, <2>1, <2>2 DEF StartEncoder, Refuse
      <3>2. ffmpeg'.at = "reading" /\ ffmpeg'.early = ffmpeg.early /\ feeder'.at = "pulling"
        BY <3>1, <1>0 DEF EncoderShape, FeederShape
      <3> QED
        BY <2>1, <2>2, <3>2 DEF EncoderInv, Encodes
    <2>3. CASE Refuse /\ UNCHANGED <<ffmpeg, feeder, drainer>>
      <3>1. task' = "returned"
        BY <2>3 DEF Refuse
      <3> QED
        BY <2>1, <2>3, <3>1, EncoderLeft DEF encoderVars, Streaming
    <2> QED
      BY <1>1, <2>2, <2>3 DEF StartEncoder
  <1>2. CASE ReadBlock
    <2>1. /\ task \in {"encoder", "encodeAll", "pull"} /\ UNCHANGED <<request, feeder, ffmpeg, drainer>>
          /\ pipe.out # <<>>
          /\ task' = IF task = "encoder" THEN "start" ELSE IF task = "pull" THEN "send" ELSE task
      BY <1>2 DEF ReadBlock
    <2>2. pipe'.open = pipe.open /\ pipe'.err = pipe.err
      BY <1>2, <1>0, PipeMoves
    <2>3. ffmpeg.at # "off"
      BY <2>1 DEF EncoderInv
    <2> QED
      BY <2>1, <2>2, <2>3 DEF EncoderInv, Encodes
  <1>3. CASE CloseStreams
    <2>1. task = "unwinding" /\ task' = "returned" /\ UNCHANGED request
      BY <1>3 DEF CloseStreams
    <2>2. CASE ~Encodes
      <3>1. UNCHANGED encoderVars
        BY <1>3, <2>2 DEF CloseStreams
      <3> QED
        BY <2>1, <2>2, <3>1, EncoderLeft DEF Streaming, EncoderInv
    <2>3. CASE Encodes
      <3>1. ffmpeg.at # "off"
        BY <2>1, <2>3 DEF EncoderInv, Streaming
      <3>2. CancelTasks /\ ffmpeg' = IF Running THEN [ffmpeg EXCEPT !.at = "failed"] ELSE ffmpeg
        BY <1>3, <2>3 DEF CloseStreams
      <3>3. feeder'.at = "done" /\ pipe'.open = FALSE /\ pipe'.err = pipe.err
        BY <3>2, <1>0, FeederMoves, PipeMoves
      <3>4. ffmpeg'.at # "off" /\ ~Running' /\ ffmpeg'.early = ffmpeg.early
        BY <3>1, <3>2, <1>0 DEF EncoderShape
      <3>5. ffmpeg'.early => ffmpeg'.at = "ok"
        BY <3>2, <3>4 DEF EncoderInv
      <3> QED
        BY <2>1, <2>3, <3>1, <3>3, <3>4, <3>5, <1>0 DEF EncoderInv, Encodes, Streaming
    <2> QED
      BY <2>2, <2>3
  <1>4. CASE HangUpReading
    <2>1. task = "pull" /\ task' = "returned" /\ UNCHANGED request /\ request.stream
      BY <1>4 DEF HangUpReading, TaskInv
    <2>2. CASE ~Encodes
      <3>1. UNCHANGED encoderVars
        BY <1>4, <2>2 DEF HangUpReading
      <3> QED
        BY <2>1, <2>2, <3>1, EncoderLeft DEF Streaming, EncoderInv
    <2>3. CASE Encodes /\ Running
      <3>1. UNCHANGED feeder /\ ffmpeg' = [ffmpeg EXCEPT !.at = "failed"]
            /\ pipe' = [pipe EXCEPT !.in = <<>>]
        BY <1>4, <2>3 DEF HangUpReading, Exited
      <3>2. /\ ffmpeg'.at = "failed" /\ ffmpeg'.early = ffmpeg.early
            /\ pipe'.open = pipe.open /\ pipe'.err = pipe.err
        BY <3>1, <1>0 DEF EncoderShape, PipeShape
      <3>3. ~ffmpeg.early
        BY <2>3 DEF EncoderInv
      <3> QED
        BY <2>1, <2>3, <3>1, <3>2, <3>3 DEF EncoderInv, Encodes, Streaming
    <2>4. CASE Encodes /\ Exited
      <3>1. CancelTasks /\ UNCHANGED ffmpeg
        BY <1>4, <2>4 DEF HangUpReading, Exited
      <3>2. feeder'.at = "done" /\ pipe'.open = FALSE /\ pipe'.err = pipe.err
        BY <3>1, <1>0, FeederMoves, PipeMoves
      <3> QED
        BY <2>1, <2>4, <3>1, <3>2 DEF EncoderInv, Encodes, Streaming, Exited
    <2> QED
      BY <1>4, <2>2, <2>3, <2>4 DEF HangUpReading
  <1> QED
    BY <1>1, <1>2, <1>3, <1>4

LEMMA EncoderKept ==
  ASSUME Shape, TaskInv, PcmInv, EncoderInv, WholeInv, [AnswerStep]_vars
  PROVE  EncoderInv'
  <1>1. CASE Make \/ Exhausted \/ EngineRaises \/ Put \/ ThreadGone \/ Drain \/ UNCHANGED vars
    <2>1. UNCHANGED <<request, encoderVars, task, replay, counted>>
      BY <1>1 DEF Make, Exhausted, EngineRaises, Put, ThreadGone, Drain, vars, encoderVars, answerVars
    <2> QED
      BY <2>1, EncoderLeft DEF EncoderInv, Position
  <1>2. CASE Prime
    <2>1. task = "prime" /\ UNCHANGED <<request, encoderVars, counted>>
          /\ \/ task' = "encoder" /\ replay' = <<Head(queue)>>
             \/ task' = "returned"
      BY <1>2 DEF Prime, PullFirst, Replayed, Refuse
    <2>2. ffmpeg.at = "off"
      BY <2>1 DEF EncoderInv
    <2>3. request.stream /\ counted = 0
      BY <2>1 DEF TaskInv, PcmInv, ReplayInv
    <2>4. task' = "encoder" => replay' # <<>> /\ Position' = 0
      BY <2>1, <2>3 DEF Position
    <2> QED
      BY <2>1, <2>2, <2>4, EncoderLeft DEF Streaming, Running
  <1>3. CASE Collect
    <2>1. task = "collect" /\ UNCHANGED <<request, encoderVars>>
          /\ \/ task' = task
             \/ task' = "encodeAll" /\ replay' = Append(replay, End) /\ counted' = counted
             \/ task' = "returned"
      BY <1>3 DEF Collect, Refuse
    <2>2. ffmpeg.at = "off"
      BY <2>1 DEF EncoderInv
    <2>3. ~request.stream /\ Len(replay) = counted /\ replay \in Seq(Nat) /\ counted \in Nat /\ End \in Nat
      BY <2>1, Numbers DEF TaskInv, PcmInv, ReplayInv, Shape
    <2>4. task' = "encodeAll" => replay' # <<>> /\ Position' = 0
      <3> SUFFICES ASSUME task' = "encodeAll"
                   PROVE  replay' # <<>> /\ Position' = 0
        OBVIOUS
      <3>1. Len(replay') = counted + 1 /\ counted' = counted
        BY <2>1, <2>3
      <3>2. Len(replay') # 0
        BY <3>1, <2>3
      <3>3. replay' # <<>>
        BY <3>2, Len(<<>>) = 0
      <3> QED
        BY <3>1, <3>3, <2>1, <2>3 DEF Position
    <2> QED
      BY <2>1, <2>2, <2>4, EncoderLeft DEF Streaming, Running
  <1>4. CASE PrimeEncoded \/ ReplyPlain \/ PullPlain
    <2>1. /\ ~Encodes /\ UNCHANGED <<request, encoderVars>>
          /\ task' \in {"start", "send", "end", "returned"}
      BY <1>4, PullPlainDoes DEF PrimeEncoded, ReplyPlain, Reply, Take, Abort, EndOfBody
    <2>2. ffmpeg.at = "off"
      BY <2>1 DEF EncoderInv
    <2> QED
      BY <2>1, <2>2, EncoderLeft DEF Running
  <1>5. CASE EncoderEnds
    <2>1. /\ Exited /\ feeder.at = "done" /\ UNCHANGED <<request, encoderVars>>
          /\ task' \in {"returned", "end"}
      BY <1>5, EncoderEndsDoes DEF Refuse, Abort, EndOfBody, Reply
    <2> QED
      BY <2>1, EncoderLeft DEF Exited, Running
  <1>6. CASE Start \/ Send \/ CloseBody \/ Finish \/ HangUpSending
    <2>1. /\ UNCHANGED <<request, encoderVars>> /\ task \in Streaming \cup {"end"} /\ request.stream
          /\ task' \in {"send", "pull", "unwinding", "hungup", "returned"}
          /\ task' = "returned" => task = "end"
      BY <1>6 DEF Start, Send, CloseBody, Finish, HangUpSending, Streaming, TaskInv
    <2>2. task = "end" => ~Running
      BY DEF WholeInv, EndsWell, Running
    <2>3. Encodes => ffmpeg.at # "off"
      BY <2>1 DEF EncoderInv, Streaming
    <2> QED
      BY <2>1, <2>2, <2>3, EncoderLeft
  <1>7. CASE \/ FeederPulls \/ FeederWrites \/ FeederCloses \/ EncoderReads \/ EncoderComplains
             \/ EncoderWrites \/ EncoderExits \/ EncoderDies \/ DrainStderr
    BY <1>7, EncoderActsKeep
  <1>8. CASE StartEncoder \/ ReadBlock \/ CloseStreams \/ HangUpReading
    BY <1>8, EncoderHandled
  <1> QED
    BY <1>1, <1>2, <1>3, <1>4, <1>5, <1>6, <1>7, <1>8 DEF AnswerStep, Works, Breaks, HangsUp

-----------------------------------------------------------------------------
(* What is between the feeder and the client.                              *)

LEMMA Counts ==
  ASSUME Shape
  PROVE  /\ Handed \in Nat /\ Encoded \in Nat /\ Consumed \in Nat
         /\ Handed = Len(wire.sent) + Len(out) /\ Encoded = Handed + Len(pipe.out)
         /\ Busy => Consumed = Encoded + 1
         /\ ~Busy => Consumed = Encoded
         /\ Len(queue) \in Nat /\ Len(replay) \in Nat /\ Len(out) \in Nat
         /\ Len(pipe.in) \in Nat /\ Len(pipe.out) \in Nat /\ Len(wire.sent) \in Nat
         /\ Position \in Int /\ Fetched \in Nat
         /\ engine.made \in Nat /\ engine.length \in Nat /\ engine.length <= Most
  <1>1. /\ Len(queue) \in Nat /\ Len(replay) \in Nat /\ Len(out) \in Nat
        /\ Len(pipe.in) \in Nat /\ Len(pipe.out) \in Nat /\ Len(wire.sent) \in Nat
        /\ Position \in Int /\ Fetched \in Nat
    BY Lengths
  <1>2. engine.made \in Nat /\ engine.length \in Nat /\ engine.length <= Most
    BY FieldShape, Numbers
  <1>3. Handed = Len(wire.sent) + Len(out) /\ Encoded = Handed + Len(pipe.out)
    BY DEF Handed, Encoded
  <1>4. Handed \in Nat
    BY <1>1, <1>3
  <1>5. Encoded \in Nat
    <2> DEFINE h == Handed
               b == Len(pipe.out)
    <2>1. h \in Nat /\ b \in Nat /\ Encoded = h + b
      BY <1>1, <1>3, <1>4
    <2> HIDE DEF h, b
    <2> QED
      BY <2>1
  <1>6. (Busy => Consumed = Encoded + 1) /\ (~Busy => Consumed = Encoded)
    BY <1>5 DEF Consumed
  <1>7. Consumed \in Nat
    BY <1>5, <1>6
  <1> QED
    BY <1>1, <1>2, <1>3, <1>4, <1>5, <1>6, <1>7

LEMMA PositionBound ==
  ASSUME Shape, PcmInv
  PROVE  Position <= engine.made
  <1>1. counted \in Nat /\ Len(replay) \in Nat /\ engine.made \in Nat /\ Fetched <= engine.made
    BY Counts DEF Shape, PcmInv, ReplayInv
  <1>2. replay # <<>> => Len(replay) >= 1
    BY <1>1, LengthZero DEF Shape
  <1> QED
    BY <1>1, <1>2 DEF Position, Fetched

(* Nobody moves anything through the encoder.                              *)
LEMMA PipeLeft ==
  ASSUME Shape, PipeInv, UNCHANGED <<request, feeder, ffmpeg, pipe, Handed, Position>>,
         engine'.made \in Nat, engine.made <= engine'.made,
         EngineDone /\ counted = engine.length =>
           EngineDone' /\ counted' = engine'.length /\ engine'.length = engine.length,
         task = "returned" => task' = "returned"
  PROVE  PipeInv'
  <1>1. Encoded' = Encoded /\ Consumed' = Consumed /\ Busy' = Busy /\ Running' = Running
    BY DEF Encoded, Consumed, Busy, Running
  <1>2. Encoded \in Nat /\ engine.made \in Nat
    BY Counts
  <1> QED
    BY <1>1, <1>2 DEF PipeInv, Encodes

(* There is no encoder yet.                                                *)
LEMMA PipeOff ==
  ASSUME Shape, EncoderInv, ffmpeg.at = "off", UNCHANGED <<request, feeder, ffmpeg, pipe>>,
         Handed' = 0, engine'.made \in Nat, PipeInv
  PROVE  PipeInv'
  <1>1. feeder.at = "off" /\ pipe.in = <<>> /\ pipe.out = <<>>
    BY DEF EncoderInv
  <1>2. Encoded' = 0 /\ ~Running'
    BY <1>1 DEF Encoded, Running
  <1>3. Follows(pipe'.out, Handed')
    BY <1>1, RunEmpty
  <1> QED
    BY <1>1, <1>2, <1>3 DEF PipeInv, Encodes

LEMMA FeederKeepsPipe ==
  ASSUME Shape, TaskInv, PcmInv, EncoderInv, PipeInv, Encodes,
         FeederPulls \/ FeederWrites \/ FeederCloses
  PROVE  PipeInv'
  <1> USE DEF FeederIs, PipeIs
  <1>0. /\ feeder \in FeederShape /\ pipe \in PipeShape /\ feeder.hand \in Nat
        /\ pipe.in \in Seq(Nat) /\ pipe.out \in Seq(Nat)
    BY FieldShape DEF Shape
  <1>c. /\ Handed \in Nat /\ Encoded \in Nat /\ Consumed \in Nat
        /\ Len(pipe.in) \in Nat /\ Position \in Int
        /\ engine.made \in Nat /\ engine.length \in Nat /\ engine.length <= Most
        /\ engine.made <= engine.length /\ Position <= engine.made
        /\ Most \in Nat /\ End = Most + 1
    BY Counts, PositionBound, Numbers DEF PcmInv, EngineInv
  <1>u. UNCHANGED <<request, ffmpeg, out, wire, task, engine>>
    BY DEF FeederPulls, FeederWrites, FeederCloses, Take, answerVars, pcmVars
  <1>1. CASE FeederPulls
    <2>1. Take /\ feeder.at = "pulling" /\ UNCHANGED pipe /\ Available
      BY <1>1 DEF FeederPulls, Take
    <2>2. ffmpeg.at # "off"
      BY <2>1 DEF EncoderInv
    <2>3. Reads
      BY <2>1, <2>2 DEF Reads, EncoderInv, TaskInv
    <2>4. Encoded' = Encoded /\ Consumed' = Consumed /\ Handed' = Handed /\ Busy' = Busy /\ Running' = Running
      BY <2>1, <1>u DEF Encoded, Consumed, Handed, Busy, Running
    <2>5. CASE IsChunk(Item)
      <3>1. Item = Position + 1 /\ Item <= engine.made /\ Position' = Position + 1
        BY <2>1, <2>3, <2>5, WhatIsNext, TakeMoves
      <3>2. feeder'.at = "writing" /\ feeder'.hand = Item
        BY <1>1, <1>0, <2>5, FeederMoves
      <3>3. Running => Position = Consumed + Len(pipe.in)
        BY <1>c, <2>1 DEF PipeInv
      <3>4. Running => feeder'.hand = Consumed + Len(pipe.in) + 1 /\ Position' = Consumed + Len(pipe.in) + 1
        BY <3>1, <3>2, <3>3, <1>c
      <3>5. ffmpeg.at = "ok" => ffmpeg.early
        BY <2>1 DEF PipeInv
      <3>6. feeder'.hand <= End
        BY <3>1, <3>2, <1>c
      <3> QED
        BY <2>1, <2>4, <3>2, <3>4, <3>5, <3>6, <1>u DEF PipeInv, Encodes
    <2>6. CASE ~IsChunk(Item)
      <3>1. Position' = Position
        BY <2>1, <2>3, <2>6, TakeMoves
      <3>2. feeder'.at = "closing" /\ feeder'.hand = feeder.hand /\ feeder'.upstream = (Item = Raised)
        BY <1>1, <1>0, <2>6, FeederMoves
      <3>3. feeder'.upstream \/ (EngineDone /\ counted = engine.length /\ Position = engine.length)
        BY <2>1, <2>3, <2>6, <3>2, WhatIsNext
      <3>4. counted' = counted
        BY <2>1, <2>6 DEF Take
      <3>5. feeder'.upstream \/ (EngineDone' /\ counted' = engine'.length /\ Position' = engine'.length)
        BY <3>3, <3>4, <3>1, <1>u DEF EngineDone, Told
      <3>6. ffmpeg.at = "ok" => ffmpeg.early
        BY <2>1 DEF PipeInv
      <3> QED
        BY <2>1, <2>4, <3>1, <3>2, <3>5, <3>6, <1>u DEF PipeInv, Encodes
    <2> QED
      BY <2>5, <2>6
  <1>2. CASE FeederWrites
    <2>1. feeder.at = "writing" /\ UNCHANGED <<replay, counted>>
      BY <1>2 DEF FeederWrites, pcmVars
    <2>2. Position' = Position /\ EngineDone' = EngineDone
      BY <2>1, <1>u DEF Position, EngineDone, Told
    <2>3. CASE Running
      <3>1. feeder'.at = "pulling" /\ feeder'.hand = feeder.hand /\ pipe'.in = Append(pipe.in, feeder.hand)
            /\ pipe'.out = pipe.out
        BY <1>2, <2>3, <1>0, FeederMoves, PipeMoves
      <3>2. Encoded' = Encoded /\ Consumed' = Consumed /\ Handed' = Handed /\ Busy' = Busy /\ Running' = Running
        BY <3>1, <1>u DEF Encoded, Consumed, Handed, Busy, Running
      <3> DEFINE c == Consumed
      <3>3. c \in Nat /\ feeder.hand = c + Len(pipe.in) + 1 /\ Follows(pipe.in, c)
            /\ Position = feeder.hand
        BY <1>c, <2>1, <2>3 DEF PipeInv
      <3>4. Len(pipe'.in) = Len(pipe.in) + 1 /\ Follows(pipe'.in, c)
        <4> DEFINE s == pipe.in
                   m == feeder.hand
        <4>1. s \in Seq(Nat) /\ c \in Int /\ m \in Nat /\ Follows(s, c) /\ m = c + Len(s) + 1
          BY <3>3, <1>0
        <4>2. pipe'.in = Append(s, m)
          BY <3>1
        <4> HIDE DEF c, s, m
        <4>3. Len(pipe'.in) = Len(s) + 1 /\ Follows(pipe'.in, c)
          BY <4>1, <4>2, RunAppend
        <4> QED
          BY <4>3 DEF s
      <3> HIDE DEF c
      <3>5. feeder.hand \in 1..Most
        BY <3>3, <1>c
      <3>6. \A i \in 1..Len(pipe'.in) : pipe'.in[i] \in 1..Most
        <4>1. \A i \in 1..Len(pipe.in) : pipe.in[i] \in 1..Most
          BY DEF PipeInv
        <4> HIDE DEF c
        <4> QED
          BY <4>1, <3>1, <3>5, <1>0
      <3>7. Position = c + Len(pipe'.in)
        BY <3>3, <3>4, <1>c
      <3>8. Consumed' = c
        BY <3>2 DEF c
      <3>9. Position' = Consumed' + Len(pipe'.in) /\ Follows(pipe'.in, Consumed')
        BY <3>4, <3>7, <3>8, <2>2
      <3>10. ffmpeg.at # "ok"
        BY <2>3 DEF Running
      <3>11. Encoded' <= engine'.made /\ Follows(pipe'.out, Handed') /\ feeder'.hand <= End /\ ffmpeg'.hand <= End
             /\ (Busy' => ffmpeg'.hand = Encoded' + 1)
        BY <3>1, <3>2, <2>3, <1>u DEF PipeInv
      <3>12. Position' = Consumed' + Len(pipe'.in) + 0
        BY <3>7, <3>8, <2>2, <3>3, <3>4, <1>c
      <3> QED
        BY <3>1, <3>6, <3>9, <3>10, <3>11, <3>12, <1>u DEF PipeInv
    <2>4. CASE ~Running
      <3>1. feeder'.at = "closing" /\ feeder'.hand = feeder.hand /\ UNCHANGED pipe
        BY <1>2, <2>4, <1>0, FeederMoves, PipeMoves
      <3>2. Encoded' = Encoded /\ Handed' = Handed /\ ~Running'
        BY <3>1, <1>u, <2>4 DEF Encoded, Handed, Running
      <3>3. ffmpeg.at = "failed" \/ ffmpeg.early
        BY <1>2, <2>1, <2>4 DEF FeederWrites, Exited, PipeInv
      <3>4. ffmpeg.at = "ok" => ffmpeg.early
        BY <2>1 DEF PipeInv
      <3> QED
        BY <3>1, <3>2, <3>3, <3>4, <1>u DEF PipeInv, Encodes
    <2> QED
      BY <2>3, <2>4
  <1>3. CASE FeederCloses
    <2>1. feeder.at = "closing" /\ UNCHANGED <<replay, counted>>
      BY <1>3 DEF FeederCloses
    <2>2. Position' = Position /\ EngineDone' = EngineDone
      BY <2>1, <1>u DEF Position, EngineDone, Told
    <2>3. /\ feeder'.at = "done" /\ feeder'.hand = feeder.hand /\ feeder'.upstream = feeder.upstream
          /\ pipe'.in = pipe.in /\ pipe'.out = pipe.out
      BY <1>3, <1>0, FeederMoves, PipeMoves
    <2>4. Encoded' = Encoded /\ Consumed' = Consumed /\ Handed' = Handed /\ Busy' = Busy /\ Running' = Running
      BY <2>3, <1>u DEF Encoded, Consumed, Handed, Busy, Running
    <2> QED
      BY <2>1, <2>2, <2>3, <2>4, <1>u DEF PipeInv, Encodes
  <1> QED
    BY <1>1, <1>2, <1>3

LEMMA EncoderKeepsPipe ==
  ASSUME Shape, PcmInv, EncoderInv, PipeInv, Encodes,
         \/ EncoderReads \/ EncoderComplains \/ EncoderWrites \/ EncoderExits \/ EncoderDies
         \/ DrainStderr
  PROVE  PipeInv'
  <1> USE DEF EncoderIs, PipeIs
  <1>0. /\ ffmpeg \in EncoderShape /\ pipe \in PipeShape /\ ffmpeg.hand \in Nat
        /\ pipe.in \in Seq(Nat) /\ pipe.out \in Seq(Nat)
    BY FieldShape DEF Shape
  <1>c. /\ Handed \in Nat /\ Encoded \in Nat /\ Consumed \in Nat /\ Encoded = Handed + Len(pipe.out)
        /\ Busy => Consumed = Encoded + 1
        /\ ~Busy => Consumed = Encoded
        /\ Len(pipe.in) \in Nat /\ Len(pipe.out) \in Nat /\ Position \in Int
        /\ engine.made \in Nat /\ Position <= engine.made
        /\ Most \in Nat /\ End = Most + 1
    BY Counts, PositionBound, Numbers
  <1>u. /\ UNCHANGED <<request, feeder, out, wire, task, engine, replay, counted>>
        /\ Position' = Position /\ EngineDone' = EngineDone /\ Handed' = Handed
    BY DEF EncoderReads, EncoderComplains, EncoderWrites, EncoderExits, EncoderDies, DrainStderr,
           answerVars, pcmVars, Position, EngineDone, Told, Handed
  <1>1. CASE EncoderReads
    <2>1. ffmpeg.at = "reading" /\ pipe.in # <<>> /\ Running /\ ~Busy
      BY <1>1 DEF EncoderReads, Running, Busy
    <2>2. /\ ffmpeg'.at \in {"complaining", "writing"} /\ ffmpeg'.hand = Head(pipe.in)
          /\ ffmpeg'.early = ffmpeg.early /\ pipe'.in = Tail(pipe.in) /\ pipe'.out = pipe.out
      BY <1>1, <1>0, EncoderMoves, PipeMoves
    <2>3. Encoded' = Encoded /\ Busy' /\ Running'
      BY <2>2, <1>u DEF Encoded, Busy, Running
    <2>4. Consumed' = Consumed + 1 /\ Consumed = Encoded
      BY <2>1, <2>3, <1>c DEF Consumed
    <2> DEFINE c == Consumed
    <2>5. c \in Nat /\ c \in Int /\ Follows(pipe.in, c) /\ pipe.in \in Seq(Nat)
      BY <2>1, <1>0, <1>c DEF PipeInv
    <2> HIDE DEF c
    <2>6. Head(pipe.in) = c + 1 /\ Len(pipe'.in) = Len(pipe.in) - 1 /\ Follows(pipe'.in, c + 1)
      BY <2>1, <2>2, <2>5, RunTail
    <2>7. pipe.in[1] \in 1..Most /\ Head(pipe.in) = pipe.in[1]
          /\ \A i \in 1..Len(pipe'.in) : pipe'.in[i] \in 1..Most
      <3>1. \A i \in 1..Len(pipe.in) : pipe.in[i] \in 1..Most
        BY DEF PipeInv
      <3>2. Len(pipe.in) > 0
        BY <2>1, <1>0, LengthZero
      <3>3. \A i \in 1..Len(Tail(pipe.in)) : Tail(pipe.in)[i] = pipe.in[i + 1]
        BY <2>1, <1>0, HeadTailProperties
      <3> QED
        BY <3>1, <3>2, <3>3, <2>2, <2>6, <1>0, <1>c
    <2>8. ffmpeg'.hand <= End /\ ffmpeg'.hand = Encoded' + 1
      BY <2>2, <2>3, <2>4, <2>6, <2>7, <1>c DEF c
    <2>9. Follows(pipe'.in, Consumed')
      BY <2>4, <2>6 DEF c
    <2>10. Consumed' + Len(pipe'.in) = Consumed + Len(pipe.in)
      <3> DEFINE d == Consumed'
                 in == Len(pipe.in)
                 left == Len(pipe'.in)
      <3>1. d = c + 1 /\ Consumed = c
        BY <2>4 DEF c
      <3>2. in \in Nat /\ left = in - 1
        BY <2>6, <1>c
      <3> HIDE DEF d, in, left
      <3>3. d + left = c + in
        BY <3>1, <3>2, <2>5
      <3> QED
        BY <3>1, <3>3 DEF d, in, left
    <2>11. /\ feeder.at = "writing" => feeder.hand = Consumed + Len(pipe.in) + 1
           /\ Position = Consumed + Len(pipe.in) + (IF feeder.at = "writing" THEN 1 ELSE 0)
      BY <2>1 DEF PipeInv
    <2>12. /\ feeder'.at = "writing" => feeder'.hand = Consumed' + Len(pipe'.in) + 1
           /\ Position' = Consumed' + Len(pipe'.in) + (IF feeder'.at = "writing" THEN 1 ELSE 0)
      BY <2>10, <2>11, <1>u
    <2>13. /\ Encoded' <= engine'.made /\ Follows(pipe'.out, Handed') /\ feeder'.hand <= End
           /\ ffmpeg'.at # "ok"
      BY <2>2, <2>3, <1>u DEF PipeInv
    <2>14. feeder'.at \in {"closing", "done"} =>
             \/ feeder'.upstream \/ ffmpeg'.at = "failed" \/ ffmpeg'.early \/ task' = "returned"
             \/ EngineDone' /\ counted' = engine'.length /\ Position' = engine'.length
      BY <2>1, <2>2, <1>u DEF PipeInv
    <2> QED
      BY <2>7, <2>8, <2>9, <2>12, <2>13, <2>14 DEF PipeInv
  <1>2. CASE EncoderComplains \/ DrainStderr
    <2>1. CASE EncoderComplains
      <3>1. ffmpeg.at = "complaining" /\ ffmpeg'.at = "writing" /\ ffmpeg'.hand = ffmpeg.hand
            /\ ffmpeg'.early = ffmpeg.early /\ pipe'.in = pipe.in /\ pipe'.out = pipe.out
        BY <2>1, <1>0, EncoderMoves, PipeMoves DEF EncoderComplains
      <3>2. Busy /\ Busy' /\ Running /\ Running' /\ Encoded' = Encoded
        BY <3>1, <1>u DEF Busy, Running, Encoded
      <3>3. Consumed' = Consumed
        BY <3>2 DEF Consumed
      <3> QED
        BY <3>1, <3>2, <3>3, <1>u DEF PipeInv, Encodes
    <2>2. CASE DrainStderr
      <3>1. UNCHANGED ffmpeg /\ pipe'.in = pipe.in /\ pipe'.out = pipe.out
        BY <2>2, <1>0, PipeMoves DEF DrainStderr
      <3>2. Busy' = Busy /\ Running' = Running /\ Encoded' = Encoded /\ Consumed' = Consumed
        BY <3>1, <1>u DEF Busy, Running, Encoded, Consumed
      <3> QED
        BY <3>1, <3>2, <1>u DEF PipeInv, Encodes
    <2> QED
      BY <1>2, <2>1, <2>2
  <1>3. CASE EncoderWrites
    <2>1. ffmpeg.at = "writing" /\ Running /\ Busy
      BY <1>3 DEF EncoderWrites, Running, Busy
    <2>2. /\ ffmpeg'.at = "reading" /\ ffmpeg'.hand = ffmpeg.hand
          /\ ffmpeg'.early = ffmpeg.early /\ pipe'.in = pipe.in /\ pipe'.out = Append(pipe.out, ffmpeg.hand)
      BY <1>3, <1>0, EncoderMoves, PipeMoves
    <2>3. Running' /\ ~Busy'
      BY <2>2 DEF Running, Busy
    <2> DEFINE h == Handed
    <2>4. h \in Nat /\ h \in Int /\ Follows(pipe.out, h) /\ ffmpeg.hand = h + Len(pipe.out) + 1
      BY <2>1, <1>c DEF PipeInv
    <2>5. Handed' = h
      BY <1>u
    <2> HIDE DEF h
    <2>6. Len(pipe'.out) = Len(pipe.out) + 1 /\ Follows(pipe'.out, h)
      BY <2>2, <2>4, <1>0, RunAppend
    <2>7. Encoded' = h + Len(pipe.out) + 1
      BY <2>4, <2>5, <2>6, <1>c DEF Encoded
    <2>8. Consumed' = Consumed /\ Encoded' = Consumed
      BY <2>1, <2>3, <2>7, <1>c DEF Consumed, h
    <2>9. Follows(pipe'.out, Handed')
      BY <2>5, <2>6
    <2>10. Encoded' <= engine'.made
      <3>1. Position = Consumed + Len(pipe.in) + (IF feeder.at = "writing" THEN 1 ELSE 0)
        BY <2>1 DEF PipeInv
      <3>2. Consumed <= Position
        <4> DEFINE c == Consumed
                   in == Len(pipe.in)
                   w == IF feeder.at = "writing" THEN 1 ELSE 0
        <4>1. c \in Nat /\ in \in Nat /\ w \in Nat /\ Position = c + in + w
          BY <3>1, <1>c
        <4> HIDE DEF c, in, w
        <4>2. c <= Position
          BY <4>1
        <4> QED
          BY <4>2 DEF c
      <3> QED
        BY <3>2, <2>8, <1>c, <1>u
    <2> QED
      BY <2>1, <2>2, <2>3, <2>8, <2>9, <2>10, <1>u DEF PipeInv, Encodes
  <1>4. CASE EncoderExits
    <2>1. ffmpeg.at = "reading" /\ Running /\ ~Busy
      BY <1>4 DEF EncoderExits, Running, Busy
    <2>2. /\ ffmpeg'.at = "ok" /\ ffmpeg'.hand = ffmpeg.hand
          /\ ffmpeg'.early = ~(pipe.in = <<>> /\ ~pipe.open) /\ pipe'.in = <<>> /\ pipe'.out = pipe.out
      BY <1>4, <1>0, EncoderMoves, PipeMoves
    <2>3. Encoded' = Encoded /\ ~Running'
      BY <2>2, <1>u DEF Encoded, Running
    <2>4. ~ffmpeg'.early => feeder.at = "done" /\ Encoded = Position
      <3> SUFFICES ASSUME ~ffmpeg'.early
                   PROVE  feeder.at = "done" /\ Encoded = Position
        OBVIOUS
      <3>1. pipe.in = <<>> /\ ~pipe.open
        BY <2>2
      <3>2. feeder.at = "done" /\ Len(pipe.in) = 0
        BY <3>1 DEF EncoderInv
      <3>3. Position = Consumed + Len(pipe.in) + 0
        BY <2>1, <3>2 DEF PipeInv
      <3> QED
        BY <3>2, <3>3, <2>1, <1>c
    <2>5. \/ feeder.at \notin {"closing", "done"} \/ feeder.upstream \/ ffmpeg'.early \/ task = "returned"
          \/ EngineDone /\ counted = engine.length /\ Position = engine.length
      BY <2>1, <2>2 DEF PipeInv, EncoderInv
    <2> QED
      BY <2>2, <2>3, <2>4, <2>5, <1>u DEF PipeInv, Encodes
  <1>5. CASE EncoderDies
    <2>1. ffmpeg'.at = "failed" /\ ffmpeg'.hand = ffmpeg.hand /\ pipe'.in = <<>> /\ pipe'.out = pipe.out
      BY <1>5, <1>0, EncoderMoves, PipeMoves
    <2>2. Encoded' = Encoded /\ ~Running'
      BY <2>1, <1>u DEF Encoded, Running
    <2> QED
      BY <2>1, <2>2, <1>u DEF PipeInv, Encodes
  <1> QED
    BY <1>1, <1>2, <1>3, <1>4, <1>5

LEMMA TaskKeepsPipe ==
  ASSUME Shape, TaskInv, PcmInv, EncoderInv, SentInv, PipeInv, Encodes,
         StartEncoder \/ ReadBlock \/ EncoderEnds \/ CloseStreams \/ HangUpReading
  PROVE  PipeInv'
  <1> USE DEF EncoderIs, PipeIs, FeederIs, WireIs
  <1>0. /\ ffmpeg \in EncoderShape /\ pipe \in PipeShape /\ feeder \in FeederShape /\ wire \in WireShape
        /\ pipe.in \in Seq(Nat) /\ pipe.out \in Seq(Nat) /\ out \in Seq(Nat) /\ wire.sent \in Seq(Nat)
    BY FieldShape DEF Shape
  <1>c. /\ Handed \in Nat /\ Encoded \in Nat /\ Encoded = Handed + Len(pipe.out)
        /\ Handed = Len(wire.sent) + Len(out) /\ Len(out) \in Nat /\ Len(wire.sent) \in Nat
        /\ Len(pipe.in) \in Nat /\ Len(pipe.out) \in Nat /\ Position \in Int
        /\ engine.made \in Nat /\ Most \in Nat /\ End = Most + 1
    BY Counts, Numbers
  <1>u. /\ UNCHANGED <<request, engine, replay, counted>>
        /\ Position' = Position /\ EngineDone' = EngineDone
    BY EncoderEndsDoes
       DEF StartEncoder, ReadBlock, CloseStreams, CancelTasks, HangUpReading, pcmVars,
           Position, EngineDone, Told
  <1>1. CASE StartEncoder
    <2>1. /\ task \in {"encoder", "encodeAll"} /\ ffmpeg.at = "off" /\ UNCHANGED <<pipe, out>>
      BY <1>1 DEF StartEncoder
    <2>2. wire'.sent = wire.sent
      BY <1>1, <1>0, WireMoves DEF StartEncoder
    <2>3. Handed = 0 /\ Handed' = 0
      BY <2>1, <2>2 DEF SentInv, Waiting, Handed
    <2>4. feeder.at = "off" /\ pipe.in = <<>> /\ pipe.out = <<>> /\ Len(pipe.in) = 0 /\ Len(pipe.out) = 0
          /\ Position = 0
      BY <2>1 DEF EncoderInv
    <2>5. CASE UNCHANGED <<feeder, ffmpeg>>
      BY <2>1, <2>3, <2>5, <1>u, <1>c, PipeOff
    <2>6. CASE ffmpeg' = [ffmpeg EXCEPT !.at = "reading"] /\ feeder' = [feeder EXCEPT !.at = "pulling"]
      <3>1. /\ ffmpeg'.at = "reading" /\ ffmpeg'.hand = ffmpeg.hand /\ feeder'.at = "pulling"
            /\ feeder'.hand = feeder.hand
        BY <2>6, <1>0 DEF EncoderShape, FeederShape
      <3>2. Encoded' = 0 /\ ~Busy' /\ Running'
        BY <3>1, <2>1, <2>3, <2>4 DEF Encoded, Busy, Running
      <3>3. Consumed' = 0
        BY <3>2 DEF Consumed
      <3>4. Follows(pipe'.out, Handed') /\ Follows(pipe'.in, Consumed')
        BY <2>1, <2>3, <2>4, <3>3, RunEmpty
      <3> QED
        BY <3>1, <3>2, <3>3, <3>4, <2>1, <2>3, <2>4, <1>u, <1>c DEF PipeInv, Encodes
    <2> QED
      BY <1>1, <2>5, <2>6 DEF StartEncoder
  <1>2. CASE ReadBlock
    <2>1. /\ pipe.out # <<>> /\ UNCHANGED <<feeder, ffmpeg, wire>> /\ out' = Append(out, Head(pipe.out))
          /\ task' = "returned" <=> task = "returned"
      BY <1>2 DEF ReadBlock
    <2>2. pipe'.in = pipe.in /\ pipe'.out = Tail(pipe.out)
      BY <1>2, <1>0, PipeMoves
    <2> DEFINE h == Handed
    <2>3. h \in Int /\ Follows(pipe.out, h)
      BY <1>c DEF PipeInv
    <2>4. Len(out') = Len(out) + 1
      BY <2>1, <1>0
    <2>5. Handed' = h + 1
      <3> DEFINE w == Len(wire.sent)
                 o == Len(out)
                 more == Len(out')
      <3>1. Handed' = w + more
        BY <2>1 DEF Handed
      <3>2. h = w + o /\ more = o + 1 /\ w \in Nat /\ o \in Nat
        BY <2>4, <1>c
      <3> HIDE DEF h, w, o, more
      <3> QED
        BY <3>1, <3>2
    <2> HIDE DEF h
    <2>6. Len(pipe'.out) = Len(pipe.out) - 1 /\ Follows(pipe'.out, h + 1)
      BY <2>1, <2>2, <2>3, <1>0, RunTail
    <2>7. Encoded' = Encoded
      <3> DEFINE l == Len(pipe.out)
                 left == Len(pipe'.out)
                 g == Handed'
      <3>1. Encoded' = g + left
        BY DEF Encoded
      <3>2. Encoded = h + l
        BY <1>c DEF h
      <3>3. g = h + 1 /\ left = l - 1 /\ l \in Nat /\ h \in Int
        BY <2>3, <2>5, <2>6, <1>c
      <3> HIDE DEF l, left, g
      <3> QED
        BY <3>1, <3>2, <3>3
    <2>8. Follows(pipe'.out, Handed')
      BY <2>5, <2>6
    <2>9. Busy' = Busy /\ Running' = Running /\ Consumed' = Consumed
      BY <2>1, <2>7 DEF Busy, Running, Consumed
    <2> QED
      BY <2>1, <2>2, <2>7, <2>8, <2>9, <1>u DEF PipeInv, Encodes
  <1>3. CASE EncoderEnds
    <2>1. /\ Exited /\ pipe.out = <<>> /\ feeder.at = "done" /\ out' = <<>> /\ UNCHANGED encoderVars
          /\ \/ task \in {"encoder", "encodeAll"} /\ Refuse
             \/ task = "pull" /\ Abort
             \/ task = "pull" /\ EndOfBody
             \/ task = "encodeAll" /\ Reply(out)
      BY <1>3, EncoderEndsDoes
    <2>2. Len(out') = 0 /\ Len(pipe.out) = 0 /\ Len(pipe'.out) = 0
      BY <2>1 DEF encoderVars
    <2>3. Handed' <= Handed /\ Handed' \in Nat
      <3>1. CASE wire'.sent = wire.sent
        BY <3>1, <2>2, <1>c DEF Handed
      <3>2. CASE task = "encodeAll" /\ Reply(out)
        <4>1. wire'.sent = out /\ wire.sent = <<>>
          BY <3>2 DEF Reply, TaskInv, Waiting
        <4> QED
          BY <4>1, <2>2, <1>c DEF Handed
      <3> QED
        BY <2>1, <3>1, <3>2, <1>0, WireMoves DEF EndOfBody
    <2>4. task' = "returned" \/ (task = "pull" /\ EndOfBody)
      BY <2>1 DEF Refuse, Abort, Reply
    <2>5. task = "pull" /\ EndOfBody => Handed' = Handed
      <3>1. task = "pull" => out = <<>>
        BY DEF TaskInv
      <3> QED
        BY <3>1, <2>1 DEF EndOfBody, Handed
    <2>6. Encoded' = Handed' /\ Encoded = Handed /\ ~Running'
      BY <2>1, <2>2, <2>3, <1>c DEF Encoded, Running, Exited, encoderVars
    <2>7. Encoded <= engine.made /\ engine' = engine
      BY <1>u DEF PipeInv
    <2>8. Follows(pipe'.out, Handed')
      <3>1. pipe'.out = <<>> /\ Handed' \in Int
        BY <2>1, <2>3 DEF encoderVars
      <3> QED
        BY <3>1, RunEmpty
    <2>9. Encoded' <= engine'.made
      <3> DEFINE h == Handed
                 k == Handed'
                 e == engine.made
      <3>1. k <= h /\ k \in Nat /\ h \in Nat /\ e \in Nat /\ h <= e
        BY <2>3, <2>6, <2>7, <1>c
      <3>2. Encoded' = k /\ engine'.made = e
        BY <2>6, <2>7
      <3> HIDE DEF h, k, e
      <3> QED
        BY <3>1, <3>2
    <2>10. task' # "returned" => Encoded' = Encoded /\ task # "returned"
      BY <2>4, <2>5, <2>6
    <2> QED
      BY <2>1, <2>4, <2>6, <2>8, <2>9, <2>10, <1>u DEF PipeInv, Encodes, encoderVars
  <1>4. CASE CloseStreams \/ HangUpReading
    <2>1. task' = "returned" /\ UNCHANGED out /\ wire'.sent = wire.sent
      BY <1>4, <1>0, WireMoves DEF CloseStreams, HangUpReading
    <2>2. Handed' = Handed
      BY <2>1 DEF Handed
    <2>3. /\ pipe'.out = pipe.out /\ (pipe'.in = pipe.in \/ pipe'.in = <<>>)
          /\ feeder'.hand = feeder.hand /\ (feeder'.at = feeder.at \/ feeder'.at = "done")
          /\ ffmpeg'.hand = ffmpeg.hand
          /\ ffmpeg'.at = "failed" \/ (~Running' /\ ffmpeg' = ffmpeg)
      <3>1. CASE CloseStreams
        <4>1. CancelTasks /\ ffmpeg' = IF Running THEN [ffmpeg EXCEPT !.at = "failed"] ELSE ffmpeg
          BY <3>1 DEF CloseStreams
        <4>2. pipe'.out = pipe.out /\ pipe'.in = pipe.in /\ feeder'.hand = feeder.hand /\ feeder'.at = "done"
          BY <4>1, <1>0, PipeMoves, FeederMoves
        <4>3. CASE Running
          BY <4>1, <4>2, <4>3, <1>0 DEF EncoderShape
        <4>4. CASE ~Running
          BY <4>1, <4>2, <4>4 DEF Running
        <4> QED
          BY <4>3, <4>4
      <3>2. CASE HangUpReading /\ Running
        <4>1. ffmpeg' = [ffmpeg EXCEPT !.at = "failed"] /\ pipe' = [pipe EXCEPT !.in = <<>>] /\ UNCHANGED feeder
          BY <3>2 DEF HangUpReading, Running, Exited
        <4> QED
          BY <4>1, <1>0 DEF EncoderShape, PipeShape
      <3>3. CASE HangUpReading /\ ~Running
        <4>1. CancelTasks /\ UNCHANGED ffmpeg
          BY <3>3 DEF HangUpReading
        <4>2. pipe'.out = pipe.out /\ pipe'.in = pipe.in /\ feeder'.hand = feeder.hand /\ feeder'.at = "done"
          BY <4>1, <1>0, PipeMoves, FeederMoves
        <4> QED
          BY <3>3, <4>1, <4>2 DEF Running
      <3> QED
        BY <1>4, <3>1, <3>2, <3>3
    <2>4. Encoded' = Encoded /\ ~Running'
      BY <2>2, <2>3 DEF Encoded, Running
    <2>5. \A i \in 1..Len(pipe'.in) : pipe'.in[i] \in 1..Most
      <3>1. CASE pipe'.in = <<>>
        <4>1. Len(pipe'.in) = 0
          BY <3>1
        <4> QED
          BY <4>1
      <3>2. CASE pipe'.in = pipe.in
        BY <3>2 DEF PipeInv
      <3> QED
        BY <2>3, <3>1, <3>2
    <2>6. ffmpeg'.at = "ok" /\ ~ffmpeg'.early => feeder'.at = "done"
      BY <2>3 DEF PipeInv
    <2> QED
      BY <2>1, <2>2, <2>3, <2>4, <2>5, <2>6, <1>u DEF PipeInv, Encodes
  <1> QED
    BY <1>1, <1>2, <1>3, <1>4

LEMMA PipeKept ==
  ASSUME Shape, TaskInv, PcmInv, EncoderInv, SentInv, PipeInv, [AnswerStep]_vars
  PROVE  PipeInv'
  <1>0. UNCHANGED request
    BY EncoderEndsDoes
       DEF AnswerStep, Works, Breaks, HangsUp, Make, Exhausted, EngineRaises, Put, ThreadGone, Drain,
           Prime, PullFirst, Collect, PrimeEncoded, ReplyPlain, StartEncoder, FeederPulls, Take, FeederWrites,
           FeederCloses, EncoderReads, EncoderComplains, EncoderWrites, EncoderExits, EncoderDies,
           DrainStderr, ReadBlock, Start, Send, PullPlain, Finish, CloseBody, CloseStreams,
           HangUpReading, HangUpSending, vars
  <1>1. CASE ~Encodes
    BY <1>0, <1>1 DEF PipeInv, Encodes
  <1>c. engine.made \in Nat /\ engine \in EngineShape
    BY Counts DEF Shape
  <1>2. CASE Make \/ Exhausted \/ EngineRaises \/ Put \/ ThreadGone
    <2>1. UNCHANGED <<request, encoderVars, task, out, wire, replay, counted>>
      BY <1>2 DEF Make, Exhausted, EngineRaises, Put, ThreadGone, answerVars
    <2>2. /\ engine'.length = engine.length /\ engine'.made \in Nat /\ engine.made <= engine'.made
          /\ EngineDone => engine'.made = engine.made /\ engine'.failed = engine.failed /\ engine'.at = "gone"
      <3>1. CASE Make \/ Exhausted \/ EngineRaises \/ Put
        <4>1. engine'.length = engine.length /\ (engine'.made = engine.made \/ engine'.made = engine.made + 1)
          BY <3>1, <1>c, EngineMoves DEF EngineIs
        <4>2. ~Told
          BY <3>1 DEF Make, Exhausted, EngineRaises, Put, Told
        <4> QED
          BY <4>1, <4>2, <1>c DEF EngineDone
      <3>2. CASE ThreadGone
        BY <3>2, <1>c, EngineMoves DEF EngineIs
      <3> QED
        BY <1>2, <3>1, <3>2
    <2>3. Handed' = Handed /\ Position' = Position
      BY <2>1 DEF Handed, Position
    <2>4. EngineDone => EngineDone'
      BY <2>2 DEF EngineDone, Told
    <2> QED
      BY <2>1, <2>2, <2>3, <2>4, PipeLeft DEF encoderVars
  <1>3. CASE Drain \/ Start \/ Finish \/ CloseBody \/ HangUpSending \/ UNCHANGED vars
    <2>1. UNCHANGED <<request, engine, encoderVars, out, replay, counted>>
      BY <1>3 DEF Drain, Start, Finish, CloseBody, HangUpSending, vars, answerVars, pcmVars, encoderVars
    <2>2. wire'.sent = wire.sent
      BY <1>3, WireMoves DEF WireIs, Shape, Drain, CloseBody, vars, answerVars
    <2>3. task = "returned" => task' = "returned"
      BY <1>3 DEF Drain, Start, Finish, CloseBody, HangUpSending, vars, answerVars
    <2>4. Handed' = Handed /\ Position' = Position /\ EngineDone' = EngineDone
      BY <2>1, <2>2 DEF Handed, Position, EngineDone, Told
    <2> QED
      BY <2>1, <2>3, <2>4, <1>c, PipeLeft DEF encoderVars
  <1>4. CASE Send
    <2>1. UNCHANGED <<request, engine, encoderVars, replay, counted>> /\ out' = <<>> /\ task = "send"
      BY <1>4 DEF Send, pcmVars
    <2>2. wire'.sent = wire.sent \o out /\ wire.sent \in Seq(Nat) /\ out \in Seq(Nat)
      BY <1>4, WireMoves, FieldShape DEF WireIs, Shape
    <2>3. Len(wire'.sent) = Len(wire.sent) + Len(out) /\ Len(out') = 0 /\ Handed \in Nat
      BY <2>1, <2>2, Counts
    <2>4. Handed' = Handed /\ Position' = Position /\ EngineDone' = EngineDone
      BY <2>1, <2>3, Counts DEF Handed, Position, EngineDone, Told
    <2> QED
      BY <2>1, <2>4, <1>c, PipeLeft DEF encoderVars
  <1>5. CASE Prime \/ Collect
    <2>1. /\ task \in {"prime", "collect"} /\ UNCHANGED <<request, engine, encoderVars, out>>
          /\ UNCHANGED wire \/ Refuse
      BY <1>5 DEF Prime, PullFirst, Collect
    <2>2. wire'.sent = wire.sent
      BY <2>1, WireMoves DEF WireIs, Shape
    <2>3. ffmpeg.at = "off"
      BY <2>1 DEF EncoderInv
    <2>4. Handed' = 0
      BY <2>1, <2>2, <2>3 DEF SentInv, Waiting, Handed
    <2> QED
      BY <2>1, <2>3, <2>4, <1>c, PipeOff DEF encoderVars
  <1>6. CASE PrimeEncoded \/ ReplyPlain \/ PullPlain
    BY <1>1, <1>6 DEF PrimeEncoded, ReplyPlain, PullPlain
  <1>7. CASE FeederPulls \/ FeederWrites \/ FeederCloses
    BY <1>1, <1>7, FeederKeepsPipe
  <1>8. CASE \/ EncoderReads \/ EncoderComplains \/ EncoderWrites \/ EncoderExits \/ EncoderDies
             \/ DrainStderr
    BY <1>1, <1>8, EncoderKeepsPipe
  <1>9. CASE StartEncoder \/ ReadBlock \/ EncoderEnds \/ CloseStreams \/ HangUpReading
    BY <1>1, <1>9, TaskKeepsPipe
  <1> QED
    BY <1>2, <1>3, <1>4, <1>5, <1>6, <1>7, <1>8, <1>9 DEF AnswerStep, Works, Breaks, HangsUp

-----------------------------------------------------------------------------
(* What the client has been sent.                                          *)
(* Where nothing is added to what it gets.                                 *)
LEMMA SentLeft ==
  ASSUME Shape, SentInv, UNCHANGED <<request, out>>, wire'.sent = wire.sent,
         engine'.made \in Nat, engine.made <= engine'.made,
         task' \in Waiting /\ ffmpeg'.at = "off" => task \in Waiting /\ ffmpeg.at = "off",
         request.stream /\ ~Encodes /\ task' \in Streaming => task \in Streaming /\ counted' = counted
  PROVE  SentInv'
  <1>1. Lead' = Lead /\ Handed' = Handed /\ Handed \in Nat /\ engine.made \in Nat /\ Lead \in Nat
    BY Counts DEF Lead, Handed
  <1> QED
    BY <1>1 DEF SentInv, Encodes

LEMMA RunOne == \A n \in Int, m \in Nat : m = n + 1 => <<m>> \in Seq(Nat) /\ Len(<<m>>) = 1 /\ Follows(<<m>>, n)
  BY DEF Follows

LEMMA PrimedSent ==
  ASSUME Shape, TaskInv, PcmInv, EncoderInv, SentInv, PrimeEncoded
  PROVE  SentInv'
  <1>1. /\ task = "encoder" /\ ~Encodes /\ task' = "start" /\ UNCHANGED <<request, engine, wire>>
    BY DEF PrimeEncoded
  <1>2. request.stream /\ wire.sent = <<>> /\ ffmpeg.at = "off"
    BY <1>1 DEF TaskInv, Waiting, EncoderInv
  <1>3. replay = <<1>> /\ counted = 0 /\ engine.made > 0 /\ engine.made \in Nat
    BY <1>1, <1>2, Counts DEF EncoderInv, PcmInv, ReplayInv
  <1>4. CASE request.format = "wav"
    <2>1. out' = <<0>> /\ counted' = 0 /\ Lead = 1 /\ Lead' = 1
      BY <1>1, <1>3, <1>4 DEF PrimeEncoded, Header, Lead, pcmVars
    <2>2. Follows(<<0>>, 0 - 1) /\ Len(<<0>>) = 1
      BY RunOne
    <2>3. Handed' = 1 /\ Len(wire'.sent) = 0
      BY <1>1, <1>2, <2>1, <2>2 DEF Handed
    <2>4. Follows(wire'.sent, 0 - 1)
      BY <1>1, <1>2, RunEmpty
    <2> QED
      BY <1>1, <1>3, <2>1, <2>2, <2>3, <2>4 DEF SentInv, Waiting
  <1>5. CASE request.format # "wav"
    <2>1. Take /\ out' = <<1>> /\ Lead = 0 /\ Lead' = 0
      BY <1>1, <1>3, <1>5 DEF PrimeEncoded, Item, Lead
    <2>2. counted' = 1
      <3>1. IsChunk(Item) /\ Item = 1
        BY <1>3, Numbers DEF Item
      <3> QED
        BY <2>1, <1>2, <1>3, <3>1 DEF Take
    <2>3. Follows(<<1>>, 0) /\ Len(<<1>>) = 1
      BY RunOne
    <2>4. Handed' = 1 /\ Len(wire'.sent) = 0
      BY <1>1, <1>2, <2>1, <2>3 DEF Handed
    <2>5. Follows(wire'.sent, 0)
      BY <1>1, <1>2, RunEmpty
    <2> QED
      BY <1>1, <1>3, <2>1, <2>2, <2>3, <2>4, <2>5 DEF SentInv, Waiting
  <1> QED
    BY <1>4, <1>5

(* A buffered answer that needs no encoder is all that was collected.      *)
LEMMA RepliedSent ==
  ASSUME Shape, TaskInv, PcmInv, EncoderInv, ReplyPlain
  PROVE  SentInv' /\ Handed' = engine.length + Lead /\ EngineDone /\ counted = engine.length
  <1>1. /\ task = "encodeAll" /\ ~Encodes /\ task' = "returned"
        /\ UNCHANGED <<request, engine, replay, counted, out>>
        /\ wire'.sent = (IF request.format = "wav" THEN <<Header>> ELSE <<>>) \o Front(replay)
    BY DEF ReplyPlain, Reply, pcmVars
  <1>2. out = <<>> /\ ffmpeg.at = "off" /\ ~request.stream
    BY <1>1 DEF TaskInv, EncoderInv
  <1>3. replay # <<>> /\ Position = 0 /\ EngineDone /\ counted = engine.length
        /\ EndsAfter(replay, 0, End)
    BY <1>1, <1>2 DEF EncoderInv, PcmInv, ReplayInv
  <1>4. engine.made = engine.length /\ engine.made \in Nat
    BY <1>3, Counts DEF EngineDone
  <1>5. /\ replay \in Seq(Nat) /\ End \in Nat /\ Len(replay) \in Nat /\ counted \in Nat
        /\ counted + 1 - Len(replay) = 0
    BY <1>2, <1>3, Numbers, Counts DEF Shape, Position
  <1> DEFINE f == Front(replay)
  <1>6. f \in Seq(Nat) /\ Len(f) = counted /\ Follows(f, 0)
    BY <1>3, <1>5, RunFront
  <1>7. wire'.sent = (IF request.format = "wav" THEN <<0>> ELSE <<>>) \o f
    BY <1>1 DEF Header
  <1> HIDE DEF f
  <1>8. Len(wire'.sent) = engine.length + Lead' /\ Follows(wire'.sent, 0 - Lead')
    <2>1. CASE request.format = "wav"
      <3>1. <<0>> \in Seq(Nat) /\ Len(<<0>>) = 1 /\ Follows(<<0>>, 0 - 1) /\ (0 - 1) + 1 = 0 /\ 0 - 1 \in Int
        BY RunOne
      <3>2. Follows(f, (0 - 1) + Len(<<0>>))
        BY <3>1, <1>6
      <3>3. Len(<<0>> \o f) = Len(<<0>>) + Len(f) /\ Follows(<<0>> \o f, 0 - 1)
        BY <3>1, <3>2, <1>6, RunJoined
      <3>4. Lead' = 1
        BY <2>1, <1>1 DEF Lead
      <3> QED
        BY <2>1, <3>1, <3>3, <3>4, <1>7, <1>6, <1>3, <1>5
    <2>2. CASE request.format # "wav"
      <3>1. <<>> \o f = f
        BY <1>6
      <3>2. Lead' = 0
        BY <2>2, <1>1 DEF Lead
      <3> QED
        BY <2>2, <3>1, <3>2, <1>7, <1>6, <1>3, <1>5
    <2> QED
      BY <2>1, <2>2
  <1>9. Lead' = Lead /\ Lead \in Nat /\ out' = <<>> /\ Len(out') = 0
    BY <1>1, <1>2 DEF Lead
  <1>10. Handed' = engine.length + Lead
    BY <1>8, <1>9, <1>4 DEF Handed
  <1>11. Follows(out', Len(wire'.sent) - Lead')
    <2>1. Len(wire'.sent) - Lead' \in Int
      BY <1>8, <1>9, <1>4
    <2> QED
      BY <2>1, <1>9, RunEmpty
  <1>12. task' \notin Waiting /\ ~request'.stream
    BY <1>1, <1>2 DEF Waiting
  <1>13. SentInv'
    BY <1>1, <1>4, <1>8, <1>9, <1>10, <1>11, <1>12 DEF SentInv
  <1> QED
    BY <1>13, <1>10, <1>3

LEMMA ReadSent ==
  ASSUME Shape, TaskInv, PcmInv, EncoderInv, SentInv, PipeInv, ReadBlock
  PROVE  SentInv'
  <1>1. /\ pipe.out # <<>> /\ UNCHANGED <<request, engine, ffmpeg, wire>> /\ out' = Append(out, Head(pipe.out))
    BY DEF ReadBlock, pcmVars
  <1>2. ffmpeg.at # "off" /\ Encodes
    BY <1>1 DEF EncoderInv
  <1>3. Lead = 0 /\ Lead' = 0 /\ Encodes'
    BY <1>1, <1>2 DEF Lead, Encodes
  <1> DEFINE h == Handed
  <1>4. /\ h \in Nat /\ h = Len(wire.sent) + Len(out) /\ Encoded = h + Len(pipe.out) /\ Encoded <= engine.made
        /\ pipe.out \in Seq(Nat) /\ out \in Seq(Nat) /\ Len(pipe.out) \in Nat /\ Len(pipe.out) > 0
        /\ Follows(pipe.out, h) /\ engine.made \in Nat /\ Len(wire.sent) \in Nat /\ Len(out) \in Nat
    BY <1>1, <1>2, Counts, FieldShape, LengthZero DEF PipeInv, Shape
  <1>5. Head(pipe.out) = h + 1 /\ Head(pipe.out) \in Nat
    <2> HIDE DEF h
    <2> QED
      BY <1>1, <1>4, RunTail
  <1>6. Len(wire.sent) \in Int /\ Follows(wire.sent, 0) /\ Follows(out, Len(wire.sent))
    BY <1>3, <1>4 DEF SentInv
  <1> DEFINE n == Len(wire.sent)
             m == Head(pipe.out)
  <1>7. n \in Int /\ m \in Nat /\ m = n + Len(out) + 1 /\ Follows(out, n) /\ out' = Append(out, m)
    BY <1>1, <1>4, <1>5, <1>6
  <1> HIDE DEF n, m
  <1>8. Len(out') = Len(out) + 1 /\ Follows(out', n)
    BY <1>7, <1>4, RunAppend
  <1>9. Handed' = h + 1
    <2> DEFINE w == Len(wire.sent)
               o == Len(out)
               more == Len(out')
    <2>1. Handed' = w + more
      BY <1>1 DEF Handed
    <2>2. h = w + o /\ more = o + 1 /\ w \in Nat /\ o \in Nat
      BY <1>4, <1>8
    <2> HIDE DEF h, w, o, more
    <2> QED
      BY <2>1, <2>2
  <1>10. Handed' <= engine'.made
    <2>1. engine'.made = engine.made
      BY <1>1
    <2> HIDE DEF h
    <2>2. h + 1 <= engine.made
      <3> DEFINE l == Len(pipe.out)
                 e == engine.made
      <3>1. h \in Nat /\ l \in Nat /\ l > 0 /\ h + l <= e /\ e \in Nat
        BY <1>4
      <3> HIDE DEF l, e
      <3>2. h + 1 <= e
        BY <3>1
      <3> QED
        BY <3>2 DEF e
    <2> QED
      BY <2>1, <2>2, <1>9
  <1>11. Follows(out', Len(wire'.sent) - Lead')
    BY <1>1, <1>3, <1>4, <1>8 DEF n
  <1>12. Follows(wire'.sent, 0 - Lead')
    BY <1>1, <1>3, <1>6
  <1>13. Handed' <= engine'.made + Lead'
    BY <1>3, <1>10, <1>1, <1>4
  <1> QED
    BY <1>1, <1>2, <1>3, <1>11, <1>12, <1>13 DEF SentInv

LEMMA EndedSent ==
  ASSUME Shape, TaskInv, SentInv, EncoderEnds
  PROVE  SentInv'
  <1>1. /\ Encodes /\ Exited /\ out' = <<>> /\ UNCHANGED <<request, engine, ffmpeg>>
        /\ \/ task \in {"encoder", "encodeAll"} /\ Refuse
           \/ task = "pull" /\ Abort
           \/ task = "pull" /\ EndOfBody
           \/ task = "encodeAll" /\ Reply(out)
    BY EncoderEndsDoes DEF pcmVars, encoderVars
  <1>2. Lead = 0 /\ Lead' = 0 /\ Encodes'
    BY <1>1 DEF Lead, Encodes
  <1>3. /\ Handed \in Nat /\ Handed = Len(wire.sent) + Len(out) /\ engine.made \in Nat
        /\ Len(wire.sent) \in Nat /\ Len(out) \in Nat /\ Len(out') = 0
    BY <1>1, Counts
  <1>4. Follows(wire'.sent, 0) /\ Len(wire'.sent) \in Nat /\ Len(wire'.sent) <= Handed
    <2>1. CASE wire'.sent = wire.sent
      BY <2>1, <1>2, <1>3 DEF SentInv
    <2>2. CASE task = "encodeAll" /\ Reply(out)
      <3>1. wire'.sent = out /\ wire.sent = <<>> /\ Len(wire.sent) = 0
        BY <2>2 DEF Reply, TaskInv, Waiting
      <3> QED
        BY <3>1, <1>2, <1>3 DEF SentInv
    <2> QED
      BY <1>1, <2>1, <2>2, WireMoves DEF WireIs, Shape, EndOfBody
  <1>5. Handed' <= engine.made
    BY <1>2, <1>3, <1>4 DEF SentInv, Handed
  <1>6. Follows(out', Len(wire'.sent) - Lead')
    <2>1. Len(wire'.sent) - Lead' \in Int
      BY <1>2, <1>4
    <2> QED
      BY <2>1, <1>1, RunEmpty
  <1>7. ffmpeg'.at # "off"
    BY <1>1 DEF Exited
  <1> QED
    BY <1>1, <1>2, <1>3, <1>4, <1>5, <1>6, <1>7 DEF SentInv

LEMMA SendSent ==
  ASSUME Shape, SentInv, Send
  PROVE  SentInv' /\ Len(wire'.sent) = Len(wire.sent) + Len(out)
  <1>1. /\ task = "send" /\ task' = "pull" /\ out' = <<>>
        /\ UNCHANGED <<request, engine, counted>>
        /\ wire'.sent = wire.sent \o out
    BY WireMoves DEF Send, WireIs, Shape, pcmVars
  <1>2. /\ Lead \in Nat /\ wire.sent \in Seq(Nat) /\ out \in Seq(Nat) /\ Handed \in Nat
        /\ Handed = Len(wire.sent) + Len(out) /\ Len(wire.sent) \in Nat /\ Len(out) \in Nat
    BY Counts, FieldShape DEF Lead, Shape
  <1>3. Lead' = Lead /\ Encodes' = Encodes
    BY <1>1 DEF Lead, Encodes
  <1> DEFINE n == 0 - Lead
             s == wire.sent
  <1>4. /\ n \in Int /\ s \in Seq(Nat) /\ Follows(s, n) /\ Follows(out, n + Len(s)) /\ out \in Seq(Nat)
    <2>1. Len(s) \in Nat /\ Lead \in Nat
      BY <1>2
    <2>2. n + Len(s) = Len(s) - Lead /\ n \in Int
      <3> DEFINE k == Len(s)
      <3>1. k \in Nat
        BY <2>1
      <3> HIDE DEF k, s
      <3>2. n + k = k - Lead /\ n \in Int
        BY <3>1, <2>1
      <3> QED
        BY <3>2 DEF k
    <2>3. Follows(s, n) /\ Follows(out, Len(s) - Lead)
      BY DEF SentInv
    <2>4. Follows(out, n + Len(s))
      BY <2>2, <2>3
    <2> QED
      BY <1>2, <2>2, <2>3, <2>4
  <1>5. wire'.sent = s \o out
    BY <1>1
  <1> HIDE DEF n, s
  <1>6. Len(wire'.sent) = Len(s) + Len(out) /\ Follows(wire'.sent, n)
    BY <1>4, <1>5, RunJoined
  <1>7. Len(wire'.sent) = Handed /\ Handed' = Handed
    <2>1. Len(wire'.sent) = Handed
      BY <1>6, <1>2 DEF s
    <2>2. Len(out') = 0
      BY <1>1
    <2> QED
      BY <2>1, <2>2, <1>2 DEF Handed
  <1>8. Follows(out', Len(wire'.sent) - Lead')
    <2>1. Len(wire'.sent) - Lead' \in Int
      BY <1>2, <1>3, <1>7
    <2> QED
      BY <2>1, <1>1, RunEmpty
  <1>9. Follows(wire'.sent, 0 - Lead')
    BY <1>3, <1>6 DEF n
  <1>10. SentInv'
    BY <1>1, <1>3, <1>7, <1>8, <1>9 DEF SentInv, Waiting, Streaming
  <1> QED
    BY <1>10, <1>6 DEF s

LEMMA PulledSent ==
  ASSUME Shape, TaskInv, PcmInv, SentInv, PullPlain
  PROVE  SentInv'
  <1>1. /\ task = "pull" /\ ~Encodes /\ Take /\ Available /\ UNCHANGED <<request, engine>>
        /\ request.stream /\ out = <<>> /\ Len(out) = 0
    BY PullPlainDoes DEF Take, TaskInv
  <1>2. Reads
    BY <1>1 DEF Reads
  <1>3. /\ Lead \in Nat /\ Lead' = Lead /\ counted \in Nat /\ Len(wire.sent) \in Nat
        /\ engine.made \in Nat /\ Handed = Len(wire.sent) + Len(out) /\ Encodes' = Encodes
    BY <1>1, Counts DEF Lead, Shape, Encodes
  <1>4. Len(wire.sent) = counted + Lead
    BY <1>1, <1>3 DEF SentInv, Streaming
  <1>5. CASE IsChunk(Item)
    <2>1. task' = "send" /\ out' = <<Item>> /\ UNCHANGED wire
      BY <1>5, PullPlainDoes, Numbers
    <2>2. Item = counted + 1 /\ Item <= engine.made /\ counted' = counted + 1
      <3>1. Item = Position + 1 /\ Item <= engine.made
        BY <1>1, <1>2, <1>5, WhatIsNext
      <3>2. counted' = counted + 1
        BY <1>1, <1>5 DEF Take
      <3>3. Position = counted
        BY <1>1 DEF Position
      <3> QED
        BY <3>1, <3>2, <3>3
    <2> DEFINE n == Len(wire.sent) - Lead
               m == Item
    <2>3. n \in Int /\ m \in Nat /\ m = n + 1
      BY <2>2, <1>3, <1>4
    <2>6. out' = <<m>>
      BY <2>1
    <2> HIDE DEF n, m
    <2>4. Len(out') = 1 /\ Follows(out', n)
      BY <2>3, <2>6, RunOne
    <2>5. Handed' = counted' + Lead
      BY <2>1, <2>2, <2>4, <1>3, <1>4 DEF Handed
    <2>7. Handed' <= engine'.made + Lead'
      BY <2>2, <2>5, <1>1, <1>3
    <2> QED
      BY <2>1, <2>4, <2>5, <2>7, <1>1, <1>3 DEF SentInv, Waiting, n
  <1>6. CASE ~IsChunk(Item)
    <2>1. UNCHANGED out /\ (EndOfBody \/ Abort)
      BY <1>6, PullPlainDoes
    <2>2. wire'.sent = wire.sent
      BY <2>1, WireMoves DEF WireIs, Shape, EndOfBody
    <2>3. counted' = counted /\ task' \in {"end", "returned"}
      BY <1>1, <1>6, <2>1 DEF Take, EndOfBody, Abort
    <2> QED
      BY <1>1, <1>3, <2>1, <2>2, <2>3, SentLeft DEF Waiting, Streaming
  <1> QED
    BY <1>5, <1>6

LEMMA SentKept ==
  ASSUME Shape, TaskInv, PcmInv, EncoderInv, SentInv, PipeInv, [AnswerStep]_vars
  PROVE  SentInv'
  <1> USE DEF Waiting, Streaming
  <1>c. engine.made \in Nat /\ engine \in EngineShape /\ ffmpeg \in EncoderShape
    BY Counts DEF Shape
  <1>1. CASE Make \/ Exhausted \/ EngineRaises \/ Put \/ ThreadGone
    <2>1. UNCHANGED <<request, encoderVars, task, out, wire, counted>>
      BY <1>1 DEF Make, Exhausted, EngineRaises, Put, ThreadGone, answerVars
    <2>2. engine'.made = engine.made \/ engine'.made = engine.made + 1
      BY <1>1, <1>c, EngineMoves DEF EngineIs
    <2> QED
      BY <2>1, <2>2, <1>c, SentLeft DEF encoderVars
  <1>2. CASE \/ FeederWrites \/ FeederCloses \/ EncoderReads \/ EncoderComplains
             \/ EncoderWrites \/ EncoderExits \/ EncoderDies \/ DrainStderr \/ Drain \/ UNCHANGED vars
    <2>1. UNCHANGED <<request, engine, counted, task, out, wire>>
      BY <1>2 DEF FeederWrites, FeederCloses, EncoderReads, EncoderComplains, EncoderWrites, EncoderExits,
                  EncoderDies, DrainStderr, Drain, vars, answerVars, pcmVars
    <2>2. ffmpeg'.at = "off" => ffmpeg.at = "off"
      BY <1>2, <1>c, EncoderMoves DEF EncoderIs, FeederWrites, FeederCloses, DrainStderr, Drain, vars, encoderVars
    <2> QED
      BY <2>1, <2>2, <1>c, SentLeft
  <1>3. CASE FeederPulls
    <2>1. UNCHANGED <<request, engine, task, out, wire, ffmpeg>> /\ feeder.at = "pulling"
      BY <1>3 DEF FeederPulls, Take, answerVars
    <2>2. Encodes
      BY <2>1 DEF EncoderInv
    <2> QED
      BY <2>1, <2>2, <1>c, SentLeft
  <1>4. CASE Prime \/ Collect
    <2>1. /\ UNCHANGED <<request, engine, out, ffmpeg>> /\ task \in {"prime", "collect"}
          /\ UNCHANGED wire \/ Refuse
          /\ task' \in {"encoder", "collect", "encodeAll", "returned"}
      BY <1>4 DEF Prime, PullFirst, Collect, encoderVars, Refuse
    <2>2. wire'.sent = wire.sent
      BY <2>1, WireMoves DEF WireIs, Shape
    <2> QED
      BY <2>1, <2>2, <1>c, SentLeft
  <1>5. CASE StartEncoder
    <2>1. /\ UNCHANGED <<request, engine, out, counted>> /\ task \in {"encoder", "encodeAll"}
          /\ (UNCHANGED <<task, wire>> /\ ffmpeg' = [ffmpeg EXCEPT !.at = "reading"]) \/ Refuse
      BY <1>5 DEF StartEncoder
    <2>2. wire'.sent = wire.sent
      BY <2>1, WireMoves DEF WireIs, Shape
    <2>3. task' \in Waiting => ffmpeg'.at # "off"
      BY <2>1, <1>c DEF Refuse, EncoderShape
    <2>4. task' \notin Streaming
      BY <2>1 DEF Refuse
    <2> QED
      BY <2>1, <2>2, <2>3, <2>4, <1>c, SentLeft
  <1>6. CASE Start \/ Finish \/ CloseBody \/ CloseStreams \/ HangUpReading \/ HangUpSending
    <2>1. /\ UNCHANGED <<request, engine, out, counted>> /\ task \in Streaming
          /\ task' \in Streaming \cup {"returned"}
      BY <1>6 DEF Start, Finish, CloseBody, CloseStreams, CancelTasks, HangUpReading, HangUpSending, pcmVars
    <2>2. wire'.sent = wire.sent
      BY <1>6, WireMoves DEF WireIs, Shape, CloseBody, CloseStreams
    <2> QED
      BY <2>1, <2>2, <1>c, SentLeft
  <1>7. CASE PrimeEncoded
    BY <1>7, PrimedSent
  <1>8. CASE ReplyPlain
    BY <1>8, RepliedSent
  <1>9. CASE ReadBlock
    BY <1>9, ReadSent
  <1>10. CASE EncoderEnds
    BY <1>10, EndedSent
  <1>11. CASE Send
    BY <1>11, SendSent
  <1>12. CASE PullPlain
    BY <1>12, PulledSent
  <1> QED
    BY <1>1, <1>2, <1>3, <1>4, <1>5, <1>6, <1>7, <1>8, <1>9, <1>10, <1>11, <1>12
       DEF AnswerStep, Works, Breaks, HangsUp

-----------------------------------------------------------------------------
(* A good end is all of it.                                                *)

LEMMA WellEnded ==
  ASSUME Shape, TaskInv, EndsWell
  PROVE  task \in {"end", "returned"} /\ (task = "end" <=> wire.ending \notin {"trailer", "whole"})
  BY DEF Shape, TaskInv, EndsWell, Places, Waiting, Streaming

LEMMA WholeStays ==
  ASSUME Shape, WholeInv, EndsWell, UNCHANGED <<request, ffmpeg, feeder, counted, Handed>>,
         EngineDone => EngineDone', engine'.length = engine.length,
         task' # "end" => wire'.duration = counted
  PROVE  WholeInv'
  BY DEF WholeInv, Lead

(* A stream ends well where its encoder did, or its PCM.                   *)
LEMMA PlainIsWhole ==
  ASSUME Shape, TaskInv, PcmInv, EncoderInv, SentInv, PullPlain, ~IsChunk(Item), EndOfBody, UNCHANGED out
  PROVE  WholeInv'
  <1>1. /\ task = "pull" /\ ~Encodes /\ Take /\ Available /\ UNCHANGED <<request, engine, encoderVars, wire>>
        /\ request.stream /\ task' = "end"
    BY PullPlainDoes DEF Take, TaskInv, EndOfBody
  <1>2. Reads
    BY <1>1 DEF Reads
  <1>3. Item = End
    BY <1>1, PullPlainDoes DEF Abort, EndOfBody
  <1>4. EngineDone /\ counted = engine.length
    BY <1>1, <1>2, <1>3, WhatIsNext, Numbers
  <1>5. counted' = counted
    BY <1>1 DEF Take
  <1>6. ffmpeg.at = "off" /\ feeder.at = "off" /\ ~feeder.upstream
    BY <1>1 DEF EncoderInv
  <1>7. Handed = counted + Lead /\ Handed' = Handed /\ Lead' = Lead /\ EngineDone'
    BY <1>1, <1>4 DEF SentInv, Streaming, Handed, Lead, EngineDone, Told
  <1> QED
    BY <1>1, <1>4, <1>5, <1>6, <1>7 DEF WholeInv, encoderVars

LEMMA EncodedIsWhole ==
  ASSUME Shape, TaskInv, PipeInv, EncoderEnds, EndsWell'
  PROVE  WholeInv'
  <1>1. /\ Encodes /\ Exited /\ pipe.out = <<>> /\ feeder.at = "done"
        /\ out' = <<>> /\ UNCHANGED <<request, pcmVars, encoderVars>>
        /\ task \in {"encoder", "encodeAll", "pull"}
    BY EncoderEndsDoes DEF EncoderEnds
  <1>2. /\ ~feeder.upstream /\ ffmpeg.at # "failed"
        /\ (task = "pull" /\ EndOfBody) \/ (task = "encodeAll" /\ Reply(out))
    <2>1. Refuse \/ Abort => task' = "returned" /\ wire'.ending \in {wire.ending, "aborted"}
      BY WireMoves DEF WireIs, Shape, Refuse, Abort
    <2>2. wire.ending = "none"
      BY <1>1 DEF TaskInv, Waiting
    <2>3. ~Refuse /\ ~Abort
      BY <2>1, <2>2 DEF EndsWell
    <2> QED
      BY <2>3, EncoderEndsDoes
  <1>3. ffmpeg.at = "ok"
    BY <1>1, <1>2 DEF Exited
  <1>4. Lead = 0 /\ Lead' = 0
    BY <1>1 DEF Lead, Encodes
  <1>5. /\ Handed \in Nat /\ Handed = Len(wire.sent) + Len(out) /\ Encoded = Handed + Len(pipe.out)
        /\ Len(wire.sent) \in Nat /\ Len(out) \in Nat /\ Len(pipe.out) = 0 /\ Len(out') = 0
    BY <1>1, Counts
  <1>6. ~ffmpeg.early => EngineDone /\ counted = engine.length /\ Handed = engine.length
    BY <1>1, <1>2, <1>3, <1>5 DEF PipeInv
  <1>7. Handed' = Handed /\ (task' # "end" => wire'.duration = counted)
    <2>1. CASE task = "pull" /\ EndOfBody
      <3>1. UNCHANGED wire /\ task' = "end" /\ Len(out) = 0
        BY <2>1 DEF EndOfBody, TaskInv
      <3> QED
        BY <3>1, <1>5 DEF Handed
    <2>2. CASE task = "encodeAll" /\ Reply(out)
      <3>1. wire'.sent = out /\ wire'.duration = counted /\ wire.sent = <<>>
        BY <2>2 DEF Reply, TaskInv, Waiting
      <3>2. Len(wire.sent) = 0
        BY <3>1
      <3> QED
        BY <3>1, <3>2, <1>5 DEF Handed
    <2> QED
      BY <1>2, <2>1, <2>2
  <1> QED
    <2>1. ffmpeg'.early = ffmpeg.early /\ ffmpeg'.at = "ok" /\ feeder'.at = "done" /\ ~feeder'.upstream
          /\ counted' = counted /\ engine' = engine /\ EngineDone' = EngineDone
      BY <1>1, <1>2, <1>3 DEF pcmVars, encoderVars, EngineDone, Told
    <2>2. engine.length \in Nat
      BY Counts
    <2>3. ~ffmpeg'.early => EngineDone' /\ counted' = engine'.length /\ Handed' = engine'.length + Lead'
      BY <2>1, <2>2, <1>4, <1>6, <1>7
    <2> QED
      BY <2>1, <2>3, <1>7 DEF WholeInv

LEMMA ReplyIsWhole ==
  ASSUME Shape, TaskInv, PcmInv, EncoderInv, ReplyPlain
  PROVE  WholeInv'
  <1>1. Handed' = engine.length + Lead /\ EngineDone /\ counted = engine.length
    BY RepliedSent
  <1>2. /\ ~Encodes /\ wire'.duration = counted /\ UNCHANGED <<request, pcmVars, encoderVars>>
    BY DEF ReplyPlain, Reply
  <1>3. ffmpeg.at = "off" /\ feeder.at = "off" /\ ~feeder.upstream
    BY <1>2 DEF EncoderInv
  <1> QED
    BY <1>1, <1>2, <1>3 DEF WholeInv, pcmVars, encoderVars, EngineDone, Told, Lead

LEMMA WholeKept ==
  ASSUME Shape, TaskInv, PcmInv, EncoderInv, SentInv, PipeInv, WholeInv, [AnswerStep]_vars
  PROVE  WholeInv'
  <1>c. engine \in EngineShape /\ wire \in WireShape
    BY DEF Shape
  <1>1. CASE ReplyPlain
    BY <1>1, ReplyIsWhole
  <1>2. CASE EncoderEnds
    BY <1>2, EncodedIsWhole DEF WholeInv
  <1>3. CASE PullPlain
    <2>1. task = "pull" /\ wire.ending = "none"
      BY <1>3, PullPlainDoes DEF TaskInv
    <2>2. CASE ~IsChunk(Item) /\ EndOfBody /\ UNCHANGED out
      BY <1>3, <2>2, PlainIsWhole
    <2>3. CASE Abort
      <3>1. wire'.ending = "aborted" /\ task' = "returned"
        BY <2>3, <1>c, WireMoves DEF WireIs, Abort
      <3> QED
        BY <3>1 DEF WholeInv, EndsWell
    <2>4. CASE task' = "send" /\ UNCHANGED wire
      BY <2>1, <2>4 DEF WholeInv, EndsWell
    <2> QED
      BY <1>3, <2>2, <2>3, <2>4, PullPlainDoes
  <1>4. CASE Make \/ Exhausted \/ EngineRaises \/ Put \/ ThreadGone
    <2>1. UNCHANGED <<request, encoderVars, task, out, wire, counted>>
      BY <1>4 DEF Make, Exhausted, EngineRaises, Put, ThreadGone, answerVars
    <2>2. engine'.length = engine.length
      BY <1>4, <1>c, EngineMoves DEF EngineIs
    <2>3. EngineDone => EngineDone'
      <3>1. CASE ThreadGone
        BY <3>1, <1>c, EngineMoves DEF EngineIs, EngineDone, Told
      <3>2. CASE Make \/ Exhausted \/ EngineRaises \/ Put
        BY <3>2 DEF EngineDone, Told, Make, Exhausted, EngineRaises, Put
      <3> QED
        BY <1>4, <3>1, <3>2
    <2>4. EndsWell' = EndsWell /\ Handed' = Handed
      BY <2>1 DEF EndsWell, Handed
    <2>5. EndsWell /\ task' # "end" => wire'.duration = counted
      BY <2>1 DEF WholeInv
    <2> QED
      BY <2>1, <2>2, <2>3, <2>4, <2>5, WholeStays DEF WholeInv, encoderVars
  <1>5. CASE Drain \/ DrainStderr \/ UNCHANGED vars
    <2>1. UNCHANGED <<request, engine, ffmpeg, feeder, task, out, wire, counted>>
      BY <1>5 DEF Drain, DrainStderr, vars, answerVars, encoderVars, pcmVars
    <2>2. EndsWell' = EndsWell /\ Handed' = Handed /\ EngineDone' = EngineDone
      BY <2>1 DEF EndsWell, Handed, EngineDone, Told
    <2>3. EndsWell /\ task' # "end" => wire'.duration = counted
      BY <2>1 DEF WholeInv
    <2> QED
      BY <2>1, <2>2, <2>3, WholeStays DEF WholeInv
  <1>6. CASE \/ FeederPulls \/ FeederWrites \/ FeederCloses
             \/ EncoderReads \/ EncoderComplains \/ EncoderWrites \/ EncoderExits \/ EncoderDies
    <2>1. UNCHANGED <<task, wire>>
      BY <1>6 DEF FeederPulls, FeederWrites, FeederCloses, EncoderReads, EncoderComplains, EncoderWrites,
                  EncoderExits, EncoderDies, answerVars
    <2>2. ~EndsWell
      BY <1>6 DEF WholeInv, FeederPulls, FeederWrites, FeederCloses, EncoderReads, EncoderComplains,
                  EncoderWrites, EncoderExits, EncoderDies, Running
    <2> QED
      BY <2>1, <2>2 DEF WholeInv, EndsWell
  <1>7. CASE Finish
    <2>1. /\ task = "end" /\ task' = "returned" /\ UNCHANGED <<request, engine, ffmpeg, feeder, out, counted>>
      BY <1>7 DEF Finish, pcmVars, encoderVars
    <2>2. wire'.sent = wire.sent /\ wire'.ending = "trailer" /\ wire'.duration = counted
      BY <1>7, <1>c, WireMoves DEF WireIs
    <2>3. EndsWell /\ Handed' = Handed /\ EngineDone' = EngineDone
      BY <2>1, <2>2 DEF EndsWell, Handed, EngineDone, Told
    <2> QED
      BY <2>1, <2>2, <2>3, WholeStays
  <1>8. CASE HangUpSending \/ HangUpReading
    <2>1. wire'.ending = "gone" /\ task' # "end"
      BY <1>8, <1>c, WireMoves DEF WireIs, HangUpReading, HangUpSending
    <2> QED
      BY <2>1 DEF WholeInv, EndsWell
  <1>9. CASE \/ Prime \/ Collect \/ PrimeEncoded \/ StartEncoder \/ ReadBlock \/ Start \/ Send
             \/ CloseBody \/ CloseStreams
    <2>1. task \notin {"end", "returned"} /\ task' # "end"
      BY <1>9 DEF Prime, PullFirst, Collect, PrimeEncoded, StartEncoder, ReadBlock, Start, Send,
                  CloseBody, CloseStreams, Refuse
    <2>2. wire.ending \notin {"trailer", "whole"}
      BY <2>1, WellEnded DEF EndsWell
    <2>3. wire'.ending = wire.ending
      <3>1. CASE UNCHANGED wire \/ Refuse \/ Start \/ Send
        BY <3>1, <1>c, WireMoves DEF WireIs
      <3> QED
        BY <1>9, <3>1 DEF Prime, PullFirst, Collect, PrimeEncoded, StartEncoder, ReadBlock,
                          CloseBody, CloseStreams
    <2> QED
      BY <2>1, <2>2, <2>3 DEF WholeInv, EndsWell
  <1> QED
    BY <1>1, <1>2, <1>3, <1>4, <1>5, <1>6, <1>7, <1>8, <1>9 DEF AnswerStep, Works, Breaks, HangsUp

LEMMA AnswerKept ==
  ASSUME AnswerInv, [AnswerStep]_vars
  PROVE  AnswerInv'
  <1>1. Shape /\ TaskInv /\ SlotInv /\ PcmInv /\ SentInv /\ EncoderInv /\ PipeInv /\ WholeInv
    BY DEF AnswerInv, PcmInv
  <1>2. Shape'
    BY <1>1, ShapeKept
  <1>3. TaskInv' /\ SlotInv'
    BY <1>1, TaskKept
  <1>4. PcmInv'
    BY <1>1, PcmKept
  <1>5. SentInv'
    BY <1>1, SentKept
  <1>6. EncoderInv'
    BY <1>1, EncoderKept
  <1>7. PipeInv'
    BY <1>1, PipeKept
  <1>8. WholeInv'
    BY <1>1, WholeKept
  <1> QED
    BY <1>2, <1>3, <1>4, <1>5, <1>6, <1>7, <1>8 DEF AnswerInv, PcmInv

-----------------------------------------------------------------------------
(* What the worker's steps are to the core.                                *)

LEMMA WorkerLeavesWire ==
  ASSUME Shape, TaskInv, EncoderInv, Works \/ Breaks
  PROVE  /\ request' = request
         /\ task = "returned" => task' = task
         /\ wire.status = "ok" => wire'.status = "ok"
         /\ wire.ending # "none" => UNCHANGED wire
         /\ wire'.ending # "gone" \/ wire.ending = "gone"
         /\ UNCHANGED wire \/ wire'.sent = wire.sent \/ (~request.stream /\ wire.sent = <<>>)
  <1>c. wire \in WireShape
    BY DEF Shape
  <1>0. request' = request
    BY EncoderEndsDoes
       DEF Works, Breaks, Make, Exhausted, EngineRaises, Put, ThreadGone, Drain,
           Prime, PullFirst, Collect, PrimeEncoded, ReplyPlain, StartEncoder, FeederPulls, Take, FeederWrites,
           FeederCloses, EncoderReads, EncoderComplains, EncoderWrites, EncoderExits, EncoderDies,
           DrainStderr, ReadBlock, Start, PullPlain, Finish, CloseBody, CloseStreams
  <1>1. CASE \/ Make \/ Exhausted \/ EngineRaises \/ Put \/ ThreadGone \/ Drain \/ FeederPulls \/ FeederWrites
             \/ FeederCloses \/ EncoderReads \/ EncoderComplains \/ EncoderWrites \/ EncoderExits
             \/ EncoderDies \/ DrainStderr
    <2>1. UNCHANGED <<task, wire>>
      BY <1>1 DEF Make, Exhausted, EngineRaises, Put, ThreadGone, Drain, FeederPulls, FeederWrites,
                  FeederCloses, EncoderReads, EncoderComplains, EncoderWrites, EncoderExits,
                  EncoderDies, DrainStderr, answerVars
    <2> QED
      BY <1>0, <2>1
  <1>2. CASE PrimeEncoded \/ ReadBlock \/ CloseBody \/ CloseStreams
    <2>1. UNCHANGED wire /\ task # "returned"
      BY <1>2 DEF PrimeEncoded, ReadBlock, CloseBody, CloseStreams
    <2> QED
      BY <1>0, <2>1
  <1>3. CASE Prime \/ Collect \/ StartEncoder
    <2>1. task \in Waiting /\ (UNCHANGED wire \/ Refuse)
      BY <1>3 DEF Prime, PullFirst, Collect, StartEncoder, Waiting
    <2>2. wire.status = "none" /\ wire.ending = "none"
      BY <2>1 DEF TaskInv
    <2>3. Refuse => wire'.sent = wire.sent /\ wire'.ending = wire.ending
      BY <1>c, WireMoves DEF WireIs
    <2> QED
      BY <1>0, <2>1, <2>2, <2>3 DEF Waiting
  <1>4. CASE ReplyPlain \/ (EncoderEnds /\ Reply(out))
    <2>1. task = "encodeAll" /\ task' = "returned" /\ wire'.ending = "whole"
      BY <1>4, EncoderEndsDoes DEF ReplyPlain, Reply, TaskInv, EncoderEnds, EncoderVerdict, Refuse, Abort, EndOfBody
    <2>2. wire.status = "none" /\ wire.ending = "none" /\ ~request.stream /\ wire.sent = <<>>
      BY <2>1 DEF TaskInv, Waiting
    <2> QED
      BY <1>0, <2>1, <2>2
  <1>5. CASE EncoderEnds /\ ~Reply(out)
    <2>1. /\ task \in {"encoder", "encodeAll", "pull"}
          /\ \/ task \in {"encoder", "encodeAll"} /\ Refuse
             \/ task = "pull" /\ (Abort \/ EndOfBody)
      BY <1>5, EncoderEndsDoes DEF EncoderEnds
    <2>2. wire.ending = "none" /\ (task # "pull" => wire.status = "none")
      BY <2>1 DEF TaskInv, Waiting
    <2>3. /\ Refuse => wire'.sent = wire.sent /\ wire'.ending = wire.ending
          /\ Abort => wire'.sent = wire.sent /\ wire'.ending = "aborted" /\ wire'.status = wire.status
          /\ EndOfBody => UNCHANGED wire
      BY <1>c, WireMoves DEF WireIs, EndOfBody
    <2> QED
      BY <1>0, <2>1, <2>2, <2>3
  <1>6. CASE PullPlain
    <2>1. task = "pull" /\ (UNCHANGED wire \/ Abort)
      BY <1>6, PullPlainDoes DEF EndOfBody
    <2>2. wire.ending = "none"
      BY <2>1 DEF TaskInv
    <2>3. Abort => wire'.sent = wire.sent /\ wire'.ending = "aborted" /\ wire'.status = wire.status
      BY <1>c, WireMoves DEF WireIs
    <2> QED
      BY <1>0, <2>1, <2>2, <2>3
  <1>7. CASE Start \/ Finish
    <2>1. task \in {"start", "end"}
      BY <1>7 DEF Start, Finish
    <2>2. wire.ending = "none" /\ (Finish => wire.status = "ok")
      BY <1>7, <2>1 DEF TaskInv, Streaming, Finish
    <2>3. /\ wire'.sent = wire.sent
          /\ Start => wire'.status = "ok" /\ wire'.ending = wire.ending
          /\ Finish => wire'.status = wire.status /\ wire'.ending = "trailer"
      BY <1>7, <1>c, WireMoves DEF WireIs
    <2> QED
      BY <1>0, <1>7, <2>1, <2>2, <2>3
  <1> QED
    BY <1>1, <1>2, <1>3, <1>4, <1>5, <1>6, <1>7 DEF Works, Breaks

LEMMA HangingUp ==
  ASSUME Shape, TaskInv, HangsUp
  PROVE  /\ request' = request /\ wire.ending = "none" /\ wire'.ending = "gone" /\ wire.status = "ok"
         /\ wire'.status = wire.status /\ wire'.sent = wire.sent /\ task # "returned"
  <1>1. wire \in WireShape
    BY DEF Shape
  <1>2. task \in {"pull", "send", "end"} /\ request' = request
    BY DEF HangsUp, HangUpReading, HangUpSending
  <1>3. wire'.ending = "gone" /\ wire'.status = wire.status /\ wire'.sent = wire.sent
    BY <1>1, WireMoves DEF WireIs, HangsUp
  <1> QED
    BY <1>2, <1>3 DEF TaskInv, Streaming

(* An answer is over where it was refused, or ended and nobody hung up.    *)
LEMMA Answered ==
  ASSUME Shape, TaskInv, \/ wire.status = "refused"
                         \/ wire.ending \in {"trailer", "whole", "aborted"}
                         \/ ~request.stream /\ wire.status = "ok"
  PROVE  task = "returned" /\ (~request.stream /\ wire.status = "ok" => wire.ending = "whole")
  BY DEF Shape, Places, TaskInv, Waiting, Streaming

LEMMA LeadIs == Lead \in Nat /\ (0 - Lead) \in Int
  BY DEF Lead

LEMMA Relayed ==
  ASSUME Shape, DeliveryShape
  PROVE  /\ Len(reply.sent) \in Nat /\ Len(relay) \in Nat /\ Len(wire.sent) \in Nat /\ Hop \in Nat /\ Hop > 0
         /\ reply.sent \in Seq(Nat) /\ relay \in Seq(Nat) /\ wire.sent \in Seq(Nat)
  <1>1. reply.sent \in Seq(Nat) /\ relay \in Seq(Nat) /\ wire.sent \in Seq(Nat)
    BY FieldShape DEF DeliveryShape, ClientShape
  <1>2. Hop \in Nat /\ Hop > 0
    BY DeliveryAssumption
  <1> QED
    BY <1>1, <1>2, LengthZero

-----------------------------------------------------------------------------
(* The delivery.                                                           *)

FrontInv == DeliveryShape /\ CoreInv /\ RelayInv

LEMMA WorkerKeepsFront ==
  ASSUME AnswerInv, FrontInv, WorkerGoesOn \/ WorkerBreaks, Shape'
  PROVE  FrontInv'
  <1>1. Shape /\ TaskInv /\ EncoderInv /\ (Works \/ Breaks) /\ UNCHANGED deliveryVars
    BY DEF AnswerInv, WorkerGoesOn, WorkerBreaks
  <1>2. /\ request' = request
        /\ task = "returned" => task' = task
        /\ wire.status = "ok" => wire'.status = "ok"
        /\ wire.ending # "none" => UNCHANGED wire
        /\ wire'.ending # "gone" \/ wire.ending = "gone"
        /\ UNCHANGED wire \/ wire'.sent = wire.sent \/ (~request.stream /\ wire.sent = <<>>)
    BY <1>1, WorkerLeavesWire
  <1>3. DeliveryShape'
    BY <1>1 DEF FrontInv, DeliveryShape, deliveryVars
  <1>4. CoreInv'
    BY <1>1, <1>2 DEF FrontInv, CoreInv, deliveryVars
  <1>5. Len(wire'.sent) \in Nat
    BY LengthZero DEF Shape, WireShape
  <1>6. Len(reply.sent) \in Nat /\ Len(relay) \in Nat
    BY <1>1, Relayed DEF FrontInv
  <1>7. Len(reply.sent) + Len(relay) <= Len(wire'.sent)
    <2>1. CASE wire'.sent = wire.sent
      BY <2>1 DEF FrontInv, RelayInv
    <2>2. CASE wire.sent = <<>>
      <3>1. Len(wire.sent) = 0 /\ Len(reply.sent) + Len(relay) <= Len(wire.sent)
        BY <2>2 DEF FrontInv, RelayInv
      <3> DEFINE a == Len(reply.sent)
                 b == Len(relay)
                 c == Len(wire'.sent)
      <3>2. a \in Nat /\ b \in Nat /\ c \in Nat /\ a + b <= 0
        BY <3>1, <1>5, <1>6
      <3> HIDE DEF a, b, c
      <3>3. a + b <= c
        BY <3>2
      <3> QED
        BY <3>3 DEF a, b, c
    <2> QED
      BY <1>2, <2>1, <2>2
  <1>8. Lead' = Lead
    BY <1>2 DEF Lead
  <1>9. Follows(reply'.sent, 0 - Lead') /\ Follows(relay', Len(reply'.sent) - Lead')
    BY <1>1, <1>8 DEF FrontInv, RelayInv, deliveryVars
  <1>10. request'.stream /\ core' # "over" => Len(reply'.sent) + Len(relay') = Len(wire'.sent)
    BY <1>1, <1>2 DEF FrontInv, RelayInv, deliveryVars
  <1>11. reply'.ending \in {"trailer", "whole"} =>
           /\ wire'.ending = reply'.ending /\ reply'.sent = wire'.sent /\ Len(reply'.sent) >= Floor
           /\ reply'.duration = wire'.duration
    BY <1>1, <1>2 DEF FrontInv, RelayInv, deliveryVars
  <1>12. RelayInv'
    BY <1>1, <1>7, <1>9, <1>10, <1>11 DEF RelayInv, deliveryVars
  <1> QED
    BY <1>3, <1>4, <1>12 DEF FrontInv

LEMMA SendKeepsFront ==
  ASSUME AnswerInv, FrontInv, WorkerSends
  PROVE  FrontInv'
  <1>1. Shape /\ TaskInv /\ SentInv /\ Send /\ UNCHANGED <<core, link, listens, reply, returned>>
    BY DEF AnswerInv, WorkerSends
  <1>2. /\ task = "send" /\ task' = "pull" /\ UNCHANGED request /\ request.stream
        /\ Len(out) = 1 /\ wire.ending = "none" /\ wire.status = "ok" /\ out \in Seq(Nat)
    BY <1>1 DEF Send, TaskInv, Streaming, Shape
  <1>3. wire'.sent = wire.sent \o out /\ wire'.ending = wire.ending /\ wire'.status = wire.status
    BY <1>1, WireMoves DEF WireIs, Shape
  <1>4. Len(wire'.sent) = Len(wire.sent) + 1
    BY <1>1, <1>2, SendSent
  <1>5. reply.ending \notin {"trailer", "whole"}
    BY <1>2 DEF FrontInv, RelayInv
  <1>6. Lead' = Lead
    BY <1>2 DEF Lead
  <1>7. /\ Len(reply.sent) \in Nat /\ Len(relay) \in Nat /\ Len(wire.sent) \in Nat /\ Hop \in Nat
        /\ relay \in Seq(Nat) /\ Lead \in Nat
    BY <1>1, Relayed, LeadIs DEF FrontInv
  <1>8. CASE link = "up"
    <2>1. core # "over" /\ relay' = relay \o out /\ Len(relay) < Hop
      BY <1>2, <1>8 DEF FrontInv, CoreInv, WorkerSends
    <2> DEFINE n == Len(reply.sent) - Lead
               a == Len(reply.sent)
               b == Len(relay)
               c == Len(wire.sent)
    <2>2. a + b = c
      BY <1>2, <2>1 DEF FrontInv, RelayInv
    <2>3. /\ Follows(relay, n) /\ Follows(out, c - Lead)
      BY <1>1 DEF FrontInv, RelayInv, SentInv
    <2>4. n \in Int /\ c - Lead = n + b
      <3>1. a \in Nat /\ b \in Nat /\ c \in Nat /\ Lead \in Nat /\ n = a - Lead
        BY <1>7
      <3>2. a + b = c
        BY <2>2
      <3> HIDE DEF a, b, c, n
      <3> QED
        BY <3>1, <3>2
    <2>5. Follows(out, n + Len(relay))
      BY <2>3, <2>4
    <2> HIDE DEF n
    <2>6. relay' \in Seq(Nat) /\ Len(relay') = b + 1 /\ Follows(relay', n)
      BY <1>2, <1>7, <2>1, <2>3, <2>4, <2>5, RunJoined
    <2>7. Len(relay') <= Hop
      <3>1. b \in Nat /\ b < Hop /\ Hop \in Nat
        BY <1>7, <2>1
      <3> HIDE DEF b
      <3> QED
        BY <3>1, <2>6
    <2>8. DeliveryShape'
      BY <1>1, <2>6, <2>7 DEF FrontInv, DeliveryShape
    <2>9. CoreInv'
      BY <1>1, <1>2, <1>3, <2>1 DEF FrontInv, CoreInv
    <2>10. Len(reply'.sent) + Len(relay') = Len(wire'.sent) /\ Len(wire'.sent) \in Nat
      <3> DEFINE d == Len(relay')
                 e == Len(wire'.sent)
      <3>1. a \in Nat /\ b \in Nat /\ c \in Nat /\ d = b + 1 /\ e = c + 1 /\ a + b = c /\ reply' = reply
        BY <1>1, <1>4, <1>7, <2>2, <2>6
      <3>2. Len(reply'.sent) = a
        BY <3>1
      <3> HIDE DEF a, b, c, d, e
      <3>3. Len(reply'.sent) + d = e /\ e \in Nat
        BY <3>1, <3>2
      <3> QED
        BY <3>3 DEF d, e
    <2>11. Len(reply'.sent) + Len(relay') <= Len(wire'.sent)
      BY <2>10
    <2>12. Follows(reply'.sent, 0 - Lead') /\ Follows(relay', Len(reply'.sent) - Lead')
      BY <1>1, <1>6, <2>6 DEF FrontInv, RelayInv, n
    <2>13. RelayInv'
      BY <1>1, <1>5, <2>10, <2>11, <2>12 DEF RelayInv
    <2> QED
      BY <2>8, <2>9, <2>13 DEF FrontInv
  <1>9. CASE link # "up"
    <2>1. relay' = relay /\ core = "over"
      BY <1>9 DEF WorkerSends, FrontInv, CoreInv
    <2>2. DeliveryShape' /\ CoreInv'
      BY <1>1, <1>2, <1>3, <1>9, <2>1 DEF FrontInv, DeliveryShape, CoreInv
    <2>3. Len(reply'.sent) + Len(relay') <= Len(wire'.sent)
      <3> DEFINE a == Len(reply.sent)
                 b == Len(relay)
                 c == Len(wire.sent)
                 e == Len(wire'.sent)
      <3>1. a \in Nat /\ b \in Nat /\ c \in Nat /\ e = c + 1 /\ a + b <= c
        BY <1>4, <1>7 DEF FrontInv, RelayInv
      <3> HIDE DEF a, b, c, e
      <3>2. a + b <= e
        BY <3>1
      <3> QED
        BY <3>2, <1>1, <2>1 DEF a, b, e
    <2>4. RelayInv'
      BY <1>1, <1>5, <1>6, <2>1, <2>3 DEF FrontInv, RelayInv
    <2> QED
      BY <2>2, <2>4 DEF FrontInv
  <1> QED
    BY <1>8, <1>9

LEMMA NoticeKeepsFront ==
  ASSUME AnswerInv, FrontInv, WorkerNotices
  PROVE  FrontInv'
  <1>1. Shape /\ TaskInv /\ HangsUp /\ link = "dropped" /\ UNCHANGED deliveryVars
    BY DEF AnswerInv, WorkerNotices
  <1>2. /\ request' = request /\ wire.ending = "none" /\ wire'.ending = "gone" /\ wire.status = "ok"
        /\ wire'.status = wire.status /\ wire'.sent = wire.sent
    BY <1>1, HangingUp
  <1>3. reply.ending \notin {"trailer", "whole"} /\ core = "over"
    BY <1>1, <1>2 DEF FrontInv, RelayInv, CoreInv
  <1>4. Lead' = Lead
    BY <1>2 DEF Lead
  <1>5. DeliveryShape' /\ CoreInv'
    BY <1>1, <1>2, <1>3 DEF FrontInv, DeliveryShape, CoreInv, deliveryVars
  <1>6. RelayInv'
    BY <1>1, <1>2, <1>3, <1>4 DEF FrontInv, RelayInv, deliveryVars
  <1> QED
    BY <1>5, <1>6 DEF FrontInv

(* What deliver settles on, however it comes to it.                        *)
LEMMA SettlingKeepsFront ==
  ASSUME AnswerInv, FrontInv, core # "over", NEW how \in {"up", "dropped", "dead"}, Settles(how),
         how = "up" => task = "returned",
         reply' \in ClientShape, Follows(reply'.sent, 0 - Lead), Len(reply'.sent) <= Len(wire.sent),
         reply'.status = "ok" => wire.status = "ok",
         ~request.stream => reply'.ending \in {"none", "whole"} /\ (reply'.status = "ok" => reply'.ending = "whole"),
         reply'.ending \in {"trailer", "whole"} =>
           /\ wire.ending = reply'.ending /\ reply'.sent = wire.sent /\ Len(reply'.sent) >= Floor
           /\ reply'.duration = wire.duration
  PROVE  FrontInv'
  <1>1. /\ core' = "over" /\ returned' = returned + 1 /\ relay' = <<>> /\ link' = how
        /\ UNCHANGED <<vars, listens>>
    BY DEF Settles, Returns
  <1>2. returned' = 1
    BY <1>1 DEF FrontInv, CoreInv
  <1>3. Len(relay') = 0 /\ relay' \in Seq(Nat) /\ Hop \in Nat
    BY <1>1, DeliveryAssumption
  <1>4. DeliveryShape'
    BY <1>1, <1>2, <1>3 DEF FrontInv, DeliveryShape
  <1>5. wire.ending # "gone"
    BY DEF FrontInv, CoreInv
  <1>6. CoreInv'
    BY <1>1, <1>2, <1>5 DEF CoreInv, vars
  <1>7. Lead' = Lead /\ Lead \in Nat
    BY <1>1, LeadIs DEF Lead, vars
  <1>8. reply'.sent \in Seq(Nat) /\ Len(reply'.sent) \in Nat
    BY LengthZero DEF ClientShape
  <1>9. Follows(relay', Len(reply'.sent) - Lead')
    <2>1. Len(reply'.sent) - Lead' \in Int
      BY <1>7, <1>8
    <2> QED
      BY <1>1, <2>1, RunEmpty
  <1>10. Len(reply'.sent) + Len(relay') <= Len(wire'.sent)
    <2>1. Len(reply'.sent) + Len(relay') = Len(reply'.sent)
      BY <1>3, <1>8
    <2> QED
      BY <1>1, <2>1 DEF vars
  <1>11. RelayInv'
    BY <1>1, <1>7, <1>9, <1>10 DEF RelayInv, vars
  <1> QED
    BY <1>4, <1>6, <1>11 DEF FrontInv

LEMMA FailingKeepsFront ==
  ASSUME AnswerInv, FrontInv, core # "over", NEW how \in {"up", "dropped", "dead"}, Fails(how),
         how = "up" => task = "returned"
  PROVE  FrontInv'
  <1>1. /\ Settles(how) /\ reply \in ClientShape /\ core \in {"asking", "relaying", "buffering"}
        /\ reply' = IF core = "relaying" THEN [reply EXCEPT !.ending = "aborted"]
                                         ELSE [reply EXCEPT !.status = "refused"]
    BY DEF Fails, FrontInv, DeliveryShape
  <1>2. /\ reply'.sent = reply.sent /\ reply' \in ClientShape
        /\ IF core = "relaying" THEN reply'.ending = "aborted" /\ reply'.status = reply.status
                                ELSE reply'.status = "refused" /\ reply'.ending = reply.ending
    <2>1. CASE core = "relaying"
      BY <1>1, <2>1 DEF ClientShape
    <2>2. CASE core # "relaying"
      BY <1>1, <2>2 DEF ClientShape
    <2> QED
      BY <2>1, <2>2
  <1>3. reply.ending = "none" /\ (core = "relaying" => request.stream /\ wire.status = "ok")
    BY DEF FrontInv, CoreInv
  <1>4. Follows(reply.sent, 0 - Lead) /\ Len(reply.sent) <= Len(wire.sent)
    <2> DEFINE a == Len(reply.sent)
               b == Len(relay)
               c == Len(wire.sent)
    <2>1. a \in Nat /\ b \in Nat /\ c \in Nat /\ a + b <= c
      BY Relayed DEF AnswerInv, FrontInv, RelayInv
    <2> HIDE DEF a, b, c
    <2>2. a <= c
      BY <2>1
    <2> QED
      BY <2>2 DEF FrontInv, RelayInv, a, c
  <1> QED
    BY <1>1, <1>2, <1>3, <1>4, SettlingKeepsFront

(* What is left of the connection is not up unless the worker has answered. *)
LEMMA Leaving ==
  ASSUME AnswerInv, FrontInv, core # "over"
  PROVE  Left \in {"up", "dropped", "dead"} /\ (Left = "up" => task = "returned")
  <1>1. Shape /\ TaskInv /\ link = "up" /\ wire.ending # "gone"
    BY DEF AnswerInv, FrontInv, CoreInv
  <1>2. wire.ending \in {"none", "trailer", "whole", "aborted", "gone"}
    BY <1>1, FieldShape
  <1>3. wire.ending # "none" \/ wire.status = "refused" => task = "returned"
    BY <1>1, <1>2, Answered
  <1> QED
    BY <1>1, <1>3 DEF Left

LEMMA RelaysKeepsFront ==
  ASSUME AnswerInv, FrontInv, Relays
  PROVE  FrontInv'
  <1>1. /\ core = "relaying" /\ relay # <<>> /\ relay' = Tail(relay)
        /\ reply' = [reply EXCEPT !.sent = Append(reply.sent, Head(relay))]
        /\ UNCHANGED <<vars, core, link, listens, returned>> /\ reply \in ClientShape
    BY DEF Relays, FrontInv, DeliveryShape
  <1>2. /\ reply'.sent = Append(reply.sent, Head(relay)) /\ reply'.status = reply.status
        /\ reply'.ending = reply.ending /\ reply'.duration = reply.duration
    BY <1>1 DEF ClientShape
  <1>3. /\ Len(reply.sent) \in Nat /\ Len(relay) \in Nat /\ Len(wire.sent) \in Nat /\ Hop \in Nat
        /\ reply.sent \in Seq(Nat) /\ relay \in Seq(Nat) /\ Lead \in Nat
    BY Relayed, LeadIs DEF AnswerInv, FrontInv
  <1> DEFINE n == Len(reply.sent) - Lead
             l == 0 - Lead
             m == Head(relay)
  <1>4. n \in Int /\ l \in Int /\ Follows(relay, n) /\ Follows(reply.sent, l)
    BY <1>3 DEF FrontInv, RelayInv
  <1>n. n = l + Len(reply.sent)
    <2> DEFINE a == Len(reply.sent)
    <2>1. a \in Nat /\ n = a - Lead /\ l = 0 - Lead /\ Lead \in Nat
      BY <1>3
    <2> HIDE DEF a, n, l
    <2>2. n = l + a
      BY <2>1
    <2> QED
      BY <2>2 DEF a
  <1>r. relay' = Tail(relay) /\ reply'.sent = Append(reply.sent, m)
    BY <1>1, <1>2
  <1> HIDE DEF n, l
  <1>5. m = n + 1 /\ m \in Nat /\ relay' \in Seq(Nat) /\ Len(relay') = Len(relay) - 1 /\ Follows(relay', n + 1)
    BY <1>1, <1>3, <1>4, RunTail
  <1>6. m = l + Len(reply.sent) + 1
    BY <1>5, <1>n
  <1> HIDE DEF m
  <1>7. /\ reply'.sent \in Seq(Nat) /\ Len(reply'.sent) = Len(reply.sent) + 1 /\ Follows(reply'.sent, l)
    BY <1>3, <1>4, <1>5, <1>6, <1>r, RunAppend
  <1>8. Len(reply'.sent) + Len(relay') = Len(reply.sent) + Len(relay) /\ Len(reply'.sent) - Lead = n + 1
        /\ Len(relay') <= Hop
    <2> DEFINE a == Len(reply.sent)
               b == Len(relay)
               c == Len(reply'.sent)
               d == Len(relay')
    <2>1. a \in Nat /\ b \in Nat /\ Lead \in Nat /\ Hop \in Nat /\ c = a + 1 /\ d = b - 1 /\ b <= Hop
      BY <1>3, <1>5, <1>7 DEF FrontInv, DeliveryShape
    <2>2. n = l + a /\ l = 0 - Lead
      BY <1>n DEF l
    <2> HIDE DEF a, b, c, d
    <2>3. c + d = a + b /\ c - Lead = n + 1 /\ d <= Hop
      BY <2>1, <2>2
    <2> QED
      BY <2>3 DEF a, b, c, d
  <1>9. reply' \in ClientShape
    BY <1>1, <1>7 DEF ClientShape
  <1>10. DeliveryShape'
    BY <1>1, <1>5, <1>8, <1>9 DEF FrontInv, DeliveryShape
  <1>11. CoreInv'
    BY <1>1, <1>2 DEF FrontInv, CoreInv, vars
  <1>12. reply.ending = "none" /\ Lead' = Lead
    BY <1>1 DEF FrontInv, CoreInv, Lead, vars
  <1>13. Follows(reply'.sent, 0 - Lead') /\ Follows(relay', Len(reply'.sent) - Lead')
    BY <1>5, <1>7, <1>8, <1>12 DEF l
  <1>14. RelayInv'
    BY <1>1, <1>2, <1>8, <1>12, <1>13 DEF FrontInv, RelayInv, vars
  <1> QED
    BY <1>10, <1>11, <1>14 DEF FrontInv

LEMMA CoreKeepsFront ==
  ASSUME AnswerInv, FrontInv, CoreGoesOn \/ TimesOut \/ Leaves \/ Aborts \/ Dies
  PROVE  FrontInv'
  <1>0. Shape /\ TaskInv /\ SentInv /\ link \in {"up", "dropped", "dead"} /\ reply \in ClientShape
        /\ wire \in WireShape
    BY DEF AnswerInv, FrontInv, DeliveryShape, Shape
  <1>1. CASE Refused
    <2>1. core = "asking" /\ wire.status = "refused" /\ Fails(link)
      BY <1>1 DEF Refused
    <2>2. task = "returned"
      BY <1>0, <2>1, Answered
    <2> QED
      BY <1>0, <2>1, <2>2, FailingKeepsFront
  <1>2. CASE Headers
    <2>1. /\ core = "asking" /\ wire.status = "ok" /\ UNCHANGED <<vars, link, relay, listens, returned>>
          /\ \/ request.stream /\ core' = "relaying" /\ reply' = [reply EXCEPT !.status = "ok"]
             \/ ~request.stream /\ core' = "buffering" /\ reply' = reply
      BY <1>2 DEF Headers
    <2>2. /\ reply' \in ClientShape /\ reply'.sent = reply.sent /\ reply'.ending = reply.ending
          /\ reply'.status = (IF request.stream THEN "ok" ELSE reply.status)
      BY <1>0, <2>1 DEF ClientShape
    <2>3. DeliveryShape'
      BY <2>1, <2>2 DEF FrontInv, DeliveryShape
    <2>4. CoreInv'
      BY <2>1, <2>2 DEF FrontInv, CoreInv, vars
    <2>5. RelayInv'
      <3>1. Lead' = Lead /\ reply.ending = "none"
        BY <2>1 DEF Lead, vars, FrontInv, CoreInv
      <3> QED
        BY <2>1, <2>2, <3>1 DEF FrontInv, RelayInv, vars
    <2> QED
      BY <2>3, <2>4, <2>5 DEF FrontInv
  <1>3. CASE TimesOut
    <2>1. core = "asking" /\ Fails(Left)
      BY <1>3 DEF TimesOut
    <2> QED
      BY <2>1, Leaving, FailingKeepsFront
  <1>4. CASE Relays
    BY <1>4, RelaysKeepsFront
  <1>5. CASE RelayEnds
    <2>1. core = "relaying" /\ relay = <<>> /\ wire.ending = "trailer"
      BY <1>5 DEF RelayEnds
    <2>2. task = "returned"
      BY <1>0, <2>1, Answered
    <2>3. CASE Fails(link)
      BY <1>0, <2>1, <2>2, <2>3, FailingKeepsFront
    <2>4. CASE ~Fails(link)
      <3>1. /\ Enough(reply.sent) /\ Settles(link)
            /\ reply' = [reply EXCEPT !.ending = "trailer", !.duration = wire.duration]
        BY <1>5, <2>4 DEF RelayEnds
      <3>2. /\ reply' \in ClientShape /\ reply'.sent = reply.sent /\ reply'.ending = "trailer"
            /\ reply'.duration = wire.duration /\ reply'.status = reply.status
        BY <1>0, <3>1, FieldShape DEF ClientShape
      <3>3. request.stream /\ wire.status = "ok"
        BY <2>1 DEF FrontInv, CoreInv
      <3>4. Len(reply.sent) = Len(wire.sent)
        <4> DEFINE a == Len(reply.sent)
                   b == Len(relay)
                   c == Len(wire.sent)
        <4>1. a \in Nat /\ b = 0 /\ c \in Nat /\ a + b = c
          BY <1>0, <2>1, <3>3, Relayed DEF FrontInv, RelayInv
        <4> HIDE DEF a, b, c
        <4>2. a = c
          BY <4>1
        <4> QED
          BY <4>2 DEF a, c
      <3>5. reply.sent = wire.sent
        <4> DEFINE s == reply.sent
                   t == wire.sent
                   n == 0 - Lead
        <4>1. s \in Seq(Nat) /\ t \in Seq(Nat) /\ n \in Int /\ Follows(s, n) /\ Follows(t, n)
              /\ Len(s) = Len(t)
          BY <1>0, <3>4, Relayed, LeadIs DEF FrontInv, RelayInv, SentInv
        <4> HIDE DEF s, t, n
        <4>2. s = t
          BY <4>1, RunsAgree
        <4> QED
          BY <4>2 DEF s, t
      <3>6. Follows(reply.sent, 0 - Lead) /\ Len(reply.sent) >= Floor /\ Len(reply.sent) <= Len(wire.sent)
        BY <1>0, <3>1, <3>4, Relayed DEF FrontInv, RelayInv, Enough
      <3> QED
        BY <1>0, <2>1, <2>2, <3>1, <3>2, <3>3, <3>5, <3>6, SettlingKeepsFront
    <2> QED
      BY <2>3, <2>4
  <1>6. CASE RelayBreaks
    <2>1. core = "relaying" /\ wire.ending = "aborted" /\ Fails(link)
      BY <1>6 DEF RelayBreaks, Destroys
    <2>2. task = "returned"
      BY <1>0, <2>1, Answered
    <2> QED
      BY <1>0, <2>1, <2>2, FailingKeepsFront
  <1>7. CASE Buffered
    <2>1. core = "buffering" /\ ~request.stream /\ wire.status = "ok"
      BY <1>7 DEF Buffered, FrontInv, CoreInv
    <2>2. task = "returned" /\ wire.ending = "whole"
      BY <1>0, <2>1, Answered
    <2>3. CASE Fails(link)
      BY <1>0, <2>1, <2>2, <2>3, FailingKeepsFront
    <2>4. CASE ~Fails(link)
      <3>1. /\ Enough(wire.sent) /\ Settles(link)
            /\ reply' = [status |-> "ok", sent |-> wire.sent, ending |-> "whole", duration |-> wire.duration]
        BY <1>7, <2>4 DEF Buffered
      <3>2. reply' \in ClientShape
        BY <1>0, <3>1, FieldShape DEF ClientShape
      <3>3. Follows(wire.sent, 0 - Lead) /\ Len(wire.sent) >= Floor /\ Len(wire.sent) <= Len(wire.sent)
        BY <1>0, <3>1, Relayed DEF FrontInv, SentInv, Enough
      <3> QED
        BY <1>0, <2>1, <2>2, <3>1, <3>2, <3>3, SettlingKeepsFront
    <2> QED
      BY <2>3, <2>4
  <1>8. CASE RelayLeft
    <2>1. core = "relaying" /\ Fails(Left)
      BY <1>8 DEF RelayLeft, Destroys
    <2> QED
      BY <2>1, Leaving, FailingKeepsFront
  <1>9. CASE Leaves
    <2>1. listens' = FALSE /\ UNCHANGED <<vars, core, link, relay, reply, returned>>
      BY <1>9 DEF Leaves
    <2>2. DeliveryShape' /\ CoreInv'
      BY <2>1 DEF FrontInv, DeliveryShape, CoreInv, vars
    <2>3. RelayInv'
      BY <2>1 DEF FrontInv, RelayInv, vars, Lead
    <2> QED
      BY <2>2, <2>3 DEF FrontInv
  <1>10. CASE Aborts
    <2>1. core \in {"asking", "buffering"} /\ Fails(Left)
      BY <1>10 DEF Aborts
    <2> QED
      BY <2>1, Leaving, FailingKeepsFront
  <1>11. CASE Dies
    BY <1>11, FailingKeepsFront DEF Dies
  <1> QED
    BY <1>1, <1>2, <1>3, <1>4, <1>5, <1>6, <1>7, <1>8, <1>9, <1>10, <1>11 DEF CoreGoesOn

(* A step of the delivery is one of the answer, or leaves it alone.         *)
LEMMA DeliveryStep ==
  ASSUME [DeliveryNext]_everything
  PROVE  [AnswerStep]_vars
  <1>1. CASE WorkerGoesOn \/ WorkerBreaks \/ WorkerSends \/ WorkerNotices
    BY <1>1 DEF WorkerGoesOn, WorkerBreaks, WorkerSends, WorkerNotices, AnswerStep
  <1>2. CASE CoreGoesOn \/ TimesOut \/ Leaves \/ Aborts \/ Dies
    BY <1>2 DEF CoreGoesOn, Refused, Headers, TimesOut, Relays, RelayEnds, RelayBreaks, Destroys, Buffered,
                RelayLeft, Leaves, Aborts, Dies, Fails, Settles
  <1>3. CASE Stays \/ UNCHANGED everything
    BY <1>3 DEF Stays, everything
  <1> QED
    BY <1>1, <1>2, <1>3 DEF DeliveryNext

LEMMA DeliveryKept ==
  ASSUME IInv, [DeliveryNext]_everything
  PROVE  IInv'
  <1>1. AnswerInv /\ FrontInv
    BY DEF IInv, FrontInv
  <1>2. [AnswerStep]_vars
    BY DeliveryStep
  <1>3. AnswerInv'
    BY <1>1, <1>2, AnswerKept
  <1>4. FrontInv'
    <2>1. CASE WorkerGoesOn \/ WorkerBreaks
      BY <2>1, <1>1, <1>3, WorkerKeepsFront DEF AnswerInv
    <2>2. CASE WorkerSends
      BY <2>2, <1>1, SendKeepsFront
    <2>3. CASE WorkerNotices
      BY <2>3, <1>1, NoticeKeepsFront
    <2>4. CASE CoreGoesOn \/ TimesOut \/ Leaves \/ Aborts \/ Dies
      BY <2>4, <1>1, CoreKeepsFront
    <2>5. CASE Stays \/ UNCHANGED everything
      <3>1. UNCHANGED <<vars, deliveryVars>>
        BY <2>5 DEF Stays, everything
      <3>2. DeliveryShape' /\ CoreInv'
        BY <1>1, <3>1 DEF FrontInv, DeliveryShape, CoreInv, vars, deliveryVars
      <3>3. RelayInv'
        BY <1>1, <3>1 DEF FrontInv, RelayInv, Lead, vars, deliveryVars
      <3> QED
        BY <3>2, <3>3 DEF FrontInv
    <2> QED
      BY <2>1, <2>2, <2>3, <2>4, <2>5 DEF DeliveryNext
  <1> QED
    BY <1>3, <1>4 DEF IInv, FrontInv

-----------------------------------------------------------------------------
(* What is proved of it.                                                   *)

LEMMA DeliveryStarts ==
  ASSUME DeliveryInit
  PROVE  IInv
  <1>1. /\ engine.at = "making" /\ engine.made = 0 /\ engine.length \in 0..Most
        /\ engine.failed = FALSE /\ engine \in EngineShape
    <2>1. engine \in [at : {"making"}, made : {0}, length : 0..Most, failed : {FALSE}]
      BY DEF DeliveryInit, Init
    <2>2. /\ engine = [at |-> engine.at, made |-> engine.made,
                       length |-> engine.length, failed |-> engine.failed]
          /\ engine.at = "making" /\ engine.made = 0 /\ engine.length \in 0..Most
          /\ engine.failed = FALSE
      BY <2>1
    <2>3. engine.at \in {"making", "putting", "stopping", "exited", "gone"} /\ engine.made \in Nat
          /\ engine.length \in 0..Most
      BY <2>2
    <2>4. engine.failed \in BOOLEAN
      BY <2>2, Zenon
    <2>5. engine \in EngineShape
      BY <2>2, <2>3, <2>4 DEF EngineShape
    <2> QED
      BY <2>2, <2>5
  <1>2. /\ request \in [format : Formats, stream : BOOLEAN]
        /\ request.format \in Formats /\ request.stream \in BOOLEAN
        /\ queue = <<>> /\ source = "open" /\ replay = <<>> /\ counted = 0 /\ drainer = "off"
        /\ task = (IF request.stream THEN "prime" ELSE "collect") /\ out = <<>>
        /\ core = "asking" /\ link = "up" /\ relay = <<>> /\ listens = TRUE /\ returned = 0
    BY DEF DeliveryInit, Init
  <1>3. /\ feeder.at = "off" /\ feeder.hand = End /\ feeder.upstream = FALSE /\ feeder \in FeederShape
        /\ ffmpeg.at = "off" /\ ffmpeg.hand = End /\ ffmpeg.early = FALSE /\ ffmpeg \in EncoderShape
    <2>1. End \in Nat
      BY Numbers
    <2> QED
      BY <2>1 DEF DeliveryInit, Init, FeederShape, EncoderShape
  <1>4. /\ pipe.in = <<>> /\ pipe.open = TRUE /\ pipe.out = <<>> /\ pipe.err = 0 /\ pipe \in PipeShape
        /\ slot.released = FALSE /\ slot.free = 0 /\ slot \in SlotShape
    BY DEF DeliveryInit, Init, PipeShape, SlotShape
  <1>5. /\ wire.status = "none" /\ wire.sent = <<>> /\ wire.ending = "none" /\ wire.duration = -1
        /\ wire \in WireShape
    BY DEF DeliveryInit, Init, WireShape
  <1>6. /\ reply.status = "none" /\ reply.sent = <<>> /\ reply.ending = "none" /\ reply.duration = -1
        /\ reply \in ClientShape
    BY DEF DeliveryInit, Init, ClientShape
  <1>7. Lead \in Nat /\ Len(<<>>) = 0 /\ <<>> \in Seq(Nat) /\ \A n \in Int : Follows(<<>>, n)
    BY LeadIs, RunEmpty
  <1>8. Shape
    BY <1>1, <1>2, <1>3, <1>4, <1>5, <1>7 DEF Shape, Places
  <1>9. TaskInv /\ SlotInv
    BY <1>2, <1>4, <1>5 DEF TaskInv, SlotInv, Streaming, Waiting
  <1>10. Fetched = 0 /\ Position = 0 /\ ~Told
    BY <1>1, <1>2, <1>7 DEF Fetched, Position, Told
  <1>11. EngineInv /\ QueueInv /\ ReplayInv
    <2>1. EngineInv
      BY <1>1, <1>2, <1>7, Numbers DEF EngineInv
    <2>2. QueueInv
      BY <1>1, <1>2, <1>7, <1>10 DEF QueueInv
    <2>3. ReplayInv
      BY <1>1, <1>2, <1>5, <1>7, <1>10 DEF ReplayInv
    <2> QED
      BY <2>1, <2>2, <2>3
  <1>12. Handed = 0 /\ Encoded = 0 /\ Consumed = 0 /\ ~Busy /\ ~Running
    BY <1>2, <1>3, <1>4, <1>5, <1>7 DEF Handed, Encoded, Consumed, Busy, Running
  <1>13. SentInv
    <2>1. 0 - Lead \in Int /\ Len(wire.sent) - Lead \in Int /\ 0 <= 0 + Lead
      BY <1>5, <1>7
    <2> QED
      BY <1>1, <1>2, <1>5, <1>7, <1>12, <2>1 DEF SentInv, Streaming
  <1>14. EncoderInv
    BY <1>2, <1>3, <1>4, <1>12, Numbers DEF EncoderInv, Streaming
  <1>15. PipeInv
    <2>1. End <= End
      BY Numbers
    <2> QED
      BY <1>1, <1>3, <1>4, <1>7, <1>12, <2>1 DEF PipeInv
  <1>16. WholeInv
    BY <1>2, <1>5 DEF WholeInv, EndsWell
  <1>17. DeliveryShape
    <2>1. 0 <= Hop
      BY DeliveryAssumption
    <2> QED
      BY <1>2, <1>6, <1>7, <2>1 DEF DeliveryShape
  <1>18. CoreInv
    BY <1>2, <1>5, <1>6 DEF CoreInv
  <1>19. RelayInv
    <2>1. 0 - Lead \in Int /\ Len(reply.sent) - Lead \in Int /\ 0 + 0 <= 0 /\ 0 + 0 = 0
      BY <1>6, <1>7
    <2> QED
      BY <1>2, <1>5, <1>6, <1>7, <2>1 DEF RelayInv
  <1> QED
    BY <1>8, <1>9, <1>11, <1>13, <1>14, <1>15, <1>16, <1>17, <1>18, <1>19 DEF IInv, AnswerInv

(* Each buffer of a delivery goes on where the one in front of it ends.    *)
THEOREM DeliveryInvariance == DeliverySpec => []IInv
  BY DeliveryStarts, DeliveryKept, PTL DEF DeliverySpec

(* The slot of the worker and the lease of the core go back once.          *)
THEOREM OnceGivenBack == DeliverySpec => []GivenBackOnce
  <1>1. ASSUME IInv
        PROVE  GivenBackOnce
    <2>1. ReleasedOnce
      BY <1>1 DEF IInv, AnswerInv, SlotInv, ReleasedOnce
    <2>2. returned = IF core = "over" THEN 1 ELSE 0
      BY <1>1 DEF IInv, CoreInv
    <2> QED
      BY <2>1, <2>2 DEF GivenBackOnce
  <1> QED
    BY <1>1, DeliveryInvariance, PTL

(* What fails before there is audio is a status, and so is all that can go *)
(* wrong with a buffered answer.                                           *)
THEOREM FailuresAreStatuses == DeliverySpec => []FailureIsAStatus
  <1>1. ASSUME IInv
        PROVE  FailureIsAStatus
    BY <1>1 DEF IInv, AnswerInv, ReplayInv, CoreInv, FailureIsAStatus, EarlyFailureIsAStatus
  <1> QED
    BY <1>1, DeliveryInvariance, PTL

(* What an engine of n chunks sounds like is the run that starts with the  *)
(* header, where there is one.                                             *)
LEMMA BlocksAreARun ==
  ASSUME NEW n \in Nat
  PROVE  /\ Blocks(n) \in Seq(Nat) /\ Len(Blocks(n)) = n + Lead
         /\ Follows(Blocks(n), 0 - Lead)
  <1> DEFINE chunks == [i \in 1..n |-> i]
             first == IF request.format = "wav" THEN <<Header>> ELSE <<>>
  <1>1. chunks \in Seq(Nat) /\ Len(chunks) = n /\ \A i \in 1..n : chunks[i] = i
    OBVIOUS
  <1>2. Follows(chunks, 0)
    BY <1>1 DEF Follows
  <1>3. first \in Seq(Nat) /\ Len(first) = Lead /\ Follows(first, 0 - Lead)
    <2>1. CASE request.format = "wav"
      BY <2>1, RunOne, Numbers DEF Lead
    <2>2. CASE request.format # "wav"
      BY <2>2, RunEmpty DEF Lead
    <2> QED
      BY <2>1, <2>2
  <1>4. Blocks(n) = first \o chunks
    BY DEF Blocks
  <1> HIDE DEF chunks, first
  <1>5. 0 - Lead \in Int /\ (0 - Lead) + Len(first) = 0
    BY <1>3, LeadIs
  <1>6. Follows(chunks, (0 - Lead) + Len(first))
    BY <1>2, <1>5
  <1>7. /\ first \o chunks \in Seq(Nat) /\ Len(first \o chunks) = Len(first) + Len(chunks)
        /\ Follows(first \o chunks, 0 - Lead)
    BY <1>1, <1>3, <1>5, <1>6, RunJoined
  <1> QED
    BY <1>1, <1>3, <1>4, <1>7, LeadIs

LEMMA Swapped == \A k \in Nat, m \in Nat : k - m = 0 - m + k
  OBVIOUS

LEMMA HeardIsInOrder ==
  ASSUME IInv
  PROVE  HeardInOrder
  <1>1. Shape /\ SentInv /\ RelayInv /\ DeliveryShape
    BY DEF IInv, AnswerInv
  <1>2. /\ wire.sent \in Seq(Nat) /\ out \in Seq(Nat) /\ engine.made \in Nat
        /\ Len(wire.sent) \in Nat /\ Len(out) \in Nat
        /\ Handed = Len(wire.sent) + Len(out)
    BY <1>1, FieldShape, Counts DEF Shape
  <1>3. reply.sent \in Seq(Nat) /\ relay \in Seq(Nat)
    BY <1>1 DEF DeliveryShape, ClientShape
  <1>4. Lead \in Nat /\ 0 - Lead \in Int
    BY LeadIs
  <1>5. SentInOrder
    <2> DEFINE sent == wire.sent
               made == engine.made
               n == 0 - Lead
    <2>1. /\ sent \in Seq(Nat) /\ made \in Nat /\ n \in Int /\ Len(sent) \in Nat
          /\ Follows(sent, n) /\ Follows(out, n + Len(sent))
      <3>1. Len(wire.sent) - Lead = 0 - Lead + Len(wire.sent)
        BY <1>2, <1>4, Swapped
      <3> QED
        BY <1>1, <1>2, <1>4, <3>1 DEF SentInv
    <2>2. Blocks(made) \in Seq(Nat) /\ Len(Blocks(made)) = made + Lead /\ Follows(Blocks(made), n)
      BY <1>2, BlocksAreARun
    <2>3. Len(sent) + Len(out) <= made + Lead
      BY <1>1, <1>2 DEF SentInv
    <2> HIDE DEF sent, made, n
    <2>4. sent \o out \in Seq(Nat) /\ Len(sent \o out) = Len(sent) + Len(out) /\ Follows(sent \o out, n)
      BY <1>2, <2>1, RunJoined
    <2>5. Len(sent \o out) <= Len(Blocks(made))
      BY <2>2, <2>3, <2>4
    <2>6. IsPrefix(sent \o out, Blocks(made))
      BY <2>1, <2>2, <2>4, <2>5, RunsAgree
    <2> QED
      BY <2>6 DEF sent, made, SentInOrder
  <1>6. IsPrefix(reply.sent \o relay, wire.sent)
    <2> DEFINE sent == wire.sent
               heard == reply.sent
               n == 0 - Lead
    <2>1. /\ sent \in Seq(Nat) /\ heard \in Seq(Nat) /\ n \in Int
          /\ Follows(sent, n) /\ Follows(heard, n) /\ Follows(relay, n + Len(heard))
      <3>1. Len(reply.sent) - Lead = 0 - Lead + Len(reply.sent)
        <4>1. Len(reply.sent) \in Nat
          BY <1>3, LengthZero
        <4> QED
          BY <4>1, <1>4, Swapped
      <3> QED
        BY <1>1, <1>2, <1>3, <1>4, <3>1 DEF SentInv, RelayInv
    <2>2. Len(heard) + Len(relay) <= Len(sent)
      BY <1>1 DEF RelayInv
    <2> HIDE DEF sent, heard, n
    <2>3. /\ heard \o relay \in Seq(Nat) /\ Len(heard \o relay) = Len(heard) + Len(relay)
          /\ Follows(heard \o relay, n)
      BY <1>3, <2>1, RunJoined
    <2>4. Len(heard \o relay) <= Len(sent)
      BY <2>2, <2>3
    <2>5. IsPrefix(heard \o relay, sent)
      BY <2>1, <2>3, <2>4, RunsAgree
    <2> QED
      BY <2>5 DEF heard, sent
  <1> QED
    BY <1>5, <1>6 DEF HeardInOrder

(* Through every buffer between the engine's thread and the client nothing *)
(* is lost, doubled or swapped.                                            *)
THEOREM NothingLostOnTheWay == DeliverySpec => []HeardInOrder
  BY HeardIsInOrder, DeliveryInvariance, PTL

LEMMA WholeIsHeard ==
  ASSUME IInv
  PROVE  HeardWhole
  <1>1. Shape /\ TaskInv /\ EngineInv /\ SentInv /\ WholeInv /\ RelayInv
    BY DEF IInv, AnswerInv
  <1>2. /\ wire.sent \in Seq(Nat) /\ out \in Seq(Nat) /\ engine.made \in Nat /\ engine.length \in Nat
        /\ Len(wire.sent) \in Nat /\ Len(out) \in Nat
        /\ Handed = Len(wire.sent) + Len(out)
    BY <1>1, FieldShape, Counts DEF Shape
  <1>3. Lead \in Nat /\ 0 - Lead \in Int
    BY LeadIs
  <1>4. ASSUME wire.ending \in {"trailer", "whole"}
        PROVE  /\ ffmpeg.at # "failed" /\ feeder.upstream = FALSE
               /\ ffmpeg.early => IsPrefix(wire.sent, Blocks(engine.length))
               /\ ~ffmpeg.early => /\ ~engine.failed /\ wire.sent = Blocks(engine.length)
                                   /\ wire.duration = engine.length
    <2>1. task # "end" /\ out = <<>> /\ Len(out) = 0
      BY <1>1, <1>2, <1>4, LengthZero DEF TaskInv
    <2>2. /\ ffmpeg.at \in {"off", "ok"} /\ ~feeder.upstream /\ wire.duration = counted
          /\ ~ffmpeg.early => EngineDone /\ counted = engine.length /\ Handed = engine.length + Lead
      BY <1>1, <1>4, <2>1 DEF WholeInv, EndsWell
    <2>3. feeder.upstream = FALSE
      BY <1>1, <2>2, FieldShape, Zenon
    <2> DEFINE sent == wire.sent
               length == engine.length
               n == 0 - Lead
    <2>4. sent \in Seq(Nat) /\ n \in Int /\ Follows(sent, n) /\ Len(sent) \in Nat
      BY <1>1, <1>2, <1>3 DEF SentInv
    <2>5. /\ Blocks(length) \in Seq(Nat) /\ Len(Blocks(length)) = length + Lead
          /\ Follows(Blocks(length), n)
      BY <1>2, BlocksAreARun
    <2>6. Len(sent) <= length + Lead /\ (~ffmpeg.early => Len(sent) = length + Lead)
      <3>1. Handed = Len(wire.sent)
        BY <1>2, <2>1
      <3>2. Handed <= engine.made + Lead /\ engine.made <= engine.length
        BY <1>1 DEF SentInv, EngineInv
      <3>3. engine.made + Lead <= engine.length + Lead
        BY <1>2, <1>3, <3>2
      <3>4. Handed \in Nat
        BY <1>2, <3>1
      <3>5. Handed <= engine.length + Lead
        BY <1>2, <1>3, <3>2, <3>3, <3>4
      <3> QED
        BY <2>2, <3>1, <3>5
    <2> HIDE DEF sent, length, n
    <2>7. IsPrefix(sent, Blocks(length))
      BY <2>4, <2>5, <2>6, RunsAgree
    <2>8. ~ffmpeg.early => sent = Blocks(length)
      BY <2>4, <2>5, <2>6, RunsAgree
    <2> QED
      BY <2>2, <2>3, <2>7, <2>8 DEF EngineDone, sent, length
  <1>5. CompleteIsWhole
    BY <1>4 DEF CompleteIsWhole
  <1>6. reply.ending \in {"trailer", "whole"} =>
          /\ wire.ending = reply.ending /\ reply.sent = wire.sent /\ Len(reply.sent) >= Floor
          /\ reply.duration = wire.duration
    BY <1>1 DEF RelayInv
  <1> QED
    BY <1>5, <1>6 DEF HeardWhole

(* A client that reads to a clean end has all that the worker made, its    *)
(* duration, and enough to be audio: what fails once a 200 is out never    *)
(* ends like an utterance that was short.                                  *)
THEOREM CleanEndIsWhole == DeliverySpec => []HeardWhole
  BY WholeIsHeard, DeliveryInvariance, PTL

-----------------------------------------------------------------------------
(* The bounds: what a buffer holds is a chunk, or a mark where one may be. *)

Bounds ==
  /\ queue \in Seq(1..Raised) /\ replay \in Seq(1..End)
  /\ feeder.hand \in 1..End /\ ffmpeg.hand \in 1..End
  /\ ~Encodes => Len(out) <= 1
  /\ wire.duration \in -1..Most /\ reply.duration \in -1..Most

LEMMA Marks ==
  /\ End \in 1..End /\ End \in 1..Raised /\ Raised \in 1..Raised
  /\ \A n \in 1..End : n \in 1..Raised
  /\ \A n \in 1..Raised : (IsChunk(n) => n \in 1..Most) /\ (n # Raised => n \in 1..End)
  /\ \A n \in 1..Most : n \in 1..End /\ n \in 1..Raised
  BY Numbers DEF IsChunk

(* Who moves the queue, the PCM taken ahead, what is in hand, and the      *)
(* duration.                                                               *)
LEMMA QueueMoved ==
  ASSUME [AnswerStep]_vars
  PROVE  \/ UNCHANGED queue \/ queue' = <<>>
         \/ queue # <<>> /\ queue' = Tail(queue)
         \/ engine.at = "putting" /\ queue' = Append(queue, engine.made)
         \/ queue' = Append(queue, End) \/ queue' = Append(queue, Raised)
  <1>1. CASE Put
    BY <1>1 DEF Put
  <1>2. CASE Drain \/ Prime \/ Collect
    BY <1>2 DEF Drain, Prime, PullFirst, Collect
  <1>3. CASE PrimeEncoded \/ FeederPulls \/ PullPlain
    BY <1>3 DEF PrimeEncoded, FeederPulls, PullPlain, Take, Available, pcmVars
  <1>4. CASE HangUpReading
    BY <1>4 DEF HangUpReading
  <1>5. CASE UNCHANGED vars
    BY <1>5 DEF vars
  <1>6. CASE Make \/ Exhausted \/ EngineRaises \/ ThreadGone
    BY <1>6 DEF Make, Exhausted, EngineRaises, ThreadGone
  <1>7. CASE FeederWrites \/ FeederCloses \/ EncoderReads \/ EncoderComplains \/ EncoderWrites
             \/ EncoderExits \/ EncoderDies \/ DrainStderr \/ ReadBlock
    BY <1>7 DEF FeederWrites, FeederCloses, EncoderReads, EncoderComplains, EncoderWrites,
                EncoderExits, EncoderDies, DrainStderr, ReadBlock, pcmVars
  <1>8. CASE ReplyPlain \/ StartEncoder \/ EncoderEnds \/ Start \/ Send \/ Finish \/ HangUpSending
             \/ CloseBody \/ CloseStreams
    BY <1>8 DEF ReplyPlain, StartEncoder, EncoderEnds, Start, Send, Finish, HangUpSending,
                CloseBody, CloseStreams, pcmVars
  <1> QED
    BY <1>1, <1>2, <1>3, <1>4, <1>5, <1>6, <1>7, <1>8 DEF AnswerStep, Works, Breaks, HangsUp

LEMMA ReplayMoved ==
  ASSUME [AnswerStep]_vars
  PROVE  \/ UNCHANGED replay
         \/ replay # <<>> /\ replay' = Tail(replay)
         \/ queue # <<>> /\ IsChunk(Head(queue)) /\ replay' = <<Head(queue)>>
         \/ queue # <<>> /\ IsChunk(Head(queue)) /\ replay' = Append(replay, Head(queue))
         \/ replay' = Append(replay, End)
  <1>1. CASE Prime \/ Collect
    BY <1>1 DEF Prime, PullFirst, Replayed, Collect
  <1>2. CASE PrimeEncoded \/ FeederPulls \/ PullPlain
    BY <1>2 DEF PrimeEncoded, FeederPulls, PullPlain, Take, Available, pcmVars
  <1>3. CASE HangUpReading \/ UNCHANGED vars
    BY <1>3 DEF HangUpReading, vars
  <1>4. CASE Make \/ Exhausted \/ EngineRaises \/ ThreadGone \/ Put \/ Drain
    BY <1>4 DEF Make, Exhausted, EngineRaises, ThreadGone, Put, Drain
  <1>5. CASE FeederWrites \/ FeederCloses \/ EncoderReads \/ EncoderComplains \/ EncoderWrites
             \/ EncoderExits \/ EncoderDies \/ DrainStderr \/ ReadBlock
    BY <1>5 DEF FeederWrites, FeederCloses, EncoderReads, EncoderComplains, EncoderWrites,
                EncoderExits, EncoderDies, DrainStderr, ReadBlock, pcmVars
  <1>6. CASE ReplyPlain \/ StartEncoder \/ EncoderEnds \/ Start \/ Send \/ Finish \/ HangUpSending
             \/ CloseBody \/ CloseStreams
    BY <1>6 DEF ReplyPlain, StartEncoder, EncoderEnds, Start, Send, Finish, HangUpSending,
                CloseBody, CloseStreams, pcmVars
  <1> QED
    BY <1>1, <1>2, <1>3, <1>4, <1>5, <1>6 DEF AnswerStep, Works, Breaks, HangsUp

LEMMA FeederHands ==
  ASSUME Shape, [AnswerStep]_vars
  PROVE  \/ feeder'.hand = feeder.hand
         \/ Available /\ IsChunk(Item) /\ feeder'.hand = Item
  <1>c. feeder \in FeederShape
    BY DEF Shape
  <1>1. CASE FeederPulls
    BY <1>1, <1>c, FeederMoves DEF FeederIs, FeederPulls, Take
  <1>2. CASE FeederWrites \/ FeederCloses \/ StartEncoder \/ CancelTasks
    BY <1>2, <1>c, FeederMoves DEF FeederIs
  <1>3. CASE HangUpReading \/ CloseStreams
    BY <1>2, <1>3 DEF HangUpReading, CloseStreams, encoderVars
  <1>4. CASE Make \/ Exhausted \/ EngineRaises \/ ThreadGone \/ Put \/ Drain \/ UNCHANGED vars
    BY <1>4 DEF Make, Exhausted, EngineRaises, ThreadGone, Put, Drain, encoderVars, vars
  <1>5. CASE EncoderReads \/ EncoderComplains \/ EncoderWrites \/ EncoderExits \/ EncoderDies
             \/ DrainStderr \/ ReadBlock
    BY <1>5 DEF EncoderReads, EncoderComplains, EncoderWrites, EncoderExits, EncoderDies, DrainStderr,
                ReadBlock
  <1>6. CASE \/ Prime \/ Collect \/ PrimeEncoded \/ ReplyPlain \/ EncoderEnds \/ Start \/ Send
             \/ PullPlain \/ Finish \/ HangUpSending \/ CloseBody
    BY <1>6 DEF Prime, PullFirst, Collect, PrimeEncoded, ReplyPlain, EncoderEnds, Start, Send,
                PullPlain, Finish, HangUpSending, CloseBody, encoderVars
  <1> QED
    BY <1>1, <1>2, <1>3, <1>4, <1>5, <1>6 DEF AnswerStep, Works, Breaks, HangsUp

LEMMA EncoderHands ==
  ASSUME Shape, [AnswerStep]_vars
  PROVE  \/ ffmpeg'.hand = ffmpeg.hand
         \/ EncoderReads /\ ffmpeg'.hand = Head(pipe.in)
  <1>c. ffmpeg \in EncoderShape
    BY DEF Shape
  <1>1. CASE EncoderReads
    BY <1>1, <1>c, EncoderMoves DEF EncoderIs
  <1>2. CASE \/ StartEncoder \/ EncoderComplains \/ EncoderWrites \/ EncoderExits \/ EncoderDies
             \/ HangUpReading \/ CloseStreams
    BY <1>2, <1>c, EncoderMoves DEF EncoderIs
  <1>3. CASE Make \/ Exhausted \/ EngineRaises \/ ThreadGone \/ Put \/ Drain \/ UNCHANGED vars
    BY <1>3 DEF Make, Exhausted, EngineRaises, ThreadGone, Put, Drain, encoderVars, vars
  <1>4. CASE FeederPulls \/ FeederWrites \/ FeederCloses \/ DrainStderr \/ ReadBlock
    BY <1>4 DEF FeederPulls, FeederWrites, FeederCloses, DrainStderr, ReadBlock
  <1>5. CASE \/ Prime \/ Collect \/ PrimeEncoded \/ ReplyPlain \/ EncoderEnds \/ Start \/ Send
             \/ PullPlain \/ Finish \/ HangUpSending \/ CloseBody
    BY <1>5 DEF Prime, PullFirst, Collect, PrimeEncoded, ReplyPlain, EncoderEnds, Start, Send,
                PullPlain, Finish, HangUpSending, CloseBody, encoderVars
  <1> QED
    BY <1>1, <1>2, <1>3, <1>4, <1>5 DEF AnswerStep, Works, Breaks, HangsUp

LEMMA RequestStays ==
  ASSUME [AnswerStep]_vars
  PROVE  request' = request
  <1>1. CASE ~TaskActs
    BY <1>1, OthersLeaveTask
  <1>2. CASE PullPlain \/ EncoderEnds \/ PrimeEncoded
    BY <1>2, PullPlainDoes, EncoderEndsDoes DEF PrimeEncoded, Take
  <1>3. CASE \/ Prime \/ Collect \/ ReplyPlain \/ StartEncoder \/ ReadBlock \/ Start \/ Send \/ Finish
             \/ CloseBody \/ CloseStreams \/ HangUpReading \/ HangUpSending
    BY <1>3 DEF Prime, PullFirst, Collect, ReplyPlain, StartEncoder, ReadBlock, Start, Send, Finish,
                CloseBody, CloseStreams, HangUpReading, HangUpSending
  <1> QED
    BY <1>1, <1>2, <1>3 DEF TaskActs

LEMMA HandMoved ==
  ASSUME Shape, EncoderInv, [AnswerStep]_vars, ~Encodes
  PROVE  UNCHANGED out \/ Len(out') <= 1
  <1>1. CASE ~TaskActs
    BY <1>1, OthersLeaveTask
  <1>2. CASE PrimeEncoded \/ PullPlain \/ Send
    <2>1. UNCHANGED out \/ out' = <<>> \/ out' = <<Header>> \/ out' = <<Item>>
      BY <1>2, PullPlainDoes DEF PrimeEncoded, Send
    <2>2. Len(<<>>) <= 1 /\ Len(<<Header>>) <= 1 /\ Len(<<Item>>) <= 1
      OBVIOUS
    <2> QED
      BY <2>1, <2>2, Zenon
  <1>3. CASE ReadBlock \/ EncoderEnds \/ StartEncoder
    BY <1>3, EncoderEndsDoes DEF ReadBlock, StartEncoder, EncoderInv
  <1>4. CASE \/ Prime \/ Collect \/ ReplyPlain \/ Start \/ Finish \/ CloseBody \/ CloseStreams
             \/ HangUpReading \/ HangUpSending
    BY <1>4 DEF Prime, PullFirst, Collect, ReplyPlain, Start, Finish, CloseBody, CloseStreams,
                HangUpReading, HangUpSending
  <1> QED
    BY <1>1, <1>2, <1>3, <1>4 DEF TaskActs

LEMMA DurationMoved ==
  ASSUME Shape, [AnswerStep]_vars
  PROVE  wire'.duration \in {wire.duration, counted}
  <1>c. wire \in WireShape
    BY DEF Shape
  <1>1. CASE ~TaskActs
    BY <1>1, OthersLeaveTask
  <1>2. CASE Refuse \/ Abort \/ Start \/ Send \/ Finish \/ HangUpReading \/ HangUpSending
    BY <1>2, <1>c, WireMoves DEF WireIs
  <1>3. ASSUME NEW blocks, Reply(blocks)
        PROVE  wire'.duration = counted
    BY <1>3 DEF Reply
  <1>4. CASE PullPlain \/ EncoderEnds
    BY <1>2, <1>3, <1>4, PullPlainDoes, EncoderEndsDoes DEF EndOfBody
  <1>5. CASE ReplyPlain
    BY <1>3, <1>5 DEF ReplyPlain
  <1>6. CASE Prime \/ Collect \/ PrimeEncoded \/ StartEncoder \/ ReadBlock \/ CloseBody \/ CloseStreams
    BY <1>2, <1>6 DEF Prime, PullFirst, Collect, PrimeEncoded, StartEncoder, ReadBlock, CloseBody,
                      CloseStreams
  <1> QED
    BY <1>1, <1>2, <1>4, <1>5, <1>6 DEF TaskActs

LEMMA ReplyDuration ==
  ASSUME DeliveryShape, [DeliveryNext]_everything
  PROVE  reply'.duration \in {reply.duration, wire.duration}
  <1>c. reply \in ClientShape
    BY DEF DeliveryShape
  <1>1. ASSUME NEW how, Fails(how)
        PROVE  reply'.duration = reply.duration
    BY <1>c, <1>1 DEF Fails, ClientShape
  <1>2. CASE Refused \/ TimesOut \/ RelayBreaks \/ RelayLeft \/ Aborts \/ Dies
    BY <1>1, <1>2 DEF Refused, TimesOut, RelayBreaks, RelayLeft, Aborts, Dies, Destroys
  <1>3. CASE Headers \/ Relays
    BY <1>c, <1>3 DEF Headers, Relays, ClientShape
  <1>4. CASE RelayEnds
    BY <1>c, <1>1, <1>4 DEF RelayEnds, ClientShape
  <1>5. CASE Buffered
    BY <1>1, <1>5 DEF Buffered
  <1>6. CASE WorkerGoesOn \/ WorkerBreaks \/ WorkerSends \/ WorkerNotices \/ Leaves \/ Stays
             \/ UNCHANGED everything
    BY <1>6 DEF WorkerGoesOn, WorkerBreaks, WorkerSends, WorkerNotices, Leaves, Stays, everything,
                deliveryVars
  <1> QED
    BY <1>2, <1>3, <1>4, <1>5, <1>6 DEF DeliveryNext, CoreGoesOn

LEMMA BoundsStart ==
  ASSUME DeliveryInit
  PROVE  Bounds
  <1>1. /\ feeder.hand = End /\ ffmpeg.hand = End /\ queue = <<>> /\ replay = <<>> /\ out = <<>>
        /\ wire.duration = -1 /\ reply.duration = -1
    BY DEF DeliveryInit, Init
  <1>2. Len(<<>>) <= 1 /\ -1 \in -1..Most /\ <<>> \in Seq(1..Raised) /\ <<>> \in Seq(1..End)
    BY Numbers
  <1> QED
    BY <1>1, <1>2, Marks DEF Bounds

LEMMA BoundsKept ==
  ASSUME IInv, Bounds, [DeliveryNext]_everything
  PROVE  Bounds'
  <1>1. Shape /\ EngineInv /\ ReplayInv /\ EncoderInv /\ PipeInv /\ [AnswerStep]_vars
    BY DeliveryStep DEF IInv, AnswerInv
  <1>2. queue' \in Seq(1..Raised)
    <2>1. \A s \in Seq(1..Raised) : s # <<>> => Tail(s) \in Seq(1..Raised)
      BY HeadTailProperties
    <2>2. \A s \in Seq(1..Raised), n \in 1..Raised : Append(s, n) \in Seq(1..Raised)
      OBVIOUS
    <2>3. engine.at = "putting" => engine.made \in 1..Raised
      BY <1>1, FieldShape, Numbers DEF EngineInv
    <2>4. queue \in Seq(1..Raised) /\ <<>> \in Seq(1..Raised)
      BY DEF Bounds
    <2>5. CASE UNCHANGED queue \/ queue' = <<>> \/ (queue # <<>> /\ queue' = Tail(queue))
      BY <2>1, <2>4, <2>5, Zenon
    <2>6. CASE \/ engine.at = "putting" /\ queue' = Append(queue, engine.made)
               \/ queue' = Append(queue, End) \/ queue' = Append(queue, Raised)
      BY <2>2, <2>3, <2>4, <2>6, Marks, Zenon
    <2> QED
      BY <1>1, <2>5, <2>6, QueueMoved
  <1>3. queue # <<>> => Head(queue) \in 1..Raised
    BY HeadTailProperties DEF Bounds
  <1>4. replay # <<>> => Head(replay) \in 1..End
    BY HeadTailProperties DEF Bounds
  <1>5. replay' \in Seq(1..End)
    <2>1. \A s \in Seq(1..End) : s # <<>> => Tail(s) \in Seq(1..End)
      BY HeadTailProperties
    <2>2. \A s \in Seq(1..End), n \in 1..End : Append(s, n) \in Seq(1..End) /\ <<n>> \in Seq(1..End)
      OBVIOUS
    <2>3. queue # <<>> /\ IsChunk(Head(queue)) => Head(queue) \in 1..End
      BY <1>3, Marks
    <2> QED
      BY <1>1, <2>1, <2>2, <2>3, ReplayMoved, Marks DEF Bounds
  <1>6. feeder'.hand \in 1..End
    <2>1. Available => Item \in 1..Raised
      BY <1>3, <1>4, Marks DEF Available, Item
    <2> QED
      BY <1>1, <2>1, FeederHands, Marks DEF Bounds
  <1>7. ffmpeg'.hand \in 1..End
    <2>1. EncoderReads => Head(pipe.in) \in 1..Most
      <3>1. ASSUME EncoderReads
            PROVE  Encodes /\ pipe.in # <<>> /\ pipe.in \in Seq(Nat)
        BY <1>1, <3>1, FieldShape DEF EncoderReads, EncoderInv
      <3> DEFINE s == pipe.in
      <3>2. EncoderReads => s # <<>> /\ s \in Seq(Nat) /\ \A i \in 1..Len(s) : s[i] \in 1..Most
        BY <1>1, <3>1 DEF PipeInv
      <3> HIDE DEF s
      <3>3. EncoderReads => Head(s) \in 1..Most
        <4>1. EncoderReads => Len(s) \in Nat /\ Len(s) # 0 /\ Head(s) = s[1]
          BY <3>2, LengthZero
        <4> QED
          BY <3>2, <4>1
      <3> QED
        BY <3>3 DEF s
    <2> QED
      BY <1>1, <2>1, EncoderHands, Marks DEF Bounds
  <1>8. (~Encodes => Len(out) <= 1)'
    <2>1. request' = request
      BY <1>1, RequestStays
    <2> QED
      BY <1>1, <2>1, HandMoved DEF Bounds, Encodes
  <1>9. wire'.duration \in -1..Most
    <2>1. counted \in -1..Most
      <3>1. counted <= Fetched /\ counted \in Nat
        BY <1>1, Counts DEF Fetched, Shape
      <3> QED
        BY <1>1, <3>1, Counts, Numbers DEF ReplayInv, EngineInv
    <2> QED
      BY <1>1, <2>1, DurationMoved DEF Bounds
  <1>10. reply'.duration \in {reply.duration, wire.duration}
    BY ReplyDuration DEF IInv
  <1> QED
    BY <1>2, <1>5, <1>6, <1>7, <1>8, <1>9, <1>10 DEF Bounds

LEMMA Narrowed ==
  ASSUME NEW s \in Seq(Nat), NEW T, \A i \in 1..Len(s) : s[i] \in T
  PROVE  s \in Seq(T)
  <1>1. Len(s) \in Nat /\ s = [i \in 1..Len(s) |-> s[i]]
    OBVIOUS
  <1> QED
    BY <1>1, IsASeq

LEMMA RunWithin ==
  ASSUME NEW s \in Seq(Nat), NEW n \in Int, NEW a \in Nat, Follows(s, n), a <= n + 1, n + Len(s) <= Most
  PROVE  s \in Seq(a..Most)
  <1>1. \A i \in 1..Len(s) : s[i] \in a..Most
    BY Numbers DEF Follows
  <1> QED
    BY <1>1, Narrowed

LEMMA MadeWithin ==
  ASSUME Shape, EngineInv
  PROVE  engine.made \in Nat /\ engine.made <= Most /\ engine.made \in 0..Most
  <1> DEFINE made == engine.made
             length == engine.length
  <1>1. /\ made \in Nat /\ length \in Nat /\ made <= length /\ length <= Most /\ Most \in Nat
    BY Counts, Numbers DEF EngineInv
  <1> HIDE DEF made, length
  <1>2. made \in Nat /\ made <= Most /\ made \in 0..Most
    BY <1>1
  <1> QED
    BY <1>2 DEF made

LEMMA SentWithin ==
  ASSUME IInv
  PROVE  /\ wire.sent \in Seq(0..Most) /\ out \in Seq(0..Most)
         /\ reply.sent \in Seq(0..Most) /\ relay \in Seq(0..Most)
  <1>1. Shape /\ SentInv /\ EngineInv /\ RelayInv /\ DeliveryShape
    BY DEF IInv, AnswerInv
  <1> DEFINE sent == wire.sent
             heard == reply.sent
             made == engine.made
  <1>2. /\ sent \in Seq(Nat) /\ Len(sent) \in Nat /\ out \in Seq(Nat) /\ Len(out) \in Nat
        /\ heard \in Seq(Nat) /\ relay \in Seq(Nat) /\ Len(heard) \in Nat /\ Len(relay) \in Nat
        /\ made \in Nat /\ made <= Most /\ Lead \in 0..1
    <2>1. made \in Nat /\ made <= Most
      BY <1>1, MadeWithin
    <2>2. Lead \in 0..1
      BY DEF Lead
    <2>3. heard \in Seq(Nat) /\ relay \in Seq(Nat)
      BY <1>1 DEF DeliveryShape, ClientShape
    <2> QED
      BY <1>1, <2>1, <2>2, <2>3, FieldShape, Lengths, LengthZero DEF Shape
  <1>3. /\ Follows(sent, 0 - Lead) /\ Follows(out, Len(sent) - Lead)
        /\ Follows(heard, 0 - Lead) /\ Follows(relay, Len(heard) - Lead)
        /\ Len(sent) + Len(out) <= made + Lead /\ Len(heard) + Len(relay) <= Len(sent)
    BY <1>1 DEF SentInv, RelayInv, Handed
  <1>4. Most \in Nat
    BY Numbers
  <1> HIDE DEF sent, heard, made
  <1>5. /\ 0 - Lead \in Int /\ Len(sent) - Lead \in Int /\ Len(heard) - Lead \in Int
        /\ 0 <= 0 - Lead + 1 /\ 0 <= Len(sent) - Lead + 1 /\ 0 <= Len(heard) - Lead + 1
        /\ 0 - Lead + Len(sent) <= Most /\ Len(sent) - Lead + Len(out) <= Most
        /\ 0 - Lead + Len(heard) <= Most /\ Len(heard) - Lead + Len(relay) <= Most
    BY <1>2, <1>3, <1>4
  <1>6. sent \in Seq(0..Most) /\ out \in Seq(0..Most)
    BY <1>2, <1>3, <1>5, RunWithin
  <1>7. heard \in Seq(0..Most) /\ relay \in Seq(0..Most)
    BY <1>2, <1>3, <1>5, RunWithin
  <1> QED
    BY <1>6, <1>7 DEF sent, heard

LEMMA PipesWithin ==
  ASSUME IInv, Bounds
  PROVE  /\ pipe.in \in Seq(1..Most) /\ pipe.out \in Seq(1..Most) /\ pipe.err \in 0..Pipe
         /\ Len(out) <= Most
  <1>1. Shape /\ EngineInv /\ EncoderInv /\ PipeInv
    BY DEF IInv, AnswerInv
  <1> DEFINE into == pipe.in
             from == pipe.out
             made == engine.made
             handed == Handed
  <1>2. /\ into \in Seq(Nat) /\ from \in Seq(Nat) /\ Len(from) \in Nat /\ Len(out) \in Nat
        /\ made \in Nat /\ made <= Most /\ Most \in Nat /\ Most > 0
        /\ handed \in Nat /\ Len(out) <= handed /\ Encoded = handed + Len(from)
    <2>1. made \in Nat /\ made <= Most /\ Most \in Nat /\ Most > 0
      BY <1>1, MadeWithin, Numbers
    <2>2. Len(out) \in Nat /\ Len(from) \in Nat /\ Handed = Len(wire.sent) + Len(out)
          /\ Len(wire.sent) \in Nat /\ Handed \in Nat /\ Encoded = Handed + Len(pipe.out)
      BY <1>1, Counts
    <2> DEFINE k == Len(wire.sent)
    <2>3. k \in Nat /\ handed = k + Len(out)
      BY <2>2
    <2> HIDE DEF k
    <2>4. Len(out) <= handed
      BY <2>2, <2>3
    <2> QED
      BY <1>1, <2>1, <2>2, <2>4, FieldShape
  <1>3. pipe.err \in 0..Pipe
    BY <1>1, FieldShape, Numbers DEF EncoderInv
  <1>4. CASE Encodes
    <2>1. \A i \in 1..Len(into) : into[i] \in 1..Most
      BY <1>1, <1>4 DEF PipeInv
    <2>2. Follows(from, handed) /\ handed + Len(from) <= made
      BY <1>1, <1>2, <1>4 DEF PipeInv
    <2> HIDE DEF into, from, made, handed
    <2>3. into \in Seq(1..Most)
      BY <1>2, <2>1, Narrowed
    <2>4. 1 <= handed + 1 /\ handed + Len(from) <= Most /\ Len(out) <= Most /\ handed \in Int
      BY <1>2, <2>2
    <2>5. from \in Seq(1..Most)
      BY <1>2, <2>2, <2>4, RunWithin
    <2> QED
      BY <1>3, <2>3, <2>4, <2>5 DEF into, from
  <1>5. CASE ~Encodes
    <2>1. pipe.in = <<>> /\ pipe.out = <<>>
      BY <1>1, <1>5 DEF EncoderInv
    <2>2. Len(out) <= Most
      BY <1>2, <1>5 DEF Bounds
    <2> QED
      BY <1>3, <2>1, <2>2
  <1> QED
    BY <1>4, <1>5

LEMMA TypesHold ==
  ASSUME IInv, Bounds
  PROVE  DeliveryTypeOK
  <1>1. Shape /\ EngineInv /\ SlotInv /\ ReplayInv /\ DeliveryShape /\ CoreInv
    BY DEF IInv, AnswerInv
  <1>2. engine \in [at : {"making", "putting", "stopping", "exited", "gone"},
                    made : 0..Most, length : 0..Most, failed : BOOLEAN]
    <2>1. engine.made \in 0..Most
      BY <1>1, MadeWithin, Numbers
    <2> QED
      BY <1>1, <2>1 DEF Shape, EngineShape
  <1>3. counted \in 0..Most
    <2>1. counted <= Fetched /\ counted \in Nat
      BY <1>1, Counts DEF Fetched, Shape
    <2> QED
      BY <1>1, <2>1, Counts, Numbers DEF ReplayInv, EngineInv
  <1>4. feeder \in [at : {"off", "pulling", "writing", "closing", "done"},
                    hand : 1..End, upstream : BOOLEAN]
    BY <1>1 DEF Shape, FeederShape, Bounds
  <1>5. ffmpeg \in [at : {"off", "reading", "complaining", "writing", "ok", "failed"},
                    hand : 1..End, early : BOOLEAN]
    BY <1>1 DEF Shape, EncoderShape, Bounds
  <1>6. pipe \in [in : Seq(1..Most), open : BOOLEAN, out : Seq(1..Most), err : 0..Pipe]
    BY <1>1, PipesWithin DEF Shape, PipeShape
  <1>7. wire \in [status : {"none", "ok", "refused"}, sent : Seq(0..Most),
                  ending : {"none", "trailer", "whole", "aborted", "gone"}, duration : -1..Most]
    BY <1>1, SentWithin DEF Shape, WireShape, Bounds
  <1>8. slot \in [released : BOOLEAN, free : 0..2]
    <2>1. slot.free \in 0..2
      BY <1>1 DEF SlotInv
    <2> QED
      BY <1>1, <2>1 DEF Shape, SlotShape
  <1>9. reply \in [status : {"none", "ok", "refused"}, sent : Seq(0..Most),
                   ending : {"none", "trailer", "whole", "aborted"}, duration : -1..Most]
    BY <1>1, SentWithin DEF DeliveryShape, ClientShape, Bounds
  <1>10. returned \in 0..1
    BY <1>1 DEF CoreInv
  <1>11. TypeOK
    BY <1>1, <1>2, <1>3, <1>4, <1>5, <1>6, <1>7, <1>8, SentWithin, PipesWithin
       DEF TypeOK, Shape, EngineInv, Bounds, Places
  <1> QED
    BY <1>1, <1>9, <1>10, <1>11, SentWithin DEF DeliveryTypeOK, DeliveryShape

(* Every variable of a delivery has its type, bounds and all.              *)
THEOREM DeliveryTypeCorrect == DeliverySpec => []DeliveryTypeOK
  <1>1. DeliverySpec => [](IInv /\ Bounds)
    <2>1. DeliveryInit => IInv /\ Bounds
      BY DeliveryStarts, BoundsStart
    <2>2. IInv /\ Bounds /\ [DeliveryNext]_everything => IInv' /\ Bounds'
      BY DeliveryKept, BoundsKept
    <2> QED
      BY <2>1, <2>2, PTL DEF DeliverySpec
  <1>2. IInv /\ Bounds => DeliveryTypeOK
    BY TypesHold
  <1> QED
    BY <1>1, <1>2, PTL

=============================================================================
