---------------------------- MODULE SpeakDelivery ----------------------------
(***************************************************************************)
(* One POST /speak from the client's end of it to the engine's thread:     *)
(* deliver of packages/core/src/speak/speak.pipeline.ts, from the lease it *)
(* was granted, with audio.floor.ts and what worker.client.ts makes of a   *)
(* worker's answer; and behind them the answer itself, AnswerStream, whose *)
(* client is the core.                                                     *)
(***************************************************************************)
EXTENDS AnswerStream

CONSTANTS
  Floor,     \* MIN_PLAUSIBLE_AUDIO_BYTES, in blocks
  Hop,       \* what the core holds of a stream, in blocks
  Troubles   \* of "leave" (the client hangs up), "wait" (HEADERS_TIMEOUT_MS), "death" (of the worker)
ASSUME DeliveryAssumption ==
  /\ Floor \in Nat /\ Hop \in Nat \ {0}
  /\ Troubles \subseteq {"leave", "wait", "death"}

VARIABLES
  core,      \* where deliver is
  link,      \* the connection to the worker
  relay,     \* blocks on their way through the core
  listens,   \* the client has not gone
  reply,     \* what the client has been sent
  returned   \* times the lease was released

deliveryVars == <<core, link, relay, listens, reply, returned>>
everything == <<vars, deliveryVars>>

DeliveryInit ==
  /\ Init
  /\ core = "asking" /\ link = "up" /\ relay = <<>> /\ listens = TRUE
  /\ reply = [status |-> "none", sent |-> <<>>, ending |-> "none", duration |-> -1]
  /\ returned = 0

-----------------------------------------------------------------------------
(* The worker's side.  A worker that was dropped sends to nobody, until it *)
(* notices.                                                                *)

WorkerGoesOn == link # "dead" /\ Works /\ UNCHANGED deliveryVars

WorkerBreaks == link # "dead" /\ Breaks /\ UNCHANGED deliveryVars

WorkerSends ==
  /\ Send
  /\ \/ link = "up" /\ Len(relay) < Hop /\ relay' = relay \o out
     \/ link = "dropped" /\ UNCHANGED relay
  /\ UNCHANGED <<core, link, listens, reply, returned>>

WorkerNotices == link = "dropped" /\ HangsUp /\ UNCHANGED deliveryVars

-----------------------------------------------------------------------------
(* The core's side.                                                        *)

(* Mutant: only a stream is wrapped in a finally. *)
ReleaseStreams == returned' = IF core = "relaying" THEN returned + 1 ELSE returned

(* lease.release(). *)
Returns == returned' = returned + 1

(* deliver is over; what is left of its connection to the worker. *)
Settles(how) ==
  /\ core' = "over" /\ Returns /\ relay' = <<>>
  /\ link' = how
  /\ UNCHANGED <<vars, listens>>

Left == IF link = "up" /\ wire.ending = "none" /\ wire.status # "refused" THEN "dropped" ELSE link

(* Before a 200 every failure is an envelope, after it an aborted connection. *)
Fails(how) ==
  /\ Settles(how)
  /\ reply' = IF core = "relaying" THEN [reply EXCEPT !.ending = "aborted"]
                                   ELSE [reply EXCEPT !.status = "refused"]

(* The worker refuses. *)
Refused == core = "asking" /\ wire.status = "refused" /\ Fails(link)

(* Its headers have come: a stream's are the client's, a buffered answer is read first. *)
Headers ==
  /\ core = "asking" /\ wire.status = "ok"
  /\ \/ request.stream /\ core' = "relaying" /\ reply' = [reply EXCEPT !.status = "ok"]
     \/ ~request.stream /\ core' = "buffering" /\ UNCHANGED reply
  /\ UNCHANGED <<vars, link, relay, listens, returned>>

(* Its headers have not come in time. *)
TimesOut ==
  /\ "wait" \in Troubles /\ core = "asking" /\ wire.status = "none"
  /\ Fails(Left)

(* One block through the floor to the client. *)
Relays ==
  /\ core = "relaying" /\ relay # <<>> /\ listens
  /\ relay' = Tail(relay) /\ reply' = [reply EXCEPT !.sent = Append(@, Head(relay))]
  /\ UNCHANGED <<vars, core, link, listens, returned>>

(* audioFloor, and the count of sendBuffered. *)
Enough(blocks) == Len(blocks) >= Floor

(* The worker's stream is over: the trailer and the end, or too little to be audio. *)
RelayEnds ==
  /\ core = "relaying" /\ relay = <<>> /\ wire.ending = "trailer" /\ listens
  /\ \/ /\ Enough(reply.sent)
        /\ Settles(link)
        /\ reply' = [reply EXCEPT !.ending = "trailer", !.duration = wire.duration]
     \/ ~Enough(reply.sent) /\ Fails(link)

(* Mutant: raw.end() in the catch, and so a clean, short end. *)
EndsAnyway(how) ==
  /\ Settles(how)
  /\ reply' = [reply EXCEPT !.ending = "trailer"]

(* pipeline rejects: the destination is destroyed. *)
Destroys(how) == Fails(how)

(* It breaks off. *)
RelayBreaks == core = "relaying" /\ wire.ending = "aborted" /\ Destroys(link)

(* The whole of a buffered answer, sent with its length and its duration, or refused. *)
Buffered ==
  /\ core = "buffering"
  /\ \/ /\ Enough(wire.sent)
        /\ Settles(link)
        /\ reply' = [status |-> "ok", sent |-> wire.sent, ending |-> "whole", duration |-> wire.duration]
     \/ ~Enough(wire.sent) /\ Fails(link)

(* The client hangs up.  A stream that is being relayed ends at once. *)
Leaves ==
  /\ "leave" \in Troubles /\ listens
  /\ listens' = FALSE
  /\ UNCHANGED <<vars, core, link, relay, reply, returned>>

RelayLeft == core = "relaying" /\ ~listens /\ Destroys(Left)

(* Before that only the request's close event tells, to a listener that is added after the *)
(* lease was acquired: where the event comes with the end of the request's body it is too  *)
(* late, and the worker is asked for an answer nobody reads.                               *)
Aborts ==
  /\ core \in {"asking", "buffering"} /\ ~listens
  /\ Fails(Left)

(* The worker dies, with whatever of its answer the core has not read. *)
Dies ==
  /\ "death" \in Troubles /\ core # "over" /\ link = "up"
  /\ Fails("dead")

-----------------------------------------------------------------------------
CoreGoesOn == Refused \/ Headers \/ Relays \/ RelayEnds \/ RelayBreaks \/ Buffered \/ RelayLeft

AllOver == core = "over" /\ (link = "dead" \/ Over)

Stays == AllOver /\ UNCHANGED everything

DeliveryNext ==
  \/ WorkerGoesOn \/ WorkerBreaks \/ WorkerSends \/ WorkerNotices
  \/ CoreGoesOn \/ TimesOut \/ Leaves \/ Aborts \/ Dies
  \/ Stays

(* What can go on does: the engine's calls return, the threads and tasks of the worker run, *)
(* the core's promises continue, and a client that listens reads.                          *)
DeliverySpec ==
  /\ DeliveryInit /\ [][DeliveryNext]_everything
  /\ WF_everything(WorkerGoesOn \/ WorkerSends) /\ WF_everything(CoreGoesOn)

-----------------------------------------------------------------------------
(* Every variable has its type. *)
DeliveryTypeOK ==
  /\ TypeOK
  /\ core \in {"asking", "relaying", "buffering", "over"} /\ link \in {"up", "dropped", "dead"}
  /\ relay \in Seq(0..Most) /\ Len(relay) <= Hop
  /\ listens \in BOOLEAN /\ returned \in 0..1
  /\ reply \in [status : {"none", "ok", "refused"}, sent : Seq(0..Most),
                ending : {"none", "trailer", "whole", "aborted"}, duration : -1..Most]

(* A client that reads to a clean end has all that the worker made, and the duration of    *)
(* exactly that, and it is enough to be audio: whatever fails once a 200 is out, in the    *)
(* engine, the encoder, the worker or the core, is an aborted connection ("a clean, short, *)
(* silent file, which is precisely the bug", speak.pipeline.ts 255).                       *)
HeardWhole ==
  /\ CompleteIsWhole
  /\ reply.ending \in {"trailer", "whole"} =>
       /\ wire.ending = reply.ending /\ reply.sent = wire.sent /\ Len(reply.sent) >= Floor
       /\ reply.duration = wire.duration

(* Through every buffer between the model and the client, nothing is lost, doubled or swapped. *)
HeardInOrder == SentInOrder /\ IsPrefix(reply.sent \o relay, wire.sent)

(* What fails before there is audio is a status for the client too, and so is all that can *)
(* go wrong with a buffered answer.                                                        *)
FailureIsAStatus ==
  /\ EarlyFailureIsAStatus
  /\ request.stream /\ reply.status = "ok" => engine.made > 0
  /\ ~request.stream => reply.ending \in {"none", "whole"} /\ (reply.status = "ok" => reply.ending = "whole")

(* The slot of the worker and the lease of the core go back once, whichever of an answer's *)
(* ends come together, and the lease not before the delivery is over.                      *)
GivenBackOnce == ReleasedOnce /\ returned = IF core = "over" THEN 1 ELSE 0

(* Whatever fails and whenever the client leaves, the delivery ends, and behind it the     *)
(* thread, the process and the tasks of the worker: nobody is left blocked on the other.   *)
DeliveryEnds == <>AllOver
=============================================================================
