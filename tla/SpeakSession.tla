---------------------------- MODULE SpeakSession ----------------------------
(***************************************************************************)
(* One GET /speak/stream conversation: SpeakStreamSession of               *)
(* packages/core/src/speak/speak.stream.session.ts, with the SentenceCutter*)
(* of packages/contract/src/sentences.ts.  The client's frames are handled *)
(* one after another; opening the engine and acquiring its lease hold the  *)
(* ones behind them up; speaking runs beside that, one piece at a time;    *)
(* the idle clock runs beside both.  A text is as in Segments, written by  *)
(* the client a few fragments to a frame.                                  *)
(***************************************************************************)
EXTENDS Segments

CONSTANTS
  Longest,    \* fragments of the text
  Most,       \* frames the client sends
  Idle,       \* ticks after which a silent session is closed
  Faults      \* of "resolve", "acquire", "refused", "worker", "bad", "close"
ASSUME SessionAssumption ==
  /\ {Longest, Most, Idle} \subseteq Nat \ {0}
  /\ Faults \subseteq {"resolve", "acquire", "refused", "worker", "bad", "close"}

VARIABLES
  text,       \* what the client has sent of its text
  sends,      \* frames the client has sent
  frames,     \* frames not handled yet
  start,      \* #started: "no", "resolving", "acquiring" or "yes"
  lease,      \* "none", "asked", "held"
  returned,   \* times the lease was released
  cutter,     \* #cutter: the fragments it has, and whether it has given a piece
  queued,     \* #queued: pieces to speak before what the cutter has
  piece,      \* the piece being spoken
  at,         \* #speaking: "free", "asking" the worker, or its audio on its way
  heard,      \* the fragments spoken so far
  ending,     \* #ending
  closed,     \* #closed, and how: "no", or what the client was told
  quiet,      \* ticks since the idle clock was armed
  silent,     \* ticks since the client sent a frame
  owed        \* fragments the client sent before its first end

client == <<text, sends, silent, owed>>
starting == <<start, lease>>
vars == <<client, frames, starting, returned, cutter, queued, piece, at, heard, ending, closed, quiet>>

Piece(from, to, whole) == [from |-> from, to |-> to, whole |-> whole]
NoPiece == Piece(0, 0, TRUE)
Frame(type, upto) == [type |-> type, upto |-> upto]

(* Mutant: the first fragment to come is taken with it. *)
EmptiedPast(c) == [from |-> c.to + 1, to |-> c.to + 1, first |-> FALSE]

(* The cutter, once all it has was taken. *)
Emptied(c) == [from |-> c.to, to |-> c.to, first |-> FALSE]

Init ==
  /\ text = <<>> /\ sends = 0 /\ frames = <<>>
  /\ start = "no" /\ lease = "none" /\ returned = 0
  /\ cutter = [from |-> 0, to |-> 0, first |-> TRUE]
  /\ queued = <<>> /\ piece = NoPiece /\ at = "free" /\ heard = 0
  /\ ending = FALSE /\ closed = "no"
  /\ quiet = 0 /\ silent = 0 /\ owed = -1

----------------------------------------------------------------------------
(* The client. *)
Sends(type, more) ==
  /\ closed = "no" /\ sends < Most
  /\ text' = text \o more
  /\ frames' = Append(frames, Frame(type, Len(text')))
  /\ sends' = sends + 1 /\ silent' = 0
  /\ owed' = IF type = "end" /\ owed = -1 THEN Len(text) ELSE owed
  /\ UNCHANGED <<starting, returned, cutter, queued, piece, at, heard, ending, closed, quiet>>

SendsStart == sends = 0 /\ Sends("start", <<>>)
SendsText ==
  /\ sends > 0
  /\ \E n \in 1 .. Longest - Len(text) : \E more \in [1 .. n -> Kinds] : Sends("text", more)
SendsFlush == sends > 0 /\ Sends("flush", <<>>)
SendsEnd == sends > 0 /\ Sends("end", <<>>)
SendsBad == "bad" \in Faults /\ Sends("bad", <<>>)

----------------------------------------------------------------------------
(* #close, however it ends: the lease of a session that started goes back, the piece *)
(* being spoken is aborted, and what was still to be handled or said comes to nothing.  *)
Over(how) ==
  /\ closed' = how
  /\ frames' = <<>> /\ queued' = <<>> /\ piece' = NoPiece /\ at' = "free"
  /\ cutter' = Emptied(cutter)

(* Mutant: only a session that ends well gives its model back. *)
CloseKeeping(how) ==
  /\ Over(how)
  /\ returned' = IF start = "yes" /\ how = "done" THEN returned + 1 ELSE returned

Close(how) ==
  /\ Over(how)
  /\ returned' = IF start = "yes" THEN returned + 1 ELSE returned

(* #fail: the envelope, and the socket closed. *)
Fail(how) == Close(how) /\ UNCHANGED <<heard, ending>>

(* Mutant: a full stop that is the last thing to have arrived ends its sentence, *)
(* though the 3. may be about to become 3.5.                                     *)
EndsSeen(c) == {p \in c.from + 1 .. c.to : text[p] = "stop" \/ (p = c.to /\ text[p] = "inner")}

(* The sentence ends that next sees: something has arrived after them. *)
EndsIn(c) == {p \in c.from + 1 .. c.to - 1 : text[p] = "stop"}

(* Where next cuts: at the first end, and once there was a piece at the last that fits. *)
Chosen(c) == IF c.first THEN Min(EndsIn(c)) ELSE Packed(c.from, EndsIn(c))

(* #cutFrom: the first piece of what is too long, once there is one after it. *)
CutFrom(from, to) ==
  LET pieces == PieceEnds(text, from, to)
  IN IF Cardinality(pieces) < 2 THEN from ELSE Min(pieces)

(* next: the end of the piece that is ready, or where the text begins if none is. *)
ReadyTo(c) ==
  IF EndsIn(c) # {}
  THEN IF Chosen(c) - c.from <= Limit THEN Chosen(c) ELSE CutFrom(c.from, Chosen(c))
  ELSE IF c.to - c.from <= Limit THEN c.from ELSE CutFrom(c.from, c.to)

(* rest: all that has arrived, in pieces. *)
Rest(c) ==
  LET ends == Segments(text, c.from, c.to)
  IN [i \in DOMAIN ends |-> Piece(IF i = 1 THEN c.from ELSE ends[i - 1], ends[i], FALSE)]

(* Mutant: what the cutter has ready goes before what a flush has queued. *)
FlushedAreReady(q, c) == q # <<>> /\ ReadyTo(c) = c.from

FlushedFirst(q, c) == q # <<>>

(* #pump, with this queue and this cutter, from which next would cut here: a piece if *)
(* the worker is free.                                                               *)
Pump(q, c, ready, free, last) ==
  \/ /\ ~free
     /\ queued' = q /\ cutter' = c
     /\ UNCHANGED <<piece, at, closed, returned>>
  \/ /\ free /\ FlushedFirst(q, c)
     /\ piece' = Head(q) /\ queued' = Tail(q) /\ cutter' = c
     /\ at' = "asking"
     /\ UNCHANGED <<closed, returned>>
  \/ /\ free /\ ~FlushedFirst(q, c) /\ ready # c.from
     /\ piece' = Piece(c.from, ready, TRUE)
     /\ cutter' = [c EXCEPT !.from = ready, !.first = FALSE]
     /\ queued' = q /\ at' = "asking"
     /\ UNCHANGED <<closed, returned>>
  \/ /\ free /\ ~FlushedFirst(q, c) /\ ready = c.from /\ ~last
     /\ queued' = q /\ cutter' = c /\ piece' = NoPiece /\ at' = "free"
     /\ UNCHANGED <<closed, returned>>

(* Mutant: the end is told while the last piece is being spoken. *)
EndsAtOnce(q, c, ready, free, last) ==
  /\ ~FlushedFirst(q, c) /\ ready = c.from /\ last
  /\ Close("done")

(* #pump ends the session: nothing is left. *)
Ends(q, c, ready, free, last) ==
  /\ free /\ ~FlushedFirst(q, c) /\ ready = c.from /\ last
  /\ Close("done")

----------------------------------------------------------------------------
(* #frame.  What follows a piece, or a frame, leaves these frames. *)
Continue(q, c, free, last, rest) ==
  \E ready \in {ReadyTo(c)} :
    \/ Pump(q, c, ready, free, last) /\ frames' = rest
    \/ Ends(q, c, ready, free, last)

Frames(type) ==
  /\ frames # <<>> /\ start \notin {"resolving", "acquiring"}
  /\ closed = "no" /\ Head(frames).type = type

Start ==
  /\ Frames("start") /\ start = "no"
  /\ start' = "resolving" /\ quiet' = 0 /\ frames' = Tail(frames)
  /\ UNCHANGED <<client, lease, returned, cutter, queued, piece, at, heard, ending, closed>>

Text ==
  /\ Frames("text") /\ start = "yes"
  /\ UNCHANGED <<client, starting, heard, ending>>
  /\ quiet' = 0
  /\ \E c \in {[cutter EXCEPT !.to = Head(frames).upto]} :
       Continue(queued, c, at = "free", ending, Tail(frames))

(* flush, and end. *)
Flush ==
  /\ (Frames("flush") \/ Frames("end")) /\ start = "yes"
  /\ UNCHANGED <<client, starting, heard>>
  /\ quiet' = 0 /\ ending' = (ending \/ Head(frames).type = "end")
  /\ \E q \in {queued \o Rest(cutter)} :
       Continue(q, Emptied(cutter), at = "free", ending', Tail(frames))

(* What is no frame of this moment: binary, unknown, a second start, or not a start. *)
Misfit ==
  /\ \E type \in {"start", "text", "flush", "end", "bad"} :
       /\ Frames(type)
       /\ \/ type = "bad"
          \/ type = "start" /\ start = "yes"
          \/ type \notin {"start", "bad"} /\ start = "no"
  /\ Fail("error")
  /\ quiet' = 0
  /\ UNCHANGED <<client, starting>>

(* #start throws: an error for the client, if it is still there. *)
RefuseStart ==
  \/ closed = "no" /\ Fail("error")
  \/ /\ closed # "no"
     /\ UNCHANGED <<frames, returned, cutter, queued, piece, at, heard, ending, closed>>

(* #start, once resolve has answered: the lease is asked for, though the session be closed. *)
Resolved ==
  /\ start = "resolving"
  /\ \/ /\ start' = "acquiring" /\ lease' = "asked"
        /\ UNCHANGED <<frames, returned, cutter, queued, piece, at, heard, ending, closed>>
     \/ /\ "resolve" \in Faults
        /\ start' = "no" /\ UNCHANGED lease
        /\ RefuseStart
  /\ UNCHANGED <<client, quiet>>

(* Mutant: a lease that comes after the client has gone is kept. *)
StartedAnyway ==
  /\ lease' = "held" /\ start' = "yes" /\ UNCHANGED returned

(* A lease that is granted: to the session, or to nobody any more. *)
Granted ==
  /\ lease' = "held"
  /\ IF closed = "no" THEN start' = "yes" /\ UNCHANGED returned
     ELSE start' = "no" /\ returned' = returned + 1

Acquired ==
  /\ start = "acquiring"
  /\ \/ Granted /\ UNCHANGED <<frames, cutter, queued, piece, at, heard, ending, closed>>
     \/ /\ "acquire" \in Faults
        /\ start' = "no" /\ lease' = "none"
        /\ RefuseStart
  /\ UNCHANGED <<client, quiet>>

----------------------------------------------------------------------------
(* #speak, up to the worker: a piece may be refused, or be nothing but cues, or be asked for. *)
Speaking(stage) == closed = "no" /\ at = stage

Refused ==
  /\ Speaking("asking") /\ Faults \cap {"refused", "worker"} # {}
  /\ Fail("error")
  /\ UNCHANGED <<client, starting, quiet>>

Answered ==
  /\ Speaking("asking")
  /\ at' = "sending"
  /\ UNCHANGED <<client, frames, starting, returned, cutter, queued, piece, heard, ending, closed, quiet>>

(* The audio breaks off, or falls under the floor. *)
BreaksOff ==
  /\ Speaking("sending") /\ "worker" \in Faults
  /\ Fail("error")
  /\ UNCHANGED <<client, starting, quiet>>

(* Mutant: nothing is taken up once a piece has been spoken, until a frame arrives. *)
NotOnward ==
  /\ at' = "free" /\ piece' = NoPiece
  /\ UNCHANGED <<frames, returned, cutter, queued, closed>>

(* What follows a piece: the next, the end, or nothing yet. *)
Onward == Continue(queued, cutter, TRUE, ending, frames)

(* The piece is spoken, or there was nothing to say. *)
Spoken ==
  /\ Speaking("asking") \/ Speaking("sending")
  /\ UNCHANGED <<client, starting, ending>>
  /\ quiet' = 0 /\ heard' = piece.to
  /\ Onward

----------------------------------------------------------------------------
(* The socket closes from the client's side, or breaks. *)
Hangs ==
  /\ closed = "no" /\ "close" \in Faults
  /\ Fail("gone")
  /\ UNCHANGED <<client, starting, quiet>>

Tick ==
  /\ closed = "no" /\ quiet < Idle
  /\ quiet' = quiet + 1
  /\ silent' = Min({silent + 1, Idle})
  /\ UNCHANGED <<text, sends, owed, frames, starting, returned, cutter, queued, piece, at, heard, ending, closed>>

(* The idle clock goes off: armed again while a piece is being spoken. *)
Rearms ==
  /\ at # "free"
  /\ quiet' = 0
  /\ UNCHANGED <<frames, returned, cutter, queued, piece, at, heard, ending, closed>>

IdleOut ==
  /\ closed = "no" /\ quiet = Idle
  /\ \/ Rearms
     \/ at = "free" /\ Fail("idle") /\ UNCHANGED quiet
  /\ UNCHANGED <<client, starting>>

----------------------------------------------------------------------------
Clients == SendsStart \/ SendsText \/ SendsFlush \/ SendsEnd \/ SendsBad \/ Hangs
Handles == Start \/ Text \/ Flush \/ Misfit
Speaks == Refused \/ Answered \/ BreaksOff \/ Spoken
Next == Clients \/ Handles \/ Resolved \/ Acquired \/ Speaks \/ Tick \/ IdleOut

(* Promises continue and timers fire; the engine answers, the manager answers (see    *)
(* Residency), the worker ends its answers, and a client reads what it is sent.  It   *)
(* owes no frame, and need not close.                                                 *)
Fairness ==
  /\ WF_vars(Handles \/ Resolved \/ Acquired \/ Speaks)
  /\ WF_vars(Tick \/ IdleOut)

Spec == Init /\ [][Next]_vars /\ Fairness

----------------------------------------------------------------------------
(* Every variable has its type. *)
TypeOK ==
  /\ text \in Seq(Kinds) /\ Len(text) <= Longest
  /\ sends \in 0 .. Most /\ silent \in 0 .. Idle /\ quiet \in 0 .. Idle /\ owed \in -1 .. Longest
  /\ frames \in Seq([type : {"start", "text", "flush", "end", "bad"}, upto : 0 .. Longest])
  /\ start \in {"no", "resolving", "acquiring", "yes"}
  /\ lease \in {"none", "asked", "held"} /\ returned \in 0 .. 1
  /\ cutter \in [from : 0 .. Longest, to : 0 .. Longest, first : BOOLEAN]
  /\ queued \in Seq([from : 0 .. Longest, to : 0 .. Longest, whole : BOOLEAN])
  /\ piece \in [from : 0 .. Longest, to : 0 .. Longest, whole : BOOLEAN]
  /\ at \in {"free", "asking", "sending"} /\ heard \in 0 .. Longest
  /\ ending \in BOOLEAN /\ closed \in {"no", "done", "error", "idle", "gone"}

(* "The residency lease is held for the whole session, from start to the socket closing" *)
(* (docs/protocol.md, 6): given back once, when the session is over, whatever was under  *)
(* way when it ended, and by nobody before.                                              *)
LeaseIsTheSessions ==
  lease = "held" => returned = (IF closed = "no" THEN 0 ELSE 1)

(* Pieces being spoken, queued and left in the cutter are the text, from where it was    *)
(* heard to what has arrived, with nothing lost, repeated or overtaken, however flushes, *)
(* frames and endings of pieces fall.                                                    *)
SpokenInOrder ==
  LET pieces == (IF at = "free" THEN <<>> ELSE <<piece>>) \o queued
      starts == [i \in 1 .. Len(pieces) + 1 |->
                   IF i <= Len(pieces) THEN pieces[i].from ELSE cutter.from]
  IN closed = "no" =>
       /\ starts[1] = heard
       /\ \A i \in DOMAIN pieces : pieces[i].to = starts[i + 1] /\ pieces[i].from < pieces[i].to

(* A piece is within the limit unless it is a single word, and it ends where a word ends *)
(* unless a flush cut it.                                                                *)
PiecesReadWell ==
  \A p \in Range(queued) \cup (IF at = "free" THEN {} ELSE {piece}) :
    /\ p.to - p.from <= Limit \/ \A i \in p.from + 1 .. p.to - 1 : text[i] = "inner"
    /\ p.whole => text[p.to] # "inner"

(* The worker is never left free while there is something to speak, or an end to tell: a *)
(* piece made ready by a frame, by a flush or by the end of another is taken at once.    *)
NothingReadyWaits ==
  closed = "no" /\ start = "yes" /\ at = "free" =>
    queued = <<>> /\ ReadyTo(cutter) = cutter.from /\ ~ending

(* A client told "done" has heard all it wrote before its end. *)
DoneIsAll ==
  closed = "done" => heard >= owed

(* No session holds the model for good, whatever its client sends or fails to send. *)
LeaseComesBack == lease = "held" ~> returned = 1

(* "A session that sends nothing for 60 seconds while nothing is being spoken is closed"  *)
(* (docs/protocol.md, 6).                                                                *)
OnlyTheSilentAreClosed == closed = "idle" => silent = Idle
=============================================================================
