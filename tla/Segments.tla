------------------------------ MODULE Segments ------------------------------
(***************************************************************************)
(* Where a text is broken into pieces that one generation can read:        *)
(* rhapsode_worker/text.py, and packages/contract/src/sentences.ts, which  *)
(* is the same rule.  A text is a function of its fragments 1..n, each of  *)
(* length 1, to what follows it: the same word goes on ("inner"), a word   *)
(* ends ("word"), a clause ends ("clause") or a sentence ends ("stop").    *)
(* An interval lo..hi is the fragments lo + 1 to hi; a piece is named by   *)
(* its last fragment.  The white space at a joint and the scripts written  *)
(* without any are left out.                                               *)
(***************************************************************************)
EXTENDS Integers, Sequences, FiniteSets, FiniteSetsExt, SequencesExt

CONSTANTS
  Limit,      \* the longest piece
  Kinds       \* what may follow a fragment
ASSUME SegmentsAssumption ==
  Limit \in Nat \ {0} /\ Kinds \subseteq {"inner", "word", "clause", "stop"}

(* The fragments of lo..hi after which there is one of these ends, or nothing more. *)
EndsOf(text, kinds, lo, hi) == {p \in lo + 1 .. hi : p = hi \/ text[p] \in kinds}

SentenceEnds(text, lo, hi) == EndsOf(text, {"stop"}, lo, hi)
ClauseEnds(text, lo, hi) == EndsOf(text, {"clause", "stop"}, lo, hi)
WordEnds(text, lo, hi) == EndsOf(text, {"word", "clause", "stop"}, lo, hi)

(* Mutant: the piece that no longer fits is taken all the same. *)
OneTooMany(lo, ends) ==
  LET over == {p \in ends : p - lo > Limit}
  IN IF over = {} THEN Max(ends) ELSE Min(over)

(* One turn of _pack: as much as fits, and never nothing. *)
Packed(lo, ends) ==
  LET fitting == {p \in ends : p - lo <= Limit}
  IN IF fitting = {} THEN Min(ends) ELSE Max(fitting)

(* _pack, from lo to hi, of what lies between these ends. *)
Pack(lo, hi, ends) ==
  LET packed[p \in lo .. hi] ==
        IF p = hi THEN {}
        ELSE LET next == Packed(p, {e \in ends : e > p}) IN {next} \cup packed[next]
  IN packed[lo]

(* Each part, from the end of the one before. *)
Parts(lo, ends) == {<<Max({lo} \cup {e \in ends : e < p}), p>> : p \in ends}

(* _fit, of a clause: whole, or its words packed. *)
FitClause(text, lo, hi) ==
  IF hi - lo <= Limit THEN {hi} ELSE Pack(lo, hi, WordEnds(text, lo, hi))

(* _fit, of a sentence: whole, or its clauses. *)
FitSentence(text, lo, hi) ==
  IF hi - lo <= Limit THEN {hi}
  ELSE UNION {FitClause(text, part[1], part[2]) : part \in Parts(lo, ClauseEnds(text, lo, hi))}

(* segments. *)
PieceEnds(text, lo, hi) ==
  Pack(lo, hi, UNION {FitSentence(text, part[1], part[2]) :
                        part \in Parts(lo, SentenceEnds(text, lo, hi))})

(* The same in order: the i-th piece ends where there are i ends so far. *)
Segments(text, lo, hi) ==
  LET ends == PieceEnds(text, lo, hi)
  IN [i \in 1 .. Cardinality(ends) |-> CHOOSE p \in ends : Cardinality({e \in ends : e <= p}) = i]
=============================================================================
