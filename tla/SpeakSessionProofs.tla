-------------------------- MODULE SpeakSessionProofs --------------------------
(***************************************************************************)
(* That a streaming session speaks what was written, whole, in order and   *)
(* in pieces that read well, and that its lease is its own: for texts,     *)
(* pieces, numbers of frames and idle times of any size, and whatever      *)
(* fails or closes.                                                        *)
(***************************************************************************)
EXTENDS SpeakSession, FiniteSetTheorems, SequenceTheorems, WellFoundedInduction, TLAPS

-----------------------------------------------------------------------------
(* The least and the greatest of a set.                                    *)

LEMMA Least ==
  ASSUME NEW S, S \subseteq Nat, S # {}
  PROVE  \E m \in S : \A k \in S : m <= k
  <1>1. IsWellFoundedOn(OpToRel(<, Nat), Nat)
    BY NatLessThanWellFounded
  <1>2. PICK m \in S : \A y \in S : ~ (<<y, m>> \in OpToRel(<, Nat))
    BY <1>1, WFMin
  <1>3. \A y \in S : ~(y < m)
    BY <1>2 DEF OpToRel
  <1> QED
    BY <1>3

LEMMA Greatest ==
  ASSUME NEW n \in Nat, NEW S \in SUBSET (0..n), S # {}
  PROVE  \E m \in S : \A k \in S : k <= m
  <1> DEFINE T == {n - k : k \in S}
  <1>1. T \subseteq Nat
    <2>1. ASSUME NEW k \in S PROVE n - k \in Nat
      OBVIOUS
    <2> QED
      BY <2>1
  <1>5. T # {}
    OBVIOUS
  <1>2. PICK m \in T : \A k \in T : m <= k
    BY <1>1, <1>5, Least
  <1>3. PICK k \in S : m = n - k
    OBVIOUS
  <1>4. ASSUME NEW j \in S
        PROVE  j <= k
    <2>1. m <= n - j
      BY <1>2
    <2> QED
      BY <1>3, <2>1
  <1> QED
    BY <1>4

LEMMA MinIs ==
  ASSUME NEW S, S \subseteq Nat, S # {}
  PROVE  Min(S) \in S /\ \A k \in S : Min(S) <= k
  BY Least DEF Min

LEMMA MaxIs ==
  ASSUME NEW n \in Nat, NEW S \in SUBSET (0..n), S # {}
  PROVE  Max(S) \in S /\ \A k \in S : k <= Max(S)
  <1>1. \E m \in S : \A k \in S : m >= k
    BY Greatest
  <1> QED
    BY <1>1 DEF Max

-----------------------------------------------------------------------------
(* Packing.                                                                *)

LEMMA PackedIs ==
  ASSUME NEW lo \in Nat, NEW hi \in Nat, NEW ends \in SUBSET (lo + 1 .. hi), ends # {}
  PROVE  /\ Packed(lo, ends) \in ends
         /\ \/ Packed(lo, ends) - lo <= Limit
            \/ \A e \in ends : Packed(lo, ends) <= e
  <1> DEFINE fitting == {p \in ends : p - lo <= Limit}
  <1>0. ends \subseteq 0..hi /\ ends \subseteq Nat
    OBVIOUS
  <1>1. CASE fitting = {}
    <2>1. Packed(lo, ends) = Min(ends)
      BY <1>1 DEF Packed
    <2>2. Min(ends) \in ends /\ \A e \in ends : Min(ends) <= e
      BY <1>0, MinIs
    <2> QED
      BY <2>1, <2>2
  <1>2. CASE fitting # {}
    <2>1. Packed(lo, ends) = Max(fitting)
      BY <1>2 DEF Packed
    <2>2. fitting \in SUBSET (0..hi)
      BY <1>0
    <2>3. Max(fitting) \in fitting
      BY <1>2, <2>2, MaxIs
    <2> QED
      BY <2>1, <2>3
  <1> QED
    BY <1>1, <1>2

(* What the recursion of Pack is of, and that there is such a function.    *)
Packs(f, lo, hi, ends) ==
  f = [p \in lo .. hi |-> IF p = hi THEN {}
                          ELSE {Packed(p, {e \in ends : e > p})} \cup f[Packed(p, {e \in ends : e > p})]]

(* Such a function exists: what is packed from p on is the least set that has the first *)
(* end packed from p, and with an end the one packed from it.                          *)
LEMMA PackExists ==
  ASSUME NEW lo \in Nat, NEW hi \in Nat, lo <= hi, NEW ends \in SUBSET (lo + 1 .. hi),
         lo < hi => hi \in ends
  PROVE  \E f : Packs(f, lo, hi, ends)
  <1> DEFINE Step(p) == Packed(p, {e \in ends : e > p})
             Closed(X) == \A x \in X : x # hi => Step(x) \in X
             From(p) == IF p = hi THEN {}
                        ELSE {e \in ends : \A X \in SUBSET ends : Step(p) \in X /\ Closed(X) => e \in X}
             f == [p \in lo .. hi |-> From(p)]
  <1>1. ASSUME NEW p \in lo .. hi, p # hi
        PROVE  Step(p) \in ends
    <2> DEFINE later == {e \in ends : e > p}
    <2>1. later \in SUBSET (p + 1 .. hi)
      <3>1. ASSUME NEW e \in ends, e > p PROVE e \in p + 1 .. hi
        BY <3>1
      <3> QED
        BY <3>1
    <2>2. hi \in later
      BY <1>1
    <2>3. p \in Nat
      OBVIOUS
    <2> HIDE DEF later
    <2>4. Packed(p, later) \in later
      BY <2>1, <2>2, <2>3, PackedIs
    <2> QED
      BY <2>4 DEF later
  <1>2. ends \subseteq lo .. hi
    OBVIOUS
  <1> HIDE DEF Step
  <1>3. ASSUME NEW p \in lo .. hi, p # hi
        PROVE  From(p) = {Step(p)} \cup From(Step(p))
    <2>1. Step(p) \in ends
      BY <1>1, <1>3
    <2>2. ASSUME NEW e \in From(p), e # Step(p)
          PROVE  e \in From(Step(p))
      <3> DEFINE X == {Step(p)} \cup From(Step(p))
      <3>1. X \in SUBSET ends
        BY <2>1
      <3>2. ASSUME NEW x \in X, x # hi
            PROVE  Step(x) \in X
        <4>0. Step(p) # hi
          BY <3>2
        <4>1. Step(x) \in ends
          BY <3>1, <3>2, <1>1, <1>2
        <4>2. ASSUME NEW Y \in SUBSET ends, Step(Step(p)) \in Y, Closed(Y)
              PROVE  Step(x) \in Y
          <5>1. CASE x = Step(p)
            BY <5>1, <4>2
          <5>2. CASE x \in From(Step(p))
            BY <5>2, <4>0, <4>2, <3>2
          <5> QED
            BY <5>1, <5>2
        <4>3. Step(x) \in From(Step(p))
          BY <4>0, <4>1, <4>2
        <4> QED
          BY <4>3
      <3>3. e \in X
        BY <2>2, <1>3, <3>1, <3>2
      <3> QED
        BY <3>3, <2>2
    <2>3. Step(p) \in From(p)
      BY <2>1, <1>3
    <2>4. ASSUME NEW e \in From(Step(p))
          PROVE  e \in From(p)
      <3>1. Step(p) # hi
        BY <2>4
      <3> QED
        BY <2>4, <3>1, <1>3
    <2> QED
      BY <2>2, <2>3, <2>4
  <1>4. \A p \in lo .. hi : p # hi => From(p) = {Step(p)} \cup f[Step(p)]
    BY <1>1, <1>2, <1>3
  <1>5. f = [p \in lo .. hi |-> IF p = hi THEN {} ELSE {Step(p)} \cup f[Step(p)]]
    <2> HIDE DEF From
    <2>1. \A p \in lo .. hi : f[p] = IF p = hi THEN {} ELSE {Step(p)} \cup f[Step(p)]
      BY <1>4 DEF From
    <2> QED
      BY <2>1
  <1>6. Packs(f, lo, hi, ends)
    BY <1>5 DEF Packs, Step
  <1> QED
    BY <1>6

LEMMA PackRecursion ==
  ASSUME NEW lo, NEW hi, NEW ends, \E f : Packs(f, lo, hi, ends)
  PROVE  \E f : Packs(f, lo, hi, ends) /\ Pack(lo, hi, ends) = f[lo]
  <1> DEFINE g == CHOOSE f : Packs(f, lo, hi, ends)
  <1>1. Packs(g, lo, hi, ends)
    BY Zenon
  <1>2. Pack(lo, hi, ends) = g[lo]
    BY DEF Pack, Packs
  <1> QED
    BY <1>1, <1>2

-----------------------------------------------------------------------------
(* What makes a way to cut lo..hi a good one: it leaves nothing over, ends pieces where *)
(* words end, and makes none longer than the limit that is not one word.               *)

Fits(t, a, b) == b - a <= Limit \/ \A i \in a + 1 .. b - 1 : t[i] = "inner"

Adjacent(S, a, b) == a < b /\ \A c \in S : ~(a < c /\ c < b)

Cuts(t, lo, hi, S) ==
  /\ S \subseteq lo + 1 .. hi
  /\ lo < hi => hi \in S
  /\ \A p \in S : p = hi \/ t[p] # "inner"
  /\ \A a \in {lo} \cup S, b \in S : Adjacent(S, a, b) => Fits(t, a, b)

(* What a text is, as far as it has arrived. *)
Written(t, n) == \A i \in 1 .. n : t[i] \in {"inner", "word", "clause", "stop"}

LEMMA WordsCut ==
  ASSUME NEW t, NEW lo \in Nat, NEW hi \in Nat, lo <= hi, Written(t, hi)
  PROVE  Cuts(t, lo, hi, WordEnds(t, lo, hi))
  <1> DEFINE S == WordEnds(t, lo, hi)
  <1>1. S = {p \in lo + 1 .. hi : p = hi \/ t[p] \in {"word", "clause", "stop"}}
    BY DEF WordEnds, EndsOf
  <1>2. S \subseteq lo + 1 .. hi /\ (lo < hi => hi \in S)
    BY <1>1
  <1>3. \A p \in S : p = hi \/ t[p] # "inner"
    BY <1>1
  <1>4. ASSUME NEW a \in {lo} \cup S, NEW b \in S, Adjacent(S, a, b), NEW i \in a + 1 .. b - 1
        PROVE  t[i] = "inner"
    <2>1. a \in Nat /\ b \in Nat /\ lo <= a /\ b <= hi
      BY <1>2
    <2>2. i \in lo + 1 .. hi /\ i # hi /\ a < i /\ i < b /\ i \in 1 .. hi
      BY <2>1
    <2>3. i \notin S
      BY <2>2, <1>4 DEF Adjacent
    <2>4. t[i] \notin {"word", "clause", "stop"}
      BY <2>2, <2>3, <1>1
    <2> QED
      BY <2>2, <2>4 DEF Written
  <1> HIDE DEF S
  <1> QED
    BY <1>2, <1>3, <1>4 DEF Cuts, Fits, S

(* One piece that fits. *)
LEMMA WholeCuts ==
  ASSUME NEW t, NEW lo \in Nat, NEW hi \in Nat, lo < hi, hi - lo <= Limit
  PROVE  Cuts(t, lo, hi, {hi})
  BY DEF Cuts, Adjacent, Fits

(* Packing what is cut well leaves it cut well. *)
LEMMA PackCuts ==
  ASSUME NEW t, NEW lo \in Nat, NEW hi \in Nat, lo <= hi, NEW ends, Cuts(t, lo, hi, ends)
  PROVE  Cuts(t, lo, hi, Pack(lo, hi, ends)) /\ Pack(lo, hi, ends) \subseteq ends
  <1> DEFINE Step(p) == Packed(p, {e \in ends : e > p})
  <1>1. ends \in SUBSET (lo + 1 .. hi) /\ (lo < hi => hi \in ends)
    BY DEF Cuts
  <1>2. PICK f : Packs(f, lo, hi, ends) /\ Pack(lo, hi, ends) = f[lo]
    BY <1>1, PackExists, PackRecursion
  <1>3. \A p \in lo .. hi : f[p] = IF p = hi THEN {} ELSE {Step(p)} \cup f[Step(p)]
    BY <1>2 DEF Packs
  <1>4. ASSUME NEW p \in {lo} \cup ends, p # hi
        PROVE  /\ Step(p) \in ends /\ p < Step(p) /\ Step(p) <= hi
               /\ Fits(t, p, Step(p))
    <2> DEFINE later == {e \in ends : e > p}
    <2>0. p \in Nat /\ lo <= p /\ p < hi
      BY <1>1, <1>4
    <2>1. later \in SUBSET (p + 1 .. hi)
      <3>1. ASSUME NEW e \in ends, e > p PROVE e \in p + 1 .. hi
        BY <1>1, <2>0, <3>1
      <3> QED
        BY <3>1
    <2>2. hi \in later
      BY <1>1, <2>0
    <2> DEFINE s == Packed(p, later)
    <2>3. s \in later /\ (s - p <= Limit \/ \A e \in later : s <= e)
      <3> HIDE DEF later
      <3> QED
        BY <2>0, <2>1, <2>2, PackedIs
    <2>4. s \in ends /\ p < s /\ s <= hi /\ s \in Nat
      <3>1. s \in p + 1 .. hi
        BY <2>1, <2>3
      <3> QED
        BY <2>3, <3>1, <2>0
    <2>5. CASE \A e \in later : s <= e
      <3>1. \A c \in ends : ~(p < c /\ c < s)
        <4>1. ASSUME NEW c \in ends, p < c, c < s PROVE FALSE
          <5>1. c \in Nat
            BY <1>1
          <5>2. s <= c
            BY <4>1, <2>5, <5>1, <2>0
          <5> QED
            BY <5>1, <5>2, <4>1, <2>4
        <4> QED
          BY <4>1
      <3>2. Adjacent(ends, p, s)
        BY <2>4, <3>1 DEF Adjacent
      <3> HIDE DEF s
      <3> QED
        BY <2>4, <3>2 DEF Cuts, s
    <2>6. CASE s - p <= Limit
      BY <2>4, <2>6 DEF Fits
    <2> QED
      BY <2>3, <2>4, <2>5, <2>6
  <1> DEFINE Good(p) == f[p] \subseteq ends /\ Cuts(t, p, hi, f[p])
             Bad == {n \in Nat : \E p \in {lo} \cup ends : n = hi - p /\ ~Good(p)}
  <1> HIDE DEF Step
  <1>5. ASSUME NEW p \in {lo} \cup ends, p # hi, Good(Step(p))
        PROVE  Good(p)
    <2> DEFINE s == Step(p)
    <2>1. s \in ends /\ p < s /\ s <= hi /\ Fits(t, p, s)
      BY <1>4, <1>5
    <2>2. p \in lo .. hi /\ p \in Nat /\ s \in Nat
      <3>1. s \in lo + 1 .. hi /\ (p = lo \/ p \in lo + 1 .. hi)
        BY <1>1, <2>1
      <3> HIDE DEF s
      <3> QED
        BY <3>1
    <2>3. f[p] = {s} \cup f[s]
      BY <1>3, <1>5, <2>2
    <2>4. f[s] \subseteq ends /\ Cuts(t, s, hi, f[s])
      BY <1>5
    <2> HIDE DEF s
    <2>5. f[p] \subseteq ends
      BY <2>1, <2>3, <2>4
    <2>6. f[s] \subseteq s + 1 .. hi /\ (s < hi => hi \in f[s])
      BY <2>4 DEF Cuts
    <2>7. f[p] \subseteq p + 1 .. hi /\ hi \in f[p]
      BY <2>1, <2>2, <2>3, <2>6
    <2>8. \A q \in f[p] : q = hi \/ t[q] # "inner"
      BY <2>5 DEF Cuts
    <2>9. ASSUME NEW a \in {p} \cup f[p], NEW b \in f[p], Adjacent(f[p], a, b)
          PROVE  Fits(t, a, b)
      <3>0. a \in Nat /\ b \in Nat /\ a < b /\ \A c \in f[p] : ~(a < c /\ c < b)
        BY <2>7, <2>2, <2>9 DEF Adjacent
      <3>1. CASE a = p
        <4>1. ~(s < b)
          BY <3>0, <3>1, <2>1, <2>3
        <4>2. b = s
          BY <4>1, <3>0, <2>2, <2>3, <2>6
        <4> QED
          BY <3>1, <4>2, <2>1
      <3>2. CASE a # p
        <4>1. a \in {s} \cup f[s]
          BY <3>2, <2>3, <2>9
        <4>2. s <= a
          BY <4>1, <2>2, <2>6
        <4>3. b \in f[s]
          BY <4>2, <3>0, <2>2, <2>3
        <4>4. Adjacent(f[s], a, b)
          BY <3>0, <2>3 DEF Adjacent
        <4> QED
          BY <4>1, <4>3, <4>4, <2>4 DEF Cuts
      <3> QED
        BY <3>1, <3>2
    <2> QED
      BY <2>5, <2>7, <2>8, <2>9 DEF Cuts
  <1>6. Good(hi)
    <2>1. hi \in lo .. hi
      OBVIOUS
    <2>2. f[hi] = {}
      BY <1>3, <2>1
    <2> QED
      BY <2>2 DEF Cuts
  <1>7. \A p \in {lo} \cup ends : p \in Nat /\ p <= hi
    BY <1>1
  <1>8. Bad = {}
    <2> SUFFICES ASSUME Bad # {} PROVE FALSE
      OBVIOUS
    <2>1. Bad \subseteq Nat
      OBVIOUS
    <2>2. PICK n \in Bad : \A k \in Bad : n <= k
      BY <2>1, Least
    <2>3. PICK p \in {lo} \cup ends : n = hi - p /\ ~Good(p)
      BY <2>2
    <2> HIDE DEF Good
    <2>4. p # hi
      BY <1>6, <2>3
    <2>5. Step(p) \in ends /\ p < Step(p) /\ Step(p) <= hi
      BY <1>4, <2>4
    <2>6. ~Good(Step(p))
      BY <1>5, <2>3, <2>4
    <2>7. hi - Step(p) \in Nat /\ hi - Step(p) < n
      <3> DEFINE s == Step(p)
      <3>1. s \in Nat /\ s <= hi /\ p < s /\ p \in Nat
        BY <1>7, <2>5
      <3> HIDE DEF s
      <3>2. hi - s \in Nat /\ hi - s < hi - p
        BY <3>1
      <3> QED
        BY <3>2, <2>3 DEF s
    <2>8. hi - Step(p) \in Bad
      BY <2>5, <2>6, <2>7
    <2> QED
      BY <2>2, <2>7, <2>8, <2>1
  <1>9. Good(lo)
    <2>1. hi - lo \in Nat
      OBVIOUS
    <2>2. hi - lo \notin Bad
      BY <1>8
    <2> HIDE DEF Good
    <2> QED
      BY <2>1, <2>2
  <1> QED
    BY <1>2, <1>9

(* A part is from the end before it, or from where the t begins. *)
LEMMA PartIs ==
  ASSUME NEW lo \in Nat, NEW hi \in Nat, NEW ends \in SUBSET (lo + 1 .. hi),
         NEW part \in Parts(lo, ends)
  PROVE  /\ part[2] \in ends /\ part[2] \in Nat /\ part[2] <= hi
         /\ part[1] \in {lo} \cup ends /\ part[1] \in Nat /\ lo <= part[1] /\ part[1] < part[2]
         /\ \A e \in ends : e < part[2] => e <= part[1]
         /\ part = <<part[1], part[2]>>
  <1> DEFINE Back(p) == {lo} \cup {e \in ends : e < p}
  <1>1. PICK p \in ends : part = <<Max(Back(p)), p>>
    BY DEF Parts
  <1>2. Back(p) \in SUBSET (0 .. hi)
    <2>1. \A e \in ends : e \in 0 .. hi
      OBVIOUS
    <2>2. lo \in 0 .. hi
      OBVIOUS
    <2> QED
      BY <2>1, <2>2
  <1>3. Max(Back(p)) \in Back(p) /\ \A e \in Back(p) : e <= Max(Back(p))
    <2>1. Back(p) # {}
      OBVIOUS
    <2> HIDE DEF Back
    <2> QED
      BY <1>2, <2>1, MaxIs
  <1> DEFINE b == Max(Back(p))
  <1>4. part[1] = b /\ part[2] = p /\ part = <<b, p>>
    BY <1>1
  <1>5. p \in lo + 1 .. hi /\ p \in Nat
    OBVIOUS
  <1>6. b \in {lo} \cup ends /\ (b = lo \/ b < p) /\ \A e \in ends : e < p => e <= b
    BY <1>3
  <1>7. b \in Nat /\ lo <= b /\ b < p
    <2> HIDE DEF b
    <2>1. b = lo \/ b \in lo + 1 .. hi
      BY <1>6
    <2> QED
      BY <2>1, <1>5, <1>6
  <1> HIDE DEF b
  <1> QED
    BY <1>4, <1>5, <1>6, <1>7

(* What is cut at some ends, and again between them, is cut well if each part is. *)
LEMMA PartsCut ==
  ASSUME NEW t, NEW lo \in Nat, NEW hi \in Nat, lo < hi,
         NEW ends \in SUBSET (lo + 1 .. hi), hi \in ends, \A p \in ends : p = hi \/ t[p] # "inner",
         NEW H, \A part \in Parts(lo, ends) : Cuts(t, part[1], part[2], H[part])
  PROVE  Cuts(t, lo, hi, UNION {H[part] : part \in Parts(lo, ends)})
  <1> DEFINE U == UNION {H[part] : part \in Parts(lo, ends)}
  <1>1. ASSUME NEW part \in Parts(lo, ends), NEW x \in H[part]
        PROVE  /\ x \in lo + 1 .. hi /\ part[1] < x /\ x <= part[2]
               /\ x = hi \/ t[x] # "inner"
    <2> DEFINE a == part[1]
               p == part[2]
    <2>1. Cuts(t, a, p, H[part])
      OBVIOUS
    <2>2. p \in ends /\ p \in Nat /\ p <= hi /\ a \in Nat /\ lo <= a
      BY PartIs
    <2> HIDE DEF a, p
    <2>3. x \in a + 1 .. p /\ (x = p \/ t[x] # "inner")
      BY <2>1 DEF Cuts
    <2>4. x \in lo + 1 .. hi /\ a < x /\ x <= p
      BY <2>2, <2>3
    <2> QED
      BY <2>2, <2>3, <2>4 DEF a, p
  <1>2. ASSUME NEW p \in ends
        PROVE  p \in U
    <2> DEFINE part == <<Max({lo} \cup {e \in ends : e < p}), p>>
    <2>1. part \in Parts(lo, ends) /\ part[2] = p
      BY DEF Parts
    <2> HIDE DEF part
    <2>2. part[1] < p /\ Cuts(t, part[1], p, H[part])
      BY <2>1, PartIs
    <2>3. p \in H[part]
      BY <2>2 DEF Cuts
    <2> QED
      BY <2>1, <2>3
  <1>3. ASSUME NEW a \in {lo} \cup U, NEW b \in U, Adjacent(U, a, b)
        PROVE  Fits(t, a, b)
    <2>1. PICK part \in Parts(lo, ends) : b \in H[part]
      OBVIOUS
    <2> DEFINE s == part[1]
               p == part[2]
    <2>2. /\ p \in ends /\ p \in Nat /\ s \in {lo} \cup ends /\ s \in Nat /\ lo <= s /\ s < p
          /\ \A e \in ends : e < p => e <= s
          /\ part = <<s, p>>
      BY PartIs
    <2>3. s < b /\ b <= p /\ b \in Nat
      <3>1. b \in lo + 1 .. hi /\ s < b /\ b <= p
        BY <1>1, <2>1
      <3> HIDE DEF s, p
      <3> QED
        BY <3>1
    <2>4. Cuts(t, s, p, H[part])
      OBVIOUS
    <2> HIDE DEF s, p
    <2>5. a \in Nat /\ a < b
      <3>1. a = lo \/ a \in lo + 1 .. hi
        BY <1>1
      <3> QED
        BY <3>1, <1>3 DEF Adjacent
    <2>6. s <= a
      <3>1. CASE s = lo
        <4>1. a = lo \/ a \in lo + 1 .. hi
          BY <1>1
        <4> QED
          BY <3>1, <4>1
      <3>2. CASE s \in ends
        <4>1. s \in U
          BY <3>2, <1>2
        <4>2. ~(a < s /\ s < b)
          BY <4>1, <1>3 DEF Adjacent
        <4> QED
          BY <4>2, <2>2, <2>3, <2>5
      <3> QED
        BY <3>1, <3>2, <2>2
    <2>7. a \in {s} \cup H[part]
      <3> SUFFICES ASSUME a # s PROVE a \in H[part]
        OBVIOUS
      <3>1. a \in U
        <4>1. a # lo
          BY <2>2, <2>6
        <4> QED
          BY <4>1
      <3>2. PICK other \in Parts(lo, ends) : a \in H[other]
        BY <3>1
      <3> DEFINE s2 == other[1]
                 p2 == other[2]
      <3>3. /\ p2 \in ends /\ p2 \in Nat /\ s2 \in {lo} \cup ends /\ s2 \in Nat /\ s2 < p2
            /\ \A e \in ends : e < p2 => e <= s2
            /\ other = <<s2, p2>>
        BY PartIs
      <3>4. s2 < a /\ a <= p2
        BY <1>1, <3>2
      <3> HIDE DEF s2, p2
      <3>5. ~(p2 < p)
        BY <2>2, <2>5, <2>6, <3>3, <3>4
      <3>6. ~(p < p2)
        BY <2>2, <2>3, <2>5, <3>3, <3>4
      <3>7. p2 = p
        BY <3>5, <3>6, <3>3, <2>2
      <3>8. other = part
        <4>1. other = <<Max({lo} \cup {e \in ends : e < p}), p>> /\ part = <<Max({lo} \cup {e \in ends : e < p}), p>>
          BY <2>2, <3>3, <3>7 DEF Parts
        <4> QED
          BY <4>1
      <3> QED
        BY <3>2, <3>8
    <2>8. Adjacent(H[part], a, b)
      BY <1>3, <2>1 DEF Adjacent
    <2> QED
      BY <2>1, <2>4, <2>7, <2>8 DEF Cuts
  <1>4. U \subseteq lo + 1 .. hi /\ \A x \in U : x = hi \/ t[x] # "inner"
    BY <1>1
  <1>5. hi \in U
    BY <1>2
  <1> HIDE DEF U
  <1>6. Cuts(t, lo, hi, U)
    BY <1>3, <1>4, <1>5 DEF Cuts
  <1> QED
    BY <1>6 DEF U

LEMMA ClauseFits ==
  ASSUME NEW t, NEW lo \in Nat, NEW hi \in Nat, lo < hi, Written(t, hi)
  PROVE  Cuts(t, lo, hi, FitClause(t, lo, hi))
  <1>1. CASE hi - lo <= Limit
    BY <1>1, WholeCuts DEF FitClause
  <1>2. CASE ~(hi - lo <= Limit)
    BY <1>2, WordsCut, PackCuts DEF FitClause
  <1> QED
    BY <1>1, <1>2

LEMMA SentenceFits ==
  ASSUME NEW t, NEW lo \in Nat, NEW hi \in Nat, lo < hi, Written(t, hi)
  PROVE  Cuts(t, lo, hi, FitSentence(t, lo, hi))
  <1>1. CASE hi - lo <= Limit
    BY <1>1, WholeCuts DEF FitSentence
  <1>2. CASE ~(hi - lo <= Limit)
    <2> DEFINE ends == ClauseEnds(t, lo, hi)
               H == [part \in Parts(lo, ends) |-> FitClause(t, part[1], part[2])]
    <2>1. ends \in SUBSET (lo + 1 .. hi) /\ hi \in ends /\ \A p \in ends : p = hi \/ t[p] # "inner"
      BY DEF ClauseEnds, EndsOf
    <2> HIDE DEF ends
    <2>2. ASSUME NEW part \in Parts(lo, ends)
          PROVE  Cuts(t, part[1], part[2], H[part])
      <3>1. part[1] \in Nat /\ part[2] \in Nat /\ part[1] < part[2] /\ part[2] <= hi
        BY <2>1, PartIs
      <3>2. Written(t, part[2])
        BY <3>1 DEF Written
      <3> QED
        BY <3>1, <3>2, ClauseFits
    <2> HIDE DEF H
    <2>3. Cuts(t, lo, hi, UNION {H[part] : part \in Parts(lo, ends)})
      BY <2>1, <2>2, PartsCut
    <2>4. UNION {H[part] : part \in Parts(lo, ends)} =
            UNION {FitClause(t, part[1], part[2]) : part \in Parts(lo, ends)}
      BY DEF H
    <2> QED
      BY <1>2, <2>3, <2>4 DEF FitSentence, ends
  <1> QED
    BY <1>1, <1>2

LEMMA SentencesFit ==
  ASSUME NEW t, NEW lo \in Nat, NEW hi \in Nat, lo < hi, Written(t, hi)
  PROVE  Cuts(t, lo, hi, UNION {FitSentence(t, part[1], part[2]) : part \in Parts(lo, SentenceEnds(t, lo, hi))})
  <1> DEFINE ends == SentenceEnds(t, lo, hi)
             H == [part \in Parts(lo, ends) |-> FitSentence(t, part[1], part[2])]
  <1>1. ends \in SUBSET (lo + 1 .. hi) /\ hi \in ends /\ \A p \in ends : p = hi \/ t[p] # "inner"
    BY DEF SentenceEnds, EndsOf
  <1> HIDE DEF ends
  <1>2. ASSUME NEW part \in Parts(lo, ends)
        PROVE  Cuts(t, part[1], part[2], H[part])
    <2>1. part[1] \in Nat /\ part[2] \in Nat /\ part[1] < part[2] /\ part[2] <= hi
      BY <1>1, PartIs
    <2>2. Written(t, part[2])
      BY <2>1 DEF Written
    <2> QED
      BY <2>1, <2>2, SentenceFits
  <1> HIDE DEF H
  <1>3. Cuts(t, lo, hi, UNION {H[part] : part \in Parts(lo, ends)})
    BY <1>1, <1>2, PartsCut
  <1>4. UNION {H[part] : part \in Parts(lo, ends)} =
          UNION {FitSentence(t, part[1], part[2]) : part \in Parts(lo, ends)}
    BY DEF H
  <1> QED
    BY <1>3, <1>4 DEF ends

(* Where segments breaks a text: every piece is within the limit unless it is one word, *)
(* and ends where a word ends unless it is the last.                                    *)
THEOREM PiecesAreCutWell ==
  ASSUME NEW t, NEW lo \in Nat, NEW hi \in Nat, lo <= hi, Written(t, hi)
  PROVE  Cuts(t, lo, hi, PieceEnds(t, lo, hi))
  <1> DEFINE ends == SentenceEnds(t, lo, hi)
             U == UNION {FitSentence(t, part[1], part[2]) : part \in Parts(lo, ends)}
  <1>1. Cuts(t, lo, hi, U)
    <2>1. CASE lo < hi
      BY <2>1, SentencesFit
    <2>2. CASE lo = hi
      <3>1. ends = {}
        BY <2>2 DEF SentenceEnds, EndsOf
      <3>2. Parts(lo, ends) = {}
        BY <3>1 DEF Parts
      <3>3. U = {}
        BY <3>2
      <3> HIDE DEF U
      <3> QED
        BY <2>2, <3>3 DEF Cuts
    <2> QED
      BY <2>1, <2>2
  <1>2. PieceEnds(t, lo, hi) = Pack(lo, hi, U)
    BY DEF PieceEnds
  <1> HIDE DEF U
  <1> QED
    BY <1>1, <1>2, PackCuts

(* And it looks at nothing but what it breaks.                                          *)
LEMMA EndsAreLocal ==
  ASSUME NEW t, NEW u, NEW n \in Nat, \A i \in 1 .. n : t[i] = u[i],
         NEW lo \in Nat, NEW hi \in Nat, hi <= n, NEW kinds
  PROVE  EndsOf(t, kinds, lo, hi) = EndsOf(u, kinds, lo, hi)
  <1>1. \A p \in lo + 1 .. hi : t[p] = u[p]
    OBVIOUS
  <1> QED
    BY <1>1 DEF EndsOf

LEMMA PiecesAreLocal ==
  ASSUME NEW t, NEW u, NEW n \in Nat, \A i \in 1 .. n : t[i] = u[i],
         NEW lo \in Nat, NEW hi \in Nat, hi <= n
  PROVE  PieceEnds(t, lo, hi) = PieceEnds(u, lo, hi)
  <1>1. ASSUME NEW a \in Nat, NEW p \in Nat, p <= n
        PROVE  FitClause(t, a, p) = FitClause(u, a, p)
    <2>1. WordEnds(t, a, p) = WordEnds(u, a, p)
      BY <1>1, EndsAreLocal DEF WordEnds
    <2> QED
      BY <2>1 DEF FitClause
  <1>2. ASSUME NEW a \in Nat, NEW p \in Nat, p <= n
        PROVE  FitSentence(t, a, p) = FitSentence(u, a, p)
    <2> DEFINE ends == ClauseEnds(t, a, p)
    <2>1. ends = ClauseEnds(u, a, p)
      BY <1>2, EndsAreLocal DEF ClauseEnds
    <2>2. ends \in SUBSET (a + 1 .. p)
      BY DEF ClauseEnds, EndsOf
    <2> HIDE DEF ends
    <2>3. ASSUME NEW part \in Parts(a, ends)
          PROVE  FitClause(t, part[1], part[2]) = FitClause(u, part[1], part[2])
      <3>1. part[1] \in Nat /\ part[2] \in Nat /\ part[2] <= p
        BY <2>2, PartIs
      <3> QED
        BY <3>1, <1>2, <1>1
    <2>4. {FitClause(t, part[1], part[2]) : part \in Parts(a, ends)} =
            {FitClause(u, part[1], part[2]) : part \in Parts(a, ends)}
      BY <2>3
    <2> QED
      BY <2>1, <2>4 DEF FitSentence, ends
  <1> DEFINE ends == SentenceEnds(t, lo, hi)
  <1>3. ends = SentenceEnds(u, lo, hi)
    BY EndsAreLocal DEF SentenceEnds
  <1>4. ends \in SUBSET (lo + 1 .. hi)
    BY DEF SentenceEnds, EndsOf
  <1> HIDE DEF ends
  <1>5. ASSUME NEW part \in Parts(lo, ends)
        PROVE  FitSentence(t, part[1], part[2]) = FitSentence(u, part[1], part[2])
    <2>1. part[1] \in Nat /\ part[2] \in Nat /\ part[2] <= hi
      BY <1>4, PartIs
    <2> QED
      BY <2>1, <1>2
  <1>6. {FitSentence(t, part[1], part[2]) : part \in Parts(lo, ends)} =
          {FitSentence(u, part[1], part[2]) : part \in Parts(lo, ends)}
    BY <1>5
  <1> QED
    BY <1>3, <1>6 DEF PieceEnds, ends

-----------------------------------------------------------------------------
(* Ends in order.                                                          *)

Rank(S, p) == Cardinality({e \in S : e <= p})
Ordered(S) == [i \in 1 .. Cardinality(S) |-> CHOOSE p \in S : Rank(S, p) = i]

LEMMA RankIs ==
  ASSUME NEW lo \in Nat, NEW hi \in Nat, NEW S \in SUBSET (lo + 1 .. hi)
  PROVE  /\ IsFiniteSet(S) /\ Cardinality(S) \in Nat
         /\ \A p \in S : Rank(S, p) \in 1 .. Cardinality(S)
         /\ \A p, q \in S : p < q => Rank(S, p) < Rank(S, q)
  <1>1. IsFiniteSet(S) /\ Cardinality(S) \in Nat
    <2>1. IsFiniteSet(lo + 1 .. hi)
      BY FS_Interval
    <2> QED
      BY <2>1, FS_Subset, FS_CardinalityType
  <1>2. S \subseteq Nat
    OBVIOUS
  <1>3. ASSUME NEW p \in S
        PROVE  Rank(S, p) \in 1 .. Cardinality(S)
    <2> DEFINE T == {e \in S : e <= p}
    <2>1. p \in T /\ T \in SUBSET S
      BY <1>2
    <2> HIDE DEF T
    <2>2. IsFiniteSet(T) /\ Cardinality(T) <= Cardinality(S)
      BY <1>1, <2>1, FS_Subset
    <2>3. Cardinality(T) \in Nat /\ Cardinality(T) # 0
      BY <2>1, <2>2, FS_CardinalityType, FS_EmptySet
    <2>4. Rank(S, p) = Cardinality(T)
      BY DEF Rank, T
    <2> QED
      BY <1>1, <2>2, <2>3, <2>4
  <1>4. ASSUME NEW p \in S, NEW q \in S, p < q
        PROVE  Rank(S, p) < Rank(S, q)
    <2> DEFINE T == {e \in S : e <= p}
               U == {e \in S : e <= q}
    <2>1. T \in SUBSET U /\ U \in SUBSET S /\ q \in U /\ q \notin T
      <3>1. \A e \in S : e <= p => e <= q
        BY <1>2, <1>4
      <3>2. q <= q /\ ~(q <= p)
        BY <1>2, <1>4
      <3> QED
        BY <3>1, <3>2
    <2> HIDE DEF T, U
    <2>2. IsFiniteSet(U)
      BY <1>1, <2>1, FS_Subset
    <2>3. IsFiniteSet(T) /\ Cardinality(T) <= Cardinality(U) /\ Cardinality(U) # Cardinality(T)
      BY <2>1, <2>2, FS_Subset
    <2>4. Cardinality(T) \in Nat /\ Cardinality(U) \in Nat
      BY <2>2, <2>3, FS_CardinalityType
    <2>5. Rank(S, p) = Cardinality(T) /\ Rank(S, q) = Cardinality(U)
      BY DEF Rank, T, U
    <2> QED
      BY <2>3, <2>4, <2>5
  <1> QED
    BY <1>1, <1>3, <1>4

LEMMA EveryRank ==
  ASSUME NEW lo \in Nat, NEW hi \in Nat, NEW S \in SUBSET (lo + 1 .. hi)
  PROVE  \A i \in 1 .. Cardinality(S) : \E p \in S : Rank(S, p) = i
  <1>1. IsFiniteSet(S) /\ Cardinality(S) \in Nat
    BY RankIs
  <1>2. S \subseteq Nat
    OBVIOUS
  <1> DEFINE n == Cardinality(S)
             Missing == {i \in 1 .. n : \A p \in S : Rank(S, p) # i}
  <1> SUFFICES ASSUME Missing # {} PROVE FALSE
    OBVIOUS
  <1>3. Missing \subseteq Nat
    BY <1>1
  <1>4. PICK i \in Missing : \A k \in Missing : i <= k
    BY <1>3, Least
  <1>5. i \in Nat /\ 1 <= i /\ i <= n /\ n \in Nat
    BY <1>1
  <1>6. \A p \in S : Rank(S, p) # i
    OBVIOUS
  <1> DEFINE Low == {e \in S : Rank(S, e) < i}
             High == S \ Low
  <1>7. ASSUME NEW p \in S
        PROVE  Rank(S, p) \in Nat /\ 1 <= Rank(S, p)
    <2>1. Rank(S, p) \in 1 .. Cardinality(S)
      BY RankIs
    <2> QED
      BY <2>1, <1>1
  <1>8. Low \in SUBSET S /\ IsFiniteSet(Low) /\ Cardinality(Low) \in Nat
    BY <1>1, FS_Subset, FS_CardinalityType
  (* What ranks below i is i - 1 ends, and they are not all. *)
  <1>9. Cardinality(Low) = i - 1
    <2>1. CASE i = 1
      <3>1. Low = {}
        <4>1. ASSUME NEW e \in S
              PROVE  ~(Rank(S, e) < 1)
          BY <1>7
        <4> QED
          BY <2>1, <4>1
      <3> QED
        BY <2>1, <3>1, FS_EmptySet
    <2>2. CASE i # 1
      <3>1. i - 1 \in 1 .. n /\ i - 1 < i /\ i - 1 \in Nat
        BY <1>5, <2>2
      <3>2. i - 1 \notin Missing
        BY <1>4, <1>5, <3>1
      <3>3. PICK p \in S : Rank(S, p) = i - 1
        BY <3>1, <3>2
      <3>4. ASSUME NEW e \in S
            PROVE  e <= p <=> Rank(S, e) < i
        <4>1. e \in Nat /\ p \in Nat /\ Rank(S, e) \in Nat
          BY <1>2, <1>7
        <4>2. (e < p => Rank(S, e) < Rank(S, p)) /\ (p < e => Rank(S, p) < Rank(S, e))
          BY RankIs
        <4>3. Rank(S, e) # i
          BY <1>6
        <4>4. e = p => Rank(S, e) = i - 1
          BY <3>3
        <4> QED
          BY <4>1, <4>2, <4>3, <4>4, <3>3, <1>5
      <3>5. Low = {e \in S : e <= p}
        BY <3>4
      <3> QED
        BY <3>3, <3>5 DEF Rank
    <2> QED
      BY <2>1, <2>2
  <1>10. High # {}
    <2> SUFFICES ASSUME High = {} PROVE FALSE
      OBVIOUS
    <2>1. Low = S
      OBVIOUS
    <2> HIDE DEF Low
    <2> QED
      BY <2>1, <1>9, <1>5
  <1>11. PICK q \in High : \A k \in High : q <= k
    BY <1>2, <1>10, Least
  <1>12. {e \in S : e <= q} = Low \cup {q}
    <2>1. ASSUME NEW e \in Low
          PROVE  e <= q
      <3>1. e \in Nat /\ q \in Nat /\ Rank(S, e) \in Nat /\ Rank(S, q) \in Nat
        BY <1>2, <1>7
      <3>2. q < e => Rank(S, q) < Rank(S, e)
        BY RankIs
      <3>3. Rank(S, e) < i /\ ~(Rank(S, q) < i)
        OBVIOUS
      <3> QED
        BY <3>1, <3>2, <3>3, <1>5
    <2>2. ASSUME NEW e \in S, e <= q, e \notin Low
          PROVE  e = q
      <3>1. e \in High
        BY <2>2
      <3>2. q <= e
        BY <1>11, <3>1
      <3> QED
        BY <1>2, <2>2, <3>2
    <2>3. q \in S /\ q <= q
      BY <1>2
    <2> QED
      BY <2>1, <2>2, <2>3
  <1>13. Rank(S, q) = i
    <2>1. q \notin Low
      OBVIOUS
    <2> HIDE DEF Low
    <2>2. Cardinality(Low \cup {q}) = Cardinality(Low) + 1
      BY <1>8, <2>1, FS_AddElement
    <2> QED
      BY <1>5, <1>9, <1>12, <2>2 DEF Rank
  <1> QED
    BY <1>6, <1>13

LEMMA OrderedIs ==
  ASSUME NEW lo \in Nat, NEW hi \in Nat, NEW S \in SUBSET (lo + 1 .. hi)
  PROVE  /\ Cardinality(S) \in Nat /\ (Cardinality(S) = 0 <=> S = {})
         /\ \A i \in 1 .. Cardinality(S) : Ordered(S)[i] \in S
         /\ \A i \in 1 .. Cardinality(S) - 1 : Adjacent(S, Ordered(S)[i], Ordered(S)[i + 1])
         /\ S # {} => /\ Adjacent(S, lo, Ordered(S)[1])
                      /\ \A p \in S : p <= Ordered(S)[Cardinality(S)]
  <1> DEFINE n == Cardinality(S)
             s == Ordered(S)
  <1>1. n \in Nat /\ IsFiniteSet(S)
    BY RankIs
  <1>2. n = 0 <=> S = {}
    BY <1>1, FS_EmptySet
  <1>3. S \subseteq Nat /\ \A p \in S : lo < p
    OBVIOUS
  <1>4. \A p \in S : Rank(S, p) \in 1 .. n
    BY RankIs
  <1>5. \A p, q \in S : p < q => Rank(S, p) < Rank(S, q)
    BY RankIs
  <1>10. \A i \in 1 .. n : \E p \in S : Rank(S, p) = i
    BY EveryRank
  <1>6. \A i \in 1 .. n : s[i] \in S /\ Rank(S, s[i]) = i
    <2> TAKE i \in 1 .. n
    <2>1. \E p \in S : Rank(S, p) = i
      BY <1>10
    <2>2. s[i] = CHOOSE p \in S : Rank(S, p) = i
      BY DEF Ordered
    <2> QED
      BY <2>1, <2>2
  <1> HIDE DEF n, s
  <1>7. ASSUME NEW i \in 1 .. n - 1
        PROVE  Adjacent(S, s[i], s[i + 1])
    <2>1. i \in 1 .. n /\ i + 1 \in 1 .. n /\ i \in Nat
      BY <1>1
    <2>2. s[i] \in S /\ s[i + 1] \in S /\ Rank(S, s[i]) = i /\ Rank(S, s[i + 1]) = i + 1
      BY <1>6, <2>1
    <2> DEFINE a == s[i]
               b == s[i + 1]
    <2>3. a \in Nat /\ b \in Nat /\ a \in S /\ b \in S /\ Rank(S, a) = i /\ Rank(S, b) = i + 1
      BY <1>3, <2>2
    <2> HIDE DEF a, b
    <2>4. a < b
      <3>1. a # b
        BY <2>1, <2>3
      <3>2. b < a => Rank(S, b) < Rank(S, a)
        BY <1>5, <2>3
      <3>3. ~(i + 1 < i)
        BY <2>1
      <3> QED
        BY <2>3, <3>1, <3>2, <3>3
    <2>5. ASSUME NEW c \in S, a < c, c < b
          PROVE  FALSE
      <3>1. Rank(S, a) < Rank(S, c) /\ Rank(S, c) < Rank(S, b)
        BY <1>5, <2>3, <2>5
      <3>2. Rank(S, c) \in 1 .. n
        BY <1>4
      <3>3. Rank(S, c) \in Nat
        BY <1>1, <3>2
      <3> QED
        BY <2>1, <2>3, <3>1, <3>3
    <2> QED
      BY <2>4, <2>5 DEF Adjacent, a, b
  <1>8. ASSUME S # {}
        PROVE  Adjacent(S, lo, s[1])
    <2>0. n # 0
      BY <1>2, <1>8
    <2>1. 1 \in 1 .. n
      BY <1>1, <2>0
    <2>2. s[1] \in S /\ Rank(S, s[1]) = 1
      BY <1>6, <2>1
    <2>3. ASSUME NEW c \in S, c < s[1]
          PROVE  FALSE
      <3>1. Rank(S, c) \in 1 .. n /\ Rank(S, c) < 1
        BY <1>4, <1>5, <2>2, <2>3
      <3> QED
        BY <3>1
    <2> QED
      BY <1>3, <2>2, <2>3 DEF Adjacent
  <1>9. ASSUME S # {}, NEW p \in S
        PROVE  p <= s[n]
    <2>0. n # 0
      BY <1>2, <1>9
    <2>1. n \in 1 .. n
      BY <1>1, <2>0
    <2>2. s[n] \in S /\ Rank(S, s[n]) = n
      BY <1>6, <2>1
    <2>3. ~(s[n] < p)
      <3>1. Rank(S, p) \in 1 .. n
        BY <1>4
      <3>2. s[n] < p => n < Rank(S, p)
        BY <1>5, <2>2
      <3> QED
        BY <3>1, <3>2, <1>1
    <2> DEFINE last == s[n]
    <2>4. last \in Nat /\ p \in Nat /\ ~(last < p)
      BY <1>3, <2>2, <2>3
    <2> HIDE DEF last
    <2>5. p <= last
      BY <2>4
    <2> QED
      BY <2>5 DEF last
  <1> QED
    BY <1>1, <1>2, <1>6, <1>7, <1>8, <1>9 DEF n, s

-----------------------------------------------------------------------------
(* Pieces one after another, each well read.                               *)

Pieces == [from : Nat, to : Nat, whole : BOOLEAN]
Cutters == [from : Nat, to : Nat, first : BOOLEAN]

Chain(q, from, to) ==
  /\ q = <<>> => from = to
  /\ q # <<>> => q[1].from = from /\ q[Len(q)].to = to
  /\ \A i \in 1 .. Len(q) : q[i].from < q[i].to
  /\ \A i \in 1 .. Len(q) - 1 : q[i].to = q[i + 1].from

WellRead(t, p) ==
  /\ p.to <= Len(t)
  /\ Fits(t, p.from, p.to)
  /\ p.whole => t[p.to] # "inner"

AllWellRead(t, q) == \A i \in 1 .. Len(q) : WellRead(t, q[i])

LEMMA ChainHead ==
  ASSUME NEW q \in Seq(Pieces), q # <<>>, NEW from, NEW to, Chain(q, from, to)
  PROVE  /\ Head(q) \in Pieces /\ Head(q).from = from /\ from < Head(q).to
         /\ Tail(q) \in Seq(Pieces) /\ Chain(Tail(q), Head(q).to, to)
  <1> DEFINE n == Len(q)
             r == Tail(q)
  <1>1. n \in Nat /\ n > 0 /\ Head(q) = q[1] /\ r \in Seq(Pieces)
    OBVIOUS
  <1>2. Len(r) = n - 1 /\ \A i \in 1 .. n - 1 : r[i] = q[i + 1]
    OBVIOUS
  <1>3. /\ q[1].from = from /\ q[n].to = to
        /\ \A i \in 1 .. n : q[i].from < q[i].to
        /\ \A i \in 1 .. n - 1 : q[i].to = q[i + 1].from
    BY DEF Chain
  <1>0. q[1] \in Pieces
    BY <1>1
  <1> HIDE DEF n, r
  <1>4. \A i \in 1 .. Len(r) : r[i].from < r[i].to
    <2> TAKE i \in 1 .. Len(r)
    <2>1. i + 1 \in 1 .. n /\ i \in 1 .. n - 1
      BY <1>1, <1>2
    <2> QED
      BY <1>2, <1>3, <2>1
  <1>5. \A i \in 1 .. Len(r) - 1 : r[i].to = r[i + 1].from
    <2> TAKE i \in 1 .. Len(r) - 1
    <2>1. i + 1 \in 1 .. n - 1 /\ i \in 1 .. n - 1
      BY <1>1, <1>2
    <2> QED
      BY <1>2, <1>3, <2>1
  <1>6. CASE n = 1
    <2>1. r = <<>>
      BY <1>1, <1>2, <1>6
    <2> QED
      BY <1>0, <1>1, <1>3, <1>6, <2>1 DEF Chain, r
  <1>7. CASE n # 1
    <2>1. n - 1 \in 1 .. n - 1 /\ 1 \in 1 .. n - 1 /\ (n - 1) + 1 = n
      BY <1>1, <1>7
    <2>2. r # <<>>
      BY <1>2, <2>1
    <2>3. r[1].from = q[1].to /\ r[Len(r)].to = to
      BY <1>2, <1>3, <2>1
    <2>4. Chain(r, q[1].to, to)
      BY <1>4, <1>5, <2>2, <2>3 DEF Chain
    <2> QED
      BY <1>0, <1>1, <1>3, <2>4 DEF r
  <1> QED
    BY <1>6, <1>7

LEMMA ChainsJoin ==
  ASSUME NEW q \in Seq(Pieces), NEW r \in Seq(Pieces), NEW a, NEW b, NEW c,
         Chain(q, a, b), Chain(r, b, c)
  PROVE  q \o r \in Seq(Pieces) /\ Chain(q \o r, a, c)
  <1> DEFINE m == Len(q)
             n == Len(r)
             s == q \o r
  <1>1. m \in Nat /\ n \in Nat /\ s \in Seq(Pieces)
    OBVIOUS
  <1>2. Len(s) = m + n /\ \A i \in 1 .. m + n : s[i] = IF i <= m THEN q[i] ELSE r[i - m]
    OBVIOUS
  <1>3. CASE q = <<>>
    <2>1. s = r
      BY <1>3
    <2>2. a = b
      BY <1>3 DEF Chain
    <2> QED
      BY <1>1, <2>1, <2>2
  <1>4. CASE r = <<>>
    <2>1. s = q
      BY <1>4
    <2>2. b = c
      BY <1>4 DEF Chain
    <2> QED
      BY <1>1, <2>1, <2>2
  <1>5. CASE q # <<>> /\ r # <<>>
    <2>1. /\ q[1].from = a /\ q[m].to = b
          /\ \A i \in 1 .. m : q[i].from < q[i].to
          /\ \A i \in 1 .. m - 1 : q[i].to = q[i + 1].from
      BY <1>5 DEF Chain
    <2>2. /\ r[1].from = b /\ r[n].to = c
          /\ \A i \in 1 .. n : r[i].from < r[i].to
          /\ \A i \in 1 .. n - 1 : r[i].to = r[i + 1].from
      BY <1>5 DEF Chain
    <2>3. m > 0 /\ n > 0
      BY <1>5
    <2> HIDE DEF m, n, s
    <2>4. ASSUME NEW i \in 1 .. m + n
          PROVE  s[i].from < s[i].to
      <3>1. CASE i <= m
        BY <1>1, <1>2, <2>1, <3>1
      <3>2. CASE ~(i <= m)
        <4>1. i - m \in 1 .. n
          BY <1>1, <3>2
        <4> QED
          BY <1>2, <2>2, <3>2, <4>1
      <3> QED
        BY <3>1, <3>2
    <2>5. ASSUME NEW i \in 1 .. (m + n) - 1
          PROVE  s[i].to = s[i + 1].from
      <3>0. i \in 1 .. m + n /\ i + 1 \in 1 .. m + n
        BY <1>1
      <3>1. CASE i < m
        <4>1. i \in 1 .. m - 1 /\ i <= m /\ i + 1 <= m
          BY <1>1, <3>1
        <4>2. s[i] = q[i] /\ s[i + 1] = q[i + 1]
          BY <1>2, <3>0, <4>1
        <4> QED
          BY <2>1, <4>1, <4>2
      <3>2. CASE i = m
        <4>1. s[i] = q[m] /\ s[i + 1] = r[1]
          BY <1>1, <1>2, <3>0, <3>2
        <4> QED
          BY <2>1, <2>2, <4>1
      <3>3. CASE i > m
        <4>1. i - m \in 1 .. n - 1 /\ ~(i <= m) /\ ~(i + 1 <= m) /\ (i + 1) - m = (i - m) + 1
          BY <1>1, <3>3
        <4>2. s[i] = r[i - m] /\ s[i + 1] = r[(i - m) + 1]
          BY <1>2, <3>0, <4>1
        <4> QED
          BY <2>2, <4>1, <4>2
      <3> QED
        BY <1>1, <3>1, <3>2, <3>3
    <2>6. s[1] = q[1] /\ s[m + n] = r[n]
      BY <1>1, <1>2, <2>3
    <2>7. s # <<>>
      BY <1>1, <1>2, <2>3
    <2>8. Chain(s, a, c)
      BY <1>2, <2>1, <2>2, <2>4, <2>5, <2>6, <2>7 DEF Chain
    <2> QED
      BY <1>1, <2>8 DEF s
  <1> QED
    BY <1>3, <1>4, <1>5

LEMMA ReadTogether ==
  ASSUME NEW t, NEW q \in Seq(Pieces), NEW r \in Seq(Pieces), AllWellRead(t, q), AllWellRead(t, r)
  PROVE  AllWellRead(t, q \o r)
  <1> DEFINE s == q \o r
  <1>1. Len(s) = Len(q) + Len(r) /\ \A i \in 1 .. Len(q) + Len(r) : s[i] = IF i <= Len(q) THEN q[i] ELSE r[i - Len(q)]
    OBVIOUS
  <1>2. ASSUME NEW i \in 1 .. Len(q) + Len(r)
        PROVE  WellRead(t, s[i])
    <2>1. CASE i <= Len(q)
      BY <1>1, <2>1 DEF AllWellRead
    <2>2. CASE ~(i <= Len(q))
      <3>1. i - Len(q) \in 1 .. Len(r)
        BY <2>2
      <3> QED
        BY <1>1, <2>2, <3>1 DEF AllWellRead
    <2> QED
      BY <2>1, <2>2
  <1> HIDE DEF s
  <1>3. AllWellRead(t, s)
    BY <1>1, <1>2 DEF AllWellRead
  <1> QED
    BY <1>3 DEF s

LEMMA ReadTail ==
  ASSUME NEW t, NEW q \in Seq(Pieces), q # <<>>, AllWellRead(t, q)
  PROVE  WellRead(t, Head(q)) /\ AllWellRead(t, Tail(q))
  <1>1. Head(q) = q[1] /\ 1 \in 1 .. Len(q)
    OBVIOUS
  <1>2. Len(Tail(q)) = Len(q) - 1 /\ \A i \in 1 .. Len(q) - 1 : Tail(q)[i] = q[i + 1] /\ i + 1 \in 1 .. Len(q)
    OBVIOUS
  <1> QED
    BY <1>1, <1>2 DEF AllWellRead

-----------------------------------------------------------------------------
(* What the cutter gives of a text.                                        *)

Texts == {t \in Seq(Kinds) : Len(t) <= Longest}

LEMMA TextsAreWritten ==
  ASSUME NEW t \in Seq(Kinds), NEW n \in Nat, n <= Len(t)
  PROVE  Written(t, n)
  <1>1. ASSUME NEW i \in 1 .. n
        PROVE  t[i] \in Kinds
    <2>1. i \in 1 .. Len(t)
      OBVIOUS
    <2> QED
      BY <2>1
  <1>2. Kinds \subseteq {"inner", "word", "clause", "stop"}
    BY SegmentsAssumption
  <1> QED
    BY <1>1, <1>2 DEF Written

LEMMA RestIs ==
  ASSUME text \in Seq(Kinds), NEW c \in Cutters, c.from <= c.to, c.to <= Len(text)
  PROVE  Rest(c) \in Seq(Pieces) /\ Chain(Rest(c), c.from, c.to) /\ AllWellRead(text, Rest(c))
  <1> DEFINE lo == c.from
             hi == c.to
             S == PieceEnds(text, lo, hi)
             s == Ordered(S)
             n == Cardinality(S)
             q == [i \in 1 .. n |-> Piece(IF i = 1 THEN lo ELSE s[i - 1], s[i], FALSE)]
  <1>1. lo \in Nat /\ hi \in Nat /\ lo <= hi /\ hi <= Len(text)
    BY DEF Cutters
  <1>2. Rest(c) = q
    BY DEF Rest, Segments, Ordered, Rank
  <1>3. Cuts(text, lo, hi, S)
    <2> HIDE DEF lo, hi
    <2> QED
      BY <1>1, TextsAreWritten, PiecesAreCutWell
  <1> HIDE DEF lo, hi, S
  <1>4. /\ S \in SUBSET (lo + 1 .. hi) /\ (lo < hi => hi \in S)
        /\ \A a \in {lo} \cup S, b \in S : Adjacent(S, a, b) => Fits(text, a, b)
    BY <1>3 DEF Cuts
  <1>5. /\ n \in Nat /\ (n = 0 <=> S = {})
        /\ \A i \in 1 .. n : s[i] \in S
        /\ \A i \in 1 .. n - 1 : Adjacent(S, s[i], s[i + 1])
        /\ S # {} => Adjacent(S, lo, s[1]) /\ \A p \in S : p <= s[n]
    BY <1>1, <1>4, OrderedIs
  <1> HIDE DEF s, n
  <1>6. \A i \in 1 .. n : s[i] \in Nat /\ s[i] <= hi /\ s[i] <= Len(text)
    <2> TAKE i \in 1 .. n
    <2>1. s[i] \in lo + 1 .. hi
      BY <1>4, <1>5
    <2> QED
      BY <1>1, <2>1
  <1> DEFINE Back(i) == IF i = 1 THEN lo ELSE s[i - 1]
  <1>7. ASSUME NEW i \in 1 .. n
        PROVE  /\ Back(i) \in Nat /\ Back(i) < s[i]
               /\ Fits(text, Back(i), s[i])
    <2>1. CASE i = 1
      <3>1. S # {} /\ s[1] \in S
        BY <1>5, <2>1
      <3>2. Adjacent(S, lo, s[1])
        BY <1>5, <3>1
      <3> QED
        BY <1>1, <1>4, <2>1, <3>1, <3>2 DEF Adjacent
    <2>2. CASE i # 1
      <3>1. i - 1 \in 1 .. n - 1 /\ i - 1 \in 1 .. n /\ (i - 1) + 1 = i
        BY <1>5, <2>2
      <3>2. Adjacent(S, s[i - 1], s[i]) /\ s[i - 1] \in S /\ s[i] \in S
        BY <1>5, <3>1
      <3>3. s[i - 1] \in Nat
        BY <1>6, <3>1
      <3> QED
        BY <1>4, <2>2, <3>2, <3>3 DEF Adjacent
    <2> QED
      BY <2>1, <2>2
  <1> HIDE DEF Back
  <1>8. q = [i \in 1 .. n |-> [from |-> Back(i), to |-> s[i], whole |-> FALSE]]
    BY DEF Back, Piece
  <1>9. q \in Seq(Pieces)
    <2>1. \A i \in 1 .. n : [from |-> Back(i), to |-> s[i], whole |-> FALSE] \in Pieces
      BY <1>6, <1>7 DEF Pieces
    <2> HIDE DEF q
    <2> QED
      BY <1>5, <1>8, <2>1
  <1>10. Len(q) = n
    <2> HIDE DEF q
    <2> QED
      BY <1>5, <1>8
  <1>11. \A i \in 1 .. n : q[i].from = Back(i) /\ q[i].to = s[i] /\ q[i].whole = FALSE
    <2> HIDE DEF q
    <2> QED
      BY <1>8
  <1> HIDE DEF q
  <1>12. AllWellRead(text, q)
    BY <1>6, <1>7, <1>10, <1>11 DEF AllWellRead, WellRead
  <1>13. Chain(q, lo, hi)
    <2>1. q = <<>> => lo = hi
      <3> SUFFICES ASSUME q = <<>> PROVE lo = hi
        OBVIOUS
      <3>1. n = 0
        BY <1>10
      <3>2. S = {}
        BY <3>1, <1>5
      <3> QED
        BY <1>1, <1>4, <3>2
    <2>2. ASSUME q # <<>>
          PROVE  q[1].from = lo /\ q[Len(q)].to = hi
      <3>1. n # 0
        BY <1>9, <1>10, <2>2
      <3>2. 1 \in 1 .. n /\ n \in 1 .. n /\ S # {}
        BY <1>5, <3>1
      <3>3. hi \in S
        <4>1. s[1] \in lo + 1 .. hi
          BY <1>4, <1>5, <3>2
        <4> QED
          BY <1>1, <1>4, <4>1
      <3>4. hi <= s[n] /\ s[n] <= hi /\ s[n] \in Nat
        BY <1>5, <1>6, <3>2, <3>3
      <3>5. s[n] = hi
        BY <1>1, <3>4
      <3> QED
        BY <1>10, <1>11, <3>2, <3>5 DEF Back
    <2>3. \A i \in 1 .. Len(q) : q[i].from < q[i].to
      BY <1>7, <1>10, <1>11
    <2>4. \A i \in 1 .. Len(q) - 1 : q[i].to = q[i + 1].from
      <3> TAKE i \in 1 .. Len(q) - 1
      <3>1. i \in 1 .. n /\ i + 1 \in 1 .. n /\ i + 1 # 1 /\ (i + 1) - 1 = i
        BY <1>5, <1>10
      <3> QED
        BY <1>11, <3>1 DEF Back
    <2> QED
      BY <2>1, <2>2, <2>3, <2>4 DEF Chain
  <1> QED
    BY <1>2, <1>9, <1>12, <1>13 DEF lo, hi

(* next, of a text.  *)
EndsOfIn(t, c) == {p \in c.from + 1 .. c.to - 1 : t[p] = "stop"}
ChosenIn(t, c) == IF c.first THEN Min(EndsOfIn(t, c)) ELSE Packed(c.from, EndsOfIn(t, c))
CutFromIn(t, from, to) ==
  IF Cardinality(PieceEnds(t, from, to)) < 2 THEN from ELSE Min(PieceEnds(t, from, to))
ReadyIn(t, c) ==
  IF EndsOfIn(t, c) # {}
  THEN IF ChosenIn(t, c) - c.from <= Limit THEN ChosenIn(t, c) ELSE CutFromIn(t, c.from, ChosenIn(t, c))
  ELSE IF c.to - c.from <= Limit THEN c.from ELSE CutFromIn(t, c.from, c.to)

LEMMA ReadyOfText ==
  ASSUME NEW c
  PROVE  ReadyTo(c) = ReadyIn(text, c)
  <1>1. EndsIn(c) = EndsOfIn(text, c)
    BY DEF EndsIn, EndsOfIn
  <1>2. Chosen(c) = ChosenIn(text, c)
    BY <1>1 DEF Chosen, ChosenIn
  <1>3. \A from, to : CutFrom(from, to) = CutFromIn(text, from, to)
    BY DEF CutFrom, CutFromIn
  <1> QED
    BY <1>1, <1>2, <1>3 DEF ReadyTo, ReadyIn

(* Where it chooses to cut, a sentence ends. *)
LEMMA ChosenIs ==
  ASSUME NEW t, NEW c \in Cutters, EndsOfIn(t, c) # {}
  PROVE  /\ ChosenIn(t, c) \in Nat /\ c.from < ChosenIn(t, c) /\ ChosenIn(t, c) < c.to
         /\ t[ChosenIn(t, c)] = "stop"
  <1> DEFINE lo == c.from
             hi == c.to
             ends == EndsOfIn(t, c)
  <1>1. lo \in Nat /\ hi \in Nat
    BY DEF Cutters
  <1>2. ends = {p \in lo + 1 .. hi - 1 : t[p] = "stop"}
    BY DEF EndsOfIn
  <1>0. ends # {}
    OBVIOUS
  <1>8. ChosenIn(t, c) = IF c.first THEN Min(ends) ELSE Packed(lo, ends)
    BY DEF ChosenIn
  <1> HIDE DEF lo, hi, ends
  <1>3. ends \in SUBSET (lo + 1 .. hi) /\ ends \subseteq Nat
    BY <1>1, <1>2
  <1>4. Min(ends) \in ends
    BY <1>0, <1>3, MinIs
  <1>5. Packed(lo, ends) \in ends
    BY <1>0, <1>1, <1>3, PackedIs
  <1>6. ChosenIn(t, c) \in ends
    BY <1>4, <1>5, <1>8
  <1>7. \A p \in ends : p \in Nat /\ lo < p /\ p < hi /\ t[p] = "stop"
    BY <1>1, <1>2
  <1> QED
    BY <1>6, <1>7 DEF lo, hi

(* A piece cut off the front of what is too long. *)
LEMMA CutFromIs ==
  ASSUME NEW t, NEW lo \in Nat, NEW hi \in Nat, lo <= hi, Written(t, hi),
         CutFromIn(t, lo, hi) # lo
  PROVE  LET r == CutFromIn(t, lo, hi)
         IN r \in Nat /\ lo < r /\ r < hi /\ Fits(t, lo, r) /\ t[r] # "inner"
  <1> DEFINE S == PieceEnds(t, lo, hi)
             r == CutFromIn(t, lo, hi)
  <1>1. Cuts(t, lo, hi, S)
    BY PiecesAreCutWell
  <1>2. ~(Cardinality(S) < 2) /\ r = Min(S)
    BY DEF CutFromIn
  <1> HIDE DEF S, r
  <1>3. S \in SUBSET (lo + 1 .. hi) /\ IsFiniteSet(S)
    <2>1. S \in SUBSET (lo + 1 .. hi)
      BY <1>1 DEF Cuts
    <2> QED
      BY <2>1, RankIs
  <1>4. S # {} /\ \A x : S # {x}
    BY <1>2, <1>3, FS_EmptySet, FS_Singleton
  <1>5. S \subseteq Nat
    BY <1>3
  <1>6. r \in S /\ \A k \in S : r <= k
    BY <1>2, <1>4, <1>5, MinIs
  <1>7. PICK k \in S : k # r
    BY <1>4, <1>6
  <1>8. r \in Nat /\ lo < r /\ r < hi
    <2>1. r \in lo + 1 .. hi /\ k \in lo + 1 .. hi /\ r <= k /\ k # r
      BY <1>3, <1>6, <1>7
    <2> QED
      BY <2>1
  <1>9. Adjacent(S, lo, r)
    <2>1. \A p \in S : ~(p < r)
      BY <1>5, <1>6
    <2> QED
      BY <1>8, <2>1 DEF Adjacent
  <1>10. Fits(t, lo, r) /\ t[r] # "inner"
    BY <1>1, <1>6, <1>8, <1>9 DEF Cuts
  <1> QED
    BY <1>8, <1>10 DEF r

LEMMA ReadyIs ==
  ASSUME NEW t \in Seq(Kinds), NEW c \in Cutters, c.from <= c.to, c.to <= Len(t),
         ReadyIn(t, c) # c.from
  PROVE  /\ ReadyIn(t, c) \in Nat /\ c.from < ReadyIn(t, c) /\ ReadyIn(t, c) <= c.to
         /\ WellRead(t, Piece(c.from, ReadyIn(t, c), TRUE))
  <1> DEFINE lo == c.from
             hi == c.to
             k == ChosenIn(t, c)
             r == ReadyIn(t, c)
  <1>1. lo \in Nat /\ hi \in Nat /\ lo <= hi /\ hi <= Len(t) /\ Len(t) \in Nat
    BY DEF Cutters
  <1>2. r = IF EndsOfIn(t, c) # {}
            THEN IF k - lo <= Limit THEN k ELSE CutFromIn(t, lo, k)
            ELSE IF hi - lo <= Limit THEN lo ELSE CutFromIn(t, lo, hi)
    BY DEF ReadyIn
  <1>3. EndsOfIn(t, c) # {} => k \in Nat /\ lo < k /\ k < hi /\ t[k] = "stop"
    BY ChosenIs
  <1>4. r # lo
    OBVIOUS
  <1> HIDE DEF lo, hi, k, r
  <1>5. r \in Nat /\ lo < r /\ r <= hi /\ Fits(t, lo, r) /\ t[r] # "inner"
    <2>1. CASE EndsOfIn(t, c) # {} /\ k - lo <= Limit
      BY <1>1, <1>2, <1>3, <2>1 DEF Fits
    <2>2. CASE EndsOfIn(t, c) # {} /\ ~(k - lo <= Limit)
      <3>1. Written(t, k) /\ lo <= k
        BY <1>1, <1>3, <2>2, TextsAreWritten
      <3>2. r = CutFromIn(t, lo, k)
        BY <1>2, <2>2
      <3>3. r \in Nat /\ lo < r /\ r < k /\ Fits(t, lo, r) /\ t[r] # "inner"
        BY <1>1, <1>3, <1>4, <2>2, <3>1, <3>2, CutFromIs
      <3> QED
        BY <1>1, <1>3, <2>2, <3>3
    <2>3. CASE EndsOfIn(t, c) = {}
      <3>1. r = CutFromIn(t, lo, hi)
        BY <1>2, <1>4, <2>3
      <3>2. Written(t, hi)
        BY <1>1, TextsAreWritten
      <3> QED
        BY <1>1, <1>4, <3>1, <3>2, CutFromIs
    <2> QED
      BY <2>1, <2>2, <2>3
  <1>6. r <= Len(t)
    BY <1>1, <1>5
  <1>7. WellRead(t, Piece(lo, r, TRUE))
    BY <1>5, <1>6 DEF WellRead, Piece
  <1> QED
    BY <1>5, <1>7 DEF lo, hi, r

(* What comes after makes nothing ready that was not. *)
LEMMA ReadyIsLocal ==
  ASSUME NEW t, NEW u, NEW c \in Cutters, c.from <= c.to, \A i \in 1 .. c.to : t[i] = u[i]
  PROVE  ReadyIn(t, c) = ReadyIn(u, c)
  <1> DEFINE lo == c.from
             hi == c.to
             k == ChosenIn(t, c)
  <1>1. lo \in Nat /\ hi \in Nat /\ lo <= hi /\ \A i \in 1 .. hi : t[i] = u[i]
    BY DEF Cutters
  <1>2. EndsOfIn(t, c) = EndsOfIn(u, c)
    <2>1. \A p \in lo + 1 .. hi - 1 : t[p] = u[p]
      <3> HIDE DEF lo, hi
      <3>1. \A p \in lo + 1 .. hi - 1 : p \in 1 .. hi
        BY <1>1
      <3> QED
        BY <1>1, <3>1
    <2> QED
      BY <2>1 DEF EndsOfIn
  <1>3. ChosenIn(u, c) = k
    BY <1>2 DEF ChosenIn
  <1>4. ASSUME NEW p \in Nat, p <= hi
        PROVE  CutFromIn(t, lo, p) = CutFromIn(u, lo, p)
    <2> HIDE DEF lo, hi
    <2>1. PieceEnds(t, lo, p) = PieceEnds(u, lo, p)
      BY <1>1, <1>4, PiecesAreLocal
    <2> QED
      BY <2>1 DEF CutFromIn
  <1>5. EndsOfIn(t, c) # {} => k \in Nat /\ k <= hi
    <2>1. EndsOfIn(t, c) # {} => k \in Nat /\ k < hi
      BY ChosenIs
    <2> HIDE DEF k, hi
    <2> QED
      BY <1>1, <2>1
  <1>6. CutFromIn(t, lo, hi) = CutFromIn(u, lo, hi)
    BY <1>1, <1>4
  <1>7. EndsOfIn(t, c) # {} => CutFromIn(t, lo, k) = CutFromIn(u, lo, k)
    BY <1>4, <1>5
  <1> QED
    BY <1>2, <1>3, <1>6, <1>7 DEF ReadyIn

-----------------------------------------------------------------------------
(* What holds throughout.                                                  *)

(* The lease is the session's: it is held from the grant on, and given back by the *)
(* close, or by the grant of one that comes too late.                              *)
LeaseIsKept ==
  /\ start \in {"no", "resolving", "acquiring", "yes"}
  /\ lease \in {"none", "asked", "held"}
  /\ returned = IF lease = "held" /\ closed # "no" THEN 1 ELSE 0
  /\ start = "acquiring" <=> lease = "asked"
  /\ start = "yes" => lease = "held"
  /\ start = "resolving" => lease = "none"
  /\ closed = "no" /\ lease = "held" => start = "yes"

Shape ==
  /\ text \in Seq(Kinds) /\ Len(text) <= Longest
  /\ sends \in 0 .. Most /\ silent \in 0 .. Idle /\ quiet \in 0 .. Idle
  /\ owed \in Int /\ -1 <= owed /\ owed <= Len(text)
  /\ ending \in BOOLEAN
  /\ closed \in {"no", "done", "error", "idle", "gone"}

FrameTypes == {"start", "text", "flush", "end", "bad"}
FrameSet == [type : FrameTypes, upto : Nat]

(* Frames not handled carry the text on from the n fragments the cutter has: *)
(* nothing but a text frame adds to it.                                      *)
CarryOn(t, fs, n) ==
  /\ fs \in Seq(FrameSet)
  /\ \A i \in 1 .. Len(fs) : n <= fs[i].upto /\ fs[i].upto <= Len(t)
  /\ \A i, j \in 1 .. Len(fs) : i <= j => fs[i].upto <= fs[j].upto
  /\ \A i \in 1 .. Len(fs) : fs[i].type # "text" => fs[i].upto = IF i = 1 THEN n ELSE fs[i - 1].upto
  /\ Len(t) = IF fs = <<>> THEN n ELSE fs[Len(fs)].upto

(* What is being spoken, then queued, then in the cutter, follows what was heard. *)
Line(t, q, c, a, p, h) ==
  /\ q \in Seq(Pieces) /\ c \in Cutters /\ p \in Pieces /\ h \in Nat
  /\ c.from <= c.to /\ c.to <= Len(t) /\ h <= Len(t)
  /\ a \in {"free", "asking", "sending"}
  /\ a = "free" => Chain(q, h, c.from)
  /\ a # "free" => p.from = h /\ p.from < p.to /\ Chain(q, p.to, c.from) /\ WellRead(t, p)
  /\ AllWellRead(t, q)

(* An end asks for what came before it, and after it that is out of the cutter. *)
Owes(fs, e, from, o) ==
  /\ o = -1 => ~e /\ \A i \in 1 .. Len(fs) : fs[i].type # "end"
  /\ \A i \in 1 .. Len(fs) : fs[i].type = "end" => o <= fs[i].upto
  /\ e => o <= from

Open ==
  /\ CarryOn(text, frames, cutter.to)
  /\ Line(text, queued, cutter, at, piece, heard)
  /\ Owes(frames, ending, cutter.from, owed)
  /\ at = "free" => piece = NoPiece
  /\ start # "yes" => cutter.to = 0 /\ queued = <<>> /\ at = "free" /\ ~ending
  /\ start = "yes" /\ at = "free" => queued = <<>> /\ ReadyIn(text, cutter) = cutter.from /\ ~ending

Shut ==
  /\ frames = <<>> /\ queued = <<>> /\ piece = NoPiece /\ at = "free"
  /\ cutter \in Cutters /\ cutter.from <= Len(text) /\ cutter.to <= Len(text)
  /\ heard \in Nat /\ heard <= Len(text)
  /\ closed = "done" => heard >= owed

SInv ==
  /\ LeaseIsKept
  /\ Shape
  /\ closed = "no" => Open
  /\ closed # "no" => Shut

-----------------------------------------------------------------------------
(* A close.                                                                *)

(* It leaves nothing to say, and loses nothing of what was heard. *)
LEMMA OverLeaves ==
  ASSUME Shape, Open, closed' \in {"done", "error", "idle", "gone"},
         text' = text, sends' = sends, silent' = silent, owed' = owed, frames' = <<>>, queued' = <<>>,
         piece' = NoPiece, at' = "free", cutter' = Emptied(cutter),
         quiet' \in 0 .. Idle, ending' \in BOOLEAN,
         heard' \in Nat, heard' <= Len(text), closed' = "done" => heard' >= owed
  PROVE  Shape' /\ Shut'
  <1>1. Shape'
    BY DEF Shape
  <1>2. cutter \in Cutters /\ cutter.to <= Len(text) /\ Len(text) \in Nat
    BY DEF Open, Line, Shape
  <1>3. cutter' = [from |-> cutter.to, to |-> cutter.to, first |-> FALSE] /\ cutter.to \in Nat
    BY <1>2 DEF Emptied, Cutters
  <1>4. cutter' \in Cutters /\ cutter'.from = cutter.to /\ cutter'.to = cutter.to
    BY <1>3 DEF Cutters
  <1>6. cutter'.from <= Len(text)' /\ cutter'.to <= Len(text)'
    BY <1>2, <1>4
  <1>5. Shut'
    BY <1>4, <1>6 DEF Shut
  <1> QED
    BY <1>1, <1>5

LEMMA CloseKeeps ==
  ASSUME SInv, closed = "no", NEW how \in {"done", "error", "idle", "gone"}, Close(how),
         UNCHANGED client, UNCHANGED starting,
         quiet' \in 0 .. Idle, ending' \in BOOLEAN,
         heard' \in Nat, heard' <= Len(text), how = "done" => heard' >= owed
  PROVE  SInv'
  <1>1. LeaseIsKept /\ Shape /\ Open
    BY DEF SInv
  <1>2. /\ text' = text /\ sends' = sends /\ silent' = silent /\ owed' = owed
        /\ start' = start /\ lease' = lease
        /\ closed' = how /\ frames' = <<>> /\ queued' = <<>> /\ piece' = NoPiece /\ at' = "free"
        /\ cutter' = Emptied(cutter)
        /\ returned' = IF start = "yes" THEN returned + 1 ELSE returned
    BY DEF Close, Over, client, starting
  <1>3. closed' # "no"
    BY <1>2
  <1>4. LeaseIsKept'
    BY <1>1, <1>2, <1>3 DEF LeaseIsKept
  <1>5. Shape' /\ Shut'
    BY <1>1, <1>2, <1>3, OverLeaves
  <1> QED
    BY <1>3, <1>4, <1>5 DEF SInv

-----------------------------------------------------------------------------
(* Taking the next piece up.                                               *)

LEMMA PumpKeeps ==
  ASSUME NEW q, NEW c, NEW a, NEW h, NEW free \in BOOLEAN, NEW last \in BOOLEAN,
         text \in Seq(Kinds), a = (IF free THEN "free" ELSE at), ~free => at # "free",
         Line(text, q, c, a, piece, h),
         Pump(q, c, ReadyTo(c), free, last)
  PROVE  /\ Line(text, queued', cutter', at', piece', h)
         /\ cutter'.to = c.to /\ c.from <= cutter'.from
         /\ at' = "free" => queued' = <<>> /\ piece' = NoPiece /\ ReadyIn(text, cutter') = cutter'.from /\ ~last
         /\ closed' = closed /\ returned' = returned
  <1>1. /\ q \in Seq(Pieces) /\ c \in Cutters /\ piece \in Pieces /\ h \in Nat
        /\ c.from <= c.to /\ c.to <= Len(text) /\ h <= Len(text)
        /\ AllWellRead(text, q)
        /\ c.from \in Nat /\ c.to \in Nat
    BY DEF Line, Cutters
  <1>2. closed' = closed /\ returned' = returned
    BY DEF Pump
  <1>3. CASE ~free
    <2>1. queued' = q /\ cutter' = c /\ piece' = piece /\ at' = at
      BY <1>3 DEF Pump
    <2> QED
      BY <1>1, <1>2, <1>3, <2>1 DEF Line
  <1>4. CASE free /\ FlushedFirst(q, c)
    <2>1. piece' = Head(q) /\ queued' = Tail(q) /\ cutter' = c /\ at' = "asking" /\ q # <<>>
      BY <1>4 DEF Pump, FlushedFirst
    <2>2. Chain(q, h, c.from)
      BY <1>4 DEF Line
    <2>3. /\ Head(q) \in Pieces /\ Head(q).from = h /\ h < Head(q).to
          /\ Tail(q) \in Seq(Pieces) /\ Chain(Tail(q), Head(q).to, c.from)
      BY <1>1, <2>1, <2>2, ChainHead
    <2>4. WellRead(text, Head(q)) /\ AllWellRead(text, Tail(q))
      BY <1>1, <2>1, ReadTail
    <2>5. Head(q).from < Head(q).to
      BY <2>3
    <2> QED
      BY <1>1, <1>2, <2>1, <2>3, <2>4, <2>5 DEF Line
  <1>5. CASE free /\ ~FlushedFirst(q, c) /\ ReadyTo(c) # c.from
    <2> DEFINE r == ReadyIn(text, c)
               p == Piece(c.from, r, TRUE)
               d == [c EXCEPT !.from = r, !.first = FALSE]
    <2>1. piece' = p /\ cutter' = d /\ queued' = q /\ at' = "asking" /\ q = <<>>
      BY <1>5, ReadyOfText DEF Pump, FlushedFirst
    <2>2. Chain(q, h, c.from)
      BY <1>5 DEF Line
    <2>3. h = c.from
      BY <2>1, <2>2 DEF Chain
    <2>4. r \in Nat /\ c.from < r /\ r <= c.to /\ WellRead(text, p)
      BY <1>1, <1>5, ReadyOfText, ReadyIs
    <2> HIDE DEF r
    <2>5. p \in Pieces /\ p.from = c.from /\ p.to = r
      BY <1>1, <2>4 DEF Piece, Pieces
    <2>6. d \in Cutters /\ d.from = r /\ d.to = c.to
      BY <1>1, <2>4 DEF Cutters
    <2>7. Chain(q, r, r)
      BY <2>1 DEF Chain
    <2>8. p.from = h /\ p.from < p.to /\ Chain(q, p.to, d.from)
      BY <2>3, <2>4, <2>5, <2>6, <2>7
    <2>9. d.from <= d.to /\ d.to <= Len(text) /\ c.from <= d.from
      BY <1>1, <2>4, <2>6
    <2> HIDE DEF p, d
    <2> QED
      BY <1>1, <1>2, <2>1, <2>4, <2>5, <2>6, <2>8, <2>9 DEF Line
  <1>6. CASE free /\ ~FlushedFirst(q, c) /\ ReadyTo(c) = c.from
    <2>1. queued' = q /\ cutter' = c /\ piece' = NoPiece /\ at' = "free" /\ ~last /\ q = <<>>
      BY <1>6 DEF Pump, FlushedFirst
    <2>2. NoPiece \in Pieces
      BY DEF NoPiece, Piece, Pieces
    <2>3. Chain(q, h, c.from)
      BY <1>6 DEF Line
    <2>4. ReadyIn(text, c) = c.from
      BY <1>6, ReadyOfText
    <2> QED
      BY <1>1, <1>2, <2>1, <2>2, <2>3, <2>4 DEF Line
  <1> QED
    BY <1>3, <1>4, <1>5, <1>6

(* What follows a frame, or a piece: what it leaves is queued and cut, or the end is told. *)
LEMMA ContinueKeeps ==
  ASSUME SInv, closed = "no", start = "yes", UNCHANGED client, UNCHANGED starting,
         quiet' = 0, ending' \in BOOLEAN,
         NEW q, NEW c, NEW a, NEW free \in BOOLEAN, NEW rest,
         a = (IF free THEN "free" ELSE at), ~free => at # "free",
         Line(text, q, c, a, piece, heard'),
         CarryOn(text, rest, c.to), Owes(rest, ending', c.from, owed),
         Continue(q, c, free, ending', rest)
  PROVE  SInv'
  <1>1. LeaseIsKept /\ Shape /\ Open
    BY DEF SInv
  <1>2. /\ text' = text /\ sends' = sends /\ silent' = silent /\ owed' = owed
        /\ start' = start /\ lease' = lease
    BY DEF client, starting
  <1>3. text \in Seq(Kinds) /\ Len(text) \in Nat /\ owed \in Int
    BY <1>1 DEF Shape
  <1>4. 0 \in 0 .. Idle
    BY SessionAssumption
  <1>5. heard' \in Nat /\ heard' <= Len(text) /\ c \in Cutters /\ c.from \in Nat
    BY DEF Line, Cutters
  <1>6. CASE Pump(q, c, ReadyTo(c), free, ending') /\ frames' = rest
    <2>1. /\ Line(text, queued', cutter', at', piece', heard')
          /\ cutter'.to = c.to /\ c.from <= cutter'.from
          /\ at' = "free" => queued' = <<>> /\ piece' = NoPiece /\ ReadyIn(text, cutter') = cutter'.from /\ ~ending'
          /\ closed' = closed /\ returned' = returned
      <3> DEFINE h == heard'
                 last == ending'
      <3>1. last \in BOOLEAN /\ Line(text, q, c, a, piece, h) /\ Pump(q, c, ReadyTo(c), free, last)
        BY <1>6
      <3> HIDE DEF h, last
      <3>2. /\ Line(text, queued', cutter', at', piece', h)
            /\ cutter'.to = c.to /\ c.from <= cutter'.from
            /\ at' = "free" => queued' = <<>> /\ piece' = NoPiece /\ ReadyIn(text, cutter') = cutter'.from /\ ~last
            /\ closed' = closed /\ returned' = returned
        BY <1>3, <3>1, PumpKeeps
      <3> QED
        BY <3>2 DEF h, last
    <2>2. LeaseIsKept'
      BY <1>1, <1>2, <2>1 DEF LeaseIsKept
    <2>3. Shape'
      <3>1. closed' \in {"no", "done", "error", "idle", "gone"}
        BY <1>1, <2>1 DEF Shape
      <3> QED
        BY <1>1, <1>2, <1>4, <3>1 DEF Shape
    <2>4. cutter'.from \in Nat
      BY <2>1 DEF Line, Cutters
    <2>5. Owes(frames', ending', cutter'.from, owed')
      <3> DEFINE f == cutter'.from
      <3>1. f \in Nat /\ c.from <= f
        BY <2>1, <2>4
      <3> HIDE DEF f
      <3>2. Owes(rest, ending', f, owed)
        BY <1>3, <1>5, <3>1 DEF Owes
      <3> QED
        BY <1>2, <1>6, <3>2 DEF f
    <2>6. CarryOn(text', frames', cutter'.to)
      BY <1>2, <1>6, <2>1
    <2>7. Open'
      BY <1>2, <2>1, <2>5, <2>6 DEF Open
    <2> QED
      BY <2>1, <2>2, <2>3, <2>7 DEF SInv
  <1>7. CASE Ends(q, c, ReadyTo(c), free, ending')
    <2>1. free /\ q = <<>> /\ ending' /\ Close("done")
      BY <1>7 DEF Ends, FlushedFirst
    <2>2. Chain(q, heard', c.from)
      BY <2>1 DEF Line
    <2>3. heard' = c.from
      BY <2>1, <2>2 DEF Chain
    <2>4. owed <= c.from
      BY <2>1 DEF Owes
    <2>5. heard' >= owed
      BY <1>3, <1>5, <2>3, <2>4
    <2>6. quiet' \in 0 .. Idle
      BY <1>4
    <2> QED
      BY <1>5, <2>1, <2>5, <2>6, CloseKeeps
  <1> QED
    BY <1>6, <1>7 DEF Continue

-----------------------------------------------------------------------------
(* Frames, sent and taken.                                                 *)

LEMMA CarryTail ==
  ASSUME NEW t \in Seq(Kinds), NEW fs, NEW n \in Nat, CarryOn(t, fs, n), fs # <<>>
  PROVE  /\ Head(fs) \in FrameSet /\ Tail(fs) \in Seq(FrameSet)
         /\ n <= Head(fs).upto /\ Head(fs).upto <= Len(t)
         /\ Head(fs).type # "text" => Head(fs).upto = n
         /\ CarryOn(t, Tail(fs), Head(fs).upto)
  <1> DEFINE k == Len(fs)
             r == Tail(fs)
             h == Head(fs).upto
  <1>1. /\ fs \in Seq(FrameSet)
        /\ \A i \in 1 .. k : n <= fs[i].upto /\ fs[i].upto <= Len(t)
        /\ \A i, j \in 1 .. k : i <= j => fs[i].upto <= fs[j].upto
        /\ \A i \in 1 .. k : fs[i].type # "text" => fs[i].upto = IF i = 1 THEN n ELSE fs[i - 1].upto
        /\ Len(t) = fs[k].upto
    BY DEF CarryOn
  <1>2. k \in Nat /\ k > 0 /\ Head(fs) = fs[1] /\ r \in Seq(FrameSet) /\ h = fs[1].upto
    BY <1>1
  <1>3. Len(r) = k - 1 /\ \A i \in 1 .. k - 1 : r[i] = fs[i + 1]
    BY <1>1, <1>2
  <1>4. 1 \in 1 .. k /\ fs[1] \in FrameSet
    BY <1>1, <1>2
  <1> HIDE DEF k, r, h
  <1>5. ASSUME NEW i \in 1 .. Len(r)
        PROVE  /\ h <= r[i].upto /\ r[i].upto <= Len(t)
               /\ r[i].type # "text" => r[i].upto = IF i = 1 THEN h ELSE r[i - 1].upto
    <2>1. i + 1 \in 1 .. k /\ 1 <= i + 1 /\ i \in 1 .. k - 1 /\ i + 1 # 1 /\ (i + 1) - 1 = i /\ i \in Nat
      BY <1>2, <1>3
    <2>2. r[i] = fs[i + 1] /\ fs[1].upto <= fs[i + 1].upto /\ fs[i + 1].upto <= Len(t)
      BY <1>1, <1>3, <1>4, <2>1
    <2>3. fs[i + 1].type # "text" => fs[i + 1].upto = fs[i].upto
      BY <1>1, <2>1
    <2>4. i # 1 => r[i - 1] = fs[i]
      <3> SUFFICES ASSUME i # 1 PROVE r[i - 1] = fs[i]
        OBVIOUS
      <3>1. i - 1 \in 1 .. k - 1 /\ (i - 1) + 1 = i
        BY <1>2, <2>1
      <3> QED
        BY <1>3, <3>1
    <2> QED
      BY <1>2, <2>2, <2>3, <2>4
  <1>6. ASSUME NEW i \in 1 .. Len(r), NEW j \in 1 .. Len(r), i <= j
        PROVE  r[i].upto <= r[j].upto
    <2>1. i + 1 \in 1 .. k /\ j + 1 \in 1 .. k /\ i + 1 <= j + 1 /\ i \in 1 .. k - 1 /\ j \in 1 .. k - 1
      BY <1>2, <1>3, <1>6
    <2> QED
      BY <1>1, <1>3, <2>1
  <1>7. Len(t) = IF r = <<>> THEN h ELSE r[Len(r)].upto
    <2>1. CASE k = 1
      <3>1. r = <<>>
        BY <1>2, <1>3, <2>1
      <3> QED
        BY <1>1, <1>2, <2>1, <3>1
    <2>2. CASE k # 1
      <3>1. k - 1 \in 1 .. k - 1 /\ (k - 1) + 1 = k
        BY <1>2, <2>2
      <3>2. r # <<>>
        BY <1>3, <3>1
      <3> QED
        BY <1>1, <1>3, <3>1, <3>2
    <2> QED
      BY <2>1, <2>2
  <1>8. CarryOn(t, r, h)
    BY <1>2, <1>5, <1>6, <1>7 DEF CarryOn
  <1>9. n <= h /\ h <= Len(t) /\ (fs[1].type # "text" => h = n)
    BY <1>1, <1>2, <1>4
  <1> QED
    BY <1>2, <1>4, <1>8, <1>9 DEF h, r

LEMMA CarryMore ==
  ASSUME NEW t \in Seq(Kinds), NEW u \in Seq(Kinds), Len(t) <= Len(u),
         NEW fs, NEW n \in Nat, n <= Len(t), CarryOn(t, fs, n),
         NEW type \in FrameTypes, type # "text" => Len(u) = Len(t)
  PROVE  CarryOn(u, Append(fs, Frame(type, Len(u))), n)
  <1> DEFINE k == Len(fs)
             f == Frame(type, Len(u))
             r == Append(fs, f)
             m == Len(t)
             l == Len(u)
  <1>1. /\ fs \in Seq(FrameSet)
        /\ \A i \in 1 .. k : n <= fs[i].upto /\ fs[i].upto <= m
        /\ \A i, j \in 1 .. k : i <= j => fs[i].upto <= fs[j].upto
        /\ \A i \in 1 .. k : fs[i].type # "text" => fs[i].upto = IF i = 1 THEN n ELSE fs[i - 1].upto
        /\ m = IF fs = <<>> THEN n ELSE fs[k].upto
    BY DEF CarryOn
  <1>2. m \in Nat /\ l \in Nat /\ m <= l /\ n <= m /\ (type # "text" => l = m)
    OBVIOUS
  <1>3. f \in FrameSet /\ f.type = type /\ f.upto = l
    BY <1>2 DEF Frame, FrameSet
  <1> HIDE DEF f, m, l
  <1>12. fs \in Seq(FrameSet)
    BY <1>1
  <1>4. k \in Nat /\ r \in Seq(FrameSet) /\ Len(r) = k + 1 /\ r # <<>>
    BY <1>3, <1>12
  <1>5. \A i \in 1 .. k + 1 : r[i] = IF i = k + 1 THEN f ELSE fs[i]
    BY <1>12
  <1>6. \A i \in 1 .. k : fs[i].upto \in Nat
    <2> TAKE i \in 1 .. k
    <2>1. fs[i] \in FrameSet
      BY <1>12
    <2> QED
      BY <2>1 DEF FrameSet
  <1>10. fs = <<>> <=> k = 0
    BY <1>1
  <1> HIDE DEF k, r
  <1>7. ASSUME NEW i \in 1 .. k + 1
        PROVE  /\ n <= r[i].upto /\ r[i].upto <= l
               /\ r[i].type # "text" => r[i].upto = IF i = 1 THEN n ELSE r[i - 1].upto
    <2>1. CASE i = k + 1
      <3>1. r[i] = f
        BY <1>5, <2>1
      <3>2. type # "text" => l = IF i = 1 THEN n ELSE r[i - 1].upto
        <4>1. CASE k = 0
          BY <1>1, <1>2, <1>10, <2>1, <4>1
        <4>2. CASE k # 0
          <5>1. i # 1 /\ i - 1 = k /\ k \in 1 .. k + 1 /\ k # k + 1
            BY <1>4, <2>1, <4>2
          <5>2. r[i - 1] = fs[k]
            BY <1>5, <5>1
          <5> QED
            BY <1>1, <1>2, <1>10, <4>2, <5>1, <5>2
        <4> QED
          BY <4>1, <4>2
      <3>3. n <= l /\ l <= l
        BY <1>2
      <3> QED
        BY <1>3, <3>1, <3>2, <3>3
    <2>2. CASE i # k + 1
      <3>1. i \in 1 .. k /\ r[i] = fs[i]
        BY <1>4, <1>5, <2>2
      <3>2. fs[i].upto \in Nat /\ fs[i].upto <= m /\ n <= fs[i].upto
        BY <1>1, <1>6, <3>1
      <3>3. i # 1 => r[i - 1] = fs[i - 1]
        <4> SUFFICES ASSUME i # 1 PROVE r[i - 1] = fs[i - 1]
          OBVIOUS
        <4>1. i - 1 \in 1 .. k + 1 /\ i - 1 # k + 1
          BY <1>4, <3>1
        <4> QED
          BY <1>5, <4>1
      <3>4. fs[i].upto <= l
        <4> DEFINE x == fs[i].upto
        <4>1. x \in Nat /\ x <= m
          BY <3>2
        <4> HIDE DEF x
        <4>2. x <= l
          BY <1>2, <4>1
        <4> QED
          BY <4>2 DEF x
      <3>5. fs[i].type # "text" => fs[i].upto = IF i = 1 THEN n ELSE fs[i - 1].upto
        BY <1>1, <3>1
      <3> QED
        BY <3>1, <3>2, <3>3, <3>4, <3>5
    <2> QED
      BY <2>1, <2>2
  <1>8. ASSUME NEW i \in 1 .. k + 1, NEW j \in 1 .. k + 1, i <= j
        PROVE  r[i].upto <= r[j].upto
    <2>1. CASE j = k + 1
      BY <1>3, <1>5, <1>7, <2>1
    <2>2. CASE j # k + 1
      <3>1. i \in 1 .. k /\ j \in 1 .. k /\ i # k + 1
        BY <1>4, <1>8, <2>2
      <3> QED
        BY <1>1, <1>5, <1>8, <2>2, <3>1
    <2> QED
      BY <2>1, <2>2
  <1>9. r[k + 1].upto = l
    BY <1>3, <1>4, <1>5
  <1>11. CarryOn(u, r, n)
    BY <1>4, <1>7, <1>8, <1>9 DEF CarryOn, l
  <1> QED
    BY <1>11 DEF r, f, l

LEMMA OwesTail ==
  ASSUME NEW fs \in Seq(FrameSet), fs # <<>>, NEW e \in BOOLEAN, NEW from, NEW o, Owes(fs, e, from, o)
  PROVE  /\ Owes(Tail(fs), e, from, o)
         /\ Head(fs).type = "end" => o # -1 /\ o <= Head(fs).upto
  <1>1. Head(fs) = fs[1] /\ 1 \in 1 .. Len(fs)
    OBVIOUS
  <1>2. Len(Tail(fs)) = Len(fs) - 1 /\ \A i \in 1 .. Len(fs) - 1 : Tail(fs)[i] = fs[i + 1] /\ i + 1 \in 1 .. Len(fs)
    OBVIOUS
  <1>3. /\ o = -1 => ~e /\ \A i \in 1 .. Len(fs) : fs[i].type # "end"
        /\ \A i \in 1 .. Len(fs) : fs[i].type = "end" => o <= fs[i].upto
        /\ e => o <= from
    BY DEF Owes
  <1>4. \A i \in 1 .. Len(Tail(fs)) : Tail(fs)[i].type = "end" => o # -1 /\ o <= Tail(fs)[i].upto
    BY <1>2, <1>3
  <1>5. Owes(Tail(fs), e, from, o)
    BY <1>3, <1>4 DEF Owes
  <1> QED
    BY <1>1, <1>3, <1>5

LEMMA OwesMore ==
  ASSUME NEW fs \in Seq(FrameSet), NEW e \in BOOLEAN, NEW from, NEW n \in Nat, NEW o \in Int, o <= n,
         NEW type, NEW m \in Nat, n <= m, type = "end" => m = n, Owes(fs, e, from, o)
  PROVE  Owes(Append(fs, Frame(type, m)), e, from, IF type = "end" /\ o = -1 THEN n ELSE o)
  <1> DEFINE k == Len(fs)
             f == Frame(type, m)
             r == Append(fs, f)
             p == IF type = "end" /\ o = -1 THEN n ELSE o
  <1>1. f.type = type /\ f.upto = m
    BY DEF Frame
  <1>2. k \in Nat /\ Len(r) = k + 1 /\ \A i \in 1 .. k + 1 : r[i] = IF i = k + 1 THEN f ELSE fs[i]
    <2> HIDE DEF f
    <2> QED
      OBVIOUS
  <1>3. /\ o = -1 => ~e /\ \A i \in 1 .. k : fs[i].type # "end"
        /\ \A i \in 1 .. k : fs[i].type = "end" => o <= fs[i].upto
        /\ e => o <= from
    BY DEF Owes
  <1> HIDE DEF k, f, r
  <1>4. ASSUME NEW i \in 1 .. k + 1, r[i].type = "end"
        PROVE  p # -1 /\ p <= r[i].upto
    <2>1. CASE i = k + 1
      <3>1. r[i].type = type /\ r[i].upto = m
        BY <1>1, <1>2, <2>1
      <3> QED
        BY <1>4, <3>1
    <2>2. CASE i # k + 1
      <3>1. i \in 1 .. k /\ r[i] = fs[i]
        BY <1>2, <2>2
      <3>2. o # -1 /\ o <= fs[i].upto
        BY <1>3, <1>4, <3>1
      <3> QED
        BY <3>1, <3>2
    <2> QED
      BY <2>1, <2>2
  <1>5. (p = -1 => o = -1) /\ (e => p = o)
    BY <1>3
  <1>6. Owes(r, e, from, p)
    <2> HIDE DEF p
    <2> QED
      BY <1>2, <1>3, <1>4, <1>5 DEF Owes
  <1> QED
    BY <1>6 DEF r, f

-----------------------------------------------------------------------------
(* The client sends more.                                                  *)

(* What reads well still does when more of the text has arrived. *)
LEMMA StillWellRead ==
  ASSUME NEW t \in Seq(Kinds), NEW u, Len(u) \in Nat, Len(t) <= Len(u), \A i \in 1 .. Len(t) : t[i] = u[i],
         NEW p \in Pieces, p.from < p.to, WellRead(t, p)
  PROVE  WellRead(u, p)
  <1> DEFINE a == p.from
             b == p.to
             m == Len(t)
  <1>1. a \in Nat /\ b \in Nat /\ a < b /\ m \in Nat
    BY DEF Pieces
  <1>2. b <= m /\ Fits(t, a, b) /\ (p.whole => t[b] # "inner") /\ m <= Len(u) /\ \A i \in 1 .. m : t[i] = u[i]
    BY DEF WellRead
  <1> HIDE DEF a, b, m
  <1>3. b <= Len(u)
    BY <1>1, <1>2
  <1>4. \A i \in a + 1 .. b - 1 : i \in 1 .. m
    BY <1>1, <1>2
  <1>5. b \in 1 .. m
    BY <1>1, <1>2
  <1>6. Fits(u, a, b) /\ (p.whole => u[b] # "inner")
    BY <1>2, <1>4, <1>5 DEF Fits
  <1> QED
    BY <1>3, <1>6 DEF WellRead, a, b

LEMMA LineGoesOn ==
  ASSUME NEW t \in Seq(Kinds), NEW u \in Seq(Kinds), Len(t) <= Len(u), \A i \in 1 .. Len(t) : t[i] = u[i],
         NEW q, NEW c, NEW a, NEW p, NEW h, Line(t, q, c, a, p, h)
  PROVE  Line(u, q, c, a, p, h)
  <1>1. Len(t) \in Nat /\ Len(u) \in Nat
    OBVIOUS
  <1>2. /\ q \in Seq(Pieces) /\ c \in Cutters /\ p \in Pieces /\ h \in Nat
        /\ c.from <= c.to /\ c.to <= Len(t) /\ h <= Len(t)
        /\ a \in {"free", "asking", "sending"}
        /\ a = "free" => Chain(q, h, c.from)
        /\ a # "free" => p.from = h /\ p.from < p.to /\ Chain(q, p.to, c.from) /\ WellRead(t, p)
        /\ AllWellRead(t, q)
    BY DEF Line
  <1>3. c.to <= Len(u) /\ h <= Len(u)
    <2> DEFINE x == c.to
               m == Len(t)
               l == Len(u)
    <2>1. x \in Nat /\ x <= m /\ h <= m /\ m <= l /\ m \in Nat /\ l \in Nat
      BY <1>1, <1>2 DEF Cutters
    <2> HIDE DEF x, m, l
    <2>2. x <= l /\ h <= l
      BY <1>2, <2>1
    <2> QED
      BY <2>2 DEF x, l
  <1>4. a # "free" => WellRead(u, p)
    BY <1>1, <1>2, StillWellRead
  <1>5. \A i \in 1 .. Len(q) : q[i].from < q[i].to
    BY <1>2 DEF Chain
  <1>6. AllWellRead(u, q)
    <2>1. ASSUME NEW i \in 1 .. Len(q)
          PROVE  WellRead(u, q[i])
      <3>1. q[i] \in Pieces /\ WellRead(t, q[i]) /\ q[i].from < q[i].to
        BY <1>2, <1>5 DEF AllWellRead
      <3> QED
        BY <1>1, <3>1, StillWellRead
    <2> QED
      BY <2>1 DEF AllWellRead
  <1> QED
    BY <1>2, <1>3, <1>4, <1>6 DEF Line

LEMMA SendsKeeps ==
  ASSUME SInv, NEW type \in FrameTypes, NEW more \in Seq(Kinds), Sends(type, more),
         type # "text" => more = <<>>, Len(text) + Len(more) <= Longest
  PROVE  SInv'
  <1>1. LeaseIsKept /\ Shape /\ closed = "no" /\ Open
    BY DEF SInv, Sends
  <1>2. /\ text' = text \o more
        /\ frames' = Append(frames, Frame(type, Len(text')))
        /\ sends < Most /\ sends' = sends + 1 /\ silent' = 0
        /\ owed' = IF type = "end" /\ owed = -1 THEN Len(text) ELSE owed
        /\ start' = start /\ lease' = lease /\ returned' = returned /\ cutter' = cutter
        /\ queued' = queued /\ piece' = piece /\ at' = at /\ heard' = heard /\ ending' = ending
        /\ closed' = closed /\ quiet' = quiet
    BY DEF Sends, starting
  <1>3. text \in Seq(Kinds) /\ Len(text) \in Nat /\ owed \in Int /\ -1 <= owed /\ owed <= Len(text) /\ ending \in BOOLEAN
    BY <1>1 DEF Shape
  <1> DEFINE u == text'
  <1>4. /\ u \in Seq(Kinds) /\ Len(u) = Len(text) + Len(more) /\ Len(text) <= Len(u) /\ Len(u) <= Longest
        /\ \A i \in 1 .. Len(text) : text[i] = u[i]
        /\ type # "text" => Len(u) = Len(text)
        /\ Len(u) \in Nat
    BY <1>2, <1>3
  <1> HIDE DEF u
  <1>5. /\ CarryOn(text, frames, cutter.to)
        /\ Line(text, queued, cutter, at, piece, heard)
        /\ Owes(frames, ending, cutter.from, owed)
        /\ at = "free" => piece = NoPiece
        /\ start # "yes" => cutter.to = 0 /\ queued = <<>> /\ at = "free" /\ ~ending
        /\ start = "yes" /\ at = "free" => queued = <<>> /\ ReadyIn(text, cutter) = cutter.from /\ ~ending
    BY <1>1 DEF Open
  <1>6. cutter \in Cutters /\ cutter.to \in Nat /\ cutter.from <= cutter.to /\ cutter.to <= Len(text)
    BY <1>5 DEF Line, Cutters
  <1>7. CarryOn(u, frames', cutter.to)
    BY <1>2, <1>3, <1>4, <1>5, <1>6, CarryMore DEF u
  <1>8. Line(u, queued, cutter, at, piece, heard)
    BY <1>3, <1>4, <1>5, LineGoesOn
  <1>9. frames \in Seq(FrameSet)
    BY <1>5 DEF CarryOn
  <1>10. Owes(frames', ending, cutter.from, owed')
    <2> DEFINE n == Len(text)
               m == Len(u)
    <2>1. n \in Nat /\ m \in Nat /\ n <= m /\ owed <= n /\ (type = "end" => m = n)
      BY <1>3, <1>4
    <2>2. frames' = Append(frames, Frame(type, m)) /\ owed' = IF type = "end" /\ owed = -1 THEN n ELSE owed
      BY <1>2 DEF u
    <2> HIDE DEF n, m
    <2>3. Owes(Append(frames, Frame(type, m)), ending, cutter.from, IF type = "end" /\ owed = -1 THEN n ELSE owed)
      BY <1>3, <1>5, <1>9, <2>1, OwesMore
    <2> QED
      BY <2>2, <2>3
  <1>11. ReadyIn(u, cutter) = ReadyIn(text, cutter)
    <2>1. \A i \in 1 .. cutter.to : text[i] = u[i]
      BY <1>3, <1>4, <1>6
    <2> QED
      BY <1>6, <2>1, ReadyIsLocal
  <1>12. Open'
    BY <1>2, <1>5, <1>7, <1>8, <1>10, <1>11 DEF Open, u
  <1>13. Shape'
    <2>1. owed' \in Int /\ -1 <= owed' /\ owed' <= Len(u)
      BY <1>2, <1>3, <1>4
    <2>2. sends \in 0 .. Most /\ quiet \in 0 .. Idle
      BY <1>1 DEF Shape
    <2>3. sends' \in 0 .. Most /\ silent' \in 0 .. Idle
      BY <1>2, <2>2, SessionAssumption
    <2> QED
      <3>1. closed' = "no"
        BY <1>1, <1>2
      <3> QED
        BY <1>2, <1>3, <1>4, <2>1, <2>2, <2>3, <3>1 DEF Shape, u
  <1>14. LeaseIsKept'
    BY <1>1, <1>2 DEF LeaseIsKept
  <1> QED
    BY <1>1, <1>2, <1>12, <1>13, <1>14 DEF SInv

-----------------------------------------------------------------------------
(* Every step.                                                             *)

LEMMA InitKeeps ==
  ASSUME Init
  PROVE  SInv
  <1>1. /\ text = <<>> /\ sends = 0 /\ frames = <<>> /\ start = "no" /\ lease = "none" /\ returned = 0
        /\ cutter = [from |-> 0, to |-> 0, first |-> TRUE] /\ queued = <<>> /\ piece = NoPiece
        /\ at = "free" /\ heard = 0 /\ ending = FALSE /\ closed = "no" /\ quiet = 0 /\ silent = 0 /\ owed = -1
    BY DEF Init
  <1>2. Longest \in Nat /\ Most \in Nat /\ Idle \in Nat
    BY SessionAssumption
  <1>3. LeaseIsKept
    BY <1>1 DEF LeaseIsKept
  <1>4. Shape
    <2>1. text \in Seq(Kinds) /\ Len(text) = 0
      BY <1>1
    <2>2. sends \in 0 .. Most /\ silent \in 0 .. Idle /\ quiet \in 0 .. Idle
      BY <1>1, <1>2
    <2>3. owed \in Int /\ -1 <= owed /\ owed <= 0
      BY <1>1
    <2>4. ending \in BOOLEAN
      BY <1>1, Zenon
    <2> QED
      BY <1>1, <1>2, <2>1, <2>2, <2>3, <2>4 DEF Shape
  <1>5. cutter \in Cutters /\ cutter.from = 0 /\ cutter.to = 0
    BY <1>1 DEF Cutters
  <1>6. piece \in Pieces
    BY <1>1 DEF Pieces, NoPiece, Piece
  <1>7. Len(text) = 0 /\ Len(frames) = 0 /\ Len(queued) = 0 /\ queued \in Seq(Pieces) /\ frames \in Seq(FrameSet)
    BY <1>1
  <1>8. CarryOn(text, frames, cutter.to)
    BY <1>1, <1>5, <1>7 DEF CarryOn
  <1>9. Line(text, queued, cutter, at, piece, heard)
    BY <1>1, <1>5, <1>6, <1>7 DEF Line, Chain, AllWellRead
  <1>10. Owes(frames, ending, cutter.from, owed)
    BY <1>1, <1>7 DEF Owes
  <1>11. Open
    BY <1>1, <1>5, <1>8, <1>9, <1>10 DEF Open
  <1> QED
    BY <1>1, <1>3, <1>4, <1>11 DEF SInv

LEMMA ClientKeeps ==
  ASSUME SInv, SendsStart \/ SendsText \/ SendsFlush \/ SendsEnd \/ SendsBad
  PROVE  SInv'
  <1>1. text \in Seq(Kinds) /\ Len(text) \in Nat /\ Len(text) <= Longest
    BY DEF SInv, Shape
  <1>2. <<>> \in Seq(Kinds) /\ Len(<<>>) = 0
    OBVIOUS
  <1>3. CASE SendsStart \/ SendsFlush \/ SendsEnd \/ SendsBad
    <2>1. PICK type \in {"start", "flush", "end", "bad"} : Sends(type, <<>>)
      BY <1>3 DEF SendsStart, SendsFlush, SendsEnd, SendsBad
    <2>2. type \in FrameTypes /\ Len(text) + Len(<<>>) <= Longest
      BY <1>1 DEF FrameTypes
    <2> QED
      BY <1>2, <2>1, <2>2, SendsKeeps
  <1>4. CASE SendsText
    <2>1. PICK n \in 1 .. Longest - Len(text) : \E more \in [1 .. n -> Kinds] : Sends("text", more)
      BY <1>4 DEF SendsText
    <2>2. PICK more \in [1 .. n -> Kinds] : Sends("text", more)
      BY <2>1
    <2>3. n \in Nat /\ Len(text) + n <= Longest
      BY <1>1, SessionAssumption
    <2>4. more \in Seq(Kinds) /\ Len(more) = n
      BY <2>3
    <2>5. "text" \in FrameTypes /\ Len(text) + Len(more) <= Longest
      BY <2>3, <2>4 DEF FrameTypes
    <2> QED
      BY <2>2, <2>4, <2>5, SendsKeeps
  <1> QED
    BY <1>3, <1>4

(* A failure closes the session, and nothing else. *)
LEMMA FailKeeps ==
  ASSUME SInv, closed = "no", NEW how \in {"error", "idle", "gone"}, Fail(how),
         UNCHANGED client, UNCHANGED starting, quiet' \in 0 .. Idle
  PROVE  SInv'
  <1>1. Close(how) /\ heard' = heard /\ ending' = ending
    BY DEF Fail
  <1>2. heard \in Nat /\ heard <= Len(text) /\ ending \in BOOLEAN
    BY DEF SInv, Open, Line, Shape
  <1>3. ending' \in BOOLEAN /\ heard' \in Nat /\ heard' <= Len(text)
    BY <1>1, <1>2
  <1> QED
    BY <1>1, <1>3, CloseKeeps

LEMMA HangsKeeps ==
  ASSUME SInv, Hangs
  PROVE  SInv'
  <1>1. closed = "no" /\ Fail("gone") /\ UNCHANGED client /\ UNCHANGED starting /\ quiet' = quiet
    BY DEF Hangs
  <1>2. quiet \in 0 .. Idle
    BY DEF SInv, Shape
  <1> QED
    BY <1>1, <1>2, FailKeeps

LEMMA SpeechFailsKeeps ==
  ASSUME SInv, Refused \/ BreaksOff
  PROVE  SInv'
  <1>1. closed = "no" /\ Fail("error") /\ UNCHANGED client /\ UNCHANGED starting /\ quiet' = quiet
    BY DEF Refused, BreaksOff, Speaking
  <1>2. quiet \in 0 .. Idle
    BY DEF SInv, Shape
  <1> QED
    BY <1>1, <1>2, FailKeeps

LEMMA MisfitKeeps ==
  ASSUME SInv, Misfit
  PROVE  SInv'
  <1>1. closed = "no" /\ Fail("error") /\ UNCHANGED client /\ UNCHANGED starting /\ quiet' = 0
    BY DEF Misfit, Frames
  <1>2. 0 \in 0 .. Idle
    BY SessionAssumption
  <1> QED
    BY <1>1, <1>2, FailKeeps

(* A frame that is handled. *)
LEMMA HeadIs ==
  ASSUME SInv, closed = "no", frames # <<>>
  PROVE  /\ text \in Seq(Kinds) /\ Len(text) \in Nat
         /\ cutter \in Cutters /\ cutter.from \in Nat /\ cutter.to \in Nat /\ cutter.from <= cutter.to
         /\ Line(text, queued, cutter, at, piece, heard)
         /\ Head(frames) \in FrameSet /\ Head(frames).upto \in Nat
         /\ cutter.to <= Head(frames).upto /\ Head(frames).upto <= Len(text)
         /\ Head(frames).type # "text" => Head(frames).upto = cutter.to
         /\ CarryOn(text, Tail(frames), Head(frames).upto)
         /\ Owes(Tail(frames), ending, cutter.from, owed)
         /\ Head(frames).type = "end" => owed # -1 /\ owed <= Head(frames).upto
  <1>1. text \in Seq(Kinds) /\ ending \in BOOLEAN /\ Open
    BY DEF SInv, Shape
  <1>2. CarryOn(text, frames, cutter.to) /\ Line(text, queued, cutter, at, piece, heard) /\ Owes(frames, ending, cutter.from, owed)
    BY <1>1 DEF Open
  <1>3. cutter \in Cutters /\ cutter.from \in Nat /\ cutter.to \in Nat /\ cutter.from <= cutter.to
    BY <1>2 DEF Line, Cutters
  <1>4. /\ Head(frames) \in FrameSet
        /\ cutter.to <= Head(frames).upto /\ Head(frames).upto <= Len(text)
        /\ Head(frames).type # "text" => Head(frames).upto = cutter.to
        /\ CarryOn(text, Tail(frames), Head(frames).upto)
    BY <1>1, <1>2, <1>3, CarryTail
  <1>5. frames \in Seq(FrameSet)
    BY <1>2 DEF CarryOn
  <1>6. /\ Owes(Tail(frames), ending, cutter.from, owed)
        /\ Head(frames).type = "end" => owed # -1 /\ owed <= Head(frames).upto
    BY <1>1, <1>2, <1>5, OwesTail
  <1>7. Head(frames).upto \in Nat
    BY <1>4 DEF FrameSet
  <1> QED
    BY <1>1, <1>2, <1>3, <1>4, <1>6, <1>7

LEMMA StartKeeps ==
  ASSUME SInv, Start
  PROVE  SInv'
  <1>1. /\ frames # <<>> /\ closed = "no" /\ Head(frames).type = "start" /\ start = "no"
        /\ start' = "resolving" /\ quiet' = 0 /\ frames' = Tail(frames)
        /\ text' = text /\ sends' = sends /\ silent' = silent /\ owed' = owed
        /\ lease' = lease /\ returned' = returned /\ cutter' = cutter /\ queued' = queued /\ piece' = piece
        /\ at' = at /\ heard' = heard /\ ending' = ending /\ closed' = closed
    BY DEF Start, Frames, client
  <1>2. LeaseIsKept /\ Shape /\ Open
    BY <1>1 DEF SInv
  <1>3. /\ Line(text, queued, cutter, at, piece, heard)
        /\ CarryOn(text, Tail(frames), cutter.to)
        /\ Owes(Tail(frames), ending, cutter.from, owed)
    BY <1>1, HeadIs
  <1>4. LeaseIsKept'
    BY <1>1, <1>2 DEF LeaseIsKept
  <1>5. Shape'
    <2>1. 0 \in 0 .. Idle
      BY SessionAssumption
    <2> QED
      BY <1>1, <1>2, <2>1 DEF Shape
  <1>6. Open'
    BY <1>1, <1>2, <1>3 DEF Open
  <1> QED
    BY <1>1, <1>4, <1>5, <1>6 DEF SInv

LEMMA TextKeeps ==
  ASSUME SInv, Text
  PROVE  SInv'
  <1> DEFINE n == Head(frames).upto
             c == [cutter EXCEPT !.to = n]
             free == at = "free"
  <1>1. /\ frames # <<>> /\ closed = "no" /\ start = "yes"
        /\ UNCHANGED client /\ UNCHANGED starting /\ heard' = heard /\ ending' = ending /\ quiet' = 0
        /\ Continue(queued, c, free, ending, Tail(frames))
    BY DEF Text, Frames
  <1>2. /\ text \in Seq(Kinds) /\ Len(text) \in Nat
        /\ cutter \in Cutters /\ cutter.from \in Nat /\ cutter.to \in Nat /\ cutter.from <= cutter.to
        /\ Line(text, queued, cutter, at, piece, heard)
        /\ n \in Nat /\ cutter.to <= n /\ n <= Len(text)
        /\ CarryOn(text, Tail(frames), n) /\ Owes(Tail(frames), ending, cutter.from, owed)
    BY <1>1, HeadIs
  <1> HIDE DEF n
  <1>3. c \in Cutters /\ c.from = cutter.from /\ c.to = n /\ c.from <= c.to
    <2>1. c \in Cutters /\ c.from = cutter.from /\ c.to = n
      BY <1>2 DEF Cutters
    <2> HIDE DEF c
    <2> DEFINE x == cutter.from
               y == cutter.to
    <2>2. x \in Nat /\ y \in Nat /\ x <= y /\ y <= n
      BY <1>2
    <2> HIDE DEF x, y
    <2>3. x <= n
      BY <1>2, <2>2
    <2> QED
      BY <2>1, <2>3 DEF x
  <1> HIDE DEF c
  <1>4. Line(text, queued, c, at, piece, heard)
    BY <1>2, <1>3 DEF Line
  <1>5. ending \in BOOLEAN
    BY DEF SInv, Shape
  <1>6. at = (IF free THEN "free" ELSE at) /\ free \in BOOLEAN /\ (~free => at # "free")
    OBVIOUS
  <1>7. CarryOn(text, Tail(frames), c.to) /\ Owes(Tail(frames), ending', c.from, owed)
    BY <1>1, <1>2, <1>3
  <1>8. ending' \in BOOLEAN /\ Line(text, queued, c, at, piece, heard') /\ Continue(queued, c, free, ending', Tail(frames))
    BY <1>1, <1>4, <1>5
  <1> HIDE DEF free
  <1> QED
    BY <1>1, <1>6, <1>7, <1>8, ContinueKeeps

LEMMA FlushKeeps ==
  ASSUME SInv, Flush
  PROVE  SInv'
  <1> DEFINE n == Head(frames).upto
             q == queued \o Rest(cutter)
             c == Emptied(cutter)
             free == at = "free"
  <1>1. /\ frames # <<>> /\ closed = "no" /\ start = "yes" /\ Head(frames).type \in {"flush", "end"}
        /\ UNCHANGED client /\ UNCHANGED starting /\ heard' = heard /\ quiet' = 0
        /\ ending' = (ending \/ Head(frames).type = "end")
        /\ Continue(q, c, free, ending', Tail(frames))
    BY DEF Flush, Frames
  <1>2. /\ text \in Seq(Kinds) /\ Len(text) \in Nat
        /\ cutter \in Cutters /\ cutter.from \in Nat /\ cutter.to \in Nat /\ cutter.from <= cutter.to
        /\ Line(text, queued, cutter, at, piece, heard)
        /\ n = cutter.to
        /\ CarryOn(text, Tail(frames), n) /\ Owes(Tail(frames), ending, cutter.from, owed)
        /\ Head(frames).type = "end" => owed # -1 /\ owed <= n
    BY <1>1, HeadIs
  <1>3. c \in Cutters /\ c.from = cutter.to /\ c.to = cutter.to
    BY <1>2 DEF Emptied, Cutters
  <1>4. /\ queued \in Seq(Pieces) /\ cutter.to <= Len(text) /\ AllWellRead(text, queued)
        /\ piece \in Pieces /\ heard \in Nat /\ heard <= Len(text) /\ at \in {"free", "asking", "sending"}
        /\ at = "free" => Chain(queued, heard, cutter.from)
        /\ at # "free" => piece.from = heard /\ piece.from < piece.to /\ Chain(queued, piece.to, cutter.from) /\ WellRead(text, piece)
    BY <1>2 DEF Line
  <1>5. Rest(cutter) \in Seq(Pieces) /\ Chain(Rest(cutter), cutter.from, cutter.to) /\ AllWellRead(text, Rest(cutter))
    BY <1>2, <1>4, RestIs
  <1>6. q \in Seq(Pieces) /\ AllWellRead(text, q)
    BY <1>4, <1>5, ReadTogether, ChainsJoin
  <1>7. \A h : Chain(queued, h, cutter.from) => Chain(q, h, cutter.to)
    BY <1>4, <1>5, ChainsJoin
  <1> HIDE DEF n, q, c
  <1>8. c.from <= c.to /\ c.to <= Len(text)
    BY <1>2, <1>3, <1>4
  <1>9. Line(text, q, c, at, piece, heard)
    BY <1>3, <1>4, <1>6, <1>7, <1>8 DEF Line
  <1>10. ending \in BOOLEAN /\ owed \in Int
    BY DEF SInv, Shape
  <1>11. Owes(Tail(frames), ending', c.from, owed)
    <2> DEFINE x == cutter.from
               y == cutter.to
    <2>1. x \in Nat /\ y \in Nat /\ x <= y /\ c.from = y /\ n = y
      BY <1>2, <1>3
    <2>2. Owes(Tail(frames), ending, x, owed)
      BY <1>2
    <2> HIDE DEF x, y
    <2>3. CASE Head(frames).type = "end"
      <3>1. owed # -1 /\ owed <= y /\ ending'
        BY <1>1, <1>2, <2>1, <2>3
      <3> QED
        BY <2>1, <2>2, <3>1 DEF Owes
    <2>4. CASE Head(frames).type # "end"
      <3>1. ending' = ending
        BY <1>1, <1>10, <2>4
      <3>2. ending => owed <= y
        BY <1>10, <2>1, <2>2 DEF Owes
      <3> QED
        BY <2>1, <2>2, <3>1, <3>2 DEF Owes
    <2> QED
      BY <2>3, <2>4
  <1>12. at = (IF free THEN "free" ELSE at) /\ free \in BOOLEAN /\ (~free => at # "free")
    OBVIOUS
  <1>13. CarryOn(text, Tail(frames), c.to)
    BY <1>2, <1>3
  <1>14. ending' \in BOOLEAN
    BY <1>1, <1>10
  <1>15. Line(text, q, c, at, piece, heard') /\ Continue(q, c, free, ending', Tail(frames))
    BY <1>1, <1>9
  <1> HIDE DEF free
  <1> QED
    BY <1>1, <1>11, <1>12, <1>13, <1>14, <1>15, ContinueKeeps

(* A start that is under way: the session is as it was. *)
LEMMA NotStarted ==
  ASSUME SInv, start # "yes", text' = text, sends' = sends, silent' = silent, owed' = owed,
         UNCHANGED <<frames, cutter, queued, piece, at, heard, ending, closed, quiet>>,
         closed = "no" => (start' = "yes" => ReadyIn(text, cutter) = cutter.from),
         LeaseIsKept'
  PROVE  SInv'
  <1>1. /\ frames' = frames /\ cutter' = cutter /\ queued' = queued /\ piece' = piece /\ at' = at
        /\ heard' = heard /\ ending' = ending /\ closed' = closed /\ quiet' = quiet
    OBVIOUS
  <1>2. Shape'
    BY <1>1 DEF SInv, Shape
  <1>3. closed = "no" => Open'
    BY <1>1 DEF SInv, Open
  <1>4. closed # "no" => Shut'
    BY <1>1 DEF SInv, Shut
  <1> QED
    BY <1>1, <1>2, <1>3, <1>4 DEF SInv

LEMMA ResolvedKeeps ==
  ASSUME SInv, Resolved
  PROVE  SInv'
  <1>1. start = "resolving" /\ UNCHANGED client /\ quiet' = quiet /\ LeaseIsKept
    BY DEF Resolved, SInv
  <1>2. text' = text /\ sends' = sends /\ silent' = silent /\ owed' = owed
    BY <1>1 DEF client
  <1>3. CASE /\ start' = "acquiring" /\ lease' = "asked"
             /\ UNCHANGED <<frames, returned, cutter, queued, piece, at, heard, ending, closed>>
    <2>1. returned' = returned /\ closed' = closed
      BY <1>3
    <2>2. LeaseIsKept'
      BY <1>1, <1>3, <2>1 DEF LeaseIsKept
    <2>3. start # "yes" /\ start' # "yes"
      BY <1>1, <1>3
    <2>4. UNCHANGED <<frames, cutter, queued, piece, at, heard, ending, closed, quiet>>
      BY <1>1, <1>3
    <2> QED
      BY <1>2, <2>2, <2>3, <2>4, NotStarted
  <1>4. CASE start' = "no" /\ lease' = lease /\ RefuseStart
    <2>1. CASE closed = "no" /\ Fail("error")
      <3>1. /\ LeaseIsKept /\ Shape /\ Open
        BY <2>1 DEF SInv
      <3>2. /\ closed' = "error" /\ frames' = <<>> /\ queued' = <<>> /\ piece' = NoPiece /\ at' = "free"
            /\ cutter' = Emptied(cutter) /\ heard' = heard /\ ending' = ending /\ returned' = returned
        BY <1>1, <2>1 DEF Fail, Close, Over
      <3>3. LeaseIsKept'
        BY <1>1, <1>4, <3>1, <3>2, <2>1 DEF LeaseIsKept
      <3>4. Shape' /\ Shut'
        <4>1. quiet' \in 0 .. Idle /\ ending' \in BOOLEAN /\ heard' \in Nat /\ heard' <= Len(text)
          BY <1>1, <3>1, <3>2 DEF Shape, Open, Line
        <4>2. closed' \in {"done", "error", "idle", "gone"} /\ closed' # "done"
          BY <3>2
        <4> QED
          BY <1>2, <3>1, <3>2, <4>1, <4>2, OverLeaves
      <3> QED
        BY <3>2, <3>3, <3>4 DEF SInv
    <2>2. CASE closed # "no" /\ UNCHANGED <<frames, returned, cutter, queued, piece, at, heard, ending, closed>>
      <3>1. returned' = returned /\ closed' = closed
        BY <2>2
      <3>2. LeaseIsKept'
        BY <1>1, <1>4, <3>1 DEF LeaseIsKept
      <3>3. start # "yes" /\ start' # "yes"
        BY <1>1, <1>4
      <3>4. UNCHANGED <<frames, cutter, queued, piece, at, heard, ending, closed, quiet>>
        BY <1>1, <2>2
      <3> QED
        BY <1>2, <3>2, <3>3, <3>4, NotStarted
    <2> QED
      BY <1>4, <2>1, <2>2 DEF RefuseStart
  <1> QED
    BY <1>3, <1>4 DEF Resolved

LEMMA AcquiredKeeps ==
  ASSUME SInv, Acquired
  PROVE  SInv'
  <1>1. start = "acquiring" /\ UNCHANGED client /\ quiet' = quiet /\ LeaseIsKept
    BY DEF Acquired, SInv
  <1>2. text' = text /\ sends' = sends /\ silent' = silent /\ owed' = owed
    BY <1>1 DEF client
  <1>3. CASE Granted /\ UNCHANGED <<frames, cutter, queued, piece, at, heard, ending, closed>>
    <2>1. LeaseIsKept'
      <3>1. closed' = closed /\ lease = "asked" /\ returned = 0
        BY <1>1, <1>3 DEF LeaseIsKept
      <3>2. CASE closed = "no"
        <4>1. lease' = "held" /\ start' = "yes" /\ returned' = 0
          BY <1>3, <3>1, <3>2 DEF Granted
        <4> QED
          BY <3>1, <3>2, <4>1 DEF LeaseIsKept
      <3>3. CASE closed # "no"
        <4>1. lease' = "held" /\ start' = "no" /\ returned' = 1
          BY <1>3, <3>1, <3>3 DEF Granted
        <4> QED
          BY <3>1, <3>3, <4>1 DEF LeaseIsKept
      <3> QED
        BY <3>2, <3>3
    <2>2. closed = "no" => ReadyIn(text, cutter) = cutter.from
      <3> SUFFICES ASSUME closed = "no" PROVE ReadyIn(text, cutter) = cutter.from
        OBVIOUS
      <3>1. Open
        BY DEF SInv
      <3>2. cutter.from \in Nat /\ cutter.from <= cutter.to /\ cutter.to = 0
        BY <1>1, <3>1 DEF Open, Line, Cutters
      <3>3. cutter.from = 0
        BY <3>2
      <3>4. EndsOfIn(text, cutter) = {}
        BY <3>2, <3>3 DEF EndsOfIn
      <3>5. 0 - 0 <= Limit
        BY SegmentsAssumption
      <3> QED
        BY <3>2, <3>3, <3>4, <3>5 DEF ReadyIn
    <2>3. start # "yes"
      BY <1>1
    <2>4. UNCHANGED <<frames, cutter, queued, piece, at, heard, ending, closed, quiet>>
      BY <1>1, <1>3
    <2> QED
      BY <1>2, <2>1, <2>2, <2>3, <2>4, NotStarted
  <1>4. CASE start' = "no" /\ lease' = "none" /\ RefuseStart
    <2>1. CASE closed = "no" /\ Fail("error")
      <3>1. /\ LeaseIsKept /\ Shape /\ Open
        BY <2>1 DEF SInv
      <3>2. /\ closed' = "error" /\ frames' = <<>> /\ queued' = <<>> /\ piece' = NoPiece /\ at' = "free"
            /\ cutter' = Emptied(cutter) /\ heard' = heard /\ ending' = ending /\ returned' = returned
        BY <1>1, <2>1 DEF Fail, Close, Over
      <3>3. LeaseIsKept'
        BY <1>1, <1>4, <3>1, <3>2, <2>1 DEF LeaseIsKept
      <3>4. Shape' /\ Shut'
        <4>1. quiet' \in 0 .. Idle /\ ending' \in BOOLEAN /\ heard' \in Nat /\ heard' <= Len(text)
          BY <1>1, <3>1, <3>2 DEF Shape, Open, Line
        <4>2. closed' \in {"done", "error", "idle", "gone"} /\ closed' # "done"
          BY <3>2
        <4> QED
          BY <1>2, <3>1, <3>2, <4>1, <4>2, OverLeaves
      <3> QED
        BY <3>2, <3>3, <3>4 DEF SInv
    <2>2. CASE closed # "no" /\ UNCHANGED <<frames, returned, cutter, queued, piece, at, heard, ending, closed>>
      <3>1. returned' = returned /\ closed' = closed
        BY <2>2
      <3>2. LeaseIsKept'
        BY <1>1, <1>4, <3>1 DEF LeaseIsKept
      <3>3. start # "yes" /\ start' # "yes"
        BY <1>1, <1>4
      <3>4. UNCHANGED <<frames, cutter, queued, piece, at, heard, ending, closed, quiet>>
        BY <1>1, <2>2
      <3> QED
        BY <1>2, <3>2, <3>3, <3>4, NotStarted
    <2> QED
      BY <1>4, <2>1, <2>2 DEF RefuseStart
  <1> QED
    BY <1>3, <1>4 DEF Acquired

LEMMA AnsweredKeeps ==
  ASSUME SInv, Answered
  PROVE  SInv'
  <1>1. /\ closed = "no" /\ at = "asking" /\ at' = "sending"
        /\ UNCHANGED client /\ UNCHANGED starting
        /\ frames' = frames /\ returned' = returned /\ cutter' = cutter /\ queued' = queued /\ piece' = piece
        /\ heard' = heard /\ ending' = ending /\ closed' = closed /\ quiet' = quiet
    BY DEF Answered, Speaking
  <1>2. /\ text' = text /\ sends' = sends /\ silent' = silent /\ owed' = owed
        /\ start' = start /\ lease' = lease
    BY <1>1 DEF client, starting
  <1>3. LeaseIsKept /\ Shape /\ Open
    BY <1>1 DEF SInv
  <1>4. LeaseIsKept'
    BY <1>1, <1>2, <1>3 DEF LeaseIsKept
  <1>5. Shape'
    BY <1>1, <1>2, <1>3 DEF Shape
  <1>6. Line(text, queued, cutter, "sending", piece, heard)
    <2>1. Line(text, queued, cutter, at, piece, heard)
      BY <1>3 DEF Open
    <2> QED
      BY <1>1, <2>1 DEF Line
  <1>7. start = "yes"
    BY <1>1, <1>3 DEF Open
  <1>8. Open'
    BY <1>1, <1>2, <1>3, <1>6, <1>7 DEF Open
  <1> QED
    BY <1>1, <1>4, <1>5, <1>8 DEF SInv

LEMMA SpokenKeeps ==
  ASSUME SInv, Spoken
  PROVE  SInv'
  <1>1. /\ closed = "no" /\ at # "free"
        /\ UNCHANGED client /\ UNCHANGED starting /\ ending' = ending /\ quiet' = 0 /\ heard' = piece.to
        /\ Continue(queued, cutter, TRUE, ending, frames)
    BY DEF Spoken, Speaking, Onward
  <1>2. Open /\ ending \in BOOLEAN /\ Len(text) \in Nat
    BY <1>1 DEF SInv, Shape
  <1>3. start = "yes"
    BY <1>1, <1>2 DEF Open
  <1>4. /\ Line(text, queued, cutter, at, piece, heard) /\ CarryOn(text, frames, cutter.to)
        /\ Owes(frames, ending, cutter.from, owed)
    BY <1>2 DEF Open
  <1>5. piece.to \in Nat /\ piece.to <= Len(text) /\ Chain(queued, piece.to, cutter.from)
    BY <1>1, <1>4 DEF Line, WellRead, Pieces
  <1>6. Line(text, queued, cutter, "free", piece, heard')
    BY <1>1, <1>4, <1>5 DEF Line
  <1>7. "free" = IF TRUE THEN "free" ELSE at
    OBVIOUS
  <1>8. ending' \in BOOLEAN /\ Owes(frames, ending', cutter.from, owed) /\ Continue(queued, cutter, TRUE, ending', frames)
    BY <1>1, <1>2, <1>4
  <1> QED
    BY <1>1, <1>3, <1>4, <1>6, <1>7, <1>8, ContinueKeeps

(* Time passes, and nothing else. *)
LEMMA TimeKeeps ==
  ASSUME SInv, UNCHANGED <<text, sends, owed, frames, starting, returned, cutter, queued, piece, at, heard, ending, closed>>,
         quiet' \in 0 .. Idle, silent' \in 0 .. Idle
  PROVE  SInv'
  <1>1. /\ text' = text /\ sends' = sends /\ owed' = owed /\ frames' = frames /\ start' = start /\ lease' = lease
        /\ returned' = returned /\ cutter' = cutter /\ queued' = queued /\ piece' = piece /\ at' = at
        /\ heard' = heard /\ ending' = ending /\ closed' = closed
    BY DEF starting
  <1>2. LeaseIsKept'
    BY <1>1 DEF SInv, LeaseIsKept
  <1>3. Shape'
    BY <1>1 DEF SInv, Shape
  <1>4. closed = "no" => Open'
    BY <1>1 DEF SInv, Open
  <1>5. closed # "no" => Shut'
    BY <1>1 DEF SInv, Shut
  <1> QED
    BY <1>1, <1>2, <1>3, <1>4, <1>5 DEF SInv

LEMMA ClocksKeep ==
  ASSUME SInv, Tick \/ IdleOut
  PROVE  SInv'
  <1>1. Idle \in Nat /\ quiet \in 0 .. Idle /\ silent \in 0 .. Idle
    BY SessionAssumption DEF SInv, Shape
  <1>2. CASE Tick
    <2>1. quiet' \in 0 .. Idle
      BY <1>1, <1>2 DEF Tick
    <2>2. silent' \in 0 .. Idle
      <3>1. {silent + 1, Idle} \subseteq Nat /\ {silent + 1, Idle} # {}
        BY <1>1
      <3>2. Min({silent + 1, Idle}) \in {silent + 1, Idle} /\ Min({silent + 1, Idle}) <= Idle
        BY <3>1, MinIs
      <3>3. silent' = Min({silent + 1, Idle})
        BY <1>2 DEF Tick
      <3>4. silent' \in Nat /\ silent' <= Idle
        BY <3>1, <3>2, <3>3
      <3> QED
        BY <1>1, <3>4
    <2> QED
      BY <1>2, <2>1, <2>2, TimeKeeps DEF Tick
  <1>3. CASE IdleOut
    <2>1. UNCHANGED client /\ UNCHANGED starting /\ closed = "no"
      BY <1>3 DEF IdleOut
    <2>2. CASE Rearms
      <3>1. 0 \in 0 .. Idle
        BY <1>1
      <3> QED
        BY <1>1, <2>1, <2>2, <3>1, TimeKeeps DEF Rearms, client
    <2>3. CASE Fail("idle") /\ quiet' = quiet
      BY <1>1, <2>1, <2>3, FailKeeps
    <2> QED
      BY <1>3, <2>2, <2>3 DEF IdleOut
  <1> QED
    BY <1>2, <1>3

LEMMA StutterKeeps ==
  ASSUME SInv, UNCHANGED vars
  PROVE  SInv'
  <1>1. quiet \in 0 .. Idle /\ silent \in 0 .. Idle
    BY DEF SInv, Shape
  <1>2. quiet' \in 0 .. Idle /\ silent' \in 0 .. Idle
    BY <1>1 DEF vars, client
  <1> QED
    BY <1>2, TimeKeeps DEF vars, client

LEMMA NextKeeps ==
  ASSUME SInv, [Next]_vars
  PROVE  SInv'
  <1>1. ASSUME Clients PROVE SInv'
    BY <1>1, ClientKeeps, HangsKeeps DEF Clients
  <1>2. ASSUME Handles PROVE SInv'
    BY <1>2, StartKeeps, TextKeeps, FlushKeeps, MisfitKeeps DEF Handles
  <1>3. ASSUME Speaks PROVE SInv'
    BY <1>3, SpeechFailsKeeps, AnsweredKeeps, SpokenKeeps DEF Speaks
  <1> QED
    BY <1>1, <1>2, <1>3, ResolvedKeeps, AcquiredKeeps, ClocksKeep, StutterKeeps DEF Next

(* The invariant of a session. *)
THEOREM SessionInvariance == Spec => []SInv
  <1>1. Init => SInv
    BY InitKeeps
  <1>2. SInv /\ [Next]_vars => SInv'
    BY NextKeeps
  <1> QED
    BY <1>1, <1>2, PTL DEF Spec

-----------------------------------------------------------------------------
(* What follows from it.                                                   *)

(* Nothing in the session is beyond what was written. *)
LEMMA WithinText ==
  ASSUME SInv
  PROVE  /\ frames \in Seq(FrameSet) /\ \A i \in 1 .. Len(frames) : frames[i].upto <= Len(text)
         /\ queued \in Seq(Pieces) /\ \A i \in 1 .. Len(queued) : queued[i].to <= Len(text) /\ queued[i].from < queued[i].to
         /\ cutter \in Cutters /\ cutter.from <= Len(text) /\ cutter.to <= Len(text)
         /\ piece \in Pieces /\ piece.from <= Len(text) /\ piece.to <= Len(text)
         /\ heard \in Nat /\ heard <= Len(text) /\ at \in {"free", "asking", "sending"}
  <1>1. Len(text) \in Nat
    BY DEF SInv, Shape
  <1>2. NoPiece \in Pieces /\ NoPiece.from <= Len(text) /\ NoPiece.to <= Len(text)
    BY <1>1 DEF NoPiece, Piece, Pieces
  <1>3. CASE closed = "no"
    <2>1. /\ CarryOn(text, frames, cutter.to) /\ Line(text, queued, cutter, at, piece, heard)
          /\ at = "free" => piece = NoPiece
      BY <1>3 DEF SInv, Open
    <2>2. frames \in Seq(FrameSet) /\ \A i \in 1 .. Len(frames) : frames[i].upto <= Len(text)
      BY <2>1 DEF CarryOn
    <2>3. /\ queued \in Seq(Pieces) /\ cutter \in Cutters /\ piece \in Pieces /\ heard \in Nat
          /\ cutter.from <= cutter.to /\ cutter.to <= Len(text) /\ heard <= Len(text)
          /\ at \in {"free", "asking", "sending"} /\ AllWellRead(text, queued)
          /\ at # "free" => piece.from < piece.to /\ piece.to <= Len(text)
      BY <2>1 DEF Line, WellRead
    <2>4. \A i \in 1 .. Len(queued) : queued[i].to <= Len(text) /\ queued[i].from < queued[i].to
      <3>1. \E from, to : Chain(queued, from, to)
        BY <2>1 DEF Line
      <3> QED
        BY <2>3, <3>1 DEF Chain, AllWellRead, WellRead
    <2>5. cutter.from <= Len(text)
      <3> DEFINE x == cutter.from
                 y == cutter.to
                 l == Len(text)
      <3>1. x \in Nat /\ y \in Nat /\ l \in Nat /\ x <= y /\ y <= l
        BY <1>1, <2>3 DEF Cutters
      <3> HIDE DEF x, y, l
      <3>2. x <= l
        BY <3>1
      <3> QED
        BY <3>2 DEF x, l
    <2>6. at # "free" => piece.from <= Len(text)
      <3> SUFFICES ASSUME at # "free" PROVE piece.from <= Len(text)
        OBVIOUS
      <3> DEFINE x == piece.from
                 y == piece.to
                 l == Len(text)
      <3>1. x \in Nat /\ y \in Nat /\ l \in Nat /\ x < y /\ y <= l
        BY <1>1, <2>3 DEF Pieces
      <3> HIDE DEF x, y, l
      <3>2. x <= l
        BY <3>1
      <3> QED
        BY <3>2 DEF x, l
    <2> QED
      BY <1>2, <2>1, <2>2, <2>3, <2>4, <2>5, <2>6
  <1>4. CASE closed # "no"
    <2>1. Shut
      BY <1>4 DEF SInv
    <2>2. frames \in Seq(FrameSet) /\ queued \in Seq(Pieces) /\ Len(frames) = 0 /\ Len(queued) = 0
      BY <2>1 DEF Shut
    <2> QED
      BY <1>2, <2>1, <2>2 DEF Shut
  <1> QED
    BY <1>3, <1>4

(* The type invariant of a session, whatever the client sends and whatever fails. *)
THEOREM SessionTypeCorrect == Spec => []TypeOK
  <1>1. SInv => TypeOK
    <2> SUFFICES ASSUME SInv PROVE TypeOK
      OBVIOUS
    <2> DEFINE l == Len(text)
               Bound == 0 .. Longest
    <2>1. LeaseIsKept /\ Shape
      BY DEF SInv
    <2>2. text \in Seq(Kinds) /\ l \in Nat /\ l <= Longest /\ Longest \in Nat
      BY <2>1, SessionAssumption DEF Shape
    <2>3. /\ frames \in Seq(FrameSet) /\ \A i \in 1 .. Len(frames) : frames[i].upto <= l
          /\ queued \in Seq(Pieces) /\ \A i \in 1 .. Len(queued) : queued[i].to <= l /\ queued[i].from < queued[i].to
          /\ cutter \in Cutters /\ cutter.from <= l /\ cutter.to <= l
          /\ piece \in Pieces /\ piece.from <= l /\ piece.to <= l
          /\ heard \in Nat /\ heard <= l /\ at \in {"free", "asking", "sending"}
      BY WithinText
    <2>0. owed \in Int /\ -1 <= owed /\ owed <= l
      BY <2>1 DEF Shape
    <2> HIDE DEF l
    <2>4. \A x \in Nat : x <= l => x \in Bound
      BY <2>2
    <2>5. owed \in -1 .. Longest
      BY <2>0, <2>2
    <2> HIDE DEF Bound
    <2>6. frames \in Seq([type : FrameTypes, upto : Bound])
      <3> DEFINE R == [type : FrameTypes, upto : Bound]
      <3>1. ASSUME NEW i \in 1 .. Len(frames)
            PROVE  frames[i] \in R
        <4>1. frames[i] \in FrameSet /\ frames[i].upto <= l
          BY <2>3, <3>1
        <4> QED
          BY <2>4, <4>1 DEF FrameSet
      <3> HIDE DEF R
      <3>2. DOMAIN frames = 1 .. Len(frames) /\ Len(frames) \in Nat /\ frames = [i \in 1 .. Len(frames) |-> frames[i]]
        BY <2>3
      <3>3. frames \in [1 .. Len(frames) -> R]
        BY <3>1, <3>2
      <3>4. frames \in Seq(R)
        BY <3>2, <3>3
      <3> QED
        BY <3>4 DEF R
    <2>7. queued \in Seq([from : Bound, to : Bound, whole : BOOLEAN])
      <3> DEFINE R == [from : Bound, to : Bound, whole : BOOLEAN]
      <3>1. ASSUME NEW i \in 1 .. Len(queued)
            PROVE  queued[i] \in R
        <4> DEFINE a == queued[i].from
                   b == queued[i].to
        <4>1. queued[i] \in Pieces /\ b <= l /\ a < b
          BY <2>3, <3>1
        <4>2. a \in Nat /\ b \in Nat
          BY <4>1 DEF Pieces
        <4> HIDE DEF a, b
        <4>3. a \in Bound /\ b \in Bound
          BY <2>2, <2>4, <4>1, <4>2
        <4> QED
          BY <4>1, <4>3 DEF Pieces, a, b
      <3> HIDE DEF R
      <3>2. DOMAIN queued = 1 .. Len(queued) /\ Len(queued) \in Nat /\ queued = [i \in 1 .. Len(queued) |-> queued[i]]
        BY <2>3
      <3>3. queued \in [1 .. Len(queued) -> R]
        BY <3>1, <3>2
      <3>4. queued \in Seq(R)
        BY <3>2, <3>3
      <3> QED
        BY <3>4 DEF R
    <2>8. /\ cutter \in [from : Bound, to : Bound, first : BOOLEAN]
          /\ piece \in [from : Bound, to : Bound, whole : BOOLEAN]
          /\ heard \in Bound
      BY <2>3, <2>4 DEF Cutters, Pieces
    <2>9. returned \in 0 .. 1
      BY <2>1 DEF LeaseIsKept
    <2>10. /\ sends \in 0 .. Most /\ silent \in 0 .. Idle /\ quiet \in 0 .. Idle /\ ending \in BOOLEAN
           /\ closed \in {"no", "done", "error", "idle", "gone"}
           /\ start \in {"no", "resolving", "acquiring", "yes"} /\ lease \in {"none", "asked", "held"}
           /\ at \in {"free", "asking", "sending"}
      BY <2>1, <2>3 DEF Shape, LeaseIsKept
    <2>11. Len(text) <= Longest /\ Bound = 0 .. Longest
      BY <2>2 DEF l, Bound
    <2>12. frames \in Seq([type : {"start", "text", "flush", "end", "bad"}, upto : Bound])
      BY <2>6 DEF FrameTypes
    <2> QED
      BY <2>2, <2>5, <2>7, <2>8, <2>9, <2>10, <2>11, <2>12 DEF TypeOK
  <1> QED
    BY <1>1, SessionInvariance, PTL

(* The lease of a session is held until the session is over, and then given back once, *)
(* whatever was under way: also one that is granted to a session already gone.         *)
THEOREM LeaseIsHeldAndGivenBack == Spec => []LeaseIsTheSessions
  <1>1. SInv => LeaseIsTheSessions
    BY DEF SInv, LeaseIsKept, LeaseIsTheSessions
  <1> QED
    BY <1>1, SessionInvariance, PTL

(* What is spoken, queued and left is the text from where it was heard, whatever the *)
(* order of its frames, its flushes and the ends of its pieces.                      *)
THEOREM TextIsSpokenInOrder == Spec => []SpokenInOrder
  <1>1. SInv => SpokenInOrder
    <2> SUFFICES ASSUME SInv PROVE SpokenInOrder
      OBVIOUS
    <2> DEFINE pieces == (IF at = "free" THEN <<>> ELSE <<piece>>) \o queued
               starts == [i \in 1 .. Len(pieces) + 1 |-> IF i <= Len(pieces) THEN pieces[i].from ELSE cutter.from]
    <2>1. SUFFICES ASSUME closed = "no"
                   PROVE  /\ starts[1] = heard
                          /\ \A i \in DOMAIN pieces : pieces[i].to = starts[i + 1] /\ pieces[i].from < pieces[i].to
      BY DEF SpokenInOrder
    <2>2. Line(text, queued, cutter, at, piece, heard)
      BY <2>1 DEF SInv, Open
    <2>3. pieces \in Seq(Pieces) /\ Chain(pieces, heard, cutter.from)
      <3>1. CASE at = "free"
        <4>1. queued \in Seq(Pieces) /\ Chain(queued, heard, cutter.from)
          BY <2>2, <3>1 DEF Line
        <4>2. pieces = queued
          BY <3>1, <4>1
        <4> QED
          BY <4>1, <4>2
      <3>2. CASE at # "free"
        <4>1. /\ queued \in Seq(Pieces) /\ piece \in Pieces
              /\ piece.from = heard /\ piece.from < piece.to /\ Chain(queued, piece.to, cutter.from)
          BY <2>2, <3>2 DEF Line
        <4>2. <<piece>> \in Seq(Pieces) /\ Len(<<piece>>) = 1 /\ <<piece>>[1] = piece /\ <<piece>> # <<>>
          BY <4>1
        <4>3. Chain(<<piece>>, heard, piece.to)
          BY <4>1, <4>2 DEF Chain
        <4>4. <<piece>> \o queued \in Seq(Pieces) /\ Chain(<<piece>> \o queued, heard, cutter.from)
          BY <4>1, <4>2, <4>3, ChainsJoin
        <4> QED
          BY <3>2, <4>4
      <3> QED
        BY <3>1, <3>2
    <2> DEFINE n == Len(pieces)
    <2> HIDE DEF pieces
    <2>4. n \in Nat /\ DOMAIN pieces = 1 .. n /\ (pieces = <<>> <=> n = 0)
      BY <2>3
    <2>5. /\ pieces = <<>> => heard = cutter.from
          /\ pieces # <<>> => pieces[1].from = heard /\ pieces[n].to = cutter.from
          /\ \A i \in 1 .. n : pieces[i].from < pieces[i].to
          /\ \A i \in 1 .. n - 1 : pieces[i].to = pieces[i + 1].from
      BY <2>3 DEF Chain
    <2>6. \A i \in 1 .. n + 1 : starts[i] = IF i <= n THEN pieces[i].from ELSE cutter.from
      OBVIOUS
    <2> HIDE DEF n, starts
    <2>7. starts[1] = heard
      <3>1. CASE n = 0
        BY <2>4, <2>5, <2>6, <3>1
      <3>2. CASE n # 0
        <4>1. 1 \in 1 .. n + 1 /\ 1 <= n
          BY <2>4, <3>2
        <4> QED
          BY <2>4, <2>5, <2>6, <3>2, <4>1
      <3> QED
        BY <3>1, <3>2
    <2>8. ASSUME NEW i \in 1 .. n
          PROVE  pieces[i].to = starts[i + 1]
      <3>0. i + 1 \in 1 .. n + 1 /\ i \in Nat
        BY <2>4
      <3>1. CASE i = n
        <4>1. ~(i + 1 <= n) /\ n # 0
          BY <2>4, <3>0, <3>1
        <4> QED
          BY <2>4, <2>5, <2>6, <3>0, <3>1, <4>1
      <3>2. CASE i # n
        <4>1. i \in 1 .. n - 1 /\ i + 1 <= n
          BY <2>4, <3>0, <3>2
        <4> QED
          BY <2>5, <2>6, <3>0, <4>1
      <3> QED
        BY <3>1, <3>2
    <2> QED
      BY <2>4, <2>5, <2>7, <2>8
  <1> QED
    BY <1>1, SessionInvariance, PTL

(* Every piece that is queued or being spoken reads well.                             *)
THEOREM EveryPieceReadsWell == Spec => []PiecesReadWell
  <1>1. SInv => PiecesReadWell
    <2> SUFFICES ASSUME SInv, NEW p \in Range(queued) \cup (IF at = "free" THEN {} ELSE {piece})
                 PROVE  /\ p.to - p.from <= Limit \/ \A i \in p.from + 1 .. p.to - 1 : text[i] = "inner"
                        /\ p.whole => text[p.to] # "inner"
      BY DEF PiecesReadWell
    <2>1. CASE closed = "no"
      <3>1. Line(text, queued, cutter, at, piece, heard)
        BY <2>1 DEF SInv, Open
      <3>2. queued \in Seq(Pieces) /\ AllWellRead(text, queued) /\ (at # "free" => WellRead(text, piece))
        BY <3>1 DEF Line
      <3>3. WellRead(text, p)
        <4>1. CASE p \in Range(queued)
          <5>1. PICK i \in 1 .. Len(queued) : p = queued[i]
            BY <3>2, <4>1 DEF Range
          <5> QED
            BY <3>2, <5>1 DEF AllWellRead
        <4>2. CASE p \notin Range(queued)
          BY <3>2, <4>2
        <4> QED
          BY <4>1, <4>2
      <3> QED
        BY <3>3 DEF WellRead, Fits
    <2>2. CASE closed # "no"
      <3>1. queued = <<>> /\ at = "free"
        BY <2>2 DEF SInv, Shut
      <3>2. Range(queued) = {}
        BY <3>1 DEF Range
      <3> QED
        BY <3>1, <3>2
    <2> QED
      BY <2>1, <2>2
  <1> QED
    BY <1>1, SessionInvariance, PTL

(* The worker is never left free while there is something to speak, or an end to tell. *)
THEOREM WorkerIsNeverLeftFree == Spec => []NothingReadyWaits
  <1>1. SInv => NothingReadyWaits
    BY ReadyOfText DEF SInv, Open, NothingReadyWaits
  <1> QED
    BY <1>1, SessionInvariance, PTL

(* A client told that the session is done has heard all it wrote before its end.       *)
THEOREM DoneMeansAllWasHeard == Spec => []DoneIsAll
  <1>1. SInv => DoneIsAll
    BY DEF SInv, Shut, DoneIsAll
  <1> QED
    BY <1>1, SessionInvariance, PTL

=============================================================================
