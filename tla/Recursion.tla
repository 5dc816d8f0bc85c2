------------------------------- MODULE Recursion -------------------------------
(***************************************************************************)
(* Lemmas about recursive functions over 0..n, and with them about the     *)
(* operator FlattenSeq of the community modules.  They are stated without  *)
(* operator parameters, so that the provers can use them: what holds of k  *)
(* is given as the set of those k, a recursion as the function that makes  *)
(* a step of it.                                                           *)
(***************************************************************************)
EXTENDS Integers, SequencesExt, WellFoundedInduction, TLAPS

(* Every set of natural numbers that is not empty has a least one. *)
LEMMA HasLeast ==
    ASSUME NEW T, T \subseteq Nat, T # {}
    PROVE  \E m \in T : \A k \in T : m <= k
<1> DEFINE R == {ss \in Nat \X Nat : ss[1] < ss[2]}
<1>1. R = OpToRel(<, Nat)
  BY DEF OpToRel
<1>2. IsWellFoundedOn(R, Nat)
  BY <1>1, NatLessThanWellFounded
<1>3. \E x \in T : \A y \in T : ~ (<<y, x>> \in R)
  <2> HIDE DEF R
  <2> QED BY <1>2, WFMin
<1>4. PICK x \in T : \A y \in T : ~ (<<y, x>> \in R)
  BY <1>3
<1>5. ASSUME NEW y \in T PROVE x <= y
  <2>1. x \in Nat /\ y \in Nat
    OBVIOUS
  <2>2. <<y, x>> \in Nat \X Nat /\ ~(<<y, x>> \in R)
    BY <2>1, <1>4
  <2>3. ~(y < x)
    BY <2>2
  <2> QED BY <2>1, <2>3
<1> QED BY <1>5

(* Induction up to n: what T holds of are the numbers it contains. *)
LEMMA UpTo ==
    ASSUME NEW n \in Nat, NEW T, 0 \in T,
           \A k \in 1..n : k - 1 \in T => k \in T
    PROVE  \A k \in 0..n : k \in T
<1> DEFINE U == {k \in 0..n : k \notin T}
<1> SUFFICES ASSUME U # {} PROVE FALSE
  OBVIOUS
<1>0. U \subseteq Nat
  OBVIOUS
<1>1. PICK m \in U : \A k \in U : m <= k
  <2> HIDE DEF U
  <2> QED BY <1>0, HasLeast
<1>2. m \in 1..n
  BY <1>1
<1>3. m - 1 \in 0..n /\ m - 1 \notin U
  BY <1>1, <1>2
<1> QED BY <1>1, <1>2, <1>3

(* What grows from each number to the next grows from each to any later one. *)
LEMMA Increasing ==
    ASSUME NEW n \in Nat, NEW f, \A i \in 1..(n + 1) : f[i] \in Nat,
           \A i \in 1..n : f[i] < f[i + 1]
    PROVE  \A i, j \in 1..(n + 1) : i < j => f[i] < f[j]
<1> DEFINE T == {k \in 0..n : \A i \in 1..k : f[i] < f[k + 1]}
<1>1. 0 \in T
  OBVIOUS
<1>2. ASSUME NEW k \in 1..n, k - 1 \in T PROVE k \in T
  <2>1. \A i \in 1..(k - 1) : f[i] < f[k]
    BY <1>2
  <2>2. f[k] < f[k + 1]
    OBVIOUS
  <2>3. ASSUME NEW i \in 1..k PROVE f[i] < f[k + 1]
    <3>1. CASE i = k
      BY <2>2, <3>1
    <3>2. CASE i # k
      <4>1. i \in 1..(k - 1)
        BY <3>2
      <4>2. f[i] < f[k] /\ f[i] \in Nat /\ f[k] \in Nat /\ f[k + 1] \in Nat
        BY <2>1, <4>1
      <4> QED BY <2>2, <4>2
    <3> QED BY <3>1, <3>2
  <2> QED BY <2>3
<1>3. \A k \in 0..n : k \in T
  <2> HIDE DEF T
  <2> QED BY <1>1, <1>2, UpTo
<1>4. ASSUME NEW i \in 1..(n + 1), NEW j \in 1..(n + 1), i < j PROVE f[i] < f[j]
  <2>1. j - 1 \in 0..n /\ i \in 1..(j - 1) /\ (j - 1) + 1 = j
    BY <1>4
  <2>2. j - 1 \in T
    BY <1>3, <2>1
  <2> QED BY <2>1, <2>2
<1> QED BY <1>4

(* f is the function of a recursion of which G makes the step. *)
Steps(n, base, G, f) == f[0] = base /\ \A k \in 1..n : f[k] = G[<<k, f[k - 1]>>]

(* There is one. *)
LEMMA Recursive ==
    ASSUME NEW n \in Nat, NEW S, NEW base \in S, NEW G \in [(1..n) \X S -> S]
    PROVE  \E f \in [0..n -> S] : Steps(n, base, G, f)
<1> DEFINE Upto(m, f) == f[0] = base /\ \A k \in 1..m : f[k] = G[<<k, f[k - 1]>>]
           T == {m \in 0..n : \E f \in [0..n -> S] : Upto(m, f)}
<1>1. 0 \in T
  <2> DEFINE f == [k \in 0..n |-> base]
  <2>1. f \in [0..n -> S] /\ Upto(0, f)
    OBVIOUS
  <2> HIDE DEF f
  <2> QED BY <2>1
<1>2. ASSUME NEW m \in 1..n, m - 1 \in T PROVE m \in T
  <2>1. PICK f \in [0..n -> S] : Upto(m - 1, f)
    BY <1>2
  <2> DEFINE g == [f EXCEPT ![m] = G[<<m, f[m - 1]>>]]
  <2>2. G[<<m, f[m - 1]>>] \in S
    OBVIOUS
  <2>3. g \in [0..n -> S] /\ g[0] = base
    BY <2>1, <2>2
  <2>4. \A k \in 0..n : g[k] = IF k = m THEN G[<<m, f[m - 1]>>] ELSE f[k]
    OBVIOUS
  <2> HIDE DEF g
  <2>5. ASSUME NEW k \in 1..m PROVE g[k] = G[<<k, g[k - 1]>>]
    <3>0. k \in 0..n /\ k - 1 \in 0..n /\ k - 1 # m
      OBVIOUS
    <3>1. g[k - 1] = f[k - 1]
      BY <2>4, <3>0
    <3>2. CASE k = m
      BY <2>4, <3>0, <3>1, <3>2
    <3>3. CASE k # m
      <4>1. k \in 1..(m - 1)
        BY <3>3
      <4>2. f[k] = G[<<k, f[k - 1]>>]
        BY <2>1, <4>1
      <4> QED BY <2>4, <3>0, <3>1, <3>3, <4>2
    <3> QED BY <3>2, <3>3
  <2> QED BY <2>3, <2>5
<1>3. n \in T
  <2> HIDE DEF T
  <2> QED BY <1>1, <1>2, UpTo
<1> QED BY <1>3 DEF Steps

(* FlattenSeq joins the sequences, one by one. *)
AreSequences(n, ss, S) == \A k \in 1..n : ss[k] \in Seq(S)
Joins(n, ss, S, f) ==
    /\ f \in [0..n -> Seq(S)] /\ f[0] = <<>>
    /\ \A k \in 1..n : f[k] = f[k - 1] \o ss[k]

(* There is a function that joins the sequences. *)
LEMMA JoinsExist ==
    ASSUME NEW S, NEW n \in Nat, NEW ss, AreSequences(n, ss, S)
    PROVE  \E f : Joins(n, ss, S, f)
<1> DEFINE G == [p \in (1..n) \X Seq(S) |-> p[2] \o ss[p[1]]]
<1>1. G \in [(1..n) \X Seq(S) -> Seq(S)] /\ <<>> \in Seq(S)
  BY DEF AreSequences
<1>2. \A k \in 1..n : \A s \in Seq(S) : G[<<k, s>>] = s \o ss[k]
  OBVIOUS
<1> HIDE DEF G
<1>3. PICK f \in [0..n -> Seq(S)] : f[0] = <<>> /\ \A k \in 1..n : f[k] = G[<<k, f[k - 1]>>]
  <2>1. PICK Z, e : Z = Seq(S) /\ e = <<>>
    OBVIOUS
  <2>2. e \in Z /\ G \in [(1..n) \X Z -> Z]
    BY <1>1, <2>1
  <2>3. \E f \in [0..n -> Z] : Steps(n, e, G, f)
    BY <2>2, Recursive
  <2> QED BY <2>1, <2>3 DEF Steps
<1>4. ASSUME NEW k \in 1..n PROVE f[k] = f[k - 1] \o ss[k]
  <2>1. f[k - 1] \in Seq(S)
    OBVIOUS
  <2> QED BY <1>2, <1>3, <2>1
<1> QED BY <1>3, <1>4 DEF Joins

Flattening(n, ss) ==
    CHOOSE f : f = [i \in 1..n |-> IF i = 1 THEN ss[i] ELSE f[i - 1] \o ss[i]]

(* It starts with the first of them. *)
LEMMA FirstJoined ==
    ASSUME NEW S, NEW n \in Nat, NEW ss, AreSequences(n, ss, S), NEW f, Joins(n, ss, S, f), n # 0
    PROVE  f[1] = ss[1]
<1>1. f[1] = f[0] \o ss[1] /\ f[0] = <<>>
  <2>1. 1 \in 1..n /\ 1 - 1 = 0
    OBVIOUS
  <2>2. f[0] = <<>> /\ \A k \in 1..n : f[k] = f[k - 1] \o ss[k]
    BY DEF Joins
  <2> QED BY <2>1, <2>2
<1>2. ss[1] \in Seq(S)
  BY DEF AreSequences
<1>3. <<>> \o ss[1] = ss[1]
  BY <1>2
<1> QED BY <1>1, <1>3

(* The function that FlattenSeq chooses makes the same steps. *)
LEMMA FlatteningSteps ==
    ASSUME NEW S, NEW n \in Nat, NEW ss, AreSequences(n, ss, S), NEW f, Joins(n, ss, S, f)
    PROVE  \A k \in 1..n : Flattening(n, ss)[k] =
               IF k = 1 THEN ss[k] ELSE Flattening(n, ss)[k - 1] \o ss[k]
<1> DEFINE Step(g) == [i \in 1..n |-> IF i = 1 THEN ss[i] ELSE g[i - 1] \o ss[i]]
           h == [i \in 1..n |-> f[i]]
<1>1. ASSUME NEW i \in 1..n PROVE h[i] = IF i = 1 THEN ss[i] ELSE h[i - 1] \o ss[i]
  <2>1. CASE i = 1
    BY <2>1, FirstJoined
  <2>2. CASE i # 1
    <3>1. i - 1 \in 1..n
      BY <2>2
    <3>2. h[i] = f[i] /\ h[i - 1] = f[i - 1]
      BY <3>1
    <3> HIDE DEF h
    <3> QED BY <2>2, <3>2 DEF Joins
  <2> QED BY <2>1, <2>2
<1>2. h = Step(h)
  BY <1>1
<1> HIDE DEF h
<1>3. Flattening(n, ss) = Step(Flattening(n, ss))
  BY <1>2 DEF Flattening
<1> QED BY <1>3

(* So it is that function. *)
LEMMA FlatteningJoins ==
    ASSUME NEW S, NEW n \in Nat, NEW ss, AreSequences(n, ss, S), NEW f, Joins(n, ss, S, f)
    PROVE  \A k \in 1..n : Flattening(n, ss)[k] = f[k]
<1> DEFINE T == {k \in 0..n : k = 0 \/ Flattening(n, ss)[k] = f[k]}
<1>1. 0 \in T
  OBVIOUS
<1>2. \A k \in 1..n : Flattening(n, ss)[k] =
          IF k = 1 THEN ss[k] ELSE Flattening(n, ss)[k - 1] \o ss[k]
  BY FlatteningSteps
<1>3. n # 0 => f[1] = ss[1]
  BY FirstJoined
<1>4. ASSUME NEW k \in 1..n, k - 1 \in T PROVE k \in T
  <2>1. CASE k = 1
    BY <1>2, <1>3, <2>1
  <2>2. CASE k # 1
    <3>1. Flattening(n, ss)[k - 1] = f[k - 1]
      BY <1>4, <2>2
    <3>2. Flattening(n, ss)[k] = Flattening(n, ss)[k - 1] \o ss[k]
      BY <1>2, <2>2
    <3>3. f[k] = f[k - 1] \o ss[k]
      BY DEF Joins
    <3>4. Flattening(n, ss)[k] = f[k]
      BY <3>1, <3>2, <3>3
    <3> QED BY <3>4
  <2> QED BY <2>1, <2>2
<1>5. \A k \in 0..n : k \in T
  <2> HIDE DEF T
  <2> QED BY <1>1, <1>4, UpTo
<1> QED BY <1>5

(* A sequence without elements is the empty one. *)
LEMMA NoneIn == ASSUME NEW S, NEW s \in Seq(S), Len(s) = 0 PROVE s = <<>>
OBVIOUS

(* FlattenSeq is what the function joins. *)
LEMMA Joining ==
    ASSUME NEW S, NEW ss \in Seq(Seq(S)), NEW n, n = Len(ss)
    PROVE  /\ n \in Nat /\ AreSequences(n, ss, S)
           /\ \E f : Joins(n, ss, S, f) /\ FlattenSeq(ss) = f[n]
<1>1. n \in Nat /\ AreSequences(n, ss, S)
  BY DEF AreSequences
<1>2. FlattenSeq(ss) = IF n = 0 THEN ss ELSE Flattening(n, ss)[n]
  BY DEF FlattenSeq, Flattening
<1>3. n = 0 => ss = <<>>
  BY NoneIn
<1>4. ASSUME NEW m \in Nat, NEW tt, AreSequences(m, tt, S), m = 0 => tt = <<>>
      PROVE  \E f : Joins(m, tt, S, f) /\ f[m] = IF m = 0 THEN tt ELSE Flattening(m, tt)[m]
  <2>1. PICK f : Joins(m, tt, S, f)
    BY <1>4, JoinsExist
  <2>2. \A k \in 1..m : Flattening(m, tt)[k] = f[k]
    BY <1>4, <2>1, FlatteningJoins
  <2>3. f[0] = <<>>
    BY <2>1 DEF Joins
  <2> QED BY <1>4, <2>1, <2>2, <2>3
<1> QED BY <1>1, <1>2, <1>3, <1>4

(* Where the elements of the sequences are in what FlattenSeq makes of     *)
(* them: those of the i-th follow at[i - 1] others.                        *)
Places(n, ss, joined, at) ==
    /\ at \in [0..n -> Nat] /\ at[0] = 0 /\ Len(joined) = at[n]
    /\ \A i \in 1..n : at[i] = at[i - 1] + Len(ss[i])
    /\ \A k \in 0..n : \A i \in 1..k : at[i] <= at[k]
    /\ \A i \in 1..n : \A j \in 1..Len(ss[i]) : joined[at[i - 1] + j] = ss[i][j]
    /\ \A q \in 1..at[n] : \E i \in 1..n : \E j \in 1..Len(ss[i]) : q = at[i - 1] + j

AreOffsets(n, len, at) ==
    /\ len \in [1..n -> Nat] /\ at \in [0..n -> Nat]
    /\ at[0] = 0 /\ \A k \in 1..n : at[k] = at[k - 1] + len[k]

(* Places that grow by lengths: each number is after one of them. *)
LEMMA Offsets ==
    ASSUME NEW n \in Nat, NEW len, NEW at, AreOffsets(n, len, at)
    PROVE  \A k \in 0..n : /\ \A i \in 1..k : at[i] <= at[k]
                           /\ \A q \in 1..at[k] : \E i \in 1..k : q \in (at[i - 1] + 1)..at[i]
<1> DEFINE T == {k \in 0..n : /\ \A i \in 1..k : at[i] <= at[k]
                              /\ \A q \in 1..at[k] : \E i \in 1..k : q \in (at[i - 1] + 1)..at[i]}
<1>0. at \in [0..n -> Nat] /\ at[0] = 0
  BY DEF AreOffsets
<1>1. 0 \in T
  BY <1>0
<1>2. ASSUME NEW k \in 1..n, k - 1 \in T PROVE k \in T
  <2>1. /\ k - 1 \in 0..n /\ k \in 0..n /\ at[k] = at[k - 1] + len[k] /\ len[k] \in Nat
        /\ at[k] \in Nat /\ at[k - 1] \in Nat
    BY DEF AreOffsets
  <2>2. /\ \A i \in 1..(k - 1) : at[i] <= at[k - 1]
        /\ \A q \in 1..at[k - 1] : \E i \in 1..(k - 1) : q \in (at[i - 1] + 1)..at[i]
    BY <1>2
  <2>3. ASSUME NEW i \in 1..k PROVE at[i] <= at[k]
    <3>1. CASE i = k
      BY <2>1, <3>1
    <3>2. CASE i # k
      <4>1. at[i] <= at[k - 1] /\ at[i] \in Nat
        BY <1>0, <2>2, <3>2
      <4> QED BY <2>1, <4>1
    <3> QED BY <3>1, <3>2
  <2>4. ASSUME NEW q \in 1..at[k] PROVE \E i \in 1..k : q \in (at[i - 1] + 1)..at[i]
    <3>1. CASE q <= at[k - 1]
      <4>1. PICK i \in 1..(k - 1) : q \in (at[i - 1] + 1)..at[i]
        BY <2>1, <2>2, <3>1
      <4> QED BY <4>1
    <3>2. CASE q > at[k - 1]
      BY <2>1, <3>2
    <3> QED BY <2>1, <3>1, <3>2
  <2> QED BY <2>1, <2>3, <2>4
<1> HIDE DEF T
<1>3. \A k \in 0..n : k \in T
  BY <1>1, <1>2, UpTo
<1> QED BY <1>3 DEF T

(* A sequence that follows another. *)
LEMMA Following ==
    ASSUME NEW S, NEW s \in Seq(S), NEW t \in Seq(S)
    PROVE  /\ Len(s) \in Nat /\ Len(t) \in Nat /\ Len(s \o t) = Len(s) + Len(t)
           /\ \A q \in 1..Len(s) : (s \o t)[q] = s[q]
           /\ \A q \in (Len(s) + 1)..(Len(s) + Len(t)) : (s \o t)[q] = t[q - Len(s)]
OBVIOUS

(* The elements of s are those of joined after the first from, up to to. *)
Lies(joined, s, from, to) == \A q \in (from + 1)..to : joined[q] = s[q - from]

(* The sequence appended last lies at the end. *)
LEMMA LiesLast ==
    ASSUME NEW S, NEW s \in Seq(S), NEW t \in Seq(S)
    PROVE  Lies(s \o t, t, Len(s), Len(s) + Len(t))
BY DEF Lies

(* What lies in a sequence stays there when another is appended. *)
LEMMA LiesStill ==
    ASSUME NEW S, NEW s \in Seq(S), NEW t \in Seq(S), NEW r, NEW from \in Nat, NEW to \in Nat,
           to <= Len(s), Lies(s, r, from, to)
    PROVE  Lies(s \o t, r, from, to)
BY DEF Lies

(* The sequences lie in what joins them. *)
LEMMA PlacesOf ==
    ASSUME NEW S, NEW n \in Nat, NEW ss, AreSequences(n, ss, S),
           NEW f, Joins(n, ss, S, f)
    PROVE  \E at : Places(n, ss, f[n], at)
<1> DEFINE lengths == [k \in 0..n |-> Len(f[k])]
           lens == [k \in 1..n |-> Len(ss[k])]
<1>1. PICK at \in [0..n -> Nat] : \A k \in 0..n : at[k] = Len(f[k])
  <2>1. lengths \in [0..n -> Nat] /\ \A k \in 0..n : lengths[k] = Len(f[k])
    BY DEF Joins
  <2> HIDE DEF lengths
  <2> QED BY <2>1
<1>2. PICK len \in [1..n -> Nat] : \A k \in 1..n : len[k] = Len(ss[k])
  <2>1. lens \in [1..n -> Nat] /\ \A k \in 1..n : lens[k] = Len(ss[k])
    BY DEF AreSequences
  <2> HIDE DEF lens
  <2> QED BY <2>1
<1> HIDE DEF lengths, lens
<1>3. ASSUME NEW k \in 1..n
      PROVE  /\ k - 1 \in 0..n /\ f[k - 1] \in Seq(S) /\ ss[k] \in Seq(S)
             /\ f[k] = f[k - 1] \o ss[k] /\ at[k - 1] = Len(f[k - 1])
             /\ at[k] = at[k - 1] + len[k]
  <2>1. k - 1 \in 0..n /\ k \in 0..n
    OBVIOUS
  <2>2. f[k - 1] \in Seq(S) /\ ss[k] \in Seq(S)
    BY <2>1 DEF AreSequences, Joins
  <2>3. f[k] = f[k - 1] \o ss[k]
    BY DEF Joins
  <2>4. at[k - 1] = Len(f[k - 1]) /\ at[k] = Len(f[k]) /\ len[k] = Len(ss[k])
    BY <1>1, <1>2, <2>1
  <2> QED BY <2>1, <2>2, <2>3, <2>4, Following
<1>4. at[0] = 0
  BY <1>1 DEF Joins
<1>5. AreOffsets(n, len, at)
  BY <1>3, <1>4 DEF AreOffsets
<1>6. \A k \in 0..n : /\ \A i \in 1..k : at[i] <= at[k]
                      /\ \A q \in 1..at[k] : \E i \in 1..k : q \in (at[i - 1] + 1)..at[i]
  BY <1>5, Offsets
<1>7. \A k \in 0..n : \A i \in 1..k : Lies(f[k], ss[i], at[i - 1], at[i])
  <2> DEFINE T == {k \in 0..n : \A i \in 1..k : Lies(f[k], ss[i], at[i - 1], at[i])}
  <2>1. 0 \in T
    OBVIOUS
  <2>2. ASSUME NEW k \in 1..n, k - 1 \in T PROVE k \in T
    <3>1. ASSUME NEW i \in 1..k PROVE Lies(f[k], ss[i], at[i - 1], at[i])
      <4>1. CASE i = k
        <5>1. /\ f[k - 1] \in Seq(S) /\ ss[k] \in Seq(S) /\ f[k] = f[k - 1] \o ss[k]
              /\ at[k - 1] = Len(f[k - 1]) /\ at[k] = Len(f[k - 1]) + Len(ss[k])
          BY <1>2, <1>3
        <5> QED BY <4>1, <5>1, LiesLast
      <4>2. CASE i # k
        <5>1. i \in 1..(k - 1) /\ k - 1 \in 0..n /\ i - 1 \in 0..n /\ i \in 0..n
          BY <4>2
        <5>2. at[i] <= at[k - 1] /\ at[i] \in Nat /\ at[i - 1] \in Nat
          BY <1>6, <5>1
        <5>3. Lies(f[k - 1], ss[i], at[i - 1], at[i])
          BY <2>2, <5>1
        <5>4. /\ f[k - 1] \in Seq(S) /\ ss[k] \in Seq(S) /\ f[k] = f[k - 1] \o ss[k]
              /\ at[k - 1] = Len(f[k - 1])
          BY <1>3
        <5> QED BY <5>2, <5>3, <5>4, LiesStill
      <4> QED BY <4>1, <4>2
    <3> QED BY <3>1
  <2>3. \A k \in 0..n : k \in T
    <3> HIDE DEF T
    <3> QED BY <2>1, <2>2, UpTo
  <2> QED BY <2>3
<1>8. ASSUME NEW i \in 1..n
      PROVE  /\ at[i] = at[i - 1] + Len(ss[i]) /\ at[i] <= at[n]
             /\ at[i - 1] \in Nat /\ at[i] \in Nat /\ Len(ss[i]) \in Nat
             /\ Lies(f[n], ss[i], at[i - 1], at[i])
  <2>1. at[i] = at[i - 1] + len[i] /\ len[i] = Len(ss[i])
    BY <1>2, <1>5 DEF AreOffsets
  <2>2. i - 1 \in 0..n /\ i \in 0..n /\ n \in 0..n
    OBVIOUS
  <2>3. at[i] <= at[n] /\ Lies(f[n], ss[i], at[i - 1], at[i])
    BY <1>6, <1>7, <2>2
  <2> QED BY <2>1, <2>2, <2>3
<1>9. ASSUME NEW i \in 1..n, NEW j \in 1..Len(ss[i]) PROVE f[n][at[i - 1] + j] = ss[i][j]
  <2>1. /\ at[i] = at[i - 1] + Len(ss[i]) /\ at[i - 1] \in Nat /\ Len(ss[i]) \in Nat
        /\ Lies(f[n], ss[i], at[i - 1], at[i])
    BY <1>8
  <2>2. PICK q : q = at[i - 1] + j
    OBVIOUS
  <2>3. q \in (at[i - 1] + 1)..at[i] /\ q - at[i - 1] = j
    BY <2>1, <2>2
  <2>4. f[n][q] = ss[i][q - at[i - 1]]
    BY <2>1, <2>3 DEF Lies
  <2> QED BY <2>2, <2>3, <2>4
<1>10. ASSUME NEW q \in 1..at[n]
       PROVE  \E i \in 1..n : \E j \in 1..Len(ss[i]) : q = at[i - 1] + j
  <2>1. PICK i \in 1..n : q \in (at[i - 1] + 1)..at[i]
    BY <1>6
  <2>2. q - at[i - 1] \in 1..Len(ss[i]) /\ q = at[i - 1] + (q - at[i - 1])
    BY <1>8, <2>1
  <2> QED BY <2>2
<1>11. Len(f[n]) = at[n] /\ at \in [0..n -> Nat]
  BY <1>1
<1>12. Places(n, ss, f[n], at)
  BY <1>4, <1>6, <1>8, <1>9, <1>10, <1>11 DEF Places
<1> QED BY <1>12

(* What FlattenSeq returns, and where each element is in it. *)
LEMMA Flattened ==
    ASSUME NEW S, NEW ss \in Seq(Seq(S))
    PROVE  FlattenSeq(ss) \in Seq(S) /\ \E at : Places(Len(ss), ss, FlattenSeq(ss), at)
<1>1. PICK n : n = Len(ss)
  OBVIOUS
<1>2. n \in Nat /\ AreSequences(n, ss, S) /\ \E f : Joins(n, ss, S, f) /\ FlattenSeq(ss) = f[n]
  BY <1>1, Joining
<1>3. PICK f : Joins(n, ss, S, f) /\ FlattenSeq(ss) = f[n]
  BY <1>2
<1>4. \E at : Places(n, ss, f[n], at)
  BY <1>2, <1>3, PlacesOf
<1>5. f[n] \in Seq(S)
  BY <1>2, <1>3 DEF Joins
<1> QED BY <1>1, <1>3, <1>4, <1>5

=============================================================================
