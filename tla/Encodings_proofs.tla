---------------------------- MODULE Encodings_proofs ---------------------------
(***************************************************************************)
(* Proofs about everything the library writes in another form, for every   *)
(* object, amount, text, entropy and program: what is decoded is what was  *)
(* encoded, and what was damaged is refused.  Each codec has its lemmas,   *)
(* which say what it makes of its own encoding, one after the other; the   *)
(* invariant at the end is where they are used.                            *)
(***************************************************************************)
EXTENDS Encodings, Serializer_proofs, FiniteSetTheorems

-----------------------------------------------------------------------------
(* Currying. *)

(* Lists. *)

Unconsed(s) == IF IsPair(s[2]) THEN << Append(s[1], s[2].first), s[2].rest >> ELSE s
Unconses(x, m, f) == f = [k \in 0..m |-> IF k = 0 THEN << <<>>, x >> ELSE Unconsed(f[k - 1])]

(* The rounds of as_iter, as a function. *)
LEMMA UnconsesExist == ASSUME NEW x, NEW n \in Nat PROVE \E f : Unconses(x, n, f)
<1> DEFINE T == {m \in 0..n : \E f : Unconses(x, m, f)}
           Body(f, k) == IF k = 0 THEN << <<>>, x >> ELSE Unconsed(f[k - 1])
<1>1. 0 \in T
  <2> DEFINE f == [k \in 0..0 |-> << <<>>, x >>]
  <2>1. f = [k \in 0..0 |-> Body(f, k)]
    OBVIOUS
  <2> HIDE DEF f
  <2> QED BY <2>1 DEF Unconses
<1>2. ASSUME NEW m \in 1..n, m - 1 \in T PROVE m \in T
  <2>1. PICK f : Unconses(x, m - 1, f)
    BY <1>2
  <2>2. \A k \in 0..(m - 1) : f[k] = Body(f, k)
    BY <2>1 DEF Unconses
  <2> DEFINE g == [k \in 0..m |-> IF k = m THEN Body(f, m) ELSE f[k]]
  <2>3. \A k \in 0..m : g[k] = IF k = m THEN Body(f, m) ELSE f[k]
    OBVIOUS
  <2>4. g = [k \in 0..m |-> g[k]]
    OBVIOUS
  <2> HIDE DEF g
  <2>5. ASSUME NEW k \in 0..m PROVE g[k] = Body(g, k)
    <3>1. CASE k = 0
      BY <2>2, <2>3, <3>1
    <3>2. CASE k # 0
      <4>1. k - 1 \in 0..m /\ k - 1 # m
        BY <3>2
      <4>2. g[k - 1] = f[k - 1]
        BY <2>3, <4>1
      <4>3. g[k] = Body(f, k)
        BY <2>2, <2>3
      <4> QED BY <3>2, <4>2, <4>3
    <3> QED BY <3>1, <3>2
  <2>6. g = [k \in 0..m |-> Body(g, k)]
    BY <2>4, <2>5
  <2>7. Unconses(x, m, g)
    BY <2>6 DEF Unconses
  <2> QED BY <2>7
<1>3. n \in T
  <2> HIDE DEF T
  <2>1. \A k \in 0..n : k \in T
    BY <1>1, <1>2, UpTo
  <2> QED BY <2>1
<1> QED BY <1>3

(* What a pair is made of. *)
LEMMA PairFields ==
    ASSUME NEW x, NEW y
    PROVE  IsPair(Pair(x, y)) /\ Pair(x, y).first = x /\ Pair(x, y).rest = y
BY DEF IsPair, Pair

(* An atom is no pair. *)
LEMMA AtomNoPair == ASSUME NEW x PROVE ~IsPair(Atom(x))
BY DEF IsPair, Atom

(* A round takes the first of a pair. *)
LEMMA UnconsedPair ==
    ASSUME NEW s, NEW x, NEW y PROVE Unconsed(<< s, Pair(x, y) >>) = << Append(s, x), y >>
<1>1. PICK t, p : p = Pair(x, y) /\ t = << s, p >>
  OBVIOUS
<1>2. t[1] = s /\ t[2] = p /\ IsPair(p) /\ p.first = x /\ p.rest = y
  BY <1>1, PairFields
<1>3. Unconsed(t) = << Append(s, x), y >>
  BY <1>2 DEF Unconsed
<1> QED BY <1>1, <1>3

(* A round leaves an atom. *)
LEMMA UnconsedAtom ==
    ASSUME NEW s, NEW x PROVE Unconsed(<< s, Atom(x) >>) = << s, Atom(x) >>
<1>1. PICK t, p : p = Atom(x) /\ t = << s, p >>
  OBVIOUS
<1>2. t[2] = p /\ ~IsPair(p)
  BY <1>1, AtomNoPair
<1> QED BY <1>1, <1>2 DEF Unconsed

(* Three elements, appended one by one. *)
LEMMA Appending ==
    ASSUME NEW x, NEW y, NEW z
    PROVE  Append(<< x >>, y) = << x, y >> /\ Append(<< x, y >>, z) = << x, y, z >>
<1>1. PICK S : x \in S /\ y \in S /\ z \in S
  <2>1. x \in {x, y, z} /\ y \in {x, y, z} /\ z \in {x, y, z}
    OBVIOUS
  <2> QED BY <2>1
<1>2. PICK s1 \in Seq(S) : s1 = << x >> /\ Len(s1) = 1 /\ s1[1] = x
  <2>1. << x >> \in Seq(S)
    BY <1>1
  <2> QED BY <2>1
<1>3. PICK s2 \in Seq(S) : s2 = << x, y >> /\ Len(s2) = 2 /\ s2[1] = x /\ s2[2] = y
  <2>1. << x, y >> \in Seq(S)
    BY <1>1
  <2> QED BY <2>1
<1>4. PICK s3 \in Seq(S) :
         s3 = << x, y, z >> /\ Len(s3) = 3 /\ s3[1] = x /\ s3[2] = y /\ s3[3] = z
  <2>1. << x, y, z >> \in Seq(S)
    BY <1>1
  <2> QED BY <2>1
<1>5. Append(s1, y) = s2
  <2>1. Append(s1, y) \in Seq(S) /\ Len(Append(s1, y)) = 2
    BY <1>1, <1>2
  <2>2. Append(s1, y)[1] = x /\ Append(s1, y)[2] = y
    BY <1>1, <1>2
  <2>4. \A i \in 1..2 : i = 1 \/ i = 2
    OBVIOUS
  <2>3. \A i \in 1..2 : Append(s1, y)[i] = s2[i]
    BY <1>3, <2>2, <2>4
  <2> QED BY <1>3, <2>1, <2>3, Equal
<1>6. Append(s2, z) = s3
  <2>1. Append(s2, z) \in Seq(S) /\ Len(Append(s2, z)) = 3
    BY <1>1, <1>3
  <2>2. Append(s2, z)[1] = x /\ Append(s2, z)[2] = y /\ Append(s2, z)[3] = z
    BY <1>1, <1>3
  <2>4. \A i \in 1..3 : i = 1 \/ i = 2 \/ i = 3
    OBVIOUS
  <2>3. \A i \in 1..3 : Append(s2, z)[i] = s3[i]
    BY <1>4, <2>2, <2>4
  <2> QED BY <1>4, <2>1, <2>3, Equal
<1> QED BY <1>2, <1>3, <1>4, <1>5, <1>6

(* A list of three is read as its elements. *)
LEMMA ListRead ==
    ASSUME NEW x, NEW y, NEW z, MaxRounds \in Nat, MaxRounds >= 3
    PROVE  as_iter(ListOf3(x, y, z)) = << << x, y, z >>, Atom(<<>>) >>
<1> DEFINE p == ListOf3(x, y, z)
           after == CHOOSE f : f = [k \in 0..MaxRounds |->
                       IF k = 0 THEN << <<>>, p >>
                       ELSE LET s == f[k - 1]
                            IN  IF IsPair(s[2]) THEN << Append(s[1], s[2].first), s[2].rest >> ELSE s]
           chosen == CHOOSE f : Unconses(p, MaxRounds, f)
<1>1. as_iter(p) = after[MaxRounds]
  BY DEF as_iter
<1>2. after = chosen
  BY DEF Unconses, Unconsed
<1>3. Unconses(p, MaxRounds, chosen)
  BY UnconsesExist
<1> HIDE DEF after, chosen, p
<1>4. PICK f : f = chosen
  OBVIOUS
<1>5. \A k \in 0..MaxRounds : f[k] = IF k = 0 THEN << <<>>, p >> ELSE Unconsed(f[k - 1])
  BY <1>3, <1>4 DEF Unconses
<1>6. 0 \in 0..MaxRounds /\ 1 \in 0..MaxRounds /\ 2 \in 0..MaxRounds /\ 3 \in 0..MaxRounds
  OBVIOUS
<1>7. p = Pair(x, Pair(y, Pair(z, Atom(<<>>))))
  BY DEF p, ListOf3
<1>8. f[0] = << <<>>, p >> /\ f[1] = Unconsed(f[0]) /\ f[2] = Unconsed(f[1]) /\ f[3] = Unconsed(f[2])
  <2>1. 1 - 1 = 0 /\ 2 - 1 = 1 /\ 3 - 1 = 2 /\ 1 # 0 /\ 2 # 0 /\ 3 # 0
    OBVIOUS
  <2> QED BY <1>5, <1>6, <2>1
<1>9. PICK r1, r2, s1, s2, s3 :
         /\ r2 = Pair(z, Atom(<<>>)) /\ r1 = Pair(y, r2)
         /\ s1 = Append(<<>>, x) /\ s2 = Append(s1, y) /\ s3 = Append(s2, z)
  OBVIOUS
<1>10. f[1] = << s1, r1 >>
  <2>1. f[0] = << <<>>, Pair(x, r1) >>
    BY <1>7, <1>8, <1>9
  <2>2. Unconsed(<< <<>>, Pair(x, r1) >>) = << Append(<<>>, x), r1 >>
    BY UnconsedPair
  <2> QED BY <1>8, <1>9, <2>1, <2>2
<1>11. f[2] = << s2, r2 >>
  <2>1. f[1] = << s1, Pair(y, r2) >>
    BY <1>9, <1>10
  <2>2. Unconsed(<< s1, Pair(y, r2) >>) = << Append(s1, y), r2 >>
    BY UnconsedPair
  <2> QED BY <1>8, <1>9, <2>1, <2>2
<1>17. f[3] = << s3, Atom(<<>>) >>
  <2>1. f[2] = << s2, Pair(z, Atom(<<>>)) >>
    BY <1>9, <1>11
  <2>2. Unconsed(<< s2, Pair(z, Atom(<<>>)) >>) = << Append(s2, z), Atom(<<>>) >>
    BY UnconsedPair
  <2> QED BY <1>8, <1>9, <2>1, <2>2
<1>12. s3 = << x, y, z >>
  <2>1. s1 = << x >>
    BY <1>9
  <2>2. s2 = << x, y >>
    BY <1>9, <2>1, Appending
  <2> QED BY <1>9, <2>2, Appending
<1> DEFINE T == {k \in 0..(MaxRounds - 3) : f[k + 3] = << << x, y, z >>, Atom(<<>>) >>}
<1>13. 0 \in T
  BY <1>12, <1>17
<1>14. ASSUME NEW k \in 1..(MaxRounds - 3), k - 1 \in T PROVE k \in T
  <2>1. f[(k - 1) + 3] = << << x, y, z >>, Atom(<<>>) >>
    BY <1>14
  <2>2. (k - 1) + 3 = (k + 3) - 1 /\ k + 3 \in 0..MaxRounds /\ k + 3 # 0
    OBVIOUS
  <2>3. f[k + 3] = Unconsed(f[(k + 3) - 1])
    BY <1>5, <2>2
  <2>4. f[k + 3] = << << x, y, z >>, Atom(<<>>) >>
    BY <2>1, <2>2, <2>3, UnconsedAtom
  <2> QED BY <2>4
<1>15. MaxRounds - 3 \in T
  <2> HIDE DEF T
  <2>1. MaxRounds - 3 \in Nat
    OBVIOUS
  <2>2. \A k \in 0..(MaxRounds - 3) : k \in T
    BY <1>13, <1>14, <2>1, UpTo
  <2> QED BY <2>1, <2>2
<1>16. f[MaxRounds] = << << x, y, z >>, Atom(<<>>) >>
  <2>1. (MaxRounds - 3) + 3 = MaxRounds
    OBVIOUS
  <2> QED BY <1>15, <2>1
<1> QED BY <1>1, <1>2, <1>4, <1>16 DEF p
-----------------------------------------------------------------------------
(* Curried arguments. *)

Nested(args, k, x) == ListOf3(c, Pair(q, args[Len(args) + 1 - k]), x)
Nests(args, m, f) == f = [k \in 0..m |-> IF k = 0 THEN q ELSE Nested(args, k, f[k - 1])]

(* The rounds of fixCurryArgs, as a function. *)
LEMMA NestsExist == ASSUME NEW args, NEW n \in Nat PROVE \E f : Nests(args, n, f)
<1> DEFINE T == {m \in 0..n : \E f : Nests(args, m, f)}
           Body(f, k) == IF k = 0 THEN q ELSE Nested(args, k, f[k - 1])
<1>1. 0 \in T
  <2> DEFINE f == [k \in 0..0 |-> q]
  <2>1. f = [k \in 0..0 |-> Body(f, k)]
    OBVIOUS
  <2> HIDE DEF f
  <2> QED BY <2>1 DEF Nests
<1>2. ASSUME NEW m \in 1..n, m - 1 \in T PROVE m \in T
  <2>1. PICK f : Nests(args, m - 1, f)
    BY <1>2
  <2>2. \A k \in 0..(m - 1) : f[k] = Body(f, k)
    BY <2>1 DEF Nests
  <2> DEFINE g == [k \in 0..m |-> IF k = m THEN Body(f, m) ELSE f[k]]
  <2>3. \A k \in 0..m : g[k] = IF k = m THEN Body(f, m) ELSE f[k]
    OBVIOUS
  <2>4. g = [k \in 0..m |-> g[k]]
    OBVIOUS
  <2> HIDE DEF g
  <2>5. ASSUME NEW k \in 0..m PROVE g[k] = Body(g, k)
    <3>1. CASE k = 0
      BY <2>2, <2>3, <3>1
    <3>2. CASE k # 0
      <4>1. k - 1 \in 0..m /\ k - 1 # m
        BY <3>2
      <4>2. g[k - 1] = f[k - 1]
        BY <2>3, <4>1
      <4>3. g[k] = Body(f, k)
        BY <2>2, <2>3
      <4> QED BY <3>2, <4>2, <4>3
    <3> QED BY <3>1, <3>2
  <2>6. g = [k \in 0..m |-> Body(g, k)]
    BY <2>4, <2>5
  <2>7. Nests(args, m, g)
    BY <2>6 DEF Nests
  <2> QED BY <2>7
<1>3. n \in T
  <2> HIDE DEF T
  <2>1. \A k \in 0..n : k \in T
    BY <1>1, <1>2, UpTo
  <2> QED BY <2>1
<1> QED BY <1>3

(* left[k] is what is left of the nested arguments after k of them. *)
Nesting(args, n, left) ==
    /\ left[n] = q
    /\ \A k \in 1..n : left[k - 1] = ListOf3(c, Pair(q, args[k]), left[k])

(* fixCurryArgs, from its last argument to its first. *)
LEMMA NestingOf ==
    ASSUME NEW args, NEW n \in Nat, n = Len(args)
    PROVE  \E left : Nesting(args, n, left) /\ left[0] = fixCurryArgs(args)
<1> DEFINE from == CHOOSE f : f = [k \in 0..Len(args) |->
                IF k = 0 THEN q ELSE ListOf3(c, Pair(q, args[Len(args) + 1 - k]), f[k - 1])]
           chosen == CHOOSE f : Nests(args, Len(args), f)
<1>1. fixCurryArgs(args) = from[Len(args)]
  BY DEF fixCurryArgs
<1>2. from = chosen
  BY DEF Nests, Nested
<1>3. Nests(args, Len(args), chosen)
  BY NestsExist
<1> HIDE DEF from, chosen
<1>4. PICK f : f = chosen
  OBVIOUS
<1>5. \A k \in 0..n : f[k] = IF k = 0 THEN q ELSE Nested(args, k, f[k - 1])
  BY <1>3, <1>4 DEF Nests
<1> DEFINE left == [k \in 0..n |-> f[n - k]]
<1>6. \A k \in 0..n : left[k] = f[n - k]
  OBVIOUS
<1> HIDE DEF left
<1>7. left[n] = q
  BY <1>5, <1>6
<1>8. ASSUME NEW k \in 1..n PROVE left[k - 1] = ListOf3(c, Pair(q, args[k]), left[k])
  <2>1. PICK j : j = n - (k - 1)
    OBVIOUS
  <2>2. j \in 0..n /\ j # 0 /\ j - 1 = n - k /\ n + 1 - j = k /\ k \in 0..n /\ k - 1 \in 0..n
    BY <2>1
  <2>3. f[j] = Nested(args, j, f[j - 1])
    BY <1>5, <2>2
  <2>4. left[k - 1] = f[j] /\ left[k] = f[j - 1]
    BY <1>6, <2>1, <2>2
  <2> QED BY <2>2, <2>3, <2>4 DEF Nested
<1>9. left[0] = f[n]
  BY <1>6
<1> QED BY <1>1, <1>2, <1>4, <1>7, <1>8, <1>9 DEF Nesting

Matched(s) == matchCurriedArgsHelper(s[1], s[2])
Matches(x, m, f) == f = [k \in 0..m |-> IF k = 0 THEN << <<>>, x >> ELSE Matched(f[k - 1])]

(* The rounds of matchCurriedArgs, as a function. *)
LEMMA MatchesExist == ASSUME NEW x, NEW n \in Nat PROVE \E f : Matches(x, n, f)
<1> DEFINE T == {m \in 0..n : \E f : Matches(x, m, f)}
           Body(f, k) == IF k = 0 THEN << <<>>, x >> ELSE Matched(f[k - 1])
<1>1. 0 \in T
  <2> DEFINE f == [k \in 0..0 |-> << <<>>, x >>]
  <2>1. f = [k \in 0..0 |-> Body(f, k)]
    OBVIOUS
  <2> HIDE DEF f
  <2> QED BY <2>1 DEF Matches
<1>2. ASSUME NEW m \in 1..n, m - 1 \in T PROVE m \in T
  <2>1. PICK f : Matches(x, m - 1, f)
    BY <1>2
  <2>2. \A k \in 0..(m - 1) : f[k] = Body(f, k)
    BY <2>1 DEF Matches
  <2> DEFINE g == [k \in 0..m |-> IF k = m THEN Body(f, m) ELSE f[k]]
  <2>3. \A k \in 0..m : g[k] = IF k = m THEN Body(f, m) ELSE f[k]
    OBVIOUS
  <2>4. g = [k \in 0..m |-> g[k]]
    OBVIOUS
  <2> HIDE DEF g
  <2>5. ASSUME NEW k \in 0..m PROVE g[k] = Body(g, k)
    <3>1. CASE k = 0
      BY <2>2, <2>3, <3>1
    <3>2. CASE k # 0
      <4>1. k - 1 \in 0..m /\ k - 1 # m
        BY <3>2
      <4>2. g[k - 1] = f[k - 1]
        BY <2>3, <4>1
      <4>3. g[k] = Body(f, k)
        BY <2>2, <2>3
      <4> QED BY <3>2, <4>2, <4>3
    <3> QED BY <3>1, <3>2
  <2>6. g = [k \in 0..m |-> Body(g, k)]
    BY <2>4, <2>5
  <2>7. Matches(x, m, g)
    BY <2>6 DEF Matches
  <2> QED BY <2>7
<1>3. n \in T
  <2> HIDE DEF T
  <2>1. \A k \in 0..n : k \in T
    BY <1>1, <1>2, UpTo
  <2> QED BY <2>1
<1> QED BY <1>3

(* One argument more. *)
LEMMA MatchesOne ==
    ASSUME MaxRounds \in Nat, MaxRounds >= 3, NEW found, NEW x, NEW y
    PROVE  matchCurriedArgsHelper(found, ListOf3(c, Pair(q, x), y)) = << found \o << x >>, y >>
<1>1. PICK p, e, t : e = Pair(q, x) /\ p = ListOf3(c, e, y) /\ t = << c, e, y >>
  OBVIOUS
<1>2. PICK r : r = as_iter(p) /\ r = << t, Atom(<<>>) >>
  BY <1>1, ListRead
<1>3. Elements(p) = t /\ IsProper(p)
  BY <1>2 DEF Elements, IsProper
<1>4. Len(t) = 3 /\ t[2] = e /\ t[3] = y
  BY <1>1
<1>5. IsPair(p)
  BY <1>1, PairFields DEF ListOf3
<1>6. IsPair(e) /\ e.first = q /\ e.rest = x /\ ~IsPair(q)
  BY <1>1, PairFields, AtomNoPair DEF q
<1>7. PICK w : w = << x >>
  OBVIOUS
<1>71. Quoted(e) = w
  BY <1>6, <1>7 DEF Quoted, IsQuote
<1>72. w # <<>>
  BY <1>7
<1>8. matchCurriedArgsHelper(found, p) = << found \o Quoted(e), y >>
  <2>1. ~(Len(t) < 2) /\ ~(Len(t) < 3) /\ ~(Quoted(e) = <<>>) /\ ~IsPair(e.first)
    BY <1>4, <1>6, <1>71, <1>72
  <2> QED BY <1>3, <1>4, <1>5, <1>6, <2>1 DEF matchCurriedArgsHelper
<1> QED BY <1>1, <1>7, <1>71, <1>8

(* At the atom that ends them no argument is found. *)
LEMMA MatchesEnd ==
    ASSUME NEW found, NEW x PROVE matchCurriedArgsHelper(found, Atom(x)) = << found, Atom(<<>>) >>
BY AtomNoPair DEF matchCurriedArgsHelper, Ends

(* The first elements and the next. *)
LEMMA NextPart ==
    ASSUME NEW S, NEW s \in Seq(S), NEW k \in 1..Len(s)
    PROVE  SubSeq(s, 1, k - 1) \o << s[k] >> = SubSeq(s, 1, k)
<1>1. s[k] \in S
  OBVIOUS
<1>2. PICK w \in Seq(S) : w = << s[k] >> /\ Len(w) = 1 /\ w[1] = s[k]
  <2>1. << s[k] >> \in Seq(S)
    BY <1>1
  <2> QED BY <2>1
<1>3. PICK h : h = SubSeq(s, 1, k - 1)
  OBVIOUS
<1>4. h \in Seq(S) /\ Len(h) = k - 1 /\ \A i \in 1..(k - 1) : h[i] = s[i]
  BY <1>3
<1>5. PICK t : t = SubSeq(s, 1, k)
  OBVIOUS
<1>6. t \in Seq(S) /\ Len(t) = k /\ \A i \in 1..k : t[i] = s[i]
  BY <1>5
<1>7. PICK j : j = h \o w
  OBVIOUS
<1>8. j \in Seq(S) /\ Len(j) = k /\ j[k] = s[k] /\ \A i \in 1..(k - 1) : j[i] = s[i]
  <2>1. /\ j \in Seq(S) /\ Len(j) = (k - 1) + 1
        /\ \A i \in 1..(k - 1) : j[i] = h[i]
        /\ \A i \in ((k - 1) + 1)..((k - 1) + 1) : j[i] = w[i - (k - 1)]
    BY <1>2, <1>4, <1>7, Following
  <2>2. /\ k \in ((k - 1) + 1)..((k - 1) + 1) /\ k - (k - 1) = 1 /\ (k - 1) + 1 = k
    OBVIOUS
  <2>3. j[k] = s[k]
    BY <1>2, <2>1, <2>2
  <2>4. \A i \in 1..(k - 1) : j[i] = s[i]
    BY <1>4, <2>1
  <2> QED BY <2>1, <2>2, <2>3, <2>4
<1>9. ASSUME NEW i \in 1..k PROVE j[i] = t[i]
  <2>1. t[i] = s[i]
    BY <1>6
  <2>2. CASE i = k
    BY <1>8, <2>1, <2>2
  <2>3. CASE i # k
    <3>1. i \in 1..(k - 1)
      BY <2>3
    <3> QED BY <1>8, <2>1, <3>1
  <2> QED BY <2>2, <2>3
<1>10. j = t
  BY <1>6, <1>8, <1>9, Equal
<1> QED BY <1>2, <1>3, <1>5, <1>7, <1>10

(* All arguments are found. *)
LEMMA ArgumentsFound ==
    ASSUME NEW S, NEW args \in Seq(S), NEW n \in Nat, n = Len(args),
           MaxRounds \in Nat, MaxRounds >= 3, n <= MaxRounds
    PROVE  matchCurriedArgs(fixCurryArgs(args)) = args
<1>0. PICK left : Nesting(args, n, left) /\ left[0] = fixCurryArgs(args)
  BY NestingOf
<1>1. PICK x : x = fixCurryArgs(args)
  OBVIOUS
<1> DEFINE after == CHOOSE f : f = [k \in 0..MaxRounds |->
                IF k = 0 THEN << <<>>, x >>
                ELSE LET s == f[k - 1] IN matchCurriedArgsHelper(s[1], s[2])]
           chosen == CHOOSE f : Matches(x, MaxRounds, f)
<1>2. matchCurriedArgs(x) = after[MaxRounds][1]
  BY DEF matchCurriedArgs
<1>3. after = chosen
  BY DEF Matches, Matched
<1>4. Matches(x, MaxRounds, chosen)
  BY MatchesExist
<1> HIDE DEF after, chosen
<1>5. PICK f : f = chosen
  OBVIOUS
<1>6. \A k \in 0..MaxRounds : f[k] = IF k = 0 THEN << <<>>, x >> ELSE Matched(f[k - 1])
  BY <1>4, <1>5 DEF Matches
<1> DEFINE T == {k \in 0..n : f[k] = << SubSeq(args, 1, k), left[k] >>}
<1>7. 0 \in T
  <2>1. SubSeq(args, 1, 0) = <<>>
    OBVIOUS
  <2>2. f[0] = << <<>>, x >>
    <3>1. 0 \in 0..MaxRounds
      OBVIOUS
    <3> QED BY <1>6, <3>1
  <2>3. PICK h, y : h = SubSeq(args, 1, 0) /\ y = left[0]
    OBVIOUS
  <2>4. h = <<>> /\ y = x
    BY <1>0, <1>1, <2>1, <2>3
  <2>5. f[0] = << h, y >>
    BY <2>2, <2>4
  <2>6. 0 \in 0..n
    OBVIOUS
  <2> QED BY <2>3, <2>5, <2>6
<1>8. ASSUME NEW k \in 1..n, k - 1 \in T PROVE k \in T
  <2>1. PICK found, p, s : /\ found = SubSeq(args, 1, k - 1) /\ p = left[k - 1]
                           /\ s = << found, p >>
    OBVIOUS
  <2>2. f[k - 1] = s /\ s[1] = found /\ s[2] = p
    BY <1>8, <2>1
  <2>3. k \in 0..MaxRounds /\ k # 0
    OBVIOUS
  <2>4. f[k] = matchCurriedArgsHelper(found, p)
    BY <1>6, <2>2, <2>3 DEF Matched
  <2>5. p = ListOf3(c, Pair(q, args[k]), left[k])
    BY <1>0, <2>1 DEF Nesting
  <2>6. matchCurriedArgsHelper(found, ListOf3(c, Pair(q, args[k]), left[k]))
            = << found \o << args[k] >>, left[k] >>
    BY MatchesOne
  <2>7. found \o << args[k] >> = SubSeq(args, 1, k)
    BY <2>1, NextPart
  <2>8. f[k] = << SubSeq(args, 1, k), left[k] >>
    BY <2>4, <2>5, <2>6, <2>7
  <2> QED BY <2>8
<1>9. n \in T
  <2> HIDE DEF T
  <2>1. \A k \in 0..n : k \in T
    BY <1>7, <1>8, UpTo
  <2> QED BY <2>1
<1>10. f[n] = << args, q >>
  <2>1. SubSeq(args, 1, n) = args
    OBVIOUS
  <2>2. left[n] = q
    BY <1>0 DEF Nesting
  <2> QED BY <1>9, <2>1, <2>2
<1> DEFINE U == {k \in 0..(MaxRounds - n) : \E y : f[n + k] = << args, Atom(y) >>}
<1>11. 0 \in U
  BY <1>10 DEF q
<1>12. ASSUME NEW k \in 1..(MaxRounds - n), k - 1 \in U PROVE k \in U
  <2>1. PICK y : f[n + (k - 1)] = << args, Atom(y) >>
    BY <1>12
  <2>2. n + (k - 1) = (n + k) - 1 /\ n + k \in 0..MaxRounds /\ n + k # 0
    OBVIOUS
  <2>3. PICK s : s = << args, Atom(y) >>
    OBVIOUS
  <2>4. s[1] = args /\ s[2] = Atom(y)
    BY <2>3
  <2>5. f[n + k] = matchCurriedArgsHelper(args, Atom(y))
    BY <1>6, <2>1, <2>2, <2>3, <2>4 DEF Matched
  <2>6. f[n + k] = << args, Atom(<<>>) >>
    BY <2>5, MatchesEnd
  <2> QED BY <2>6
<1>13. MaxRounds - n \in U
  <2> HIDE DEF U
  <2>1. MaxRounds - n \in Nat
    OBVIOUS
  <2>2. \A k \in 0..(MaxRounds - n) : k \in U
    BY <1>11, <1>12, <2>1, UpTo
  <2> QED BY <2>1, <2>2
<1>14. f[MaxRounds][1] = args
  <2>1. n + (MaxRounds - n) = MaxRounds
    OBVIOUS
  <2>2. PICK y : f[MaxRounds] = << args, Atom(y) >>
    BY <1>13, <2>1
  <2> QED BY <2>2
<1> QED BY <1>1, <1>2, <1>3, <1>5, <1>14

(* A curried program gives back its module and its arguments. *)
LEMMA Uncurried ==
    ASSUME NEW S, NEW args \in Seq(S), NEW p, p # NoMatch,
           MaxRounds \in Nat, MaxRounds >= 3, Len(args) <= MaxRounds
    PROVE  uncurry(curry(p, args)) =
               IF IsPair(p) /\ args # <<>> THEN << p, args >> ELSE NoMatch
<1>1. PICK m, e, f, t : /\ f = fixCurryArgs(args) /\ e = Pair(q, p) /\ m = ListOf3(a, e, f)
                        /\ t = << a, e, f >>
  OBVIOUS
<1>2. curry(p, args) = m
  BY <1>1 DEF curry
<1>3. PICK r : r = as_iter(m) /\ r = << t, Atom(<<>>) >>
  BY <1>1, ListRead
<1>4. Elements(m) = t
  BY <1>3 DEF Elements
<1>5. Len(t) = 3 /\ t[1] = a /\ t[2] = e /\ t[3] = f
  BY <1>1
<1>6. IsPair(e) /\ e.first = q /\ e.rest = p /\ ~IsPair(q)
  BY <1>1, PairFields, AtomNoPair DEF q
<1>7. matchCurriedArgs(f) = args
  <2>1. Len(args) \in Nat
    OBVIOUS
  <2> QED BY <1>1, <2>1, ArgumentsFound
<1>8. matchQuotedProgram(e) = IF IsPair(p) THEN p ELSE NoMatch
  BY <1>6 DEF matchQuotedProgram, IsQuote
<1>9. uncurry(m) = IF matchQuotedProgram(e) = NoMatch \/ args = <<>> THEN NoMatch
                   ELSE << matchQuotedProgram(e), args >>
  <2>1. ~IsPair(e.first)
    BY <1>6
  <2> QED BY <1>4, <1>5, <1>7, <2>1 DEF uncurry
<1> QED BY <1>2, <1>8, <1>9

-----------------------------------------------------------------------------
(* Phrases. *)

Bit == {0, 1}

(* The bits of the word that some bits are are those bits. *)
LEMMA WordsBits ==
    ASSUME NEW b, \A i \in 1..11 : b[i] \in Bit
    PROVE  WordOf(b) \in 0..2047 /\ \A i \in 1..11 : (WordOf(b) \div Weights[i]) % 2 = b[i]
<1>1. PICK b1, b2, b3, b4, b5, b6, b7, b8, b9, b10, b11 :
         /\ b1 = b[1] /\ b2 = b[2] /\ b3 = b[3] /\ b4 = b[4] /\ b5 = b[5] /\ b6 = b[6]
         /\ b7 = b[7] /\ b8 = b[8] /\ b9 = b[9] /\ b10 = b[10] /\ b11 = b[11]
  OBVIOUS
<1>2. /\ b1 \in 0..1 /\ b2 \in 0..1 /\ b3 \in 0..1 /\ b4 \in 0..1 /\ b5 \in 0..1 /\ b6 \in 0..1
      /\ b7 \in 0..1 /\ b8 \in 0..1 /\ b9 \in 0..1 /\ b10 \in 0..1 /\ b11 \in 0..1
  BY <1>1 DEF Bit
<1>3. PICK w : w = 1024 * b1 + 512 * b2 + 256 * b3 + 128 * b4 + 64 * b5 + 32 * b6 + 16 * b7
                       + 8 * b8 + 4 * b9 + 2 * b10 + b11
  OBVIOUS
<1>4. WordOf(b) = w
  BY <1>1, <1>3 DEF WordOf
<1>5. w \in 0..2047
  BY <1>2, <1>3
<1>6. /\ (w \div 1024) % 2 = b1
      /\ (w \div 512) % 2 = b2
      /\ (w \div 256) % 2 = b3
      /\ (w \div 128) % 2 = b4
      /\ (w \div 64) % 2 = b5
      /\ (w \div 32) % 2 = b6
      /\ (w \div 16) % 2 = b7
      /\ (w \div 8) % 2 = b8
      /\ (w \div 4) % 2 = b9
      /\ (w \div 2) % 2 = b10
      /\ (w \div 1) % 2 = b11
  <2>1. (w \div 1024) % 2 = b1
    BY <1>2, <1>3
  <2>2. (w \div 512) % 2 = b2
    BY <1>2, <1>3
  <2>3. (w \div 256) % 2 = b3
    BY <1>2, <1>3
  <2>4. (w \div 128) % 2 = b4
    BY <1>2, <1>3
  <2>5. (w \div 64) % 2 = b5
    BY <1>2, <1>3
  <2>6. (w \div 32) % 2 = b6
    BY <1>2, <1>3
  <2>7. (w \div 16) % 2 = b7
    BY <1>2, <1>3
  <2>8. (w \div 8) % 2 = b8
    BY <1>2, <1>3
  <2>9. (w \div 4) % 2 = b9
    BY <1>2, <1>3
  <2>10. (w \div 2) % 2 = b10
    BY <1>2, <1>3
  <2>11. (w \div 1) % 2 = b11
    BY <1>2, <1>3
  <2> QED BY <2>1, <2>2, <2>3, <2>4, <2>5, <2>6, <2>7, <2>8, <2>9, <2>10, <2>11
<1>7. ASSUME NEW i \in 1..11 PROVE (w \div Weights[i]) % 2 = b[i]
  <2>1. \/ i = 1 \/ i = 2 \/ i = 3 \/ i = 4 \/ i = 5 \/ i = 6
        \/ i = 7 \/ i = 8 \/ i = 9 \/ i = 10 \/ i = 11
    OBVIOUS
  <2>2. /\ Weights[1] = 1024 /\ Weights[2] = 512 /\ Weights[3] = 256 /\ Weights[4] = 128
        /\ Weights[5] = 64 /\ Weights[6] = 32 /\ Weights[7] = 16 /\ Weights[8] = 8
        /\ Weights[9] = 4 /\ Weights[10] = 2 /\ Weights[11] = 1
    BY DEF Weights
  <2> QED BY <1>1, <1>6, <2>1, <2>2
<1> QED BY <1>4, <1>5, <1>7

(* The word that the bits of a word are is that word. *)
LEMMA BitsWord ==
    ASSUME NEW w \in BIP39_WORD_LIST, NEW b, \A i \in 1..11 : b[i] = (w \div Weights[i]) % 2
    PROVE  WordOf(b) = w
<1>1. w \in 0..2047
  BY DEF BIP39_WORD_LIST
<1>2. /\ Weights[1] = 1024 /\ Weights[2] = 512 /\ Weights[3] = 256 /\ Weights[4] = 128
      /\ Weights[5] = 64 /\ Weights[6] = 32 /\ Weights[7] = 16 /\ Weights[8] = 8
      /\ Weights[9] = 4 /\ Weights[10] = 2 /\ Weights[11] = 1
  BY DEF Weights
<1>3. /\ 1 \in 1..11 /\ 2 \in 1..11 /\ 3 \in 1..11 /\ 4 \in 1..11 /\ 5 \in 1..11 /\ 6 \in 1..11
      /\ 7 \in 1..11 /\ 8 \in 1..11 /\ 9 \in 1..11 /\ 10 \in 1..11 /\ 11 \in 1..11
  OBVIOUS
<1>4. PICK c1, c2, c3, c4, c5, c6, c7, c8, c9, c10, c11 :
         /\ c1 = (w \div 1024) % 2
         /\ c2 = (w \div 512) % 2
         /\ c3 = (w \div 256) % 2
         /\ c4 = (w \div 128) % 2
         /\ c5 = (w \div 64) % 2
         /\ c6 = (w \div 32) % 2
         /\ c7 = (w \div 16) % 2
         /\ c8 = (w \div 8) % 2
         /\ c9 = (w \div 4) % 2
         /\ c10 = (w \div 2) % 2
         /\ c11 = (w \div 1) % 2
  OBVIOUS
<1>5. PICK d1, d2, d3, d4, d5, d6, d7, d8, d9, d10 :
         /\ d1 = w \div 1024
         /\ d2 = w \div 512
         /\ d3 = w \div 256
         /\ d4 = w \div 128
         /\ d5 = w \div 64
         /\ d6 = w \div 32
         /\ d7 = w \div 16
         /\ d8 = w \div 8
         /\ d9 = w \div 4
         /\ d10 = w \div 2
  OBVIOUS
<1>6. d1 \in 0..1 /\ c1 = d1
  BY <1>1, <1>4, <1>5
<1>7. d2 = 2 * d1 + c2
  BY <1>1, <1>4, <1>5
<1>8. d3 = 2 * d2 + c3
  BY <1>1, <1>4, <1>5
<1>9. d4 = 2 * d3 + c4
  BY <1>1, <1>4, <1>5
<1>10. d5 = 2 * d4 + c5
  BY <1>1, <1>4, <1>5
<1>11. d6 = 2 * d5 + c6
  BY <1>1, <1>4, <1>5
<1>12. d7 = 2 * d6 + c7
  BY <1>1, <1>4, <1>5
<1>13. d8 = 2 * d7 + c8
  BY <1>1, <1>4, <1>5
<1>14. d9 = 2 * d8 + c9
  BY <1>1, <1>4, <1>5
<1>15. d10 = 2 * d9 + c10
  BY <1>1, <1>4, <1>5
<1>16. w = 2 * d10 + c11
  BY <1>1, <1>4, <1>5
<1>18. /\ d1 \in Int /\ d2 \in Int /\ d3 \in Int /\ d4 \in Int /\ d5 \in Int
       /\ d6 \in Int /\ d7 \in Int /\ d8 \in Int /\ d9 \in Int /\ d10 \in Int
       /\ c1 \in Int /\ c2 \in Int /\ c3 \in Int /\ c4 \in Int /\ c5 \in Int /\ c6 \in Int
       /\ c7 \in Int /\ c8 \in Int /\ c9 \in Int /\ c10 \in Int /\ c11 \in Int
  BY <1>1, <1>4, <1>5
<1>17. w = 1024 * c1 + 512 * c2 + 256 * c3 + 128 * c4 + 64 * c5 + 32 * c6 + 16 * c7
           + 8 * c8 + 4 * c9 + 2 * c10 + c11
  BY <1>6, <1>7, <1>8, <1>9, <1>10, <1>11, <1>12, <1>13, <1>14, <1>15, <1>16, <1>18
<1>19. /\ b[1] = c1 /\ b[2] = c2 /\ b[3] = c3 /\ b[4] = c4 /\ b[5] = c5 /\ b[6] = c6
       /\ b[7] = c7 /\ b[8] = c8 /\ b[9] = c9 /\ b[10] = c10 /\ b[11] = c11
  BY <1>2, <1>3, <1>4
<1> QED BY <1>17, <1>19 DEF WordOf

(* The bits of a word. *)
LEMMA BitsOfWord ==
    ASSUME NEW w \in BIP39_WORD_LIST
    PROVE  /\ BitsOf(w) \in Seq(Bit) /\ Len(BitsOf(w)) = 11
           /\ \A i \in 1..11 : BitsOf(w)[i] = (w \div Weights[i]) % 2
<1>1. ASSUME NEW i \in 1..11 PROVE (w \div Weights[i]) % 2 \in Bit
  <2>1. Weights[i] \in Nat \ {0}
    BY DEF Weights
  <2>2. PICK d : d = w \div Weights[i]
    OBVIOUS
  <2>3. d \in Int
    BY <2>1, <2>2 DEF BIP39_WORD_LIST
  <2> QED BY <2>2, <2>3 DEF Bit
<1>2. BitsOf(w) \in [1..11 -> Bit]
  BY <1>1 DEF BitsOf
<1> QED BY <1>2 DEF BitsOf

(* The parts of what was joined, and what its parts join to. *)
LEMMA JoinedParts ==
    ASSUME NEW S, NEW s \in Seq(S), NEW t \in Seq(S), NEW j, j = s \o t
    PROVE  SubSeq(j, 1, Len(s)) = s /\ SubSeq(j, Len(s) + 1, Len(s) + Len(t)) = t
<1>1. /\ j \in Seq(S) /\ Len(j) = Len(s) + Len(t) /\ Len(s) \in Nat /\ Len(t) \in Nat
      /\ \A i \in 1..Len(s) : j[i] = s[i]
      /\ \A i \in (Len(s) + 1)..(Len(s) + Len(t)) : j[i] = t[i - Len(s)]
  BY Following
<1>2. PICK x, y : x = SubSeq(j, 1, Len(s)) /\ y = SubSeq(j, Len(s) + 1, Len(s) + Len(t))
  OBVIOUS
<1>3. x \in Seq(S) /\ Len(x) = Len(s) /\ \A i \in 1..Len(s) : x[i] = j[i]
  BY <1>1, <1>2
<1>4. y \in Seq(S) /\ Len(y) = Len(t) /\ \A i \in 1..Len(t) : y[i] = j[Len(s) + i]
  BY <1>1, <1>2
<1>5. x = s
  BY <1>1, <1>3, Equal
<1>6. ASSUME NEW i \in 1..Len(t) PROVE y[i] = t[i]
  <2>1. Len(s) + i \in (Len(s) + 1)..(Len(s) + Len(t)) /\ (Len(s) + i) - Len(s) = i
    BY <1>1
  <2> QED BY <1>1, <1>4, <2>1
<1>7. y = t
  BY <1>4, <1>6, Equal
<1> QED BY <1>2, <1>5, <1>7

Splits(j, n, s, t) ==
    /\ s = SubSeq(j, 1, Len(j) - n) /\ t = SubSeq(j, Len(j) - n + 1, Len(j))
    /\ Len(s) = Len(j) - n /\ Len(t) = n /\ s \o t = j
(* A sequence, split before its last n places. *)
LEMMA SplitAt ==
    ASSUME NEW S, NEW j \in Seq(S), NEW n \in 0..Len(j)
    PROVE  \E s \in Seq(S) : \E t \in Seq(S) : Splits(j, n, s, t)
<1>0. PICK m \in Nat : m = Len(j) - n
  OBVIOUS
<1>1. Len(j) \in Nat /\ n \in Nat /\ Len(j) = m + n
  BY <1>0
<1>2. PICK s \in Seq(S) : s = SubSeq(j, 1, m) /\ Len(s) = m /\ \A i \in 1..m : s[i] = j[i]
  <2>1. PICK s : s = SubSeq(j, 1, m)
    OBVIOUS
  <2>2. s \in Seq(S) /\ Len(s) = m /\ \A i \in 1..m : s[i] = j[i]
    BY <1>1, <2>1
  <2> QED BY <2>1, <2>2
<1>3. PICK t \in Seq(S) :
         t = SubSeq(j, m + 1, Len(j)) /\ Len(t) = n /\ \A i \in 1..n : t[i] = j[m + i]
  <2>1. PICK t : t = SubSeq(j, m + 1, Len(j))
    OBVIOUS
  <2>2. t \in Seq(S) /\ Len(t) = n /\ \A i \in 1..n : t[i] = j[m + i]
    BY <1>1, <2>1
  <2> QED BY <2>1, <2>2
<1>4. PICK w : w = s \o t
  OBVIOUS
<1>5. /\ w \in Seq(S) /\ Len(w) = m + n /\ \A i \in 1..m : w[i] = s[i]
      /\ \A i \in (m + 1)..(m + n) : w[i] = t[i - m]
  <2>1. /\ s \o t \in Seq(S) /\ Len(s \o t) = Len(s) + Len(t)
        /\ \A i \in 1..Len(s) : (s \o t)[i] = s[i]
        /\ \A i \in (Len(s) + 1)..(Len(s) + Len(t)) : (s \o t)[i] = t[i - Len(s)]
    BY Appended
  <2>2. Len(s) = m /\ Len(t) = n
    BY <1>2, <1>3
  <2> QED BY <1>4, <2>1, <2>2
<1>6. ASSUME NEW i \in 1..Len(j) PROVE w[i] = j[i]
  <2>1. CASE i <= m
    BY <1>1, <1>2, <1>5, <2>1
  <2>2. CASE i > m
    <3>1. i \in (m + 1)..(m + n) /\ i - m \in 1..n /\ m + (i - m) = i
      BY <1>1, <2>2
    <3> QED BY <1>3, <1>5, <3>1
  <2>3. i <= m \/ i > m
    BY <1>1
  <2> QED BY <2>1, <2>2, <2>3
<1>7. w = j
  BY <1>1, <1>5, <1>6, Equal
<1>8. Splits(j, n, s, t)
  BY <1>0, <1>2, <1>3, <1>4, <1>7 DEF Splits
<1> QED BY <1>8

(* A place among the bits of n words. *)
LEMMA BitAt ==
    ASSUME NEW n \in Nat, NEW x \in 1..(11 * n)
    PROVE  \E i \in 1..n, j \in 1..11 : 11 * i - 11 + j = x
<1>1. PICK i, j : i = (x - 1) \div 11 + 1 /\ j = ((x - 1) % 11) + 1
  OBVIOUS
<1>2. i \in 1..n /\ j \in 1..11 /\ 11 * i - 11 + j = x
  BY <1>1
<1> QED BY <1>2

(* The bits of a phrase are those of its words, one after the other. *)
PhraseBits(m, n) == FlattenSeq([i \in 1..n |-> BitsOf(m[i])])
SpelledBits(bits, m, n) == \A i \in 1..n : \A j \in 1..11 :
    bits[11 * i - 11 + j] = (m[i] \div Weights[j]) % 2
(* The bits of a phrase: eleven for each word. *)
LEMMA BitsOfPhrase ==
    ASSUME NEW n \in Nat, NEW m, \A i \in 1..n : m[i] \in BIP39_WORD_LIST
    PROVE  /\ PhraseBits(m, n) \in Seq(Bit) /\ Len(PhraseBits(m, n)) = 11 * n
           /\ SpelledBits(PhraseBits(m, n), m, n)
<1>0. PICK bits : bits = PhraseBits(m, n)
  OBVIOUS
<1>1. PICK ss : ss = [i \in 1..n |-> BitsOf(m[i])]
  OBVIOUS
<1>2. \A i \in 1..n : ss[i] = BitsOf(m[i])
  BY <1>1
<1>3. \A i \in 1..n : /\ ss[i] \in Seq(Bit) /\ Len(ss[i]) = 11
                      /\ \A j \in 1..11 : ss[i][j] = (m[i] \div Weights[j]) % 2
  BY <1>2, BitsOfWord
<1>4. ss \in Seq(Seq(Bit)) /\ Len(ss) = n
  <2>1. \A i \in 1..n : BitsOf(m[i]) \in Seq(Bit)
    BY BitsOfWord
  <2>2. PICK Z : Z = Seq(Bit)
    OBVIOUS
  <2>3. ss \in [1..n -> Z]
    BY <1>1, <2>1, <2>2
  <2>4. ss \in Seq(Z) /\ Len(ss) = n
    BY <2>3
  <2> QED BY <2>2, <2>4
<1>5. PICK at : Places(n, ss, bits, at) /\ bits \in Seq(Bit)
  BY <1>0, <1>1, <1>4, Flattened DEF PhraseBits
<1>6. /\ at[0] = 0 /\ Len(bits) = at[n]
      /\ \A i \in 1..n : at[i] = at[i - 1] + Len(ss[i])
      /\ \A i \in 1..n : \A j \in 1..Len(ss[i]) : bits[at[i - 1] + j] = ss[i][j]
  BY <1>5 DEF Places
<1>7. \A k \in 0..n : at[k] = 11 * k
  <2> DEFINE T == {k \in 0..n : at[k] = 11 * k}
  <2>1. 0 \in T
    BY <1>6
  <2>2. ASSUME NEW k \in 1..n, k - 1 \in T PROVE k \in T
    <3>1. at[k] = 11 * (k - 1) + 11
      BY <1>3, <1>6, <2>2
    <3> QED BY <3>1
  <2>3. \A k \in 0..n : k \in T
    <3> HIDE DEF T
    <3> QED BY <2>1, <2>2, UpTo
  <2> QED BY <2>3
<1>8. ASSUME NEW i \in 1..n, NEW j \in 1..11
      PROVE  bits[11 * i - 11 + j] = (m[i] \div Weights[j]) % 2
  <2>1. at[i - 1] = 11 * i - 11
    BY <1>7
  <2>2. bits[at[i - 1] + j] = ss[i][j]
    BY <1>3, <1>6
  <2> QED BY <1>3, <2>1, <2>2
<1>9. Len(bits) = 11 * n
  <2>1. n \in 0..n
    OBVIOUS
  <2> QED BY <1>6, <1>7, <2>1
<1> QED BY <1>0, <1>5, <1>8, <1>9 DEF SpelledBits

(* How many words and bits of a checksum there are for an entropy. *)
Sized(e, k) == k \in 4..8 /\ e \in Seq(Bit) /\ Len(e) = 32 * k
Sums(e, k, h) == h \in Seq(Bit) /\ h = FirstBits(StdHash(e), k) /\ Len(h) = k

(* The words that some bits make. *)
WordIn(bits, i) == WordOf(SubSeq(bits, 11 * i - 10, 11 * i))
Spells(m, bits, n) == m = [i \in 1..n |-> WordIn(bits, i)]
(* The words of an entropy with its checksum spell their bits. *)
LEMMA WordsOf ==
    ASSUME NEW e, NEW k, Sized(e, k), NEW h, Sums(e, k, h)
    PROVE  \E bits \in Seq(Bit) : /\ bits = e \o h /\ Len(bits) = 33 * k
                                  /\ Spells(bytesToMnemonic(e), bits, 3 * k)
<1>1. k \in 4..8 /\ e \in Seq(Bit) /\ Len(e) = 32 * k
  BY DEF Sized
<1>2. h \in Seq(Bit) /\ Len(h) = k
  BY DEF Sums
<1>3. PICK bits \in Seq(Bit) : bits = e \o h /\ Len(bits) = 33 * k
  <2>1. e \o h \in Seq(Bit) /\ Len(e \o h) = Len(e) + Len(h)
    BY <1>1, <1>2, Appended
  <2>2. Len(e) + Len(h) = 33 * k
    BY <1>1, <1>2
  <2> QED BY <2>1, <2>2
<1>4. PICK n : n = Len(e)
  OBVIOUS
<1>5. n \div 8 \in {16, 20, 24, 28, 32} /\ n \div 32 = k /\ (33 * k) \div 11 = 3 * k
  BY <1>1, <1>4
<1>6. bits = e \o FirstBits(StdHash(e), n \div 32)
  BY <1>3, <1>5 DEF Sums
<1>7. bytesToMnemonic(e) = [i \in 1..(3 * k) |-> WordOf(SubSeq(bits, 11 * i - 10, 11 * i))]
  BY <1>3, <1>4, <1>5, <1>6 DEF bytesToMnemonic
<1> QED BY <1>3, <1>7 DEF Spells, WordIn

(* The bits that make a word. *)
WordFrom(b, bits, i) ==
    /\ WordIn(bits, i) = WordOf(b)
    /\ \A j \in 1..11 : b[j] \in Bit
    /\ \A j \in 1..11 : b[j] = bits[11 * i - 11 + j]
(* The bits of the word at a place. *)
LEMMA WordAt ==
    ASSUME NEW n \in Nat, NEW bits \in Seq(Bit), Len(bits) = 11 * n, NEW i \in 1..n
    PROVE  \E b : WordFrom(b, bits, i)
<1>1. PICK from \in Nat, to \in Nat : from = 11 * i - 10 /\ to = 11 * i
  OBVIOUS
<1>2. PICK b : b = SubSeq(bits, from, to)
  OBVIOUS
<1>3. from \in 1..(Len(bits) + 1) /\ to \in (from - 1)..Len(bits) /\ to - from + 1 = 11
  BY <1>1
<1>4. \A j \in 1..11 : b[j] = bits[from + j - 1]
  BY <1>2, <1>3, Part
<1>5. ASSUME NEW j \in 1..11 PROVE b[j] = bits[11 * i - 11 + j] /\ b[j] \in Bit
  <2>1. from + j - 1 = 11 * i - 11 + j /\ from + j - 1 \in 1..Len(bits)
    BY <1>1
  <2>2. bits[from + j - 1] \in Bit
    BY <2>1
  <2>3. b[j] = bits[from + j - 1]
    BY <1>4
  <2> QED BY <2>1, <2>2, <2>3
<1> QED BY <1>1, <1>2, <1>5 DEF WordIn, WordFrom

(* An entropy is read from its phrase. *)
LEMMA PhraseRead ==
    ASSUME NEW e, NEW k, Sized(e, k), StdHash(e) \in Seq(Bit), Len(StdHash(e)) >= 8
    PROVE  /\ bytesFromMnemonic(bytesToMnemonic(e)) = e
           /\ bytesToMnemonic(e) \in Seq(BIP39_WORD_LIST)
<1>1. k \in 4..8 /\ e \in Seq(Bit) /\ Len(e) = 32 * k
  BY DEF Sized
<1>2. PICK h \in Seq(Bit) : h = FirstBits(StdHash(e), k) /\ Len(h) = k
  <2>1. PICK s \in Seq(Bit) : s = StdHash(e)
    OBVIOUS
  <2>2. k <= Len(s)
    BY <1>1, <2>1
  <2>3. SubSeq(s, 1, k) \in Seq(Bit) /\ Len(SubSeq(s, 1, k)) = k
    BY <1>1, <2>2
  <2> QED BY <2>1, <2>3 DEF FirstBits
<1>3. Sums(e, k, h)
  BY <1>2 DEF Sums
<1>0. PICK m : m = bytesToMnemonic(e)
  OBVIOUS
<1>4. PICK n \in Nat : n = 3 * k
  BY <1>1
<1>5. PICK bits \in Seq(Bit) : bits = e \o h /\ Len(bits) = 33 * k /\ Spells(m, bits, n)
  BY <1>0, <1>3, <1>4, WordsOf
<1>6. Len(bits) = 11 * n
  BY <1>1, <1>4, <1>5
<1>7. ASSUME NEW i \in 1..n
      PROVE  /\ m[i] \in BIP39_WORD_LIST
             /\ \A j \in 1..11 : (m[i] \div Weights[j]) % 2 = bits[11 * i - 11 + j]
  <2>0. PICK b : WordFrom(b, bits, i)
    BY <1>6, WordAt
  <2>1. /\ WordIn(bits, i) = WordOf(b)
        /\ \A j \in 1..11 : b[j] \in Bit
        /\ \A j \in 1..11 : b[j] = bits[11 * i - 11 + j]
    BY <2>0 DEF WordFrom
  <2>2. m[i] = WordOf(b)
    BY <1>5, <2>1 DEF Spells
  <2>3. WordOf(b) \in 0..2047 /\ \A j \in 1..11 : (WordOf(b) \div Weights[j]) % 2 = b[j]
    <3>1. \A j \in 1..11 : b[j] \in Bit
      BY <2>1
    <3> QED BY <3>1, WordsBits
  <2> QED BY <2>1, <2>2, <2>3 DEF BIP39_WORD_LIST
<1>8. m \in Seq(BIP39_WORD_LIST) /\ Len(m) = n
  <2>1. m \in [1..n -> BIP39_WORD_LIST]
    BY <1>5, <1>7 DEF Spells
  <2> QED BY <2>1
<1>9. PICK read : read = PhraseBits(m, n)
  OBVIOUS
<1>10. read \in Seq(Bit) /\ Len(read) = 11 * n /\ SpelledBits(read, m, n)
  BY <1>7, <1>9, BitsOfPhrase
<1>11. read = bits
  <2>1. ASSUME NEW x \in 1..Len(bits) PROVE read[x] = bits[x]
    <3>1. PICK i \in 1..n, j \in 1..11 : 11 * i - 11 + j = x
      BY <1>6, BitAt
    <3>2. read[11 * i - 11 + j] = (m[i] \div Weights[j]) % 2
      BY <1>10 DEF SpelledBits
    <3> QED BY <1>7, <3>1, <3>2
  <2> QED BY <1>6, <1>10, <2>1, Equal
<1>12. /\ n \in {12, 15, 18, 21, 24} /\ n \div 3 = k /\ Len(bits) - k = Len(e)
       /\ Len(bits) = Len(e) + Len(h)
  BY <1>1, <1>2, <1>4, <1>5
<1>13. SubSeq(bits, 1, Len(e)) = e /\ SubSeq(bits, Len(e) + 1, Len(e) + Len(h)) = h
  BY <1>1, <1>5, JoinedParts
<1>14. LastBits(bits, k) = h
  BY <1>12, <1>13 DEF LastBits
<1>15. bytesFromMnemonic(m) = e
  <2>1. bits = FlattenSeq([i \in 1..Len(m) |-> BitsOf(m[i])])
    BY <1>8, <1>9, <1>11 DEF PhraseBits
  <2>2. SubSeq(bits, 1, Len(bits) - k) = e
    BY <1>12, <1>13
  <2>3. FirstBits(StdHash(e), k) = LastBits(bits, k)
    BY <1>2, <1>14
  <2>4. ~(\E i \in 1..n : m[i] \notin BIP39_WORD_LIST)
    BY <1>7
  <2> QED BY <1>8, <1>12, <2>1, <2>2, <2>3, <2>4 DEF bytesFromMnemonic
<1> QED BY <1>0, <1>8, <1>15

(* A phrase is that of the entropy that is read from it. *)
LEMMA PhraseMade ==
    ASSUME NEW S, NEW m \in Seq(S), bytesFromMnemonic(m) # Failure
    PROVE  bytesToMnemonic(bytesFromMnemonic(m)) = m
<1>1. PICK n \in Nat : n = Len(m)
  OBVIOUS
<1>2. n \in {12, 15, 18, 21, 24}
  BY <1>1 DEF bytesFromMnemonic
<1>3. \A i \in 1..n : m[i] \in BIP39_WORD_LIST
  BY <1>1 DEF bytesFromMnemonic
<1>4. PICK k \in 4..8 : n = 3 * k /\ n \div 3 = k
  <2>1. n = 12 \/ n = 15 \/ n = 18 \/ n = 21 \/ n = 24
    BY <1>2
  <2>2. n \div 3 \in 4..8 /\ n = 3 * (n \div 3)
    BY <2>1
  <2> QED BY <2>2
<1>5. PICK bits : bits = PhraseBits(m, n)
  OBVIOUS
<1>6. bits \in Seq(Bit) /\ Len(bits) = 11 * n /\ SpelledBits(bits, m, n)
  BY <1>3, <1>5, BitsOfPhrase
<1>7. k \in 0..Len(bits)
  BY <1>4, <1>6
<1>81. PICK e \in Seq(Bit) : \E h \in Seq(Bit) : Splits(bits, k, e, h)
  BY <1>6, <1>7, SplitAt
<1>82. PICK h \in Seq(Bit) : Splits(bits, k, e, h)
  BY <1>81
<1>8. /\ e = SubSeq(bits, 1, Len(bits) - k) /\ h = SubSeq(bits, Len(bits) - k + 1, Len(bits))
      /\ Len(e) = Len(bits) - k /\ Len(h) = k /\ e \o h = bits
  BY <1>82 DEF Splits
<1>9. bits = FlattenSeq([i \in 1..Len(m) |-> BitsOf(m[i])])
  BY <1>1, <1>5 DEF PhraseBits
<1>10. bytesFromMnemonic(m) = e /\ FirstBits(StdHash(e), k) = LastBits(bits, k)
  BY <1>1, <1>2, <1>3, <1>4, <1>8, <1>9 DEF bytesFromMnemonic
<1>11. Sized(e, k)
  <2>1. Len(e) = 32 * k
    BY <1>4, <1>6, <1>8
  <2> QED BY <1>8, <2>1 DEF Sized
<1>12. Sums(e, k, h)
  BY <1>8, <1>10 DEF Sums, LastBits
<1>13. PICK word : word = bytesToMnemonic(e)
  OBVIOUS
<1>14. Spells(word, bits, n)
  <2>1. PICK made \in Seq(Bit) : made = e \o h /\ Spells(bytesToMnemonic(e), made, 3 * k)
    BY <1>11, <1>12, WordsOf
  <2> QED BY <1>4, <1>8, <1>13, <2>1
<1>15. ASSUME NEW i \in 1..n PROVE WordIn(bits, i) = m[i]
  <2>0. PICK b : WordFrom(b, bits, i)
    BY <1>6, WordAt
  <2>1. /\ WordIn(bits, i) = WordOf(b)
        /\ \A j \in 1..11 : b[j] \in Bit
        /\ \A j \in 1..11 : b[j] = bits[11 * i - 11 + j]
    BY <2>0 DEF WordFrom
  <2>2. \A j \in 1..11 : b[j] = (m[i] \div Weights[j]) % 2
    BY <1>6, <2>1 DEF SpelledBits
  <2>3. m[i] \in BIP39_WORD_LIST
    BY <1>3
  <2> QED BY <2>1, <2>2, <2>3, BitsWord
<1>16. m = [i \in 1..n |-> m[i]]
  BY <1>1
<1>17. word = m
  BY <1>14, <1>15, <1>16 DEF Spells
<1> QED BY <1>10, <1>13, <1>17

-----------------------------------------------------------------------------
Powers(base, n, p) == p[0] = 1 /\ \A k \in 1..n : p[k] = base * p[k - 1]

(* Power is the last of the powers. *)
LEMMA PowersAre ==
    ASSUME NEW base \in Nat, NEW n \in Nat
    PROVE  \E p \in [0..n -> Nat] : Powers(base, n, p) /\ Power(base, n) = p[n]
<1> DEFINE Step(p) == [k \in 0..n |-> IF k = 0 THEN 1 ELSE base * p[k - 1]]
           chosen == CHOOSE p : p = Step(p)
           G == [s \in (1..n) \X Nat |-> base * s[2]]
<1>1. \E p \in [0..n -> Nat] : Powers(base, n, p)
  <2>1. G \in [(1..n) \X Nat -> Nat]
    OBVIOUS
  <2>2. \A k \in 1..n : \A x \in Nat : G[<<k, x>>] = base * x
    OBVIOUS
  <2> HIDE DEF G
  <2>3. PICK p \in [0..n -> Nat] : Steps(n, 1, G, p)
    BY <2>1, Recursive
  <2>4. ASSUME NEW k \in 1..n PROVE p[k] = base * p[k - 1]
    <3>1. p[k - 1] \in Nat
      OBVIOUS
    <3> QED BY <2>2, <2>3, <3>1 DEF Steps
  <2> QED BY <2>3, <2>4 DEF Steps, Powers
<1>2. PICK p \in [0..n -> Nat] : Powers(base, n, p)
  BY <1>1
<1>3. p = Step(p)
  BY <1>2 DEF Powers
<1>4. chosen = Step(chosen)
  <2>1. \E f : f = Step(f)
    BY <1>3
  <2> QED BY <2>1
<1>5. Power(base, n) = chosen[n]
  BY DEF Power
<1> HIDE DEF chosen
<1>6. \A k \in 0..n : chosen[k] = IF k = 0 THEN 1 ELSE base * chosen[k - 1]
  BY <1>4
<1> DEFINE T == {k \in 0..n : chosen[k] = p[k]}
<1>7. 0 \in T
  BY <1>2, <1>6 DEF Powers
<1>8. ASSUME NEW k \in 1..n, k - 1 \in T PROVE k \in T
  <2>1. chosen[k] = base * chosen[k - 1]
    BY <1>6
  <2> QED BY <1>2, <1>8, <2>1 DEF Powers
<1>9. \A k \in 0..n : k \in T
  <2> HIDE DEF T
  <2> QED BY <1>7, <1>8, UpTo
<1> QED BY <1>2, <1>5, <1>9

(* And each of them is a Power. *)
LEMMA PowersFrom ==
    ASSUME NEW base \in Nat, NEW n \in Nat, NEW p, Powers(base, n, p), NEW m \in 0..n
    PROVE  Power(base, m) = p[m]
<1>0. m \in Nat
  OBVIOUS
<1>1. PICK r \in [0..m -> Nat] : Powers(base, m, r) /\ Power(base, m) = r[m]
  BY <1>0, PowersAre
<1> DEFINE T == {k \in 0..m : r[k] = p[k]}
<1>2. 0 \in T
  BY <1>1 DEF Powers
<1>3. ASSUME NEW k \in 1..m, k - 1 \in T PROVE k \in T
  BY <1>1, <1>3 DEF Powers
<1>4. \A k \in 0..m : k \in T
  <2> HIDE DEF T
  <2> QED BY <1>0, <1>2, <1>3, UpTo
<1> QED BY <1>1, <1>4

(* A power, and the next. *)
LEMMA PowerSteps ==
    ASSUME NEW base \in Nat \ {0}, NEW n \in Nat
    PROVE  /\ Power(base, n) \in Nat \ {0} /\ Power(base, 0) = 1
           /\ Power(base, n + 1) = base * Power(base, n)
<1>0. n + 1 \in Nat /\ base \in Nat
  OBVIOUS
<1>1. PICK p \in [0..(n + 1) -> Nat] : Powers(base, n + 1, p)
  BY <1>0, PowersAre
<1>2. \A m \in 0..(n + 1) : Power(base, m) = p[m]
  BY <1>1, PowersFrom
<1>3. p[0] = 1 /\ p[n + 1] = base * p[n]
  BY <1>1 DEF Powers
<1> DEFINE T == {k \in 0..n : p[k] # 0}
<1>4. 0 \in T
  BY <1>3
<1>5. ASSUME NEW k \in 1..n, k - 1 \in T PROVE k \in T
  <2>1. p[k] = base * p[k - 1] /\ p[k - 1] \in Nat \ {0}
    BY <1>1, <1>5 DEF Powers
  <2> QED BY <2>1
<1>6. \A k \in 0..n : k \in T
  <2> HIDE DEF T
  <2> QED BY <1>4, <1>5, UpTo
<1> QED BY <1>2, <1>3, <1>6

(* A larger exponent gives no less. *)
LEMMA PowerGrows ==
    ASSUME NEW base \in Nat \ {0}, NEW m \in Nat, NEW n \in Nat, m <= n
    PROVE  Power(base, m) <= Power(base, n)
<1> DEFINE T == {k \in 0..(n - m) : Power(base, m) <= Power(base, m + k)}
<1>1. 0 \in T
  BY PowerSteps
<1>2. ASSUME NEW k \in 1..(n - m), k - 1 \in T PROVE k \in T
  <2>1. m + k = (m + (k - 1)) + 1 /\ m + (k - 1) \in Nat
    OBVIOUS
  <2>2. PICK x, y, z : x = Power(base, m) /\ y = Power(base, m + (k - 1)) /\ z = Power(base, m + k)
    OBVIOUS
  <2>3. z = base * y /\ y \in Nat \ {0} /\ x \in Nat
    BY <2>1, <2>2, PowerSteps
  <2>4. x <= y
    BY <1>2, <2>2
  <2> QED BY <2>2, <2>3, <2>4
<1>3. n - m \in T
  <2> HIDE DEF T
  <2>1. n - m \in Nat
    OBVIOUS
  <2>2. \A k \in 0..(n - m) : k \in T
    BY <1>1, <1>2, <2>1, UpTo
  <2> QED BY <2>1, <2>2
<1> QED BY <1>3
-----------------------------------------------------------------------------
(* Numbers and their digits. *)

Values(s, base, n, v) == v[0] = 0 /\ \A k \in 1..n : v[k] = v[k - 1] * base + s[k]

(* The values of the first digits, as a function. *)
LEMMA ValuesExist ==
    ASSUME NEW base \in Nat, NEW n \in Nat, NEW s, \A i \in 1..n : s[i] \in Int
    PROVE  \E v \in [0..n -> Int] : Values(s, base, n, v)
<1> DEFINE G == [p \in (1..n) \X Int |-> p[2] * base + s[p[1]]]
<1>1. G \in [(1..n) \X Int -> Int]
  OBVIOUS
<1>2. \A k \in 1..n : \A x \in Int : G[<<k, x>>] = x * base + s[k]
  OBVIOUS
<1> HIDE DEF G
<1>3. PICK v \in [0..n -> Int] : Steps(n, 0, G, v)
  <2>1. 0 \in Int
    OBVIOUS
  <2> QED BY <1>1, <2>1, Recursive
<1>4. ASSUME NEW k \in 1..n PROVE v[k] = v[k - 1] * base + s[k]
  <2>1. v[k - 1] \in Int
    OBVIOUS
  <2> QED BY <1>2, <1>3, <2>1 DEF Steps
<1> QED BY <1>3, <1>4 DEF Steps, Values

(* Number is the last of them. *)
LEMMA NumberFrom ==
    ASSUME NEW base \in Nat, NEW n \in Nat, NEW s, n = Len(s), NEW v, Values(s, base, n, v)
    PROVE  Number(s, base) = v[n]
<1> DEFINE Step(f) == [k \in 0..Len(s) |-> IF k = 0 THEN 0 ELSE f[k - 1] * base + s[k]]
           chosen == CHOOSE f : f = Step(f)
           w == [k \in 0..n |-> v[k]]
<1>1. w = Step(w)
  <2>1. \A k \in 0..n : w[k] = v[k]
    OBVIOUS
  <2>2. w = [k \in 0..n |-> w[k]]
    OBVIOUS
  <2> HIDE DEF w
  <2>3. ASSUME NEW k \in 0..n PROVE w[k] = IF k = 0 THEN 0 ELSE w[k - 1] * base + s[k]
    <3>1. CASE k = 0
      BY <2>1, <3>1 DEF Values
    <3>2. CASE k # 0
      <4>1. k \in 1..n /\ k - 1 \in 0..n
        BY <3>2
      <4>2. w[k] = v[k] /\ w[k - 1] = v[k - 1]
        BY <2>1, <4>1
      <4>3. v[k] = v[k - 1] * base + s[k]
        BY <4>1 DEF Values
      <4> QED BY <3>2, <4>2, <4>3
    <3> QED BY <3>1, <3>2
  <2> QED BY <2>2, <2>3
<1>2. chosen = Step(chosen)
  <2> HIDE DEF w
  <2>1. \E f : f = Step(f)
    BY <1>1
  <2> QED BY <2>1
<1>3. Number(s, base) = chosen[n]
  BY DEF Number
<1> HIDE DEF chosen
<1>4. \A k \in 0..n : chosen[k] = IF k = 0 THEN 0 ELSE chosen[k - 1] * base + s[k]
  BY <1>2
<1> DEFINE T == {k \in 0..n : chosen[k] = v[k]}
<1>5. 0 \in T
  BY <1>4 DEF Values
<1>6. ASSUME NEW k \in 1..n, k - 1 \in T PROVE k \in T
  <2>1. chosen[k] = chosen[k - 1] * base + s[k]
    BY <1>4
  <2> QED BY <1>6, <2>1 DEF Values
<1>7. \A k \in 0..n : k \in T
  <2> HIDE DEF T
  <2> QED BY <1>5, <1>6, UpTo
<1> QED BY <1>3, <1>7

(* No digits are zero. *)
LEMMA NumberOfNone == ASSUME NEW base \in Nat PROVE Number(<<>>, base) = 0
<1> DEFINE v == [k \in 0..0 |-> 0]
<1>1. Values(<<>>, base, 0, v) /\ v[0] = 0
  BY DEF Values
<1>2. Len(<<>>) = 0
  OBVIOUS
<1> HIDE DEF v
<1> QED BY <1>1, <1>2, NumberFrom

(* What digits are is an integer. *)
LEMMA NumberIsInt ==
    ASSUME NEW base \in Nat, NEW s \in Seq(Int)
    PROVE  Number(s, base) \in Int
<1>1. PICK n \in Nat : n = Len(s)
  OBVIOUS
<1>2. \A i \in 1..n : s[i] \in Int
  BY <1>1
<1>3. PICK v \in [0..n -> Int] : Values(s, base, n, v)
  BY <1>2, ValuesExist
<1> QED BY <1>1, <1>3, NumberFrom

(* The number of digits that follow others. *)
LEMMA NumberOfJoined ==
    ASSUME NEW base \in Nat \ {0}, NEW s \in Seq(Int), NEW t \in Seq(Int)
    PROVE  Number(s \o t, base) = Number(s, base) * Power(base, Len(t)) + Number(t, base)
<1>1. PICK m \in Nat, n \in Nat : m = Len(s) /\ n = Len(t)
  OBVIOUS
<1>2. PICK j : j = s \o t
  OBVIOUS
<1>3. /\ j \in Seq(Int) /\ Len(j) = m + n /\ \A i \in 1..m : j[i] = s[i]
      /\ \A i \in (m + 1)..(m + n) : j[i] = t[i - m]
  BY <1>1, <1>2, Appended
<1>4. PICK v \in [0..(m + n) -> Int] : Values(j, base, m + n, v)
  <2>1. \A i \in 1..(m + n) : j[i] \in Int
    BY <1>3
  <2>2. m + n \in Nat /\ base \in Nat
    OBVIOUS
  <2> QED BY <2>1, <2>2, ValuesExist
<1>5. PICK u \in [0..n -> Int] : Values(t, base, n, u)
  <2>1. \A i \in 1..n : t[i] \in Int
    BY <1>1
  <2> QED BY <2>1, ValuesExist
<1>6. v[0] = 0 /\ \A k \in 1..(m + n) : v[k] = v[k - 1] * base + j[k]
  BY <1>4 DEF Values
<1>7. u[0] = 0 /\ \A k \in 1..n : u[k] = u[k - 1] * base + t[k]
  BY <1>5 DEF Values
<1>8. Number(s, base) = v[m]
  <2>1. Values(s, base, m, v)
    BY <1>3, <1>6 DEF Values
  <2> QED BY <1>1, <2>1, NumberFrom
<1>9. Number(j, base) = v[m + n] /\ Number(t, base) = u[n]
  BY <1>1, <1>3, <1>4, <1>5, NumberFrom
<1> DEFINE T == {k \in 0..n : v[m + k] = v[m] * Power(base, k) + u[k]}
<1>10. 0 \in T
  BY <1>7, PowerSteps
<1>11. ASSUME NEW k \in 1..n, k - 1 \in T PROVE k \in T
  <2>1. PICK l \in 0..n : l = k - 1
    OBVIOUS
  <2>2. PICK p : p = Power(base, l)
    OBVIOUS
  <2>3. p \in Nat /\ Power(base, k) = base * p
    BY <2>1, <2>2, PowerSteps
  <2>4. v[m + l] = v[m] * p + u[l]
    BY <1>11, <2>1, <2>2
  <2>5. v[m + k] = v[m + l] * base + t[k]
    <3>1. m + k \in (m + 1)..(m + n) /\ m + k \in 1..(m + n) /\ (m + k) - 1 = m + l /\ (m + k) - m = k
      BY <2>1
    <3> QED BY <1>3, <1>6, <3>1
  <2>6. u[k] = u[l] * base + t[k]
    BY <1>7, <2>1
  <2>7. PICK x, y, d : x = v[m] /\ y = u[l] /\ d = t[k]
    OBVIOUS
  <2>8. x \in Int /\ y \in Int /\ d \in Int
    BY <1>1, <1>4, <1>5, <2>7
  <2>9. (x * p + y) * base + d = x * (base * p) + (y * base + d)
    BY <2>3, <2>8
  <2> QED BY <2>3, <2>4, <2>5, <2>6, <2>7, <2>9
<1>12. n \in T
  <2> HIDE DEF T
  <2>1. \A k \in 0..n : k \in T
    BY <1>10, <1>11, UpTo
  <2> QED BY <2>1
<1> QED BY <1>1, <1>2, <1>8, <1>9, <1>12

(* One digit is itself. *)
LEMMA NumberOfOne ==
    ASSUME NEW base \in Nat, NEW d \in Int PROVE Number(<< d >>, base) = d
<1>1. PICK s : s = << d >>
  OBVIOUS
<1>2. Len(s) = 1 /\ s[1] = d /\ \A i \in 1..1 : s[i] \in Int
  BY <1>1
<1>3. PICK v \in [0..1 -> Int] : Values(s, base, 1, v)
  BY <1>2, ValuesExist
<1>4. v[1] = d
  <2>1. v[0] = 0 /\ v[1] = v[1 - 1] * base + s[1]
    BY <1>3 DEF Values
  <2> QED BY <1>2, <2>1
<1>5. Number(s, base) = v[1]
  BY <1>2, <1>3, NumberFrom
<1> QED BY <1>1, <1>4, <1>5

(* Digits are less than a power of the base. *)
LEMMA NumberBounds ==
    ASSUME NEW base \in Nat \ {0}, NEW s \in Seq(0..(base - 1))
    PROVE  Number(s, base) \in Nat /\ Number(s, base) < Power(base, Len(s))
<1>1. PICK n \in Nat : n = Len(s)
  OBVIOUS
<1>2. \A i \in 1..n : s[i] \in 0..(base - 1) /\ s[i] \in Int
  BY <1>1
<1>3. PICK v \in [0..n -> Int] : Values(s, base, n, v)
  BY <1>2, ValuesExist
<1> DEFINE T == {k \in 0..n : v[k] >= 0 /\ v[k] < Power(base, k)}
<1>4. 0 \in T
  <2>1. v[0] = 0
    BY <1>3 DEF Values
  <2>2. Power(base, 0) = 1 /\ 0 \in 0..n
    BY PowerSteps
  <2> QED BY <2>1, <2>2
<1>5. ASSUME NEW k \in 1..n, k - 1 \in T PROVE k \in T
  <2>1. PICK l \in 0..n : l = k - 1
    OBVIOUS
  <2>2. PICK p, x, d : p = Power(base, l) /\ x = v[l] /\ d = s[k]
    OBVIOUS
  <2>3. p \in Nat /\ Power(base, k) = base * p
    BY <2>1, <2>2, PowerSteps
  <2>4. x \in Nat /\ x < p
    BY <1>5, <2>1, <2>2
  <2>5. v[k] = x * base + d
    BY <1>3, <2>1, <2>2 DEF Values
  <2>6. d \in 0..(base - 1)
    BY <1>2, <2>2
  <2>7. x * base <= (p - 1) * base
    BY <2>3, <2>4
  <2>8. (p - 1) * base = base * p - base
    BY <2>3
  <2>9. x * base \in Nat /\ base * p \in Nat
    BY <2>3, <2>4
  <2> QED BY <2>3, <2>5, <2>6, <2>7, <2>8, <2>9
<1>6. n \in T
  <2> HIDE DEF T
  <2>1. \A k \in 0..n : k \in T
    BY <1>4, <1>5, UpTo
  <2> QED BY <2>1
<1>7. Number(s, base) = v[n]
  BY <1>1, <1>3, NumberFrom
<1> QED BY <1>1, <1>6, <1>7

-----------------------------------------------------------------------------
(* One digit more. *)
LEMMA NumberOfMore ==
    ASSUME NEW base \in Nat \ {0}, NEW s \in Seq(Int), NEW d \in Int
    PROVE  Number(Append(s, d), base) = Number(s, base) * base + d
<1>1. PICK t \in Seq(Int) : t = << d >> /\ Len(t) = 1
  <2>1. << d >> \in Seq(Int) /\ Len(<< d >>) = 1
    OBVIOUS
  <2> QED BY <2>1
<1>2. Append(s, d) = s \o t
  BY <1>1
<1>3. Number(s \o t, base) = Number(s, base) * Power(base, Len(t)) + Number(t, base)
  BY NumberOfJoined
<1>4. Power(base, 1) = base
  <2>1. Power(base, 0) = 1 /\ Power(base, 0 + 1) = base * Power(base, 0)
    BY PowerSteps
  <2> QED BY <2>1
<1>5. Number(t, base) = d
  BY <1>1, NumberOfOne
<1> QED BY <1>1, <1>2, <1>3, <1>4, <1>5

(* What digits Digits finds. *)
DigitsOf(s, base, n) ==
    /\ s \in Seq(0..(base - 1)) /\ Len(s) >= 1
    /\ Number(s, base) = n
    /\ n # 0 => s[1] # 0
    /\ n = 0 => Len(s) = 1

IsBase(base) == base = 10 \/ base = 256
Parts2(k, base, d, r) ==
    /\ d = k \div base /\ r = k % base
    /\ d \in 0..(k - 1) /\ r \in 0..(base - 1) /\ d # 0 /\ k = d * base + r

(* A number of two decimal digits or more, divided by ten. *)
LEMMA ByTen == ASSUME NEW k \in Nat, k >= 10 PROVE \E d, r : Parts2(k, 10, d, r)
<1>1. PICK d, r : d = k \div 10 /\ r = k % 10
  OBVIOUS
<1>2. d \in Int /\ r \in 0..9 /\ k = d * 10 + r
  BY <1>1
<1>3. d \in 0..(k - 1) /\ d # 0 /\ 10 - 1 = 9
  BY <1>2
<1>4. Parts2(k, 10, d, r)
  BY <1>1, <1>2, <1>3 DEF Parts2
<1> QED BY <1>4

(* A number of two bytes or more, divided by 256. *)
LEMMA By256 == ASSUME NEW k \in Nat, k >= 256 PROVE \E d, r : Parts2(k, 256, d, r)
<1>1. PICK d, r : d = k \div 256 /\ r = k % 256
  OBVIOUS
<1>2. d \in Int /\ r \in 0..255 /\ k = d * 256 + r
  BY <1>1
<1>3. d \in 0..(k - 1) /\ d # 0 /\ 256 - 1 = 255
  BY <1>2
<1>4. Parts2(k, 256, d, r)
  BY <1>1, <1>2, <1>3 DEF Parts2
<1> QED BY <1>4

(* In either base the rest is a digit, and the quotient is less and not     *)
(* zero.                                                                    *)
LEMMA ByTheBase ==
    ASSUME NEW base, IsBase(base), NEW k \in Nat, k >= base
    PROVE  \E d, r : Parts2(k, base, d, r)
BY ByTen, By256 DEF IsBase

(* The digits of a number are digits, without a zero in front, and that     *)
(* number.                                                                  *)
LEMMA DigitsAre ==
    ASSUME NEW base \in Nat, base >= 2, IsBase(base), NEW n \in Nat
    PROVE  DigitsOf(Digits(n, base), base, n)
<1> DEFINE Body(f, k) == IF k < base THEN << k >> ELSE Append(f[k \div base], k % base)
           chosen == CHOOSE f : f = [k \in 0..n |-> Body(f, k)]
           T == {m \in 0..n : \E f : f = [k \in 0..m |-> Body(f, k)]}
<1>0. ASSUME NEW k \in Nat, k >= base
      PROVE  \E d, r : Parts2(k, base, d, r)
  BY <1>0, ByTheBase
<1>1. 0 \in T
  <2> DEFINE f == [k \in 0..0 |-> << 0 >>]
  <2>1. f = [k \in 0..0 |-> Body(f, k)]
    OBVIOUS
  <2> HIDE DEF f
  <2> QED BY <2>1
<1>2. ASSUME NEW m \in 1..n, m - 1 \in T PROVE m \in T
  <2>1. PICK f : f = [k \in 0..(m - 1) |-> Body(f, k)]
    BY <1>2
  <2>2. \A k \in 0..(m - 1) : f[k] = Body(f, k)
    BY <2>1
  <2> DEFINE g == [k \in 0..m |-> IF k = m THEN Body(f, m) ELSE f[k]]
  <2>3. \A k \in 0..m : g[k] = IF k = m THEN Body(f, m) ELSE f[k]
    OBVIOUS
  <2>4. g = [k \in 0..m |-> g[k]]
    OBVIOUS
  <2> HIDE DEF g
  <2>5. ASSUME NEW k \in 0..m PROVE g[k] = Body(g, k)
    <3>1. CASE k < base
      <4>1. g[k] = Body(f, k)
        BY <2>2, <2>3
      <4> QED BY <3>1, <4>1
    <3>2. CASE k >= base
      <4>1. k \div base \in 0..m /\ k \div base # m
        <5>1. PICK d, r : Parts2(k, base, d, r)
          BY <1>0, <3>2
        <5> QED BY <5>1 DEF Parts2
      <4>2. g[k \div base] = f[k \div base]
        BY <2>3, <4>1
      <4>3. g[k] = Body(f, k)
        BY <2>2, <2>3
      <4> QED BY <3>2, <4>2, <4>3
    <3>3. k < base \/ k >= base
      OBVIOUS
    <3> QED BY <3>1, <3>2, <3>3
  <2>6. g = [k \in 0..m |-> Body(g, k)]
    BY <2>4, <2>5
  <2> HIDE DEF Body
  <2> QED BY <2>6
<1>3. n \in T
  <2> HIDE DEF T
  <2>1. \A k \in 0..n : k \in T
    BY <1>1, <1>2, UpTo
  <2> QED BY <2>1
<1>4. chosen = [k \in 0..n |-> Body(chosen, k)]
  BY <1>3
<1>5. Digits(n, base) = chosen[n]
  BY DEF Digits
<1> HIDE DEF chosen
<1>6. PICK f : f = chosen
  OBVIOUS
<1>7. \A k \in 0..n : f[k] = Body(f, k)
  BY <1>4, <1>6
<1> DEFINE U == {m \in 0..n : \A k \in 0..m : DigitsOf(f[k], base, k)}
<1>8. ASSUME NEW k \in 0..n, k < base PROVE DigitsOf(f[k], base, k)
  <2>1. PICK s : s = << k >>
    OBVIOUS
  <2>2. f[k] = s
    BY <1>7, <1>8, <2>1
  <2>3. s \in Seq(0..(base - 1)) /\ Len(s) = 1 /\ s[1] = k
    BY <1>8, <2>1
  <2>4. Number(s, base) = k
    BY <2>1, NumberOfOne
  <2> QED BY <2>2, <2>3, <2>4 DEF DigitsOf
<1>9. 0 \in U
  BY <1>8
<1>10. ASSUME NEW m \in 1..n, m - 1 \in U PROVE m \in U
  <2>1. \A k \in 0..(m - 1) : DigitsOf(f[k], base, k)
    BY <1>10
  <2>2. DigitsOf(f[m], base, m)
    <3>1. CASE m >= base
      <4>1. PICK p \in 0..(m - 1), d \in 0..(base - 1) :
               p = m \div base /\ d = m % base /\ p # 0 /\ m = p * base + d
        <5>1. PICK d, r : Parts2(m, base, d, r)
          BY <1>0, <3>1
        <5> QED BY <5>1 DEF Parts2
      <4>2. PICK s : s = f[p]
        OBVIOUS
      <4>3. DigitsOf(s, base, p)
        BY <2>1, <4>2
      <4>4. s \in Seq(0..(base - 1)) /\ Len(s) >= 1 /\ Number(s, base) = p /\ s[1] # 0
        BY <4>1, <4>3 DEF DigitsOf
      <4>5. PICK r : r = Append(s, d)
        OBVIOUS
      <4>6. r \in Seq(0..(base - 1)) /\ Len(r) >= 1 /\ r[1] # 0
        BY <4>4, <4>5
      <4>7. s \in Seq(Int) /\ d \in Int
        BY <4>4
      <4>8. Number(r, base) = m
        <5>1. Number(Append(s, d), base) = Number(s, base) * base + d
          BY <4>7, NumberOfMore
        <5> QED BY <4>1, <4>4, <4>5, <5>1
      <4>9. f[m] = r
        <5>1. f[m] = Append(f[m \div base], m % base)
          <6>1. f[m] = Body(f, m) /\ ~(m < base)
            BY <1>7, <3>1
          <6> QED BY <6>1
        <5> QED BY <4>1, <4>2, <4>5, <5>1
      <4> QED BY <4>6, <4>8, <4>9 DEF DigitsOf
    <3>2. CASE m < base
      BY <1>8, <3>2
    <3> QED BY <3>1, <3>2
  <2>3. ASSUME NEW k \in 0..m PROVE DigitsOf(f[k], base, k)
    BY <2>1, <2>2
  <2> QED BY <2>3
<1>11. n \in U
  <2> HIDE DEF U
  <2>1. \A k \in 0..n : k \in U
    BY <1>9, <1>10, UpTo
  <2> QED BY <2>1
<1> QED BY <1>5, <1>6, <1>11

(* The first digit says between which powers a number is. *)
LEMMA Leading ==
    ASSUME NEW base \in Nat \ {0}, NEW s \in Seq(0..(base - 1)), Len(s) >= 1
    PROVE  /\ s[1] * Power(base, Len(s) - 1) <= Number(s, base)
           /\ Number(s, base) < (s[1] + 1) * Power(base, Len(s) - 1)
<1>1. PICK n \in Nat : n = Len(s) - 1
  OBVIOUS
<1>2. PICK d \in 0..(base - 1) : d = s[1]
  OBVIOUS
<1>3. PICK h \in Seq(0..(base - 1)) : h = << d >> /\ Len(h) = 1 /\ h[1] = d
  <2>1. << d >> \in Seq(0..(base - 1)) /\ Len(<< d >>) = 1 /\ << d >>[1] = d
    OBVIOUS
  <2> QED BY <2>1
<1>4. PICK t \in Seq(0..(base - 1)) : Len(t) = n /\ \A i \in 1..n : t[i] = s[i + 1]
  <2>1. PICK t : t = Tail(s)
    OBVIOUS
  <2>2. t \in Seq(0..(base - 1)) /\ Len(t) = n /\ \A i \in 1..n : t[i] = s[i + 1]
    BY <1>1, <2>1
  <2> QED BY <2>2
<1>5. PICK j : j = h \o t
  OBVIOUS
<1>6. j = s
  <2>1. /\ h \o t \in Seq(0..(base - 1)) /\ Len(h \o t) = Len(h) + Len(t)
        /\ \A i \in 1..Len(h) : (h \o t)[i] = h[i]
        /\ \A i \in (Len(h) + 1)..(Len(h) + Len(t)) : (h \o t)[i] = t[i - Len(h)]
    BY Appended
  <2>2. /\ j \in Seq(0..(base - 1)) /\ Len(j) = n + 1
        /\ \A i \in 1..1 : j[i] = h[i]
        /\ \A i \in 2..(n + 1) : j[i] = t[i - 1]
    BY <1>3, <1>4, <1>5, <2>1
  <2>3. ASSUME NEW i \in 1..(n + 1) PROVE j[i] = s[i]
    <3>1. CASE i = 1
      BY <1>2, <1>3, <2>2, <3>1
    <3>2. CASE i # 1
      <4>1. i \in 2..(n + 1) /\ i - 1 \in 1..n /\ (i - 1) + 1 = i
        BY <3>2
      <4> QED BY <1>4, <2>2, <4>1
    <3> QED BY <3>1, <3>2
  <2>4. Len(j) = Len(s)
    BY <1>1, <2>2
  <2> QED BY <2>2, <2>3, <2>4, Equal
<1>7. Number(j, base) = Number(h, base) * Power(base, n) + Number(t, base)
  <2>1. h \in Seq(Int) /\ t \in Seq(Int)
    OBVIOUS
  <2>2. Number(h \o t, base) = Number(h, base) * Power(base, Len(t)) + Number(t, base)
    BY <2>1, NumberOfJoined
  <2> QED BY <1>4, <1>5, <2>2
<1>8. Number(h, base) = d
  BY <1>3, NumberOfOne
<1>9. PICK p, x : p = Power(base, n) /\ x = Number(t, base)
  OBVIOUS
<1>10. p \in Nat /\ x \in Nat /\ x < p
  <2>1. Number(t, base) \in Nat /\ Number(t, base) < Power(base, Len(t))
    BY NumberBounds
  <2> QED BY <1>4, <1>9, <2>1, PowerSteps
<1>11. Number(s, base) = d * p + x
  BY <1>6, <1>7, <1>8, <1>9
<1>12. d * p <= d * p + x /\ d * p + x < (d + 1) * p
  BY <1>10
<1> QED BY <1>1, <1>2, <1>9, <1>11, <1>12

(* Zeros in front change nothing. *)
LEMMA NumberOfZeros ==
    ASSUME NEW base \in Nat \ {0}, NEW z \in Seq({0})
    PROVE  Number(z, base) = 0
<1>1. PICK n \in Nat : n = Len(z)
  OBVIOUS
<1>2. \A i \in 1..n : z[i] = 0
  BY <1>1
<1> DEFINE v == [k \in 0..n |-> 0]
<1>3. \A k \in 0..n : v[k] = 0
  OBVIOUS
<1> HIDE DEF v
<1>4. Values(z, base, n, v)
  BY <1>2, <1>3 DEF Values
<1>5. Number(z, base) = v[n]
  BY <1>1, <1>4, NumberFrom
<1> QED BY <1>3, <1>5

(* Zeros in front change no number. *)
LEMMA NumberOfPadded ==
    ASSUME NEW base \in Nat \ {0}, NEW s \in Seq(0..(base - 1)), NEW n \in Nat, Len(s) <= n
    PROVE  /\ Padded(s, n) \in Seq(0..(base - 1)) /\ Len(Padded(s, n)) = n
           /\ Number(Padded(s, n), base) = Number(s, base)
<1>1. PICK m \in Nat : m = n - Len(s)
  OBVIOUS
<1>2. PICK z : z = [i \in 1..m |-> 0]
  OBVIOUS
<1>3. z \in Seq({0}) /\ Len(z) = m
  <2>1. z \in [1..m -> {0}]
    BY <1>2
  <2> QED BY <1>2, <2>1
<1>4. z \in Seq(0..(base - 1)) /\ z \in Seq(Int) /\ s \in Seq(Int)
  <2>1. \A i \in 1..m : z[i] = 0
    BY <1>2
  <2>2. z \in [1..m -> 0..(base - 1)] /\ z \in [1..m -> Int]
    BY <1>2
  <2> QED BY <2>2
<1>5. Padded(s, n) = z \o s
  BY <1>1, <1>2 DEF Padded
<1>6. Number(z \o s, base) = Number(z, base) * Power(base, Len(s)) + Number(s, base)
  BY <1>4, NumberOfJoined
<1>7. PICK p \in Nat, x \in Int : p = Power(base, Len(s)) /\ x = Number(s, base)
  <2>1. Power(base, Len(s)) \in Nat
    BY PowerSteps
  <2>2. Number(s, base) \in Int
    BY <1>4, NumberIsInt
  <2> QED BY <2>1, <2>2
<1>8. Number(z \o s, base) = x
  <2>1. Number(z, base) = 0
    BY <1>3, NumberOfZeros
  <2>2. 0 * p + x = x
    OBVIOUS
  <2> QED BY <1>6, <1>7, <2>1, <2>2
<1>9. z \o s \in Seq(0..(base - 1)) /\ Len(z \o s) = Len(z) + Len(s)
  BY <1>4, Appended
<1>10. Len(z) + Len(s) = n
  BY <1>1, <1>3
<1> QED BY <1>5, <1>7, <1>8, <1>9, <1>10

(* The digits that each digit lacks. *)
Lacks(r, s, base) == \A i \in 1..Len(s) : r[i] = (base - 1) - s[i]
(* What each digit lacks to the largest digit is what the number lacks to   *)
(* the largest number of its length.                                        *)
LEMMA NumberOfRest ==
    ASSUME NEW base \in Nat \ {0}, NEW s \in Seq(0..(base - 1)), NEW n \in Nat, n = Len(s),
           NEW r, Lacks(r, s, base), Len(r) = n
    PROVE  Number(r, base) = Power(base, n) - 1 - Number(s, base)
<1>0. n \in Nat /\ \A i \in 1..n : s[i] \in Int /\ r[i] \in Int /\ r[i] = (base - 1) - s[i]
  BY DEF Lacks
<1>1. PICK v \in [0..n -> Int] : Values(s, base, n, v)
  BY <1>0, ValuesExist
<1>2. PICK w \in [0..n -> Int] : Values(r, base, n, w)
  BY <1>0, ValuesExist
<1> DEFINE T == {k \in 0..n : w[k] = Power(base, k) - 1 - v[k]}
<1>3. 0 \in T
  <2>1. v[0] = 0 /\ w[0] = 0 /\ Power(base, 0) = 1 /\ 0 \in 0..n
    BY <1>0, <1>1, <1>2, PowerSteps DEF Values
  <2> QED BY <2>1
<1>4. ASSUME NEW k \in 1..n, k - 1 \in T PROVE k \in T
  <2>0. k - 1 \in Nat /\ k \in 0..n /\ k - 1 \in 0..n /\ (k - 1) + 1 = k
    BY <1>0
  <2>1. PICK p \in Nat : p = Power(base, k - 1) /\ Power(base, k) = base * p
    BY <2>0, PowerSteps
  <2>2. PICK x \in Int, y \in Int, d \in Int : x = v[k - 1] /\ y = w[k - 1] /\ d = s[k]
    BY <1>0, <2>0
  <2>3. v[k] = x * base + d
    BY <1>1, <2>2 DEF Values
  <2>4. w[k] = y * base + ((base - 1) - d)
    BY <1>0, <1>2, <2>2 DEF Values
  <2>5. y = p - 1 - x
    BY <1>4, <2>1, <2>2
  <2>6. (p - 1 - x) * base + ((base - 1) - d) = base * p - 1 - (x * base + d)
    OBVIOUS
  <2> QED BY <2>0, <2>1, <2>3, <2>4, <2>5, <2>6
<1>5. n \in T
  <2> HIDE DEF T
  <2>1. \A k \in 0..n : k \in T
    BY <1>0, <1>3, <1>4, UpTo
  <2> QED BY <1>0, <2>1
<1>6. Number(s, base) = v[n] /\ Number(r, base) = w[n]
  BY <1>0, <1>1, <1>2, NumberFrom
<1> QED BY <1>5, <1>6

-----------------------------------------------------------------------------
(* Amounts of coins. *)

(* A sequence over a set is one over a larger set. *)
LEMMA Widened == ASSUME NEW S, NEW T, S \subseteq T, NEW s \in Seq(S) PROVE s \in Seq(T)
OBVIOUS

(* What holds of numbers, for bytes. *)
LEMMA OctetIs == Byte = 0..(256 - 1) /\ 256 \in Nat \ {0} /\ 256 \in Nat
BY DEF Byte

(* A byte is a number up to 255. *)
LEMMA OctetBounds == ASSUME NEW d \in Byte PROVE d \in Nat /\ d \in Int /\ d <= 255
BY DEF Byte

(* The powers of 256. *)
LEMMA BytePowers ==
    ASSUME NEW n \in Nat
    PROVE  \E p \in Nat \ {0} : p = Power(256, n) /\ Power(256, n + 1) = 256 * p
<1>1. 256 \in Nat \ {0}
  BY OctetIs
<1>2. Power(256, n) \in Nat \ {0} /\ Power(256, n + 1) = 256 * Power(256, n)
  BY <1>1, PowerSteps
<1> QED BY <1>2

(* Bytes are less than a power of 256. *)
LEMMA BytesBound ==
    ASSUME NEW s \in Seq(Byte)
    PROVE  Number(s, 256) \in Nat /\ Number(s, 256) < Power(256, Len(s)) /\ s \in Seq(Int)
<1>1. s \in Seq(0..(256 - 1))
  BY OctetIs
<1>2. s \in Seq(Int)
  <2>1. Byte \subseteq Int
    BY OctetBounds
  <2> QED BY <2>1, Widened
<1> QED BY <1>1, <1>2, OctetIs, NumberBounds

(* The first byte says between which powers a number is. *)
LEMMA BytesLead ==
    ASSUME NEW s \in Seq(Byte), NEW n \in Nat, Len(s) = n + 1
    PROVE  /\ s[1] * Power(256, n) <= Number(s, 256)
           /\ Number(s, 256) < (s[1] + 1) * Power(256, n)
<1>1. s \in Seq(0..(256 - 1))
  BY OctetIs
<1>2. Len(s) >= 1 /\ Len(s) - 1 = n
  OBVIOUS
<1> QED BY <1>1, <1>2, OctetIs, Leading

(* Bytes of which the first says the sign. *)
LEMMA Positive ==
    ASSUME NEW s \in Seq(Byte), Len(s) >= 1, s[1] < 128
    PROVE  Complement(s) = Number(s, 256)
<1>1. s # <<>> /\ s[1] \in Byte
  OBVIOUS
<1>2. ~(s[1] >= 128)
  BY <1>1, OctetBounds
<1> QED BY <1>1, <1>2 DEF Complement

(* The complement of bytes that start with a one bit. *)
LEMMA Negative ==
    ASSUME NEW s \in Seq(Byte), Len(s) >= 1, s[1] >= 128
    PROVE  Complement(s) = Number(s, 256) - Power(256, Len(s))
<1>1. s # <<>>
  OBVIOUS
<1>2. PICK n \in Nat : n = Len(s)
  OBVIOUS
<1>3. PICK r : r = [i \in 1..n |-> 255 - s[i]]
  OBVIOUS
<1>4. Len(r) = n /\ Lacks(r, s, 256)
  <2>1. Len(r) = n /\ \A i \in 1..n : r[i] = 255 - s[i]
    BY <1>3
  <2>2. 256 - 1 = 255
    OBVIOUS
  <2> QED BY <1>2, <2>1, <2>2 DEF Lacks
<1>5. s \in Seq(0..(256 - 1))
  BY OctetIs
<1>6. Number(r, 256) = Power(256, n) - 1 - Number(s, 256)
  <2>1. PICK base \in Nat \ {0} : base = 256
    BY OctetIs
  <2>2. s \in Seq(0..(base - 1)) /\ Lacks(r, s, base)
    BY <1>4, <1>5, <2>1
  <2>3. Number(r, base) = Power(base, n) - 1 - Number(s, base)
    BY <1>2, <1>4, <2>2, NumberOfRest
  <2> QED BY <2>1, <2>3
<1>7. Complement(s) = -Number(r, 256) - 1
  BY <1>1, <1>2, <1>3 DEF Complement
<1>8. Power(256, n) \in Nat /\ Number(s, 256) \in Nat
  <2>1. Number(s, 256) \in Nat
    BY BytesBound
  <2>2. PICK p \in Nat \ {0} : p = Power(256, n) /\ Power(256, n + 1) = 256 * p
    BY BytePowers
  <2> QED BY <2>1, <2>2
<1> QED BY <1>2, <1>6, <1>7, <1>8

(* A byte in front. *)
LEMMA ByteMore ==
    ASSUME NEW b \in Byte, NEW s \in Seq(Byte)
    PROVE  /\ << b >> \o s \in Seq(Byte) /\ Len(<< b >> \o s) = Len(s) + 1
           /\ (<< b >> \o s)[1] = b
           /\ Number(<< b >> \o s, 256) = b * Power(256, Len(s)) + Number(s, 256)
<1>1. PICK h \in Seq(Byte) : h = << b >> /\ Len(h) = 1 /\ h[1] = b
  <2>1. << b >> \in Seq(Byte) /\ Len(<< b >>) = 1 /\ << b >>[1] = b
    OBVIOUS
  <2> QED BY <2>1
<1>2. PICK j : j = h \o s
  OBVIOUS
<1>3. j \in Seq(Byte) /\ Len(j) = Len(s) + 1 /\ j[1] = b
  <2>1. /\ h \o s \in Seq(Byte) /\ Len(h \o s) = Len(h) + Len(s) /\ Len(s) \in Nat
        /\ \A i \in 1..Len(h) : (h \o s)[i] = h[i]
    BY Appended
  <2> QED BY <1>1, <1>2, <2>1
<1>4. h \in Seq(Int) /\ s \in Seq(Int)
  BY BytesBound
<1>5. Number(h \o s, 256) = Number(h, 256) * Power(256, Len(s)) + Number(s, 256)
  BY <1>4, OctetIs, NumberOfJoined
<1>6. Number(h, 256) = b
  BY <1>1, OctetIs, NumberOfOne DEF Byte
<1> QED BY <1>1, <1>2, <1>3, <1>5, <1>6

(* How large a number is that takes n digits. *)
LEMMA Magnitude ==
    ASSUME NEW m \in Nat \ {0}
    PROVE  \E s \in Seq(Byte), n \in Nat :
              /\ s = Digits(m, 256) /\ Len(s) = n + 1 /\ s[1] # 0 /\ Number(s, 256) = m
              /\ Power(256, n) <= m /\ m < Power(256, n + 1)
<1>1. PICK s : s = Digits(m, 256)
  OBVIOUS
<1>2. DigitsOf(s, 256, m)
  BY <1>1, DigitsAre DEF IsBase
<1>3. /\ s \in Seq(0..(256 - 1)) /\ Len(s) >= 1 /\ Number(s, 256) = m /\ s[1] # 0
  BY <1>2 DEF DigitsOf
<1>4. s \in Seq(Byte)
  BY <1>3 DEF Byte
<1>5. PICK n \in Nat : n = Len(s) - 1 /\ Len(s) = n + 1
  BY <1>3
<1>6. s[1] * Power(256, n) <= m
  BY <1>3, <1>4, <1>5, BytesLead
<1>7. PICK p \in Nat : p = Power(256, n)
  BY BytePowers
<1>8. PICK d \in Byte : d = s[1] /\ d # 0
  BY <1>3, <1>4
<1>9. p <= d * p /\ d * p \in Nat
  <2>1. d \in Nat /\ d >= 1
    BY <1>8, OctetBounds
  <2> QED BY <2>1
<1>10. Power(256, n) <= m
  <2>1. d * p <= m
    BY <1>6, <1>7, <1>8
  <2> QED BY <1>7, <1>9, <2>1
<1>11. m < Power(256, n + 1)
  BY <1>3, <1>4, <1>5, BytesBound
<1> QED BY <1>1, <1>3, <1>4, <1>5, <1>10, <1>11

Canonical(n, s) ==
    LET size == Len(s)
    IN  /\ \A i \in 1..size : s[i] \in 0..255
        /\ Complement(s) = n
        /\ Fits(n, size)
        /\ size > 0 => ~Fits(n, size - 1)

(* When an amount fits, by its sign. *)
LEMMA FitsIs ==
    ASSUME NEW amount \in Int, NEW n \in Nat
    PROVE  /\ amount >= 0 => (Fits(amount, n + 1) <=> amount \div 128 < Power(256, n))
           /\ amount < 0 => (Fits(amount, n + 1) <=> (-amount - 1) \div 128 < Power(256, n))
           /\ Fits(amount, 0) <=> amount = 0
BY DEF Fits

(* Zero is no bytes. *)
LEMMA ZeroCanonical == Canonical(0, amountToBytes(0))
<1>1. amountToBytes(0) = <<>>
  BY DEF amountToBytes
<1>2. Complement(<<>>) = 0
  BY NumberOfNone DEF Complement
<1>3. Fits(0, 0)
  BY DEF Fits
<1>4. Len(<<>>) = 0
  OBVIOUS
<1> QED BY <1>1, <1>2, <1>3, <1>4 DEF Canonical

(* What a sign, a size and the bounds of a value say of it. *)
LEMMA IsCanonical ==
    ASSUME NEW amount \in Int, NEW s \in Seq(Byte), NEW n \in Nat, Len(s) = n + 1,
           Complement(s) = amount, Fits(amount, n + 1), ~Fits(amount, n)
    PROVE  Canonical(amount, s)
<1>1. \A i \in 1..(n + 1) : s[i] \in Byte
  OBVIOUS
<1>2. (n + 1) - 1 = n
  OBVIOUS
<1> QED BY <1>1, <1>2 DEF Canonical, Byte

(* A positive amount. *)
LEMMA PositiveCanonical ==
    ASSUME NEW amount \in Nat \ {0}
    PROVE Canonical(amount, amountToBytes(amount))
<1>1. PICK s \in Seq(Byte), n \in Nat :
         /\ s = Digits(amount, 256) /\ Len(s) = n + 1 /\ s[1] # 0 /\ Number(s, 256) = amount
         /\ Power(256, n) <= amount /\ amount < Power(256, n + 1)
  BY Magnitude
<1>2. toHex(amount) = s
  BY <1>1 DEF toHex
<1>3. PICK p \in Nat \ {0} : p = Power(256, n) /\ Power(256, n + 1) = 256 * p
  BY BytePowers
<1>4. PICK d \in Byte : d = s[1]
  BY <1>1
<1>5. d * p <= amount /\ amount < (d + 1) * p
  <2>2. s[1] * Power(256, n) <= amount /\ amount < (s[1] + 1) * Power(256, n)
    BY <1>1, BytesLead
  <2> QED BY <1>3, <1>4, <2>2
<1>6. CASE d >= 128
  <2>1. amountToBytes(amount) = << 0 >> \o s
    BY <1>2, <1>4, <1>6 DEF amountToBytes
  <2>2. PICK e \in Seq(Byte) : /\ e = << 0 >> \o s /\ Len(e) = (n + 1) + 1 /\ e[1] = 0
                                /\ Number(e, 256) = 0 * Power(256, n + 1) + amount
    <3>1. 0 \in Byte
      BY DEF Byte
    <3>2. PICK e : e = << 0 >> \o s
      OBVIOUS
    <3>3. /\ e \in Seq(Byte) /\ Len(e) = Len(s) + 1 /\ e[1] = 0
          /\ Number(e, 256) = 0 * Power(256, Len(s)) + Number(s, 256)
      BY <3>1, <3>2, ByteMore
    <3>4. Len(e) = (n + 1) + 1 /\ Number(e, 256) = 0 * Power(256, n + 1) + amount
      BY <1>1, <3>3
    <3> QED BY <3>2, <3>3, <3>4
  <2>3. Complement(e) = amount
    <3>1. Complement(e) = Number(e, 256)
      <4>1. Len(e) >= 1 /\ e[1] < 128
        BY <2>2
      <4> QED BY <4>1, Positive
    <3> QED BY <1>3, <2>2, <3>1
  <2>4. Fits(amount, (n + 1) + 1)
    <3>1. amount \div 128 < 256 * p
      BY <1>1, <1>3
    <3> QED BY <1>3, <3>1, FitsIs
  <2>5. ~Fits(amount, n + 1)
    <3>1. 128 * p <= d * p
      BY <1>6 DEF Byte
    <3>2. 128 * p <= amount
      BY <1>5, <3>1 DEF Byte
    <3>3. ~(amount \div 128 < p)
      BY <3>2
    <3> QED BY <1>3, <3>3, FitsIs
  <2>6. Len(e) = (n + 1) + 1 /\ n + 1 \in Nat
    BY <2>2
  <2>7. Canonical(amount, e)
    BY <2>3, <2>4, <2>5, <2>6, IsCanonical
  <2> QED BY <2>1, <2>2, <2>7
<1>7. CASE d < 128
  <2>1. amountToBytes(amount) = s
    <3>1. amount # 0 /\ ~(amount < 0) /\ amount > 0 /\ ~(s[1] >= 128)
      BY <1>4, <1>7, OctetBounds
    <3> QED BY <1>2, <3>1 DEF amountToBytes
  <2>2. Complement(s) = amount
    BY <1>1, <1>4, <1>7, Positive
  <2>3. Fits(amount, n + 1)
    <3>1. (d + 1) * p <= 128 * p
      BY <1>7 DEF Byte
    <3>2. amount < 128 * p
      BY <1>5, <3>1 DEF Byte
    <3>3. amount \div 128 < p
      BY <3>2
    <3> QED BY <1>3, <3>3, FitsIs
  <2>4. ~Fits(amount, n)
    <3>1. CASE n = 0
      BY <3>1, FitsIs
    <3>2. CASE n # 0
      <4>1. PICK l \in Nat : n = l + 1
        <5>1. n - 1 \in Nat /\ n = (n - 1) + 1
          BY <3>2
        <5> QED BY <5>1
      <4>2. PICK r \in Nat : r = Power(256, l) /\ p = 256 * r
        <5>1. PICK r \in Nat \ {0} : r = Power(256, l) /\ Power(256, l + 1) = 256 * r
          BY BytePowers
        <5> QED BY <1>3, <4>1, <5>1
      <4>3. ~(amount \div 128 < r)
        BY <1>1, <1>3, <4>2
      <4> QED BY <4>1, <4>2, <4>3, FitsIs
    <3> QED BY <3>1, <3>2
  <2> QED BY <1>1, <2>1, <2>2, <2>3, <2>4, IsCanonical
<1>8. d >= 128 \/ d < 128
  BY DEF Byte
<1> QED BY <1>6, <1>7, <1>8

(* A negative amount. *)
LEMMA NegativeCanonical ==
    ASSUME NEW amount \in Int, amount < 0 PROVE Canonical(amount, amountToBytes(amount))
<1>1. PICK m \in Nat \ {0} : m = -amount /\ amount = -m
  <2>1. -amount \in Nat \ {0} /\ amount = -(-amount)
    OBVIOUS
  <2> QED BY <2>1
<1>2. PICK s \in Seq(Byte), n \in Nat :
         /\ s = Digits(m, 256) /\ Len(s) = n + 1
         /\ Power(256, n) <= m /\ m < Power(256, n + 1)
  BY Magnitude
<1>3. toHex(amount) = s
  BY <1>1, <1>2 DEF toHex
<1>4. PICK p \in Nat \ {0} : p = Power(256, n) /\ Power(256, n + 1) = 256 * p
  BY BytePowers
<1>5. PICK x \in Nat \ {0} : x = 256 * p - m
  <2>1. 256 * p - m \in Nat \ {0}
    BY <1>2, <1>4
  <2> QED BY <2>1
<1>6. Power(256, n + 1) + amount = x
  BY <1>1, <1>4, <1>5
<1>7. PICK t \in Seq(Byte), k \in Nat :
         /\ t = Digits(x, 256) /\ Len(t) = k + 1 /\ Number(t, 256) = x
         /\ Power(256, k) <= x
  BY Magnitude
<1>8. toHex(x) = t
  BY <1>7 DEF toHex
<1>9. Len(t) <= n + 1
  <2> SUFFICES ASSUME k > n PROVE FALSE
    BY <1>7
  <2>1. Power(256, n + 1) <= Power(256, k)
    BY OctetIs, PowerGrows
  <2>2. PICK y \in Nat : y = Power(256, k)
    BY BytePowers
  <2>3. 256 * p <= y /\ y <= x
    BY <1>4, <1>7, <2>1, <2>2
  <2> QED BY <1>5, <2>3
<1>10. PICK b \in Seq(Byte) : b = Padded(t, n + 1) /\ Len(b) = n + 1 /\ Number(b, 256) = x
  <2>1. t \in Seq(0..(256 - 1)) /\ n + 1 \in Nat /\ 256 \in Nat \ {0}
    BY DEF Byte
  <2>2. /\ Padded(t, n + 1) \in Seq(0..(256 - 1)) /\ Len(Padded(t, n + 1)) = n + 1
        /\ Number(Padded(t, n + 1), 256) = Number(t, 256)
    BY <1>9, <2>1, NumberOfPadded
  <2> QED BY <1>7, <2>2 DEF Byte
<1>11. amountToBytes(amount) = IF b[1] < 128 THEN << 255 >> \o b ELSE b
  <2>1. amount < 0 /\ amount # 0 /\ ~(amount > 0)
    OBVIOUS
  <2>2. Len(s) = n + 1
    BY <1>2
  <2> QED BY <1>3, <1>6, <1>8, <1>10, <2>1, <2>2 DEF amountToBytes
<1>12. PICK d \in Byte : d = b[1]
  BY <1>10
<1>13. d * p <= x /\ x < (d + 1) * p
  <2>2. b[1] * Power(256, n) <= x /\ x < (b[1] + 1) * Power(256, n)
    BY <1>10, BytesLead
  <2> QED BY <1>4, <1>12, <2>2
<1>14. CASE d < 128
  <2>1. PICK e \in Seq(Byte) : /\ e = << 255 >> \o b /\ Len(e) = (n + 1) + 1 /\ e[1] = 255
                                /\ Number(e, 256) = 255 * Power(256, n + 1) + x
    <3>1. 255 \in Byte
      BY DEF Byte
    <3>2. PICK e : e = << 255 >> \o b
      OBVIOUS
    <3>3. /\ e \in Seq(Byte) /\ Len(e) = Len(b) + 1 /\ e[1] = 255
          /\ Number(e, 256) = 255 * Power(256, Len(b)) + Number(b, 256)
      BY <3>1, <3>2, ByteMore
    <3>4. Len(e) = (n + 1) + 1 /\ Number(e, 256) = 255 * Power(256, n + 1) + x
      BY <1>10, <3>3
    <3> QED BY <3>2, <3>3, <3>4
  <2>2. amountToBytes(amount) = e
    BY <1>11, <1>12, <1>14, <2>1
  <2>3. Complement(e) = amount
    <3>1. Complement(e) = Number(e, 256) - Power(256, (n + 1) + 1)
      <4>1. Len(e) >= 1 /\ e[1] >= 128 /\ Len(e) = (n + 1) + 1
        BY <2>1
      <4> QED BY <4>1, Negative
    <3>2. Power(256, (n + 1) + 1) = 256 * (256 * p)
      BY <1>4, BytePowers
    <3>3. (255 * (256 * p) + x) - 256 * (256 * p) = amount
      BY <1>1, <1>5
    <3> QED BY <1>4, <2>1, <3>1, <3>2, <3>3
  <2>4. Fits(amount, (n + 1) + 1)
    <3>1. (-amount - 1) \div 128 < 256 * p
      BY <1>1, <1>2, <1>4
    <3> QED BY <1>4, <3>1, FitsIs
  <2>5. ~Fits(amount, n + 1)
    <3>1. (d + 1) * p <= 128 * p
      BY <1>14 DEF Byte
    <3>2. x < 128 * p
      BY <1>13, <3>1 DEF Byte
    <3>3. m - 1 >= 128 * p
      BY <1>5, <3>2
    <3>4. ~((-amount - 1) \div 128 < p)
      BY <1>1, <3>3
    <3> QED BY <1>4, <3>4, FitsIs
  <2>6. Len(e) = (n + 1) + 1 /\ n + 1 \in Nat
    BY <2>1
  <2>7. Canonical(amount, e)
    BY <2>3, <2>4, <2>5, <2>6, IsCanonical
  <2> QED BY <2>1, <2>2, <2>7
<1>15. CASE d >= 128
  <2>1. amountToBytes(amount) = b
    BY <1>11, <1>12, <1>15 DEF Byte
  <2>2. Complement(b) = amount
    <3>1. Complement(b) = x - Power(256, n + 1)
      BY <1>10, <1>12, <1>15, Negative
    <3> QED BY <1>1, <1>4, <1>5, <3>1
  <2>3. Fits(amount, n + 1)
    <3>1. 128 * p <= d * p
      BY <1>15 DEF Byte
    <3>2. 128 * p <= x
      BY <1>13, <3>1 DEF Byte
    <3>3. m - 1 < 128 * p
      BY <1>5, <3>2
    <3>4. (-amount - 1) \div 128 < p
      BY <1>1, <3>3
    <3> QED BY <1>4, <3>4, FitsIs
  <2>4. ~Fits(amount, n)
    <3>1. CASE n = 0
      BY <3>1, FitsIs
    <3>2. CASE n # 0
      <4>1. PICK l \in Nat : n = l + 1
        <5>1. n - 1 \in Nat /\ n = (n - 1) + 1
          BY <3>2
        <5> QED BY <5>1
      <4>2. PICK r \in Nat \ {0} : r = Power(256, l) /\ p = 256 * r
        <5>1. PICK r \in Nat \ {0} : r = Power(256, l) /\ Power(256, l + 1) = 256 * r
          BY BytePowers
        <5> QED BY <1>4, <4>1, <5>1
      <4>3. m - 1 >= 128 * r
        BY <1>2, <1>4, <4>2
      <4>4. ~((-amount - 1) \div 128 < r)
        BY <1>1, <4>3
      <4> QED BY <4>1, <4>2, <4>4, FitsIs
    <3> QED BY <3>1, <3>2
  <2> QED BY <1>10, <2>1, <2>2, <2>3, <2>4, IsCanonical
<1>16. d < 128 \/ d >= 128
  BY DEF Byte
<1> QED BY <1>14, <1>15, <1>16

(* amountToBytes writes the shortest two's complement of every integer. *)
LEMMA AmountCanonical == ASSUME NEW amount \in Int PROVE Canonical(amount, amountToBytes(amount))
<1>1. amount = 0 \/ amount < 0 \/ amount \in Nat \ {0}
  OBVIOUS
<1> QED BY <1>1, ZeroCanonical, PositiveCanonical, NegativeCanonical

-----------------------------------------------------------------------------
(* Amounts of tokens. *)

Digit == 0..9

(* The digits of base ten. *)
LEMMA TenIs == 10 \in Nat \ {0} /\ 10 \in Nat /\ Digit = 0..(10 - 1)
BY DEF Digit

(* A digit is a number. *)
LEMMA DigitBounds == ASSUME NEW d \in Digit PROVE d \in Nat /\ d \in Int
BY DEF Digit

(* Digits are less than a power of ten. *)
LEMMA DigitsBound ==
    ASSUME NEW s \in Seq(Digit)
    PROVE  Number(s, 10) \in Nat /\ Number(s, 10) < Power(10, Len(s)) /\ s \in Seq(Int)
<1>1. s \in Seq(0..(10 - 1))
  BY TenIs
<1>2. s \in Seq(Int)
  <2>1. \A i \in 1..Len(s) : s[i] \in Int
    BY DigitBounds
  <2> QED BY <2>1
<1>3. PICK base \in Nat \ {0} : base = 10
  BY TenIs
<1>4. s \in Seq(0..(base - 1))
  BY <1>1, <1>3
<1>5. Number(s, base) \in Nat /\ Number(s, base) < Power(base, Len(s))
  BY <1>4, NumberBounds
<1> QED BY <1>2, <1>3, <1>5

(* The powers of ten. *)
LEMMA TenPowers ==
    ASSUME NEW n \in Nat
    PROVE  \E p \in Nat \ {0} : p = Power(10, n) /\ Power(10, n + 1) = 10 * p
<1>1. 10 \in Nat \ {0}
  BY TenIs
<1>2. Power(10, n) \in Nat \ {0} /\ Power(10, n + 1) = 10 * Power(10, n)
  BY <1>1, PowerSteps
<1> QED BY <1>2

(* Zeros are digits. *)
LEMMA RepeatZero ==
    ASSUME NEW n \in Nat
    PROVE  Repeat(0, n) \in Seq({0}) /\ Len(Repeat(0, n)) = n /\ Repeat(0, n) \in Seq(Digit)
<1>1. Repeat(0, n) \in [1..n -> {0}] /\ Repeat(0, n) \in [1..n -> Digit]
  BY DEF Repeat, Digit
<1> QED BY <1>1 DEF Repeat

(* Zeros behind digits. *)
LEMMA NumberWithZeros ==
    ASSUME NEW s \in Seq(Digit), NEW z \in Seq({0}), NEW n \in Nat, n = Len(z)
    PROVE  /\ s \o z \in Seq(Digit)
           /\ Number(s \o z, 10) = Number(s, 10) * Power(10, n)
<1>1. s \in Seq(Int)
  BY DigitsBound
<1>2. z \in Seq(Digit)
  <2>1. \A i \in 1..Len(z) : z[i] \in Digit
    BY DEF Digit
  <2> QED BY <2>1
<1>3. z \in Seq(Int)
  BY <1>2, DigitsBound
<1>4. PICK base \in Nat \ {0} : base = 10
  BY TenIs
<1>5. Number(s \o z, base) = Number(s, base) * Power(base, Len(z)) + Number(z, base)
  BY <1>1, <1>3, NumberOfJoined
<1>6. Number(z, base) = 0
  BY NumberOfZeros
<1>7. PICK x \in Nat, p \in Nat : x = Number(s, base) /\ p = Power(base, n)
  <2>1. Number(s, base) \in Nat
    BY <1>4, DigitsBound
  <2>2. Power(base, n) \in Nat
    BY PowerSteps
  <2> QED BY <2>1, <2>2
<1>8. Number(s \o z, base) = x * p
  <2>1. Number(s \o z, base) = x * p + 0
    BY <1>5, <1>6, <1>7
  <2> QED BY <2>1
<1>9. s \o z \in Seq(Digit)
  BY <1>2, Appended
<1> QED BY <1>4, <1>7, <1>8, <1>9

(* What is read after the dot, filled up with zeros to the unit's decimals. *)
Filled(t, missing) == t \o (IF missing > 0 THEN Repeat(0, missing) ELSE <<>>)

(* The digits after the dot, filled up: they are what they are of a unit,   *)
(* or, when they are more than its decimals, the number they are by         *)
(* themselves.                                                              *)
LEMMA AfterDot ==
    ASSUME NEW t \in Seq(Digit), Len(t) >= 1, NEW places \in Nat, NEW n \in Nat, n = Len(t)
    PROVE  /\ n <= places =>
                 /\ BigNumberFrom(Filled(t, places - n)) = Number(t, 10) * Power(10, places - n)
                 /\ BigNumberFrom(Filled(t, places - n)) \in 0..(Power(10, places) - 1)
           /\ n > places => BigNumberFrom(Filled(t, places - n)) = Number(t, 10)
<1>1. t # <<>> /\ t \o <<>> = t
  BY WithNone
<1>2. ASSUME ~(places - n > 0) PROVE BigNumberFrom(Filled(t, places - n)) = Number(t, 10)
  BY <1>1, <1>2 DEF Filled, BigNumberFrom
<1>3. PICK x \in Nat, p \in Nat \ {0} : x = Number(t, 10) /\ p = Power(10, n) /\ x < p
  <2>1. PICK p \in Nat \ {0} : p = Power(10, n) /\ Power(10, n + 1) = 10 * p
    BY TenPowers
  <2>2. Number(t, 10) \in Nat /\ Number(t, 10) < Power(10, n)
    BY DigitsBound
  <2> QED BY <2>1, <2>2
<1>4. ASSUME n = places
      PROVE  /\ BigNumberFrom(Filled(t, places - n)) = Number(t, 10) * Power(10, places - n)
             /\ BigNumberFrom(Filled(t, places - n)) \in 0..(Power(10, places) - 1)
  <2>1. places - n = 0 /\ ~(places - n > 0)
    BY <1>4
  <2>2. BigNumberFrom(Filled(t, places - n)) = x
    BY <1>2, <1>3, <2>1
  <2>3. Power(10, 0) = 1
    BY TenIs, PowerSteps
  <2>4. x = x * 1 /\ x \in 0..(p - 1)
    BY <1>3
  <2> QED BY <1>3, <1>4, <2>1, <2>2, <2>3, <2>4
<1>5. ASSUME n < places
      PROVE  /\ BigNumberFrom(Filled(t, places - n)) = Number(t, 10) * Power(10, places - n)
             /\ BigNumberFrom(Filled(t, places - n)) \in 0..(Power(10, places) - 1)
  <2>1. PICK m \in Nat : m = places - n /\ m > 0
    BY <1>5
  <2>2. PICK z \in Seq({0}) : z = Repeat(0, m) /\ Len(z) = m
    BY RepeatZero
  <2>3. PICK j \in Seq(Digit) : j = t \o z /\ Number(j, 10) = Number(t, 10) * Power(10, m)
    <3>1. t \o z \in Seq(Digit) /\ Number(t \o z, 10) = Number(t, 10) * Power(10, m)
      BY <2>2, NumberWithZeros
    <3> QED BY <3>1
  <2>4. Len(j) = places
    <3>1. z \in Seq(Digit)
      BY <2>2, RepeatZero
    <3>2. Len(t \o z) = Len(t) + Len(z)
      BY <3>1, Appended
    <3> QED BY <2>1, <2>2, <2>3, <3>2
  <2>5. j # <<>>
    BY <2>1, <2>4
  <2>6. Filled(t, places - n) = j
    BY <2>1, <2>2, <2>3 DEF Filled
  <2>7. BigNumberFrom(j) = Number(j, 10)
    BY <2>5 DEF BigNumberFrom
  <2>8. Number(j, 10) \in Nat /\ Number(j, 10) < Power(10, places)
    BY <2>4, DigitsBound
  <2>9. PICK r \in Nat \ {0} : r = Power(10, places) /\ Power(10, places + 1) = 10 * r
    BY TenPowers
  <2>10. Number(j, 10) \in 0..(Power(10, places) - 1)
    BY <2>8, <2>9
  <2> QED BY <2>1, <2>3, <2>6, <2>7, <2>10
<1>6. n > places => ~(places - n > 0)
  OBVIOUS
<1>7. n <= places => n = places \/ n < places
  OBVIOUS
<1> QED BY <1>2, <1>4, <1>5, <1>6, <1>7

(* What parseToken makes of a text with a dot. *)
Parsed(whole, after, unit) ==
    LET amount == BigNumberFrom(Filled(after, decimals(unit) - Len(after)))
    IN  IF whole = <<>> \/ amount = Threw THEN Threw
        ELSE IF amount > unit THEN Threw
        ELSE Number(whole, 10) * unit + amount

IsText(s) == \A i \in 1..Len(s) : s[i] \in {Dot} \cup Digit
Dots(s) == {i \in 1..Len(s) : s[i] = Dot}

(* parseToken, by its cases. *)
LEMMA ParsedIs ==
    ASSUME NEW s, NEW unit
    PROVE  parseToken(s, unit) =
               LET dot == CHOOSE i \in Dots(s) : TRUE
               IN  IF ~IsText(s) THEN Threw
                   ELSE IF Dots(s) = {} THEN (IF s = <<>> THEN Threw ELSE Number(s, 10) * unit)
                   ELSE IF \E i \in Dots(s) : i # dot THEN Threw
                   ELSE Parsed(SubSeq(s, 1, dot - 1), SubSeq(s, dot + 1, Len(s)), unit)
<1> DEFINE dots == {i \in 1..Len(s) : s[i] = Dot}
           dot == CHOOSE i \in dots : TRUE
           whole == SubSeq(s, 1, dot - 1)
           after == SubSeq(s, dot + 1, Len(s))
           missing == decimals(unit) - Len(after)
           amount == BigNumberFrom(after \o (IF missing > 0 THEN Repeat(0, missing) ELSE <<>>))
<1>1. parseToken(s, unit) =
        IF \E i \in 1..Len(s) : s[i] \notin {Dot} \cup 0..9 THEN Threw
        ELSE IF dots = {} THEN (IF s = <<>> THEN Threw ELSE Number(s, 10) * unit)
        ELSE IF \E i \in dots : i # dot THEN Threw
        ELSE IF whole = <<>> \/ amount = Threw THEN Threw
        ELSE IF amount > unit THEN Threw
        ELSE Number(whole, 10) * unit + amount
  BY DEF parseToken, ExceedsUnit
<1>2. Parsed(whole, after, unit) =
        IF whole = <<>> \/ amount = Threw THEN Threw
        ELSE IF amount > unit THEN Threw
        ELSE Number(whole, 10) * unit + amount
  BY DEF Parsed, Filled
<1>3. dots = Dots(s)
  BY DEF Dots
<1>4. IsText(s) <=> ~(\E i \in 1..Len(s) : s[i] \notin {Dot} \cup 0..9)
  BY DEF IsText, Digit
<1> HIDE DEF whole, after, missing, amount, dots
<1> QED BY <1>1, <1>2, <1>3, <1>4 DEF dot, whole, after

(* Units are powers of ten. *)
IsUnit(unit) == unit \in Nat \ {0} /\ decimals(unit) \in Nat /\ unit = Power(10, decimals(unit))

(* With at most the unit's decimals, the amount is exact. *)
LEMMA ParsedExact ==
    ASSUME NEW unit, IsUnit(unit), NEW whole \in Seq(Digit), whole # <<>>,
           NEW after \in Seq(Digit), NEW n \in Nat, n = Len(after), n \in 1..decimals(unit)
    PROVE  Parsed(whole, after, unit) =
               Number(whole, 10) * unit + Number(after, 10) * Power(10, decimals(unit) - n)
<1>1. PICK places \in Nat, p \in Nat : places = decimals(unit) /\ p = Power(10, places) /\ unit = p
  BY DEF IsUnit
<1>2. PICK x : x = BigNumberFrom(Filled(after, places - n))
  OBVIOUS
<1>3. x = Number(after, 10) * Power(10, places - n) /\ x \in 0..(Power(10, places) - 1)
  <2>1. n >= 1 /\ n <= places
    BY <1>1
  <2> QED BY <1>2, <2>1, AfterDot
<1>4. x \in 0..(p - 1)
  BY <1>1, <1>3
<1>5. x \in Int /\ ~(x > p)
  BY <1>4
<1>6. x # Threw /\ ~(x > unit)
  BY <1>1, <1>5, AmountsAssumption
<1> QED BY <1>1, <1>2, <1>3, <1>6 DEF Parsed

(* With more decimals they are taken for as many as the unit has. *)
LEMMA ParsedOver ==
    ASSUME NEW unit, IsUnit(unit), NEW whole \in Seq(Digit), whole # <<>>,
           NEW after \in Seq(Digit), NEW n \in Nat, n = Len(after), n > decimals(unit),
           Number(after, 10) <= unit
    PROVE  Parsed(whole, after, unit) = Number(whole, 10) * unit + Number(after, 10)
<1>1. PICK places \in Nat : places = decimals(unit) /\ unit \in Nat
  BY DEF IsUnit
<1>2. PICK x : x = BigNumberFrom(Filled(after, places - n))
  OBVIOUS
<1>3. x = Number(after, 10) /\ x \in Nat
  <2>1. n >= 1
    BY <1>1
  <2>2. Number(after, 10) \in Nat
    BY DigitsBound
  <2> QED BY <1>1, <1>2, <2>1, <2>2, AfterDot
<1>4. x # Threw /\ ~(x > unit)
  BY <1>1, <1>3, AmountsAssumption
<1> QED BY <1>1, <1>2, <1>3, <1>4 DEF Parsed

(* However many decimals there are, they are refused or are at most a unit. *)
LEMMA ParsedIn ==
    ASSUME NEW unit, IsUnit(unit), NEW whole \in Seq(Digit), NEW after \in Seq(Digit)
    PROVE  LET result == Parsed(whole, after, unit)
               least == Number(whole, 10) * unit
           IN  result = Threw \/ (least <= result /\ result <= least + unit)
<1>1. PICK m \in Int : m = decimals(unit) - Len(after)
  BY DEF IsUnit
<1>2. PICK s \in Seq(Digit) : s = Filled(after, m)
  <2>1. CASE m > 0
    <3>1. PICK z \in Seq(Digit) : z = Repeat(0, m)
      BY <2>1, RepeatZero
    <3>2. after \o z \in Seq(Digit)
      BY <3>1, Appended
    <3> QED BY <2>1, <3>1, <3>2 DEF Filled
  <2>2. CASE ~(m > 0)
    BY <2>2, WithNone DEF Filled
  <2> QED BY <2>1, <2>2
<1>3. PICK x : x = BigNumberFrom(s)
  OBVIOUS
<1>4. CASE x = Threw
  BY <1>1, <1>2, <1>3, <1>4 DEF Parsed
<1>5. CASE x # Threw
  <2>1. x = Number(s, 10)
    BY <1>3, <1>5 DEF BigNumberFrom
  <2>2. x \in Nat
    BY <2>1, DigitsBound
  <2>3. PICK w \in Nat, u \in Nat : w = Number(whole, 10) /\ u = unit
    BY DigitsBound DEF IsUnit
  <2>4. \/ Parsed(whole, after, unit) = Threw
        \/ ~(x > u) /\ Parsed(whole, after, unit) = w * u + x
    BY <1>1, <1>2, <1>3, <2>3 DEF Parsed
  <2>5. PICK y \in Int : y = w * u
    BY <2>3
  <2>6. y <= y + x /\ (~(x > u) => y + x <= y + u)
    <3>1. y \in Int /\ x \in Int /\ x >= 0 /\ u \in Int
      BY <2>2, <2>3, <2>5
    <3> QED BY ONLY <3>1
  <2>7. Number(whole, 10) * unit = y /\ unit = u
    BY <2>3, <2>5
  <2> HIDE DEF Parsed
  <2> QED BY <2>4, <2>5, <2>6, <2>7
<1> QED BY <1>4, <1>5

(* A text with one dot is read as what is before and after it. *)
LEMMA OneDot ==
    ASSUME NEW s, NEW unit, NEW d, Dots(s) = {d}, IsText(s)
    PROVE  parseToken(s, unit) = Parsed(SubSeq(s, 1, d - 1), SubSeq(s, d + 1, Len(s)), unit)
<1>1. PICK dot : dot = CHOOSE i \in Dots(s) : TRUE
  OBVIOUS
<1>2. dot = d
  BY <1>1
<1>3. parseToken(s, unit) =
        IF ~IsText(s) THEN Threw
        ELSE IF Dots(s) = {} THEN (IF s = <<>> THEN Threw ELSE Number(s, 10) * unit)
        ELSE IF \E i \in Dots(s) : i # dot THEN Threw
        ELSE Parsed(SubSeq(s, 1, dot - 1), SubSeq(s, dot + 1, Len(s)), unit)
  BY <1>1, ParsedIs
<1>4. Dots(s) # {} /\ ~(\E i \in Dots(s) : i # dot)
  BY <1>2
<1> QED BY <1>2, <1>3, <1>4

(* A set with two elements has more than one, one with one element has not. *)
LEMMA MoreThanOne ==
    ASSUME NEW n \in Nat, NEW T, T \subseteq 1..n, NEW d \in T, NEW e \in T, d # e
    PROVE  Cardinality(T) > 1
<1>1. IsFiniteSet(T)
  <2>1. IsFiniteSet(1..n)
    BY FS_Interval
  <2> QED BY <2>1, FS_Subset
<1>2. IsFiniteSet({d}) /\ Cardinality({d}) = 1
  BY FS_Singleton
<1>3. IsFiniteSet({d} \cup {e}) /\ Cardinality({d} \cup {e}) = 2
  BY <1>2, FS_AddElement
<1>4. Cardinality({d} \cup {e}) <= Cardinality(T)
  BY <1>1, FS_Subset
<1>5. Cardinality(T) \in Nat
  BY <1>1, FS_CardinalityType
<1> QED BY <1>3, <1>4, <1>5

(* parseToken reads what is well formed with the unit's decimals exactly,   *)
(* with more of them to within a unit, and refuses what is malformed.       *)
LEMMA TextRead ==
    ASSUME NEW S, NEW s \in Seq(S), NEW unit, IsUnit(unit)
    PROVE  ReadInUnits(s, unit, parseToken(s, unit))
<1> DEFINE dots == {i \in 1..Len(s) : s[i] = Dot}
           dot == CHOOSE i \in 1..(Len(s) + 1) :
                     IF dots = {} THEN i = Len(s) + 1 ELSE i \in dots
           places == decimals(unit)
           after == SubSeq(s, dot + 1, Len(s))
           least == Number(SubSeq(s, 1, dot - 1), 10) * unit
           malformed == \/ \E i \in 1..Len(s) : s[i] \notin 0..9 \cup {Dot}
                        \/ Cardinality(dots) > 1
                        \/ dot = 1
           result == parseToken(s, unit)
<1>1. SUFFICES IF malformed THEN result = Threw
               ELSE IF dots = {} \/ Len(after) \in 1..places
               THEN result = least + Number(after, 10) * Power(10, places - Len(after))
               ELSE result = Threw \/ (least <= result /\ result <= least + unit)
  BY DEF ReadInUnits
<1>2. PICK n \in Nat : n = Len(s)
  OBVIOUS
<1>3. dots = Dots(s) /\ dots \subseteq 1..n
  BY <1>2 DEF Dots
<1>4. dots = {} => dot = n + 1
  BY <1>2
<1>5. dots # {} => dot \in dots
  BY <1>2
<1>6. IsText(s) <=> ~(\E i \in 1..Len(s) : s[i] \notin 0..9 \cup {Dot})
  BY DEF IsText, Digit
<1>7. result =
        LET chosen == CHOOSE i \in Dots(s) : TRUE
        IN  IF ~IsText(s) THEN Threw
            ELSE IF Dots(s) = {} THEN (IF s = <<>> THEN Threw ELSE Number(s, 10) * unit)
            ELSE IF \E i \in Dots(s) : i # chosen THEN Threw
            ELSE Parsed(SubSeq(s, 1, chosen - 1), SubSeq(s, chosen + 1, Len(s)), unit)
  BY ParsedIs
<1>8. PICK chosen : chosen = CHOOSE i \in Dots(s) : TRUE
  OBVIOUS
<1>9. result = IF ~IsText(s) THEN Threw
               ELSE IF Dots(s) = {} THEN (IF s = <<>> THEN Threw ELSE Number(s, 10) * unit)
               ELSE IF \E i \in Dots(s) : i # chosen THEN Threw
               ELSE Parsed(SubSeq(s, 1, chosen - 1), SubSeq(s, chosen + 1, Len(s)), unit)
  BY <1>7, <1>8
<1>10. Dots(s) # {} => chosen \in Dots(s)
  BY <1>8
<1> HIDE DEF dots, dot, result
<1>11. CASE ~IsText(s)
  BY <1>1, <1>6, <1>9, <1>11
<1>12. CASE IsText(s) /\ dots = {}
  <2>1. Cardinality(dots) = 0
    BY <1>12, FS_EmptySet
  <2>2. dot = n + 1
    BY <1>4, <1>12
  <2>3. CASE s = <<>>
    <3>1. n = 0
      BY <1>2, <2>3
    <3>2. malformed /\ result = Threw
      BY <1>3, <1>9, <1>12, <2>2, <2>3, <3>1
    <3> QED BY <1>1, <3>2
  <2>4. CASE s # <<>>
    <3>1. n # 0
      BY <1>2, <2>4
    <3>2. ~malformed
      BY <1>6, <1>12, <2>1, <2>2, <3>1
    <3>3. result = Number(s, 10) * unit
      BY <1>3, <1>9, <1>12, <2>4
    <3>4. IsText(s) /\ s \in Seq(Digit)
      <4>1. ASSUME NEW i \in 1..n PROVE s[i] \in Digit
        <5>1. s[i] \in {Dot} \cup Digit
          BY <1>2, <1>12 DEF IsText
        <5>2. s[i] # Dot
          BY <1>2, <1>3, <1>12 DEF Dots
        <5> QED BY <5>1, <5>2
      <4> QED BY <1>2, <1>12, <4>1
    <3>5. after = <<>> /\ SubSeq(s, 1, dot - 1) = s
      BY <1>2, <2>2
    <3>6. PICK x \in Nat, u \in Nat, p \in Nat :
             x = Number(s, 10) /\ u = unit /\ p = Power(10, places - 0)
      <4>1. Number(s, 10) \in Nat
        BY <3>4, DigitsBound
      <4>2. Power(10, places - 0) \in Nat
        <5>1. places \in Nat /\ places - 0 = places
          BY DEF IsUnit
        <5>2. PICK p \in Nat \ {0} : p = Power(10, places) /\ Power(10, places + 1) = 10 * p
          BY <5>1, TenPowers
        <5> QED BY <5>1, <5>2
      <4> QED BY <4>1, <4>2 DEF IsUnit
    <3>7. Number(after, 10) = 0 /\ Len(after) = 0
      BY <3>5, TenIs, NumberOfNone
    <3>8. x * u + 0 * p = x * u
      OBVIOUS
    <3>9. least = x * u /\ Number(after, 10) * Power(10, places - Len(after)) = 0 * p
      BY <3>5, <3>6, <3>7
    <3> HIDE DEF malformed, after, places, least
    <3> QED BY <1>1, <1>12, <3>2, <3>3, <3>6, <3>8, <3>9
  <2> QED BY <2>3, <2>4
<1>13. CASE IsText(s) /\ dots # {} /\ \E i \in dots : i # chosen
  <2>1. PICK e \in dots : e # chosen
    BY <1>13
  <2>2. chosen \in dots
    BY <1>3, <1>10, <1>13
  <2>3. Cardinality(dots) > 1
    BY <1>3, <2>1, <2>2, MoreThanOne
  <2>4. result = Threw
    BY <1>3, <1>9, <1>13
  <2> QED BY <1>1, <2>3, <2>4
<1>14. CASE IsText(s) /\ dots # {} /\ ~\E i \in dots : i # chosen
  <2>1. dot = chosen /\ dots = {dot} /\ dot \in 1..n
    BY <1>3, <1>5, <1>10, <1>14
  <2>2. Cardinality(dots) = 1
    BY <2>1, FS_Singleton
  <2>3. PICK whole : whole = SubSeq(s, 1, dot - 1)
    OBVIOUS
  <2>4. result = Parsed(whole, after, unit)
    BY <1>3, <1>9, <1>14, <2>1, <2>3
  <2>5. ASSUME NEW i \in 1..n, i # dot PROVE s[i] \in Digit
    <3>1. s[i] \in {Dot} \cup Digit
      BY <1>2, <1>14 DEF IsText
    <3>2. s[i] # Dot
      <4>1. i \notin Dots(s)
        BY <1>3, <2>1, <2>5
      <4> QED BY <1>2, <4>1 DEF Dots
    <3> QED BY <3>1, <3>2
  <2>6. whole \in Seq(Digit) /\ Len(whole) = dot - 1
    <3>1. Len(whole) = dot - 1 /\ \A i \in 1..(dot - 1) : whole[i] = s[i]
      BY <1>2, <2>1, <2>3
    <3>2. whole \in Seq(S)
      BY <1>2, <2>1, <2>3
    <3>3. \A i \in 1..(dot - 1) : whole[i] \in Digit
      BY <2>1, <2>5, <3>1
    <3> QED BY <3>1, <3>2, <3>3
  <2>7. after \in Seq(Digit) /\ Len(after) = n - dot
    <3>1. Len(after) = n - dot /\ \A i \in 1..(n - dot) : after[i] = s[dot + i]
      BY <1>2, <2>1
    <3>2. after \in Seq(S)
      BY <1>2, <2>1
    <3>3. \A i \in 1..(n - dot) : after[i] \in Digit
      BY <2>1, <2>5, <3>1
    <3> HIDE DEF after
    <3> QED BY <3>1, <3>2, <3>3
  <2> HIDE DEF after
  <2>8. CASE dot = 1
    <3>1. whole = <<>>
      BY <2>6, <2>8
    <3>2. result = Threw
      BY <2>4, <3>1 DEF Parsed
    <3> QED BY <1>1, <2>8, <3>2
  <2>9. CASE dot # 1
    <3>1. ~malformed
      BY <1>6, <1>14, <2>2, <2>9
    <3>2. whole # <<>>
      BY <2>1, <2>6, <2>9
    <3>3. ASSUME Len(after) \in 1..places
          PROVE  result = Number(whole, 10) * unit + Number(after, 10) * Power(10, places - Len(after))
      <4>1. PICK k \in Nat : k = Len(after)
        BY <2>7
      <4>2. k \in 1..decimals(unit)
        BY <3>3, <4>1
      <4>3. Parsed(whole, after, unit) =
                Number(whole, 10) * unit + Number(after, 10) * Power(10, decimals(unit) - k)
        BY <2>6, <2>7, <3>2, <4>1, <4>2, ParsedExact
      <4> QED BY <2>4, <4>1, <4>3
    <3>4. \/ result = Threw
          \/ Number(whole, 10) * unit <= result /\ result <= Number(whole, 10) * unit + unit
      BY <2>4, <2>6, <2>7, ParsedIn
    <3> HIDE DEF malformed, places
    <3> QED BY <1>1, <1>14, <2>3, <3>1, <3>3, <3>4
  <2> QED BY <2>8, <2>9
<1> QED BY <1>11, <1>12, <1>13, <1>14

(* A set of numbers with a bound has a greatest. *)
LEMMA HasGreatest ==
    ASSUME NEW n \in Nat, NEW T, T \subseteq 1..n, T # {}
    PROVE  \E m \in T : \A k \in T : k <= m
<1> DEFINE R == {n - k : k \in T}
<1>1. R \subseteq Nat /\ R # {}
  <2>1. ASSUME NEW k \in T PROVE n - k \in Nat
    <3>1. k \in 1..n
      OBVIOUS
    <3> QED BY <3>1
  <2> QED BY <2>1
<1> HIDE DEF R
<1>2. PICK l \in R : \A k \in R : l <= k
  BY <1>1, HasLeast
<1>3. PICK m \in T : l = n - m
  BY DEF R
<1>4. ASSUME NEW k \in T PROVE k <= m
  <2>1. n - k \in R
    BY DEF R
  <2>2. n - m <= n - k
    BY <1>2, <1>3, <2>1
  <2> QED BY <2>2
<1> QED BY <1>4

(* s without zeros at its end, but for its first digit. *)
Trims(t, s) ==
    \E k \in 1..Len(s) : \E z \in Seq({0}) :
        /\ t = SubSeq(s, 1, k) /\ k + Len(z) = Len(s) /\ s = t \o z

(* Trimmed takes away zeros only, and leaves a digit. *)
LEMMA TrimmedIs ==
    ASSUME NEW s \in Seq(Digit), Len(s) >= 1
    PROVE  Trims(Trimmed(s), s)
<1>1. PICK n \in Nat : n = Len(s) /\ n >= 1
  OBVIOUS
<1> DEFINE kept == {i \in 1..n : i = 1 \/ \E k \in i..n : s[k] # 0}
<1>2. kept \subseteq 1..n /\ 1 \in kept
  BY <1>1
<1>3. Trimmed(s) = SubSeq(s, 1, CHOOSE m \in kept : \A k \in kept : k <= m)
  BY <1>1 DEF Trimmed
<1>4. \A k \in 1..n : s[k] # 0 => k \in kept
  <2> TAKE k \in 1..n
  <2> HAVE s[k] # 0
  <2>1. k \in k..n
    OBVIOUS
  <2> QED BY <2>1
<1> HIDE DEF kept
<1>5. \E m \in kept : \A k \in kept : k <= m
  BY <1>2, HasGreatest
<1>6. PICK m \in kept : m = (CHOOSE i \in kept : \A k \in kept : k <= i) /\ \A k \in kept : k <= m
  BY <1>5
<1>7. PICK t : t = SubSeq(s, 1, m)
  OBVIOUS
<1>8. m \in 1..n
  BY <1>2
<1>9. t \in Seq(Digit) /\ Len(t) = m /\ \A i \in 1..m : t[i] = s[i]
  BY <1>1, <1>7, <1>8
<1>10. PICK z : z = [i \in 1..(n - m) |-> s[m + i]]
  OBVIOUS
<1>11. ASSUME NEW i \in 1..(n - m) PROVE s[m + i] = 0
  <2>1. m + i \in 1..n /\ ~(m + i <= m)
    BY <1>8
  <2> QED BY <1>4, <1>6, <2>1
<1>12. z \in Seq({0}) /\ Len(z) = n - m /\ \A i \in 1..(n - m) : z[i] = s[m + i]
  <2>1. n - m \in Nat
    BY <1>8
  <2>2. z \in [1..(n - m) -> {0}]
    BY <1>10, <1>11
  <2> QED BY <1>10, <2>1, <2>2
<1>13. s = t \o z
  <2>1. z \in Seq(Digit)
    <3>1. \A i \in 1..Len(z) : z[i] \in Digit
      BY <1>12 DEF Digit
    <3> QED BY <1>12, <3>1
  <2>2. t \o z \in Seq(Digit) /\ Len(t \o z) = n
    <3>1. t \o z \in Seq(Digit) /\ Len(t \o z) = Len(t) + Len(z)
      BY <1>9, <2>1, Appended
    <3>2. Len(t) + Len(z) = n
      BY <1>8, <1>9, <1>12
    <3> QED BY <3>1, <3>2
  <2>3. ASSUME NEW i \in 1..n PROVE (t \o z)[i] = s[i]
    <3>1. CASE i <= m
      <4>1. i \in 1..Len(t)
        BY <1>9, <3>1
      <4>2. (t \o z)[i] = t[i]
        BY <1>9, <2>1, <4>1, Appended
      <4> QED BY <1>9, <4>1, <4>2
    <3>2. CASE i > m
      <4>1. i \in (Len(t) + 1)..(Len(t) + Len(z)) /\ i - m \in 1..(n - m)
        BY <1>8, <1>9, <1>12, <3>2
      <4>2. (t \o z)[i] = z[i - Len(t)]
        BY <1>9, <2>1, <4>1, Appended
      <4>3. m + (i - m) = i
        BY <1>8
      <4> QED BY <1>9, <1>12, <4>1, <4>2, <4>3
    <3>3. i <= m \/ i > m
      BY <1>8
    <3> QED BY <3>1, <3>2, <3>3
  <2> QED BY <1>1, <2>2, <2>3, Equal
<1>14. m + Len(z) = Len(s) /\ m \in 1..Len(s)
  BY <1>1, <1>8, <1>12
<1> QED BY <1>3, <1>6, <1>7, <1>12, <1>13, <1>14 DEF Trims

(* What formatToken writes: the digits of the quotient, the dot, the digits  *)
(* of the rest, at its end filled up and trimmed.                            *)
Decimals(r, places) ==
    LET rest == Digits(r, 10)
        missing == places - Len(rest)
    IN  (IF missing > 0 THEN Repeat(0, missing) ELSE <<>>) \o rest

(* formatToken, by its parts. *)
LEMMA FormatIs ==
    ASSUME NEW n, NEW unit, unit # 0
    PROVE  formatToken(n, unit) =
               Digits(n \div unit, 10) \o << Dot >> \o Trimmed(Decimals(n % unit, decimals(unit)))
BY DEF formatToken, Decimals

(* The decimal digits of a number. *)
LEMMA TenDigits ==
    ASSUME NEW n \in Nat
    PROVE  \E s \in Seq(Digit) : s = Digits(n, 10) /\ Len(s) >= 1 /\ Number(s, 10) = n
              /\ (n # 0 => s[1] # 0) /\ (n = 0 => Len(s) = 1)
<1>1. PICK base \in Nat : base = 10 /\ base >= 2
  OBVIOUS
<1>2. IsBase(base)
  BY <1>1 DEF IsBase
<1>3. DigitsOf(Digits(n, base), base, n)
  BY <1>1, <1>2, DigitsAre
<1> QED BY <1>1, <1>3, TenIs DEF DigitsOf

(* As many decimals as the unit has, one at least, and they are the rest. *)
LEMMA DecimalsAre ==
    ASSUME NEW places \in Nat, NEW r \in Nat, r < Power(10, places)
    PROVE  \E s \in Seq(Digit) :
              /\ s = Decimals(r, places) /\ Number(s, 10) = r
              /\ places = 0 => Len(s) = 1
              /\ places > 0 => Len(s) = places
<1>1. PICK s \in Seq(Digit) : s = Digits(r, 10) /\ Len(s) >= 1 /\ Number(s, 10) = r
                              /\ (r # 0 => s[1] # 0) /\ (r = 0 => Len(s) = 1)
  BY TenDigits
<1>2. PICK n \in Nat : n = Len(s) /\ n >= 1
  BY <1>1
<1>3. s \o <<>> = s /\ <<>> \o s = s
  OBVIOUS
<1>4. ASSUME places >= 1 PROVE n <= places
  <2>1. CASE r = 0
    BY <1>1, <1>2, <1>4, <2>1
  <2>2. CASE r # 0
    <3> SUFFICES ASSUME ~(n <= places) PROVE FALSE
      OBVIOUS
    <3>1. PICK base \in Nat \ {0} : base = 10
      BY TenIs
    <3>2. s \in Seq(0..(base - 1))
      BY <3>1, TenIs
    <3>3. s[1] * Power(base, n - 1) <= Number(s, base)
      BY <1>2, <3>2, Leading
    <3>4. n - 1 \in Nat /\ places <= n - 1
      BY <1>2
    <3>5. Power(base, places) <= Power(base, n - 1)
      BY <3>4, PowerGrows
    <3>6. Power(base, places) \in Nat /\ Power(base, n - 1) \in Nat
      BY <3>4, PowerSteps
    <3>7. s[1] \in Nat \ {0}
      <4>1. s[1] \in Digit
        BY <1>2
      <4> QED BY <1>1, <2>2, <4>1, DigitBounds
    <3>8. PICK d \in Nat \ {0}, p \in Nat, quot \in Nat :
             d = s[1] /\ p = Power(base, n - 1) /\ quot = Power(base, places)
      BY <3>6, <3>7
    <3>9. d * p <= r /\ quot <= p /\ r < quot
      BY <1>1, <3>1, <3>3, <3>5, <3>8
    <3>10. p <= d * p
      BY <3>8
    <3> QED BY <3>8, <3>9, <3>10
  <2> QED BY <2>1, <2>2
<1>5. CASE ~(places - n > 0)
  <2>1. Decimals(r, places) = s
    BY <1>1, <1>2, <1>3, <1>5 DEF Decimals
  <2>2. places = 0 => Len(s) = 1
    <3>1. Power(10, 0) = 1
      BY TenIs, PowerSteps
    <3> QED BY <1>1, <3>1
  <2>3. places > 0 => Len(s) = places
    BY <1>2, <1>4, <1>5
  <2> QED BY <1>1, <2>1, <2>2, <2>3
<1>6. CASE places - n > 0
  <2>1. PICK m \in Nat : m = places - n
    BY <1>6
  <2>2. PICK z \in Seq({0}) : z = Repeat(0, m) /\ z \in Seq(Digit) /\ Len(z) = m
    BY RepeatZero
  <2>3. PICK j : j = z \o s
    OBVIOUS
  <2>4. j \in Seq(Digit) /\ Len(j) = m + n
    BY <1>2, <2>2, <2>3, Appended
  <2>5. Decimals(r, places) = j
    BY <1>1, <1>2, <1>6, <2>1, <2>2, <2>3 DEF Decimals
  <2>6. Number(j, 10) = r
    <3>1. PICK base \in Nat \ {0} : base = 10
      BY TenIs
    <3>2. Number(j, base) = Number(z, base) * Power(base, n) + Number(s, base)
      <4>1. z \in Seq(Int) /\ s \in Seq(Int)
        BY <2>2, DigitsBound
      <4> QED BY <1>2, <2>3, <4>1, NumberOfJoined
    <3>3. Number(z, base) = 0
      BY NumberOfZeros
    <3>4. PICK p \in Nat : p = Power(base, n)
      BY PowerSteps
    <3>5. Number(j, base) = 0 * p + r
      BY <1>1, <3>1, <3>2, <3>3, <3>4
    <3> QED BY <3>1, <3>4, <3>5
  <2> QED BY <1>2, <1>6, <2>1, <2>4, <2>5, <2>6
<1> QED BY <1>5, <1>6

(* A text made of digits, the dot and digits. *)
Joined(s, left, t) == s = left \o << Dot >> \o t
(* The dot of such a text, and what is before and after it. *)
LEMMA TextOf ==
    ASSUME NEW left \in Seq(Digit), NEW t \in Seq(Digit), Dot \notin Digit, NEW s, Joined(s, left, t)
    PROVE  /\ IsText(s) /\ Dots(s) = {Len(left) + 1}
           /\ SubSeq(s, 1, Len(left)) = left /\ SubSeq(s, Len(left) + 2, Len(s)) = t
<1> DEFINE C == {Dot} \cup Digit
<1>1. PICK m \in Nat, n \in Nat : m = Len(left) /\ n = Len(t)
  OBVIOUS
<1>2. left \in Seq(C) /\ t \in Seq(C) /\ << Dot >> \in Seq(C)
  <2>1. \A i \in 1..m : left[i] \in C
    BY <1>1
  <2>2. \A i \in 1..n : t[i] \in C
    BY <1>1
  <2> QED BY <1>1, <2>1, <2>2
<1> HIDE DEF C
<1>0. s = left \o << Dot >> \o t
  BY DEF Joined
<1>3. PICK h : h = left \o << Dot >>
  OBVIOUS
<1>4. h \in Seq(C) /\ Len(h) = m + 1 /\ h[m + 1] = Dot /\ \A i \in 1..m : h[i] = left[i]
  BY <1>1, <1>2, <1>3
<1>5. s = h \o t
  BY <1>0, <1>3
<1>6. /\ s \in Seq(C) /\ Len(s) = m + 1 + n
      /\ \A i \in 1..m : s[i] = left[i]
      /\ s[m + 1] = Dot
      /\ \A i \in (m + 2)..(m + 1 + n) : s[i] = t[i - (m + 1)]
  <2>1. /\ s \in Seq(C) /\ Len(s) = m + 1 + n
        /\ \A i \in 1..(m + 1) : s[i] = h[i]
        /\ \A i \in ((m + 1) + 1)..((m + 1) + n) : s[i] = t[i - (m + 1)]
    <3>1. PICK k \in Nat : k = m + 1 /\ Len(h) = k /\ Len(t) = n
      BY <1>1, <1>4
    <3>2. /\ h \o t \in Seq(C) /\ Len(h \o t) = Len(h) + Len(t)
          /\ \A i \in 1..Len(h) : (h \o t)[i] = h[i]
          /\ \A i \in (Len(h) + 1)..(Len(h) + Len(t)) : (h \o t)[i] = t[i - Len(h)]
      <4>1. h \in Seq(C)
        BY <1>4
      <4> QED BY <1>2, <4>1, Appended
    <3>3. /\ s \in Seq(C) /\ Len(s) = k + n
          /\ \A i \in 1..k : s[i] = h[i]
          /\ \A i \in (k + 1)..(k + n) : s[i] = t[i - k]
      BY <1>5, <3>1, <3>2
    <3> QED BY <3>1, <3>3
  <2> QED BY <1>4, <2>1
<1>7. IsText(s)
  BY <1>6 DEF IsText, C
<1>8. Dots(s) = {m + 1}
  <2>1. ASSUME NEW i \in 1..(m + 1 + n), i # m + 1 PROVE s[i] # Dot
    <3>1. CASE i <= m
      <4>1. i \in 1..m
        BY <3>1
      <4>2. left[i] \in Digit
        BY <1>1, <4>1
      <4> QED BY <1>6, <4>1, <4>2
    <3>2. CASE i > m
      <4>1. i \in (m + 2)..(m + 1 + n) /\ i - (m + 1) \in 1..n
        BY <2>1, <3>2
      <4>2. t[i - (m + 1)] \in Digit
        BY <1>1, <4>1
      <4> QED BY <1>6, <4>1, <4>2
    <3>3. i <= m \/ i > m
      OBVIOUS
    <3> QED BY <3>1, <3>2, <3>3
  <2> QED BY <1>6, <2>1 DEF Dots
<1>9. SubSeq(s, 1, m) = left
  <2>1. SubSeq(s, 1, m) \in Seq(C) /\ Len(SubSeq(s, 1, m)) = m
        /\ \A i \in 1..m : SubSeq(s, 1, m)[i] = s[i]
    <3>1. PICK l \in Nat : l = Len(s) /\ m <= l
      BY <1>6
    <3> QED BY <1>6, <3>1
  <2> QED BY <1>1, <1>2, <1>6, <2>1, Equal
<1>10. SubSeq(s, m + 2, m + 1 + n) = t
  <2>1. PICK u : u = SubSeq(s, m + 2, m + 1 + n)
    OBVIOUS
  <2>2. u \in Seq(C) /\ Len(u) = n /\ \A i \in 1..n : u[i] = s[m + 1 + i]
    BY <1>6, <2>1
  <2>3. ASSUME NEW i \in 1..n PROVE s[m + 1 + i] = t[i]
    <3>1. m + 1 + i \in (m + 2)..(m + 1 + n) /\ m + 1 + i - (m + 1) = i
      OBVIOUS
    <3> QED BY <1>6, <3>1
  <2>4. \A i \in 1..Len(u) : u[i] = t[i]
    BY <2>2, <2>3
  <2> QED BY <1>1, <1>2, <2>1, <2>2, <2>4, Equal
<1> QED BY <1>1, <1>6, <1>7, <1>8, <1>9, <1>10

(* parseToken reads the amount that formatToken wrote. *)
LEMMA TokenRead ==
    ASSUME NEW n \in Nat, NEW unit, IsUnit(unit)
    PROVE  parseToken(formatToken(n, unit), unit) = n
<1>1. PICK places \in Nat, u \in Nat \ {0} :
         places = decimals(unit) /\ u = unit /\ unit = Power(10, places)
  BY DEF IsUnit
<1>2. PICK quot \in Nat, r \in 0..(u - 1) : quot = n \div u /\ r = n % u
  OBVIOUS
<1>3. n = u * quot + r
  BY <1>2
<1>4. PICK left \in Seq(Digit) : left = Digits(quot, 10) /\ Len(left) >= 1 /\ Number(left, 10) = quot
  BY TenDigits
<1>5. PICK d \in Seq(Digit) : /\ d = Decimals(r, places) /\ Number(d, 10) = r
                              /\ places = 0 => Len(d) = 1
                              /\ places > 0 => Len(d) = places
  <2>1. r \in Nat /\ r < Power(10, places)
    BY <1>1
  <2> QED BY <2>1, DecimalsAre
<1>6. PICK t : t = Trimmed(d)
  OBVIOUS
<1>7. PICK k \in 1..Len(d), z \in Seq({0}) :
         t = SubSeq(d, 1, k) /\ k + Len(z) = Len(d) /\ d = t \o z
  <2>1. Len(d) >= 1
    <3>1. places = 0 \/ places > 0
      OBVIOUS
    <3>2. CASE places = 0
      BY <1>5, <3>2
    <3>3. CASE places > 0
      BY <1>5, <3>3
    <3> QED BY <3>1, <3>2, <3>3
  <2>2. Trims(t, d)
    BY <1>6, <2>1, TrimmedIs
  <2> QED BY <2>2 DEF Trims
<1>8. t \in Seq(Digit) /\ Len(t) = k /\ k \in Nat /\ k >= 1
  BY <1>7
<1>9. PICK s : s = formatToken(n, unit)
  OBVIOUS
<1>10. Joined(s, left, t)
  <2>1. unit # 0 /\ n \div unit = quot /\ n % unit = r
    BY <1>1, <1>2
  <2> QED BY <1>1, <1>4, <1>5, <1>6, <1>9, <2>1, FormatIs DEF Joined
<1>11. Dot \notin Digit
  BY AmountsAssumption DEF Digit
<1>12. /\ IsText(s) /\ Dots(s) = {Len(left) + 1}
       /\ SubSeq(s, 1, Len(left)) = left /\ SubSeq(s, Len(left) + 2, Len(s)) = t
  <2>1. t \in Seq(Digit)
    BY <1>8
  <2> QED BY <1>10, <1>11, <2>1, TextOf
<1>13. parseToken(s, unit) = Parsed(left, t, unit)
  <2>1. PICK dot \in Nat : dot = Len(left) + 1
    OBVIOUS
  <2>2. dot - 1 = Len(left) /\ dot + 1 = Len(left) + 2
    BY <2>1
  <2>3. parseToken(s, unit) = Parsed(SubSeq(s, 1, dot - 1), SubSeq(s, dot + 1, Len(s)), unit)
    BY <1>12, <2>1, OneDot
  <2> QED BY <1>12, <2>2, <2>3
<1>14. left # <<>>
  BY <1>4
<1>15. PICK m \in Nat : m = Len(z)
  OBVIOUS
<1>16. r = Number(t, 10) * Power(10, m)
  <2>1. Number(t \o z, 10) = Number(t, 10) * Power(10, m)
    BY <1>8, <1>15, NumberWithZeros
  <2> QED BY <1>5, <1>7, <2>1
<1>17. quot * u + r = n
  BY <1>3
<1>18. CASE places > 0
  <2>1. k + m = places
    BY <1>5, <1>7, <1>15, <1>18
  <2>2. k \in 1..decimals(unit) /\ decimals(unit) - k = m
    BY <1>1, <1>8, <2>1
  <2>3. Parsed(left, t, unit) = Number(left, 10) * unit + Number(t, 10) * Power(10, decimals(unit) - k)
    BY <1>8, <1>14, <2>2, ParsedExact
  <2>4. Parsed(left, t, unit) = quot * u + r
    BY <1>1, <1>4, <1>16, <2>2, <2>3
  <2> QED BY <1>9, <1>13, <1>17, <2>4
<1>19. CASE places = 0
  <2>1. k = 1 /\ m = 0
    BY <1>5, <1>7, <1>8, <1>15, <1>19
  <2>2. Power(10, 0) = 1
    BY TenIs, PowerSteps
  <2>3. Number(t, 10) = r
    <3>1. Number(t, 10) \in Nat
      BY <1>8, DigitsBound
    <3>2. r = Number(t, 10) * 1
      BY <1>16, <2>1, <2>2
    <3> QED BY <3>1, <3>2
  <2>4. k > decimals(unit) /\ Number(t, 10) <= unit
    BY <1>1, <1>19, <2>1, <2>3
  <2>5. Parsed(left, t, unit) = Number(left, 10) * unit + Number(t, 10)
    BY <1>8, <1>14, <2>4, ParsedOver
  <2>6. Parsed(left, t, unit) = quot * u + r
    BY <1>1, <1>4, <2>3, <2>5
  <2> QED BY <1>9, <1>13, <1>17, <2>6
<1> QED BY <1>18, <1>19

-----------------------------------------------------------------------------
(* Objects and messages. *)

(* Every class reads back what it wrote, and nothing from less. *)
LEMMA ClassSound == ASSUME NEW name \in DOMAIN Class PROVE Sound(Class[name])
<1>1. Sound(Class[name])
  BY MessageIsSound, HandshakeIsSound, RequestPuzzleSolutionIsSound, RespondPuzzleSolutionIsSound,
     RejectPuzzleSolutionIsSound, SendTransactionIsSound, TransactionAckIsSound,
     NewPeakWalletIsSound, RequestBlockHeaderIsSound, RespondBlockHeaderIsSound,
     RejectHeaderRequestIsSound, RequestRemovalsIsSound, RespondRemovalsIsSound,
     RejectRemovalsRequestIsSound, RequestAdditionsIsSound, RespondAdditionsIsSound,
     RejectAdditionsRequestIsSound, RequestHeaderBlocksIsSound, RejectHeaderBlocksIsSound,
     RespondHeaderBlocksIsSound, RegisterForPhUpdatesIsSound, RespondToPhUpdatesIsSound,
     RegisterForCoinUpdatesIsSound, RespondToCoinUpdatesIsSound, CoinStateUpdateIsSound,
     RequestChildrenIsSound, RespondChildrenIsSound, RequestSESInfoIsSound, RespondSESInfoIsSound,
     ChallengeBlockInfoIsSound DEF Class
<1> QED BY <1>1

(* What is left of the bytes s after damage. *)
Remains(damage, buf, s) ==
    \/ damage = "none" /\ buf = s
    \/ damage = "extended" /\ \E b \in Byte : buf = s \o << b >>
    \/ damage = "cut" /\ buf \in Seq(Byte) /\ \E more \in Seq(Byte) : more # <<>> /\ buf \o more = s

Read(d, buf) == IF d[buf] = Refused THEN Refused ELSE d[buf][1]

(* What is read of what is left of the bytes of a value. *)
LEMMA ReadsRemains ==
    ASSUME NEW d, NEW s, NEW v, Inverts(d, s, v), NEW damage, NEW buf, Remains(damage, buf, s)
    PROVE  Read(d, buf) = IF damage = "cut" THEN Refused ELSE v
<1>1. CASE damage = "cut" /\ buf \in Seq(Byte) /\ \E more \in Seq(Byte) : more # <<>> /\ buf \o more = s
  <2>1. d[buf] = Refused
    BY <1>1 DEF Inverts
  <2> QED BY <1>1, <2>1 DEF Read
<1>2. ASSUME NEW rest \in Seq(Byte), buf = s \o rest
      PROVE  Read(d, buf) = v
  <2>1. PICK r : r = << v, rest >>
    OBVIOUS
  <2>2. d[buf] = r /\ r # Refused /\ r[1] = v
    BY <1>2, <2>1, NotRefused DEF Inverts
  <2> QED BY <2>2 DEF Read
<1>3. CASE damage = "none" /\ buf = s
  <2>1. <<>> \in Seq(Byte) /\ buf = s \o <<>>
    BY <1>3, WithNone DEF Inverts
  <2>2. damage # "cut"
    BY <1>3
  <2> QED BY <1>2, <2>1, <2>2
<1>4. CASE damage = "extended" /\ \E b \in Byte : buf = s \o << b >>
  <2>1. PICK b \in Byte : buf = s \o << b >>
    BY <1>4
  <2>2. PICK rest \in Seq(Byte) : rest = << b >>
    <3>1. << b >> \in Seq(Byte)
      OBVIOUS
    <3> QED BY <3>1
  <2>3. damage # "cut"
    BY <1>4
  <2> QED BY <1>2, <2>1, <2>2, <2>3
<1> QED BY <1>1, <1>3, <1>4 DEF Remains

(* Cut bytes are some at the start of what they were. *)
LEMMA CutLeaves ==
    ASSUME NEW s \in Seq(Byte), NEW n \in 0..(Len(s) - 1)
    PROVE  Remains("cut", SubSeq(s, 1, n), s)
<1>0. Len(s) \in Nat /\ n \in 0..Len(s)
  OBVIOUS
<1>1. PICK buf \in Seq(Byte) : /\ buf = SubSeq(s, 1, n) /\ Len(buf) = n
                               /\ \A i \in 1..n : buf[i] = s[i]
  <2>1. /\ SubSeq(s, 1, n) \in Seq(Byte) /\ Len(SubSeq(s, 1, n)) = n
        /\ \A i \in 1..n : SubSeq(s, 1, n)[i] = s[i]
    BY <1>0, First
  <2> QED BY <2>1
<1>2. PICK more \in Seq(Byte) : Len(more) = Len(s) - n /\ \A i \in 1..(Len(s) - n) : more[i] = s[n + i]
  <2>1. PICK k : k = Len(s)
    OBVIOUS
  <2>2. /\ n + 1 \in 1..(Len(s) + 1) /\ k \in ((n + 1) - 1)..Len(s) /\ k - (n + 1) + 1 = Len(s) - n
        /\ \A i \in 1..(Len(s) - n) : (n + 1) + i - 1 = n + i
    BY <1>0, <2>1
  <2>3. /\ SubSeq(s, n + 1, k) \in Seq(Byte) /\ Len(SubSeq(s, n + 1, k)) = k - (n + 1) + 1
        /\ \A i \in 1..(k - (n + 1) + 1) : SubSeq(s, n + 1, k)[i] = s[(n + 1) + i - 1]
    BY <2>2, Part
  <2>4. PICK more : more = SubSeq(s, n + 1, k)
    OBVIOUS
  <2>5. more \in Seq(Byte) /\ Len(more) = Len(s) - n
    BY <2>2, <2>3, <2>4
  <2>6. ASSUME NEW i \in 1..(Len(s) - n) PROVE more[i] = s[n + i]
    BY <2>2, <2>3, <2>4
  <2> QED BY <2>5, <2>6
<1>3. /\ buf \o more \in Seq(Byte) /\ Len(buf \o more) = Len(s)
      /\ \A i \in 1..n : (buf \o more)[i] = buf[i]
      /\ \A i \in (n + 1)..Len(s) : (buf \o more)[i] = more[i - n]
  <2>1. /\ buf \o more \in Seq(Byte) /\ Len(buf \o more) = Len(buf) + Len(more)
        /\ \A i \in 1..Len(buf) : (buf \o more)[i] = buf[i]
        /\ \A i \in (Len(buf) + 1)..(Len(buf) + Len(more)) : (buf \o more)[i] = more[i - Len(buf)]
    BY Appended
  <2>2. Len(buf) = n /\ Len(buf) + Len(more) = Len(s)
    BY <1>0, <1>1, <1>2
  <2> QED BY <2>1, <2>2
<1>4. ASSUME NEW i \in 1..Len(s) PROVE (buf \o more)[i] = s[i]
  <2>1. CASE i <= n
    BY <1>1, <1>3, <2>1
  <2>2. CASE i > n
    <3>1. PICK k : k = i - n
      OBVIOUS
    <3>2. i \in (n + 1)..Len(s) /\ k \in 1..(Len(s) - n) /\ n + k = i
      BY <1>0, <2>2, <3>1
    <3>3. more[k] = s[n + k] /\ (buf \o more)[i] = more[i - n]
      BY <1>2, <1>3, <3>2
    <3> QED BY <3>1, <3>2, <3>3
  <2>3. i <= n \/ i > n
    BY <1>0
  <2> QED BY <2>1, <2>2, <2>3
<1>5. buf \o more = s
  BY <1>3, <1>4, Equal
<1>6. more # <<>>
  <2>1. Len(more) # 0
    <3>1. Len(s) - n # 0
      BY <1>0
    <3> QED BY <1>2, <3>1
  <2> QED BY <2>1
<1>7. PICK d : d = SubSeq(s, 1, n)
  OBVIOUS
<1>8. d \in Seq(Byte) /\ d \o more = s
  BY <1>1, <1>5, <1>7
<1> QED BY <1>6, <1>7, <1>8 DEF Remains

(* A message is as long as its header says. *)
LEMMA MessageLength ==
    ASSUME NEW v \in Message.values
    PROVE  realMessageLength(Message.serialize[v]) = Len(Message.serialize[v])
<1> DEFINE H == Uint(8) ++ Optional(Uint(16))
<1>1. Message = H ++ Blob
  BY DEF Message
<1> HIDE DEF H
<1>2. PICK x \in H.values, data \in Blob.values : v = << x, data >>
  <2>1. v \in H.values \X Blob.values
    BY <1>1, PropertiesFields
  <2> QED BY <2>1
<1>3. Message.serialize[v] = H.serialize[x] \o Blob.serialize[data]
  <2>1. WritesBoth(H, Blob, H ++ Blob)
    BY PropertiesFields
  <2> QED BY <1>1, <1>2, <2>1 DEF WritesBoth
<1>4. PICK type \in Uint(8).values, id \in Optional(Uint(16)).values : x = << type, id >>
  <2>1. x \in Uint(8).values \X Optional(Uint(16)).values
    BY PropertiesFields DEF H
  <2> QED BY <2>1
<1>5. H.serialize[x] = Uint(8).serialize[type] \o Optional(Uint(16)).serialize[id]
  <2>1. WritesBoth(Uint(8), Optional(Uint(16)), H)
    BY PropertiesFields DEF H
  <2> QED BY <1>4, <2>1 DEF WritesBoth
<1>6. PICK t \in Seq(Byte) : t = Uint(8).serialize[type] /\ Len(t) = 1
  <2>1. 1 = 8 \div 8
    BY SMT
  <2>2. type \in Seq(Byte) /\ Len(type) \in 1..1 /\ NoLeadingZero(type)
    <3>1. type \in {p \in Seq(Byte) : Len(p) \in 1..1 /\ NoLeadingZero(p)}
      BY <2>1, UintFields
    <3> QED BY <3>1
  <2>3. Uint(8).serialize[type] = padStart(type, 1)
    BY <2>1, UintFields
  <2> QED BY <2>2, <2>3, PadStart
<1>7. PICK m \in Seq(Byte), n \in Nat :
        /\ m = Blob.serialize[data] /\ Len(m) = n + 4 /\ readUInt32BE(m) = n
  <2>1. data \in Seq(Byte) /\ IsUInt32(Len(data)) /\ Len(data) \in Nat
    BY BlobFields
  <2>2. PICK n \in Nat : n = Len(data) /\ IsUInt32(n)
    BY <2>1
  <2>3. PICK h \in Seq(Byte) : h = writeUInt32BE(n) /\ Len(h) = 4
    BY <2>2, UInt32
  <2>4. PICK m \in Seq(Byte) : m = h \o data /\ readUInt32BE(m) = n
    BY <2>1, <2>2, <2>3, Length
  <2>5. Len(m) = n + 4
    <3>1. Len(h \o data) = Len(h) + Len(data)
      BY <2>1, Appended
    <3> QED BY <2>2, <2>3, <2>4, <3>1
  <2>6. Blob.serialize[data] = m
    <3>1. Blob.serialize[data] = writeUInt32BE(Len(data)) \o data
      BY BlobFields
    <3> QED BY <2>2, <2>3, <2>4, <3>1
  <2> QED BY <2>4, <2>5, <2>6
<1>8. PICK o \in Seq(Byte) : /\ o = Optional(Uint(16)).serialize[id]
                             /\ \/ Len(o) = 1 /\ o[1] = 0
                                \/ Len(o) = 3 /\ o[1] = 1
  <2>0. 0 \in Byte /\ 1 \in Byte
    BY DEF Byte
  <2>1. CASE id = Null
    <3>1. Optional(Uint(16)).serialize[id] = << 0 >>
      BY <2>1, OptionalFields
    <3>2. << 0 >> \in Seq(Byte) /\ Len(<< 0 >>) = 1 /\ << 0 >>[1] = 0
      BY <2>0
    <3> QED BY <3>1, <3>2
  <2>2. CASE id # Null
    <3>1. 2 = 16 \div 8
      BY SMT
    <3>2. id \in Uint(16).values /\ IsBuilt(Uint(16))
      BY <2>2, OptionalFields
    <3>3. id \in Seq(Byte) /\ Len(id) \in 1..2 /\ NoLeadingZero(id)
      <4>1. id \in {p \in Seq(Byte) : Len(p) \in 1..2 /\ NoLeadingZero(p)}
        BY <3>1, <3>2, UintFields
      <4> QED BY <4>1
    <3>4. PICK p \in Seq(Byte) : p = Uint(16).serialize[id] /\ Len(p) = 2
      <4>1. Uint(16).serialize[id] = padStart(id, 2)
        BY <3>1, <3>2, UintFields
      <4> QED BY <3>3, <4>1, PadStart
    <3>5. Optional(Uint(16)).serialize[id] = << 1 >> \o p
      BY <2>2, <3>2, <3>4, OptionalFields
    <3>6. PICK o \in Seq(Byte) : o = << 1 >> \o p /\ o[1] = 1
      BY <2>0, FirstByte
    <3>7. Len(o) = 3
      <4>1. PICK f \in Seq(Byte) : f = << 1 >> /\ Len(f) = 1
        <5>1. << 1 >> \in Seq(Byte) /\ Len(<< 1 >>) = 1
          BY <2>0
        <5> QED BY <5>1
      <4>2. Len(f \o p) = Len(f) + Len(p)
        BY Appended
      <4>3. o = f \o p
        BY <3>6, <4>1
      <4>4. Len(o) = 1 + 2
        BY <3>4, <4>1, <4>2, <4>3
      <4> QED BY <4>4
    <3> QED BY <3>5, <3>6, <3>7
  <2> QED BY <2>1, <2>2
<1>9. PICK buf : buf = Message.serialize[v]
  OBVIOUS
<1>10. buf = (t \o o) \o m
  BY <1>3, <1>5, <1>6, <1>7, <1>8, <1>9
<1>11. PICK h : h = t \o o
  OBVIOUS
<1>15. h \in Seq(Byte) /\ Len(h) = 1 + Len(o) /\ h[2] = o[1]
  <2>1. /\ t \o o \in Seq(Byte) /\ Len(t \o o) = Len(t) + Len(o)
        /\ \A i \in (Len(t) + 1)..(Len(t) + Len(o)) : (t \o o)[i] = o[i - Len(t)]
    BY Appended
  <2>2. 2 \in (Len(t) + 1)..(Len(t) + Len(o)) /\ 2 - Len(t) = 1
    <3>1. Len(o) = 1 \/ Len(o) = 3
      BY <1>8
    <3>2. Len(t) = 1
      BY <1>6
    <3>3. PICK n1 \in Nat : n1 = Len(o)
      OBVIOUS
    <3>4. n1 = 1 \/ n1 = 3
      BY <3>1, <3>3
    <3>5. 2 \in (1 + 1)..(1 + n1) /\ 2 - 1 = 1
      BY <3>4
    <3> QED BY <3>2, <3>3, <3>5
  <2> QED BY <1>6, <1>11, <2>1, <2>2
<1>12. PICK k \in Nat : /\ k = Len(h)
                        /\ \/ k = 2 /\ h[2] = 0
                           \/ k = 4 /\ h[2] = 1
  <2>1. CASE Len(o) = 1 /\ o[1] = 0
    BY <1>15, <2>1
  <2>2. CASE Len(o) = 3 /\ o[1] = 1
    BY <1>15, <2>2
  <2> QED BY <1>8, <2>1, <2>2
<1>13. /\ buf = h \o m /\ Len(buf) = k + n + 4 /\ buf[2] = h[2] /\ slice(buf, k) = m
  <2>1. buf = h \o m
    BY <1>10, <1>11
  <2>0. PICK p \in Seq(Byte) : p = h
    BY <1>15
  <2>2. slice(p \o m, Len(p)) = m
    BY Divided
  <2>3. Len(p \o m) = Len(p) + Len(m) /\ \A i \in 1..Len(p) : (p \o m)[i] = p[i]
    BY Appended
  <2>4. 2 \in 1..Len(p) /\ Len(p) = k
    BY <1>12, <2>0
  <2>5. Len(buf) = k + n + 4
    BY <1>7, <2>0, <2>1, <2>3, <2>4
  <2>6. buf[2] = h[2]
    BY <2>0, <2>1, <2>3, <2>4
  <2> QED BY <2>0, <2>1, <2>2, <2>4, <2>5, <2>6
<1>14. realMessageLength(buf) = k + n + 4
  <2>1. CASE k = 2 /\ h[2] = 0
    BY <1>7, <1>13, <2>1 DEF realMessageLength
  <2>2. CASE k = 4 /\ h[2] = 1
    BY <1>7, <1>13, <2>2 DEF realMessageLength
  <2> QED BY <1>12, <2>1, <2>2
<1> QED BY <1>9, <1>13, <1>14
-----------------------------------------------------------------------------
(* The phrases of the entropies that are tried. *)

(* An entropy that a phrase is made of has 4 to 8 times 32 bits. *)
LEMMA EntropySized ==
    ASSUME NEW e \in Entropies, bytesToMnemonic(e) # Failure
    PROVE  \E k : Sized(e, k)
<1>1. PICK n \in Nat : n = Len(e) /\ n % 8 = 0
  BY EntropiesAssumption
<1>2. n \div 8 \in {16, 20, 24, 28, 32}
  BY <1>1 DEF bytesToMnemonic
<1>3. n = 128 \/ n = 160 \/ n = 192 \/ n = 224 \/ n = 256
  <2>1. PICK m \in Nat : m = n \div 8 /\ n = 8 * m
    BY <1>1
  <2>2. m = 16 \/ m = 20 \/ m = 24 \/ m = 28 \/ m = 32
    BY <1>2, <2>1
  <2> QED BY <2>1, <2>2
<1>4. \E k \in 4..8 : n = 32 * k
  <2>1. /\ n = 128 => n = 32 * 4
        /\ n = 160 => n = 32 * 5
        /\ n = 192 => n = 32 * 6
        /\ n = 224 => n = 32 * 7
        /\ n = 256 => n = 32 * 8
    OBVIOUS
  <2>2. 4 \in 4..8 /\ 5 \in 4..8 /\ 6 \in 4..8 /\ 7 \in 4..8 /\ 8 \in 4..8
    OBVIOUS
  <2> QED BY <1>3, <2>1, <2>2
<1>5. e \in Seq(Bit)
  BY EntropiesAssumption DEF Bit
<1> QED BY <1>1, <1>4, <1>5 DEF Sized

(* Its phrase is read as it, and consists of listed words. *)
LEMMA EntropyRead ==
    ASSUME NEW e \in Entropies, bytesToMnemonic(e) # Failure
    PROVE  /\ bytesFromMnemonic(bytesToMnemonic(e)) = e
           /\ bytesToMnemonic(e) \in Seq(BIP39_WORD_LIST)
<1>1. PICK k : Sized(e, k)
  BY EntropySized
<1>2. StdHash(e) \in Seq(Bit) /\ Len(StdHash(e)) >= 8
  BY EntropiesAssumption DEF Bit
<1> QED BY <1>1, <1>2, PhraseRead

(* Words that may stand in a phrase that was copied by hand. *)
Copied == BIP39_WORD_LIST \cup Words

(* A phrase with a mistake is still some words. *)
LEMMA WordMistaken ==
    ASSUME NEW m \in Seq(BIP39_WORD_LIST), NEW i \in 1..Len(m)
    PROVE  /\ \A w \in Words : [m EXCEPT ![i] = w] \in Seq(Copied)
           /\ RemoveAt(m, i) \in Seq(Copied)
<1>1. PICK n \in Nat : n = Len(m) /\ i \in 1..n
  OBVIOUS
<1>2. m \in [1..n -> BIP39_WORD_LIST]
  BY <1>1
<1>3. BIP39_WORD_LIST \subseteq Copied
  BY DEF Copied
<1>4. ASSUME NEW w \in Words PROVE [m EXCEPT ![i] = w] \in Seq(Copied)
  <2>1. w \in Copied
    BY DEF Copied
  <2>2. PICK u : u = [m EXCEPT ![i] = w]
    OBVIOUS
  <2>3. u \in [1..n -> Copied]
    BY <1>2, <1>3, <2>1, <2>2
  <2>4. u \in Seq(Copied)
    BY <1>1, <2>3
  <2> QED BY <2>2, <2>4
<1>5. RemoveAt(m, i) \in Seq(Copied)
  <2>1. PICK x, y : x = SubSeq(m, 1, i - 1) /\ y = SubSeq(m, i + 1, n)
    OBVIOUS
  <2>2. x \in Seq(BIP39_WORD_LIST) /\ y \in Seq(BIP39_WORD_LIST)
    BY <1>1, <2>1
  <2>3. x \o y \in Seq(BIP39_WORD_LIST)
    BY <2>2, Appended
  <2>4. RemoveAt(m, i) = x \o y
    BY <1>1, <2>1 DEF RemoveAt
  <2> QED BY <1>3, <2>3, <2>4, Widened
<1> QED BY <1>4, <1>5
-----------------------------------------------------------------------------
(* The invariant: what is encoded is a value of its codec, the encoding is  *)
(* what is left of what the codec made of it, and what was decoded is what  *)
(* should be.                                                               *)

Suits(g) ==
    /\ g.codec = "object" => g.by \in DOMAIN Class /\ g.value \in Class[g.by].values
    /\ g.codec = "ack" =>
          /\ g.by = "TransactionAck"
          /\ \E ack \in TransactionAck.values, error \in String.values : g.value = << ack[1], error >>
    /\ g.codec = "amount" => g.value \in AmountsTried
    /\ g.codec = "token" => g.value \in Tokens /\ g.by \in Units
    /\ g.codec = "text" => g.value \in Texts /\ g.by \in Units
    /\ g.codec = "phrase" => g.value \in Entropies
    /\ g.codec = "curried" => g.value \in Programs /\ g.by \in Arguments

IsLeft(g, s) ==
    /\ g.codec = "object" => Remains(g.damage, s, Class[g.by].serialize[g.value])
    /\ g.codec = "ack" => s = NodesTransactionAck.serialize[g.value]
    /\ g.codec = "amount" => s = amountToBytes(g.value)
    /\ g.codec = "token" => s = formatToken(g.value, g.by)
    /\ g.codec = "text" => s = g.value
    /\ g.codec = "phrase" =>
           IF g.damage = "none" THEN s = bytesToMnemonic(g.value) ELSE s \in Seq(Copied)
    /\ g.codec = "curried" => s = curry(g.value, g.by)

ShouldRead(g, s, result) ==
    /\ g.codec = "object" => result = IF g.damage = "cut" THEN Refused ELSE g.value
    /\ g.codec = "ack" => result = << g.value[1], Null >>
    /\ g.codec = "token" => result = g.value
    /\ g.codec = "text" => ReadInUnits(g.value, g.by, result)
    /\ g.codec = "phrase" =>
           IF g.damage = "none" THEN result = g.value
           ELSE result = Failure \/ bytesToMnemonic(result) = s
    /\ g.codec = "curried" =>
           result = IF IsPair(g.value) /\ g.by # <<>> THEN << g.value, g.by >> ELSE NoMatch

IsGiven(g) == g = [codec |-> g.codec, value |-> g.value, by |-> g.by, damage |-> g.damage]

Holds(g, s, result) ==
    /\ IsGiven(g) /\ Suits(g) /\ IsLeft(g, s)
    /\ result # Null => ShouldRead(g, s, result)

IInv ==
    /\ given = Nothing => decoded = Null
    /\ given # Nothing => Holds(given, encoded, decoded)

(* It holds at the start. *)
LEMMA InitKeeps == Init => IInv
BY DEF Init, IInv

(* A value of its codec is encoded. *)
LEMMA Encoded ==
    ASSUME IInv, NEW codec, NEW value, NEW by, NEW result, Encode(codec, value, by, result),
           NEW g, g = [codec |-> codec, value |-> value, by |-> by, damage |-> "none"],
           Suits(g), IsLeft(g, result)
    PROVE  IInv'
<1>1. given' = g /\ encoded' = result /\ decoded' = Null
  BY DEF Encode, IInv
<1>2. IsGiven(g)
  BY DEF IsGiven
<1>3. Holds(g, result, Null)
  BY <1>2 DEF Holds
<1> QED BY <1>1, <1>3 DEF IInv, Nothing

(* What is encoded is damaged. *)
LEMMA Spoiled ==
    ASSUME IInv, given # Nothing, NEW damage, NEW result, Spoil(damage, result),
           NEW g, g = [given EXCEPT !.damage = damage], IsLeft(g, result)
    PROVE  IInv'
<1>1. given' = g /\ encoded' = result /\ decoded' = Null
  BY DEF Spoil, IInv
<1>2. Suits(given) /\ IsGiven(given)
  BY DEF IInv, Holds
<1>3. g.codec = given.codec /\ g.value = given.value /\ g.by = given.by /\ IsGiven(g)
  BY <1>2 DEF IsGiven
<1>4. Suits(g)
  BY <1>2, <1>3 DEF Suits
<1>5. Holds(g, result, Null)
  BY <1>3, <1>4 DEF Holds
<1>6. g # Nothing
  BY <1>3 DEF IsGiven, Nothing
<1> QED BY <1>1, <1>5, <1>6 DEF IInv

(* The fields of what is damaged. *)
LEMMA SpoiledFields ==
    ASSUME IInv, given # Nothing, NEW damage, NEW g, g = [given EXCEPT !.damage = damage]
    PROVE  /\ g.codec = given.codec /\ g.value = given.value /\ g.by = given.by
           /\ g.damage = damage
<1>1. IsGiven(given)
  BY DEF IInv, Holds
<1> QED BY <1>1 DEF IsGiven

(* The bytes of an object that was not damaged. *)
LEMMA ObjectBytes ==
    ASSUME IInv, given.codec = "object", ~Damaged
    PROVE  /\ given # Nothing /\ encoded = Class[given.by].serialize[given.value]
           /\ encoded \in Seq(Byte)
<1>1. given # Nothing /\ given.damage = "none"
  BY DEF Damaged, Nothing
<1>2. Suits(given) /\ IsLeft(given, encoded)
  BY <1>1 DEF IInv, Holds
<1>3. /\ encoded = Class[given.by].serialize[given.value]
      /\ given.by \in DOMAIN Class /\ given.value \in Class[given.by].values
  BY <1>1, <1>2 DEF Suits, IsLeft, Remains
<1>4. Sound(Class[given.by])
  BY <1>3, ClassSound
<1>5. Inverts(Class[given.by].deserialize, Class[given.by].serialize[given.value], given.value)
  BY <1>3, <1>4 DEF Sound
<1> QED BY <1>1, <1>3, <1>5 DEF Inverts

(* Bytes that are damaged are still some of the object's. *)
LEMMA ObjectSpoiled ==
    ASSUME IInv, given.codec = "object", NEW damage, NEW result, Spoil(damage, result),
           Remains(damage, result, encoded)
    PROVE  IInv'
<1>1. PICK g : g = [given EXCEPT !.damage = damage]
  OBVIOUS
<1>2. given # Nothing /\ encoded = Class[given.by].serialize[given.value]
  BY ObjectBytes DEF Spoil
<1>3. /\ g.codec = given.codec /\ g.value = given.value /\ g.by = given.by
      /\ g.damage = damage
  BY <1>1, <1>2, SpoiledFields
<1>4. Remains(g.damage, result, Class[g.by].serialize[g.value])
  BY <1>2, <1>3
<1>5. IsLeft(g, result)
  BY <1>3, <1>4 DEF IsLeft
<1> QED BY <1>1, <1>2, <1>5, Spoiled

(* What each codec makes of what it wrote, or of what is left of it. *)
LEMMA ObjectDecoded ==
    ASSUME NEW g, g.codec = "object", NEW s, Suits(g), IsLeft(g, s)
    PROVE  ShouldRead(g, s, Read(Class[g.by].deserialize, s))
<1>1. g.by \in DOMAIN Class /\ g.value \in Class[g.by].values
  BY DEF Suits
<1>2. PICK d, t, v : /\ d = Class[g.by].deserialize /\ v = g.value
                     /\ t = Class[g.by].serialize[g.value]
  OBVIOUS
<1>3. Inverts(d, t, v)
  BY <1>1, <1>2, ClassSound DEF Sound
<1>4. Remains(g.damage, s, t)
  BY <1>2 DEF IsLeft
<1>5. Read(d, s) = IF g.damage = "cut" THEN Refused ELSE v
  BY <1>3, <1>4, ReadsRemains
<1> QED BY <1>2, <1>5 DEF ShouldRead

(* The error of an acknowledgement, as a node writes it, starts with a flag. *)
LEMMA ErrorWritten ==
    ASSUME NEW error \in String.values
    PROVE  /\ error \in Optional(String).values
           /\ Optional(String).serialize[error] \in Seq(Byte)
           /\ StartsWithFlag(Optional(String).serialize[error])
<1>1. IsBuilt(String)
  BY FieldsSound DEF Sound
<1>2. error \in Optional(String).values
  BY <1>1 DEF Optional
<1>3. Optional(String).serialize[error] =
          IF error = Null THEN << 0 >> ELSE << 1 >> \o String.serialize[error]
  BY <1>1, <1>2, OptionalFields
<1>4. 0 \in Byte /\ 1 \in Byte
  BY DEF Byte
<1>5. CASE error = Null
  <2>1. << 0 >> \in Seq(Byte) /\ StartsWithFlag(<< 0 >>)
    BY <1>4 DEF StartsWithFlag
  <2> QED BY <1>2, <1>3, <1>5, <2>1
<1>6. CASE error # Null
  <2>1. PICK t \in Seq(Byte) : t = String.serialize[error]
    BY FieldsSound DEF Sound, Inverts
  <2>2. PICK s \in Seq(Byte) : s = << 1 >> \o t /\ s # <<>> /\ s[1] = 1
    BY <1>4, FirstByte
  <2>3. StartsWithFlag(s)
    BY <2>2 DEF StartsWithFlag
  <2> QED BY <1>2, <1>3, <1>6, <2>1, <2>2, <2>3
<1> QED BY <1>5, <1>6

(* An acknowledgement with an error: its field is not built and reads null. *)
LEMMA AckDecoded ==
    ASSUME NEW g, g.codec = "ack", NEW s, Suits(g), IsLeft(g, s)
    PROVE  ShouldRead(g, s, Read(Class[g.by].deserialize, s))
<1> DEFINE Kept == Bytes(32) ++ Uint(8)
<1>1. PICK ack \in TransactionAck.values, error \in String.values : g.value = << ack[1], error >>
  BY DEF Suits
<1>2. Class[g.by] = TransactionAck
  BY DEF Suits, Class
<1>3. PICK front \in Kept.values : front = ack[1]
  <2>1. TransactionAck.values = Kept.values \X Optional(Unbuilt).values
    BY PropertiesFields DEF TransactionAck
  <2> QED BY <2>1
<1>4. PICK h : h = Kept.serialize[front]
  OBVIOUS
<1>5. Inverts(Kept.deserialize, h, front)
  BY <1>4, FieldsSound, PropertiesSound DEF Sound
<1>6. PICK rest \in Seq(Byte) : rest = Optional(String).serialize[error] /\ StartsWithFlag(rest)
  BY ErrorWritten
<1>7. s = h \o rest
  <2>1. WritesBoth(Kept, Optional(String), NodesTransactionAck)
    BY PropertiesFields DEF NodesTransactionAck
  <2>2. NodesTransactionAck.serialize[<< front, error >>] = h \o rest
    BY <1>4, <1>6, <2>1, ErrorWritten DEF WritesBoth
  <2> QED BY <1>1, <1>3, <2>2 DEF IsLeft
<1>9. s \in Seq(Byte) /\ Kept.deserialize[s] = << front, rest >>
  BY <1>5, <1>6, <1>7, Appended DEF Inverts
<1>10. PICK r : r = << front, rest >> /\ r # Refused /\ r[1] = front /\ r[2] = rest
  <2>1. PICK r : r = << front, rest >>
    OBVIOUS
  <2> QED BY <2>1, NotRefused
<1>11. PICK m : m = Optional(Unbuilt).deserialize[rest] /\ m # Refused /\ m[1] = Null
  <2>1. PICK m : m = << Null, slice(rest, 1) >>
    OBVIOUS
  <2>2. m # Refused /\ m[1] = Null
    BY <2>1, NotRefused
  <2>3. StartsWithFlag(rest) /\ ~IsBuilt(Unbuilt)
    BY <1>6 DEF IsBuilt, Unbuilt
  <2>4. Optional(Unbuilt).deserialize[rest] = m
    BY <2>1, <2>3, OptionalFields
  <2> QED BY <2>2, <2>4
<1>12. TransactionAck.deserialize[s] = << << front, Null >>, m[2] >>
  <2>1. ReadsBoth(Kept.deserialize, Optional(Unbuilt).deserialize, TransactionAck.deserialize)
    BY PropertiesFields DEF TransactionAck
  <2>2. Kept.deserialize[s] = r /\ Optional(Unbuilt).deserialize[r[2]] = m
    BY <1>9, <1>10, <1>11
  <2>3. TransactionAck.deserialize[s] = << << r[1], m[1] >>, m[2] >>
    BY <1>9, <1>10, <1>11, <2>1, <2>2 DEF ReadsBoth
  <2> QED BY <1>10, <1>11, <2>3
<1>13. Read(TransactionAck.deserialize, s) = << front, Null >>
  <2>1. PICK v, left : v = << front, Null >> /\ left = m[2]
    OBVIOUS
  <2>2. PICK read : read = << v, left >>
    OBVIOUS
  <2>3. read # Refused /\ read[1] = v
    BY <2>2, NotRefused
  <2>4. TransactionAck.deserialize[s] = read
    BY <1>12, <2>1, <2>2
  <2> QED BY <2>1, <2>3, <2>4 DEF Read
<1>14. g.value[1] = front
  BY <1>1, <1>3
<1> QED BY <1>2, <1>13, <1>14 DEF ShouldRead

(* A unit of those that are tried is a power of ten. *)
LEMMA UnitsAre == ASSUME NEW unit \in Units PROVE IsUnit(unit)
<1>1. unit \in Nat \ {0} /\ unit = Power(10, decimals(unit))
  BY AmountsAssumption
<1>2. PICK s \in Seq(Digit) : s = Digits(unit, 10) /\ Len(s) >= 1
  BY <1>1, TenDigits
<1>3. decimals(unit) \in Nat
  BY <1>2 DEF decimals
<1> QED BY <1>1, <1>3 DEF IsUnit

(* An amount, formatted or typed. *)
LEMMA TokenDecoded ==
    ASSUME NEW g, g.codec \in {"token", "text"}, NEW s, Suits(g), IsLeft(g, s)
    PROVE  ShouldRead(g, s, parseToken(s, g.by))
<1>1. CASE g.codec = "token"
  <2>1. g.value \in Nat /\ IsUnit(g.by) /\ s = formatToken(g.value, g.by)
    BY <1>1, AmountsAssumption, UnitsAre DEF Suits, IsLeft
  <2>2. parseToken(s, g.by) = g.value
    BY <2>1, TokenRead
  <2> QED BY <1>1, <2>2 DEF ShouldRead
<1>2. CASE g.codec = "text"
  <2>1. g.value \in Texts /\ IsUnit(g.by) /\ s = g.value
    BY <1>2, UnitsAre DEF Suits, IsLeft
  <2>2. s \in Seq(ToSet(s))
    BY <2>1, AmountsAssumption
  <2>3. ReadInUnits(s, g.by, parseToken(s, g.by))
    BY <2>1, <2>2, TextRead
  <2> QED BY <1>2, <2>1, <2>3 DEF ShouldRead
<1> QED BY <1>1, <1>2

(* A phrase, or one that was copied wrongly. *)
LEMMA PhraseDecoded ==
    ASSUME NEW g, g.codec = "phrase", NEW s, s # Failure, Suits(g), IsLeft(g, s)
    PROVE  ShouldRead(g, s, bytesFromMnemonic(s))
<1>1. CASE g.damage = "none"
  <2>1. g.value \in Entropies /\ s = bytesToMnemonic(g.value)
    BY <1>1 DEF Suits, IsLeft
  <2>2. bytesFromMnemonic(s) = g.value
    BY <2>1, EntropyRead
  <2> QED BY <1>1, <2>2 DEF ShouldRead
<1>2. CASE g.damage # "none"
  <2>1. s \in Seq(Copied)
    BY <1>2 DEF IsLeft
  <2>2. bytesFromMnemonic(s) # Failure => bytesToMnemonic(bytesFromMnemonic(s)) = s
    BY <2>1, PhraseMade
  <2> QED BY <1>2, <2>2 DEF ShouldRead
<1> QED BY <1>1, <1>2

(* A curried program. *)
LEMMA CurriedDecoded ==
    ASSUME NEW g, g.codec = "curried", NEW s, Suits(g), IsLeft(g, s)
    PROVE  ShouldRead(g, s, uncurry(s))
<1>1. g.value \in Programs /\ g.by \in Arguments /\ s = curry(g.value, g.by)
  BY DEF Suits, IsLeft
<1>2. PICK p, args : p = g.value /\ args = g.by
  OBVIOUS
<1>3. /\ p # NoMatch /\ args \in Seq(ToSet(args)) /\ Len(args) <= MaxRounds
      /\ MaxRounds \in Nat /\ MaxRounds >= 3
  BY <1>1, <1>2, ProgramsAssumption
<1>4. uncurry(curry(p, args)) = IF IsPair(p) /\ args # <<>> THEN << p, args >> ELSE NoMatch
  BY <1>3, Uncurried
<1> QED BY <1>1, <1>2, <1>4 DEF ShouldRead

(* Every step keeps it. *)
LEMMA NextKeeps == IInv /\ [Next]_vars => IInv'
<1> SUFFICES ASSUME IInv, [Next]_vars PROVE IInv'
  OBVIOUS
<1> DEFINE Made(codec, value, by) ==
               [codec |-> codec, value |-> value, by |-> by, damage |-> "none"]
<1>0. ASSUME NEW codec, NEW value, NEW by
      PROVE  /\ Made(codec, value, by).codec = codec /\ Made(codec, value, by).value = value
             /\ Made(codec, value, by).by = by /\ Made(codec, value, by).damage = "none"
  OBVIOUS
<1>1. CASE WriteObject
  <2>1. PICK name \in DOMAIN Class : \E object \in Objects[name] :
            Encode("object", object, name, Class[name].serialize[object])
    BY <1>1 DEF WriteObject
  <2>2. PICK object \in Objects[name] :
            Encode("object", object, name, Class[name].serialize[object])
    BY <2>1
  <2>3. object \in Class[name].values
    BY ObjectsAssumption
  <2>4. PICK g : g = Made("object", object, name)
    OBVIOUS
  <2>5. Suits(g) /\ IsLeft(g, Class[name].serialize[object])
    BY <1>0, <2>3, <2>4 DEF Suits, IsLeft, Remains
  <2> QED BY <2>2, <2>4, <2>5, Encoded
<1>2. CASE WriteMessage
  <2>1. PICK name \in DOMAIN Class, type \in Types : \E object \in Objects[name] :
            /\ Envelope(type, Class[name], object) \in Message.values
            /\ Encode("object", Envelope(type, Class[name], object), "Message",
                      makeMsg(type, Class[name], object))
    BY <1>2 DEF WriteMessage
  <2>2. PICK object : /\ Envelope(type, Class[name], object) \in Message.values
                      /\ Encode("object", Envelope(type, Class[name], object), "Message",
                                makeMsg(type, Class[name], object))
    BY <2>1
  <2>3. PICK e : e = Envelope(type, Class[name], object)
    OBVIOUS
  <2>4. "Message" \in DOMAIN Class /\ Class["Message"] = Message
    BY DEF Class
  <2>5. makeMsg(type, Class[name], object) = Class["Message"].serialize[e]
    BY <2>3, <2>4 DEF makeMsg
  <2>6. e \in Class["Message"].values
    BY <2>2, <2>3, <2>4
  <2>7. PICK g : g = Made("object", e, "Message")
    OBVIOUS
  <2>8. Suits(g) /\ IsLeft(g, Class["Message"].serialize[e])
    BY <1>0, <2>4, <2>6, <2>7 DEF Suits, IsLeft, Remains
  <2>9. Encode("object", e, "Message", Class["Message"].serialize[e])
    BY <2>2, <2>3, <2>5
  <2> QED BY <2>7, <2>8, <2>9, Encoded
<1>3. CASE WriteAmount
  <2>1. PICK n \in AmountsTried : Encode("amount", n, Null, amountToBytes(n))
    BY <1>3 DEF WriteAmount
  <2>2. PICK g : g = Made("amount", n, Null)
    OBVIOUS
  <2>3. Suits(g) /\ IsLeft(g, amountToBytes(n))
    BY <1>0, <2>2 DEF Suits, IsLeft
  <2> QED BY <2>1, <2>2, <2>3, Encoded
<1>4. CASE FormatToken
  <2>1. PICK n \in Tokens, unit \in Units : Encode("token", n, unit, formatToken(n, unit))
    BY <1>4 DEF FormatToken
  <2>2. PICK g : g = Made("token", n, unit)
    OBVIOUS
  <2>3. Suits(g) /\ IsLeft(g, formatToken(n, unit))
    BY <1>0, <2>2 DEF Suits, IsLeft
  <2> QED BY <2>1, <2>2, <2>3, Encoded
<1>5. CASE TypeToken
  <2>1. PICK text \in Texts, unit \in Units : Encode("text", text, unit, text)
    BY <1>5 DEF TypeToken
  <2>2. PICK g : g = Made("text", text, unit)
    OBVIOUS
  <2>3. Suits(g) /\ IsLeft(g, text)
    BY <1>0, <2>2 DEF Suits, IsLeft
  <2> QED BY <2>1, <2>2, <2>3, Encoded
<1>6. CASE WritePhrase
  <2>1. PICK e \in Entropies : Encode("phrase", e, Null, bytesToMnemonic(e))
    BY <1>6 DEF WritePhrase
  <2>2. PICK g : g = Made("phrase", e, Null)
    OBVIOUS
  <2>3. Suits(g) /\ IsLeft(g, bytesToMnemonic(e))
    BY <1>0, <2>2 DEF Suits, IsLeft
  <2> QED BY <2>1, <2>2, <2>3, Encoded
<1>7. CASE Curry
  <2>1. PICK p \in Programs, args \in Arguments : Encode("curried", p, args, curry(p, args))
    BY <1>7 DEF Curry
  <2>2. PICK g : g = Made("curried", p, args)
    OBVIOUS
  <2>3. Suits(g) /\ IsLeft(g, curry(p, args))
    BY <1>0, <2>2 DEF Suits, IsLeft
  <2> QED BY <2>1, <2>2, <2>3, Encoded
<1>8. CASE Cut
  <2>1. given.codec = "object"
    BY <1>8 DEF Cut
  <2>2. PICK n \in 0..(Len(encoded) - 1) : Spoil("cut", SubSeq(encoded, 1, n))
    BY <1>8 DEF Cut
  <2>3. encoded \in Seq(Byte)
    BY <2>1, <2>2, ObjectBytes DEF Spoil
  <2>4. Remains("cut", SubSeq(encoded, 1, n), encoded)
    BY <2>3, CutLeaves
  <2> QED BY <2>1, <2>2, <2>4, ObjectSpoiled
<1>9. CASE Extend
  <2>1. given.codec = "object"
    BY <1>9 DEF Extend
  <2>2. PICK b \in {0, 255} : Spoil("extended", Append(encoded, b))
    BY <1>9 DEF Extend
  <2>3. encoded \in Seq(Byte)
    BY <2>1, <2>2, ObjectBytes DEF Spoil
  <2>4. b \in Byte
    BY DEF Byte
  <2>5. Append(encoded, b) = encoded \o << b >>
    BY <2>3, <2>4
  <2>6. Remains("extended", Append(encoded, b), encoded)
    BY <2>4, <2>5 DEF Remains
  <2> QED BY <2>1, <2>2, <2>6, ObjectSpoiled
<1>10. CASE MistakeWord
  <2>1. given.codec = "phrase" /\ given # Nothing /\ encoded # Failure
    BY <1>10 DEF MistakeWord, Nothing
  <2>2. PICK i \in 1..Len(encoded) :
          \/ \E w \in Words \ {encoded[i]} : Spoil("copied", [encoded EXCEPT ![i] = w])
          \/ Spoil("copied", RemoveAt(encoded, i))
    BY <1>10 DEF MistakeWord
  <2>3. PICK result : /\ Spoil("copied", result)
                      /\ \/ \E w \in Words : result = [encoded EXCEPT ![i] = w]
                         \/ result = RemoveAt(encoded, i)
    BY <2>2
  <2>4. given.damage = "none" /\ Suits(given) /\ IsLeft(given, encoded)
    BY <2>1, <2>3 DEF Spoil, Damaged, IInv, Holds
  <2>5. given.value \in Entropies /\ encoded = bytesToMnemonic(given.value)
    BY <2>1, <2>4 DEF Suits, IsLeft
  <2>6. encoded \in Seq(BIP39_WORD_LIST)
    BY <2>1, <2>5, EntropyRead
  <2>7. result \in Seq(Copied)
    BY <2>3, <2>6, WordMistaken
  <2>8. PICK g : g = [given EXCEPT !.damage = "copied"]
    OBVIOUS
  <2>9. g.codec = "phrase" /\ g.damage = "copied"
    BY <2>1, <2>8, SpoiledFields
  <2>10. IsLeft(g, result)
    BY <2>7, <2>9 DEF IsLeft
  <2> QED BY <2>1, <2>3, <2>8, <2>10, Spoiled
<1>11. CASE Decode
  <2>1. UNCHANGED << given, encoded >> /\ given # Nothing /\ encoded # Failure
    BY <1>11 DEF Decode
  <2>2. IsGiven(given) /\ Suits(given) /\ IsLeft(given, encoded)
    BY <2>1 DEF IInv, Holds
  <2>3. SUFFICES ShouldRead(given, encoded, decoded')
    BY <2>1, <2>2, <2>3 DEF IInv, Holds
  <2>4. CASE given.codec = "object"
    <3>1. decoded' = Read(Class[given.by].deserialize, encoded)
      BY <1>11, <2>4 DEF Decode, Read
    <3> QED BY <2>2, <2>4, <3>1, ObjectDecoded
  <2>9. CASE given.codec = "ack"
    <3>1. decoded' = Read(Class[given.by].deserialize, encoded)
      BY <1>11, <2>9 DEF Decode, Read
    <3> QED BY <2>2, <2>9, <3>1, AckDecoded
  <2>5. CASE given.codec \in {"token", "text"}
    <3>1. decoded' = parseToken(encoded, given.by)
      BY <1>11, <2>5 DEF Decode
    <3> QED BY <2>2, <2>5, <3>1, TokenDecoded
  <2>6. CASE given.codec = "phrase"
    <3>1. decoded' = bytesFromMnemonic(encoded)
      BY <1>11, <2>6 DEF Decode
    <3> QED BY <2>1, <2>2, <2>6, <3>1, PhraseDecoded
  <2>7. CASE given.codec = "curried"
    <3>1. decoded' = uncurry(encoded)
      BY <1>11, <2>7 DEF Decode
    <3> QED BY <2>2, <2>7, <3>1, CurriedDecoded
  <2>8. CASE given.codec \notin {"object", "ack", "token", "text", "phrase", "curried"}
    BY <2>8 DEF ShouldRead
  <2> QED BY <2>4, <2>5, <2>6, <2>7, <2>8, <2>9
<1>12. CASE ReceiveAck
  <2>0. PICK ack \in Objects["TransactionAck"], error \in Errors :
            LET sent == << ack[1], error >>
            IN  Encode("ack", sent, "TransactionAck", NodesTransactionAck.serialize[sent])
    BY <1>12 DEF ReceiveAck
  <2>1. PICK sent :
            /\ sent = << ack[1], error >>
            /\ Encode("ack", sent, "TransactionAck", NodesTransactionAck.serialize[sent])
    BY <2>0
  <2>4. ack \in TransactionAck.values /\ error \in String.values
    <3>1. "TransactionAck" \in DOMAIN Class /\ Class["TransactionAck"] = TransactionAck
      BY DEF Class
    <3> QED BY <3>1, ObjectsAssumption
  <2>2. PICK g : g = Made("ack", sent, "TransactionAck")
    OBVIOUS
  <2>3. Suits(g) /\ IsLeft(g, NodesTransactionAck.serialize[sent])
    BY <1>0, <2>1, <2>2, <2>4 DEF Suits, IsLeft
  <2> QED BY <2>1, <2>2, <2>3, Encoded
<1>13. CASE UNCHANGED vars
  BY <1>13 DEF vars, IInv
<1> QED
  BY <1>1, <1>2, <1>3, <1>4, <1>5, <1>6, <1>7, <1>8, <1>9, <1>10, <1>11, <1>12, <1>13 DEF Next

(* It holds always. *)
THEOREM Invariant == Spec => []IInv
BY InitKeeps, NextKeeps, PTL DEF Spec
-----------------------------------------------------------------------------
(* What is decoded is what should be. *)
LEMMA Decoded ==
    ASSUME IInv, given.codec \in {"object", "ack", "amount", "token", "text", "phrase", "curried"}
    PROVE  /\ Suits(given) /\ IsLeft(given, encoded)
           /\ decoded # Null => ShouldRead(given, encoded, decoded)
<1>1. given # Nothing
  BY DEF Nothing
<1> QED BY <1>1 DEF IInv, Holds

(* serialize and deserialize: an object is read back as it was, a cut one   *)
(* is refused, and a message is as long as its header says.  Of an          *)
(* acknowledgement with an error, all but the error is read.                *)
THEOREM ObjectsRoundTrip == Spec => []DecodesOrRefuses
<1>1. IInv => DecodesOrRefuses
  <2> SUFFICES ASSUME IInv PROVE DecodesOrRefuses
    OBVIOUS
  <2>1. given.codec = "object" /\ decoded # Null =>
            decoded = IF given.damage = "cut" THEN Refused ELSE given.value
    BY Decoded DEF ShouldRead
  <2>3. given.codec = "ack" /\ decoded # Null => decoded = << given.value[1], Null >>
    BY Decoded DEF ShouldRead
  <2>2. ASSUME given.codec = "object", given.by = "Message", ~Damaged
        PROVE  realMessageLength(encoded) = Len(encoded)
    <3>1. encoded = Class["Message"].serialize[given.value] /\ Class["Message"] = Message
      BY <2>2, ObjectBytes DEF Class
    <3>2. given.value \in Message.values
      BY <2>2, <3>1, Decoded DEF Suits
    <3> QED BY <3>1, <3>2, MessageLength
  <2> QED BY <2>1, <2>2, <2>3 DEF DecodesOrRefuses
<1> QED BY <1>1, Invariant, PTL

(* CoinUtil.amountToBytes: every amount is written as the shortest two's    *)
(* complement, so that the coin's id is the one the puzzles see.            *)
THEOREM AmountsCanonical == Spec => []AmountsAreCanonical
<1>1. IInv => AmountsAreCanonical
  <2> SUFFICES ASSUME IInv, given.codec = "amount" PROVE Canonical(given.value, encoded)
    BY DEF AmountsAreCanonical, Canonical
  <2>1. given.value \in AmountsTried /\ encoded = amountToBytes(given.value)
    BY Decoded DEF Suits, IsLeft
  <2>2. given.value \in Int
    BY <2>1, AmountsAssumption
  <2> QED BY <2>1, <2>2, AmountCanonical
<1> QED BY <1>1, Invariant, PTL

(* formatToken and parseToken: an amount that was formatted is read as      *)
(* itself, a typed one with at most the unit's decimals exactly, one with   *)
(* more of them to within a unit or not at all, a malformed one not at all. *)
THEOREM TokensExact == Spec => []TokensAreExact
<1>1. IInv => TokensAreExact
  <2> SUFFICES ASSUME IInv, decoded # Null
               PROVE  /\ given.codec = "token" => decoded = given.value
                      /\ given.codec = "text" => ReadInUnits(given.value, given.by, decoded)
    BY DEF TokensAreExact
  <2>1. given.codec = "token" => decoded = given.value
    BY Decoded DEF ShouldRead
  <2>2. given.codec = "text" => ReadInUnits(given.value, given.by, decoded)
    BY Decoded DEF ShouldRead
  <2> QED BY <2>1, <2>2
<1> QED BY <1>1, Invariant, PTL

(* bytesToMnemonic and bytesFromMnemonic: a phrase gives back its entropy,  *)
(* and one with a mistake is refused unless it is the phrase of what it is  *)
(* read as.                                                                 *)
THEOREM PhrasesExact == Spec => []PhrasesRoundTrip
<1>1. IInv => PhrasesRoundTrip
  BY Decoded DEF PhrasesRoundTrip, ShouldRead, Damaged
<1> QED BY <1>1, Invariant, PTL

(* curry and uncurry: a module that is a pair and its arguments, one or     *)
(* more, are found again; for an atom or no arguments the result is null.   *)
THEOREM CurryingExact == Spec => []UncurryInverts
<1>1. IInv => UncurryInverts
  BY Decoded DEF UncurryInverts, ShouldRead
<1> QED BY <1>1, Invariant, PTL
=============================================================================
