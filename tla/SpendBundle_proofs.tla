--------------------------- MODULE SpendBundle_proofs ---------------------------
(***************************************************************************)
(* Proofs about SpendBundle and Signing.  After a call the spends are those *)
(* of one call of bundle, of launchSingleton or of                          *)
(* useP2SingletonCoinsConditionsAndCoinSol (OneCall, the inductive          *)
(* invariant), and the properties of the spends follow from what each of    *)
(* the three returns, for every number of coins.  What is merged is what    *)
(* was signed (Merges), and a pair is counted in the lists that are joined. *)
(***************************************************************************)
EXTENDS Signing, Recursion, FiniteSetTheorems, SequenceTheorems

-----------------------------------------------------------------------------
(* Filters and sums. *)

(* What Filter keeps: r has the elements of s at the places at, in their    *)
(* order, which are those of T.                                             *)
Keeps(s, T, r, at) ==
    /\ at \in [1..Len(r) -> 1..Len(s)]
    /\ \A q \in 1..Len(r) : r[q] = s[at[q]] /\ s[at[q]] \in T
    /\ \A i \in 1..Len(s) : s[i] \in T => \E q \in 1..Len(r) : at[q] = i
    /\ \A p, q \in 1..Len(r) : p < q => at[p] < at[q]

(* Filter keeps a subsequence, at increasing places.                         *)
LEMMA Kept ==
    ASSUME NEW S, NEW s \in Seq(S), NEW T, NEW r, r = Filter(s, T)
    PROVE  r \in Seq(S) /\ \E at : Keeps(s, T, r, at)
<1> DEFINE kept == [i \in 1..Len(s) |-> IF s[i] \in T THEN <<s[i]>> ELSE <<>>]
<1>1. PICK ss, n : ss = kept /\ n = Len(s)
  OBVIOUS
<1>2. n \in Nat
  BY <1>1
<1>3. /\ ss \in Seq(Seq(S)) /\ Len(ss) = n
      /\ \A i \in 1..n : s[i] \in T => Len(ss[i]) = 1 /\ ss[i][1] = s[i]
      /\ \A i \in 1..n : s[i] \notin T => Len(ss[i]) = 0
  BY <1>1, <1>2
<1>4. r = FlattenSeq(ss)
  BY <1>1 DEF Filter
<1> HIDE DEF kept
<1>5. r \in Seq(S) /\ \E pl : Places(n, ss, r, pl)
  BY <1>3, <1>4, Flattened
<1>6. PICK pl : Places(n, ss, r, pl)
  BY <1>5
<1>7. /\ pl \in [0..n -> Nat] /\ Len(r) = pl[n] /\ pl[0] = 0
      /\ \A i \in 1..n : s[i] \in T => pl[i] = pl[i - 1] + 1
      /\ \A k \in 0..n : \A i \in 1..k : pl[i] <= pl[k]
      /\ \A i \in 1..n : s[i] \in T => r[pl[i - 1] + 1] = s[i]
      /\ \A q \in 1..pl[n] : \E i \in 1..n : s[i] \in T /\ q = pl[i - 1] + 1
  <2>1. /\ pl \in [0..n -> Nat] /\ Len(r) = pl[n] /\ pl[0] = 0
        /\ \A k \in 0..n : \A i \in 1..k : pl[i] <= pl[k]
    BY <1>6 DEF Places
  <2>2. ASSUME NEW i \in 1..n, s[i] \in T
        PROVE  pl[i] = pl[i - 1] + 1 /\ r[pl[i - 1] + 1] = s[i]
    <3>1. Len(ss[i]) = 1 /\ ss[i][1] = s[i]
      BY <1>3, <2>2
    <3>2. pl[i] = pl[i - 1] + Len(ss[i])
      BY <1>6 DEF Places
    <3>3. \A j \in 1..Len(ss[i]) : r[pl[i - 1] + j] = ss[i][j]
      BY <1>6 DEF Places
    <3>4. 1 \in 1..Len(ss[i])
      BY <3>1
    <3>5. r[pl[i - 1] + 1] = ss[i][1]
      BY <3>3, <3>4
    <3> QED BY <3>1, <3>2, <3>5
  <2>3. ASSUME NEW q \in 1..pl[n] PROVE \E i \in 1..n : s[i] \in T /\ q = pl[i - 1] + 1
    <3>1. PICK i \in 1..n : \E j \in 1..Len(ss[i]) : q = pl[i - 1] + j
      BY <1>6 DEF Places
    <3>2. PICK j \in 1..Len(ss[i]) : q = pl[i - 1] + j
      BY <3>1
    <3>3. s[i] \in T
      BY <1>3
    <3>4. Len(ss[i]) = 1
      BY <1>3, <3>3
    <3>5. j = 1
      BY <3>4
    <3> QED BY <3>2, <3>3, <3>5
  <2> QED BY <2>1, <2>2, <2>3
<1> DEFINE places == [q \in 1..Len(r) |-> CHOOSE i \in 1..n : s[i] \in T /\ q = pl[i - 1] + 1]
<1>8. PICK at : at = places
  OBVIOUS
<1>9. ASSUME NEW q \in 1..Len(r)
      PROVE  at[q] \in 1..n /\ s[at[q]] \in T /\ q = pl[at[q] - 1] + 1
  BY <1>7, <1>8
<1>10. at \in [1..Len(r) -> 1..n]
  BY <1>8, <1>9
<1> HIDE DEF places
<1>11. ASSUME NEW q \in 1..Len(r) PROVE r[q] = s[at[q]] /\ s[at[q]] \in T
  <2>1. PICK i : i = at[q]
    OBVIOUS
  <2>2. i \in 1..n /\ s[i] \in T /\ q = pl[i - 1] + 1
    BY <1>9, <2>1
  <2>3. r[pl[i - 1] + 1] = s[i]
    BY <1>7, <2>2
  <2> QED BY <2>1, <2>2, <2>3
<1>12. ASSUME NEW p \in 1..Len(r), NEW q \in 1..Len(r), ~(at[p] < at[q])
       PROVE  ~(p < q)
  <2>1. PICK i, k : i = at[p] /\ k = at[q]
    OBVIOUS
  <2>2. /\ i \in 1..n /\ p = pl[i - 1] + 1 /\ s[i] \in T
        /\ k \in 1..n /\ q = pl[k - 1] + 1 /\ s[k] \in T /\ k <= i
    BY <1>9, <1>12, <2>1
  <2>3. CASE k = i
    BY <2>2, <2>3
  <2>4. CASE k # i
    <3>1. i - 1 \in 0..n /\ k \in 1..(i - 1) /\ k - 1 \in 0..n /\ k \in 0..n
      BY <1>2, <2>2, <2>4
    <3>2. pl[k] <= pl[i - 1] /\ pl[k] = pl[k - 1] + 1
      BY <1>7, <2>2, <3>1
    <3>3. pl[k] \in Nat /\ pl[i - 1] \in Nat /\ pl[k - 1] \in Nat
      BY <1>7, <3>1
    <3> QED BY <2>2, <3>2, <3>3
  <2> QED BY <2>3, <2>4
<1>13. ASSUME NEW i \in 1..n, s[i] \in T PROVE \E q \in 1..Len(r) : at[q] = i
  <2>1. PICK q : q = pl[i - 1] + 1
    OBVIOUS
  <2>2. i - 1 \in 0..n /\ i \in 0..n /\ n \in 0..n /\ i \in 1..n
    BY <1>2
  <2>3. pl[i] <= pl[n] /\ pl[i] = q /\ pl[i - 1] \in Nat /\ pl[n] \in Nat
    BY <1>7, <1>13, <2>1, <2>2
  <2>4. q \in 1..Len(r)
    BY <1>7, <2>1, <2>3
  <2>5. PICK k : k = at[q]
    OBVIOUS
  <2>6. k \in 1..n /\ s[k] \in T /\ q = pl[k - 1] + 1
    BY <1>9, <2>4, <2>5
  <2>7. k - 1 \in 0..n /\ k \in 0..n /\ pl[k] = q /\ pl[k] \in Nat /\ pl[k - 1] \in Nat
    BY <1>2, <1>7, <2>6
  <2>8. ASSUME k < i PROVE FALSE
    <3>1. k \in 1..(i - 1)
      BY <2>6, <2>8
    <3>2. pl[k] <= pl[i - 1]
      BY <1>7, <2>2, <3>1
    <3> QED BY <2>1, <2>3, <2>7, <3>2
  <2>9. ASSUME i < k PROVE FALSE
    <3>1. i \in 1..(k - 1)
      BY <2>6, <2>9
    <3>2. pl[i] <= pl[k - 1]
      BY <1>7, <2>7, <3>1
    <3> QED BY <2>3, <2>6, <2>7, <3>2
  <2> QED BY <2>4, <2>5, <2>6, <2>8, <2>9
<1>14. Len(r) \in Nat
  BY <1>2, <1>7
<1>15. Keeps(s, T, r, at)
  <2>1. \A p, q \in 1..Len(r) : p < q => at[p] < at[q]
    BY <1>12
  <2> QED BY <1>1, <1>10, <1>11, <1>13, <2>1 DEF Keeps
<1> QED BY <1>5, <1>15

(* The sums s of the numbers ds. *)
AreSums(n, ds, s) ==
    s \in [0..n -> Int] /\ s[0] = 0 /\ \A k \in 1..n : s[k] = s[k - 1] + ds[k]

(* Sums is the recursion, and Total its last value.                          *)
LEMMA Summed ==
    ASSUME NEW n \in Nat, NEW ds \in [1..n -> Int], NEW s, s = Sums(ds)
    PROVE  AreSums(n, ds, s) /\ Total(ds) = s[n]
<1>1. Len(ds) = n
  OBVIOUS
<1> DEFINE G == [p \in (1..n) \X Int |-> p[2] + ds[p[1]]]
<1>2. G \in [(1..n) \X Int -> Int] /\ \A k \in 1..n : \A x \in Int : G[<<k, x>>] = x + ds[k]
  <2>1. ASSUME NEW p \in (1..n) \X Int PROVE p[2] + ds[p[1]] \in Int
    OBVIOUS
  <2>2. G \in [(1..n) \X Int -> Int]
    BY <2>1
  <2>3. \A k \in 1..n : \A x \in Int : G[<<k, x>>] = x + ds[k]
    OBVIOUS
  <2> QED BY <2>2, <2>3
<1> HIDE DEF G
<1>3. PICK f \in [0..n -> Int] : Steps(n, 0, G, f)
  <2>1. PICK Z, b : Z = Int /\ b = 0
    OBVIOUS
  <2>2. b \in Z /\ G \in [(1..n) \X Z -> Z]
    BY <1>2, <2>1
  <2>3. \E f \in [0..n -> Z] : Steps(n, b, G, f)
    BY <2>2, Recursive
  <2> QED BY <2>1, <2>3
<1>4. f[0] = 0 /\ \A k \in 1..n : f[k] = f[k - 1] + ds[k]
  <2>1. f[0] = 0 /\ \A k \in 1..n : f[k] = G[<<k, f[k - 1]>>]
    BY <1>3 DEF Steps
  <2>2. ASSUME NEW k \in 1..n PROVE f[k] = f[k - 1] + ds[k]
    <3>1. f[k - 1] \in Int
      OBVIOUS
    <3> QED BY <1>2, <2>1, <3>1
  <2> QED BY <2>1, <2>2
<1> DEFINE Step(g) == [k \in 0..n |-> IF k = 0 THEN 0 ELSE g[k - 1] + ds[k]]
<1>5. f = Step(f)
  BY <1>4
<1>6. s = CHOOSE g : g = Step(g)
  BY <1>1 DEF Sums
<1>7. s = Step(s)
  <2> HIDE DEF Step
  <2> QED BY <1>5, <1>6
<1>8. \A k \in 0..n : s[k] = IF k = 0 THEN 0 ELSE s[k - 1] + ds[k]
  BY <1>7
<1>9. \A k \in 0..n : s[k] \in Int
  <2> DEFINE T == {k \in 0..n : s[k] \in Int}
  <2>1. 0 \in T
    BY <1>8
  <2>2. ASSUME NEW k \in 1..n, k - 1 \in T PROVE k \in T
    <3>1. s[k] = s[k - 1] + ds[k]
      BY <1>8
    <3>2. s[k - 1] \in Int
      BY <2>2
    <3>3. ds[k] \in Int
      OBVIOUS
    <3> QED BY <3>1, <3>2, <3>3
  <2>3. \A k \in 0..n : k \in T
    <3> HIDE DEF T
    <3> QED BY <2>1, <2>2, UpTo
  <2> QED BY <2>3
<1>10. s \in [0..n -> Int]
  BY <1>7, <1>9
<1>11. \A k \in 1..n : s[k] = s[k - 1] + ds[k]
  BY <1>8
<1>12. s[0] = 0
  BY <1>8
<1> HIDE DEF Step
<1>13. Total(ds) = s[n]
  BY <1>1 DEF Total
<1> QED BY <1>10, <1>11, <1>12, <1>13 DEF AreSums

(* Numbers have one list of sums. *)
LEMMA OneSum ==
    ASSUME NEW n \in Nat, NEW ds, NEW s, AreSums(n, ds, s), NEW t, AreSums(n, ds, t)
    PROVE  s[n] = t[n]
<1> DEFINE T == {k \in 0..n : s[k] = t[k]}
<1>1. 0 \in T
  BY DEF AreSums
<1>2. ASSUME NEW k \in 1..n, k - 1 \in T PROVE k \in T
  BY <1>2 DEF AreSums
<1>3. \A k \in 0..n : k \in T
  <2> HIDE DEF T
  <2> QED BY <1>1, <1>2, UpTo
<1> QED BY <1>3

(* Zeros at the end add nothing. *)
Prolongs(m, es, n, ds) ==
    /\ m \in Nat /\ n \in Nat /\ m <= n
    /\ ds \in [1..n -> Int] /\ es \in [1..m -> Int]
    /\ \A k \in 1..m : ds[k] = es[k]
    /\ \A k \in (m + 1)..n : ds[k] = 0

(* Zeros at the end add nothing.                                             *)
LEMMA SameSum ==
    ASSUME NEW m, NEW es, NEW n, NEW ds, Prolongs(m, es, n, ds)
    PROVE  Total(ds) = Total(es)
<1> USE DEF Prolongs
<1>1. PICK s, t : s = Sums(ds) /\ t = Sums(es)
  OBVIOUS
<1>2. AreSums(n, ds, s) /\ Total(ds) = s[n]
  BY <1>1, Summed
<1>3. AreSums(m, es, t) /\ Total(es) = t[m]
  BY <1>1, Summed
<1> DEFINE T == {k \in 0..n : s[k] = IF k <= m THEN t[k] ELSE t[m]}
<1>4. 0 \in T
  BY <1>2, <1>3 DEF AreSums
<1>5. ASSUME NEW k \in 1..n, k - 1 \in T PROVE k \in T
  <2>1. s[k] = s[k - 1] + ds[k] /\ s[k - 1] \in Int
    BY <1>2 DEF AreSums
  <2>2. CASE k <= m
    <3>1. t[k] = t[k - 1] + es[k] /\ ds[k] = es[k] /\ s[k - 1] = t[k - 1]
      BY <1>3, <1>5, <2>2 DEF AreSums
    <3> QED BY <2>1, <2>2, <3>1
  <2>3. CASE k > m
    <3>1. ds[k] = 0 /\ s[k - 1] = t[m]
      BY <1>5, <2>3
    <3> QED BY <2>1, <2>3, <3>1
  <2> QED BY <2>2, <2>3
<1>6. \A k \in 0..n : k \in T
  <2> HIDE DEF T
  <2> QED BY <1>4, <1>5, UpTo
<1>7. s[n] = t[m]
  BY <1>6
<1> QED BY <1>2, <1>3, <1>7

(* The sum of zeros is zero. *)
LEMMA NoSum ==
    ASSUME NEW n \in Nat, NEW ds, ds = [i \in 1..n |-> 0]
    PROVE  Total(ds) = 0
<1>1. PICK z, o : o = 0 /\ z = [i \in 1..o |-> 0]
  OBVIOUS
<1>2. Prolongs(o, z, n, ds)
  BY <1>1 DEF Prolongs
<1>3. Total(ds) = Total(z)
  BY <1>2, SameSum
<1>4. PICK t : t = Sums(z)
  OBVIOUS
<1>5. o \in Nat /\ z \in [1..o -> Int]
  BY <1>1
<1>6. AreSums(o, z, t) /\ Total(z) = t[o]
  BY <1>4, <1>5, Summed
<1> QED BY <1>1, <1>3, <1>6 DEF AreSums

(* The least of some numbers is one of them. *)
LEMMA LeastIs ==
    ASSUME NEW n \in Nat \ {0}, NEW s \in [1..n -> Int]
    PROVE  /\ \E i \in 1..n : s[i] = LeastOf(s)
           /\ \A i \in 1..n : LeastOf(s) <= s[i]
<1> DEFINE T == {k \in 0..n : k = 0 \/ \E i \in 1..k : \A j \in 1..k : s[i] <= s[j]}
<1>1. 0 \in T
  OBVIOUS
<1>2. ASSUME NEW k \in 1..n, k - 1 \in T PROVE k \in T
  <2>1. CASE k = 1
    BY <2>1
  <2>2. CASE k # 1
    <3>1. PICK i \in 1..(k - 1) : \A j \in 1..(k - 1) : s[i] <= s[j]
      BY <1>2, <2>2
    <3>2. CASE s[i] <= s[k]
      <4>1. \A j \in 1..k : s[i] <= s[j]
        BY <3>1, <3>2
      <4>2. i \in 1..k
        OBVIOUS
      <4> QED BY <4>1, <4>2
    <3>3. CASE ~(s[i] <= s[k])
      <4>1. \A j \in 1..k : s[k] <= s[j]
        BY <3>1, <3>3
      <4>2. k \in 1..k
        OBVIOUS
      <4> QED BY <4>1, <4>2
    <3> QED BY <3>2, <3>3
  <2> QED BY <2>1, <2>2
<1>3. \A k \in 0..n : k \in T
  <2> HIDE DEF T
  <2> QED BY <1>1, <1>2, UpTo
<1>4. PICK i \in 1..n : \A j \in 1..n : s[i] <= s[j]
  <2>1. n \in 0..n /\ n # 0
    OBVIOUS
  <2>2. n \in T
    BY <1>3, <2>1
  <2>3. \E i \in 1..n : \A j \in 1..n : s[i] <= s[j]
    BY <2>1, <2>2
  <2> QED BY <2>3
<1>5. ToSet(s) = {s[j] : j \in 1..n}
  BY DEF ToSet
<1>6. s[i] \in ToSet(s) /\ \A x \in ToSet(s) : s[i] <= x
  BY <1>4, <1>5
<1>7. LeastOf(s) \in ToSet(s) /\ \A x \in ToSet(s) : LeastOf(s) <= x
  <2>1. PICK X : X = ToSet(s)
    OBVIOUS
  <2>2. \E m \in X : \A x \in X : m <= x
    BY <1>6, <2>1
  <2>3. LeastOf(s) = CHOOSE m \in X : \A x \in X : m <= x
    BY <2>1 DEF LeastOf
  <2> QED BY <2>1, <2>2, <2>3
<1> QED BY <1>5, <1>7
(* The ring of n coins. *)
LEMMA Ring ==
    ASSUME NEW n \in Nat \ {0}, NEW i \in 1..n
    PROVE  /\ nextIndex(i, n) = IF i = n THEN 1 ELSE i + 1
           /\ prevIndex(i, n) = IF i = 1 THEN n ELSE i - 1
<1>1. ASSUME NEW m \in Nat \ {0}, NEW a \in 0..(m - 1) PROVE a % m = a
  BY <1>1
<1>2. ASSUME NEW m \in Nat \ {0}, NEW a \in 0..(m - 1) PROVE (a + m) % m = a
  BY <1>2
<1>3. n % n = 0
  OBVIOUS
<1>4. nextIndex(i, n) = IF i = n THEN 1 ELSE i + 1
  <2>1. CASE i = n
    BY <1>3, <2>1 DEF nextIndex
  <2>2. CASE i # n
    <3>1. i \in 0..(n - 1)
      BY <2>2
    <3>2. i % n = i
      BY <1>1, <3>1
    <3> QED BY <2>2, <3>2 DEF nextIndex
  <2> QED BY <2>1, <2>2
<1>5. prevIndex(i, n) = IF i = 1 THEN n ELSE i - 1
  <2>1. CASE i = 1
    <3>1. n - 1 \in 0..(n - 1) /\ i - 2 + n = n - 1
      BY <2>1
    <3>2. (n - 1) % n = n - 1
      BY <1>1, <3>1
    <3>3. ((i - 2 + n) % n) + 1 = n
      BY <3>1, <3>2
    <3> QED BY <2>1, <3>3 DEF prevIndex
  <2>2. CASE i # 1
    <3>1. i - 2 \in 0..(n - 1)
      BY <2>2
    <3>2. (i - 2 + n) % n = i - 2
      BY <1>2, <3>1
    <3> QED BY <2>2, <3>2 DEF prevIndex
  <2> QED BY <2>1, <2>2
<1> QED BY <1>4, <1>5

-----------------------------------------------------------------------------
(* What a list of conditions has. *)

(* Some place of s, or just one, has a condition of D. *)
Has(s, D) == \E j \in 1..Len(s) : s[j] \in D
Once(s, D) == \E j \in 1..Len(s) : s[j] \in D /\ \A k \in 1..Len(s) : s[k] \in D => k = j

(* A list has what either of its parts has.                                  *)
LEMMA HasJoined ==
    ASSUME NEW S, NEW s \in Seq(S), NEW t \in Seq(S), NEW D
    PROVE  s \o t \in Seq(S) /\ (Has(s \o t, D) <=> Has(s, D) \/ Has(t, D))
<1>1. /\ Len(s) \in Nat /\ Len(t) \in Nat /\ Len(s \o t) = Len(s) + Len(t)
      /\ \A q \in 1..Len(s) : (s \o t)[q] = s[q]
      /\ \A q \in (Len(s) + 1)..(Len(s) + Len(t)) : (s \o t)[q] = t[q - Len(s)]
  BY Following
<1>2. PICK m, n, r : m = Len(s) /\ n = Len(t) /\ r = s \o t
  OBVIOUS
<1>3. /\ m \in Nat /\ n \in Nat /\ Len(r) = m + n
      /\ \A q \in 1..m : r[q] = s[q]
      /\ \A q \in (m + 1)..(m + n) : r[q] = t[q - m]
  BY <1>1, <1>2
<1>4. ASSUME Has(r, D) PROVE Has(s, D) \/ Has(t, D)
  <2>1. PICK q \in 1..(m + n) : r[q] \in D
    BY <1>3, <1>4 DEF Has
  <2>2. CASE q <= m
    <3>1. q \in 1..m
      BY <1>3, <2>2
    <3> QED BY <1>2, <1>3, <2>1, <3>1 DEF Has
  <2>3. CASE q > m
    <3>1. PICK k : k = q - m
      OBVIOUS
    <3>2. k \in 1..n /\ r[q] = t[k]
      <4>1. q \in (m + 1)..(m + n) /\ k \in 1..n
        BY <1>3, <2>3, <3>1
      <4>2. r[q] = t[q - m]
        BY <1>3, <4>1
      <4> QED BY <3>1, <4>1, <4>2
    <3> QED BY <1>2, <2>1, <3>2 DEF Has
  <2> QED BY <1>3, <2>2, <2>3
<1>5. ASSUME Has(s, D) PROVE Has(r, D)
  <2>1. PICK q \in 1..m : s[q] \in D
    BY <1>2, <1>5 DEF Has
  <2>2. q \in 1..Len(r) /\ r[q] \in D
    BY <1>3, <2>1
  <2> QED BY <2>2 DEF Has
<1>6. ASSUME Has(t, D) PROVE Has(r, D)
  <2>1. PICK k \in 1..n : t[k] \in D
    BY <1>2, <1>6 DEF Has
  <2>2. PICK q : q = m + k
    OBVIOUS
  <2>3. q \in (m + 1)..(m + n) /\ q - m = k
    BY <1>3, <2>2
  <2>4. q \in 1..Len(r) /\ r[q] = t[k]
    BY <1>3, <2>3
  <2> QED BY <2>1, <2>4 DEF Has
<1>7. s \o t \in Seq(S)
  OBVIOUS
<1> QED BY <1>2, <1>4, <1>5, <1>6, <1>7

(* What one part has once and the other not, the whole has once.             *)
LEMMA OnceJoined ==
    ASSUME NEW S, NEW s \in Seq(S), NEW t \in Seq(S), NEW D,
           \/ Once(s, D) /\ ~Has(t, D)
           \/ ~Has(s, D) /\ Once(t, D)
    PROVE  Once(s \o t, D)
<1>1. /\ Len(s) \in Nat /\ Len(t) \in Nat /\ Len(s \o t) = Len(s) + Len(t)
      /\ \A q \in 1..Len(s) : (s \o t)[q] = s[q]
      /\ \A q \in (Len(s) + 1)..(Len(s) + Len(t)) : (s \o t)[q] = t[q - Len(s)]
  BY Following
<1>2. PICK m, n, r : m = Len(s) /\ n = Len(t) /\ r = s \o t
  OBVIOUS
<1>3. /\ m \in Nat /\ n \in Nat /\ Len(r) = m + n
      /\ \A q \in 1..m : r[q] = s[q]
      /\ \A q \in (m + 1)..(m + n) : q - m \in 1..n /\ r[q] = t[q - m]
  BY <1>1, <1>2
<1>4. CASE Once(s, D) /\ ~Has(t, D)
  <2>1. PICK q \in 1..m : s[q] \in D /\ \A k \in 1..m : s[k] \in D => k = q
    BY <1>2, <1>4 DEF Once
  <2>2. q \in 1..Len(r) /\ r[q] \in D
    BY <1>3, <2>1
  <2>3. ASSUME NEW k \in 1..Len(r), r[k] \in D PROVE k = q
    <3>1. CASE k \in 1..m
      BY <1>3, <2>1, <2>3, <3>1
    <3>2. CASE k \notin 1..m
      <4>1. k \in (m + 1)..(m + n)
        BY <1>3, <3>2
      <4>2. k - m \in 1..n /\ t[k - m] \in D
        BY <1>3, <2>3, <4>1
      <4> QED BY <1>2, <1>4, <4>2 DEF Has
    <3> QED BY <3>1, <3>2
  <2> QED BY <1>2, <2>2, <2>3 DEF Once
<1>5. CASE ~Has(s, D) /\ Once(t, D)
  <2>1. PICK p \in 1..n : t[p] \in D /\ \A k \in 1..n : t[k] \in D => k = p
    BY <1>2, <1>5 DEF Once
  <2>2. PICK q : q = m + p
    OBVIOUS
  <2>3. q \in (m + 1)..(m + n) /\ q - m = p
    BY <1>3, <2>2
  <2>4. q \in 1..Len(r) /\ r[q] \in D
    BY <1>3, <2>1, <2>3
  <2>5. ASSUME NEW k \in 1..Len(r), r[k] \in D PROVE k = q
    <3>1. CASE k \in 1..m
      BY <1>2, <1>3, <1>5, <2>5, <3>1 DEF Has
    <3>2. CASE k \notin 1..m
      <4>1. k \in (m + 1)..(m + n)
        BY <1>3, <3>2
      <4>2. PICK l : l = k - m
        OBVIOUS
      <4>3. l \in 1..n /\ t[l] \in D
        BY <1>3, <2>5, <4>1, <4>2
      <4>4. l = p
        BY <2>1, <4>3
      <4> QED BY <1>3, <2>2, <4>1, <4>2, <4>4
    <3> QED BY <3>1, <3>2
  <2> QED BY <1>2, <2>4, <2>5 DEF Once
<1> QED BY <1>4, <1>5

(* What If adds to a list.                                                   *)
LEMMA HasIf ==
    ASSUME NEW S, NEW c \in S, NEW test, NEW D
    PROVE  /\ If(test, c) \in Seq(S)
           /\ Has(If(test, c), D) <=> test /\ c \in D
           /\ test /\ c \in D => Once(If(test, c), D)
<1>1. CASE test
  <2>1. PICK s : s = <<c>>
    OBVIOUS
  <2>2. If(test, c) = s /\ s \in Seq(S) /\ Len(s) = 1 /\ s[1] = c
    BY <1>1, <2>1 DEF If
  <2>3. 1..Len(s) = {1}
    BY <2>2
  <2>4. Has(s, D) <=> c \in D
    BY <2>2, <2>3 DEF Has
  <2>5. c \in D => Once(s, D)
    BY <2>2, <2>3 DEF Once
  <2> QED BY <1>1, <2>2, <2>4, <2>5
<1>2. CASE ~test
  BY <1>2 DEF If, Has
<1> QED BY <1>1, <1>2

(* An empty list has nothing.                                                *)
LEMMA HasNone == ASSUME NEW D PROVE ~Has(<<>>, D)
BY DEF Has

-----------------------------------------------------------------------------
(* The ring of CATs that bundleCATs lays. *)

AmountsAreInts(S) == \A d \in S : d.op = "CREATE_COIN" => d.amount \in Int

(* What a list of conditions creates is a number.                            *)
LEMMA CreatedIsInt ==
    ASSUME NEW S, AmountsAreInts(S), NEW s \in Seq(S)
    PROVE  Created(s) \in Int
<1> DEFINE amounts == [j \in 1..Len(s) |-> IF s[j].op = "CREATE_COIN" /\ s[j].amount # Magic
                                           THEN s[j].amount ELSE 0]
<1>1. PICK n, ds : n = Len(s) /\ ds = amounts
  OBVIOUS
<1>2. n \in Nat /\ \A j \in 1..n : s[j] \in S
  BY <1>1
<1>3. ds \in [1..n -> Int]
  BY <1>1, <1>2 DEF AmountsAreInts
<1>4. Created(s) = Total(ds)
  BY <1>1 DEF Created
<1>5. PICK t : t = Sums(ds)
  OBVIOUS
<1> HIDE DEF amounts
<1>6. AreSums(n, ds, t) /\ Total(ds) = t[n]
  BY <1>2, <1>3, <1>5, Summed
<1>7. t[n] \in Int
  BY <1>2, <1>6 DEF AreSums
<1> QED BY <1>4, <1>6, <1>7

(* The subtotals of m CATs, whose deltas are e, are the sums of those before *)
(* each, less the least of them.                                             *)
RingOf(m, r, e, sums, least) ==
    /\ e \in [1..m -> Int] /\ AreSums(m, e, sums) /\ sums[m] = 0
    /\ least \in Int
    /\ \A i \in 1..m : e[i] = DeltaOf(r[i]) /\ r[i].subtotal = sums[i - 1] - least
    /\ \A i \in 1..m : least <= sums[i - 1]
    /\ \E i \in 1..m : least = sums[i - 1]

(* The m spends a of the coins cats, with their conditions, as a ring.       *)
LaysRing(m, a, cats, conditions) ==
    /\ a = [i \in 1..m |-> a[i]]
    /\ \A i \in 1..m : /\ a[i].coin = cats[i] /\ a[i].conditions = conditions[i]
                       /\ a[i].prev = cats[prevIndex(i, m)]
                       /\ a[i].next = cats[nextIndex(i, m)]
                       /\ Info[cats[i]].tail = Info[cats[1]].tail
    /\ \E e, sums, least : RingOf(m, a, e, sums, least)

(* bundleCATs, when it does not throw, lays a ring of the CATs, in order.    *)
LEMMA CATsLaid ==
    ASSUME NEW S, AmountsAreInts(S), NEW m \in Nat \ {0}, NEW cats \in [1..m -> Coins],
           NEW conditions \in [1..m -> Seq(S)], ~CATsThrow(cats, conditions),
           NEW a, a = bundleCATs(cats, conditions)
    PROVE  LaysRing(m, a, cats, conditions)
<1>1. Len(cats) = m
  OBVIOUS
<1>2. PICK e : e = deltas(cats, conditions)
  OBVIOUS
<1>3. /\ \A i \in 1..m : Info[cats[i]].tail = Info[cats[1]].tail /\ Info[cats[i]].whole
      /\ Total(e) = 0
  BY <1>1, <1>2 DEF CATsThrow
<1>4. ASSUME NEW i \in 1..m
      PROVE  /\ Created(conditions[i]) \in Int
             /\ Info[cats[i]].amount \in Int /\ Info[cats[i]].extraDelta \in Int
  <2>1. conditions[i] \in Seq(S) /\ cats[i] \in Coins
    OBVIOUS
  <2>2. Created(conditions[i]) \in Int
    BY <2>1, CreatedIsInt
  <2> QED BY <2>1, <2>2, CoinsAssumption
<1>5. /\ e \in [1..m -> Int]
      /\ \A i \in 1..m : e[i] = Info[cats[i]].amount + Info[cats[i]].extraDelta
                                    - Created(conditions[i])
  <2>1. e = [i \in 1..m |-> IF Info[cats[i]].whole
                            THEN Info[cats[i]].amount
                                     - (Created(conditions[i]) - Info[cats[i]].extraDelta)
                            ELSE 0]
    BY <1>1, <1>2 DEF deltas
  <2>2. ASSUME NEW i \in 1..m
        PROVE  e[i] = Info[cats[i]].amount + Info[cats[i]].extraDelta - Created(conditions[i])
    <3>1. e[i] = Info[cats[i]].amount - (Created(conditions[i]) - Info[cats[i]].extraDelta)
      BY <1>3, <2>1
    <3> QED BY <1>4, <3>1
  <2>3. ASSUME NEW i \in 1..m PROVE e[i] \in Int
    <3>1. PICK x, y, z : /\ x = Info[cats[i]].amount /\ y = Info[cats[i]].extraDelta
                         /\ z = Created(conditions[i])
      OBVIOUS
    <3>2. x \in Int /\ y \in Int /\ z \in Int
      BY <1>4, <3>1
    <3>3. e[i] = x + y - z
      BY <2>2, <3>1
    <3> QED BY <3>2, <3>3
  <2>4. e \in [1..m -> Int]
    BY <2>1, <2>3
  <2> QED BY <2>2, <2>4
<1>6. PICK sums : sums = Sums(e)
  OBVIOUS
<1>7. AreSums(m, e, sums) /\ sums[m] = 0
  <2>1. m \in Nat
    OBVIOUS
  <2> QED BY <1>3, <1>5, <1>6, <2>1, Summed
<1> DEFINE before == [i \in 1..m |-> sums[i - 1]]
<1>8. PICK b : b = before
  OBVIOUS
<1>9. b \in [1..m -> Int] /\ \A i \in 1..m : b[i] = sums[i - 1]
  BY <1>7, <1>8 DEF AreSums
<1>10. PICK least : least = LeastOf(b)
  OBVIOUS
<1>11. (\E i \in 1..m : b[i] = least) /\ \A i \in 1..m : least <= b[i]
  BY <1>9, <1>10, LeastIs
<1>12. Len(e) = m
  BY <1>5
<1>13. subtotalsForDeltas(e) = [i \in 1..m |-> b[i] - least]
  BY <1>6, <1>8, <1>10, <1>12 DEF subtotalsForDeltas
<1>14. \A i \in 1..m : subtotalsForDeltas(e)[i] = sums[i - 1] - least
  BY <1>9, <1>13
<1>15. a = [i \in 1..m |->
               [coin |-> cats[i], conditions |-> conditions[i],
                prev |-> cats[prevIndex(i, m)], next |-> cats[nextIndex(i, m)],
                subtotal |-> subtotalsForDeltas(e)[i]]]
  BY <1>1, <1>2 DEF bundleCATs
<1> HIDE DEF before
<1>16. ASSUME NEW i \in 1..m
       PROVE  /\ a[i].coin = cats[i] /\ a[i].conditions = conditions[i]
              /\ a[i].prev = cats[prevIndex(i, m)] /\ a[i].next = cats[nextIndex(i, m)]
              /\ a[i].subtotal = sums[i - 1] - least
  BY <1>14, <1>15
<1>17. RingOf(m, a, e, sums, least)
  <2>1. \A i \in 1..m : e[i] = DeltaOf(a[i])
    BY <1>5, <1>16 DEF DeltaOf
  <2>2. least \in Int
    BY <1>9, <1>11
  <2>3. \A i \in 1..m : least <= sums[i - 1]
    BY <1>9, <1>11
  <2>4. \E i \in 1..m : least = sums[i - 1]
    BY <1>9, <1>11
  <2>5. \A i \in 1..m : a[i].subtotal = sums[i - 1] - least
    BY <1>16
  <2> QED BY <1>5, <1>7, <2>1, <2>2, <2>3, <2>4, <2>5 DEF RingOf
<1>18. a = [i \in 1..m |-> a[i]]
  BY <1>15
<1>19. \E e1, sums1, least1 : RingOf(m, a, e1, sums1, least1)
  BY <1>17
<1>20. \A i \in 1..m : Info[cats[i]].tail = Info[cats[1]].tail
  BY <1>3
<1> QED BY <1>16, <1>18, <1>19, <1>20 DEF LaysRing

-----------------------------------------------------------------------------
(* The spends of Bundled. *)

(* A call of bundle: the coins ts, the fee f, the conditions co and so, and *)
(* S, the conditions that they and the spends may have.                     *)
Called(S, n, ts, f, co, so) ==
    /\ n \in Nat /\ ts \in [1..n -> Coins] /\ IsInjective(ts) /\ f \in Nat
    /\ co \in Seq(S) /\ so \in Seq(S) /\ AmountsAreInts(S)
    /\ \A c \in Coins : Info[c].own \in Seq(S)
    /\ createCoinAnnouncement(ts) \in S /\ reserveFee(f) \in S
    /\ assertCoinAnnouncement(TheAnnouncement(ts)) \in S

(* The coins of each kind. *)
Divides(ts, cats, standard) ==
    /\ cats = Filter(ts, CATCoins) /\ standard = Filter(ts, StandardCoins)
    /\ cats \in Seq(Coins) /\ standard \in Seq(Coins)
    /\ \E at : Keeps(ts, CATCoins, cats, at)
    /\ \E at : Keeps(ts, StandardCoins, standard, at)

(* What is added to a coin's own conditions. *)
ForCATs(ts, f, co, i) == IF i = 1 THEN co \o PushedToCATs(ts, f) ELSE <<>>
ForStandard(ts, f, so, i) == IF i = 1 THEN so \o PushedToStandard(ts, f) ELSE OthersAssert(ts)

Spends(x, c, added) == x.coin = c /\ x.conditions = Info[c].own \o Taken(c, added)

(* The spends r: first those of the CATs, then those of the standard coins. *)
Laid(ts, f, co, so, cats, standard, r) ==
    /\ \A i \in 1..Len(cats) : Spends(r[i], cats[i], ForCATs(ts, f, co, i))
    /\ \A i \in 1..Len(standard) :
          Spends(r[Len(cats) + i], standard[i], ForStandard(ts, f, so, i))

(* The CATs are a ring. *)
Ringed(cats, r) ==
    LET m == Len(cats)
    IN  m # 0 =>
            /\ \A i \in 1..m : /\ r[i].prev = cats[prevIndex(i, m)]
                               /\ r[i].next = cats[nextIndex(i, m)]
                               /\ Info[cats[i]].tail = Info[cats[1]].tail
            /\ \E e, sums, least : RingOf(m, r, e, sums, least)

(* What is added to a coin's conditions are conditions.                      *)
LEMMA PushedAre ==
    ASSUME NEW S, NEW n, NEW ts, NEW f, NEW co, NEW so, Called(S, n, ts, f, co, so)
    PROVE  /\ \A i : ForCATs(ts, f, co, i) \in Seq(S)
           /\ \A i : ForStandard(ts, f, so, i) \in Seq(S)
<1> DEFINE c == createCoinAnnouncement(ts)
           a == assertCoinAnnouncement(TheAnnouncement(ts))
           r == reserveFee(f)
<1>1. c \in S /\ a \in S /\ r \in S /\ co \in Seq(S) /\ so \in Seq(S)
  BY DEF Called
<1>2. PushedToCATs(ts, f) \in Seq(S)
  <2>1. PICK x, y : x = If(\E i \in 1..Len(ts) : IsStandard(ts[i]), c) /\ y = If(f > 0, r)
    OBVIOUS
  <2>2. x \in Seq(S) /\ y \in Seq(S)
    BY <1>1, <2>1, HasIf
  <2>3. PushedToCATs(ts, f) = x \o y
    BY <2>1 DEF PushedToCATs
  <2> QED BY <2>2, <2>3
<1>3. PushedToStandard(ts, f) \in Seq(S)
  <2>1. PICK x, y, z : /\ x = If(Morphs(ts), a)
                       /\ y = If(~Morphs(ts) /\ Len(ts) > 1, c)
                       /\ z = If(f > 0 /\ FeeWithStandard(ts), r)
    OBVIOUS
  <2>2. x \in Seq(S) /\ y \in Seq(S) /\ z \in Seq(S)
    BY <1>1, <2>1, HasIf
  <2>3. PushedToStandard(ts, f) = x \o y \o z
    BY <2>1 DEF PushedToStandard
  <2> QED BY <2>2, <2>3
<1>4. OthersAssert(ts) \in Seq(S)
  BY <1>1 DEF OthersAssert
<1>5. co \o PushedToCATs(ts, f) \in Seq(S) /\ so \o PushedToStandard(ts, f) \in Seq(S)
  BY <1>1, <1>2, <1>3
<1>6. <<>> \in Seq(S)
  OBVIOUS
<1> QED BY <1>4, <1>5, <1>6 DEF ForCATs, ForStandard

(* What a coin takes of conditions are conditions.                           *)
LEMMA TakenAre ==
    ASSUME NEW S, NEW c, NEW added \in Seq(S)
    PROVE  Taken(c, added) \in Seq(S) /\ (Info[c].takes => Taken(c, added) = added)
BY DEF Taken

(* Spends after those of the CATs do not change their ring.                  *)
LEMMA RingedStill ==
    ASSUME NEW cats, NEW a, NEW r, Ringed(cats, a), \A i \in 1..Len(cats) : r[i] = a[i]
    PROVE  Ringed(cats, r)
<1>1. PICK m : m = Len(cats)
  OBVIOUS
<1>2. SUFFICES ASSUME m # 0
               PROVE  /\ \A i \in 1..m : /\ r[i].prev = cats[prevIndex(i, m)]
                                         /\ r[i].next = cats[nextIndex(i, m)]
                                         /\ Info[cats[i]].tail = Info[cats[1]].tail
                      /\ \E e, sums, least : RingOf(m, r, e, sums, least)
  BY <1>1 DEF Ringed
<1>3. /\ \A i \in 1..m : /\ a[i].prev = cats[prevIndex(i, m)]
                         /\ a[i].next = cats[nextIndex(i, m)]
                         /\ Info[cats[i]].tail = Info[cats[1]].tail
      /\ \E e, sums, least : RingOf(m, a, e, sums, least)
  BY <1>1, <1>2 DEF Ringed
<1>4. PICK e, sums, least : RingOf(m, a, e, sums, least)
  BY <1>3
<1>5. \A i \in 1..m : r[i] = a[i]
  BY <1>1
<1>6. RingOf(m, r, e, sums, least)
  BY <1>4, <1>5 DEF RingOf
<1> QED BY <1>3, <1>5, <1>6

(* What Bundled returns: the CATs in a ring, then the standard coins.        *)
LEMMA BundledIs ==
    ASSUME NEW S, NEW n, NEW ts, NEW f, NEW co, NEW so, Called(S, n, ts, f, co, so),
           NEW r, r = Bundled(ts, f, co, so), r # Threw
    PROVE  \E cats, standard :
               /\ Divides(ts, cats, standard)
               /\ Laid(ts, f, co, so, cats, standard, r) /\ Ringed(cats, r)
               /\ Len(r) = Len(cats) + Len(standard)
               /\ \E Z : r \in Seq(Z)
<1>1. PICK cats, standard : cats = Filter(ts, CATCoins) /\ standard = Filter(ts, StandardCoins)
  OBVIOUS
<1>2. Divides(ts, cats, standard)
  <2>1. ts \in Seq(Coins)
    BY DEF Called
  <2> QED BY <1>1, <2>1, Kept DEF Divides
<1>3. PICK m, k : m = Len(cats) /\ k = Len(standard)
  OBVIOUS
<1>4. m \in Nat /\ k \in Nat /\ cats \in [1..m -> Coins] /\ standard \in [1..k -> Coins]
  BY <1>2, <1>3 DEF Divides
<1>5. (cats = <<>>) <=> (m = 0)
  BY <1>2, <1>3, NoneIn DEF Divides
<1>6. PICK catPart, standardPart :
         /\ catPart = Conditions(cats, co \o PushedToCATs(ts, f), <<>>)
         /\ standardPart = Conditions(standard, so \o PushedToStandard(ts, f), OthersAssert(ts))
  OBVIOUS
<1>7. /\ catPart = [i \in 1..m |->
                        Info[cats[i]].own \o Taken(cats[i], ForCATs(ts, f, co, i))]
      /\ standardPart = [i \in 1..k |->
             Info[standard[i]].own \o Taken(standard[i], ForStandard(ts, f, so, i))]
  BY <1>3, <1>6 DEF Conditions, ForCATs, ForStandard
<1>8. PICK a, b : /\ a = IF cats = <<>> THEN <<>> ELSE bundleCATs(cats, catPart)
                  /\ b = bundleStandardCoins(standard, standardPart)
  OBVIOUS
<1>9. r = a \o b /\ ~(cats # <<>> /\ CATsThrow(cats, catPart))
  BY <1>1, <1>6, <1>8 DEF Bundled
<1>10. catPart \in [1..m -> Seq(S)]
  <2>1. ASSUME NEW i \in 1..m PROVE catPart[i] \in Seq(S)
    <3>1. cats[i] \in Coins
      BY <1>4
    <3>2. Info[cats[i]].own \in Seq(S)
      BY <3>1 DEF Called
    <3>3. Taken(cats[i], ForCATs(ts, f, co, i)) \in Seq(S)
      BY PushedAre, TakenAre
    <3>4. Info[cats[i]].own \o Taken(cats[i], ForCATs(ts, f, co, i)) \in Seq(S)
      BY <3>2, <3>3
    <3> QED BY <1>7, <3>4
  <2> QED BY <1>7, <2>1
<1>11. /\ a = [i \in 1..m |-> a[i]]
       /\ \A i \in 1..m : a[i].coin = cats[i] /\ a[i].conditions = catPart[i]
       /\ Ringed(cats, a)
  <2>1. CASE m = 0
    BY <1>3, <1>5, <1>8, <2>1 DEF Ringed
  <2>2. CASE m # 0
    <3>1. a = bundleCATs(cats, catPart) /\ ~CATsThrow(cats, catPart)
      BY <1>5, <1>8, <1>9, <2>2
    <3>2. m \in Nat \ {0} /\ AmountsAreInts(S)
      BY <1>4, <2>2 DEF Called
    <3>3. LaysRing(m, a, cats, catPart)
      BY <1>4, <1>10, <3>1, <3>2, CATsLaid
    <3> QED BY <1>3, <3>3 DEF Ringed, LaysRing
  <2> QED BY <2>1, <2>2
<1>12. /\ b = [i \in 1..k |-> b[i]]
       /\ \A i \in 1..k : b[i].coin = standard[i] /\ b[i].conditions = standardPart[i]
  BY <1>3, <1>8 DEF bundleStandardCoins
<1>13. PICK Z : Z = {a[i] : i \in 1..m} \cup {b[i] : i \in 1..k}
  OBVIOUS
<1>14. a \in Seq(Z) /\ b \in Seq(Z) /\ Len(a) = m /\ Len(b) = k
  <2>1. a \in [1..m -> Z] /\ b \in [1..k -> Z]
    BY <1>11, <1>12, <1>13
  <2> QED BY <1>4, <2>1
<1>15. /\ r \in Seq(Z) /\ Len(r) = m + k
       /\ \A i \in 1..m : r[i] = a[i]
       /\ \A i \in (m + 1)..(m + k) : r[i] = b[i - m]
  <2>1. r \in Seq(Z)
    BY <1>9, <1>14
  <2>2. /\ Len(r) = m + k
        /\ \A i \in 1..m : r[i] = a[i]
        /\ \A i \in (m + 1)..(m + k) : r[i] = b[i - m]
    <3>1. /\ Len(a \o b) = Len(a) + Len(b)
          /\ \A i \in 1..Len(a) : (a \o b)[i] = a[i]
          /\ \A i \in (Len(a) + 1)..(Len(a) + Len(b)) : (a \o b)[i] = b[i - Len(a)]
      BY <1>14, Following
    <3> QED BY <1>9, <1>14, <3>1
  <2> QED BY <2>1, <2>2
<1>16. \A i \in 1..k : r[m + i] = b[i]
  <2>1. TAKE i \in 1..k
  <2>2. PICK q : q = m + i
    OBVIOUS
  <2>3. q \in (m + 1)..(m + k) /\ q - m = i
    BY <1>4, <2>2
  <2> QED BY <1>15, <2>2, <2>3
<1>17. Laid(ts, f, co, so, cats, standard, r)
  <2>1. ASSUME NEW i \in 1..m PROVE Spends(r[i], cats[i], ForCATs(ts, f, co, i))
    BY <1>7, <1>11, <1>15 DEF Spends
  <2>2. ASSUME NEW i \in 1..k PROVE Spends(r[m + i], standard[i], ForStandard(ts, f, so, i))
    <3>1. b[i].coin = standard[i] /\ b[i].conditions = standardPart[i] /\ r[m + i] = b[i]
      BY <1>12, <1>16
    <3>2. standardPart[i] = Info[standard[i]].own \o Taken(standard[i], ForStandard(ts, f, so, i))
      BY <1>7
    <3> QED BY <3>1, <3>2 DEF Spends
  <2> QED BY <1>3, <2>1, <2>2 DEF Laid
<1>18. Ringed(cats, r)
  BY <1>3, <1>11, <1>15, RingedStill
<1> QED BY <1>2, <1>3, <1>15, <1>17, <1>18

-----------------------------------------------------------------------------
(* What one call leaves: the inductive invariant of SpendBundle. *)

(* What the spends of a state are: none, or those of one call. *)
Silent == spends = <<>> /\ (outcome = "returned" => things = <<>> /\ wanted = <<>>)
Wanted(ts, co, so) ==
    (IF \E i \in 1..Len(ts) : IsCAT(ts[i]) THEN co ELSE <<>>)
        \o (IF \E i \in 1..Len(ts) : IsStandard(ts[i]) THEN so ELSE <<>>)
Returned(ts, f, conditions, result) ==
    things = ts /\ fee = f /\ wanted = conditions /\ result # Threw /\ spends = result

Bundles(n, ts, f, co, so) ==
    /\ n \in Nat /\ ts \in [1..n -> Coins] /\ IsInjective(ts)
    /\ f \in Fees /\ co \in CATOutputs /\ so \in StandardOutputs
    /\ Returned(ts, f, Wanted(ts, co, so), Bundled(ts, f, co, so))

ToLaunch(ts, amount, inner, out) ==
    singletonLaunchConditions(Launcher(ts, amount), inner) \o out
Launches(n, ts, f, amount, inner, out) ==
    /\ n \in Nat \ {0} /\ ts \in [1..n -> StandardCoins] /\ IsInjective(ts)
    /\ f \in Fees /\ amount \in LaunchAmounts /\ inner \in InnerPuzzles /\ out \in LaunchOutputs
    /\ Bundled(ts, f, <<>>, ToLaunch(ts, amount, inner, out)) # Threw
    /\ Returned(ts, f, ToLaunch(ts, amount, inner, out),
                Append(Bundled(ts, f, <<>>, ToLaunch(ts, amount, inner, out)),
                       launcherSpend(Launcher(ts, amount), inner)))
Uses(cs, inner) ==
    /\ cs \in SetToSeqs(P2Coins)
    /\ Returned(cs, 0, singletonOutputConditions(cs),
                Append([i \in 1..Len(cs) |-> p2Spend(cs[i], inner)],
                       [coin |-> Singleton, inner |-> inner,
                        conditions |-> singletonOutputConditions(cs)]))

OneCall ==
    \/ Silent
    \/ \E n, ts, f, co, so : Bundles(n, ts, f, co, so)
    \/ \E n, ts, f, amount, inner, out : Launches(n, ts, f, amount, inner, out)
    \/ \E cs, inner : Uses(cs, inner)

(* End leaves an exception or a result.                                      *)
LEMMA Ends ==
    ASSUME NEW ts, NEW f, NEW conditions, NEW result, wanted' = conditions, End(ts, f, result)
    PROVE  \/ Silent' /\ result = Threw
           \/ Returned(ts, f, conditions, result)'
<1>1. CASE result = Threw
  BY <1>1 DEF End, Silent
<1>2. CASE result # Threw
  BY <1>2 DEF End, Returned
<1> QED BY <1>1, <1>2

(* A call of bundle leaves what OneCall says.                                *)
LEMMA CallIsOne == Call => OneCall'
<1> SUFFICES ASSUME Call PROVE OneCall'
  OBVIOUS
<1>1. PICK n \in 0..MaxThings : \E ts \in [1..n -> Coins] :
         /\ IsInjective(ts)
         /\ \E f \in Fees, co \in CATOutputs, so \in StandardOutputs :
              /\ wanted' = (IF \E i \in 1..n : IsCAT(ts[i]) THEN co ELSE <<>>)
                              \o (IF \E i \in 1..n : IsStandard(ts[i]) THEN so ELSE <<>>)
              /\ End(ts, f, Bundled(ts, f, co, so))
  BY DEF Call
<1>2. PICK ts \in [1..n -> Coins] :
         /\ IsInjective(ts)
         /\ \E f \in Fees, co \in CATOutputs, so \in StandardOutputs :
              /\ wanted' = (IF \E i \in 1..n : IsCAT(ts[i]) THEN co ELSE <<>>)
                              \o (IF \E i \in 1..n : IsStandard(ts[i]) THEN so ELSE <<>>)
              /\ End(ts, f, Bundled(ts, f, co, so))
  BY <1>1
<1>3. PICK f \in Fees, co \in CATOutputs, so \in StandardOutputs :
         /\ wanted' = (IF \E i \in 1..n : IsCAT(ts[i]) THEN co ELSE <<>>)
                         \o (IF \E i \in 1..n : IsStandard(ts[i]) THEN so ELSE <<>>)
         /\ End(ts, f, Bundled(ts, f, co, so))
  BY <1>2
<1>4. n \in Nat /\ Len(ts) = n
  BY BoundsAssumption
<1>5. wanted' = Wanted(ts, co, so)
  BY <1>3, <1>4 DEF Wanted
<1>6. \/ Silent'
      \/ Returned(ts, f, Wanted(ts, co, so), Bundled(ts, f, co, so))'
  BY <1>3, <1>5, Ends
<1>7. Bundles(n, ts, f, co, so)' \/ Silent'
  BY <1>2, <1>4, <1>6 DEF Bundles
<1> QED BY <1>7 DEF OneCall

(* So does launchSingleton.                                                  *)
LEMMA LaunchIsOne == Launch => OneCall'
<1> SUFFICES ASSUME Launch PROVE OneCall'
  OBVIOUS
<1> DEFINE result(ts, f, amount, inner, out) ==
       IF amount % 2 = 0 \/ Bundled(ts, f, <<>>, ToLaunch(ts, amount, inner, out)) = Threw THEN Threw
       ELSE Append(Bundled(ts, f, <<>>, ToLaunch(ts, amount, inner, out)),
                   launcherSpend(Launcher(ts, amount), inner))
<1>1. PICK n \in 1..MaxThings : \E ts \in [1..n -> StandardCoins] :
         /\ IsInjective(ts)
         /\ \E f \in Fees, amount \in LaunchAmounts, inner \in InnerPuzzles, out \in LaunchOutputs :
              /\ wanted' = ToLaunch(ts, amount, inner, out)
              /\ End(ts, f, result(ts, f, amount, inner, out))
  BY DEF Launch, ToLaunch
<1>2. PICK ts \in [1..n -> StandardCoins] :
         /\ IsInjective(ts)
         /\ \E f \in Fees, amount \in LaunchAmounts, inner \in InnerPuzzles, out \in LaunchOutputs :
              /\ wanted' = ToLaunch(ts, amount, inner, out)
              /\ End(ts, f, result(ts, f, amount, inner, out))
  BY <1>1
<1>3. PICK f \in Fees, amount \in LaunchAmounts, inner \in InnerPuzzles, out \in LaunchOutputs :
         /\ wanted' = ToLaunch(ts, amount, inner, out)
         /\ End(ts, f, result(ts, f, amount, inner, out))
  BY <1>2
<1>4. PICK x : x = result(ts, f, amount, inner, out)
  OBVIOUS
<1>5. \/ Silent'
      \/ x # Threw /\ Returned(ts, f, ToLaunch(ts, amount, inner, out), x)'
  <2>1. End(ts, f, x)
    BY <1>3, <1>4
  <2>2. \/ Silent' /\ x = Threw
        \/ Returned(ts, f, ToLaunch(ts, amount, inner, out), x)'
    BY <1>3, <2>1, Ends
  <2>3. Returned(ts, f, ToLaunch(ts, amount, inner, out), x)' => x # Threw
    BY DEF Returned
  <2> QED BY <2>2, <2>3
<1>6. n \in Nat \ {0}
  BY BoundsAssumption
<1>7. CASE x # Threw /\ Returned(ts, f, ToLaunch(ts, amount, inner, out), x)'
  <2>1. /\ Bundled(ts, f, <<>>, ToLaunch(ts, amount, inner, out)) # Threw
        /\ x = Append(Bundled(ts, f, <<>>, ToLaunch(ts, amount, inner, out)),
                      launcherSpend(Launcher(ts, amount), inner))
    BY <1>4, <1>7
  <2>2. Launches(n, ts, f, amount, inner, out)'
    BY <1>2, <1>6, <1>7, <2>1 DEF Launches
  <2> QED BY <2>2 DEF OneCall
<1> QED BY <1>5, <1>7 DEF OneCall

(* So does useP2SingletonCoinsConditionsAndCoinSol.                          *)
LEMMA UseIsOne == UseP2Coins => OneCall'
<1> SUFFICES ASSUME UseP2Coins PROVE OneCall'
  OBVIOUS
<1>1. PICK cs \in SetToSeqs(P2Coins), inner \in InnerPuzzles :
         LET conditions == singletonOutputConditions(cs)
         IN  /\ wanted' = conditions
             /\ End(cs, 0, Append([i \in 1..Len(cs) |-> p2Spend(cs[i], inner)],
                                  [coin |-> Singleton, inner |-> inner, conditions |-> conditions]))
  BY DEF UseP2Coins
<1>2. PICK x : x = Append([i \in 1..Len(cs) |-> p2Spend(cs[i], inner)],
                          [coin |-> Singleton, inner |-> inner,
                           conditions |-> singletonOutputConditions(cs)])
  OBVIOUS
<1>3. Silent' \/ Returned(cs, 0, singletonOutputConditions(cs), x)'
  BY <1>1, <1>2, Ends
<1>4. Silent' \/ Uses(cs, inner)'
  BY <1>2, <1>3 DEF Uses
<1> QED BY <1>4 DEF OneCall

(* What a call returned does not change.                                     *)
LEMMA Stays ==
    ASSUME NEW ts, NEW f, NEW conditions, NEW result,
           Returned(ts, f, conditions, result), UNCHANGED vars
    PROVE  Returned(ts, f, conditions, result)'
BY DEF Returned, vars

(* OneCall is an invariant: no second call is made.                          *)
LEMMA SpecIsOne == Spec => []OneCall
<1>1. Init => OneCall
  BY DEF Init, OneCall, Silent
<1>2. OneCall /\ [Next]_vars => OneCall'
  <2>1. OneCall /\ UNCHANGED vars => OneCall'
    <3>1. SUFFICES ASSUME OneCall, UNCHANGED vars PROVE OneCall'
      OBVIOUS
    <3>2. CASE Silent
      BY <3>1, <3>2 DEF vars, OneCall, Silent
    <3>3. ASSUME NEW n, NEW ts, NEW f, NEW co, NEW so, Bundles(n, ts, f, co, so) PROVE OneCall'
      <4>1. Bundles(n, ts, f, co, so)'
        BY <3>1, <3>3, Stays DEF Bundles
      <4> QED BY <4>1 DEF OneCall
    <3>4. ASSUME NEW n, NEW ts, NEW f, NEW amount, NEW inner, NEW out,
                 Launches(n, ts, f, amount, inner, out)
          PROVE  OneCall'
      <4>1. Launches(n, ts, f, amount, inner, out)'
        BY <3>1, <3>4, Stays DEF Launches
      <4> QED BY <4>1 DEF OneCall
    <3>5. ASSUME NEW cs, NEW inner, Uses(cs, inner) PROVE OneCall'
      <4>1. Uses(cs, inner)'
        BY <3>1, <3>5, Stays DEF Uses
      <4> QED BY <4>1 DEF OneCall
    <3> QED BY <3>1, <3>2, <3>3, <3>4, <3>5 DEF OneCall
  <2> QED BY <2>1, CallIsOne, LaunchIsOne, UseIsOne DEF Next
<1> QED BY <1>1, <1>2, PTL DEF Spec

-----------------------------------------------------------------------------
(* The spends of a bundle, with or without a launcher's. *)

AllOf(ts, f, more) ==
    Given \cup {createCoinAnnouncement(ts), reserveFee(f),
                assertCoinAnnouncement(TheAnnouncement(ts))} \cup more

(* What the spends of a bundle are, with or without a launcher's at the end. *)
Bundle(S, n, ts, f, co, so, cats, standard, rest) ==
    /\ Called(S, n, ts, f, co, so) /\ things = ts /\ fee = f
    /\ Divides(ts, cats, standard)
    /\ Laid(ts, f, co, so, cats, standard, spends) /\ Ringed(cats, spends)
    /\ rest \in {0, 1} /\ Len(spends) = Len(cats) + Len(standard) + rest

(* A sequence of some elements is one of more.                               *)
LEMMA SeqOfMore == ASSUME NEW A, NEW B, A \subseteq B, NEW s \in Seq(A) PROVE s \in Seq(B)
OBVIOUS

(* Fees are not negative.                                                    *)
LEMMA FeesAreNat == \A f \in Fees : f \in Nat
BY BoundsAssumption

(* A call of bundle leaves a Bundle, with nothing after it.                  *)
LEMMA BundlesAre ==
    ASSUME NEW n, NEW ts, NEW f, NEW co, NEW so, Bundles(n, ts, f, co, so)
    PROVE  \E cats, standard :
               Bundle(AllOf(ts, f, {}), n, ts, f, co, so, cats, standard, 0)
<1> DEFINE S == AllOf(ts, f, {})
<1>1. AmountsAreInts(S)
  <2>1. \A d \in Given : d.op = "CREATE_COIN" => d.amount \in Int
    BY ApplicationAssumption
  <2>2. /\ createCoinAnnouncement(ts).op # "CREATE_COIN" /\ reserveFee(f).op # "CREATE_COIN"
        /\ assertCoinAnnouncement(TheAnnouncement(ts)).op # "CREATE_COIN"
    BY DEF createCoinAnnouncement, reserveFee, assertCoinAnnouncement
  <2> QED BY <2>1, <2>2 DEF AmountsAreInts, AllOf
<1>2. Given \subseteq S /\ \A l \in Lists : l \in Seq(Given)
  BY ApplicationAssumption DEF AllOf
<1>3. \A l \in Lists : l \in Seq(S)
  <2> HIDE DEF S
  <2>1. TAKE l \in Lists
  <2>2. l \in Seq(Given)
    BY <1>2
  <2> QED BY <1>2, <2>2, SeqOfMore
<1>4. co \in Seq(S) /\ so \in Seq(S) /\ \A c \in Coins : Info[c].own \in Seq(S)
  <2> HIDE DEF S
  <2>1. co \in Lists /\ so \in Lists /\ \A c \in Coins : Info[c].own \in Lists
    BY DEF Bundles, Lists
  <2> QED BY <1>3, <2>1
<1>5. /\ createCoinAnnouncement(ts) \in S /\ reserveFee(f) \in S
      /\ assertCoinAnnouncement(TheAnnouncement(ts)) \in S
  BY DEF AllOf
<1>6. f \in Nat
  BY FeesAreNat DEF Bundles
<1> HIDE DEF S
<1>7. Called(S, n, ts, f, co, so)
  BY <1>1, <1>4, <1>5, <1>6 DEF Called, Bundles
<1>8. PICK r : r = Bundled(ts, f, co, so)
  OBVIOUS
<1>9. r # Threw /\ spends = r /\ things = ts /\ fee = f
  BY <1>8 DEF Bundles, Returned
<1>10. PICK cats, standard :
               /\ Divides(ts, cats, standard)
               /\ Laid(ts, f, co, so, cats, standard, r) /\ Ringed(cats, r)
               /\ Len(r) = Len(cats) + Len(standard)
  BY <1>7, <1>8, <1>9, BundledIs
<1>11. Len(spends) = Len(cats) + Len(standard) + 0
  BY <1>9, <1>10 DEF Divides
<1>12. Bundle(S, n, ts, f, co, so, cats, standard, 0)
  BY <1>7, <1>9, <1>10, <1>11 DEF Bundle
<1> QED BY <1>12 DEF S

(* The conditions that launch a singleton. *)
LaunchConditions(ts, amount, inner) ==
    LET launcher == Launcher(ts, amount)
    IN  {createCoin(LauncherPuzzle, launcher.amount),
         assertCoinAnnouncement(Announcement(launcher, launcherSolution(launcher, inner), FALSE))}

(* Append adds one element at the end.                                       *)
LEMMA AppendIs ==
    ASSUME NEW S, NEW s \in Seq(S), NEW x, NEW m, m = Len(s)
    PROVE  /\ Append(s, x) \in Seq(S \cup {x}) /\ Len(Append(s, x)) = m + 1
           /\ \A i \in 1..m : Append(s, x)[i] = s[i]
           /\ Append(s, x)[m + 1] = x
<1>1. s \in Seq(S \cup {x})
  BY SeqOfMore
<1> QED BY <1>1

(* A launch leaves a Bundle with the launcher's spend after it.              *)
LEMMA LaunchesAre ==
    ASSUME NEW n, NEW ts, NEW f, NEW amount, NEW inner, NEW out,
           Launches(n, ts, f, amount, inner, out)
    PROVE  \E cats, standard :
               /\ Bundle(AllOf(ts, f, LaunchConditions(ts, amount, inner)), n, ts, f, <<>>,
                         ToLaunch(ts, amount, inner, out), cats, standard, 1)
               /\ spends[Len(spends)] = launcherSpend(Launcher(ts, amount), inner)
<1> DEFINE S == AllOf(ts, f, LaunchConditions(ts, amount, inner))
<1>1. AmountsAreInts(S)
  <2>1. \A d \in Given : d.op = "CREATE_COIN" => d.amount \in Int
    BY ApplicationAssumption
  <2>2. /\ createCoinAnnouncement(ts).op # "CREATE_COIN" /\ reserveFee(f).op # "CREATE_COIN"
        /\ \A a : assertCoinAnnouncement(a).op # "CREATE_COIN"
        /\ createCoin(LauncherPuzzle, Launcher(ts, amount).amount).amount \in Int
    BY BoundsAssumption
    DEF createCoinAnnouncement, reserveFee, assertCoinAnnouncement, createCoin, Launcher, Launches
  <2> QED BY <2>1, <2>2 DEF AmountsAreInts, AllOf, LaunchConditions
<1>2. Given \subseteq S /\ \A l \in Lists : l \in Seq(Given)
  BY ApplicationAssumption DEF AllOf
<1>3. \A l \in Lists : l \in Seq(S)
  <2> HIDE DEF S
  <2>1. TAKE l \in Lists
  <2>2. l \in Seq(Given)
    BY <1>2
  <2> QED BY <1>2, <2>2, SeqOfMore
<1>4. out \in Seq(S) /\ \A c \in Coins : Info[c].own \in Seq(S)
  <2> HIDE DEF S
  <2>1. out \in Lists /\ \A c \in Coins : Info[c].own \in Lists
    BY DEF Launches, Lists
  <2> QED BY <1>3, <2>1
<1>5. /\ createCoinAnnouncement(ts) \in S /\ reserveFee(f) \in S
      /\ assertCoinAnnouncement(TheAnnouncement(ts)) \in S
      /\ LaunchConditions(ts, amount, inner) \subseteq S
  BY DEF AllOf
<1>6. f \in Nat
  BY FeesAreNat DEF Launches
<1> HIDE DEF S
<1>7. ToLaunch(ts, amount, inner, out) \in Seq(S) /\ <<>> \in Seq(S)
  <2>1. singletonLaunchConditions(Launcher(ts, amount), inner) \in Seq(S)
    <3>1. PICK x, y : singletonLaunchConditions(Launcher(ts, amount), inner) = <<x, y>>
                      /\ {x, y} = LaunchConditions(ts, amount, inner)
      BY DEF singletonLaunchConditions, LaunchConditions
    <3>2. x \in S /\ y \in S
      BY <1>5, <3>1
    <3> QED BY <3>1, <3>2
  <2> QED BY <1>4, <2>1 DEF ToLaunch
<1>8. ts \in [1..n -> Coins] /\ n \in Nat
  BY DEF Launches, StandardCoins
<1>9. Called(S, n, ts, f, <<>>, ToLaunch(ts, amount, inner, out))
  BY <1>1, <1>4, <1>5, <1>6, <1>7, <1>8 DEF Called, Launches
<1>10. PICK r : r = Bundled(ts, f, <<>>, ToLaunch(ts, amount, inner, out))
  OBVIOUS
<1>11. PICK x : x = launcherSpend(Launcher(ts, amount), inner)
  OBVIOUS
<1>12. r # Threw /\ spends = Append(r, x) /\ things = ts /\ fee = f
  BY <1>10, <1>11 DEF Launches, Returned
<1>13. PICK cats, standard :
               /\ Divides(ts, cats, standard)
               /\ Laid(ts, f, <<>>, ToLaunch(ts, amount, inner, out), cats, standard, r)
               /\ Ringed(cats, r)
               /\ Len(r) = Len(cats) + Len(standard)
               /\ \E Z : r \in Seq(Z)
  BY <1>9, <1>10, <1>12, BundledIs
<1>14. PICK m, k : m = Len(cats) /\ k = Len(standard)
  OBVIOUS
<1>15. m \in Nat /\ k \in Nat
  BY <1>13, <1>14 DEF Divides
<1>16. PICK Z : r \in Seq(Z)
  BY <1>13
<1>17. /\ Len(spends) = m + k + 1 /\ \A i \in 1..(m + k) : spends[i] = r[i]
       /\ spends[m + k + 1] = x
  <2>1. /\ Len(Append(r, x)) = m + k + 1 /\ \A i \in 1..(m + k) : Append(r, x)[i] = r[i]
        /\ Append(r, x)[m + k + 1] = x
    BY <1>13, <1>14, <1>16, AppendIs
  <2> QED BY <1>12, <2>1
<1>18. Laid(ts, f, <<>>, ToLaunch(ts, amount, inner, out), cats, standard, spends)
  <2>1. ASSUME NEW i \in 1..m PROVE Spends(spends[i], cats[i], ForCATs(ts, f, <<>>, i))
    <3>1. spends[i] = r[i]
      BY <1>15, <1>17
    <3> QED BY <1>13, <1>14, <3>1 DEF Laid
  <2>2. ASSUME NEW i \in 1..k
        PROVE  Spends(spends[m + i], standard[i],
                      ForStandard(ts, f, ToLaunch(ts, amount, inner, out), i))
    <3>1. PICK q : q = m + i
      OBVIOUS
    <3>2. q \in 1..(m + k)
      BY <1>15, <3>1
    <3>3. spends[q] = r[q]
      BY <1>17, <3>2
    <3> QED BY <1>13, <1>14, <3>1, <3>3 DEF Laid
  <2> QED BY <1>14, <2>1, <2>2 DEF Laid
<1>19. Ringed(cats, spends)
  <2>1. \A i \in 1..m : spends[i] = r[i]
    BY <1>15, <1>17
  <2> QED BY <1>13, <1>14, <2>1, RingedStill
<1>20. Bundle(S, n, ts, f, <<>>, ToLaunch(ts, amount, inner, out), cats, standard, 1)
  BY <1>9, <1>12, <1>13, <1>14, <1>17, <1>18, <1>19 DEF Bundle
<1>21. spends[Len(spends)] = x
  BY <1>17
<1> QED BY <1>11, <1>20, <1>21 DEF S

-----------------------------------------------------------------------------
(* The ring closes and balances. *)

(* No coin is a CAT and a standard coin.                                     *)
LEMMA Kinds == \A c \in CATCoins : c \in Coins /\ c \notin StandardCoins
BY DEF CATCoins, StandardCoins

(* Each part has coins of its kind.                                          *)
LEMMA DividedAre ==
    ASSUME NEW ts, NEW cats, NEW standard, Divides(ts, cats, standard)
    PROVE  /\ Len(cats) \in Nat /\ Len(standard) \in Nat
           /\ \A i \in 1..Len(cats) : cats[i] \in CATCoins
           /\ \A i \in 1..Len(standard) : standard[i] \in StandardCoins
<1>1. Len(cats) \in Nat /\ Len(standard) \in Nat
  BY DEF Divides
<1>2. (\E at : Keeps(ts, CATCoins, cats, at)) /\ \E at : Keeps(ts, StandardCoins, standard, at)
  BY DEF Divides
<1>3. \A i \in 1..Len(cats) : cats[i] \in CATCoins
  <2>1. PICK at : Keeps(ts, CATCoins, cats, at)
    BY <1>2
  <2> QED BY <2>1 DEF Keeps
<1>4. \A i \in 1..Len(standard) : standard[i] \in StandardCoins
  <2>1. PICK at : Keeps(ts, StandardCoins, standard, at)
    BY <1>2
  <2> QED BY <2>1 DEF Keeps
<1> QED BY <1>1, <1>3, <1>4

(* The spends are of the CATs, of the standard coins and of the rest. *)
InOrder(cats, m, standard, k, rest) ==
    /\ m \in Nat /\ k \in Nat /\ rest \in {0, 1} /\ Len(spends) = m + k + rest
    /\ \A i \in 1..m : spends[i].coin = cats[i] /\ cats[i] \in CATCoins
    /\ \A i \in 1..k : spends[m + i].coin = standard[i] /\ standard[i] \in StandardCoins
    /\ CATIndices = 1..m
    /\ \A i \in Indices : IsStandard(spends[i].coin) <=> i \in (m + 1)..(m + k)

(* The spends of a Bundle are in the order of their kinds.                   *)
LEMMA CoinsAre ==
    ASSUME NEW S, NEW n, NEW ts, NEW f, NEW co, NEW so, NEW cats, NEW standard, NEW rest,
           Bundle(S, n, ts, f, co, so, cats, standard, rest),
           rest = 1 => spends[Len(spends)].coin \notin Coins,
           NEW m, NEW k, m = Len(cats), k = Len(standard)
    PROVE  InOrder(cats, m, standard, k, rest)
<1>1. m \in Nat /\ k \in Nat /\ rest \in {0, 1} /\ Len(spends) = m + k + rest
  BY DividedAre DEF Bundle
<1>2. \A i \in 1..m : spends[i].coin = cats[i] /\ cats[i] \in CATCoins
  BY DividedAre DEF Bundle, Laid, Spends
<1>3. \A i \in 1..k : spends[m + i].coin = standard[i] /\ standard[i] \in StandardCoins
  BY DividedAre DEF Bundle, Laid, Spends
<1>4. ASSUME NEW i \in Indices
      PROVE  /\ IsCAT(spends[i].coin) <=> i \in 1..m
             /\ IsStandard(spends[i].coin) <=> i \in (m + 1)..(m + k)
  <2>1. i \in 1..(m + k + rest)
    BY <1>1 DEF Indices
  <2>2. CASE i \in 1..m
    <3>1. spends[i].coin \in CATCoins /\ i \notin (m + 1)..(m + k)
      BY <1>1, <1>2, <2>2
    <3> QED BY <2>2, <3>1, Kinds DEF IsCAT, IsStandard
  <2>3. CASE i \in (m + 1)..(m + k)
    <3>1. PICK j : j = i - m
      OBVIOUS
    <3>2. j \in 1..k /\ m + j = i /\ i \notin 1..m
      BY <1>1, <2>3, <3>1
    <3>3. spends[i].coin \in StandardCoins
      BY <1>3, <3>2
    <3> QED BY <2>3, <3>2, <3>3, Kinds DEF IsCAT, IsStandard
  <2>4. CASE i = m + k + 1
    <3>1. rest = 1 /\ i = Len(spends) /\ i \notin 1..m /\ i \notin (m + 1)..(m + k)
      BY <1>1, <2>1, <2>4
    <3>2. spends[i].coin \notin Coins
      BY <3>1
    <3> QED BY <3>1, <3>2 DEF IsCAT, IsStandard, CATCoins, StandardCoins
  <2> QED BY <1>1, <2>1, <2>2, <2>3, <2>4
<1>5. CATIndices = 1..m
  <2>1. \A i \in 1..m : i \in Indices
    BY <1>1 DEF Indices
  <2> QED BY <1>4, <2>1 DEF CATIndices
<1> QED BY <1>1, <1>2, <1>3, <1>4, <1>5 DEF InOrder

(* The ring of a Bundle closes, and its subtotals run from 0.                *)
LEMMA BundleRings ==
    ASSUME NEW S, NEW n, NEW ts, NEW f, NEW co, NEW so, NEW cats, NEW standard, NEW rest,
           Bundle(S, n, ts, f, co, so, cats, standard, rest),
           rest = 1 => spends[Len(spends)].coin \notin Coins
    PROVE  RingCloses
<1>1. PICK m, k : m = Len(cats) /\ k = Len(standard)
  OBVIOUS
<1>2. /\ m \in Nat /\ CATIndices = 1..m
      /\ \A i \in 1..m : spends[i].coin = cats[i]
  <2>1. InOrder(cats, m, standard, k, rest)
    BY <1>1, CoinsAre
  <2> QED BY <2>1 DEF InOrder
<1>3. CASE m = 0
  BY <1>2, <1>3 DEF RingCloses
<1>4. CASE m # 0
  <2>1. /\ \A i \in 1..m : /\ spends[i].prev = cats[prevIndex(i, m)]
                           /\ spends[i].next = cats[nextIndex(i, m)]
        /\ \E e, sums, least : RingOf(m, spends, e, sums, least)
    BY <1>1, <1>4 DEF Bundle, Ringed
  <2>2. PICK e, sums, least : RingOf(m, spends, e, sums, least)
    BY <2>1
  <2>3. /\ \A i \in 1..m : /\ sums[i - 1] \in Int /\ sums[i] = sums[i - 1] + DeltaOf(spends[i])
                           /\ spends[i].subtotal = sums[i - 1] - least
                           /\ least <= sums[i - 1] /\ DeltaOf(spends[i]) \in Int
        /\ sums[m] = 0 /\ sums[0] = 0 /\ least \in Int
        /\ \E i \in 1..m : least = sums[i - 1]
    <3>1. AreSums(m, e, sums) /\ e \in [1..m -> Int] /\ sums[m] = 0 /\ least \in Int
      BY <2>2 DEF RingOf
    <3>2. sums \in [0..m -> Int] /\ sums[0] = 0 /\ \A i \in 1..m : sums[i] = sums[i - 1] + e[i]
      BY <3>1 DEF AreSums
    <3>3. ASSUME NEW i \in 1..m
          PROVE  /\ sums[i - 1] \in Int /\ sums[i] = sums[i - 1] + DeltaOf(spends[i])
                 /\ DeltaOf(spends[i]) \in Int
                 /\ spends[i].subtotal = sums[i - 1] - least /\ least <= sums[i - 1]
      <4>1. e[i] = DeltaOf(spends[i])
        BY <2>2 DEF RingOf
      <4>2. spends[i].subtotal = sums[i - 1] - least /\ least <= sums[i - 1]
        BY <2>2 DEF RingOf
      <4>3. i - 1 \in 0..m
        BY <1>2
      <4> QED BY <3>1, <3>2, <4>1, <4>2, <4>3
    <3>4. \E i \in 1..m : least = sums[i - 1]
      BY <2>2 DEF RingOf
    <3> QED BY <3>1, <3>2, <3>3, <3>4
  <2>4. ASSUME NEW i \in 1..m
        PROVE  \E j \in 1..m : /\ spends[i].next = spends[j].coin
                               /\ spends[j].prev = spends[i].coin
                               /\ spends[j].subtotal = spends[i].subtotal + DeltaOf(spends[i])
    <3>1. PICK j : j = nextIndex(i, m)
      OBVIOUS
    <3>2. j = IF i = m THEN 1 ELSE i + 1
      BY <1>2, <1>4, <3>1, Ring
    <3>3. j \in 1..m
      BY <1>2, <1>4, <3>2
    <3>4. prevIndex(j, m) = i
      <4>1. prevIndex(j, m) = IF j = 1 THEN m ELSE j - 1
        BY <1>2, <1>4, <3>3, Ring
      <4> QED BY <1>2, <3>2, <4>1
    <3>5. spends[i].next = spends[j].coin /\ spends[j].prev = spends[i].coin
      BY <1>2, <2>1, <3>1, <3>3, <3>4
    <3>6. sums[j - 1] = sums[i]
      BY <2>3, <3>2
    <3>7. spends[j].subtotal = spends[i].subtotal + DeltaOf(spends[i])
      <4>1. PICK x, y : x = sums[i - 1] /\ y = DeltaOf(spends[i])
        OBVIOUS
      <4>2. /\ x \in Int /\ y \in Int /\ least \in Int
            /\ spends[i].subtotal = x - least /\ sums[i] = x + y
            /\ spends[j].subtotal = sums[i] - least
        BY <2>3, <3>3, <3>6, <4>1
      <4> QED BY <4>1, <4>2
    <3> QED BY <3>3, <3>5, <3>7
  <2>5. \A i \in 1..m : spends[i].subtotal >= 0
    <3>1. TAKE i \in 1..m
    <3>2. PICK x : x = sums[i - 1]
      OBVIOUS
    <3>3. x \in Int /\ least \in Int /\ least <= x /\ spends[i].subtotal = x - least
      BY <2>3, <3>2
    <3> QED BY <3>3
  <2>6. \E i \in 1..m : spends[i].subtotal = 0
    <3>1. PICK i \in 1..m : least = sums[i - 1]
      BY <2>3
    <3>2. spends[i].subtotal = least - least /\ least \in Int
      BY <2>3, <3>1
    <3> QED BY <3>2
  <2> QED BY <1>2, <2>4, <2>5, <2>6 DEF RingCloses
<1> QED BY <1>3, <1>4

(* The deltas of a Bundle's CATs add up to nothing.                          *)
LEMMA BundleBalances ==
    ASSUME NEW S, NEW n, NEW ts, NEW f, NEW co, NEW so, NEW cats, NEW standard, NEW rest,
           Bundle(S, n, ts, f, co, so, cats, standard, rest),
           rest = 1 => spends[Len(spends)].coin \notin Coins
    PROVE  CATsBalance
<1>1. PICK m, k : m = Len(cats) /\ k = Len(standard)
  OBVIOUS
<1>2. /\ m \in Nat /\ k \in Nat /\ CATIndices = 1..m
      /\ rest \in {0, 1} /\ Len(spends) = m + k + rest
      /\ \A i \in 1..m : spends[i].coin = cats[i]
  <2>1. InOrder(cats, m, standard, k, rest)
    BY <1>1, CoinsAre
  <2> QED BY <2>1 DEF InOrder
<1>3. \A i, j \in CATIndices : Info[spends[i].coin].tail = Info[spends[j].coin].tail
  <2>1. SUFFICES ASSUME NEW i \in 1..m, NEW j \in 1..m
                 PROVE  Info[spends[i].coin].tail = Info[spends[j].coin].tail
    BY <1>2
  <2>2. m # 0
    BY <1>2
  <2>3. \A l \in 1..m : Info[cats[l]].tail = Info[cats[1]].tail
    BY <1>1, <2>2 DEF Bundle, Ringed
  <2> QED BY <1>2, <2>3
<1> DEFINE own == [i \in Indices |-> IF IsCAT(spends[i].coin) THEN DeltaOf(spends[i]) ELSE 0]
<1>4. PICK l, ds : l = m + k + rest /\ ds = own
  OBVIOUS
<1>5. l \in Nat /\ m <= l /\ Indices = 1..l
  BY <1>2, <1>4 DEF Indices
<1>6. \A i \in 1..l : IsCAT(spends[i].coin) <=> i \in 1..m
  BY <1>2, <1>5 DEF CATIndices
<1>7. ds = [i \in 1..l |-> IF i \in 1..m THEN DeltaOf(spends[i]) ELSE 0]
  BY <1>4, <1>5, <1>6
<1> HIDE DEF own
<1>8. Total(ds) = 0
  <2>1. CASE m = 0
    <3>1. ds = [i \in 1..l |-> 0]
      BY <1>7, <2>1
    <3> QED BY <1>5, <3>1, NoSum
  <2>2. CASE m # 0
    <3>1. PICK e, sums, least : RingOf(m, spends, e, sums, least)
      BY <1>1, <2>2 DEF Bundle, Ringed
    <3>2. e \in [1..m -> Int] /\ AreSums(m, e, sums) /\ sums[m] = 0
      BY <3>1 DEF RingOf
    <3>3. \A i \in 1..m : e[i] = DeltaOf(spends[i])
      BY <3>1 DEF RingOf
    <3>4. /\ \A i \in 1..m : ds[i] = e[i]
          /\ \A i \in (m + 1)..l : ds[i] = 0
      BY <1>2, <1>5, <1>7, <3>3
    <3>5. ds \in [1..l -> Int]
      BY <1>7, <3>2, <3>3
    <3>6. Total(ds) = Total(e)
      <4>1. Prolongs(m, e, l, ds)
        BY <1>2, <1>5, <3>2, <3>4, <3>5 DEF Prolongs
      <4> QED BY <4>1, SameSum
    <3>7. PICK t : t = Sums(e)
      OBVIOUS
    <3>8. AreSums(m, e, t) /\ Total(e) = t[m]
      BY <1>2, <3>2, <3>7, Summed
    <3>9. t[m] = sums[m]
      BY <1>2, <3>2, <3>8, OneSum
    <3> QED BY <3>2, <3>6, <3>8, <3>9
  <2> QED BY <2>1, <2>2
<1>9. Total(own) = 0
  BY <1>4, <1>8 DEF own
<1> QED BY <1>3, <1>9 DEF CATsBalance, own

-----------------------------------------------------------------------------
(* The coin that leads a bundle. *)

(* Each coin is one of them.                                                 *)
LEMMA KindsOf == \A c \in Coins : c \in CATCoins \/ c \in StandardCoins
BY CoinsAssumption DEF CATCoins, StandardCoins

(* Of the coins of a kind, when there are some. *)
SomeOf(s, T) == \E i \in 1..Len(s) : s[i] \in T

(* Filter keeps the first of a kind first.                                   *)
LEMMA FirstKept ==
    ASSUME NEW S, NEW s \in Seq(S), NEW T, NEW r \in Seq(S), NEW at, Keeps(s, T, r, at)
    PROVE  /\ SomeOf(s, T) <=> Len(r) # 0
           /\ Len(s) # 0 /\ s[1] \in T => Len(r) # 0 /\ r[1] = s[1]
           /\ Len(s) > 1 /\ s[1] \in T /\ s[2] \in T => Len(r) > 1
           /\ Len(r) > 1 => Len(s) > 1
           /\ \A p, q \in 1..Len(r) : p # q => at[p] # at[q]
<1>1. PICK n, m : n = Len(s) /\ m = Len(r)
  OBVIOUS
<1>2. n \in Nat /\ m \in Nat
  BY <1>1
<1>3. /\ at \in [1..m -> 1..n]
      /\ \A q \in 1..m : r[q] = s[at[q]] /\ s[at[q]] \in T
      /\ \A i \in 1..n : s[i] \in T => \E q \in 1..m : at[q] = i
      /\ \A p, q \in 1..m : p < q => at[p] < at[q]
  BY <1>1 DEF Keeps
<1>4. (\E i \in 1..n : s[i] \in T) <=> m # 0
  <2>1. ASSUME m # 0 PROVE \E i \in 1..n : s[i] \in T
    <3>1. 1 \in 1..m
      BY <1>2, <2>1
    <3> QED BY <1>3, <3>1
  <2>2. ASSUME NEW i \in 1..n, s[i] \in T PROVE m # 0
    BY <1>2, <1>3, <2>2
  <2> QED BY <2>1, <2>2
<1>5. ASSUME n # 0, s[1] \in T PROVE m # 0 /\ r[1] = s[1]
  <2>1. 1 \in 1..n
    BY <1>2, <1>5
  <2>2. PICK q \in 1..m : at[q] = 1
    BY <1>3, <1>5, <2>1
  <2>3. 1 \in 1..m
    BY <1>2
  <2>4. at[1] \in 1..n
    BY <1>3, <2>3
  <2>5. q = 1
    BY <1>2, <1>3, <2>2, <2>3, <2>4
  <2> QED BY <1>3, <2>2, <2>3, <2>5
<1>6. ASSUME n > 1, s[1] \in T, s[2] \in T PROVE m > 1
  <2>1. PICK p \in 1..m : at[p] = 1
    BY <1>2, <1>3, <1>6
  <2>2. PICK q \in 1..m : at[q] = 2
    BY <1>2, <1>3, <1>6
  <2>3. p # q
    BY <2>1, <2>2
  <2> QED BY <1>2, <2>3
<1>7. ASSUME m > 1 PROVE n > 1
  <2>1. 1 \in 1..m /\ 2 \in 1..m
    BY <1>2, <1>7
  <2>2. at[1] < at[2] /\ at[1] \in 1..n /\ at[2] \in 1..n
    BY <1>3, <2>1
  <2> QED BY <1>2, <2>2
<1>8. ASSUME NEW p \in 1..m, NEW q \in 1..m, p # q PROVE at[p] # at[q]
  <2>1. p < q \/ q < p
    BY <1>2, <1>8
  <2>2. at[p] < at[q] \/ at[q] < at[p]
    BY <1>3, <2>1
  <2>3. at[p] \in 1..n /\ at[q] \in 1..n
    BY <1>3
  <2> QED BY <1>2, <2>2, <2>3
<1>9. SomeOf(s, T) <=> m # 0
  BY <1>1, <1>4 DEF SomeOf
<1> QED BY <1>1, <1>5, <1>6, <1>7, <1>8, <1>9

(* Who makes the announcement, and how many coins of each kind there are.  *)
Led(n, ts, cats, m, standard, k) ==
    /\ n \in Nat /\ m \in Nat /\ k \in Nat /\ Len(ts) = n
    /\ Morphs(ts) <=> m # 0
    /\ FeeWithStandard(ts) <=> m = 0
    /\ (\E i \in 1..Len(ts) : IsStandard(ts[i])) <=> k # 0
    /\ m # 0 => TheAnnouncement(ts) = Announcement(cats[1], ts, TRUE)
    /\ m = 0 /\ n # 0 => /\ k # 0
                         /\ TheAnnouncement(ts) = Announcement(standard[1], ts, FALSE)
                         /\ standard[1] = ts[1]
    /\ m = 0 => (n > 1 <=> k > 1)

(* The first CAT leads a bundle; without one, its first coin.                *)
LEMMA LeaderIs ==
    ASSUME NEW S, NEW n, NEW ts, NEW f, NEW co, NEW so, Called(S, n, ts, f, co, so),
           NEW cats, NEW standard, Divides(ts, cats, standard),
           NEW m, NEW k, m = Len(cats), k = Len(standard)
    PROVE  Led(n, ts, cats, m, standard, k)
<1>1. n \in Nat /\ ts \in [1..n -> Coins] /\ ts \in Seq(Coins) /\ Len(ts) = n
  BY DEF Called
<1>2. /\ cats = Filter(ts, CATCoins) /\ cats \in Seq(Coins) /\ standard \in Seq(Coins)
      /\ m \in Nat /\ k \in Nat
  BY DEF Divides
<1>3. PICK a : Keeps(ts, CATCoins, cats, a)
  BY DEF Divides
<1>4. PICK b : Keeps(ts, StandardCoins, standard, b)
  BY DEF Divides
<1>5. (\E i \in 1..n : ts[i] \in CATCoins) <=> m # 0
  <2>1. SomeOf(ts, CATCoins) <=> Len(cats) # 0
    BY <1>1, <1>2, <1>3, FirstKept
  <2> QED BY <1>1, <2>1 DEF SomeOf
<1>6. (\E i \in 1..n : ts[i] \in StandardCoins) <=> k # 0
  <2>1. SomeOf(ts, StandardCoins) <=> Len(standard) # 0
    BY <1>1, <1>2, <1>4, FirstKept
  <2> QED BY <1>1, <2>1 DEF SomeOf
<1>7. Morphs(ts) <=> m # 0
  BY <1>1, <1>5 DEF Morphs, IsCAT
<1>8. (\E i \in 1..Len(ts) : IsStandard(ts[i])) <=> k # 0
  BY <1>1, <1>6 DEF IsStandard
<1>9. m = 0 <=> \A i \in 1..n : ts[i] \in StandardCoins
  <2>1. \A i \in 1..n : ts[i] \in CATCoins <=> ts[i] \notin StandardCoins
    BY <1>1, Kinds, KindsOf
  <2> QED BY <1>5, <2>1
<1>10. FeeWithStandard(ts) <=> m = 0
  BY <1>1, <1>9 DEF FeeWithStandard, IsStandard
<1>11. ASSUME m # 0 PROVE TheAnnouncement(ts) = Announcement(cats[1], ts, TRUE)
  <2>1. cats # <<>> /\ Head(cats) = cats[1]
    BY <1>2, <1>11
  <2>2. TheAnnouncement(ts) = Announcement(Head(cats), ts, Morphs(ts))
    BY <1>2, <2>1 DEF TheAnnouncement
  <2>3. Morphs(ts) = TRUE
    BY <1>7, <1>11 DEF Morphs
  <2> QED BY <2>1, <2>2, <2>3
<1>12. ASSUME m = 0, n # 0
       PROVE  /\ k # 0 /\ TheAnnouncement(ts) = Announcement(standard[1], ts, FALSE)
              /\ standard[1] = ts[1]
  <2>1. cats = <<>>
    BY <1>2, <1>12, NoneIn
  <2>2. TheAnnouncement(ts) = Announcement(Head(ts), ts, Morphs(ts))
    BY <1>2, <2>1 DEF TheAnnouncement
  <2>3. Morphs(ts) = FALSE
    BY <1>7, <1>12 DEF Morphs
  <2>4. Head(ts) = ts[1] /\ ts[1] \in StandardCoins
    BY <1>1, <1>9, <1>12
  <2>5. k # 0 /\ standard[1] = ts[1]
    BY <1>1, <1>2, <1>4, <1>12, <2>4, FirstKept
  <2> QED BY <2>2, <2>3, <2>4, <2>5
<1>13. ASSUME m = 0 PROVE n > 1 <=> k > 1
  <2>1. ASSUME n > 1 PROVE k > 1
    <3>1. ts[1] \in StandardCoins /\ ts[2] \in StandardCoins
      BY <1>1, <1>9, <1>13, <2>1
    <3> QED BY <1>1, <1>2, <1>4, <2>1, <3>1, FirstKept
  <2>2. ASSUME k > 1 PROVE n > 1
    BY <1>1, <1>2, <1>4, <2>2, FirstKept
  <2> QED BY <2>1, <2>2
<1> QED BY <1>1, <1>2, <1>7, <1>8, <1>10, <1>11, <1>12, <1>13 DEF Led

-----------------------------------------------------------------------------
(* Where the conditions of a bundle are. *)

(* The conditions of the spend at i are the coin's own and what was added. *)
LEMMA ConditionsAre ==
    ASSUME NEW S, NEW n, NEW ts, NEW f, NEW co, NEW so, NEW cats, NEW standard, NEW rest,
           Bundle(S, n, ts, f, co, so, cats, standard, rest), NEW D
    PROVE  /\ \A i \in 1..Len(cats) :
                 /\ AllTake => (Has(spends[i].conditions, D) <=>
                        Has(Info[cats[i]].own, D) \/ Has(ForCATs(ts, f, co, i), D))
                 /\ spends[i].conditions \in Seq(S)
           /\ \A i \in 1..Len(standard) :
                 /\ AllTake => (Has(spends[Len(cats) + i].conditions, D) <=>
                        Has(Info[standard[i]].own, D) \/ Has(ForStandard(ts, f, so, i), D))
                 /\ spends[Len(cats) + i].conditions \in Seq(S)
<1>1. Called(S, n, ts, f, co, so) /\ Divides(ts, cats, standard)
      /\ Laid(ts, f, co, so, cats, standard, spends)
      /\ rest \in {0, 1} /\ Len(spends) = Len(cats) + Len(standard) + rest
  BY DEF Bundle
<1>2. \A c \in Coins : Info[c].own \in Seq(S)
  BY <1>1 DEF Called
<1>3. (\A i : ForCATs(ts, f, co, i) \in Seq(S)) /\ \A i : ForStandard(ts, f, so, i) \in Seq(S)
  BY <1>1, PushedAre
<1>4. ASSUME NEW c \in Coins, NEW added \in Seq(S), NEW q \in Indices,
             Spends(spends[q], c, added)
      PROVE  /\ AllTake => (Has(spends[q].conditions, D) <=>
                                Has(Info[c].own, D) \/ Has(added, D))
             /\ spends[q].conditions \in Seq(S)
  <2>1. /\ spends[q].conditions = Info[c].own \o Taken(c, added)
        /\ spends[q].coin = c /\ Info[c].own \in Seq(S)
    BY <1>2, <1>4 DEF Spends
  <2>2. Taken(c, added) \in Seq(S) /\ (Info[c].takes => Taken(c, added) = added)
    BY TakenAre
  <2>3. AllTake => Info[c].takes
    BY <2>1 DEF AllTake
  <2>4. /\ Has(Info[c].own \o Taken(c, added), D) <=>
               Has(Info[c].own, D) \/ Has(Taken(c, added), D)
        /\ Info[c].own \o Taken(c, added) \in Seq(S)
    BY <2>1, <2>2, HasJoined
  <2> QED BY <2>1, <2>2, <2>3, <2>4
<1>5. Len(cats) \in Nat /\ Len(standard) \in Nat
  BY <1>1, DividedAre
<1>6. ASSUME NEW i \in 1..Len(cats)
      PROVE  /\ AllTake => (Has(spends[i].conditions, D) <=>
                    Has(Info[cats[i]].own, D) \/ Has(ForCATs(ts, f, co, i), D))
             /\ spends[i].conditions \in Seq(S)
  <2>1. cats[i] \in Coins
    BY <1>1, DividedAre, Kinds
  <2>2. Spends(spends[i], cats[i], ForCATs(ts, f, co, i))
    BY <1>1 DEF Laid
  <2>3. i \in Indices
    BY <1>1, <1>5 DEF Indices
  <2> QED BY <1>3, <1>4, <2>1, <2>2, <2>3
<1>7. ASSUME NEW i \in 1..Len(standard)
      PROVE  /\ AllTake => (Has(spends[Len(cats) + i].conditions, D) <=>
                    Has(Info[standard[i]].own, D) \/ Has(ForStandard(ts, f, so, i), D))
             /\ spends[Len(cats) + i].conditions \in Seq(S)
  <2>1. standard[i] \in Coins
    BY <1>1, DividedAre DEF StandardCoins
  <2>2. Spends(spends[Len(cats) + i], standard[i], ForStandard(ts, f, so, i))
    BY <1>1 DEF Laid
  <2>3. Len(cats) + i \in Indices
    BY <1>1, <1>5 DEF Indices
  <2> QED BY <1>3, <1>4, <2>1, <2>2, <2>3
<1> QED BY <1>6, <1>7

(* What bundle() pushes. *)
LEMMA PushedHas ==
    ASSUME NEW S, NEW n, NEW ts, NEW f, NEW co, NEW so, Called(S, n, ts, f, co, so), NEW D
    PROVE  /\ PushedToCATs(ts, f) \in Seq(S) /\ PushedToStandard(ts, f) \in Seq(S)
           /\ Has(PushedToCATs(ts, f), D) <=>
                 \/ (\E j \in 1..Len(ts) : IsStandard(ts[j])) /\ createCoinAnnouncement(ts) \in D
                 \/ f > 0 /\ reserveFee(f) \in D
           /\ Has(PushedToStandard(ts, f), D) <=>
                 \/ Morphs(ts) /\ assertCoinAnnouncement(TheAnnouncement(ts)) \in D
                 \/ ~Morphs(ts) /\ Len(ts) > 1 /\ createCoinAnnouncement(ts) \in D
                 \/ f > 0 /\ FeeWithStandard(ts) /\ reserveFee(f) \in D
           /\ (f > 0 /\ D = {reserveFee(f)}) => Once(PushedToCATs(ts, f), D)
           /\ (f > 0 /\ FeeWithStandard(ts) /\ D = {reserveFee(f)}) =>
                  Once(PushedToStandard(ts, f), D)
<1>1. PICK c, a, r : /\ c = createCoinAnnouncement(ts) /\ r = reserveFee(f)
                     /\ a = assertCoinAnnouncement(TheAnnouncement(ts))
  OBVIOUS
<1>2. c \in S /\ a \in S /\ r \in S
  BY <1>1 DEF Called
<1>3. r # c /\ r # a
  BY <1>1 DEF reserveFee, createCoinAnnouncement, assertCoinAnnouncement
<1>4. PICK st : st \in BOOLEAN /\ st = (\E j \in 1..Len(ts) : IsStandard(ts[j]))
  OBVIOUS
<1>5. PICK x, y : x = If(st, c) /\ y = If(f > 0, r)
  OBVIOUS
<1>6. /\ x \in Seq(S) /\ y \in Seq(S)
      /\ Has(x, D) <=> st /\ c \in D
      /\ Has(y, D) <=> f > 0 /\ r \in D
      /\ f > 0 /\ r \in D => Once(y, D)
  BY <1>2, <1>5, HasIf
<1>7. PushedToCATs(ts, f) = x \o y
  BY <1>1, <1>4, <1>5 DEF PushedToCATs
<1>8. x \o y \in Seq(S) /\ (Has(x \o y, D) <=> Has(x, D) \/ Has(y, D))
  BY <1>6, HasJoined
<1>9. ASSUME f > 0, D = {r} PROVE Once(x \o y, D)
  <2>1. ~Has(x, D) /\ Once(y, D)
    BY <1>3, <1>6, <1>9
  <2> QED BY <1>6, <2>1, OnceJoined
<1>10. PICK u, v, w : /\ u = If(Morphs(ts), a)
                      /\ v = If(~Morphs(ts) /\ Len(ts) > 1, c)
                      /\ w = If(f > 0 /\ FeeWithStandard(ts), r)
  OBVIOUS
<1>11. /\ u \in Seq(S) /\ v \in Seq(S) /\ w \in Seq(S)
       /\ Has(u, D) <=> Morphs(ts) /\ a \in D
       /\ Has(v, D) <=> ~Morphs(ts) /\ Len(ts) > 1 /\ c \in D
       /\ Has(w, D) <=> f > 0 /\ FeeWithStandard(ts) /\ r \in D
       /\ f > 0 /\ FeeWithStandard(ts) /\ r \in D => Once(w, D)
  BY <1>2, <1>10, HasIf
<1>12. u \o v \in Seq(S) /\ (Has(u \o v, D) <=> Has(u, D) \/ Has(v, D))
  BY <1>11, HasJoined
<1>13. /\ (u \o v) \o w \in Seq(S)
       /\ Has((u \o v) \o w, D) <=> Has(u \o v, D) \/ Has(w, D)
  BY <1>11, <1>12, HasJoined
<1>14. PushedToStandard(ts, f) = (u \o v) \o w
  BY <1>1, <1>10 DEF PushedToStandard
<1>15. ASSUME f > 0, FeeWithStandard(ts), D = {r} PROVE Once((u \o v) \o w, D)
  <2>1. ~Has(u \o v, D) /\ Once(w, D)
    BY <1>3, <1>11, <1>12, <1>15
  <2> QED BY <1>11, <1>12, <2>1, OnceJoined
<1>16. Has(PushedToCATs(ts, f), D) <=>
           \/ (\E j \in 1..Len(ts) : IsStandard(ts[j])) /\ createCoinAnnouncement(ts) \in D
           \/ f > 0 /\ reserveFee(f) \in D
  BY <1>1, <1>4, <1>6, <1>7, <1>8
<1>17. Has(PushedToStandard(ts, f), D) <=>
           \/ Morphs(ts) /\ assertCoinAnnouncement(TheAnnouncement(ts)) \in D
           \/ ~Morphs(ts) /\ Len(ts) > 1 /\ createCoinAnnouncement(ts) \in D
           \/ f > 0 /\ FeeWithStandard(ts) /\ reserveFee(f) \in D
  BY <1>1, <1>11, <1>12, <1>13, <1>14
<1> QED BY <1>1, <1>7, <1>8, <1>9, <1>13, <1>14, <1>15, <1>16, <1>17

(* What is added has the pushed conditions. *)
LEMMA AddedHas ==
    ASSUME NEW S, NEW n, NEW ts, NEW f, NEW co, NEW so, Called(S, n, ts, f, co, so), NEW D
    PROVE  /\ \A i : Has(ForCATs(ts, f, co, i), D) <=>
                         i = 1 /\ (Has(co, D) \/ Has(PushedToCATs(ts, f), D))
           /\ \A i : Has(ForStandard(ts, f, so, i), D) <=>
                         IF i = 1 THEN Has(so, D) \/ Has(PushedToStandard(ts, f), D)
                         ELSE assertCoinAnnouncement(TheAnnouncement(ts)) \in D
<1>1. PICK a : a = assertCoinAnnouncement(TheAnnouncement(ts))
  OBVIOUS
<1>2. /\ co \in Seq(S) /\ so \in Seq(S)
      /\ PushedToCATs(ts, f) \in Seq(S) /\ PushedToStandard(ts, f) \in Seq(S)
  BY PushedHas DEF Called
<1>3. Has(ForCATs(ts, f, co, 1), D) <=> Has(co, D) \/ Has(PushedToCATs(ts, f), D)
  BY <1>2, HasJoined DEF ForCATs
<1>4. ASSUME NEW i, i # 1 PROVE ~Has(ForCATs(ts, f, co, i), D)
  BY <1>4, HasNone DEF ForCATs
<1>5. Has(ForStandard(ts, f, so, 1), D) <=> Has(so, D) \/ Has(PushedToStandard(ts, f), D)
  BY <1>2, HasJoined DEF ForStandard
<1>6. ASSUME NEW i, i # 1 PROVE Has(ForStandard(ts, f, so, i), D) <=> a \in D
  <2>1. PICK s : s = <<a>>
    OBVIOUS
  <2>2. Len(s) = 1 /\ s[1] = a /\ 1..Len(s) = {1}
    BY <2>1
  <2>3. ForStandard(ts, f, so, i) = s
    BY <1>1, <1>6, <2>1 DEF ForStandard, OthersAssert
  <2>4. Has(s, D) <=> a \in D
    BY <2>2 DEF Has
  <2> QED BY <2>3, <2>4
<1> QED BY <1>1, <1>3, <1>4, <1>5, <1>6

(* A condition of a spend is at a place of the spends. *)
LEMMA HasAt ==
    ASSUME NEW i \in Indices, NEW D, Has(spends[i].conditions, D)
    PROVE  \E p \in All : p[1] = i /\ At(p) \in D
<1>1. PICK j \in 1..Len(spends[i].conditions) : spends[i].conditions[j] \in D
  BY DEF Has
<1>2. PICK p : p = <<i, j>>
  OBVIOUS
<1>3. p \in All /\ p[1] = i /\ p[2] = j
  BY <1>2 DEF All
<1> QED BY <1>1, <1>3 DEF At

(* What a spend announces is made.                                           *)
LEMMA MadeAt ==
    ASSUME NEW i \in Indices, NEW x, Has(spends[i].conditions, {createCoinAnnouncement(x)})
    PROVE  Announcement(spends[i].coin, x, IsCAT(spends[i].coin)) \in Made
<1>1. PICK p \in All : p[1] = i /\ At(p) \in {createCoinAnnouncement(x)}
  BY HasAt
<1>2. At(p).op = "CREATE_COIN_ANNOUNCEMENT" /\ At(p).message = x
  BY <1>1 DEF createCoinAnnouncement
<1>3. Announcement(spends[p[1]].coin, At(p).message, IsCAT(spends[p[1]].coin)) \in Made
  BY <1>2 DEF Made
<1> QED BY <1>1, <1>2, <1>3

-----------------------------------------------------------------------------
(* Announcements. *)

(* What bundle() has its coins assert, one of them makes.                    *)
LEMMA AnnouncementIsMade ==
    ASSUME NEW S, NEW n, NEW ts, NEW f, NEW co, NEW so, NEW cats, NEW standard, NEW rest,
           Bundle(S, n, ts, f, co, so, cats, standard, rest), AllTake,
           NEW m, NEW k, InOrder(cats, m, standard, k, rest), m = Len(cats), k = Len(standard),
           k # 0, m # 0 \/ k > 1
    PROVE  TheAnnouncement(ts) \in Made
<1>1. Called(S, n, ts, f, co, so) /\ Divides(ts, cats, standard)
  BY DEF Bundle
<1>2. Led(n, ts, cats, m, standard, k)
  BY <1>1, LeaderIs
<1>3. /\ m \in Nat /\ k \in Nat /\ Len(spends) = m + k + rest /\ rest \in {0, 1}
      /\ \A i \in 1..m : spends[i].coin = cats[i] /\ cats[i] \in CATCoins
      /\ \A i \in 1..k : spends[m + i].coin = standard[i] /\ standard[i] \in StandardCoins
  BY DEF InOrder
<1>4. 1 \in Indices
  BY <1>3 DEF Indices
<1> DEFINE D == {createCoinAnnouncement(ts)}
<1>5. CASE m # 0
  <2>1. 1 \in 1..m
    BY <1>3, <1>5
  <2>2. \E i \in 1..Len(ts) : IsStandard(ts[i])
    BY <1>2 DEF Led
  <2>3. Has(ForCATs(ts, f, co, 1), D)
    BY <1>1, <2>2, AddedHas, PushedHas
  <2>4. Has(spends[1].conditions, D)
    BY <2>1, <2>3, ConditionsAre
  <2>5. Announcement(spends[1].coin, ts, IsCAT(spends[1].coin)) \in Made
    BY <1>4, <2>4, MadeAt
  <2>6. IsCAT(spends[1].coin) = TRUE /\ spends[1].coin = cats[1]
    BY <1>3, <2>1 DEF IsCAT
  <2>7. TheAnnouncement(ts) = Announcement(cats[1], ts, TRUE)
    BY <1>2, <1>5 DEF Led
  <2> QED BY <2>5, <2>6, <2>7
<1>6. CASE m = 0
  <2>1. 1 \in 1..k /\ m + 1 = 1
    BY <1>3, <1>6
  <2>2. ~Morphs(ts) /\ Len(ts) > 1 /\ n # 0
    BY <1>2, <1>6 DEF Led
  <2>3. Has(ForStandard(ts, f, so, 1), D)
    BY <1>1, <2>2, AddedHas, PushedHas
  <2>4. Has(spends[m + 1].conditions, D)
    BY <2>1, <2>3, ConditionsAre
  <2>5. Announcement(spends[1].coin, ts, IsCAT(spends[1].coin)) \in Made
    BY <1>4, <2>1, <2>4, MadeAt
  <2>6. IsCAT(spends[1].coin) = FALSE /\ spends[1].coin = standard[1]
    <3>1. spends[m + 1].coin = standard[1] /\ standard[1] \in StandardCoins
      BY <1>3, <2>1
    <3> QED BY <2>1, <3>1, Kinds DEF IsCAT
  <2>7. TheAnnouncement(ts) = Announcement(standard[1], ts, FALSE)
    BY <1>2, <1>6, <2>2 DEF Led
  <2> QED BY <2>5, <2>6, <2>7
<1> QED BY <1>5, <1>6

(* The conditions that an application gives assert nothing. *)
Quiet(s) == \A d : d.op \in Assertions => ~Has(s, {d})

(* The application's lists assert nothing.                                   *)
LEMMA ListsAreQuiet == ASSUME NEW l \in Lists PROVE Quiet(l)
<1>1. l \in Seq(Given)
  BY ApplicationAssumption
<1>2. \A j \in 1..Len(l) : l[j].op \notin Assertions
  BY <1>1, ApplicationAssumption DEF Assertions
<1> QED BY <1>2 DEF Quiet, Has

(* What a coin of a Bundle asserts is made, or was given to bundle.          *)
LEMMA BundleAsserts ==
    ASSUME NEW S, NEW n, NEW ts, NEW f, NEW co, NEW so, NEW cats, NEW standard, NEW rest,
           Bundle(S, n, ts, f, co, so, cats, standard, rest), AllTake,
           NEW m, NEW k, InOrder(cats, m, standard, k, rest), m = Len(cats), k = Len(standard),
           Quiet(co), NEW i \in 1..(m + k), NEW d, d.op \in Assertions,
           Has(spends[i].conditions, {d})
    PROVE  \/ d.announcement \in Made
           \/ Has(so, {d})
<1>1. Called(S, n, ts, f, co, so) /\ Divides(ts, cats, standard)
  BY DEF Bundle
<1>2. Led(n, ts, cats, m, standard, k)
  BY <1>1, LeaderIs
<1>3. /\ m \in Nat /\ k \in Nat
      /\ \A j \in 1..m : cats[j] \in CATCoins
      /\ \A j \in 1..k : standard[j] \in StandardCoins
  BY DEF InOrder
<1> DEFINE a == assertCoinAnnouncement(TheAnnouncement(ts))
           D == {d}
<1>4. createCoinAnnouncement(ts) \notin D /\ reserveFee(f) \notin D
  BY DEF createCoinAnnouncement, reserveFee, Assertions
<1>5. \A c \in Coins : ~Has(Info[c].own, D)
  <2>1. TAKE c \in Coins
  <2>2. Info[c].own \in Lists
    BY DEF Lists
  <2> QED BY <2>2, ListsAreQuiet DEF Quiet
<1>6. ASSUME i \in 1..m PROVE FALSE
  <2>1. cats[i] \in Coins
    BY <1>3, <1>6, Kinds
  <2>2. Has(ForCATs(ts, f, co, i), D)
    BY <1>5, <1>6, <2>1, ConditionsAre
  <2>3. ~Has(co, D)
    BY DEF Quiet
  <2> QED BY <1>1, <1>4, <2>2, <2>3, AddedHas, PushedHas
<1>7. PICK j : j = i - m
  OBVIOUS
<1>8. j \in 1..k /\ m + j = i
  BY <1>3, <1>6, <1>7
<1>9. standard[j] \in Coins
  BY <1>3, <1>8 DEF StandardCoins
<1>10. Has(ForStandard(ts, f, so, j), D)
  BY <1>5, <1>8, <1>9, ConditionsAre
<1>11. ASSUME d = a, m # 0 \/ k > 1 PROVE d.announcement \in Made
  <2>1. k # 0
    BY <1>3, <1>8
  <2>2. TheAnnouncement(ts) \in Made
    BY <1>11, <2>1, AnnouncementIsMade
  <2>3. a.announcement = TheAnnouncement(ts)
    BY DEF assertCoinAnnouncement
  <2> QED BY <1>11, <2>2, <2>3
<1>12. CASE j = 1
  <2>1. Has(so, D) \/ (Morphs(ts) /\ a \in D)
    <3>1. Has(ForStandard(ts, f, so, 1), D)
      BY <1>10, <1>12
    <3>2. \/ Has(so, D)
          \/ Morphs(ts) /\ a \in D
          \/ ~Morphs(ts) /\ Len(ts) > 1 /\ createCoinAnnouncement(ts) \in D
          \/ f > 0 /\ FeeWithStandard(ts) /\ reserveFee(f) \in D
      <4> HIDE DEF D, a
      <4>1. Has(so, D) \/ Has(PushedToStandard(ts, f), D)
        BY <1>1, <3>1, AddedHas
      <4> QED BY <1>1, <4>1, PushedHas DEF a
    <3> HIDE DEF D, a
    <3> QED BY <1>4, <3>2
  <2>2. Morphs(ts) => m # 0
    BY <1>2 DEF Led
  <2> QED BY <1>11, <2>1, <2>2
<1>13. CASE j # 1
  <2>1. a \in D
    BY <1>1, <1>10, <1>13, AddedHas
  <2>2. k > 1
    BY <1>3, <1>8, <1>13
  <2> QED BY <1>11, <2>1, <2>2
<1> QED BY <1>12, <1>13

(* Every standard coin asserts the announcement, or makes that which every  *)
(* other one asserts.                                                       *)
LEMMA BundleLinks ==
    ASSUME NEW S, NEW n, NEW ts, NEW f, NEW co, NEW so, NEW cats, NEW standard, NEW rest,
           Bundle(S, n, ts, f, co, so, cats, standard, rest),
           rest = 1 => spends[Len(spends)].coin \notin Coins
    PROVE  StandardCoinsAreLinked
<1>1. Called(S, n, ts, f, co, so) /\ Divides(ts, cats, standard) /\ things = ts
  BY DEF Bundle
<1>2. PICK m, k : m = Len(cats) /\ k = Len(standard)
  OBVIOUS
<1>3. Led(n, ts, cats, m, standard, k) /\ InOrder(cats, m, standard, k, rest)
  BY <1>1, <1>2, LeaderIs, CoinsAre
<1>4. /\ m \in Nat /\ k \in Nat /\ Len(spends) = m + k + rest /\ rest \in {0, 1}
      /\ \A i \in Indices : IsStandard(spends[i].coin) <=> i \in (m + 1)..(m + k)
      /\ \A i \in 1..k : spends[m + i].coin = standard[i]
  BY <1>3 DEF InOrder
<1> SUFFICES ASSUME AllTake PROVE StandardCoinsAreLinked
  BY DEF StandardCoinsAreLinked
<1> DEFINE a == assertCoinAnnouncement(TheAnnouncement(ts))
           Asserts(p) == /\ At(p) = a /\ At(p).op = "ASSERT_COIN_ANNOUNCEMENT"
                         /\ At(p).announcement = TheAnnouncement(ts)
<1>5. TheAnnouncement(ts).message = ts
  BY DEF TheAnnouncement, Announcement
<1>6. ASSUME NEW j \in 1..k, j # 1 \/ m # 0
      PROVE  \E p \in All : p[1] = m + j /\ Asserts(p)
  <2>1. Morphs(ts) <=> m # 0
    BY <1>3 DEF Led
  <2>2. Has(ForStandard(ts, f, so, j), {a})
    BY <1>1, <1>6, <2>1, AddedHas, PushedHas
  <2>3. Has(spends[m + j].conditions, {a})
    BY <1>2, <2>2, ConditionsAre
  <2>4. PICK q : q = m + j
    OBVIOUS
  <2>5. q \in Indices
    BY <1>4, <2>4 DEF Indices
  <2>6. PICK p \in All : p[1] = q /\ At(p) \in {a}
    BY <2>3, <2>4, <2>5, HasAt
  <2>7. At(p) = a
    BY <2>6
  <2>8. Asserts(p)
    BY <2>7 DEF assertCoinAnnouncement
  <2> QED BY <2>4, <2>6, <2>8
<1>7. ASSUME NEW i \in Indices, Len(things) > 1, IsStandard(spends[i].coin)
      PROVE  AssertsNames(i) \/ LeadsOthers(i)
  <2>1. PICK j : j = i - m
    OBVIOUS
  <2>2. i \in (m + 1)..(m + k)
    BY <1>4, <1>7
  <2>3. j \in 1..k /\ m + j = i
    BY <1>4, <2>1, <2>2
  <2>4. CASE j # 1 \/ m # 0
    <3>1. PICK p \in All : p[1] = m + j /\ Asserts(p)
      BY <1>6, <2>3, <2>4
    <3> QED BY <1>1, <1>5, <2>3, <3>1 DEF AssertsNames
  <2>5. CASE j = 1 /\ m = 0
    <3>1. n > 1 /\ k > 1
      BY <1>1, <1>3, <1>7, <2>5 DEF Led
    <3>2. TheAnnouncement(ts) = Announcement(spends[i].coin, things, FALSE)
      <4>1. n # 0
        BY <3>1
      <4>2. TheAnnouncement(ts) = Announcement(standard[1], ts, FALSE)
        BY <1>3, <2>5, <4>1 DEF Led
      <4> QED BY <1>1, <1>4, <2>3, <2>5, <4>2
    <3>3. TheAnnouncement(ts) \in Made
      <4>1. k # 0
        BY <3>1
      <4> QED BY <1>2, <1>3, <3>1, <4>1, AnnouncementIsMade
    <3>4. ASSUME NEW l \in Indices \ {i}, spends[l].coin \in Coins
          PROVE  \E p \in All : p[1] = l /\ At(p) = a
      <4>1. l \in 1..(k + rest) /\ l # 1
        BY <1>4, <2>3, <2>5 DEF Indices
      <4>2. l # k + 1
        <5>1. rest = 1 => l # Len(spends)
          BY <3>4
        <5> QED BY <1>4, <2>5, <4>1, <5>1
      <4>3. l \in 1..k
        BY <1>4, <4>1, <4>2
      <4>4. PICK q \in All : q[1] = m + l /\ At(q) = a
        BY <1>6, <4>1, <4>3
      <4> QED BY <1>4, <2>5, <4>3, <4>4
    <3> QED BY <3>2, <3>3, <3>4 DEF LeadsOthers
  <2> QED BY <2>4, <2>5
<1> QED BY <1>7 DEF StandardCoinsAreLinked

-----------------------------------------------------------------------------
(* What exactly one coin creates. *)

(* One place of the spends has a condition of D, and it is in the i-th. *)
OneAt(D, i) == \E p \in All : At(p) \in D /\ p[1] = i /\ \A q \in All : At(q) \in D => q = p

(* What one spend has once and no other has, the bundle has once.            *)
LEMMA OnceAt ==
    ASSUME NEW D, NEW i \in Indices, Once(spends[i].conditions, D),
           \A k \in Indices : k # i => ~Has(spends[k].conditions, D)
    PROVE  OneAt(D, i)
<1>1. PICK j \in 1..Len(spends[i].conditions) :
         /\ spends[i].conditions[j] \in D
         /\ \A k \in 1..Len(spends[i].conditions) : spends[i].conditions[k] \in D => k = j
  BY DEF Once
<1>2. PICK p : p = <<i, j>>
  OBVIOUS
<1>3. p \in All /\ p[1] = i /\ p[2] = j
  BY <1>2 DEF All
<1>4. ASSUME NEW q \in All, At(q) \in D PROVE q = p
  <2>1. PICK k \in Indices : q \in {<<k, l>> : l \in 1..Len(spends[k].conditions)}
    BY DEF All
  <2>2. PICK l \in 1..Len(spends[k].conditions) : q = <<k, l>>
    BY <2>1
  <2>3. spends[k].conditions[l] \in D
    BY <1>4, <2>2 DEF At
  <2>4. k = i
    BY <2>3 DEF Has
  <2>5. l = j
    BY <1>1, <2>3, <2>4
  <2> QED BY <1>2, <2>2, <2>4, <2>5
<1> QED BY <1>1, <1>3, <1>4 DEF At, OneAt

(* There is one condition of those that are created once.                    *)
LEMMA OneCounts ==
    ASSUME NEW D, NEW i, OneAt(D, i)
    PROVE  Cardinality({p \in All : At(p) \in D}) = 1
<1>1. PICK p \in All : At(p) \in D /\ \A q \in All : At(q) \in D => q = p
  BY DEF OneAt
<1>2. {q \in All : At(q) \in D} = {p}
  BY <1>1
<1> QED BY <1>2, FS_Singleton

(* What was added to the conditions of the i-th spend. *)
Added(ts, f, co, so, m, i) ==
    IF i <= m THEN ForCATs(ts, f, co, i) ELSE ForStandard(ts, f, so, i - m)

(* What is added to one coin's conditions once, the bundle has once.         *)
LEMMA BundleOnce ==
    ASSUME NEW S, NEW n, NEW ts, NEW f, NEW co, NEW so, NEW cats, NEW standard, NEW rest,
           Bundle(S, n, ts, f, co, so, cats, standard, rest), AllTake,
           NEW m, NEW k, InOrder(cats, m, standard, k, rest), m = Len(cats), k = Len(standard),
           NEW D, \A c \in Coins : ~Has(Info[c].own, D),
           rest = 1 => ~Has(spends[Len(spends)].conditions, D),
           NEW i \in 1..(m + k), Once(Added(ts, f, co, so, m, i), D),
           \A j \in 1..(m + k) : j # i => ~Has(Added(ts, f, co, so, m, j), D)
    PROVE  OneAt(D, i)
<1>1. Called(S, n, ts, f, co, so) /\ Divides(ts, cats, standard)
      /\ Laid(ts, f, co, so, cats, standard, spends)
  BY DEF Bundle
<1>2. /\ m \in Nat /\ k \in Nat /\ rest \in {0, 1} /\ Len(spends) = m + k + rest
      /\ \A j \in 1..m : cats[j] \in CATCoins
      /\ \A j \in 1..k : standard[j] \in StandardCoins
  BY DEF InOrder
<1>3. ASSUME NEW j \in 1..(m + k)
      PROVE  \E c \in Coins : spends[j].conditions = Info[c].own \o Added(ts, f, co, so, m, j)
  <2> DEFINE added == Added(ts, f, co, so, m, j)
  <2> SUFFICES \E c \in Coins : Spends(spends[j], c, added)
    <3>1. PICK c \in Coins : Spends(spends[j], c, added)
      OBVIOUS
    <3>2. j \in Indices /\ added \in Seq(S)
      BY <1>1, <1>2, PushedAre DEF Indices, Added
    <3>3. Info[c].takes
      BY <3>1, <3>2 DEF AllTake, Spends
    <3>4. Taken(c, added) = added
      BY <3>2, <3>3, TakenAre
    <3> QED BY <3>1, <3>4 DEF Spends
  <2>1. CASE j <= m
    <3>1. j \in 1..m
      BY <1>2, <2>1
    <3>2. Spends(spends[j], cats[j], ForCATs(ts, f, co, j))
      BY <1>1, <3>1 DEF Laid
    <3> QED BY <1>2, <2>1, <3>1, <3>2, Kinds DEF Added
  <2>2. CASE ~(j <= m)
    <3>1. PICK l : l = j - m
      OBVIOUS
    <3>2. l \in 1..k /\ m + l = j
      BY <1>2, <2>2, <3>1
    <3>3. Spends(spends[m + l], standard[l], ForStandard(ts, f, so, l))
      BY <1>1, <3>2 DEF Laid
    <3>4. standard[l] \in Coins
      BY <1>2, <3>2 DEF StandardCoins
    <3> QED BY <2>2, <3>1, <3>2, <3>3, <3>4 DEF Added
  <2> QED BY <2>1, <2>2
<1>4. \A c \in Coins : Info[c].own \in Seq(S)
  BY <1>1 DEF Called
<1>5. \A j : Added(ts, f, co, so, m, j) \in Seq(S)
  BY <1>1, PushedAre DEF Added
<1>6. Once(spends[i].conditions, D)
  <2>1. PICK c \in Coins : spends[i].conditions = Info[c].own \o Added(ts, f, co, so, m, i)
    BY <1>3
  <2>2. Once(Info[c].own \o Added(ts, f, co, so, m, i), D)
    BY <1>4, <1>5, OnceJoined
  <2> QED BY <2>1, <2>2
<1>7. ASSUME NEW j \in Indices, j # i PROVE ~Has(spends[j].conditions, D)
  <2>1. j \in 1..(m + k + rest)
    BY <1>2 DEF Indices
  <2>2. CASE j = m + k + 1
    <3>1. rest = 1 /\ j = Len(spends)
      BY <1>2, <2>1, <2>2
    <3> QED BY <3>1
  <2>3. CASE j # m + k + 1
    <3>1. j \in 1..(m + k)
      <4>1. j \in Nat /\ 1 <= j /\ j <= m + k + rest
        BY <1>2, <2>1
      <4>2. CASE rest = 0
        BY <1>2, <4>1, <4>2
      <4>3. CASE rest = 1
        BY <1>2, <2>3, <4>1, <4>3
      <4> QED BY <1>2, <4>2, <4>3
    <3>2. PICK c \in Coins : spends[j].conditions = Info[c].own \o Added(ts, f, co, so, m, j)
      BY <1>3, <3>1
    <3>3. ~Has(Info[c].own \o Added(ts, f, co, so, m, j), D)
      BY <1>4, <1>5, <1>7, <3>1, HasJoined
    <3> QED BY <3>2, <3>3
  <2> QED BY <2>2, <2>3
<1>8. i \in Indices
  BY <1>2 DEF Indices
<1> QED BY <1>6, <1>7, <1>8, OnceAt

(* What the added conditions have, in the terms of the pushed ones. *)
LEMMA AddedIs ==
    ASSUME NEW S, NEW n, NEW ts, NEW f, NEW co, NEW so, Called(S, n, ts, f, co, so),
           NEW m \in Nat, NEW D, assertCoinAnnouncement(TheAnnouncement(ts)) \notin D
    PROVE  /\ m # 0 => (Has(Added(ts, f, co, so, m, 1), D) <=>
                            Has(co, D) \/ Has(PushedToCATs(ts, f), D))
           /\ Has(Added(ts, f, co, so, m, m + 1), D) <=>
                  Has(so, D) \/ Has(PushedToStandard(ts, f), D)
           /\ \A i \in Nat \ {0} :
                  (i # m + 1 /\ (i # 1 \/ m = 0)) => ~Has(Added(ts, f, co, so, m, i), D)
           /\ m # 0 /\ ~Has(co, D) /\ Once(PushedToCATs(ts, f), D) =>
                  Once(Added(ts, f, co, so, m, 1), D)
           /\ m # 0 /\ Once(co, D) /\ ~Has(PushedToCATs(ts, f), D) =>
                  Once(Added(ts, f, co, so, m, 1), D)
           /\ ~Has(so, D) /\ Once(PushedToStandard(ts, f), D) =>
                  Once(Added(ts, f, co, so, m, m + 1), D)
           /\ Once(so, D) /\ ~Has(PushedToStandard(ts, f), D) =>
                  Once(Added(ts, f, co, so, m, m + 1), D)
<1>1. /\ co \in Seq(S) /\ so \in Seq(S)
      /\ PushedToCATs(ts, f) \in Seq(S) /\ PushedToStandard(ts, f) \in Seq(S)
  BY PushedHas DEF Called
<1>2. ASSUME m # 0
      PROVE  /\ Added(ts, f, co, so, m, 1) = ForCATs(ts, f, co, 1)
             /\ Added(ts, f, co, so, m, 1) = co \o PushedToCATs(ts, f)
  BY <1>2 DEF Added, ForCATs
<1>3. /\ Added(ts, f, co, so, m, m + 1) = ForStandard(ts, f, so, 1)
      /\ Added(ts, f, co, so, m, m + 1) = so \o PushedToStandard(ts, f)
  <2>1. ~(m + 1 <= m) /\ (m + 1) - m = 1
    OBVIOUS
  <2> QED BY <2>1 DEF Added, ForStandard
<1>4. ASSUME NEW i \in Nat \ {0}, i # m + 1, i # 1 \/ m = 0
      PROVE  ~Has(Added(ts, f, co, so, m, i), D)
  <2>1. CASE i <= m
    <3>1. i # 1 /\ Added(ts, f, co, so, m, i) = ForCATs(ts, f, co, i)
      BY <1>4, <2>1 DEF Added
    <3> QED BY <3>1, AddedHas
  <2>2. CASE ~(i <= m)
    <3>1. PICK l : l = i - m
      OBVIOUS
    <3>2. l # 1 /\ Added(ts, f, co, so, m, i) = ForStandard(ts, f, so, l)
      BY <1>4, <2>2, <3>1 DEF Added
    <3> QED BY <3>2, AddedHas
  <2> QED BY <2>1, <2>2
<1>5. m # 0 => (Has(Added(ts, f, co, so, m, 1), D) <=>
                    Has(co, D) \/ Has(PushedToCATs(ts, f), D))
  <2>1. Has(co \o PushedToCATs(ts, f), D) <=> Has(co, D) \/ Has(PushedToCATs(ts, f), D)
    BY <1>1, HasJoined
  <2> QED BY <1>2, <2>1
<1>6. Has(Added(ts, f, co, so, m, m + 1), D) <=> Has(so, D) \/ Has(PushedToStandard(ts, f), D)
  <2>1. Has(so \o PushedToStandard(ts, f), D) <=> Has(so, D) \/ Has(PushedToStandard(ts, f), D)
    BY <1>1, HasJoined
  <2> QED BY <1>3, <2>1
<1>7. m # 0 /\ ~Has(co, D) /\ Once(PushedToCATs(ts, f), D) =>
          Once(Added(ts, f, co, so, m, 1), D)
  BY <1>1, <1>2, OnceJoined
<1>8. m # 0 /\ Once(co, D) /\ ~Has(PushedToCATs(ts, f), D) =>
          Once(Added(ts, f, co, so, m, 1), D)
  BY <1>1, <1>2, OnceJoined
<1>9. ~Has(so, D) /\ Once(PushedToStandard(ts, f), D) =>
          Once(Added(ts, f, co, so, m, m + 1), D)
  BY <1>1, <1>3, OnceJoined
<1>10. Once(so, D) /\ ~Has(PushedToStandard(ts, f), D) =>
          Once(Added(ts, f, co, so, m, m + 1), D)
  BY <1>1, <1>3, OnceJoined
<1> QED BY <1>4, <1>5, <1>6, <1>7, <1>8, <1>9, <1>10

(* A list without repetitions has each element once.                         *)
LEMMA OnceIn ==
    ASSUME NEW S, NEW s \in Seq(S), IsInjective(s), NEW q \in 1..Len(s)
    PROVE  Once(s, {s[q]})
BY DEF IsInjective, Once

(* What a list has are its elements.                                         *)
LEMMA HasElement == ASSUME NEW s, NEW d PROVE Has(s, {d}) <=> \E j \in 1..Len(s) : s[j] = d
BY DEF Has

(* What is left of the calls, to show that each output is created once. *)
Unused(d, ts, f, rest) ==
    /\ \A c \in Coins : ~Has(Info[c].own, {d})
    /\ rest = 1 => ~Has(spends[Len(spends)].conditions, {d})
    /\ d # createCoinAnnouncement(ts) /\ d # reserveFee(f)
    /\ d # assertCoinAnnouncement(TheAnnouncement(ts))
AreCreated(d, co, m, so, k) ==
    /\ m # 0 /\ Once(co, {d}) /\ (k # 0 => ~Has(so, {d})) => OneAt({d}, 1)
    /\ k # 0 /\ Once(so, {d}) /\ (m # 0 => ~Has(co, {d})) => OneAt({d}, m + 1)

(* An output that is asked for once is created by the first coin of its kind. *)
LEMMA BundleCreates ==
    ASSUME NEW S, NEW n, NEW ts, NEW f, NEW co, NEW so, NEW cats, NEW standard, NEW rest,
           Bundle(S, n, ts, f, co, so, cats, standard, rest), AllTake,
           NEW m, NEW k, InOrder(cats, m, standard, k, rest), m = Len(cats), k = Len(standard),
           NEW d, Unused(d, ts, f, rest)
    PROVE  AreCreated(d, co, m, so, k)
<1> DEFINE D == {d}
<1>1. /\ \A c \in Coins : ~Has(Info[c].own, D)
      /\ rest = 1 => ~Has(spends[Len(spends)].conditions, D)
      /\ createCoinAnnouncement(ts) \notin D /\ reserveFee(f) \notin D
      /\ assertCoinAnnouncement(TheAnnouncement(ts)) \notin D
  BY DEF Unused
<1>2. Called(S, n, ts, f, co, so)
  BY DEF Bundle
<1>3. m \in Nat /\ k \in Nat
  BY DEF InOrder
<1>4. ~Has(PushedToCATs(ts, f), D) /\ ~Has(PushedToStandard(ts, f), D)
  BY <1>1, <1>2, PushedHas
<1>5. assertCoinAnnouncement(TheAnnouncement(ts)) \notin D
  BY <1>1
<1> HIDE DEF D
<1>6. ASSUME m # 0, Once(co, D), k # 0 => ~Has(so, D) PROVE OneAt(D, 1)
  <2>1. Once(Added(ts, f, co, so, m, 1), D)
    BY <1>2, <1>3, <1>4, <1>5, <1>6, AddedIs
  <2>2. ASSUME NEW j \in 1..(m + k), j # 1 PROVE ~Has(Added(ts, f, co, so, m, j), D)
    <3>1. CASE j = m + 1
      <4>1. k # 0
        BY <1>3, <3>1
      <4> QED BY <1>2, <1>3, <1>4, <1>5, <1>6, <3>1, <4>1, AddedIs
    <3>2. CASE j # m + 1
      <4>1. j \in Nat \ {0}
        BY <1>3
      <4> QED BY <1>2, <1>3, <1>5, <2>2, <3>2, <4>1, AddedIs
    <3> QED BY <3>1, <3>2
  <2>3. 1 \in 1..(m + k)
    BY <1>3, <1>6
  <2> QED BY <1>1, <2>1, <2>2, <2>3, BundleOnce
<1>7. ASSUME k # 0, Once(so, D), m # 0 => ~Has(co, D) PROVE OneAt(D, m + 1)
  <2>1. Once(Added(ts, f, co, so, m, m + 1), D)
    BY <1>2, <1>3, <1>4, <1>5, <1>7, AddedIs
  <2>2. ASSUME NEW j \in 1..(m + k), j # m + 1 PROVE ~Has(Added(ts, f, co, so, m, j), D)
    <3>1. CASE j = 1 /\ m # 0
      BY <1>2, <1>3, <1>4, <1>5, <1>7, <3>1, AddedIs
    <3>2. CASE j # 1 \/ m = 0
      <4>1. j \in Nat \ {0}
        BY <1>3
      <4> QED BY <1>2, <1>3, <1>5, <2>2, <3>2, <4>1, AddedIs
    <3> QED BY <3>1, <3>2
  <2>3. m + 1 \in 1..(m + k)
    BY <1>3, <1>7
  <2> QED BY <1>1, <2>1, <2>2, <2>3, BundleOnce
<1> QED BY <1>6, <1>7 DEF D, AreCreated

(* The fee is reserved by one coin. *)
Free(s) == \A d : d.op = "RESERVE_FEE" => ~Has(s, {d})

(* The application's lists reserve no fee.                                   *)
LEMMA ListsAreFree == ASSUME NEW l \in Lists PROVE Free(l)
<1>1. l \in Seq(Given)
  BY ApplicationAssumption
<1>2. \A j \in 1..Len(l) : l[j].op # "RESERVE_FEE"
  BY <1>1, ApplicationAssumption
<1> QED BY <1>2 DEF Free, Has

Reserved == {p \in All : At(p).op = "RESERVE_FEE"}
FeeOnce == /\ Cardinality(Reserved) = (IF fee > 0 THEN 1 ELSE 0)
           /\ \A p \in Reserved : At(p).amount = fee

(* The fee of a Bundle is reserved once.                                     *)
LEMMA BundleReserves ==
    ASSUME NEW S, NEW n, NEW ts, NEW f, NEW co, NEW so, NEW cats, NEW standard, NEW rest,
           Bundle(S, n, ts, f, co, so, cats, standard, rest), AllTake,
           NEW m, NEW k, InOrder(cats, m, standard, k, rest), m = Len(cats), k = Len(standard),
           Free(co), Free(so), rest = 1 => Free(spends[Len(spends)].conditions), n # 0
    PROVE  FeeOnce
<1>1. /\ Called(S, n, ts, f, co, so) /\ Divides(ts, cats, standard) /\ fee = f
      /\ Laid(ts, f, co, so, cats, standard, spends)
  BY DEF Bundle
<1>2. Led(n, ts, cats, m, standard, k)
  BY <1>1, LeaderIs
<1>3. /\ m \in Nat /\ k \in Nat /\ rest \in {0, 1} /\ Len(spends) = m + k + rest
      /\ \A j \in 1..m : cats[j] \in CATCoins
      /\ \A j \in 1..k : standard[j] \in StandardCoins
  BY DEF InOrder
<1>4. \A c \in Coins : Free(Info[c].own)
  <2>1. TAKE c \in Coins
  <2>2. Info[c].own \in Lists
    BY DEF Lists
  <2> QED BY <2>2, ListsAreFree
<1> DEFINE r == reserveFee(f)
<1>5. r.op = "RESERVE_FEE" /\ r.amount = f
  BY DEF reserveFee
<1>6. ASSUME NEW p \in Reserved PROVE At(p) = r /\ f > 0
  <2>1. PICK d : d = At(p)
    OBVIOUS
  <2>2. p \in All /\ d.op = "RESERVE_FEE"
    BY <2>1 DEF Reserved
  <2>3. PICK i \in Indices : p \in {<<i, l>> : l \in 1..Len(spends[i].conditions)}
    BY <2>2 DEF All
  <2>4. PICK l \in 1..Len(spends[i].conditions) : p = <<i, l>>
    BY <2>3
  <2>5. Has(spends[i].conditions, {d})
    BY <2>1, <2>4 DEF At, Has
  <2>6. i \in 1..(m + k)
    <3>1. i \in 1..(m + k + rest)
      BY <1>3 DEF Indices
    <3>2. CASE i = m + k + 1
      <4>1. rest = 1 /\ i = Len(spends)
        BY <1>3, <3>1, <3>2
      <4> QED BY <2>2, <2>5, <4>1 DEF Free
    <3> QED BY <1>3, <3>1, <3>2
  <2>7. ~Has(co, {d}) /\ ~Has(so, {d})
    BY <2>2 DEF Free
  <2>8. createCoinAnnouncement(ts) # d /\ assertCoinAnnouncement(TheAnnouncement(ts)) # d
    BY <2>2 DEF createCoinAnnouncement, assertCoinAnnouncement
  <2>9. CASE i \in 1..m
    <3>1. cats[i] \in Coins
      BY <1>3, <2>9, Kinds
    <3>2. ~Has(Info[cats[i]].own, {d})
      BY <1>4, <2>2, <3>1 DEF Free
    <3>3. Has(ForCATs(ts, f, co, i), {d})
      BY <2>5, <2>9, <3>2, ConditionsAre
    <3>4. Has(PushedToCATs(ts, f), {d})
      BY <1>1, <2>7, <3>3, AddedHas
    <3>5. f > 0 /\ r = d
      BY <1>1, <2>8, <3>4, PushedHas
    <3> QED BY <2>1, <3>5
  <2>10. CASE i \notin 1..m
    <3>1. PICK j : j = i - m
      OBVIOUS
    <3>2. j \in 1..k /\ m + j = i
      BY <1>3, <2>6, <2>10, <3>1
    <3>3. standard[j] \in Coins
      BY <1>3, <3>2 DEF StandardCoins
    <3>4. ~Has(Info[standard[j]].own, {d})
      BY <1>4, <2>2, <3>3 DEF Free
    <3>5. Has(ForStandard(ts, f, so, j), {d})
      BY <2>5, <3>2, <3>4, ConditionsAre
    <3>6. Has(PushedToStandard(ts, f), {d})
      BY <1>1, <2>7, <2>8, <3>5, AddedHas
    <3>7. f > 0 /\ r = d
      BY <1>1, <2>8, <3>6, PushedHas
    <3> QED BY <2>1, <3>7
  <2> QED BY <2>9, <2>10
<1>7. ASSUME f > 0 PROVE \E i : OneAt({r}, i)
  <2> DEFINE D == {r}
  <2>1. ~Has(co, D) /\ ~Has(so, D) /\ \A c \in Coins : ~Has(Info[c].own, D)
    BY <1>4, <1>5 DEF Free
  <2>2. rest = 1 => ~Has(spends[Len(spends)].conditions, D)
    BY <1>5 DEF Free
  <2>3. r # createCoinAnnouncement(ts) /\ r # assertCoinAnnouncement(TheAnnouncement(ts))
    BY DEF reserveFee, createCoinAnnouncement, assertCoinAnnouncement
  <2>4. assertCoinAnnouncement(TheAnnouncement(ts)) \notin D /\ createCoinAnnouncement(ts) \notin D
    BY <2>3
  <2>5. Once(PushedToCATs(ts, f), D) /\ (FeeWithStandard(ts) => Once(PushedToStandard(ts, f), D))
    BY <1>1, <1>7, PushedHas
  <2>6. ~FeeWithStandard(ts) => ~Has(PushedToStandard(ts, f), D)
    BY <1>1, <2>4, PushedHas
  <2> HIDE DEF D, r
  <2>7. FeeWithStandard(ts) <=> m = 0
    BY <1>2 DEF Led
  <2>8. CASE m # 0
    <3>1. Once(Added(ts, f, co, so, m, 1), D)
      BY <1>1, <1>3, <2>1, <2>4, <2>5, <2>8, AddedIs
    <3>2. ASSUME NEW j \in 1..(m + k), j # 1 PROVE ~Has(Added(ts, f, co, so, m, j), D)
      <4>1. CASE j = m + 1
        BY <1>1, <1>3, <2>1, <2>4, <2>6, <2>7, <2>8, <4>1, AddedIs
      <4>2. CASE j # m + 1
        <5>1. j \in Nat \ {0}
          BY <1>3
        <5> QED BY <1>1, <1>3, <2>4, <3>2, <4>2, <5>1, AddedIs
      <4> QED BY <4>1, <4>2
    <3>3. 1 \in 1..(m + k)
      BY <1>3, <2>8
    <3>4. OneAt(D, 1)
      BY <2>1, <2>2, <3>1, <3>2, <3>3, BundleOnce
    <3> QED BY <3>4 DEF D
  <2>9. CASE m = 0
    <3>1. Once(Added(ts, f, co, so, m, m + 1), D)
      BY <1>1, <1>3, <2>1, <2>4, <2>5, <2>7, <2>9, AddedIs
    <3>2. ASSUME NEW j \in 1..(m + k), j # m + 1 PROVE ~Has(Added(ts, f, co, so, m, j), D)
      <4>1. j \in Nat \ {0}
        BY <1>3
      <4> QED BY <1>1, <1>3, <2>4, <2>9, <3>2, <4>1, AddedIs
    <3>3. m + 1 \in 1..(m + k)
      <4>1. k # 0
        BY <1>2, <2>9 DEF Led
      <4> QED BY <1>3, <4>1
    <3>4. OneAt(D, m + 1)
      BY <2>1, <2>2, <3>1, <3>2, <3>3, BundleOnce
    <3> QED BY <3>4 DEF D
  <2> QED BY <2>8, <2>9
<1>8. \A p \in Reserved : At(p).amount = fee
  BY <1>1, <1>5, <1>6
<1>9. CASE f > 0
  <2>1. Reserved = {p \in All : At(p) \in {r}}
    BY <1>5, <1>6 DEF Reserved
  <2>2. Cardinality(Reserved) = 1
    BY <1>7, <1>9, <2>1, OneCounts
  <2> QED BY <1>1, <1>8, <1>9, <2>2 DEF FeeOnce
<1>10. CASE ~(f > 0)
  <2>1. Reserved = {}
    BY <1>6, <1>10
  <2> QED BY <1>1, <1>8, <1>10, <2>1, FS_EmptySet DEF FeeOnce
<1> QED BY <1>9, <1>10

-----------------------------------------------------------------------------
(* The properties of a call of bundle. *)

(* What a list of two has.                                                   *)
LEMMA HasPair ==
    ASSUME NEW x, NEW y, NEW D
    PROVE  /\ Has(<<x, y>>, D) <=> x \in D \/ y \in D
           /\ x # y => Once(<<x, y>>, {x}) /\ Once(<<x, y>>, {y})
<1>1. PICK s : s = <<x, y>>
  OBVIOUS
<1>2. Len(s) = 2 /\ s[1] = x /\ s[2] = y /\ 1..Len(s) = {1, 2}
  BY <1>1
<1>3. Has(s, D) <=> x \in D \/ y \in D
  BY <1>2 DEF Has
<1>4. ASSUME x # y PROVE Once(s, {x}) /\ Once(s, {y})
  BY <1>2, <1>4 DEF Once
<1> QED BY <1>1, <1>3, <1>4

(* The properties of a call that returned nothing. *)
LEMMA SilentHolds ==
    ASSUME Silent
    PROVE  /\ RingCloses /\ CATsBalance /\ AssertionsHold /\ StandardCoinsAreLinked
           /\ LauncherIsCreated /\ OutputsOnce
<1>1. Indices = {} /\ All = {}
  BY DEF Silent, Indices, All
<1>2. RingCloses
  BY <1>1 DEF RingCloses, CATIndices
<1>3. CATsBalance
  <2>1. PICK n : n = 0
    OBVIOUS
  <2>2. Indices = 1..n
    BY <1>1, <2>1
  <2>3. [i \in Indices |-> IF IsCAT(spends[i].coin) THEN DeltaOf(spends[i]) ELSE 0]
            = [i \in 1..n |-> 0]
    BY <1>1, <2>2
  <2>4. Total([i \in Indices |-> IF IsCAT(spends[i].coin) THEN DeltaOf(spends[i]) ELSE 0]) = 0
    BY <2>1, <2>3, NoSum
  <2> QED BY <1>1, <2>4 DEF CATsBalance, CATIndices
<1>4. AssertionsHold
  BY <1>1 DEF AssertionsHold
<1>5. StandardCoinsAreLinked /\ LauncherIsCreated
  BY <1>1 DEF StandardCoinsAreLinked, LauncherIsCreated
<1>6. OutputsOnce
  BY DEF OutputsOnce, Silent
<1> QED BY <1>2, <1>3, <1>4, <1>5, <1>6

(* Those of a call of bundle. *)
LEMMA BundlesHold ==
    ASSUME NEW n, NEW ts, NEW f, NEW co, NEW so, Bundles(n, ts, f, co, so)
    PROVE  /\ RingCloses /\ CATsBalance /\ AssertionsHold /\ StandardCoinsAreLinked
           /\ LauncherIsCreated /\ OutputsOnce
<1>1. PICK S, cats, standard : Bundle(S, n, ts, f, co, so, cats, standard, 0)
  BY BundlesAre
<1>2. PICK m, k, rest : m = Len(cats) /\ k = Len(standard) /\ rest = 0
  OBVIOUS
<1>3. Bundle(S, n, ts, f, co, so, cats, standard, rest) /\ rest # 1
  BY <1>1, <1>2
<1>4. /\ Called(S, n, ts, f, co, so) /\ Divides(ts, cats, standard)
      /\ things = ts /\ fee = f
  BY <1>3 DEF Bundle
<1>5. InOrder(cats, m, standard, k, rest) /\ Led(n, ts, cats, m, standard, k)
  BY <1>2, <1>3, <1>4, CoinsAre, LeaderIs
<1>6. /\ m \in Nat /\ k \in Nat /\ Len(spends) = m + k
      /\ \A i \in 1..m : spends[i].coin = cats[i] /\ cats[i] \in CATCoins
      /\ \A i \in 1..k : spends[m + i].coin = standard[i] /\ standard[i] \in StandardCoins
  <2>1. /\ m \in Nat /\ k \in Nat /\ Len(spends) = m + k + rest
        /\ \A i \in 1..m : spends[i].coin = cats[i] /\ cats[i] \in CATCoins
        /\ \A i \in 1..k : spends[m + i].coin = standard[i] /\ standard[i] \in StandardCoins
    BY <1>5 DEF InOrder
  <2>2. rest = 0
    BY <1>2
  <2>3. Len(spends) = m + k
    BY <2>1, <2>2
  <2> QED BY <2>1, <2>3
<1>7. co \in Lists /\ so \in Lists
  BY DEF Bundles, Lists
<1>8. Quiet(co) /\ Quiet(so) /\ Free(co) /\ Free(so)
  BY <1>7, ListsAreQuiet, ListsAreFree
<1>9. RingCloses /\ CATsBalance /\ StandardCoinsAreLinked
  BY <1>3, BundleRings, BundleBalances, BundleLinks
<1>10. AssertionsHold
  <2>1. SUFFICES ASSUME AllTake, NEW p \in All, At(p).op \in Assertions
                 PROVE  At(p).announcement \in Made
    BY DEF AssertionsHold
  <2>2. PICK i \in Indices : p \in {<<i, l>> : l \in 1..Len(spends[i].conditions)}
    BY DEF All
  <2>3. PICK l \in 1..Len(spends[i].conditions) : p = <<i, l>>
    BY <2>2
  <2>4. PICK d : d = At(p)
    OBVIOUS
  <2>5. Has(spends[i].conditions, {d})
    BY <2>3, <2>4 DEF At, Has
  <2>6. i \in 1..(m + k)
    BY <1>6 DEF Indices
  <2>7. d.announcement \in Made \/ Has(so, {d})
    BY <1>2, <1>3, <1>5, <1>8, <2>1, <2>4, <2>5, <2>6, BundleAsserts
  <2> QED BY <1>8, <2>1, <2>4, <2>7 DEF Quiet
<1>11. LauncherIsCreated
  <2>1. ASSUME NEW i \in Indices PROVE spends[i].coin \in Coins
    <3>1. i \in 1..(m + k)
      BY <1>6 DEF Indices
    <3>2. CASE i \in 1..m
      BY <1>6, <3>2, Kinds
    <3>3. CASE i \notin 1..m
      <4>1. PICK j : j = i - m
        OBVIOUS
      <4>2. j \in 1..k /\ m + j = i
        BY <1>6, <3>1, <3>3, <4>1
      <4> QED BY <1>6, <4>2 DEF StandardCoins
    <3> QED BY <3>2, <3>3
  <2> QED BY <2>1 DEF LauncherIsCreated
<1>12. ASSUME AllTake, NEW q \in 1..Len(wanted)
       PROVE  Cardinality({p \in All : At(p) = wanted[q]}) = 1
  <2>1. PICK d : d = wanted[q]
    OBVIOUS
  <2>2. /\ wanted = Wanted(ts, co, so)
        /\ co \in CATOutputs /\ so \in StandardOutputs
    BY DEF Bundles, Returned
  <2>3. /\ (\E i \in 1..Len(ts) : IsCAT(ts[i])) <=> m # 0
        /\ (\E i \in 1..Len(ts) : IsStandard(ts[i])) <=> k # 0
    BY <1>5 DEF Led, Morphs
  <2>4. PICK x, y : x = (IF m # 0 THEN co ELSE <<>>) /\ y = (IF k # 0 THEN so ELSE <<>>)
    OBVIOUS
  <2>5. wanted = x \o y
    BY <2>2, <2>3, <2>4 DEF Wanted
  <2>6. co \in Seq(Given) /\ so \in Seq(Given)
    BY <1>7, ApplicationAssumption
  <2>7. x \in Seq(Given) /\ y \in Seq(Given)
    BY <2>4, <2>6
  <2>8. Has(wanted, {d})
    BY <2>1 DEF Has
  <2>9. Has(x, {d}) \/ Has(y, {d})
    BY <2>5, <2>7, <2>8, HasJoined
  <2>10. \/ m # 0 /\ Has(co, {d})
         \/ k # 0 /\ Has(so, {d})
    BY <2>4, <2>9, HasNone
  <2>11. /\ Has(co, {d}) => Once(co, {d})
         /\ Has(so, {d}) => Once(so, {d})
         /\ ~(Has(co, {d}) /\ Has(so, {d}))
    <3>1. IsInjective(co) /\ IsInjective(so) /\ ToSet(co) \cap ToSet(so) = {}
      BY <2>2, OutputsAssumption
    <3>2. Has(co, {d}) <=> d \in ToSet(co)
      BY <2>6 DEF Has, ToSet
    <3>3. Has(so, {d}) <=> d \in ToSet(so)
      BY <2>6 DEF Has, ToSet
    <3>4. Has(co, {d}) => Once(co, {d})
      BY <2>6, <3>1, HasElement, OnceIn
    <3>5. Has(so, {d}) => Once(so, {d})
      BY <2>6, <3>1, HasElement, OnceIn
    <3> QED BY <3>1, <3>2, <3>3, <3>4, <3>5
  <2>12. PICK out \in {co, so} : Has(out, {d})
    BY <2>10
  <2>13. out \in CATOutputs \cup StandardOutputs \cup LaunchOutputs /\ d \in ToSet(out) /\ d \in Given
    <3>1. PICK j \in 1..Len(out) : out[j] = d
      BY <2>12, HasElement
    <3>2. out \in Seq(Given)
      BY <2>6, <2>12
    <3> QED BY <2>2, <2>12, <3>1, <3>2 DEF ToSet
  <2>14. \A c \in Coins : ~Has(Info[c].own, {d})
    <3>1. TAKE c \in Coins
    <3>2. d \notin ToSet(Info[c].own)
      BY <2>13, OutputsAssumption
    <3>3. Info[c].own \in Seq(Given)
      BY ApplicationAssumption DEF Lists
    <3> QED BY <3>2, <3>3 DEF Has, ToSet
  <2>15. /\ d # createCoinAnnouncement(ts) /\ d # reserveFee(f)
         /\ d # assertCoinAnnouncement(TheAnnouncement(ts))
    <3>1. d.op # "CREATE_COIN_ANNOUNCEMENT"
      BY <2>13, OutputsAssumption
    <3>2. d.op # "RESERVE_FEE" /\ d.op # "ASSERT_COIN_ANNOUNCEMENT"
      BY <2>13, ApplicationAssumption
    <3> QED BY <3>1, <3>2 DEF createCoinAnnouncement, reserveFee, assertCoinAnnouncement
  <2>16. OneAt({d}, 1) \/ OneAt({d}, m + 1)
    <3>1. Unused(d, ts, f, rest)
      BY <1>3, <2>14, <2>15 DEF Unused
    <3>2. AreCreated(d, co, m, so, k)
      BY <1>2, <1>3, <1>5, <1>12, <3>1, BundleCreates
    <3>3. CASE m # 0 /\ Has(co, {d})
      BY <2>11, <3>2, <3>3 DEF AreCreated
    <3>4. CASE k # 0 /\ Has(so, {d})
      BY <2>11, <3>2, <3>4 DEF AreCreated
    <3> QED BY <2>10, <3>3, <3>4
  <2>17. Cardinality({p \in All : At(p) \in {d}}) = 1
    BY <2>16, OneCounts
  <2> QED BY <2>1, <2>17
<1>13. AllTake /\ things # <<>> => FeeOnce
  <2>1. ts # <<>> => n # 0
    BY <1>4 DEF Called
  <2> QED BY <1>2, <1>3, <1>4, <1>5, <1>8, <2>1, BundleReserves
<1>14. OutputsOnce
  BY <1>12, <1>13 DEF OutputsOnce, FeeOnce, Reserved
<1> QED BY <1>9, <1>10, <1>11, <1>14

-----------------------------------------------------------------------------
(* The properties of a launch. *)

(* A launch: L is the launcher, sol its solution, c creates it and a asserts  *)
(* what it announces.                                                         *)
Launched(n, ts, f, amount, inner, out, L, sol, c, a, so, last) ==
    /\ Launches(n, ts, f, amount, inner, out)
    /\ L = Launcher(ts, amount) /\ sol = launcherSolution(L, inner)
    /\ c = createCoin(LauncherPuzzle, amount)
    /\ a = assertCoinAnnouncement(Announcement(L, sol, FALSE))
    /\ so = ToLaunch(ts, amount, inner, out) /\ last = launcherSpend(L, inner)

(* What the assumptions on the names say of it.                               *)
LEMMA LaunchNames ==
    ASSUME NEW n, NEW ts, NEW f, NEW amount, NEW inner, NEW out, NEW L, NEW sol, NEW c, NEW a,
           NEW so, NEW last, Launched(n, ts, f, amount, inner, out, L, sol, c, a, so, last)
    PROVE  /\ ts[1] \in Coins /\ L.parent = ts[1] /\ L.puzzle = LauncherPuzzle /\ L.amount = amount
           /\ L \notin Coins \cup P2Coins \cup {Singleton}
           /\ sol # LauncherPuzzle
           /\ \A d \in Given : d.op = "CREATE_COIN" => d.id # sol
<1>1. ts[1] \in Coins /\ amount \in LaunchAmounts /\ inner \in InnerPuzzles
  BY DEF Launched, Launches, StandardCoins
<1>2. L = [parent |-> ts[1], puzzle |-> LauncherPuzzle, amount |-> amount]
  BY DEF Launched, Launcher
<1>3. sol = << L, inner, amount >>
  BY <1>2 DEF Launched, launcherSolution
<1>4. L \notin Coins \cup P2Coins \cup {Singleton}
  BY <1>1, <1>2, NamesAssumption
<1>5. sol # LauncherPuzzle /\ \A d \in Given : d.op = "CREATE_COIN" => d.id # sol
  BY <1>1, <1>2, <1>3, NamesAssumption
<1> QED BY <1>1, <1>2, <1>4, <1>5

(* The conditions of the standard coins, and those of the launcher.           *)
LaunchLists(L, sol, amount, out, c, a, so, last) ==
    /\ so = <<c, a>> \o out /\ out \in Seq(Given)
    /\ \A D : Has(so, D) <=> c \in D \/ a \in D \/ Has(out, D)
    /\ last.coin = L
    /\ \A D : Has(last.conditions, D) <=>
                  createCoin(sol, amount) \in D \/ createCoinAnnouncement(sol) \in D

(* They are these.                                                           *)
LEMMA LaunchHas ==
    ASSUME NEW n, NEW ts, NEW f, NEW amount, NEW inner, NEW out, NEW L, NEW sol, NEW c, NEW a,
           NEW so, NEW last, Launched(n, ts, f, amount, inner, out, L, sol, c, a, so, last)
    PROVE  LaunchLists(L, sol, amount, out, c, a, so, last)
<1>1. L.amount = amount
  BY LaunchNames
<1>2. so = <<c, a>> \o out
  BY <1>1 DEF Launched, ToLaunch, singletonLaunchConditions
<1>3. out \in Seq(Given)
  <2>1. out \in Lists
    BY DEF Launched, Launches, Lists
  <2> QED BY <2>1, ApplicationAssumption
<1>4. ASSUME NEW D PROVE Has(so, D) <=> c \in D \/ a \in D \/ Has(out, D)
  <2>1. PICK S, s : S = Given \cup {c, a} /\ s = <<c, a>>
    OBVIOUS
  <2>2. s \in Seq(S) /\ out \in Seq(S)
    BY <1>3, <2>1
  <2>3. so = s \o out
    BY <1>2, <2>1
  <2>4. Has(s \o out, D) <=> Has(s, D) \/ Has(out, D)
    BY <2>2, HasJoined
  <2>5. Has(s, D) <=> c \in D \/ a \in D
    BY <2>1, HasPair
  <2> QED BY <2>3, <2>5, <2>4
<1>5. /\ last.coin = L
      /\ last.conditions = <<createCoin(sol, amount), createCoinAnnouncement(sol)>>
  BY <1>1 DEF Launched, launcherSpend
<1>6. ASSUME NEW D
      PROVE  Has(last.conditions, D) <=>
                 createCoin(sol, amount) \in D \/ createCoinAnnouncement(sol) \in D
  <2>1. PICK x, y : x = createCoin(sol, amount) /\ y = createCoinAnnouncement(sol)
    OBVIOUS
  <2>2. last.conditions = <<x, y>>
    BY <1>5, <2>1
  <2>3. Has(<<x, y>>, D) <=> x \in D \/ y \in D
    BY HasPair
  <2> QED BY <2>1, <2>2, <2>3
<1> QED BY <1>2, <1>3, <1>4, <1>5, <1>6 DEF LaunchLists

(* The bundle it is of, without CATs, with the launcher at its end.           *)
LaunchBundle(S, n, ts, f, so, cats, standard, k, rest) ==
    /\ Bundle(S, n, ts, f, <<>>, so, cats, standard, rest) /\ rest = 1 /\ n # 0
    /\ InOrder(cats, 0, standard, k, rest) /\ Len(cats) = 0 /\ k = Len(standard)
    /\ k # 0 /\ standard[1] = ts[1] /\ TheAnnouncement(ts) = Announcement(ts[1], ts, FALSE)
    /\ spends[Len(spends)].coin \notin Coins

(* A launch bundles standard coins only.                                     *)
LEMMA LaunchIsBundle ==
    ASSUME NEW n, NEW ts, NEW f, NEW amount, NEW inner, NEW out, NEW L, NEW sol, NEW c, NEW a,
           NEW so, NEW last, Launched(n, ts, f, amount, inner, out, L, sol, c, a, so, last)
    PROVE  /\ spends[Len(spends)] = last
           /\ \E S, cats, standard, k, rest :
                 LaunchBundle(S, n, ts, f, so, cats, standard, k, rest)
<1>1. PICK S, cats, standard, rest :
         /\ Bundle(S, n, ts, f, <<>>, so, cats, standard, rest) /\ rest = 1
         /\ spends[Len(spends)] = last
  BY LaunchesAre DEF Launched
<1>2. last.coin = L /\ L \notin Coins
  <2>1. LaunchLists(L, sol, amount, out, c, a, so, last)
    BY LaunchHas
  <2>2. L \notin Coins \cup P2Coins \cup {Singleton}
    BY LaunchNames
  <2> QED BY <2>1, <2>2 DEF LaunchLists
<1>3. PICK m, k : m = Len(cats) /\ k = Len(standard)
  OBVIOUS
<1>4. InOrder(cats, m, standard, k, rest)
  BY <1>1, <1>2, <1>3, CoinsAre
<1>5. Led(n, ts, cats, m, standard, k)
  BY <1>1, <1>3, LeaderIs DEF Bundle
<1>6. n \in Nat \ {0} /\ \A i \in 1..n : ts[i] \in StandardCoins
  BY DEF Launched, Launches
<1>7. ~Morphs(ts)
  BY <1>5, <1>6, Kinds DEF Morphs, IsCAT, Led
<1>8. m = 0
  BY <1>5, <1>7 DEF Led
<1>9. k # 0 /\ standard[1] = ts[1] /\ TheAnnouncement(ts) = Announcement(ts[1], ts, FALSE)
  BY <1>5, <1>6, <1>8 DEF Led
<1>10. LaunchBundle(S, n, ts, f, so, cats, standard, k, rest)
  BY <1>1, <1>2, <1>3, <1>4, <1>6, <1>8, <1>9 DEF LaunchBundle
<1> QED BY <1>1, <1>10

(* Its assertions hold.                                                       *)
LEMMA LaunchAsserts ==
    ASSUME NEW n, NEW ts, NEW f, NEW amount, NEW inner, NEW out, NEW L, NEW sol, NEW c, NEW a,
           NEW so, NEW last, AllTake,
           Launched(n, ts, f, amount, inner, out, L, sol, c, a, so, last)
    PROVE  AssertionsHold
<1>1. LaunchLists(L, sol, amount, out, c, a, so, last)
  BY LaunchHas
<1>2. PICK S, cats, standard, k, rest : LaunchBundle(S, n, ts, f, so, cats, standard, k, rest)
  BY LaunchIsBundle
<1>3. spends[Len(spends)] = last /\ last.coin = L
  BY <1>1, LaunchIsBundle DEF LaunchLists
<1>4. k \in Nat /\ Len(spends) = k + 1
  BY <1>2 DEF LaunchBundle, InOrder
<1>5. SUFFICES ASSUME NEW p \in All, At(p).op \in Assertions
               PROVE  At(p).announcement \in Made
  BY DEF AssertionsHold
<1>6. PICK i \in Indices : p \in {<<i, l>> : l \in 1..Len(spends[i].conditions)}
  BY DEF All
<1>7. PICK l \in 1..Len(spends[i].conditions) : p = <<i, l>>
  BY <1>6
<1>8. PICK d : d = At(p)
  OBVIOUS
<1>9. Has(spends[i].conditions, {d})
  BY <1>7, <1>8 DEF At, Has
<1>10. CASE i \in 1..(0 + k)
  <2>1. PICK m, co : m = 0 /\ co = <<>>
    OBVIOUS
  <2>2. Quiet(co)
    BY <2>1, HasNone DEF Quiet
  <2>3. /\ Bundle(S, n, ts, f, co, so, cats, standard, rest)
        /\ InOrder(cats, m, standard, k, rest) /\ m = Len(cats) /\ k = Len(standard)
    BY <1>2, <2>1 DEF LaunchBundle
  <2>4. d.announcement \in Made \/ Has(so, {d})
    BY <1>5, <1>8, <1>9, <1>10, <2>1, <2>2, <2>3, BundleAsserts
  <2>5. CASE Has(so, {d})
    <3>1. d = c \/ d = a \/ Has(out, {d})
      BY <1>1, <2>5 DEF LaunchLists
    <3>2. d # c
      BY <1>5, <1>8 DEF Launched, createCoin, Assertions
    <3>3. ~Has(out, {d})
      <4>1. out \in Lists
        BY DEF Launched, Launches, Lists
      <4> QED BY <1>5, <1>8, <4>1, ListsAreQuiet DEF Quiet
    <3>4. d.announcement = Announcement(L, sol, FALSE)
      <4>1. d = a
        BY <3>1, <3>2, <3>3
      <4> QED BY <4>1 DEF Launched, assertCoinAnnouncement
    <3>5. Has(last.conditions, {createCoinAnnouncement(sol)})
      BY <1>1 DEF LaunchLists
    <3>6. Len(spends) \in Indices
      BY <1>4 DEF Indices
    <3>7. Announcement(L, sol, IsCAT(L)) \in Made
      BY <1>3, <3>5, <3>6, MadeAt
    <3>8. IsCAT(L) = FALSE
      BY LaunchNames, Kinds DEF IsCAT
    <3> QED BY <1>8, <3>4, <3>7, <3>8
  <2> QED BY <1>8, <2>4, <2>5
<1>11. CASE i = Len(spends)
  <2>1. d = createCoin(sol, amount) \/ d = createCoinAnnouncement(sol)
    BY <1>1, <1>3, <1>9, <1>11 DEF LaunchLists
  <2> QED BY <1>5, <1>8, <2>1 DEF createCoin, createCoinAnnouncement, Assertions
<1> QED BY <1>4, <1>6, <1>10, <1>11 DEF Indices

(* Who creates the outputs of a launch.                                       *)
LEMMA LaunchOnce ==
    ASSUME NEW n, NEW ts, NEW f, NEW amount, NEW inner, NEW out, NEW L, NEW sol, NEW c, NEW a,
           NEW so, NEW last, AllTake,
           Launched(n, ts, f, amount, inner, out, L, sol, c, a, so, last),
           NEW S, NEW cats, NEW standard, NEW k, NEW rest,
           LaunchBundle(S, n, ts, f, so, cats, standard, k, rest),
           NEW d, Unused(d, ts, f, rest), Once(so, {d})
    PROVE  OneAt({d}, 1)
<1>1. PICK m, co : m = 0 /\ co = <<>>
  OBVIOUS
<1>2. /\ Bundle(S, n, ts, f, co, so, cats, standard, rest)
      /\ InOrder(cats, m, standard, k, rest) /\ m = Len(cats) /\ k = Len(standard) /\ k # 0
  BY <1>1 DEF LaunchBundle
<1>3. AreCreated(d, co, m, so, k)
  BY <1>2, BundleCreates
<1> QED BY <1>1, <1>2, <1>3 DEF AreCreated

(* What is not among the conditions of the launcher, nor among those that a   *)
(* coin of the application has of its own.                                    *)
LEMMA LaunchUnused ==
    ASSUME NEW n, NEW ts, NEW f, NEW amount, NEW inner, NEW out, NEW L, NEW sol, NEW c, NEW a,
           NEW so, NEW last, Launched(n, ts, f, amount, inner, out, L, sol, c, a, so, last),
           NEW S, NEW cats, NEW standard, NEW k, NEW rest,
           LaunchBundle(S, n, ts, f, so, cats, standard, k, rest),
           NEW d, \A x \in Coins : d \notin ToSet(Info[x].own),
           d # createCoin(sol, amount),
           d.op \notin {"CREATE_COIN_ANNOUNCEMENT", "RESERVE_FEE"},
           d.op = "ASSERT_COIN_ANNOUNCEMENT" => d.announcement.origin # ts[1]
    PROVE  Unused(d, ts, f, rest)
<1>1. ASSUME NEW x \in Coins PROVE ~Has(Info[x].own, {d})
  <2>1. d \notin ToSet(Info[x].own)
    OBVIOUS
  <2>2. Info[x].own \in Seq(Given)
    BY ApplicationAssumption DEF Lists
  <2> QED BY <2>1, <2>2 DEF Has, ToSet
<1>2. ~Has(spends[Len(spends)].conditions, {d})
  <2>1. spends[Len(spends)] = last
    BY LaunchIsBundle
  <2>2. LaunchLists(L, sol, amount, out, c, a, so, last)
    BY LaunchHas
  <2>3. d # createCoinAnnouncement(sol)
    BY DEF createCoinAnnouncement
  <2> QED BY <2>1, <2>2, <2>3 DEF LaunchLists
<1>3. d # createCoinAnnouncement(ts) /\ d # reserveFee(f)
  BY DEF createCoinAnnouncement, reserveFee
<1>4. d # assertCoinAnnouncement(TheAnnouncement(ts))
  <2>1. TheAnnouncement(ts).origin = ts[1]
    BY DEF LaunchBundle, Announcement
  <2> QED BY <2>1 DEF assertCoinAnnouncement
<1> QED BY <1>1, <1>2, <1>3, <1>4 DEF Unused

(* No list of the application holds a condition that launches.                *)
LEMMA LaunchIsNew ==
    ASSUME NEW n, NEW ts, NEW f, NEW amount, NEW inner, NEW out, NEW L, NEW sol, NEW c, NEW a,
           NEW so, NEW last, Launched(n, ts, f, amount, inner, out, L, sol, c, a, so, last)
    PROVE  c \notin Given /\ a \notin Given /\ c # a
<1>1. c \notin Given
  BY ApplicationAssumption DEF Launched, createCoin
<1>2. a \notin Given
  BY ApplicationAssumption DEF Launched, assertCoinAnnouncement
<1>3. c.op # a.op
  BY DEF Launched, createCoin, assertCoinAnnouncement
<1> QED BY <1>1, <1>2, <1>3

(* A coin's own conditions are the application's.                            *)
LEMMA OwnIsGiven == \A x \in Coins : ToSet(Info[x].own) \subseteq Given
<1>1. \A x \in Coins : Info[x].own \in Seq(Given)
  BY ApplicationAssumption DEF Lists
<1> QED BY <1>1 DEF ToSet

(* Each condition given to the standard coins is created by the first one.    *)
LEMMA LaunchCreates ==
    ASSUME NEW n, NEW ts, NEW f, NEW amount, NEW inner, NEW out, NEW L, NEW sol, NEW c, NEW a,
           NEW so, NEW last, AllTake,
           Launched(n, ts, f, amount, inner, out, L, sol, c, a, so, last),
           NEW S, NEW cats, NEW standard, NEW k, NEW rest,
           LaunchBundle(S, n, ts, f, so, cats, standard, k, rest),
           NEW d, Has(so, {d})
    PROVE  OneAt({d}, 1)
<1>1. LaunchLists(L, sol, amount, out, c, a, so, last)
  BY LaunchHas
<1>2. c \notin Given /\ a \notin Given /\ c # a
  BY LaunchIsNew
<1>3. PICK T, s : T = Given \cup {c, a} /\ s = <<c, a>>
  OBVIOUS
<1>4. s \in Seq(T) /\ out \in Seq(T) /\ so = s \o out
  BY <1>1, <1>3 DEF LaunchLists
<1>5. /\ \A D : Has(s, D) <=> c \in D \/ a \in D
      /\ Once(s, {c}) /\ Once(s, {a})
  BY <1>2, <1>3, HasPair
<1>6. \A x \in Given : Has(out, {x}) <=> x \in ToSet(out)
  <2>1. out \in Seq(Given)
    BY <1>1 DEF LaunchLists
  <2> QED BY <2>1 DEF Has, ToSet
<1>7. ToSet(out) \subseteq Given
  BY <1>1 DEF LaunchLists, ToSet
<1>8. out \in LaunchOutputs
  BY DEF Launched, Launches
<1>9. ~Has(out, {c}) /\ ~Has(out, {a})
  BY <1>1, <1>2 DEF LaunchLists, Has
<1>10. CASE d = c
  <2>1. Once(s \o out, {c})
    BY <1>4, <1>5, <1>9, OnceJoined
  <2>2. c # createCoin(sol, amount)
    <3>1. sol # LauncherPuzzle
      BY LaunchNames
    <3> QED BY <3>1 DEF Launched, createCoin
  <2>3. c.op = "CREATE_COIN"
    BY DEF Launched, createCoin
  <2>4. \A x \in Coins : c \notin ToSet(Info[x].own)
    BY <1>2, OwnIsGiven
  <2>5. Unused(c, ts, f, rest)
    BY <2>2, <2>3, <2>4, LaunchUnused
  <2> QED BY <1>4, <1>10, <2>1, <2>5, LaunchOnce
<1>11. CASE d = a
  <2>1. Once(s \o out, {a})
    BY <1>4, <1>5, <1>9, OnceJoined
  <2>2. a.op = "ASSERT_COIN_ANNOUNCEMENT" /\ a.announcement.origin = L
    BY DEF Launched, assertCoinAnnouncement, Announcement
  <2>3. a # createCoin(sol, amount)
    BY <2>2 DEF createCoin
  <2>4. \A x \in Coins : a \notin ToSet(Info[x].own)
    BY <1>2, OwnIsGiven
  <2>5. L # ts[1]
    <3>1. ts[1] \in Coins /\ L \notin Coins \cup P2Coins \cup {Singleton}
      BY LaunchNames
    <3> QED BY <3>1
  <2>6. Unused(a, ts, f, rest)
    BY <2>2, <2>3, <2>4, <2>5, LaunchUnused
  <2> QED BY <1>4, <1>11, <2>1, <2>6, LaunchOnce
<1>12. CASE d # c /\ d # a
  <2>1. Has(out, {d})
    BY <1>1, <1>12 DEF LaunchLists
  <2>2. PICK q \in 1..Len(out) : out[q] = d
    BY <2>1, HasElement
  <2>3. d \in ToSet(out) /\ d \in Given
    BY <1>7, <2>2 DEF ToSet
  <2>4. /\ IsInjective(out) /\ \A x \in Coins : ToSet(out) \cap ToSet(Info[x].own) = {}
        /\ d.op # "CREATE_COIN_ANNOUNCEMENT"
    BY <1>8, <2>3, OutputsAssumption
  <2>5. Once(out, {d})
    BY <1>4, <2>2, <2>4, OnceIn
  <2>6. Once(s \o out, {d})
    BY <1>4, <1>5, <1>12, <2>5, OnceJoined
  <2>7. d # createCoin(sol, amount)
    <3>1. d.op = "CREATE_COIN" => d.id # sol
      BY <2>3, LaunchNames
    <3> QED BY <3>1 DEF createCoin
  <2>8. d.op # "RESERVE_FEE" /\ d.op # "ASSERT_COIN_ANNOUNCEMENT"
    BY <2>3, ApplicationAssumption
  <2>9. \A x \in Coins : d \notin ToSet(Info[x].own)
    BY <2>3, <2>4
  <2>10. Unused(d, ts, f, rest)
    BY <2>4, <2>7, <2>8, <2>9, LaunchUnused
  <2> QED BY <1>4, <2>6, <2>10, LaunchOnce
<1> QED BY <1>10, <1>11, <1>12

(* The launcher is created by its parent.                                     *)
LEMMA LauncherIs ==
    ASSUME NEW n, NEW ts, NEW f, NEW amount, NEW inner, NEW out, NEW L, NEW sol, NEW c, NEW a,
           NEW so, NEW last, AllTake,
           Launched(n, ts, f, amount, inner, out, L, sol, c, a, so, last),
           NEW S, NEW cats, NEW standard, NEW k, NEW rest,
           LaunchBundle(S, n, ts, f, so, cats, standard, k, rest)
    PROVE  LauncherIsCreated
<1>1. /\ L.parent = ts[1] /\ L.puzzle = LauncherPuzzle /\ L.amount = amount
  BY LaunchNames
<1>2. c = createCoin(L.puzzle, L.amount)
  BY <1>1 DEF Launched
<1>3. Has(so, {c})
  <2>1. LaunchLists(L, sol, amount, out, c, a, so, last)
    BY LaunchHas
  <2> QED BY <2>1 DEF LaunchLists
<1>4. OneAt({c}, 1)
  BY <1>3, LaunchCreates
<1>5. /\ k \in Nat /\ Len(spends) = k + 1 /\ k # 0 /\ standard[1] = ts[1]
      /\ \A i \in 1..k : spends[0 + i].coin = standard[i] /\ standard[i] \in StandardCoins
  BY DEF LaunchBundle, InOrder
<1>6. spends[1].coin = ts[1]
  BY <1>5
<1>7. PICK p \in All : At(p) = c /\ p[1] = 1 /\ \A q \in All : At(q) = c => q = p
  BY <1>4 DEF OneAt
<1>8. {q \in All : spends[q[1]].coin = L.parent /\ At(q) = c} = {p}
  BY <1>1, <1>6, <1>7
<1>9. Cardinality({q \in All : spends[q[1]].coin = L.parent /\ At(q) = c}) = 1
  BY <1>8, FS_Singleton
<1>10. spends[Len(spends)].coin = L
  <2>1. spends[Len(spends)] = last
    BY LaunchIsBundle
  <2>2. LaunchLists(L, sol, amount, out, c, a, so, last)
    BY LaunchHas
  <2> QED BY <2>1, <2>2 DEF LaunchLists
<1>11. ASSUME NEW i \in Indices, spends[i].coin \notin Coins
       PROVE  spends[i].coin = L
  <2>1. i \in 1..(k + 1)
    BY <1>5 DEF Indices
  <2>2. i \notin 1..k
    BY <1>5, <1>11 DEF StandardCoins
  <2>3. i = Len(spends)
    BY <1>5, <2>1, <2>2
  <2> QED BY <1>10, <2>3
<1> QED BY <1>2, <1>9, <1>11 DEF LauncherIsCreated

(* The properties of a launch.                                                *)
LEMMA LaunchesHold ==
    ASSUME NEW n, NEW ts, NEW f, NEW amount, NEW inner, NEW out,
           Launches(n, ts, f, amount, inner, out)
    PROVE  /\ RingCloses /\ CATsBalance /\ AssertionsHold /\ StandardCoinsAreLinked
           /\ LauncherIsCreated /\ OutputsOnce
<1>1. PICK L, sol, c, a, so, last : Launched(n, ts, f, amount, inner, out, L, sol, c, a, so, last)
  BY DEF Launched
<1>2. PICK S, cats, standard, k, rest : LaunchBundle(S, n, ts, f, so, cats, standard, k, rest)
  BY <1>1, LaunchIsBundle
<1>3. PICK m, co : m = 0 /\ co = <<>>
  OBVIOUS
<1>4. /\ Bundle(S, n, ts, f, co, so, cats, standard, rest) /\ n # 0
      /\ spends[Len(spends)].coin \notin Coins
      /\ InOrder(cats, m, standard, k, rest) /\ m = Len(cats) /\ k = Len(standard)
  BY <1>2, <1>3 DEF LaunchBundle
<1>5. RingCloses /\ CATsBalance /\ StandardCoinsAreLinked
  BY <1>4, BundleRings, BundleBalances, BundleLinks
<1>6. AssertionsHold
  BY <1>1, LaunchAsserts DEF AssertionsHold
<1>7. LauncherIsCreated
  BY <1>1, <1>2, LauncherIs DEF LauncherIsCreated
<1>8. ASSUME AllTake, NEW q \in 1..Len(wanted)
      PROVE  Cardinality({p \in All : At(p) = wanted[q]}) = 1
  <2>1. PICK d : d = wanted[q]
    OBVIOUS
  <2>2. wanted = so
    BY <1>1 DEF Launched, Launches, Returned
  <2>3. Has(so, {d})
    BY <2>1, <2>2 DEF Has
  <2>4. OneAt({d}, 1)
    BY <1>1, <1>2, <1>8, <2>3, LaunchCreates
  <2>5. Cardinality({p \in All : At(p) \in {d}}) = 1
    BY <2>4, OneCounts
  <2> QED BY <2>1, <2>5
<1>9. Free(co)
  BY <1>3, HasNone DEF Free
<1>10. LaunchLists(L, sol, amount, out, c, a, so, last) /\ spends[Len(spends)] = last
  BY <1>1, LaunchHas, LaunchIsBundle
<1>11. Free(so)
  <2>1. SUFFICES ASSUME NEW d, d.op = "RESERVE_FEE" PROVE ~Has(so, {d})
    BY DEF Free
  <2>2. d # c /\ d # a
    <3>1. c.op = "CREATE_COIN"
      BY <1>1 DEF Launched, createCoin
    <3>2. a.op = "ASSERT_COIN_ANNOUNCEMENT"
      BY <1>1 DEF Launched, assertCoinAnnouncement
    <3> QED BY <2>1, <3>1, <3>2
  <2>3. ~Has(out, {d})
    <3>1. out \in Lists
      BY DEF Launches, Lists
    <3> QED BY <2>1, <3>1, ListsAreFree DEF Free
  <2> QED BY <1>10, <2>2, <2>3 DEF LaunchLists
<1>12. Free(spends[Len(spends)].conditions)
  <2>1. SUFFICES ASSUME NEW d, d.op = "RESERVE_FEE" PROVE ~Has(last.conditions, {d})
    BY <1>10 DEF Free
  <2>2. d # createCoin(sol, amount) /\ d # createCoinAnnouncement(sol)
    BY <2>1 DEF createCoin, createCoinAnnouncement
  <2> QED BY <1>10, <2>2 DEF LaunchLists
<1>13. AllTake => FeeOnce
  BY <1>4, <1>9, <1>11, <1>12, BundleReserves
<1>14. OutputsOnce
  BY <1>8, <1>13 DEF OutputsOnce, FeeOnce, Reserved
<1> QED BY <1>5, <1>6, <1>7, <1>14

-----------------------------------------------------------------------------
(* The properties of a use of coins locked to a singleton. *)

(* The coins locked to the singleton, each once, in some order.               *)
LEMMA P2CoinsAre ==
    ASSUME NEW cs, cs \in SetToSeqs(P2Coins), NEW n, n = Len(cs)
    PROVE  /\ n \in Nat /\ cs \in [1..n -> P2Coins] /\ cs \in Seq(P2Coins)
           /\ \A i, j \in 1..n : cs[i] = cs[j] => i = j
<1>1. IsFiniteSet(P2Coins)
  BY NamesAssumption
<1>2. Cardinality(P2Coins) \in Nat
  BY <1>1, FS_CardinalityType
<1>3. PICK m \in Nat : m = Cardinality(P2Coins)
  BY <1>2
<1>4. cs \in [1..m -> P2Coins] /\ \A i, j \in 1..m : cs[i] = cs[j] => i = j
  BY <1>3 DEF SetToSeqs, IsInjective
<1>5. n = m
  BY <1>3, <1>4
<1> QED BY <1>3, <1>4, <1>5

(* What each of them asks of the singleton, and what it announces.            *)
toAssert(c) == assertCoinAnnouncement(Announcement(c, Dollar, FALSE))
toCreate(c) == createPuzzleAnnouncement(c)
P2Conditions == {toAssert(c) : c \in P2Coins} \cup {toCreate(c) : c \in P2Coins}

(* The conditions of the singleton: two for each coin.                        *)
Paired(cs, n, r, at) ==
    /\ at \in [0..n -> Nat] /\ at[0] = 0 /\ Len(r) = at[n]
    /\ \A i \in 1..n : at[i] = at[i - 1] + 2
    /\ \A k \in 0..n : \A i \in 1..k : at[i] <= at[k]
    /\ \A i \in 1..n : r[at[i - 1] + 1] = toAssert(cs[i]) /\ r[at[i - 1] + 2] = toCreate(cs[i])
    /\ \A q \in 1..at[n] : \E i \in 1..n : q = at[i - 1] + 1 \/ q = at[i - 1] + 2

(* The conditions of the singleton are laid two by two.                      *)
LEMMA OutputsAre ==
    ASSUME NEW cs, cs \in SetToSeqs(P2Coins), NEW n, n = Len(cs),
           NEW r, r = singletonOutputConditions(cs)
    PROVE  r \in Seq(P2Conditions) /\ \E at : Paired(cs, n, r, at)
<1>1. n \in Nat /\ cs \in [1..n -> P2Coins]
  BY P2CoinsAre
<1>2. PICK ss : ss = [i \in 1..n |-> << toAssert(cs[i]), toCreate(cs[i]) >>]
  OBVIOUS
<1>3. r = FlattenSeq(ss)
  BY <1>2 DEF singletonOutputConditions, toAssert, toCreate
<1>4. \A i \in 1..n : toAssert(cs[i]) \in P2Conditions /\ toCreate(cs[i]) \in P2Conditions
  BY <1>1 DEF P2Conditions
<1>5. \A i \in 1..n : << toAssert(cs[i]), toCreate(cs[i]) >> \in Seq(P2Conditions)
  BY <1>4
<1>6. ss \in Seq(Seq(P2Conditions)) /\ Len(ss) = n
  BY <1>1, <1>2, <1>5
<1>7. PICK at : r \in Seq(P2Conditions) /\ Places(n, ss, r, at)
  BY <1>3, <1>6, Flattened
<1>8. \A i \in 1..n : Len(ss[i]) = 2 /\ ss[i][1] = toAssert(cs[i]) /\ ss[i][2] = toCreate(cs[i])
  BY <1>2
<1>9. /\ at \in [0..n -> Nat] /\ at[0] = 0 /\ Len(r) = at[n]
      /\ \A i \in 1..n : at[i] = at[i - 1] + 2
      /\ \A k \in 0..n : \A i \in 1..k : at[i] <= at[k]
  BY <1>7, <1>8 DEF Places
<1>10. \A i \in 1..n : r[at[i - 1] + 1] = toAssert(cs[i]) /\ r[at[i - 1] + 2] = toCreate(cs[i])
  <2>1. TAKE i \in 1..n
  <2>2. \A j \in 1..Len(ss[i]) : r[at[i - 1] + j] = ss[i][j]
    BY <1>7 DEF Places
  <2> QED BY <1>8, <2>2
<1>11. \A q \in 1..at[n] : \E i \in 1..n : q = at[i - 1] + 1 \/ q = at[i - 1] + 2
  <2>1. TAKE q \in 1..at[n]
  <2>2. PICK i \in 1..n : \E j \in 1..Len(ss[i]) : q = at[i - 1] + j
    BY <1>7 DEF Places
  <2>3. PICK j \in 1..Len(ss[i]) : q = at[i - 1] + j
    BY <2>2
  <2>4. j = 1 \/ j = 2
    <3>1. Len(ss[i]) = 2
      BY <1>8, <2>2
    <3> QED BY <2>3, <3>1
  <2> QED BY <2>3, <2>4
<1>12. Paired(cs, n, r, at)
  BY <1>9, <1>10, <1>11 DEF Paired
<1> QED BY <1>7, <1>12

(* They hold what each coin asks for and announces, each once.                *)
Holds(cs, n, r) ==
    /\ \A i \in 1..n : Has(r, {toAssert(cs[i])}) /\ Has(r, {toCreate(cs[i])})
    /\ \A q \in 1..Len(r) : /\ Once(r, {r[q]})
                            /\ \E i \in 1..n : r[q] = toAssert(cs[i]) \/ r[q] = toCreate(cs[i])

(* Each of them is there once.                                               *)
LEMMA OutputsHold ==
    ASSUME NEW cs, cs \in SetToSeqs(P2Coins), NEW n, n = Len(cs),
           NEW r, r = singletonOutputConditions(cs)
    PROVE  Holds(cs, n, r)
<1>1. n \in Nat /\ cs \in [1..n -> P2Coins] /\ \A i, j \in 1..n : cs[i] = cs[j] => i = j
  BY P2CoinsAre
<1>2. PICK at : Paired(cs, n, r, at)
  BY OutputsAre
<1>3. ASSUME NEW i \in 1..n
      PROVE  /\ at[i - 1] + 1 \in 1..Len(r) /\ at[i - 1] + 2 \in 1..Len(r)
             /\ Has(r, {toAssert(cs[i])}) /\ Has(r, {toCreate(cs[i])})
  <2>1. i - 1 \in 0..n /\ n \in 0..n
    BY <1>1
  <2>2. at[i] = at[i - 1] + 2 /\ at[i] <= at[n] /\ at[i - 1] \in Nat /\ at[n] \in Nat
    BY <1>2, <2>1 DEF Paired
  <2>3. at[i - 1] + 1 \in 1..Len(r) /\ at[i - 1] + 2 \in 1..Len(r)
    BY <1>2, <2>2 DEF Paired
  <2> QED BY <1>2, <2>3 DEF Has, Paired
<1>4. ASSUME NEW c, NEW d PROVE /\ toAssert(c) = toAssert(d) => c = d
                                /\ toCreate(c) = toCreate(d) => c = d
                                /\ toAssert(c) # toCreate(d)
  <2>1. toAssert(c).announcement.origin = c /\ toAssert(d).announcement.origin = d
    BY DEF toAssert, assertCoinAnnouncement, Announcement
  <2>2. toCreate(c).message = c /\ toCreate(d).message = d
    BY DEF toCreate, createPuzzleAnnouncement
  <2>3. toAssert(c).op = "ASSERT_COIN_ANNOUNCEMENT" /\ toCreate(d).op = "CREATE_PUZZLE_ANNOUNCEMENT"
    BY DEF toAssert, assertCoinAnnouncement, toCreate, createPuzzleAnnouncement
  <2> QED BY <2>1, <2>2, <2>3
<1>5. ASSUME NEW q \in 1..Len(r)
      PROVE  /\ Once(r, {r[q]})
             /\ \E i \in 1..n : r[q] = toAssert(cs[i]) \/ r[q] = toCreate(cs[i])
  <2>1. PICK i \in 1..n : q = at[i - 1] + 1 \/ q = at[i - 1] + 2
    BY <1>2 DEF Paired
  <2>2. r[q] = toAssert(cs[i]) \/ r[q] = toCreate(cs[i])
    BY <1>2, <2>1 DEF Paired
  <2>3. ASSUME NEW p \in 1..Len(r), r[p] = r[q] PROVE p = q
    <3>1. PICK j \in 1..n : p = at[j - 1] + 1 \/ p = at[j - 1] + 2
      BY <1>2 DEF Paired
    <3>2. CASE q = at[i - 1] + 1 /\ p = at[j - 1] + 1
      <4>1. toAssert(cs[i]) = toAssert(cs[j])
        BY <1>2, <2>3, <3>2 DEF Paired
      <4> QED BY <1>1, <1>4, <3>2, <4>1
    <3>3. CASE q = at[i - 1] + 2 /\ p = at[j - 1] + 2
      <4>1. toCreate(cs[i]) = toCreate(cs[j])
        BY <1>2, <2>3, <3>3 DEF Paired
      <4> QED BY <1>1, <1>4, <3>3, <4>1
    <3>4. CASE q = at[i - 1] + 1 /\ p = at[j - 1] + 2
      <4>1. toAssert(cs[i]) = toCreate(cs[j])
        BY <1>2, <2>3, <3>4 DEF Paired
      <4> QED BY <1>4, <4>1
    <3>5. CASE q = at[i - 1] + 2 /\ p = at[j - 1] + 1
      <4>1. toCreate(cs[i]) = toAssert(cs[j])
        BY <1>2, <2>3, <3>5 DEF Paired
      <4> QED BY <1>4, <4>1
    <3> QED BY <2>1, <3>1, <3>2, <3>3, <3>4, <3>5
  <2>4. Once(r, {r[q]})
    BY <2>3 DEF Once
  <2> QED BY <2>2, <2>4
<1> QED BY <1>3, <1>5 DEF Holds

(* The spends with which the coins locked to a singleton are used.            *)
Used(cs, inner, n, r) ==
    /\ Uses(cs, inner) /\ n = Len(cs) /\ r = singletonOutputConditions(cs)
asksSingleton(c, inner) == assertPuzzleAnnouncement(Announcement(<<Singleton, inner>>, c, FALSE))

UsedSpends(cs, inner, n, r) ==
    /\ n \in Nat /\ Len(spends) = n + 1 /\ wanted = r /\ fee = 0
    /\ \A i \in 1..n : /\ cs[i] \in P2Coins /\ spends[i].coin = cs[i]
                       /\ spends[i].conditions
                              = << asksSingleton(cs[i], inner), createCoinAnnouncement(Dollar) >>
    /\ spends[n + 1].coin = Singleton /\ spends[n + 1].inner = inner
    /\ spends[n + 1].conditions = r

(* The spends are those of the coins, then that of the singleton.            *)
LEMMA SpendsAreUsed ==
    ASSUME NEW cs, NEW inner, NEW n, NEW r, Used(cs, inner, n, r)
    PROVE  UsedSpends(cs, inner, n, r)
<1>1. n \in Nat /\ cs \in [1..n -> P2Coins]
  BY P2CoinsAre DEF Used, Uses
<1>2. PICK p : p = [i \in 1..n |-> p2Spend(cs[i], inner)]
  OBVIOUS
<1>3. PICK s : s = [coin |-> Singleton, inner |-> inner, conditions |-> r]
  OBVIOUS
<1>4. spends = Append(p, s) /\ wanted = r /\ fee = 0
  BY <1>2, <1>3 DEF Used, Uses, Returned
<1>5. PICK S : S = {p2Spend(cs[i], inner) : i \in 1..n}
  OBVIOUS
<1>6. p \in Seq(S) /\ Len(p) = n
  BY <1>1, <1>2, <1>5
<1>7. /\ Len(Append(p, s)) = n + 1 /\ Append(p, s)[n + 1] = s
      /\ \A i \in 1..n : Append(p, s)[i] = p[i]
  BY <1>6, AppendIs
<1>8. /\ Len(spends) = n + 1 /\ spends[n + 1] = s
      /\ \A i \in 1..n : spends[i] = p2Spend(cs[i], inner)
  BY <1>2, <1>4, <1>7
<1>9. \A i \in 1..n : /\ cs[i] \in P2Coins /\ spends[i].coin = cs[i]
                      /\ spends[i].conditions
                             = << asksSingleton(cs[i], inner), createCoinAnnouncement(Dollar) >>
  <2>1. TAKE i \in 1..n
  <2>2. cs[i] \in P2Coins /\ spends[i] = p2Spend(cs[i], inner)
    BY <1>1, <1>8
  <2>3. PICK c : c = cs[i]
    OBVIOUS
  <2>4. spends[i] = p2Spend(c, inner)
    BY <2>2, <2>3
  <2>5. /\ p2Spend(c, inner).coin = c
        /\ p2Spend(c, inner).conditions
               = << asksSingleton(c, inner), createCoinAnnouncement(Dollar) >>
    BY DEF p2Spend, asksSingleton
  <2> QED BY <2>2, <2>3, <2>4, <2>5
<1> QED BY <1>1, <1>3, <1>4, <1>8, <1>9 DEF UsedSpends

(* None of them is a coin of a bundle.                                       *)
LEMMA NoCoinIsUsed ==
    ASSUME NEW cs, NEW inner, NEW n, NEW r, UsedSpends(cs, inner, n, r)
    PROVE  \A i \in Indices : /\ spends[i].coin \in P2Coins \cup {Singleton}
                              /\ ~IsCAT(spends[i].coin) /\ ~IsStandard(spends[i].coin)
<1>1. TAKE i \in Indices
<1>2. i \in 1..n \/ i = n + 1
  BY DEF Indices, UsedSpends
<1>3. spends[i].coin \in P2Coins \cup {Singleton}
  BY <1>2 DEF UsedSpends
<1>4. spends[i].coin \notin Coins
  BY <1>3, NamesAssumption
<1> QED BY <1>3, <1>4 DEF IsCAT, IsStandard, CATCoins, StandardCoins

(* So there is no ring, no standard coin and no launcher.                    *)
LEMMA UsesBalance ==
    ASSUME NEW cs, NEW inner, NEW n, NEW r, UsedSpends(cs, inner, n, r)
    PROVE  RingCloses /\ CATsBalance /\ StandardCoinsAreLinked /\ LauncherIsCreated
<1>1. CATIndices = {}
  BY NoCoinIsUsed DEF CATIndices
<1>2. PICK m : m = n + 1
  OBVIOUS
<1>3. m \in Nat /\ Indices = 1..m
  BY <1>2 DEF UsedSpends, Indices
<1>4. PICK ds : ds = [i \in Indices |-> IF IsCAT(spends[i].coin) THEN DeltaOf(spends[i]) ELSE 0]
  OBVIOUS
<1>5. ds = [i \in 1..m |-> 0]
  BY <1>3, <1>4, NoCoinIsUsed
<1>6. Total(ds) = 0
  BY <1>3, <1>5, NoSum
<1>7. RingCloses
  BY <1>1 DEF RingCloses
<1>8. CATsBalance
  BY <1>1, <1>4, <1>6 DEF CATsBalance
<1>9. StandardCoinsAreLinked
  BY NoCoinIsUsed DEF StandardCoinsAreLinked
<1>10. LauncherIsCreated
  BY NoCoinIsUsed DEF LauncherIsCreated
<1> QED BY <1>7, <1>8, <1>9, <1>10

(* What a coin locked to the singleton asserts and announces.                *)
LEMMA P2Has ==
    ASSUME NEW cs, NEW inner, NEW n, NEW r, UsedSpends(cs, inner, n, r), NEW i \in 1..n, NEW D
    PROVE  Has(spends[i].conditions, D) <=>
               asksSingleton(cs[i], inner) \in D \/ createCoinAnnouncement(Dollar) \in D
<1>1. PICK x, y : x = asksSingleton(cs[i], inner) /\ y = createCoinAnnouncement(Dollar)
  OBVIOUS
<1>2. spends[i].conditions = <<x, y>>
  BY <1>1 DEF UsedSpends
<1>3. Has(<<x, y>>, D) <=> x \in D \/ y \in D
  BY HasPair
<1> QED BY <1>1, <1>2, <1>3

(* The opcodes and announcements of those conditions.                        *)
LEMMA OpsAre ==
    /\ \A c : toAssert(c).op = "ASSERT_COIN_ANNOUNCEMENT"
    /\ \A c : toAssert(c).announcement = Announcement(c, Dollar, FALSE)
    /\ \A c : toCreate(c).op = "CREATE_PUZZLE_ANNOUNCEMENT" /\ toCreate(c).message = c
    /\ \A c, inner : asksSingleton(c, inner).op = "ASSERT_PUZZLE_ANNOUNCEMENT"
    /\ \A c, inner : asksSingleton(c, inner).announcement
                         = Announcement(<<Singleton, inner>>, c, FALSE)
    /\ createCoinAnnouncement(Dollar).op = "CREATE_COIN_ANNOUNCEMENT"
BY DEF toAssert, toCreate, asksSingleton, assertCoinAnnouncement, createPuzzleAnnouncement,
       assertPuzzleAnnouncement, createCoinAnnouncement

(* Each side makes what the other asserts.                                    *)
LEMMA UsesAssert ==
    ASSUME NEW cs, NEW inner, NEW n, NEW r, Used(cs, inner, n, r)
    PROVE  AssertionsHold
<1>1. UsedSpends(cs, inner, n, r)
  BY SpendsAreUsed
<1>2. n \in Nat /\ Indices = 1..(n + 1) /\ spends[n + 1].conditions = r
  BY <1>1 DEF UsedSpends, Indices
<1>3. cs \in SetToSeqs(P2Coins) /\ n = Len(cs) /\ r = singletonOutputConditions(cs)
  BY DEF Used, Uses
<1>4. Holds(cs, n, r)
  BY <1>3, OutputsHold
<1>5. SUFFICES ASSUME NEW p \in All, At(p).op \in Assertions
               PROVE  At(p).announcement \in Made
  BY DEF AssertionsHold
<1>6. PICK i \in Indices : p \in {<<i, l>> : l \in 1..Len(spends[i].conditions)}
  BY DEF All
<1>7. PICK l \in 1..Len(spends[i].conditions) : p = <<i, l>>
  BY <1>6
<1>8. PICK d : d = At(p)
  OBVIOUS
<1>9. d = spends[i].conditions[l] /\ Has(spends[i].conditions, {d})
  BY <1>7, <1>8 DEF At, Has
<1>10. CASE i \in 1..n
  <2>1. d = asksSingleton(cs[i], inner) \/ d = createCoinAnnouncement(Dollar)
    BY <1>1, <1>9, <1>10, P2Has
  <2>2. d.announcement = Announcement(<<Singleton, inner>>, cs[i], FALSE)
    <3>1. d # createCoinAnnouncement(Dollar)
      BY <1>5, <1>8, OpsAre DEF Assertions
    <3>2. PICK c : c = cs[i]
      OBVIOUS
    <3>3. d = asksSingleton(c, inner)
      BY <2>1, <3>1, <3>2
    <3> QED BY <3>2, <3>3, OpsAre
  <2>3. Has(r, {toCreate(cs[i])})
    BY <1>10, <1>4 DEF Holds
  <2>4. PICK q \in All : q[1] = n + 1 /\ At(q) = toCreate(cs[i])
    <3>1. n + 1 \in Indices /\ Has(spends[n + 1].conditions, {toCreate(cs[i])})
      BY <1>2, <2>3
    <3>2. \E q \in All : q[1] = n + 1 /\ At(q) \in {toCreate(cs[i])}
      BY <3>1, HasAt
    <3> QED BY <3>2
  <2>5. At(q).op = "CREATE_PUZZLE_ANNOUNCEMENT" /\ At(q).message = cs[i]
    BY <2>4, OpsAre
  <2>6. Announcement(<<Singleton, spends[q[1]].inner>>, At(q).message, FALSE) \in Made
    BY <2>5 DEF Made
  <2>7. spends[q[1]].inner = inner
    BY <1>1, <2>4 DEF UsedSpends
  <2> QED BY <1>8, <2>2, <2>5, <2>6, <2>7
<1>11. CASE i = n + 1
  <2>1. PICK j \in 1..n : d = toAssert(cs[j]) \/ d = toCreate(cs[j])
    <3>1. l \in 1..Len(r) /\ d = r[l]
      BY <1>2, <1>7, <1>9, <1>11
    <3> QED BY <1>4, <3>1 DEF Holds
  <2>2. d.announcement = Announcement(cs[j], Dollar, FALSE)
    <3>1. d # toCreate(cs[j])
      BY <1>5, <1>8, OpsAre DEF Assertions
    <3> QED BY <2>1, <3>1, OpsAre
  <2>3. Has(spends[j].conditions, {createCoinAnnouncement(Dollar)})
    BY <1>1, P2Has
  <2>4. j \in Indices
    BY <1>2
  <2>5. Announcement(spends[j].coin, Dollar, IsCAT(spends[j].coin)) \in Made
    BY <2>3, <2>4, MadeAt
  <2>6. spends[j].coin = cs[j] /\ IsCAT(spends[j].coin) = FALSE
    <3>1. ~IsCAT(spends[j].coin)
      BY <1>1, <2>4, NoCoinIsUsed
    <3>2. IsCAT(spends[j].coin) \in BOOLEAN
      BY DEF IsCAT
    <3>3. spends[j].coin = cs[j]
      BY <1>1 DEF UsedSpends
    <3> QED BY <3>1, <3>2, <3>3
  <2> QED BY <1>8, <2>2, <2>5, <2>6
<1> QED BY <1>2, <1>10, <1>11

(* The singleton alone creates what it is asked for.                          *)
LEMMA UsesCreate ==
    ASSUME NEW cs, NEW inner, NEW n, NEW r, Used(cs, inner, n, r)
    PROVE  OutputsOnce
<1>1. UsedSpends(cs, inner, n, r)
  BY SpendsAreUsed
<1>2. n \in Nat /\ Indices = 1..(n + 1) /\ spends[n + 1].conditions = r /\ wanted = r /\ fee = 0
  BY <1>1 DEF UsedSpends, Indices
<1>3. cs \in SetToSeqs(P2Coins) /\ n = Len(cs) /\ r = singletonOutputConditions(cs)
  BY DEF Used, Uses
<1>4. Holds(cs, n, r)
  BY <1>3, OutputsHold
<1>5. ASSUME NEW q \in 1..Len(wanted) PROVE Cardinality({p \in All : At(p) = wanted[q]}) = 1
  <2>1. PICK d : d = r[q]
    OBVIOUS
  <2>2. q \in 1..Len(r)
    BY <1>2
  <2>3. Once(r, {d}) /\ \E j \in 1..n : d = toAssert(cs[j]) \/ d = toCreate(cs[j])
    BY <1>4, <2>1, <2>2 DEF Holds
  <2>4. d.op \in {"ASSERT_COIN_ANNOUNCEMENT", "CREATE_PUZZLE_ANNOUNCEMENT"}
    BY <2>3, OpsAre
  <2>5. ASSUME NEW k \in Indices, k # n + 1 PROVE ~Has(spends[k].conditions, {d})
    <3>1. k \in 1..n
      BY <1>2, <2>5
    <3>2. d # asksSingleton(cs[k], inner) /\ d # createCoinAnnouncement(Dollar)
      BY <2>4, OpsAre
    <3> QED BY <1>1, <3>1, <3>2, P2Has
  <2>6. n + 1 \in Indices
    BY <1>2
  <2>7. OneAt({d}, n + 1)
    BY <1>2, <2>3, <2>5, <2>6, OnceAt
  <2>8. Cardinality({p \in All : At(p) \in {d}}) = 1
    BY <2>7, OneCounts
  <2> QED BY <1>2, <2>1, <2>8
<1>6. ASSUME NEW p \in All PROVE At(p).op # "RESERVE_FEE"
  <2>1. PICK i \in Indices : p \in {<<i, l>> : l \in 1..Len(spends[i].conditions)}
    BY DEF All
  <2>2. PICK l \in 1..Len(spends[i].conditions) : p = <<i, l>>
    BY <2>1
  <2>3. PICK d : d = At(p)
    OBVIOUS
  <2>4. d = spends[i].conditions[l] /\ Has(spends[i].conditions, {d})
    BY <2>2, <2>3 DEF At, Has
  <2>5. CASE i \in 1..n
    <3>1. d = asksSingleton(cs[i], inner) \/ d = createCoinAnnouncement(Dollar)
      BY <1>1, <2>4, <2>5, P2Has
    <3> QED BY <2>3, <3>1, OpsAre
  <2>6. CASE i = n + 1
    <3>1. l \in 1..Len(r) /\ d = r[l]
      BY <1>2, <2>2, <2>4, <2>6
    <3>2. \E j \in 1..n : d = toAssert(cs[j]) \/ d = toCreate(cs[j])
      BY <1>4, <3>1 DEF Holds
    <3> QED BY <2>3, <3>2, OpsAre
  <2> QED BY <1>2, <2>5, <2>6
<1>7. Reserved = {}
  BY <1>6 DEF Reserved
<1>8. FeeOnce
  BY <1>2, <1>7, FS_EmptySet DEF FeeOnce
<1> QED BY <1>5, <1>8 DEF OutputsOnce, FeeOnce, Reserved

(* All properties of a use.                                                  *)
LEMMA UsesHold ==
    ASSUME NEW cs, NEW inner, Uses(cs, inner)
    PROVE  /\ RingCloses /\ CATsBalance /\ AssertionsHold /\ StandardCoinsAreLinked
           /\ LauncherIsCreated /\ OutputsOnce
<1>1. PICK n, r : Used(cs, inner, n, r)
  BY DEF Used
<1>2. UsedSpends(cs, inner, n, r)
  BY <1>1, SpendsAreUsed
<1>3. RingCloses /\ CATsBalance /\ StandardCoinsAreLinked /\ LauncherIsCreated
  BY <1>2, UsesBalance
<1> QED BY <1>1, <1>3, UsesAssert, UsesCreate

(* All properties of a call.                                                 *)
LEMMA CallsHold ==
    OneCall => /\ RingCloses /\ CATsBalance /\ AssertionsHold /\ StandardCoinsAreLinked
               /\ LauncherIsCreated /\ OutputsOnce
BY SilentHolds, BundlesHold, LaunchesHold, UsesHold DEF OneCall

(* The ring of CATs that bundleCATs lays closes: each neighbour names the     *)
(* other, and the subtotals run round it, from 0 up.                          *)
THEOREM CATRingCloses == Spec => []RingCloses
BY SpecIsOne, CallsHold, PTL

(* bundle() returns CATs of one asset only, which create what they spend.     *)
THEOREM CATsAreBalanced == Spec => []CATsBalance
BY SpecIsOne, CallsHold, PTL

(* Every announcement that a returned spend asserts is made by one of them,   *)
(* if the coins took their conditions.                                        *)
THEOREM AssertionsAreMet == Spec => []AssertionsHold
BY SpecIsOne, CallsHold, PTL

(* Every standard coin of several asserts an announcement over all the names, *)
(* but for at most one, whose announcement every other coin asserts, if the   *)
(* coins took their conditions.                                               *)
THEOREM StandardCoinsLinked == Spec => []StandardCoinsAreLinked
BY SpecIsOne, CallsHold, PTL

(* The launcher that launchSingleton spends is created by its parent, once,   *)
(* if the coins took their conditions.                                        *)
THEOREM LauncherHasParent == Spec => []LauncherIsCreated
BY SpecIsOne, CallsHold, PTL

(* Each output condition and the fee are asked for by exactly one coin, if    *)
(* the coins took their conditions.                                           *)
THEOREM NothingTwice == Spec => []OutputsOnce
BY SpecIsOne, CallsHold, PTL

-----------------------------------------------------------------------------
(* Signing: how often a pair occurs in lists. *)

(* The prover's form of a bijection. *)
LEMMA SameCount ==
    ASSUME NEW A, NEW B, IsFiniteSet(A), NEW f \in [A -> B],
           \A a, b \in A : f[a] = f[b] => a = b,
           \A b \in B : \E a \in A : f[a] = b
    PROVE  Cardinality(B) = Cardinality(A) /\ IsFiniteSet(B)
<1>1. f \in Bijection(A, B)
  BY DEF Bijection, Injection, Surjection, IsInjective
<1>2. ExistsBijection(A, B)
  BY <1>1 DEF ExistsBijection
<1> QED BY <1>2, FS_Bijection

IsSeq(s) == s \in Seq(ToSet(s))
Positions(x, s) == {i \in 1..Len(s) : s[i] = x}

(* Every sequence is one of its own elements.                                *)
LEMMA SeqsAre ==
    /\ \A S : \A s \in Seq(S) : IsSeq(s)
    /\ \A s : IsSeq(s) => Len(s) \in Nat
<1>1. ASSUME NEW S, NEW s \in Seq(S) PROVE IsSeq(s)
  <2>1. Len(s) \in Nat /\ s = [i \in 1..Len(s) |-> s[i]]
    OBVIOUS
  <2>2. \A i \in 1..Len(s) : s[i] \in ToSet(s)
    BY DEF ToSet
  <2> QED BY <2>1, <2>2 DEF IsSeq
<1>2. ASSUME NEW s, IsSeq(s) PROVE Len(s) \in Nat
  BY <1>2 DEF IsSeq
<1> QED BY <1>1, <1>2

(* How often x occurs in s. *)
LEMMA OccursIs ==
    ASSUME NEW s, Len(s) \in Nat, NEW x
    PROVE  /\ Occurrences(x, s) = Cardinality(Positions(x, s))
           /\ Occurrences(x, s) \in Nat /\ IsFiniteSet(Positions(x, s))
           /\ Occurrences(x, s) # 0 <=> Has(s, {x})
<1>1. IsFiniteSet(1..Len(s))
  BY FS_Interval
<1>2. Positions(x, s) \in SUBSET (1..Len(s))
  BY DEF Positions
<1>3. IsFiniteSet(Positions(x, s))
  BY <1>1, <1>2, FS_Subset
<1>4. Occurrences(x, s) = Cardinality(Positions(x, s))
  BY DEF Occurrences, Positions
<1>5. Cardinality(Positions(x, s)) \in Nat
  BY <1>3, FS_CardinalityType
<1>6. Cardinality(Positions(x, s)) = 0 <=> Positions(x, s) = {}
  BY <1>3, FS_EmptySet
<1>7. Positions(x, s) = {} <=> ~Has(s, {x})
  BY DEF Positions, Has
<1> QED BY <1>3, <1>4, <1>5, <1>6, <1>7

(* Occurrences in two lists joined add up.                                   *)
LEMMA OccursJoined ==
    ASSUME NEW S, NEW s \in Seq(S), NEW t \in Seq(S), NEW x
    PROVE  Occurrences(x, s \o t) = Occurrences(x, s) + Occurrences(x, t)
<1>1. PICK n, m, r : n = Len(s) /\ m = Len(t) /\ r = s \o t
  OBVIOUS
<1>2. /\ n \in Nat /\ m \in Nat /\ Len(r) = n + m
      /\ \A q \in 1..n : r[q] = s[q]
      /\ \A q \in (n + 1)..(n + m) : r[q] = t[q - n]
  BY <1>1, Following
<1>3. PICK A, B, C, D : /\ A = Positions(x, s) /\ B = Positions(x, t) /\ C = Positions(x, r)
                        /\ D = {i \in (n + 1)..(n + m) : r[i] = x}
  OBVIOUS
<1>4. IsFiniteSet(A) /\ IsFiniteSet(B) /\ Cardinality(A) \in Nat /\ Cardinality(B) \in Nat
  BY <1>1, <1>2, <1>3, OccursIs, FS_CardinalityType
<1>5. IsFiniteSet(D) /\ Cardinality(D) = Cardinality(B)
  <2>1. PICK f : f = [i \in B |-> n + i]
    OBVIOUS
  <2>2. B = {i \in 1..m : t[i] = x}
    BY <1>1, <1>3 DEF Positions
  <2>3. ASSUME NEW i \in B PROVE n + i \in D /\ f[i] = n + i /\ i \in Nat
    <3>1. i \in 1..m /\ t[i] = x
      BY <2>2, <2>3
    <3>2. n + i \in (n + 1)..(n + m) /\ (n + i) - n = i
      BY <1>2, <3>1
    <3>3. r[n + i] = t[i]
      BY <1>2, <3>2
    <3> QED BY <1>3, <2>1, <3>1, <3>2, <3>3
  <2>4. f \in [B -> D]
    BY <2>1, <2>3
  <2>5. \A i, j \in B : f[i] = f[j] => i = j
    BY <1>2, <2>3
  <2>6. ASSUME NEW d \in D PROVE \E i \in B : f[i] = d
    <3>1. d \in (n + 1)..(n + m) /\ r[d] = x
      BY <1>3, <2>6
    <3>2. d - n \in 1..m /\ n + (d - n) = d
      BY <1>2, <3>1
    <3>3. t[d - n] = x
      BY <1>2, <3>1
    <3>4. d - n \in B
      BY <2>2, <3>2, <3>3
    <3> QED BY <2>3, <3>2, <3>4
  <2> QED BY <1>4, <2>4, <2>5, <2>6, SameCount
<1>6. C = A \cup D
  <2>1. A = {i \in 1..n : s[i] = x} /\ C = {i \in 1..(n + m) : r[i] = x}
    BY <1>1, <1>2, <1>3 DEF Positions
  <2>2. ASSUME NEW i PROVE i \in 1..(n + m) <=> i \in 1..n \/ i \in (n + 1)..(n + m)
    BY <1>2
  <2>3. ASSUME NEW i \in 1..n PROVE i \in C <=> i \in A
    BY <1>2, <2>1, <2>2, <2>3
  <2> QED BY <1>3, <2>1, <2>2, <2>3
<1>7. A \cap D = {}
  BY <1>1, <1>2, <1>3 DEF Positions
<1>8. Cardinality(C) = Cardinality(A) + Cardinality(D) - Cardinality(A \cap D)
  BY <1>4, <1>5, <1>6, FS_Union
<1>9. Cardinality(C) = Cardinality(A) + Cardinality(B)
  <2>1. Cardinality(A \cap D) = 0
    BY <1>7, FS_EmptySet
  <2> QED BY <1>4, <1>5, <1>8, <2>1
<1>10. Len(s) \in Nat /\ Len(t) \in Nat /\ Len(r) \in Nat
  BY <1>1, <1>2
<1>11. /\ Occurrences(x, s) = Cardinality(A) /\ Occurrences(x, t) = Cardinality(B)
       /\ Occurrences(x, r) = Cardinality(C)
  BY <1>3, <1>10, OccursIs
<1> QED BY <1>1, <1>9, <1>11

(* Those that a filter keeps, seen through a function. *)
Images(h, r) == [q \in 1..Len(r) |-> h[r[q]]]
KeptAt(s, T, h, x) == {j \in 1..Len(s) : s[j] \in T /\ h[s[j]] = x}

(* The images of what a filter keeps are counted in the list it filters.     *)
LEMMA OccursKept ==
    ASSUME NEW s, NEW T, NEW r, NEW at, Keeps(s, T, r, at), Len(s) \in Nat, Len(r) \in Nat,
           NEW h, NEW y, y = Images(h, r), NEW x
    PROVE  Occurrences(x, y) = Cardinality(KeptAt(s, T, h, x))
<1>1. PICK A, B : /\ A = Positions(x, y)
                  /\ B = KeptAt(s, T, h, x)
  OBVIOUS
<1>2. Len(y) = Len(r)
  BY DEF Images
<1>3. A = {q \in 1..Len(r) : h[r[q]] = x}
  BY <1>1, <1>2 DEF Positions, Images
<1>4. IsFiniteSet(A)
  BY <1>1, <1>2, OccursIs
<1>5. PICK f : f = [q \in A |-> at[q]]
  OBVIOUS
<1>6. ASSUME NEW q \in A PROVE f[q] \in B /\ f[q] = at[q]
  BY <1>1, <1>3, <1>5, <1>6 DEF Keeps, KeptAt
<1>7. f \in [A -> B]
  BY <1>5, <1>6
<1>8. ASSUME NEW p \in A, NEW q \in A, f[p] = f[q] PROVE p = q
  <2>1. p \in 1..Len(r) /\ q \in 1..Len(r) /\ at[p] = at[q]
    BY <1>3, <1>6, <1>8
  <2>2. at[p] \in Int /\ at[q] \in Int /\ (p < q => at[p] < at[q]) /\ (q < p => at[q] < at[p])
    BY <2>1 DEF Keeps
  <2> QED BY <2>1, <2>2
<1>9. ASSUME NEW b \in B PROVE \E q \in A : f[q] = b
  <2>1. b \in 1..Len(s) /\ s[b] \in T /\ h[s[b]] = x
    BY <1>1, <1>9 DEF KeptAt
  <2>2. PICK q \in 1..Len(r) : at[q] = b
    BY <2>1 DEF Keeps
  <2>3. r[q] = s[b]
    BY <2>2 DEF Keeps
  <2>4. q \in A
    BY <1>3, <2>1, <2>2, <2>3
  <2> QED BY <1>6, <2>2, <2>4
<1>10. Cardinality(B) = Cardinality(A)
  BY <1>4, <1>7, <1>8, <1>9, SameCount
<1> QED BY <1>1, <1>2, <1>10, OccursIs

(* A list of lists is a sequence of sequences of some set. *)
AreSeqs(n, ss) == ss = [i \in 1..n |-> ss[i]] /\ \A i \in 1..n : IsSeq(ss[i])

(* Such a list is what Flattened is about.                                   *)
LEMMA SeqsOfSeqs ==
    ASSUME NEW n \in Nat, NEW ss, AreSeqs(n, ss)
    PROVE  Len(ss) = n /\ \E S : ss \in Seq(Seq(S))
<1>1. PICK S : S = UNION {ToSet(ss[i]) : i \in 1..n}
  OBVIOUS
<1>2. ASSUME NEW i \in 1..n PROVE ss[i] \in Seq(S)
  <2>1. ss[i] \in Seq(ToSet(ss[i]))
    BY DEF AreSeqs, IsSeq
  <2>2. ToSet(ss[i]) \subseteq S
    BY <1>1
  <2> QED BY <2>1, <2>2, SeqOfMore
<1>3. ss \in [1..n -> Seq(S)]
  BY <1>2 DEF AreSeqs
<1> QED BY <1>3

(* How often x occurs in the lists joined. *)
LEMMA OccursFlattened ==
    ASSUME NEW n \in Nat, NEW ss, AreSeqs(n, ss), NEW x
    PROVE  /\ Occurrences(x, FlattenSeq(ss)) = Total([i \in 1..n |-> Occurrences(x, ss[i])])
           /\ IsSeq(FlattenSeq(ss))
<1>1. PICK S : ss \in Seq(Seq(S)) /\ n = Len(ss)
  BY SeqsOfSeqs
<1>2. AreSequences(n, ss, S)
  BY <1>1, Joining
<1>3. PICK f : Joins(n, ss, S, f) /\ FlattenSeq(ss) = f[n]
  BY <1>1, Joining
<1>4. PICK ds : ds = [i \in 1..n |-> Occurrences(x, ss[i])]
  OBVIOUS
<1>5. ASSUME NEW i \in 1..n PROVE ss[i] \in Seq(S) /\ Occurrences(x, ss[i]) \in Nat
  <2>1. ss[i] \in Seq(S)
    BY <1>2 DEF AreSequences
  <2>2. Len(ss[i]) \in Nat
    BY <2>1
  <2> QED BY <2>1, <2>2, OccursIs
<1>6. ds \in [1..n -> Int]
  BY <1>4, <1>5
<1>7. PICK sums : sums = Sums(ds)
  OBVIOUS
<1>8. AreSums(n, ds, sums) /\ Total(ds) = sums[n]
  BY <1>6, <1>7, Summed
<1>9. PICK T : T = {k \in 0..n : Occurrences(x, f[k]) = sums[k]}
  OBVIOUS
<1>10. 0 \in T
  <2>1. Occurrences(x, <<>>) = 0
    BY OccursIs, HasNone
  <2>2. f[0] = <<>> /\ sums[0] = 0
    BY <1>3, <1>8 DEF Joins, AreSums
  <2> QED BY <1>9, <2>1, <2>2
<1>11. ASSUME NEW k \in 1..n, k - 1 \in T PROVE k \in T
  <2>1. k - 1 \in 0..n /\ f[k - 1] \in Seq(S) /\ f[k] = f[k - 1] \o ss[k]
    <3>1. k - 1 \in 0..n
      OBVIOUS
    <3>2. f \in [0..n -> Seq(S)] /\ f[k] = f[k - 1] \o ss[k]
      BY <1>3 DEF Joins
    <3> QED BY <3>1, <3>2
  <2>2. Occurrences(x, f[k - 1] \o ss[k]) = Occurrences(x, f[k - 1]) + Occurrences(x, ss[k])
    BY <1>5, <2>1, OccursJoined
  <2>3. sums[k] = sums[k - 1] + ds[k] /\ ds[k] = Occurrences(x, ss[k])
    BY <1>4, <1>8 DEF AreSums
  <2>4. Occurrences(x, f[k - 1]) = sums[k - 1]
    BY <1>9, <1>11
  <2>5. k \in 0..n
    OBVIOUS
  <2>6. Occurrences(x, f[k]) = sums[k]
    BY <2>1, <2>2, <2>3, <2>4
  <2> QED BY <1>9, <2>5, <2>6
<1>12. n \in T
  BY <1>10, <1>11, UpTo
<1>13. IsSeq(f[n])
  <2>1. f[n] \in Seq(S)
    BY <1>3 DEF Joins
  <2> QED BY <2>1, SeqsAre
<1> QED BY <1>3, <1>4, <1>8, <1>9, <1>12, <1>13

(* The sum of two lists of numbers, one after the other. *)
Follow(m, es, n, gs, ds) ==
    /\ m \in Nat /\ n \in Nat
    /\ es \in [1..m -> Int] /\ gs \in [1..n -> Int] /\ ds \in [1..(m + n) -> Int]
    /\ \A k \in 1..m : ds[k] = es[k]
    /\ \A k \in 1..n : ds[m + k] = gs[k]

(* Their totals add up.                                                      *)
LEMMA TotalJoined ==
    ASSUME NEW m, NEW es, NEW n, NEW gs, NEW ds, Follow(m, es, n, gs, ds)
    PROVE  Total(ds) = Total(es) + Total(gs)
<1>1. /\ m \in Nat /\ n \in Nat /\ m + n \in Nat
      /\ es \in [1..m -> Int] /\ gs \in [1..n -> Int] /\ ds \in [1..(m + n) -> Int]
  BY DEF Follow
<1>2. PICK se, sg, sd : se = Sums(es) /\ sg = Sums(gs) /\ sd = Sums(ds)
  OBVIOUS
<1>3. AreSums(m, es, se) /\ Total(es) = se[m]
  BY <1>1, <1>2, Summed
<1>4. AreSums(n, gs, sg) /\ Total(gs) = sg[n]
  BY <1>1, <1>2, Summed
<1>5. PICK l : l = m + n
  OBVIOUS
<1>6. AreSums(l, ds, sd) /\ Total(ds) = sd[l]
  <2>1. l \in Nat /\ ds \in [1..l -> Int]
    BY <1>1, <1>5
  <2> QED BY <1>2, <2>1, Summed
<1>7. PICK T : T = {k \in 0..m : sd[k] = se[k]}
  OBVIOUS
<1>8. m \in T
  <2>1. 0 \in T
    BY <1>1, <1>3, <1>6, <1>7 DEF AreSums
  <2>2. ASSUME NEW k \in 1..m, k - 1 \in T PROVE k \in T
    <3>1. k \in 1..l /\ k \in 0..m
      BY <1>1, <1>5
    <3>2. sd[k] = sd[k - 1] + ds[k] /\ se[k] = se[k - 1] + es[k] /\ ds[k] = es[k]
      BY <1>3, <1>6, <3>1 DEF AreSums, Follow
    <3> QED BY <1>7, <2>2, <3>1, <3>2
  <2>3. \A k \in 0..m : k \in T
    BY <1>1, <2>1, <2>2, UpTo
  <2> QED BY <1>1, <2>3
<1>9. PICK U : U = {k \in 0..n : sd[m + k] = se[m] + sg[k]}
  OBVIOUS
<1>10. n \in U
  <2>1. 0 \in U
    <3>1. sd[m] = se[m] /\ sg[0] = 0 /\ se[m] \in Int
      BY <1>1, <1>3, <1>4, <1>7, <1>8 DEF AreSums
    <3> QED BY <1>1, <1>9, <3>1
  <2>2. ASSUME NEW k \in 1..n, k - 1 \in U PROVE k \in U
    <3>1. m + k \in 1..l /\ k \in 0..n /\ k - 1 \in 0..n /\ (m + k) - 1 = m + (k - 1)
      BY <1>1, <1>5
    <3>2. sd[m + k] = sd[m + (k - 1)] + ds[m + k]
      BY <1>6, <3>1 DEF AreSums
    <3>3. sg[k] = sg[k - 1] + gs[k] /\ ds[m + k] = gs[k]
      BY <1>4 DEF AreSums, Follow
    <3>4. sd[m + (k - 1)] = se[m] + sg[k - 1]
      BY <1>9, <2>2
    <3>5. se[m] \in Int /\ sg[k - 1] \in Int /\ gs[k] \in Int
      BY <1>1, <1>3, <1>4, <3>1 DEF AreSums
    <3>6. sd[m + k] = se[m] + sg[k]
      BY <3>2, <3>3, <3>4, <3>5
    <3> QED BY <1>9, <3>1, <3>6
  <2>3. \A k \in 0..n : k \in U
    BY <1>1, <2>1, <2>2, UpTo
  <2> QED BY <1>1, <2>3
<1> QED BY <1>3, <1>4, <1>5, <1>6, <1>9, <1>10

(* What the elements of a list weigh together. *)
Weight(w, s) == Total([k \in 1..Len(s) |-> w[s[k]]])

(* The weights of two lists joined add up.                                   *)
LEMMA WeightJoined ==
    ASSUME NEW Z, NEW w \in [Z -> Int], NEW s \in Seq(Z), NEW t \in Seq(Z)
    PROVE  Weight(w, s \o t) = Weight(w, s) + Weight(w, t)
<1>1. PICK m, n, r : m = Len(s) /\ n = Len(t) /\ r = s \o t
  OBVIOUS
<1>2. /\ m \in Nat /\ n \in Nat /\ Len(r) = m + n
      /\ \A q \in 1..m : r[q] = s[q] /\ s[q] \in Z
      /\ \A q \in (m + 1)..(m + n) : r[q] = t[q - m]
      /\ \A q \in 1..n : t[q] \in Z
  BY <1>1, Following
<1>3. PICK es, gs, ds : /\ es = [k \in 1..m |-> w[s[k]]] /\ gs = [k \in 1..n |-> w[t[k]]]
                        /\ ds = [k \in 1..(m + n) |-> w[r[k]]]
  OBVIOUS
<1>4. \A k \in 1..n : m + k \in (m + 1)..(m + n) /\ (m + k) - m = k
  BY <1>2
<1>5. \A k \in 1..n : r[m + k] = t[k]
  BY <1>2, <1>4
<1>6. \A k \in 1..(m + n) : r[k] \in Z
  <2>1. TAKE k \in 1..(m + n)
  <2>2. CASE k \in 1..m
    BY <1>2, <2>2
  <2>3. CASE k \in (m + 1)..(m + n)
    <3>1. k - m \in 1..n
      BY <1>2, <2>3
    <3> QED BY <1>2, <2>3, <3>1
  <2> QED BY <1>2, <2>2, <2>3
<1>7. es \in [1..m -> Int] /\ gs \in [1..n -> Int] /\ ds \in [1..(m + n) -> Int]
  BY <1>2, <1>3, <1>6
<1>8. \A k \in 1..m : k \in 1..(m + n)
  BY <1>2
<1>9. \A k \in 1..n : m + k \in 1..(m + n)
  BY <1>2
<1>10. (\A k \in 1..m : ds[k] = es[k]) /\ (\A k \in 1..n : ds[m + k] = gs[k])
  BY <1>2, <1>3, <1>5, <1>8, <1>9
<1>11. Follow(m, es, n, gs, ds)
  BY <1>2, <1>7, <1>10 DEF Follow
<1>12. Total(ds) = Total(es) + Total(gs)
  BY <1>11, TotalJoined
<1> QED BY <1>1, <1>2, <1>3, <1>12 DEF Weight

(* A weight is a number.                                                     *)
LEMMA WeightIsInt ==
    ASSUME NEW Z, NEW w \in [Z -> Int], NEW s \in Seq(Z)
    PROVE  Weight(w, s) \in Int
<1>1. PICK m, es : m = Len(s) /\ es = [k \in 1..m |-> w[s[k]]]
  OBVIOUS
<1>2. m \in Nat /\ es \in [1..m -> Int]
  BY <1>1
<1>3. PICK sums : sums = Sums(es)
  OBVIOUS
<1>4. AreSums(m, es, sums) /\ Total(es) = sums[m]
  BY <1>2, <1>3, Summed
<1>5. sums[m] \in Int
  BY <1>2, <1>4 DEF AreSums
<1> QED BY <1>1, <1>4, <1>5 DEF Weight

(* The weights of lists joined add up.                                       *)
LEMMA WeightFlattened ==
    ASSUME NEW Z, NEW w \in [Z -> Int], NEW ss \in Seq(Seq(Z)), NEW n, n = Len(ss)
    PROVE  Weight(w, FlattenSeq(ss)) = Total([i \in 1..n |-> Weight(w, ss[i])])
<1>1. n \in Nat /\ AreSequences(n, ss, Z)
  BY Joining
<1>2. PICK f : Joins(n, ss, Z, f) /\ FlattenSeq(ss) = f[n]
  BY Joining
<1>3. PICK ds : ds = [i \in 1..n |-> Weight(w, ss[i])]
  OBVIOUS
<1>4. ASSUME NEW i \in 1..n PROVE ss[i] \in Seq(Z) /\ Weight(w, ss[i]) \in Int
  BY <1>1, WeightIsInt DEF AreSequences
<1>5. ds \in [1..n -> Int]
  BY <1>3, <1>4
<1>6. PICK sums : sums = Sums(ds)
  OBVIOUS
<1>7. AreSums(n, ds, sums) /\ Total(ds) = sums[n]
  BY <1>1, <1>5, <1>6, Summed
<1>8. PICK T : T = {k \in 0..n : Weight(w, f[k]) = sums[k]}
  OBVIOUS
<1>9. 0 \in T
  <2>1. Weight(w, <<>>) = 0
    <3>1. PICK m, es : m = 0 /\ es = [k \in 1..Len(<<>>) |-> w[<<>>[k]]]
      OBVIOUS
    <3>2. es = [k \in 1..m |-> 0]
      BY <3>1
    <3>3. Total(es) = 0
      BY <3>1, <3>2, NoSum
    <3> QED BY <3>1, <3>3 DEF Weight
  <2>2. f[0] = <<>> /\ sums[0] = 0
    BY <1>2, <1>7 DEF Joins, AreSums
  <2> QED BY <1>1, <1>8, <2>1, <2>2
<1>10. ASSUME NEW k \in 1..n, k - 1 \in T PROVE k \in T
  <2>1. k - 1 \in 0..n /\ f[k - 1] \in Seq(Z) /\ f[k] = f[k - 1] \o ss[k]
    <3>1. k - 1 \in 0..n
      BY <1>1
    <3>2. f \in [0..n -> Seq(Z)] /\ f[k] = f[k - 1] \o ss[k]
      BY <1>2 DEF Joins
    <3> QED BY <3>1, <3>2
  <2>2. Weight(w, f[k - 1] \o ss[k]) = Weight(w, f[k - 1]) + Weight(w, ss[k])
    BY <1>4, <2>1, WeightJoined
  <2>3. sums[k] = sums[k - 1] + ds[k] /\ ds[k] = Weight(w, ss[k])
    BY <1>3, <1>7 DEF AreSums
  <2>4. Weight(w, f[k - 1]) = sums[k - 1]
    BY <1>8, <1>10
  <2>5. k \in 0..n
    BY <1>1
  <2>6. Weight(w, f[k]) = sums[k]
    BY <2>1, <2>2, <2>3, <2>4
  <2> QED BY <1>8, <2>5, <2>6
<1>11. n \in T
  <2>1. \A k \in 0..n : k \in T
    BY <1>1, <1>9, <1>10, UpTo
  <2> QED BY <1>1, <2>1
<1> QED BY <1>2, <1>3, <1>7, <1>8, <1>11

-----------------------------------------------------------------------------
(* What is signed for a spend, and what it asks for. *)

(* What a spend's puzzle returns. *)
LEMMA ReturnedConditions ==
    ASSUME NEW sp, IsSeq(sp.conditions)
    PROVE  /\ IsSeq(conditionsForSolution(sp))
           /\ Parses(conditionsForSolution(sp)) <=> Parses(sp.conditions)
<1>1. CASE sp.coin \notin Coins
  BY <1>1 DEF conditionsForSolution
<1>2. CASE sp.coin \in Coins
  <2>1. PICK a, c : a = aggSigMe(KeyOf[sp.coin], sp.conditions) /\ c = sp.conditions
    OBVIOUS
  <2>2. conditionsForSolution(sp) = <<a>> \o c
    BY <1>2, <2>1 DEF conditionsForSolution
  <2>3. PICK S : S = ToSet(c) \cup {a}
    OBVIOUS
  <2>4. c \in Seq(S)
    <3>1. c \in Seq(ToSet(c)) /\ ToSet(c) \subseteq S
      BY <2>1, <2>3 DEF IsSeq
    <3> QED BY <3>1, SeqOfMore
  <2>5. PICK s : s = <<a>>
    OBVIOUS
  <2>6. s \in Seq(S) /\ Len(s) = 1 /\ s[1] = a
    BY <2>3, <2>5
  <2>7. s \o c \in Seq(S)
    BY <2>4, <2>6
  <2>8. IsSeq(s \o c)
    BY <2>7, SeqsAre
  <2>9. a # Empty
    <3>1. a.op # Empty.op
      BY <2>1 DEF aggSigMe, Empty
    <3> QED BY <3>1
  <2>10. \A r : Parses(r) <=> ~Has(r, {Empty})
    BY DEF Parses, Has
  <2>11. Has(s \o c, {Empty}) <=> Has(s, {Empty}) \/ Has(c, {Empty})
    BY <2>4, <2>6, HasJoined
  <2>12. ~Has(s, {Empty})
    BY <2>6, <2>9 DEF Has
  <2> QED BY <2>1, <2>2, <2>5, <2>8, <2>10, <2>11, <2>12
<1> QED BY <1>1, <1>2

(* The pairs made of the conditions C of a spend that a filter keeps. *)
PairsOf(C, coin, ch) ==
    [d \in ToSet(C) |-> << d.key, IF d.op = "AGG_SIG_UNSAFE" THEN d.message
                                  ELSE << d.message, coin, ch >> >>]
WithOps(C, ops) == {d \in ToSet(C) : d.op \in ops}

PairsAre(C, ops, h, r, y) ==
    /\ Len(r) \in Nat /\ y \in Seq({h[d] : d \in ToSet(C)})
    /\ \A q \in 1..Len(r) : r[q] \in ToSet(C) /\ r[q].op \in ops
    /\ \A x : Occurrences(x, y) = Cardinality(KeptAt(C, WithOps(C, ops), h, x))

(* Counting the pairs made of what a filter keeps.                           *)
LEMMA PairsKept ==
    ASSUME NEW C, IsSeq(C), NEW coin, NEW ch, NEW h, h = PairsOf(C, coin, ch), NEW ops,
           NEW r, r = WithOp(C, ops), NEW y, y = Images(h, r)
    PROVE  PairsAre(C, ops, h, r, y)
<1>1. PICK S, T : S = ToSet(C) /\ T = WithOps(C, ops)
  OBVIOUS
<1>2. C \in Seq(S) /\ Len(C) \in Nat
  BY <1>1 DEF IsSeq
<1>3. r = Filter(C, T)
  BY <1>1 DEF WithOp, WithOps
<1>4. r \in Seq(S) /\ \E at : Keeps(C, T, r, at)
  BY <1>2, <1>3, Kept
<1>5. PICK at : Keeps(C, T, r, at)
  BY <1>4
<1>6. Len(r) \in Nat
  BY <1>4
<1>7. \A q \in 1..Len(r) : r[q] \in T
  BY <1>5 DEF Keeps
<1>8. \A q \in 1..Len(r) : r[q] \in S /\ r[q].op \in ops
  BY <1>1, <1>7 DEF WithOps
<1>9. y \in Seq({h[d] : d \in S})
  BY <1>6, <1>8 DEF Images
<1>10. \A x : Occurrences(x, y) = Cardinality(KeptAt(C, T, h, x))
  BY <1>2, <1>5, <1>6, OccursKept
<1> QED BY <1>1, <1>6, <1>8, <1>9, <1>10 DEF PairsAre

(* What is signed for a spend is what it asks for. *)
LEMMA SignedIsAsked ==
    ASSUME NEW sp, IsSeq(sp.conditions), NEW ch, NEW signed, NEW asked,
           signed = pkmPairsForConditionsDict(sp, ch), asked = AsksFor(sp, ch)
    PROVE  /\ IsSeq(signed) /\ IsSeq(asked)
           /\ Parses(sp.conditions) => \A x : Occurrences(x, signed) = Occurrences(x, asked)
           /\ ~Parses(sp.conditions) => signed = <<>>
<1>1. PICK C : C = conditionsForSolution(sp)
  OBVIOUS
<1>2. IsSeq(C) /\ (Parses(C) <=> Parses(sp.conditions))
  BY <1>1, ReturnedConditions
<1>3. PICK h : h = PairsOf(C, sp.coin, ch)
  OBVIOUS
<1>4. PICK M, U, B : /\ M = {"AGG_SIG_ME"} /\ U = {"AGG_SIG_UNSAFE"}
                     /\ B = {"AGG_SIG_ME", "AGG_SIG_UNSAFE"}
  OBVIOUS
<1>5. PICK rm, ru, rb : rm = WithOp(C, M) /\ ru = WithOp(C, U) /\ rb = WithOp(C, B)
  OBVIOUS
<1>6. PICK ym, yu, yb : ym = Images(h, rm) /\ yu = Images(h, ru) /\ yb = Images(h, rb)
  OBVIOUS
<1>7. PICK S : S = {h[d] : d \in ToSet(C)}
  OBVIOUS
<1>8. PairsAre(C, M, h, rm, ym)
  BY <1>2, <1>3, <1>5, <1>6, PairsKept
<1>9. PairsAre(C, U, h, ru, yu)
  BY <1>2, <1>3, <1>5, <1>6, PairsKept
<1>10. PairsAre(C, B, h, rb, yb)
  BY <1>2, <1>3, <1>5, <1>6, PairsKept
<1>11. ym \in Seq(S) /\ yu \in Seq(S) /\ yb \in Seq(S)
  BY <1>7, <1>8, <1>9, <1>10 DEF PairsAre
<1>12. asked = yb
  <2>1. asked = [i \in 1..Len(rb) |->
                    << rb[i].key, IF rb[i].op = "AGG_SIG_UNSAFE" THEN rb[i].message
                                  ELSE << rb[i].message, sp.coin, ch >> >>]
    BY <1>1, <1>4, <1>5 DEF AsksFor
  <2>2. \A i \in 1..Len(rb) :
           h[rb[i]] = << rb[i].key, IF rb[i].op = "AGG_SIG_UNSAFE" THEN rb[i].message
                                    ELSE << rb[i].message, sp.coin, ch >> >>
    BY <1>3, <1>10 DEF PairsOf, PairsAre
  <2> QED BY <1>6, <2>1, <2>2 DEF Images
<1>13. CASE ~Parses(sp.conditions)
  <2>1. ~Parses(C)
    BY <1>2, <1>13
  <2>2. conditionsByOpcode(C, "AGG_SIG_ME") = <<>> /\ conditionsByOpcode(C, "AGG_SIG_UNSAFE") = <<>>
    BY <2>1 DEF conditionsByOpcode
  <2>3. signed = <<>> \o <<>>
    BY <1>1, <2>2 DEF pkmPairsForConditionsDict
  <2>4. signed = <<>>
    BY <2>3
  <2>5. IsSeq(signed) /\ IsSeq(asked)
    <3>1. signed \in Seq({})
      BY <2>4
    <3> QED BY <1>11, <1>12, <3>1, SeqsAre
  <2> QED BY <1>13, <2>4, <2>5
<1>14. CASE Parses(sp.conditions)
  <2>1. conditionsByOpcode(C, "AGG_SIG_ME") = rm /\ conditionsByOpcode(C, "AGG_SIG_UNSAFE") = ru
    BY <1>2, <1>4, <1>5, <1>14 DEF conditionsByOpcode
  <2>2. ym = [i \in 1..Len(rm) |-> << rm[i].key, << rm[i].message, sp.coin, ch >> >>]
    <3>1. ASSUME NEW i \in 1..Len(rm)
          PROVE  h[rm[i]] = << rm[i].key, << rm[i].message, sp.coin, ch >> >>
      <4>1. rm[i] \in ToSet(C) /\ rm[i].op # "AGG_SIG_UNSAFE"
        BY <1>4, <1>8 DEF PairsAre
      <4> QED BY <1>3, <4>1 DEF PairsOf
    <3> QED BY <1>6, <3>1 DEF Images
  <2>3. yu = [i \in 1..Len(ru) |-> << ru[i].key, ru[i].message >>]
    <3>1. ASSUME NEW i \in 1..Len(ru) PROVE h[ru[i]] = << ru[i].key, ru[i].message >>
      <4>1. ru[i] \in ToSet(C) /\ ru[i].op = "AGG_SIG_UNSAFE"
        BY <1>4, <1>9 DEF PairsAre
      <4> QED BY <1>3, <4>1 DEF PairsOf
    <3> QED BY <1>6, <3>1 DEF Images
  <2>4. signed = yu \o ym
    BY <1>1, <2>1, <2>2, <2>3 DEF pkmPairsForConditionsDict
  <2>5. ASSUME NEW x PROVE Occurrences(x, signed) = Occurrences(x, asked)
    <3>1. Occurrences(x, signed) = Occurrences(x, yu) + Occurrences(x, ym)
      BY <1>11, <2>4, OccursJoined
    <3>2. PICK J, K, L : /\ J = KeptAt(C, WithOps(C, U), h, x)
                         /\ K = KeptAt(C, WithOps(C, M), h, x)
                         /\ L = KeptAt(C, WithOps(C, B), h, x)
      OBVIOUS
    <3>3. /\ Occurrences(x, yu) = Cardinality(J) /\ Occurrences(x, ym) = Cardinality(K)
          /\ Occurrences(x, yb) = Cardinality(L)
      BY <1>8, <1>9, <1>10, <3>2 DEF PairsAre
    <3>4. L = J \cup K /\ J \cap K = {}
      BY <1>4, <3>2 DEF WithOps, KeptAt
    <3>5. IsFiniteSet(1..Len(C)) /\ J \in SUBSET (1..Len(C)) /\ K \in SUBSET (1..Len(C))
      <4>1. Len(C) \in Nat
        BY <1>2, SeqsAre
      <4>2. IsFiniteSet(1..Len(C))
        BY <4>1, FS_Interval
      <4> QED BY <3>2, <4>2 DEF KeptAt
    <3>6. IsFiniteSet(J) /\ IsFiniteSet(K)
      BY <3>5, FS_Subset
    <3>7. Cardinality(L) = Cardinality(J) + Cardinality(K) - Cardinality(J \cap K)
      BY <3>4, <3>6, FS_Union
    <3>8. /\ Cardinality(J) \in Nat /\ Cardinality(K) \in Nat /\ Cardinality(J \cap K) = 0
      BY <3>4, <3>6, FS_CardinalityType, FS_EmptySet
    <3> QED BY <1>12, <3>1, <3>3, <3>7, <3>8
  <2>6. IsSeq(signed) /\ IsSeq(asked)
    <3>1. yu \o ym \in Seq(S)
      BY <1>11
    <3> QED BY <1>11, <1>12, <2>4, <3>1, SeqsAre
  <2> QED BY <1>14, <2>5, <2>6
<1> QED BY <1>13, <1>14

-----------------------------------------------------------------------------
(* The inductive invariant of Signing. *)

(* The spends of every call are lists of conditions. *)
Part(p) == IsSeq(p) /\ \A k \in 1..Len(p) : IsSeq(p[k].conditions)
SpendsAreLists == Len(spends) \in Nat /\ \A i \in Indices : IsSeq(spends[i].conditions)

(* It is so for the spends of a Bundle.                                      *)
LEMMA BundleIsLists ==
    ASSUME NEW S, NEW n, NEW ts, NEW f, NEW co, NEW so, NEW cats, NEW standard, NEW rest,
           Bundle(S, n, ts, f, co, so, cats, standard, rest),
           rest = 1 => IsSeq(spends[Len(spends)].conditions)
    PROVE  SpendsAreLists
<1>1. PICK m, k : m = Len(cats) /\ k = Len(standard)
  OBVIOUS
<1>2. m \in Nat /\ k \in Nat /\ rest \in {0, 1} /\ Len(spends) = m + k + rest
  BY <1>1, DividedAre DEF Bundle
<1>3. /\ \A i \in 1..m : spends[i].conditions \in Seq(S)
      /\ \A i \in 1..k : spends[m + i].conditions \in Seq(S)
  BY <1>1, ConditionsAre
<1>4. ASSUME NEW i \in Indices PROVE IsSeq(spends[i].conditions)
  <2>1. i \in 1..(m + k + rest)
    BY <1>2 DEF Indices
  <2>2. CASE i \in 1..m
    BY <1>3, <2>2, SeqsAre
  <2>3. CASE i \in (m + 1)..(m + k)
    <3>1. PICK j : j = i - m
      OBVIOUS
    <3>2. j \in 1..k /\ m + j = i
      BY <1>2, <2>3, <3>1
    <3> QED BY <1>3, <3>2, SeqsAre
  <2>4. CASE i = m + k + 1 /\ rest = 1
    BY <1>2, <2>4
  <2> QED BY <1>2, <2>1, <2>2, <2>3, <2>4
<1> QED BY <1>2, <1>4 DEF SpendsAreLists

(* It is so after every call.                                                *)
LEMMA CallsAreLists == OneCall => SpendsAreLists
<1>1. ASSUME Silent PROVE SpendsAreLists
  BY <1>1 DEF Silent, SpendsAreLists, Indices
<1>2. ASSUME NEW n, NEW ts, NEW f, NEW co, NEW so, Bundles(n, ts, f, co, so)
      PROVE  SpendsAreLists
  <2>1. PICK rest : rest = 0
    OBVIOUS
  <2>2. PICK S, cats, standard : Bundle(S, n, ts, f, co, so, cats, standard, rest)
    BY <1>2, <2>1, BundlesAre
  <2> QED BY <2>1, <2>2, BundleIsLists
<1>3. ASSUME NEW n, NEW ts, NEW f, NEW amount, NEW inner, NEW out,
             Launches(n, ts, f, amount, inner, out)
      PROVE  SpendsAreLists
  <2>1. PICK S, co, so, cats, standard, rest :
           /\ Bundle(S, n, ts, f, co, so, cats, standard, rest)
           /\ spends[Len(spends)] = launcherSpend(Launcher(ts, amount), inner)
    BY <1>3, LaunchesAre
  <2>2. PICK c, a : spends[Len(spends)].conditions = <<c, a>>
    BY <2>1 DEF launcherSpend
  <2>3. <<c, a>> \in Seq({c, a})
    OBVIOUS
  <2>4. IsSeq(spends[Len(spends)].conditions)
    BY <2>2, <2>3, SeqsAre
  <2> QED BY <2>1, <2>4, BundleIsLists
<1>4. ASSUME NEW cs, NEW inner, Uses(cs, inner) PROVE SpendsAreLists
  <2>1. PICK n, r : Used(cs, inner, n, r)
    BY <1>4 DEF Used
  <2>2. UsedSpends(cs, inner, n, r)
    BY <2>1, SpendsAreUsed
  <2>3. IsSeq(r)
    <3>1. cs \in SetToSeqs(P2Coins) /\ n = Len(cs) /\ r = singletonOutputConditions(cs)
      BY <2>1 DEF Used, Uses
    <3>2. r \in Seq(P2Conditions)
      BY <3>1, OutputsAre
    <3> QED BY <3>2, SeqsAre
  <2>4. ASSUME NEW i \in 1..n PROVE IsSeq(spends[i].conditions)
    <3>1. PICK c, a : spends[i].conditions = <<c, a>>
      BY <2>2 DEF UsedSpends
    <3>2. <<c, a>> \in Seq({c, a})
      OBVIOUS
    <3> QED BY <3>1, <3>2, SeqsAre
  <2>5. n \in Nat /\ Len(spends) = n + 1 /\ spends[n + 1].conditions = r
    BY <2>2 DEF UsedSpends
  <2> QED BY <2>3, <2>4, <2>5 DEF SpendsAreLists, Indices
<1> QED BY <1>1, <1>2, <1>3, <1>4 DEF OneCall

(* It is so for every part of the spends.                                    *)
LEMMA PartsAreLists == ASSUME OneCall, NEW p \in Parts PROVE Part(p)
<1>1. Len(spends) \in Nat /\ \A i \in 1..Len(spends) : IsSeq(spends[i].conditions)
  BY CallsAreLists DEF SpendsAreLists, Indices
<1>2. PICK i \in 1..Len(spends), j \in 1..Len(spends) : p = SubSeq(spends, i, j)
  BY DEF Parts
<1>3. /\ i \in Int /\ j \in Int
      /\ \A k \in i..j : k \in 1..Len(spends)
  BY <1>1, <1>2
<1>4. PICK S : S = {spends[k] : k \in 1..Len(spends)}
  OBVIOUS
<1>5. \A k \in i..j : spends[k] \in S
  BY <1>3, <1>4
<1>6. p \in Seq(S)
  BY <1>2, <1>3, <1>5, SubSeqProperties
<1>7. \A k \in 1..Len(p) : p[k] \in S
  BY <1>6
<1>8. \A k \in 1..Len(p) : IsSeq(p[k].conditions)
  BY <1>1, <1>4, <1>7
<1> QED BY <1>6, <1>8, SeqsAre DEF Part

(* The pairs an owner signs. *)
LEMMA OwnAre ==
    ASSUME NEW pairs, IsSeq(pairs), NEW o, NEW own, own = OwnPairs(o, pairs)
    PROVE  /\ IsSeq(own)
           /\ \A x : Occurrences(x, own) = IF x[1] = o THEN Occurrences(x, pairs) ELSE 0
<1>1. PICK S, T : S = ToSet(pairs) /\ T = {pair \in ToSet(pairs) : pair[1] = o}
  OBVIOUS
<1>2. own = Filter(pairs, T) /\ pairs \in Seq(S)
  BY <1>1 DEF OwnPairs, IsSeq
<1>3. own \in Seq(S) /\ \E at : Keeps(pairs, T, own, at)
  BY <1>2, Kept
<1>4. PICK at : Keeps(pairs, T, own, at)
  BY <1>3
<1>5. PICK h : h = [d \in S |-> d]
  OBVIOUS
<1>6. Len(pairs) \in Nat /\ Len(own) \in Nat
  BY <1>2, <1>3
<1>7. own = Images(h, own)
  <2>1. own = [q \in 1..Len(own) |-> own[q]] /\ \A q \in 1..Len(own) : own[q] \in S
    BY <1>3
  <2>2. \A q \in 1..Len(own) : h[own[q]] = own[q]
    BY <1>5, <2>1
  <2> QED BY <2>1, <2>2 DEF Images
<1>8. ASSUME NEW x PROVE Occurrences(x, own) = IF x[1] = o THEN Occurrences(x, pairs) ELSE 0
  <2>1. Occurrences(x, own) = Cardinality(KeptAt(pairs, T, h, x))
    BY <1>4, <1>6, <1>7, OccursKept
  <2>2. \A j \in 1..Len(pairs) : pairs[j] \in S /\ h[pairs[j]] = pairs[j]
    BY <1>2, <1>5
  <2>3. KeptAt(pairs, T, h, x) = {j \in 1..Len(pairs) : pairs[j] = x /\ x[1] = o}
    BY <1>1, <2>2 DEF KeptAt
  <2>4. CASE x[1] = o
    <3>1. KeptAt(pairs, T, h, x) = Positions(x, pairs)
      BY <2>3, <2>4 DEF Positions
    <3>2. Occurrences(x, pairs) = Cardinality(Positions(x, pairs))
      BY <1>6, OccursIs
    <3> QED BY <2>1, <2>4, <3>1, <3>2
  <2>5. CASE x[1] # o
    <3>1. KeptAt(pairs, T, h, x) = {}
      BY <2>3, <2>5
    <3> QED BY <2>1, <2>5, <3>1, FS_EmptySet
  <2> QED BY <2>4, <2>5
<1> QED BY <1>3, <1>8, SeqsAre

(* What is in lists joined is in one of them. *)
LEMMA HasFlattened ==
    ASSUME NEW n \in Nat, NEW ss, AreSeqs(n, ss), NEW x, Has(FlattenSeq(ss), {x})
    PROVE  \E i \in 1..n : Has(ss[i], {x})
<1>1. PICK S : ss \in Seq(Seq(S)) /\ n = Len(ss)
  BY SeqsOfSeqs
<1>2. PICK at : Places(n, ss, FlattenSeq(ss), at)
  BY <1>1, Flattened
<1>3. PICK q \in 1..Len(FlattenSeq(ss)) : FlattenSeq(ss)[q] = x
  BY HasElement
<1>4. q \in 1..at[n]
  BY <1>2, <1>3 DEF Places
<1>5. PICK i \in 1..n : \E j \in 1..Len(ss[i]) : q = at[i - 1] + j
  BY <1>2, <1>4 DEF Places
<1>6. PICK j \in 1..Len(ss[i]) : q = at[i - 1] + j
  BY <1>5
<1>7. FlattenSeq(ss)[at[i - 1] + j] = ss[i][j]
  BY <1>2, <1>5, <1>6 DEF Places
<1>8. ss[i][j] = x
  BY <1>3, <1>6, <1>7
<1> QED BY <1>5, <1>6, <1>8 DEF Has

(* What an owner signs of the spends of a part: for each, what the owner's   *)
(* key is asked for.                                                         *)
SignedOf(o, part, ch) ==
    [k \in 1..Len(part) |-> OwnPairs(o, pkmPairsForConditionsDict(part[k], ch))]

SignedAs(o, part, ch, n, ss) ==
    \A k \in 1..n : \A x : Occurrences(x, ss[k])
        = IF x[1] = o /\ Parses(part[k].conditions)
          THEN Occurrences(x, AsksFor(part[k], ch)) ELSE 0

(* A signature of a part joins what is signed for its spends.                *)
LEMMA SignatureIs ==
    ASSUME NEW part, Part(part), NEW o, NEW ch, NEW n, n = Len(part),
           NEW ss, ss = SignedOf(o, part, ch)
    PROVE  /\ n \in Nat /\ AreSeqs(n, ss) /\ Signature(o, part, ch) = FlattenSeq(ss)
           /\ IsSeq(Signature(o, part, ch))
           /\ SignedAs(o, part, ch, n, ss)
<1>1. n \in Nat
  BY SeqsAre DEF Part
<1>2. ASSUME NEW k \in 1..n
      PROVE  /\ IsSeq(ss[k])
             /\ \A x : Occurrences(x, ss[k]) = IF x[1] = o /\ Parses(part[k].conditions)
                                               THEN Occurrences(x, AsksFor(part[k], ch)) ELSE 0
  <2>1. PICK sp, signed, asked : /\ sp = part[k] /\ signed = pkmPairsForConditionsDict(sp, ch)
                                 /\ asked = AsksFor(sp, ch)
    OBVIOUS
  <2>2. IsSeq(sp.conditions)
    BY <2>1 DEF Part
  <2>3. /\ IsSeq(signed) /\ IsSeq(asked)
        /\ Parses(sp.conditions) => \A x : Occurrences(x, signed) = Occurrences(x, asked)
        /\ ~Parses(sp.conditions) => signed = <<>>
    BY <2>1, <2>2, SignedIsAsked
  <2>4. ss[k] = OwnPairs(o, signed)
    BY <2>1 DEF SignedOf
  <2>5. /\ IsSeq(ss[k])
        /\ \A x : Occurrences(x, ss[k]) = IF x[1] = o THEN Occurrences(x, signed) ELSE 0
    BY <2>3, <2>4, OwnAre
  <2>6. \A x : Occurrences(x, <<>>) = 0
    BY OccursIs, HasNone
  <2> QED BY <2>1, <2>3, <2>5, <2>6
<1>3. AreSeqs(n, ss)
  BY <1>2 DEF AreSeqs, SignedOf
<1>4. Signature(o, part, ch) = FlattenSeq(ss)
  BY DEF Signature, SignedOf
<1>5. IsSeq(FlattenSeq(ss))
  BY <1>1, <1>3, OccursFlattened
<1> QED BY <1>1, <1>2, <1>3, <1>4, <1>5 DEF SignedAs

(* What there is to merge, and what was merged. *)
Piece(x) ==
    /\ Part(x.spends)
    /\ \/ x.by = NoBundle /\ x.challenge = NoBundle /\ x.signature = <<>>
       \/ x.signature = Signature(x.by, x.spends, x.challenge)
Merges ==
    /\ IsSeq(pieces) /\ \A i \in 1..Len(pieces) : Piece(pieces[i])
    /\ \/ bundle = NoBundle
       \/ bundle = [spends |-> FlattenSeq([i \in 1..Len(pieces) |-> pieces[i].spends]),
                    signature |-> AllSignatures(pieces)]

(* One more piece leaves Merges true.                                        *)
LEMMA PiecesGrow ==
    ASSUME Merges, NEW x, Piece(x), pieces' = Append(pieces, x), bundle = NoBundle, UNCHANGED bundle
    PROVE  Merges'
<1>1. PICK m, p, S : m = Len(pieces) /\ p = Append(pieces, x) /\ S = ToSet(pieces)
  OBVIOUS
<1>2. pieces \in Seq(S)
  BY <1>1 DEF Merges, IsSeq
<1>3. /\ p \in Seq(S \cup {x}) /\ Len(p) = m + 1
      /\ \A i \in 1..m : p[i] = pieces[i]
      /\ p[m + 1] = x
  BY <1>1, <1>2, AppendIs
<1>4. m \in Nat
  BY <1>1, <1>2
<1>5. ASSUME NEW i \in 1..(m + 1) PROVE Piece(p[i])
  <2>1. CASE i \in 1..m
    BY <1>1, <1>3, <2>1 DEF Merges
  <2>2. CASE i = m + 1
    BY <1>3, <2>2
  <2> QED BY <1>4, <2>1, <2>2
<1>6. IsSeq(p)
  BY <1>3, SeqsAre
<1>7. \A i \in 1..Len(pieces') : Piece(pieces'[i])
  BY <1>1, <1>3, <1>5
<1>8. IsSeq(pieces')
  BY <1>1, <1>6
<1> QED BY <1>7, <1>8 DEF Merges

-----------------------------------------------------------------------------
(* The theorems of Signing. *)

(* The spends that are signed are those of SpendBundle: signing, changing the *)
(* network and merging leave them alone, so what is proved of Spec is true of *)
(* SigningSpec.                                                               *)
THEOREM SigningMakesSpends == SigningSpec => Spec
<1>1. InitSigning => Init
  BY DEF InitSigning
<1>2. [SigningNext]_<<vars, signing>> => [Next]_vars
  <2>1. SUFFICES ASSUME SigningNext PROVE [Next]_vars
    BY DEF vars, signing
  <2>2. ASSUME NEW o \in Owners, signCoinSpends(o) \/ changeNetwork(o) PROVE UNCHANGED vars
    BY <2>2 DEF signCoinSpends, changeNetwork
  <2>3. ASSUME LeaveUnsigned \/ merge PROVE UNCHANGED vars
    BY <2>3 DEF LeaveUnsigned, merge
  <2> QED BY <2>1, <2>2, <2>3 DEF SigningNext
<1> QED BY <1>1, <1>2, PTL DEF SigningSpec, Spec

(* Merges holds at the start.                                                *)
LEMMA SigningStarts == InitSigning => Merges
<1>1. SUFFICES ASSUME InitSigning PROVE Merges
  OBVIOUS
<1>2. pieces = <<>> /\ bundle = NoBundle
  BY <1>1 DEF InitSigning
<1>3. pieces \in Seq({}) /\ Len(pieces) = 0
  BY <1>2
<1>4. IsSeq(pieces)
  BY <1>3, SeqsAre
<1> QED BY <1>2, <1>3, <1>4 DEF Merges

(* Every step of Signing keeps Merges.                                       *)
LEMMA SigningSteps == OneCall /\ Merges /\ [SigningNext]_<<vars, signing>> => Merges'
<1>1. SUFFICES ASSUME OneCall, Merges, [SigningNext]_<<vars, signing>> PROVE Merges'
  OBVIOUS
<1>2. ASSUME UNCHANGED <<pieces, bundle>> PROVE Merges'
  BY <1>1, <1>2 DEF Merges, AllSignatures
<1>3. CASE UNCHANGED <<vars, signing>>
  BY <1>2, <1>3 DEF signing
<1>4. CASE Next /\ UNCHANGED signing
  BY <1>2, <1>4 DEF signing
<1>5. ASSUME NEW o \in Owners, signCoinSpends(o) PROVE Merges'
  <2>1. bundle = NoBundle /\ UNCHANGED bundle
    BY <1>5 DEF signCoinSpends, Open
  <2>2. PICK part, challenge :
           /\ part \in Parts
           /\ pieces' = Append(pieces, [spends |-> part, by |-> o, challenge |-> challenge,
                                        signature |-> Signature(o, part, challenge)])
    BY <1>5 DEF signCoinSpends
  <2>3. PICK x : x = [spends |-> part, by |-> o, challenge |-> challenge,
                      signature |-> Signature(o, part, challenge)]
    OBVIOUS
  <2>4. Part(part)
    BY <1>1, <2>2, PartsAreLists
  <2>5. Piece(x)
    BY <2>3, <2>4 DEF Piece
  <2> QED BY <1>1, <2>1, <2>2, <2>3, <2>5, PiecesGrow
<1>6. ASSUME NEW o \in Owners, changeNetwork(o) PROVE Merges'
  BY <1>2, <1>6 DEF changeNetwork
<1>7. CASE LeaveUnsigned
  <2>1. bundle = NoBundle /\ UNCHANGED bundle
    BY <1>7 DEF LeaveUnsigned, Open
  <2>2. PICK part \in Parts :
           pieces' = Append(pieces, [spends |-> part, by |-> NoBundle, challenge |-> NoBundle,
                                     signature |-> <<>>])
    BY <1>7 DEF LeaveUnsigned
  <2>3. PICK x : x = [spends |-> part, by |-> NoBundle, challenge |-> NoBundle,
                      signature |-> <<>>]
    OBVIOUS
  <2>4. Part(part)
    BY <1>1, PartsAreLists
  <2>5. Piece(x)
    BY <2>3, <2>4 DEF Piece
  <2> QED BY <1>1, <2>1, <2>2, <2>3, <2>5, PiecesGrow
<1>8. CASE merge
  <2>1. UNCHANGED pieces
        /\ bundle' = [spends |-> FlattenSeq([i \in 1..Len(pieces) |-> pieces[i].spends]),
                      signature |-> AllSignatures(pieces)]
    BY <1>8 DEF merge
  <2> QED BY <1>1, <2>1 DEF Merges
<1> QED BY <1>1, <1>3, <1>4, <1>5, <1>6, <1>7, <1>8 DEF SigningNext

(* Merges is an invariant.                                                   *)
LEMMA SigningMerges == SigningSpec => []Merges
<1>1. SigningSpec => []OneCall
  BY SigningMakesSpends, SpecIsOne, PTL
<1>2. InitSigning => Merges
  BY SigningStarts
<1>3. OneCall /\ Merges /\ [SigningNext]_<<vars, signing>> => Merges'
  BY SigningSteps
<1> QED BY <1>1, <1>2, <1>3, PTL DEF SigningSpec

(* The lists of spends, and of signatures, that are merged. *)
LEMMA MergedAre ==
    ASSUME Merges, bundle # NoBundle, NEW n, n = Len(pieces), NEW ps, NEW ss,
           ps = [i \in 1..n |-> pieces[i].spends], ss = [i \in 1..n |-> pieces[i].signature]
    PROVE  /\ n \in Nat /\ AreSeqs(n, ps) /\ AreSeqs(n, ss)
           /\ bundle.spends = FlattenSeq(ps) /\ bundle.signature = FlattenSeq(ss)
<1>1. n \in Nat
  BY SeqsAre DEF Merges
<1>2. bundle.spends = FlattenSeq(ps) /\ bundle.signature = FlattenSeq(ss)
  BY DEF Merges, AllSignatures
<1>3. ASSUME NEW i \in 1..n PROVE IsSeq(ps[i]) /\ IsSeq(ss[i])
  <2>1. Piece(pieces[i])
    BY DEF Merges
  <2>2. IsSeq(ps[i])
    BY <2>1 DEF Piece, Part
  <2>3. CASE pieces[i].signature = <<>>
    <3>1. ss[i] = <<>>
      BY <2>3
    <3>2. <<>> \in Seq({})
      OBVIOUS
    <3> QED BY <2>2, <3>1, <3>2, SeqsAre
  <2>4. CASE pieces[i].signature = Signature(pieces[i].by, pieces[i].spends, pieces[i].challenge)
    <3>1. IsSeq(Signature(pieces[i].by, pieces[i].spends, pieces[i].challenge))
      BY <2>1, SignatureIs DEF Piece
    <3> QED BY <2>2, <2>4, <3>1
  <2> QED BY <2>1, <2>3, <2>4 DEF Piece
<1>4. AreSeqs(n, ps) /\ AreSeqs(n, ss)
  BY <1>3 DEF AreSeqs
<1> QED BY <1>1, <1>2, <1>4

(* What is merged is asked for by a spend, of the owner that signed it.      *)
LEMMA NothingElse == Merges => NothingElseSigned
<1>1. SUFFICES ASSUME Merges, bundle # NoBundle, NEW q \in 1..Len(bundle.signature)
               PROVE  \E i \in 1..Len(pieces) :
                         /\ pieces[i].by = bundle.signature[q][1]
                         /\ \E j \in 1..Len(pieces[i].spends) :
                               bundle.signature[q] \in ToSet(AsksFor(pieces[i].spends[j], pieces[i].challenge))
  BY DEF NothingElseSigned
<1>2. PICK n, ps, ss, x : /\ n = Len(pieces) /\ ps = [i \in 1..n |-> pieces[i].spends]
                          /\ ss = [i \in 1..n |-> pieces[i].signature]
                          /\ x = bundle.signature[q]
  OBVIOUS
<1>3. n \in Nat /\ AreSeqs(n, ss) /\ bundle.signature = FlattenSeq(ss)
  BY <1>1, <1>2, MergedAre
<1>4. Has(FlattenSeq(ss), {x})
  BY <1>2, <1>3 DEF Has
<1>5. PICK i \in 1..n : Has(ss[i], {x})
  BY <1>3, <1>4, HasFlattened
<1>6. PICK o, ch, part : o = pieces[i].by /\ ch = pieces[i].challenge /\ part = pieces[i].spends
  OBVIOUS
<1>7. Part(part) /\ ss[i] = Signature(o, part, ch)
  <2>1. Piece(pieces[i])
    BY <1>1, <1>2, <1>5 DEF Merges
  <2>2. ss[i] # <<>>
    BY <1>5, HasNone
  <2> QED BY <1>2, <1>5, <1>6, <2>1, <2>2 DEF Piece
<1>8. PICK m, sg : m = Len(part) /\ sg = SignedOf(o, part, ch)
  OBVIOUS
<1>9. /\ m \in Nat /\ AreSeqs(m, sg) /\ ss[i] = FlattenSeq(sg)
      /\ SignedAs(o, part, ch, m, sg)
  BY <1>7, <1>8, SignatureIs
<1>10. PICK k \in 1..m : Has(sg[k], {x})
  BY <1>5, <1>9, HasFlattened
<1>11. Occurrences(x, sg[k]) # 0
  <2>1. Len(sg[k]) \in Nat
    BY <1>9, <1>10, SeqsAre DEF AreSeqs
  <2> QED BY <1>10, <2>1, OccursIs
<1>12. x[1] = o /\ Occurrences(x, AsksFor(part[k], ch)) # 0
  BY <1>9, <1>10, <1>11 DEF SignedAs
<1>13. x \in ToSet(AsksFor(part[k], ch))
  <2>1. PICK asked : asked = AsksFor(part[k], ch)
    OBVIOUS
  <2>2. IsSeq(asked)
    <3>1. IsSeq(part[k].conditions)
      BY <1>7, <1>8, <1>10 DEF Part
    <3> QED BY <2>1, <3>1, SignedIsAsked
  <2>3. Has(asked, {x})
    BY <1>12, <2>1, <2>2, SeqsAre, OccursIs
  <2>4. \E j \in 1..Len(asked) : asked[j] = x
    BY <2>3, HasElement
  <2>5. x \in ToSet(asked)
    <3>1. DOMAIN asked = 1..Len(asked)
      BY <2>2 DEF IsSeq
    <3> QED BY <2>4, <3>1 DEF ToSet
  <2> QED BY <2>1, <2>5
<1> QED BY <1>2, <1>5, <1>6, <1>8, <1>10, <1>12, <1>13

(* A merged bundle holds only signatures that a spend in it asks for, each of *)
(* the owner that signed that spend, for its coin and chain.                  *)
THEOREM NoStraySignature == SigningSpec => []NothingElseSigned
BY SigningMerges, NothingElse, PTL

(* How much is asked for does not depend on the chain. *)
LEMMA AsksAlike ==
    ASSUME NEW sp, IsSeq(sp.conditions)
    PROVE  \E l \in Nat : \A c : Len(AsksFor(sp, c)) = l
<1>1. PICK C, B : C = conditionsForSolution(sp) /\ B = {"AGG_SIG_ME", "AGG_SIG_UNSAFE"}
  OBVIOUS
<1>2. IsSeq(C)
  BY <1>1, ReturnedConditions
<1>3. PICK r, h, y : r = WithOp(C, B) /\ h = PairsOf(C, sp.coin, sp) /\ y = Images(h, r)
  OBVIOUS
<1>4. PairsAre(C, B, h, r, y)
  BY <1>2, <1>3, PairsKept
<1>5. Len(r) \in Nat
  BY <1>4 DEF PairsAre
<1>6. ASSUME NEW c PROVE Len(AsksFor(sp, c)) = Len(r)
  BY <1>1, <1>3, <1>5 DEF AsksFor
<1> QED BY <1>5, <1>6

(* Each piece holds what is asked of its owner for a chain. *)
SignedFor(pc, ch) ==
    \A k \in 1..Len(pc.spends) :
        /\ Parses(pc.spends[k].conditions)
        /\ \A pair \in ToSet(AsksFor(pc.spends[k], ch)) : pc.by = pair[1] /\ pc.challenge = ch

(* How often a spend asks for x. *)
Weighs(w, Z, x, ch) ==
    w = [sp \in Z |-> IF IsSeq(sp.conditions) THEN Occurrences(x, AsksFor(sp, ch)) ELSE 0]

(* These are numbers.                                                        *)
LEMMA WeighsInt ==
    ASSUME NEW w, NEW Z, NEW x, NEW ch, Weighs(w, Z, x, ch)
    PROVE  w \in [Z -> Int]
<1>1. ASSUME NEW sp \in Z, IsSeq(sp.conditions) PROVE Occurrences(x, AsksFor(sp, ch)) \in Int
  <2>1. PICK asked : asked = AsksFor(sp, ch)
    OBVIOUS
  <2>2. IsSeq(asked)
    BY <1>1, <2>1, SignedIsAsked
  <2>3. Occurrences(x, asked) \in Nat
    BY <2>2, SeqsAre, OccursIs
  <2> QED BY <2>1, <2>3
<1> QED BY <1>1 DEF Weighs

(* What occurs in what is asked for is asked for.                            *)
LEMMA OccursAsked ==
    ASSUME NEW sp, IsSeq(sp.conditions), NEW ch, NEW x, Occurrences(x, AsksFor(sp, ch)) # 0
    PROVE  x \in ToSet(AsksFor(sp, ch)) /\ Len(AsksFor(sp, ch)) # 0
<1>1. PICK asked : asked = AsksFor(sp, ch)
  OBVIOUS
<1>2. IsSeq(asked)
  BY <1>1, SignedIsAsked
<1>3. Has(asked, {x})
  BY <1>1, <1>2, SeqsAre, OccursIs
<1>4. PICK j \in 1..Len(asked) : asked[j] = x
  BY <1>3, HasElement
<1>5. DOMAIN asked = 1..Len(asked)
  BY <1>2 DEF IsSeq
<1>6. x \in ToSet(asked)
  BY <1>4, <1>5 DEF ToSet
<1>7. Len(asked) # 0
  BY <1>4
<1> QED BY <1>1, <1>6, <1>7

(* What an owner signs for a spend is what it asks for on the chain, whatever *)
(* chain the owner signed for if it asks for nothing.                         *)
AskedOf(sp, ch, o, c) == \A pair \in ToSet(AsksFor(sp, ch)) : o = pair[1] /\ c = ch

(* What the owner of the key signs is all that is asked for.                 *)
LEMMA SpendWeighs ==
    ASSUME NEW sp, IsSeq(sp.conditions), NEW ch, NEW c, NEW o, NEW x,
           AskedOf(sp, ch, o, c)
    PROVE  Occurrences(x, AsksFor(sp, ch))
               = IF x[1] = o THEN Occurrences(x, AsksFor(sp, c)) ELSE 0
<1>1. PICK l \in Nat : \A a : Len(AsksFor(sp, a)) = l
  BY AsksAlike
<1>2. CASE Occurrences(x, AsksFor(sp, ch)) # 0
  <2>1. x \in ToSet(AsksFor(sp, ch))
    BY <1>2, OccursAsked
  <2> QED BY <2>1 DEF AskedOf
<1>3. CASE Occurrences(x, AsksFor(sp, ch)) = 0 /\ Occurrences(x, AsksFor(sp, c)) # 0
  <2>1. Len(AsksFor(sp, c)) # 0
    BY <1>3, OccursAsked
  <2>2. PICK asked : asked = AsksFor(sp, ch)
    OBVIOUS
  <2>3. Len(asked) # 0 /\ Len(asked) \in Nat
    BY <1>1, <2>1, <2>2
  <2>4. IsSeq(asked)
    BY <2>2, SignedIsAsked
  <2>5. 1 \in DOMAIN asked
    BY <2>3, <2>4 DEF IsSeq
  <2>6. asked[1] \in ToSet(asked)
    BY <2>5 DEF ToSet
  <2>7. c = ch
    BY <2>2, <2>6 DEF AskedOf
  <2> QED BY <1>3, <2>7
<1>4. CASE Occurrences(x, AsksFor(sp, ch)) = 0 /\ Occurrences(x, AsksFor(sp, c)) = 0
  BY <1>4
<1> QED BY <1>2, <1>3, <1>4

(* A piece's signature is what its spends ask for.                           *)
LEMMA PieceWeighs ==
    ASSUME NEW pc, Piece(pc), NEW ch, ch # NoBundle, SignedFor(pc, ch),
           NEW Z, pc.spends \in Seq(Z), NEW x, NEW w, Weighs(w, Z, x, ch)
    PROVE  Occurrences(x, pc.signature) = Weight(w, pc.spends)
<1>1. PICK part, n, o, c : part = pc.spends /\ n = Len(part) /\ o = pc.by /\ c = pc.challenge
  OBVIOUS
<1>2. /\ n \in Nat /\ Part(part)
      /\ \A k \in 1..n : part[k] \in Z /\ IsSeq(part[k].conditions) /\ Parses(part[k].conditions)
  BY <1>1 DEF Piece, Part, SignedFor
<1>3. \A k \in 1..n : \A pair \in ToSet(AsksFor(part[k], ch)) : o = pair[1] /\ c = ch
  BY <1>1 DEF SignedFor
<1>4. \A k \in 1..n : w[part[k]] = Occurrences(x, AsksFor(part[k], ch))
  BY <1>2 DEF Weighs
<1>5. PICK ds : ds = [k \in 1..n |-> w[part[k]]]
  OBVIOUS
<1>6. Weight(w, part) = Total(ds)
  BY <1>1, <1>5 DEF Weight
<1>7. CASE c = NoBundle /\ pc.signature = <<>>
  <2>1. ASSUME NEW k \in 1..n PROVE w[part[k]] = 0
    <3>1. \A pair : pair \notin ToSet(AsksFor(part[k], ch))
      BY <1>3, <1>7
    <3>2. Occurrences(x, AsksFor(part[k], ch)) = 0
      BY <1>2, <3>1, OccursAsked
    <3> QED BY <1>4, <3>2
  <2>2. ds = [k \in 1..n |-> 0]
    BY <1>5, <2>1
  <2>3. Total(ds) = 0
    BY <1>2, <2>2, NoSum
  <2>4. Occurrences(x, <<>>) = 0
    BY OccursIs, HasNone
  <2> QED BY <1>1, <1>6, <1>7, <2>3, <2>4
<1>8. CASE pc.signature = Signature(o, part, c)
  <2>1. PICK sg : sg = SignedOf(o, part, c)
    OBVIOUS
  <2>2. AreSeqs(n, sg) /\ pc.signature = FlattenSeq(sg) /\ SignedAs(o, part, c, n, sg)
    BY <1>1, <1>2, <1>8, <2>1, SignatureIs
  <2>3. ASSUME NEW k \in 1..n PROVE Occurrences(x, sg[k]) = w[part[k]]
    <3>1. Occurrences(x, sg[k]) = IF x[1] = o THEN Occurrences(x, AsksFor(part[k], c)) ELSE 0
      BY <1>2, <2>2 DEF SignedAs
    <3>2. Occurrences(x, AsksFor(part[k], ch))
              = IF x[1] = o THEN Occurrences(x, AsksFor(part[k], c)) ELSE 0
      <4>1. PICK sp : sp = part[k]
        OBVIOUS
      <4>2. IsSeq(sp.conditions)
        BY <1>2, <4>1
      <4>3. AskedOf(sp, ch, o, c)
        BY <1>3, <4>1 DEF AskedOf
      <4>4. Occurrences(x, AsksFor(sp, ch))
                = IF x[1] = o THEN Occurrences(x, AsksFor(sp, c)) ELSE 0
        BY <4>2, <4>3, SpendWeighs
      <4> QED BY <4>1, <4>4
    <3> QED BY <1>4, <3>1, <3>2
  <2>4. ds = [k \in 1..n |-> Occurrences(x, sg[k])]
    BY <1>5, <2>3
  <2>5. Occurrences(x, FlattenSeq(sg)) = Total([k \in 1..n |-> Occurrences(x, sg[k])])
    BY <1>2, <2>2, OccursFlattened
  <2> QED BY <1>1, <1>6, <2>2, <2>4, <2>5
<1> QED BY <1>1, <1>7, <1>8 DEF Piece

(* The spends of a bundle ask for what the pieces hold. *)
LEMMA BundleWeighs ==
    ASSUME Merges, bundle # NoBundle, NEW ch, ch # NoBundle,
           \A i \in 1..Len(pieces) : SignedFor(pieces[i], ch),
           NEW asks, asks = [k \in 1..Len(bundle.spends) |-> AsksFor(bundle.spends[k], ch)],
           NEW x
    PROVE  Occurrences(x, bundle.signature) = Occurrences(x, FlattenSeq(asks))
<1>1. PICK n, ps, ss : /\ n = Len(pieces) /\ ps = [i \in 1..n |-> pieces[i].spends]
                       /\ ss = [i \in 1..n |-> pieces[i].signature]
  OBVIOUS
<1>2. /\ n \in Nat /\ AreSeqs(n, ps) /\ AreSeqs(n, ss)
      /\ bundle.spends = FlattenSeq(ps) /\ bundle.signature = FlattenSeq(ss)
  BY <1>1, MergedAre
<1>3. PICK bs, l : bs = FlattenSeq(ps) /\ l = Len(bs)
  OBVIOUS
<1>4. PICK Z : ps \in Seq(Seq(Z)) /\ n = Len(ps)
  BY <1>2, SeqsOfSeqs
<1>5. bs \in Seq(Z) /\ l \in Nat
  <2>1. bs \in Seq(Z)
    BY <1>3, <1>4, Flattened
  <2> QED BY <1>3, <2>1
<1>6. PICK w : Weighs(w, Z, x, ch)
  BY DEF Weighs
<1>7. w \in [Z -> Int]
  BY <1>6, WeighsInt
<1>8. \A i \in 1..n : Piece(pieces[i])
  BY <1>1 DEF Merges
<1>9. ASSUME NEW k \in 1..l PROVE IsSeq(bs[k].conditions)
  <2>1. PICK sp : sp = bs[k]
    OBVIOUS
  <2>2. Has(FlattenSeq(ps), {sp})
    BY <1>3, <2>1 DEF Has
  <2>3. PICK i \in 1..n : Has(ps[i], {sp})
    BY <1>2, <2>2, HasFlattened
  <2>4. PICK j \in 1..Len(ps[i]) : ps[i][j] = sp
    BY <2>3, HasElement
  <2>5. Part(ps[i])
    BY <1>1, <1>8, <2>3 DEF Piece
  <2> QED BY <2>1, <2>4, <2>5 DEF Part
<1>10. ASSUME NEW k \in 1..l
       PROVE  IsSeq(asks[k]) /\ Occurrences(x, asks[k]) = w[bs[k]]
  <2>1. asks[k] = AsksFor(bs[k], ch)
    BY <1>2, <1>3
  <2>2. bs[k] \in Z /\ IsSeq(bs[k].conditions)
    BY <1>3, <1>5, <1>9
  <2>3. IsSeq(asks[k])
    BY <2>1, <2>2, SignedIsAsked
  <2>4. Occurrences(x, asks[k]) = w[bs[k]]
    BY <1>6, <2>1, <2>2 DEF Weighs
  <2> QED BY <2>3, <2>4
<1>11. AreSeqs(l, asks)
  BY <1>2, <1>3, <1>10 DEF AreSeqs
<1>12. Occurrences(x, FlattenSeq(asks)) = Total([k \in 1..l |-> Occurrences(x, asks[k])])
  <2>1. PICK as : as = asks
    OBVIOUS
  <2>2. AreSeqs(l, as)
    BY <1>11, <2>1
  <2>3. Occurrences(x, FlattenSeq(as)) = Total([k \in 1..l |-> Occurrences(x, as[k])])
    BY <1>5, <2>2, OccursFlattened
  <2> QED BY <2>1, <2>3
<1>13. Weight(w, bs) = Occurrences(x, FlattenSeq(asks))
  <2>1. PICK es : es = [k \in 1..l |-> Occurrences(x, asks[k])]
    OBVIOUS
  <2>2. es = [k \in 1..l |-> w[bs[k]]]
    BY <1>10, <2>1
  <2> QED BY <1>3, <1>12, <2>1, <2>2 DEF Weight
<1>14. Weight(w, bs) = Total([i \in 1..n |-> Weight(w, ps[i])])
  BY <1>3, <1>4, <1>7, WeightFlattened
<1>15. Occurrences(x, FlattenSeq(ss)) = Total([i \in 1..n |-> Occurrences(x, ss[i])])
  BY <1>2, OccursFlattened
<1>16. ASSUME NEW i \in 1..n PROVE Occurrences(x, ss[i]) = Weight(w, ps[i])
  <2>1. PICK pc : pc = pieces[i]
    OBVIOUS
  <2>2. ps[i] = pc.spends /\ ss[i] = pc.signature /\ ps[i] \in Seq(Z)
    BY <1>1, <1>4, <2>1
  <2>3. Piece(pc) /\ SignedFor(pc, ch)
    BY <1>1, <1>8, <2>1
  <2> QED BY <1>6, <2>2, <2>3, PieceWeighs
<1>17. [i \in 1..n |-> Occurrences(x, ss[i])] = [i \in 1..n |-> Weight(w, ps[i])]
  BY <1>16
<1> QED BY <1>2, <1>13, <1>14, <1>15, <1>17

(* So is the merged signature what the merged spends ask for.                *)
LEMMA AllSigned == Merges => FullySigned
<1>1. SUFFICES ASSUME Merges, bundle # NoBundle,
                      NEW ch \in {Custom} \cup {Genesis[n] : n \in DOMAIN Genesis},
                      \A i \in 1..Len(pieces) : SignedFor(pieces[i], ch)
               PROVE  SameBag(bundle.signature,
                              FlattenSeq([k \in 1..Len(bundle.spends) |->
                                             AsksFor(bundle.spends[k], ch)]))
  BY DEF FullySigned, SignedFor
<1>2. ch # NoBundle
  BY <1>1, ChallengesAssumption
<1>3. PICK asks : asks = [k \in 1..Len(bundle.spends) |-> AsksFor(bundle.spends[k], ch)]
  OBVIOUS
<1>4. \A x : Occurrences(x, bundle.signature) = Occurrences(x, FlattenSeq(asks))
  BY <1>1, <1>2, <1>3, BundleWeighs
<1>5. SameBag(bundle.signature, FlattenSeq(asks))
  BY <1>4 DEF SameBag
<1> QED BY <1>3, <1>5

(* A bundle merged of pieces that were each signed by the owner of the keys   *)
(* they ask for, for one chain, carries every signature that the chain asks   *)
(* for, as often as it does, and no more.                                     *)
THEOREM EachKeySigns == SigningSpec => []FullySigned
BY SigningMerges, AllSigned, PTL

=============================================================================
