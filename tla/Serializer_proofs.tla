---------------------------- MODULE Serializer_proofs --------------------------
(***************************************************************************)
(* Proofs that every class of the wallet protocol reads back what it       *)
(* wrote, and nothing from bytes that lack their end, for every object and *)
(* through every Optional, list and tuple of the serializer.               *)
(***************************************************************************)
EXTENDS WalletTypes, Recursion, TLAPS

-----------------------------------------------------------------------------
(* Sequences. *)

(* What was joined: its length, and what is at each place. *)
LEMMA Appended ==
    ASSUME NEW S, NEW s \in Seq(S), NEW t \in Seq(S)
    PROVE  /\ s \o t \in Seq(S) /\ Len(s \o t) = Len(s) + Len(t)
           /\ Len(s) \in Nat /\ Len(t) \in Nat
           /\ \A i \in 1..Len(s) : (s \o t)[i] = s[i]
           /\ \A i \in (Len(s) + 1)..(Len(s) + Len(t)) : (s \o t)[i] = t[i - Len(s)]
OBVIOUS

(* Sequences of one length with the same at every place are one. *)
LEMMA Equal ==
    ASSUME NEW S, NEW s \in Seq(S), NEW t \in Seq(S), Len(s) = Len(t),
           \A i \in 1..Len(s) : s[i] = t[i]
    PROVE  s = t
OBVIOUS

(* A part of a sequence: its length, and what is at each place. *)
LEMMA Part ==
    ASSUME NEW S, NEW s \in Seq(S), NEW m \in 1..(Len(s) + 1), NEW n \in (m - 1)..Len(s)
    PROVE  /\ SubSeq(s, m, n) \in Seq(S) /\ Len(SubSeq(s, m, n)) = n - m + 1
           /\ \A i \in 1..(n - m + 1) : SubSeq(s, m, n)[i] = s[m + i - 1]
OBVIOUS

(* Joining three, either two are joined first. *)
LEMMA Associative ==
    ASSUME NEW S, NEW s \in Seq(S), NEW t \in Seq(S), NEW r \in Seq(S)
    PROVE  (s \o t) \o r = s \o (t \o r)
OBVIOUS

(* Joined with nothing, a sequence is as it was. *)
LEMMA WithNone == ASSUME NEW S, NEW s \in Seq(S) PROVE s \o <<>> = s /\ <<>> \o s = s
OBVIOUS

(* What something is joined to is not empty. *)
LEMMA NotNone ==
    ASSUME NEW S, NEW s \in Seq(S), NEW t \in Seq(S), s # <<>>
    PROVE  s \o t # <<>> /\ Len(s) > 0
OBVIOUS

(* Cutting what was joined gives back the parts. *)
LEMMA Divided ==
    ASSUME NEW S, NEW s \in Seq(S), NEW t \in Seq(S)
    PROVE  SubSeq(s \o t, 1, Len(s)) = s /\ slice(s \o t, Len(s)) = t
<1>1. PICK j : j = s \o t
  OBVIOUS
<1>0. j \in Seq(S)
  BY <1>1, Appended
<1>2. /\ Len(j) = Len(s) + Len(t) /\ Len(s) \in Nat /\ Len(t) \in Nat
      /\ \A i \in 1..Len(s) : j[i] = s[i]
      /\ \A i \in (Len(s) + 1)..(Len(s) + Len(t)) : j[i] = t[i - Len(s)]
  BY <1>1, Appended
<1>3. /\ SubSeq(j, 1, Len(s)) \in Seq(S) /\ Len(SubSeq(j, 1, Len(s))) = Len(s)
      /\ \A i \in 1..Len(s) : SubSeq(j, 1, Len(s))[i] = j[i]
  <2>1. 1 \in 1..(Len(j) + 1) /\ Len(s) \in (1 - 1)..Len(j) /\ Len(s) - 1 + 1 = Len(s)
    BY <1>2
  <2> QED BY <1>2, <2>1, Part
<1>4. SubSeq(j, 1, Len(s)) = s
  BY <1>2, <1>3, Equal
<1>5. /\ slice(j, Len(s)) \in Seq(S) /\ Len(slice(j, Len(s))) = Len(t)
      /\ \A i \in 1..Len(t) : slice(j, Len(s))[i] = j[Len(s) + i]
  <2>1. /\ Len(s) + 1 \in 1..(Len(j) + 1) /\ Len(j) \in ((Len(s) + 1) - 1)..Len(j)
        /\ Len(j) - (Len(s) + 1) + 1 = Len(t) /\ \A i \in Nat : (Len(s) + 1) + i - 1 = Len(s) + i
    BY <1>2
  <2> QED BY <1>2, <2>1, Part DEF slice
<1>6. ASSUME NEW i \in 1..Len(t) PROVE slice(j, Len(s))[i] = t[i]
  <2>1. Len(s) + i \in (Len(s) + 1)..(Len(s) + Len(t)) /\ (Len(s) + i) - Len(s) = i
    BY <1>2
  <2> QED BY <1>2, <1>5, <2>1
<1>7. slice(j, Len(s)) = t
  BY <1>5, <1>6, Equal
<1> QED BY <1>1, <1>4, <1>7

(* Two ways to cut a sequence: the first cut of one lies in the first or in *)
(* the second part of the other.                                            *)
CutsOf(b, m, s, t) == b \o m = s \o t
Inside(S, b, s) == \E n \in Seq(S) : n # <<>> /\ b \o n = s
Beyond(S, b, m, s, t) == \E d \in Seq(S) : b = s \o d /\ d \o m = t
(* Bytes cut off at the end of two sequences were all in the second, or     *)
(* some of the first are among them.                                        *)
LEMMA CutTwice ==
    ASSUME NEW S, NEW b \in Seq(S), NEW m \in Seq(S), NEW s \in Seq(S), NEW t \in Seq(S),
           CutsOf(b, m, s, t)
    PROVE  Inside(S, b, s) \/ Beyond(S, b, m, s, t)
<1>1. /\ Len(b) \in Nat /\ Len(m) \in Nat /\ Len(s) \in Nat /\ Len(t) \in Nat
      /\ Len(b) + Len(m) = Len(s) + Len(t)
      /\ \A i \in 1..Len(b) : (b \o m)[i] = b[i]
      /\ \A i \in 1..Len(s) : (b \o m)[i] = s[i]
      /\ \A i \in (Len(b) + 1)..(Len(b) + Len(m)) : (b \o m)[i] = m[i - Len(b)]
      /\ \A i \in (Len(s) + 1)..(Len(s) + Len(t)) : (b \o m)[i] = t[i - Len(s)]
  <2>0. PICK j : j = b \o m
    OBVIOUS
  <2>1. j = s \o t
    BY <2>0 DEF CutsOf
  <2>2. /\ Len(b) \in Nat /\ Len(m) \in Nat /\ Len(j) = Len(b) + Len(m)
        /\ \A i \in 1..Len(b) : j[i] = b[i]
        /\ \A i \in (Len(b) + 1)..(Len(b) + Len(m)) : j[i] = m[i - Len(b)]
    BY <2>0, Appended
  <2>3. /\ Len(s) \in Nat /\ Len(t) \in Nat /\ Len(j) = Len(s) + Len(t)
        /\ \A i \in 1..Len(s) : j[i] = s[i]
        /\ \A i \in (Len(s) + 1)..(Len(s) + Len(t)) : j[i] = t[i - Len(s)]
    BY <2>1, Appended
  <2> QED BY <2>0, <2>1, <2>2, <2>3
<1>0. Len(b) \in Nat /\ Len(m) \in Nat /\ Len(s) \in Nat /\ Len(t) \in Nat
  BY <1>1
<1>2. CASE Len(b) < Len(s)
  <2>1. PICK n : n = SubSeq(s, Len(b) + 1, Len(s))
    OBVIOUS
  <2>2. /\ n \in Seq(S) /\ Len(n) = Len(s) - Len(b)
        /\ \A i \in 1..(Len(s) - Len(b)) : n[i] = s[Len(b) + i]
    <3>1. /\ Len(b) + 1 \in 1..(Len(s) + 1) /\ Len(s) \in ((Len(b) + 1) - 1)..Len(s)
          /\ Len(s) - (Len(b) + 1) + 1 = Len(s) - Len(b)
          /\ \A i \in Nat : (Len(b) + 1) + i - 1 = Len(b) + i
      BY <1>1, <1>2
    <3> QED BY <1>1, <2>1, <3>1, Part
  <2>3. /\ b \o n \in Seq(S) /\ Len(b \o n) = Len(s)
        /\ \A i \in 1..Len(b) : (b \o n)[i] = b[i]
        /\ \A i \in (Len(b) + 1)..Len(s) : (b \o n)[i] = n[i - Len(b)]
    BY <1>1, <2>2, Appended
  <2>4. ASSUME NEW i \in 1..Len(s) PROVE (b \o n)[i] = s[i]
    <3>1. CASE i <= Len(b)
      <4>1. i \in 1..Len(b)
        BY <1>1, <3>1
      <4> QED BY <1>1, <2>3, <4>1
    <3>2. CASE i > Len(b)
      <4>0. PICK k : k = i - Len(b)
        OBVIOUS
      <4>1. i \in (Len(b) + 1)..Len(s) /\ k \in 1..(Len(s) - Len(b)) /\ Len(b) + k = i
        BY <1>1, <3>2, <4>0
      <4>2. n[k] = s[Len(b) + k]
        BY <2>2, <4>1
      <4>3. (b \o n)[i] = n[i - Len(b)]
        BY <2>3, <4>1
      <4> QED BY <4>0, <4>1, <4>2, <4>3
    <3>3. i <= Len(b) \/ i > Len(b)
      BY <1>0
    <3> QED BY <3>1, <3>2, <3>3
  <2>5. b \o n = s
    BY <2>3, <2>4, Equal
  <2>6. n # <<>>
    <3>1. Len(n) # 0
      BY <1>1, <1>2, <2>2
    <3> QED BY <3>1
  <2> QED BY <2>2, <2>5, <2>6 DEF Inside
<1>3. CASE Len(b) >= Len(s)
  <2>1. PICK d : d = SubSeq(b, Len(s) + 1, Len(b))
    OBVIOUS
  <2>2. /\ d \in Seq(S) /\ Len(d) = Len(b) - Len(s)
        /\ \A i \in 1..(Len(b) - Len(s)) : d[i] = b[Len(s) + i]
    <3>1. /\ Len(s) + 1 \in 1..(Len(b) + 1) /\ Len(b) \in ((Len(s) + 1) - 1)..Len(b)
          /\ Len(b) - (Len(s) + 1) + 1 = Len(b) - Len(s)
          /\ \A i \in Nat : (Len(s) + 1) + i - 1 = Len(s) + i
      BY <1>1, <1>3
    <3> QED BY <1>1, <2>1, <3>1, Part
  <2>3. b = s \o d
    <3>1. /\ s \o d \in Seq(S) /\ Len(s \o d) = Len(b)
          /\ \A i \in 1..Len(s) : (s \o d)[i] = s[i]
          /\ \A i \in (Len(s) + 1)..Len(b) : (s \o d)[i] = d[i - Len(s)]
      BY <1>1, <2>2, Appended
    <3>2. ASSUME NEW i \in 1..Len(b) PROVE b[i] = (s \o d)[i]
      <4>1. CASE i <= Len(s)
        <5>1. i \in 1..Len(s)
          BY <1>1, <4>1
        <5> QED BY <1>1, <3>1, <5>1
      <4>2. CASE i > Len(s)
        <5>0. PICK k : k = i - Len(s)
          OBVIOUS
        <5>1. i \in (Len(s) + 1)..Len(b) /\ k \in 1..(Len(b) - Len(s)) /\ Len(s) + k = i
          BY <1>1, <4>2, <5>0
        <5>2. d[k] = b[Len(s) + k]
          BY <2>2, <5>1
        <5>3. (s \o d)[i] = d[i - Len(s)]
          BY <3>1, <5>1
        <5> QED BY <5>0, <5>1, <5>2, <5>3
      <4>3. i <= Len(s) \/ i > Len(s)
        BY <1>0
      <4> QED BY <4>1, <4>2, <4>3
    <3> QED BY <3>1, <3>2, Equal
  <2>4. s \o (d \o m) = s \o t
    <3>0. d \in Seq(S)
      BY <2>2
    <3>1. (s \o d) \o m = s \o (d \o m)
      BY <3>0, Associative
    <3>2. (s \o d) \o m = b \o m
      BY <2>3
    <3> QED BY <3>1, <3>2 DEF CutsOf
  <2>5. d \o m = t
    <3>1. d \o m \in Seq(S)
      BY <2>2
    <3>2. slice(s \o (d \o m), Len(s)) = d \o m /\ slice(s \o t, Len(s)) = t
      BY <3>1, Divided
    <3> QED BY <2>4, <3>2
  <2> QED BY <2>2, <2>3, <2>5 DEF Beyond
<1> QED BY <1>1, <1>2, <1>3

-----------------------------------------------------------------------------
(* Fields. *)

(* s are the bytes of v: d reads v from them and leaves what follows, and   *)
(* refuses any part of them.                                                *)
Inverts(d, s, v) ==
    /\ s \in Seq(Byte) /\ s # <<>>
    /\ \A rest \in Seq(Byte) : d[s \o rest] = << v, rest >>
    /\ \A buf, more \in Seq(Byte) : more # <<>> /\ buf \o more = s => d[buf] = Refused

Sound(field) ==
    /\ IsBuilt(field)
    /\ \A v \in field.values : Inverts(field.deserialize, field.serialize[v], v)

(* What was read is not a refusal. *)
LEMMA NotRefused == ASSUME NEW x, NEW y PROVE << x, y >> # Refused
BY DEF Refused

(* As many bytes as a field has are taken, and the rest is left. *)
LEMMA TakenAll ==
    ASSUME NEW s \in Seq(Byte), NEW rest \in Seq(Byte)
    PROVE  Take(s \o rest, Len(s)) = << s, rest >>
<1>1. Len(s \o rest) >= Len(s) /\ Len(s) \in Nat /\ Len(s \o rest) \in Nat
  BY Appended
<1>2. SubSeq(s \o rest, 1, Len(s)) = s /\ slice(s \o rest, Len(s)) = rest
  BY Divided
<1> QED BY <1>1, <1>2 DEF Take

(* Of bytes that lack their end, a field takes none. *)
LEMMA NotEnough ==
    ASSUME NEW s \in Seq(Byte), NEW buf \in Seq(Byte), NEW more \in Seq(Byte),
           more # <<>>, buf \o more = s
    PROVE  Len(buf) < Len(s) /\ Take(buf, Len(s)) = Refused
<1>1. Len(s) = Len(buf) + Len(more) /\ Len(buf) \in Nat /\ Len(more) \in Nat /\ Len(more) # 0
  BY Appended
<1> QED BY <1>1 DEF Take

(* One byte. *)
LEMMA OneByte ==
    ASSUME NEW b \in Byte, NEW buf \in Seq(Byte), NEW more \in Seq(Byte),
           more # <<>>, buf \o more = << b >>
    PROVE  buf = <<>>
<1>0. << b >> \in Seq(Byte) /\ Len(<< b >>) = 1
  OBVIOUS
<1>1. PICK s : s \in Seq(Byte) /\ s = << b >> /\ Len(s) = 1
  BY <1>0
<1>2. Len(buf) < Len(s)
  BY <1>1, NotEnough
<1>3. Len(buf) = 0
  BY <1>1, <1>2
<1> QED BY <1>3

(* A byte in front: the buffer is not empty, starts with it, and the rest   *)
(* follows.                                                                 *)
LEMMA FirstByte ==
    ASSUME NEW b \in Byte, NEW rest \in Seq(Byte)
    PROVE  /\ << b >> \o rest \in Seq(Byte) /\ << b >> \o rest # <<>>
           /\ (<< b >> \o rest)[1] = b /\ slice(<< b >> \o rest, 1) = rest
<1>1. << b >> \in Seq(Byte) /\ Len(<< b >>) = 1 /\ << b >>[1] = b /\ << b >> # <<>>
  BY DEF Byte
<1>2. << b >> \o rest \in Seq(Byte) /\ << b >> \o rest # <<>>
  BY <1>1, NotNone
<1>3. (<< b >> \o rest)[1] = b
  BY <1>1, Appended
<1> QED BY <1>1, <1>2, <1>3, Divided

(* Boolean reads what it wrote. *)
LEMMA BooleanSound == Sound(Boolean)
<1>1. IsBuilt(Boolean)
  BY DEF IsBuilt, Boolean
<1>2. ASSUME NEW v \in Boolean.values
      PROVE  Inverts(Boolean.deserialize, Boolean.serialize[v], v)
  <2>0. v \in BOOLEAN
    BY DEF Boolean
  <2>1. PICK b \in Byte : << b >> = Boolean.serialize[v] /\ b <= 1 /\ (b > 0 <=> v)
    <3>1. CASE v = TRUE
      BY <3>1 DEF Boolean, Byte
    <3>2. CASE v = FALSE
      BY <3>2 DEF Boolean, Byte
    <3> QED BY <2>0, <3>1, <3>2
  <2>2. << b >> \in Seq(Byte) /\ << b >> # <<>>
    OBVIOUS
  <2>3. ASSUME NEW rest \in Seq(Byte) PROVE Boolean.deserialize[<< b >> \o rest] = << v, rest >>
    <3>1. PICK buf \in Seq(Byte) : buf = << b >> \o rest
      BY FirstByte
    <3>2. buf # <<>> /\ buf[1] = b /\ slice(buf, 1) = rest
      BY <3>1, FirstByte
    <3>3. StartsWithFlag(buf)
      BY <2>1, <3>2 DEF StartsWithFlag
    <3>4. Boolean.deserialize[buf] = << buf[1] > 0, slice(buf, 1) >>
      BY <3>3 DEF Boolean
    <3>5. (buf[1] > 0) = v
      BY <2>0, <2>1, <3>2
    <3> QED BY <3>1, <3>2, <3>4, <3>5
  <2>4. ASSUME NEW buf \in Seq(Byte), NEW more \in Seq(Byte), more # <<>>, buf \o more = << b >>
        PROVE  Boolean.deserialize[buf] = Refused
    <3>1. buf = <<>>
      BY <2>4, OneByte
    <3> QED BY <3>1 DEF Boolean, StartsWithFlag
  <2> QED BY <2>1, <2>2, <2>3, <2>4 DEF Inverts
<1> QED BY <1>1, <1>2 DEF Sound

(* The parts of Bytes(size). *)
LEMMA BytesFields ==
    ASSUME NEW size \in Nat
    PROVE  /\ IsBuilt(Bytes(size)) /\ Bytes(size).values = [1..size -> Byte]
           /\ \A v \in [1..size -> Byte] : Bytes(size).serialize[v] = matchSize(v, size)
           /\ \A buf \in Seq(Byte) : Bytes(size).deserialize[buf] = Take(buf, size)
BY DEF Bytes, IsBuilt

(* Bytes(size) reads what it wrote. *)
LEMMA BytesSound == ASSUME NEW size \in Nat \ {0} PROVE Sound(Bytes(size))
<1>1. ASSUME NEW v \in [1..size -> Byte]
      PROVE  Inverts(Bytes(size).deserialize, Bytes(size).serialize[v], v)
  <2>1. v \in Seq(Byte) /\ Len(v) = size /\ v # <<>>
    OBVIOUS
  <2>2. Bytes(size).serialize[v] = v
    <3>1. Zeros(0) = <<>>
      BY DEF Zeros
    <3>2. matchSize(v, size) = v \o Zeros(0)
      BY <2>1 DEF matchSize
    <3> QED BY <2>1, <3>1, <3>2, BytesFields, WithNone
  <2>3. ASSUME NEW rest \in Seq(Byte) PROVE Bytes(size).deserialize[v \o rest] = << v, rest >>
    <3>1. v \o rest \in Seq(Byte)
      BY <2>1, Appended
    <3> QED BY <2>1, <3>1, BytesFields, TakenAll
  <2>4. ASSUME NEW buf \in Seq(Byte), NEW more \in Seq(Byte), more # <<>>, buf \o more = v
        PROVE  Bytes(size).deserialize[buf] = Refused
    <3>1. Take(buf, Len(v)) = Refused
      BY <2>1, <2>4, NotEnough
    <3> QED BY <2>1, <3>1, BytesFields
  <2> QED BY <2>1, <2>2, <2>3, <2>4 DEF Inverts
<1> QED BY <1>1, BytesFields DEF Sound

(* A length is four bytes, and they are read as it. *)
LEMMA UInt32 ==
    ASSUME NEW n \in Nat, IsUInt32(n)
    PROVE  /\ writeUInt32BE(n) \in Seq(Byte) /\ Len(writeUInt32BE(n)) = 4
           /\ writeUInt32BE(n) # <<>> /\ readUInt32BE(writeUInt32BE(n)) = n
<1> DEFINE b == n \div 256
           d == b \div 256
           e == d \div 256
<1>1. /\ b \in Nat /\ d \in Nat /\ e \in Nat
      /\ n % 256 = n - 256 * b /\ b % 256 = b - 256 * d /\ d % 256 = d - 256 * e
  <2>1. ASSUME NEW k \in Nat PROVE k \div 256 \in Nat /\ k % 256 = k - 256 * (k \div 256)
    BY SMT
  <2> QED BY <2>1
<1>2. n \div 65536 = d
  BY SMT
<1>3. n \div 16777216 = e
  BY SMT
<1>4. b % 256 \in Byte /\ d % 256 \in Byte /\ n % 256 \in Byte /\ e \in Byte
  <2>1. ASSUME NEW k \in Nat PROVE k % 256 \in Byte
    BY SMT DEF Byte
  <2>2. e \in Byte
    BY SMT, <1>3 DEF IsUInt32
  <2> QED BY <1>1, <2>1, <2>2
<1>5. writeUInt32BE(n) = << e, d % 256, b % 256, n % 256 >>
  BY SMT, <1>2, <1>3 DEF writeUInt32BE
<1> HIDE DEF b, d, e
<1>6. PICK x \in Byte, y \in Byte, z \in Byte : x = d % 256 /\ y = b % 256 /\ z = n % 256
  BY <1>4
<1>7. writeUInt32BE(n) = << e, x, y, z >>
  BY <1>5, <1>6
<1>8. /\ << e, x, y, z >> \in Seq(Byte) /\ Len(<< e, x, y, z >>) = 4 /\ << e, x, y, z >> # <<>>
      /\ readUInt32BE(<< e, x, y, z >>) = ((e * 256 + x) * 256 + y) * 256 + z
  BY <1>4 DEF readUInt32BE
<1>9. ((e * 256 + x) * 256 + y) * 256 + z = n
  <2>1. /\ n \in Int /\ b \in Int /\ d \in Int /\ e \in Int
        /\ z = n - 256 * b /\ y = b - 256 * d /\ x = d - 256 * e
    BY <1>1, <1>6
  <2>2. e * 256 + x = d
    BY <2>1
  <2>3. d * 256 + y = b
    BY <2>1
  <2>4. b * 256 + z = n
    BY <2>1
  <2> QED BY <2>2, <2>3, <2>4
<1> QED BY <1>7, <1>8, <1>9

(* A length is read from what follows its four bytes as well. *)
LEMMA Length ==
    ASSUME NEW n \in Nat, IsUInt32(n), NEW rest \in Seq(Byte)
    PROVE  LET buf == writeUInt32BE(n) \o rest
           IN  /\ buf \in Seq(Byte) /\ buf # <<>> /\ Len(buf) >= 4
               /\ readUInt32BE(buf) = n /\ slice(buf, 4) = rest
<1>1. PICK h \in Seq(Byte) : h = writeUInt32BE(n) /\ Len(h) = 4 /\ h # <<>> /\ readUInt32BE(h) = n
  BY UInt32
<1>2. PICK buf : buf = h \o rest
  OBVIOUS
<1>3. /\ buf \in Seq(Byte) /\ Len(buf) = 4 + Len(rest) /\ Len(rest) \in Nat
      /\ buf[1] = h[1] /\ buf[2] = h[2] /\ buf[3] = h[3] /\ buf[4] = h[4]
  <2>1. Len(h) = 4 /\ 1 \in 1..4 /\ 2 \in 1..4 /\ 3 \in 1..4 /\ 4 \in 1..4
    BY <1>1
  <2>2. h \o rest \in Seq(Byte) /\ Len(h \o rest) = Len(h) + Len(rest) /\ Len(rest) \in Nat
    BY Appended
  <2>4. \A i \in 1..Len(h) : (h \o rest)[i] = h[i]
    BY Appended
  <2>3. \A i \in 1..4 : (h \o rest)[i] = h[i]
    BY <2>1, <2>4
  <2> QED BY <1>2, <2>1, <2>2, <2>3
<1>4. readUInt32BE(buf) = readUInt32BE(h)
  BY <1>3 DEF readUInt32BE
<1>5. slice(buf, 4) = rest
  BY <1>1, <1>2, Divided
<1>6. buf # <<>>
  BY <1>3
<1> QED BY <1>1, <1>2, <1>3, <1>4, <1>5, <1>6

(* The parts of Blob. *)
LEMMA BlobFields ==
    /\ IsBuilt(Blob) /\ Blob.values = {s \in Seq(Byte) : IsUInt32(Len(s))}
    /\ \A v \in Blob.values : Blob.serialize[v] = writeUInt32BE(Len(v)) \o v
    /\ \A buf \in Seq(Byte) : Blob.deserialize[buf] =
           IF Len(buf) < 4 THEN Refused ELSE Take(slice(buf, 4), readUInt32BE(buf))
BY DEF Blob, IsBuilt

(* What is cut from a length and what follows it. *)
CutAfterLength(n, buf, more, s) ==
    /\ ~(Len(buf) < 4) /\ readUInt32BE(buf) = n
    /\ slice(buf, 4) \in Seq(Byte) /\ slice(buf, 4) \o more = s
(* Cut bytes that start with a length lack a part of it, or what was cut    *)
(* comes after it.                                                          *)
LEMMA LengthCut ==
    ASSUME NEW n \in Nat, IsUInt32(n), NEW s \in Seq(Byte),
           NEW buf \in Seq(Byte), NEW more \in Seq(Byte), buf \o more = writeUInt32BE(n) \o s
    PROVE  Len(buf) < 4 \/ CutAfterLength(n, buf, more, s)
<1>1. PICK h \in Seq(Byte) : h = writeUInt32BE(n) /\ Len(h) = 4 /\ h # <<>>
  BY UInt32
<1>2. CutsOf(buf, more, h, s)
  BY <1>1 DEF CutsOf
<1>3. CASE Inside(Byte, buf, h)
  <2>1. PICK x \in Seq(Byte) : x # <<>> /\ buf \o x = h
    BY <1>3 DEF Inside
  <2>2. Len(buf) < Len(h)
    BY <2>1, NotEnough
  <2> QED BY <1>1, <2>2
<1>4. CASE Beyond(Byte, buf, more, h, s)
  <2>1. PICK d \in Seq(Byte) : buf = h \o d /\ d \o more = s
    BY <1>4 DEF Beyond
  <2>2. Len(buf) >= 4 /\ readUInt32BE(buf) = n /\ slice(buf, 4) = d
    BY <1>1, <2>1, Length
  <2>3. ~(Len(buf) < 4)
    BY <2>2
  <2> QED BY <2>1, <2>2, <2>3 DEF CutAfterLength
<1> QED BY <1>2, <1>3, <1>4, CutTwice

(* Blob, the bytes with their length before them, reads what it wrote. *)
LEMMA BlobSound == Sound(Blob)
<1>1. ASSUME NEW v \in Blob.values PROVE Inverts(Blob.deserialize, Blob.serialize[v], v)
  <2>1. v \in Seq(Byte) /\ Len(v) \in Nat /\ IsUInt32(Len(v))
    BY BlobFields
  <2>2. PICK n \in Nat : n = Len(v) /\ IsUInt32(n)
    BY <2>1
  <2>3. PICK h \in Seq(Byte) : h = writeUInt32BE(n) /\ h # <<>>
    BY <2>2, UInt32
  <2>4. Blob.serialize[v] = h \o v /\ h \o v \in Seq(Byte) /\ h \o v # <<>>
    <3>1. Blob.serialize[v] = h \o v
      BY <2>2, <2>3, BlobFields
    <3>2. h \o v \in Seq(Byte) /\ h \o v # <<>>
      BY <2>1, <2>3, Appended, NotNone
    <3> QED BY <3>1, <3>2
  <2>5. ASSUME NEW rest \in Seq(Byte) PROVE Blob.deserialize[(h \o v) \o rest] = << v, rest >>
    <3>1. (h \o v) \o rest = h \o (v \o rest) /\ v \o rest \in Seq(Byte)
      BY <2>1, Associative
    <3>2. PICK buf \in Seq(Byte) : /\ buf = h \o (v \o rest) /\ Len(buf) >= 4
                                   /\ readUInt32BE(buf) = n /\ slice(buf, 4) = v \o rest
      BY <2>2, <2>3, <3>1, Length
    <3>3. Take(v \o rest, n) = << v, rest >>
      BY <2>1, <2>2, TakenAll
    <3>4. ~(Len(buf) < 4)
      BY <3>2
    <3> QED BY <3>1, <3>2, <3>3, <3>4, BlobFields
  <2>6. ASSUME NEW buf \in Seq(Byte), NEW more \in Seq(Byte), more # <<>>, buf \o more = h \o v
        PROVE  Blob.deserialize[buf] = Refused
    <3>1. CASE Len(buf) < 4
      BY <3>1, BlobFields
    <3>2. CASE CutAfterLength(n, buf, more, v)
      <4>1. Take(slice(buf, 4), Len(v)) = Refused
        BY <2>1, <2>6, <3>2, NotEnough DEF CutAfterLength
      <4> QED BY <2>2, <3>2, <4>1, BlobFields DEF CutAfterLength
    <3>3. Len(buf) < 4 \/ CutAfterLength(n, buf, more, v)
      <4>1. buf \o more = writeUInt32BE(n) \o v
        BY <2>3, <2>6
      <4> QED BY <2>1, <2>2, <4>1, LengthCut
    <3> QED BY <3>1, <3>2, <3>3
  <2> QED BY <2>4, <2>5, <2>6 DEF Inverts
<1> QED BY <1>1, BlobFields DEF Sound

-----------------------------------------------------------------------------
(* Integers. *)

NoLeadingZero(s) == Len(s) = 1 \/ s[1] # 0

(* Zeros in front of a number without them are all that TrimZeros takes     *)
(* away.                                                                    *)
LEMMA WithoutZeros ==
    ASSUME NEW z \in Seq(Byte), NEW s \in Seq(Byte), s # <<>>, NoLeadingZero(s),
           \A i \in 1..Len(z) : z[i] = 0
    PROVE  TrimZeros(z \o s) = s
<1>0. PICK j : j = z \o s
  OBVIOUS
<1>1. /\ j = z \o s /\ Len(j) = Len(z) + Len(s) /\ Len(z) \in Nat /\ Len(s) \in Nat
      /\ \A i \in 1..Len(z) : j[i] = z[i]
      /\ \A i \in (Len(z) + 1)..(Len(z) + Len(s)) : j[i] = s[i - Len(z)]
  BY <1>0, Appended
<1>2. Len(s) > 0
  BY NotNone
<1>3. PICK significant : significant = {i \in 1..Len(j) : j[i] # 0}
  OBVIOUS
<1>4. j[Len(z) + 1] = s[1] /\ Len(z) + 1 \in 1..Len(j)
  <2>1. Len(z) + 1 \in (Len(z) + 1)..(Len(z) + Len(s)) /\ (Len(z) + 1) - Len(z) = 1
    BY <1>1, <1>2
  <2>2. Len(z) + 1 \in 1..Len(j)
    BY <1>1, <1>2
  <2> QED BY <1>1, <2>1, <2>2
<1>5. CASE s[1] = 0
  <2>1. Len(s) = 1
    BY <1>5 DEF NoLeadingZero
  <2>2. s = << 0 >>
    BY <1>5, <2>1
  <2>3. ASSUME NEW i \in 1..Len(j) PROVE j[i] = 0
    <3>1. CASE i <= Len(z)
      BY <1>1, <3>1
    <3>2. CASE i > Len(z)
      <4>1. i = Len(z) + 1
        BY <1>1, <2>1, <3>2
      <4> QED BY <1>4, <1>5, <4>1
    <3> QED BY <1>1, <3>1, <3>2
  <2>4. significant = {}
    BY <1>3, <2>3
  <2>5. TrimZeros(j) = << 0 >>
    BY <1>3, <2>4 DEF TrimZeros
  <2> QED BY <1>1, <2>2, <2>5
<1>6. CASE s[1] # 0
  <2>1. Len(z) + 1 \in significant
    BY <1>3, <1>4, <1>6
  <2>2. ASSUME NEW i \in significant PROVE Len(z) + 1 <= i
    <3>1. i \in 1..Len(j) /\ j[i] # 0
      BY <1>3
    <3>2. ~ (i <= Len(z))
      BY <1>1, <3>1
    <3> QED BY <1>1, <3>1, <3>2
  <2>3. (CHOOSE i \in significant : \A k \in significant : i <= k) = Len(z) + 1
    <3>1. ASSUME NEW i \in significant, \A k \in significant : i <= k
          PROVE  i = Len(z) + 1
      <4>1. i <= Len(z) + 1 /\ Len(z) + 1 <= i /\ i \in Nat
        BY <1>3, <2>1, <2>2, <3>1
      <4> QED BY <1>1, <4>1
    <3>2. \A k \in significant : Len(z) + 1 <= k
      BY <2>2
    <3> QED BY <2>1, <3>1, <3>2
  <2>4. TrimZeros(j) = SubSeq(j, Len(z) + 1, Len(j))
    BY <1>3, <2>1, <2>3 DEF TrimZeros
  <2>5. slice(z \o s, Len(z)) = s
    BY Divided
  <2> QED BY <1>1, <2>4, <2>5 DEF slice
<1> QED BY <1>5, <1>6

(* Zeros are that many bytes, all of them zero. *)
LEMMA ZerosType ==
    ASSUME NEW n \in Nat
    PROVE  Zeros(n) \in Seq(Byte) /\ Len(Zeros(n)) = n /\ \A i \in 1..n : Zeros(n)[i] = 0
BY DEF Zeros, Byte

(* A number filled up to the bytes of its field; the zeros are trimmed      *)
(* again.                                                                   *)
LEMMA PadStart ==
    ASSUME NEW size \in Nat, NEW s \in Seq(Byte), Len(s) \in 1..size, NoLeadingZero(s)
    PROVE  /\ padStart(s, size) \in Seq(Byte) /\ Len(padStart(s, size)) = size
           /\ padStart(s, size) # <<>> /\ TrimZeros(padStart(s, size)) = s
<1>1. PICK k \in Nat : k = size - Len(s)
  OBVIOUS
<1>2. PICK z \in Seq(Byte) : z = Zeros(k) /\ Len(z) = k /\ \A i \in 1..k : z[i] = 0
  BY ZerosType
<1>3. padStart(s, size) = z \o s
  <2>1. CASE Len(s) < size
    BY <1>1, <1>2, <2>1 DEF padStart
  <2>2. CASE ~(Len(s) < size)
    <3>1. k = 0
      BY <1>1, <2>2
    <3>2. z = <<>>
      BY <1>2, <3>1
    <3> QED BY <2>2, <3>2, WithNone DEF padStart
  <2> QED BY <2>1, <2>2
<1>4. s # <<>>
  OBVIOUS
<1>5. TrimZeros(z \o s) = s
  BY <1>2, <1>4, WithoutZeros
<1>6. z \o s \in Seq(Byte) /\ Len(z \o s) = size
  <2>1. z \o s \in Seq(Byte) /\ Len(z \o s) = Len(z) + Len(s)
    BY Appended
  <2> QED BY <1>1, <1>2, <2>1
<1>7. z \o s # <<>>
  <2>1. Len(z \o s) # 0
    BY <1>6
  <2> QED BY <2>1
<1> QED BY <1>3, <1>5, <1>6, <1>7

(* The parts of Uint(bits). *)
LEMMA UintFields ==
    ASSUME NEW bits, NEW size \in Nat, size = bits \div 8
    PROVE  /\ IsBuilt(Uint(bits))
           /\ Uint(bits).values = {s \in Seq(Byte) : Len(s) \in 1..size /\ NoLeadingZero(s)}
           /\ \A v \in Uint(bits).values : Uint(bits).serialize[v] = padStart(v, size)
           /\ \A buf \in Seq(Byte) : Uint(bits).deserialize[buf] =
                IF Take(buf, size) = Refused THEN Refused
                ELSE << TrimZeros(Take(buf, size)[1]), Take(buf, size)[2] >>
BY DEF Uint, IsBuilt, NoLeadingZero

(* Uint(bits) reads the number it wrote. *)
LEMMA UintSound == ASSUME NEW bits, bits \div 8 \in Nat PROVE Sound(Uint(bits))
<1>1. PICK size \in Nat : size = bits \div 8
  OBVIOUS
<1>2. ASSUME NEW v \in Uint(bits).values
      PROVE  Inverts(Uint(bits).deserialize, Uint(bits).serialize[v], v)
  <2>1. v \in Seq(Byte) /\ Len(v) \in 1..size /\ NoLeadingZero(v)
    BY <1>1, UintFields
  <2>2. PICK s \in Seq(Byte) : /\ s = padStart(v, size) /\ Len(s) = size /\ s # <<>>
                               /\ TrimZeros(s) = v
    BY <2>1, PadStart
  <2>3. Uint(bits).serialize[v] = s
    BY <1>1, <2>2, UintFields
  <2>4. ASSUME NEW rest \in Seq(Byte) PROVE Uint(bits).deserialize[s \o rest] = << v, rest >>
    <3>1. PICK buf \in Seq(Byte) : buf = s \o rest
      BY Appended
    <3>2. PICK r : r = Take(buf, size) /\ r = << s, rest >>
      BY <2>2, <3>1, TakenAll
    <3>3. r # Refused /\ r[1] = s /\ r[2] = rest
      BY <3>2, NotRefused
    <3>4. Uint(bits).deserialize[buf] = << TrimZeros(r[1]), r[2] >>
      <4>1. Uint(bits).deserialize[buf] =
                IF Take(buf, size) = Refused THEN Refused
                ELSE << TrimZeros(Take(buf, size)[1]), Take(buf, size)[2] >>
        BY <1>1, UintFields
      <4>2. ~(Take(buf, size) = Refused) /\ Take(buf, size)[1] = r[1] /\ Take(buf, size)[2] = r[2]
        BY <3>2, <3>3
      <4> QED BY <4>1, <4>2
    <3> QED BY <2>2, <3>1, <3>3, <3>4
  <2>5. ASSUME NEW buf \in Seq(Byte), NEW more \in Seq(Byte), more # <<>>, buf \o more = s
        PROVE  Uint(bits).deserialize[buf] = Refused
    <3>1. Take(buf, size) = Refused
      BY <2>2, <2>5, NotEnough
    <3> QED BY <1>1, <3>1, UintFields
  <2> QED BY <2>2, <2>3, <2>4, <2>5 DEF Inverts
<1> QED BY <1>1, <1>2, UintFields DEF Sound

-----------------------------------------------------------------------------
(* S-expressions. *)

(* What a prefix is, place by place. *)
LEMMA Prefix ==
    ASSUME NEW S, NEW s \in Seq(S), NEW t \in Seq(S)
    PROVE  IsPrefix(s, t) <=> Len(s) <= Len(t) /\ \A i \in 1..Len(s) : s[i] = t[i]
<1>1. CASE Len(s) <= Len(t)
  <2>1. 1 \in 1..(Len(s) + 1) /\ Len(s) \in (1 - 1)..Len(s) /\ Len(s) - 1 + 1 = Len(s)
        /\ 1 \in 1..(Len(t) + 1) /\ Len(s) \in (1 - 1)..Len(t) /\ \A i \in Nat : 1 + i - 1 = i
    BY <1>1
  <2>2. PICK h \in Seq(S) : /\ h = SubSeq(s, 1, Len(s)) /\ Len(h) = Len(s)
                            /\ \A i \in 1..Len(s) : h[i] = s[i]
    BY <2>1, Part
  <2>3. PICK m \in Seq(S) : /\ m = SubSeq(t, 1, Len(s)) /\ Len(m) = Len(s)
                            /\ \A i \in 1..Len(s) : m[i] = t[i]
    <3>1. PICK n : n = Len(s)
      OBVIOUS
    <3>2. n \in (1 - 1)..Len(t) /\ n - 1 + 1 = n /\ 1 \in 1..(Len(t) + 1)
          /\ \A i \in 1..n : 1 + i - 1 = i
      BY <2>1, <3>1
    <3>3. /\ SubSeq(t, 1, n) \in Seq(S) /\ Len(SubSeq(t, 1, n)) = n - 1 + 1
          /\ \A i \in 1..(n - 1 + 1) : SubSeq(t, 1, n)[i] = t[1 + i - 1]
      BY <3>2, Part
    <3> QED BY <3>1, <3>2, <3>3
  <2>4. IsPrefix(s, t) <=> h = m
    BY <1>1, <2>2, <2>3 DEF IsPrefix
  <2>5. (\A i \in 1..Len(s) : s[i] = t[i]) => h = m
    BY <2>2, <2>3, Equal
  <2> QED BY <1>1, <2>2, <2>3, <2>4, <2>5
<1>2. CASE ~(Len(s) <= Len(t))
  BY <1>2 DEF IsPrefix
<1> QED BY <1>1, <1>2

(* Of two prefixes of a sequence, one is a prefix of the other. *)
LEMMA TwoPrefixes ==
    ASSUME NEW S, NEW s \in Seq(S), NEW t \in Seq(S), NEW n \in Seq(S),
           IsPrefix(s, t), IsPrefix(n, t)
    PROVE  IsPrefix(s, n) \/ IsPrefix(n, s)
<1>1. /\ Len(s) \in Nat /\ Len(n) \in Nat
      /\ \A i \in 1..Len(s) : s[i] = t[i]
      /\ \A i \in 1..Len(n) : n[i] = t[i]
  BY Prefix
<1>2. CASE Len(s) <= Len(n)
  <2>1. \A i \in 1..Len(s) : s[i] = n[i]
    BY <1>1, <1>2
  <2> QED BY <1>2, <2>1, Prefix
<1>3. CASE Len(n) <= Len(s)
  <2>1. \A i \in 1..Len(n) : n[i] = s[i]
    BY <1>1, <1>3
  <2> QED BY <1>3, <2>1, Prefix
<1> QED BY <1>1, <1>2, <1>3

(* A sequence is a prefix of what it is joined to. *)
LEMMA PrefixOfJoined ==
    ASSUME NEW S, NEW s \in Seq(S), NEW t \in Seq(S)
    PROVE  IsPrefix(s, s \o t)
<1>1. PICK j : j = s \o t
  OBVIOUS
<1>2. /\ j \in Seq(S) /\ Len(s) <= Len(j) /\ \A i \in 1..Len(s) : s[i] = j[i]
  BY <1>1, Appended
<1> QED BY <1>1, <1>2, Prefix

(* The parts of SExp. *)
LEMMA SExpFields ==
    /\ IsBuilt(SExp) /\ SExp.values = SExps /\ SExp.serialize = sexpToStream
    /\ \A buf \in Seq(Byte) : SExp.deserialize[buf] =
          LET read == {x \in SExps : IsPrefix(sexpToStream[x], buf)}
              x == CHOOSE x \in read : TRUE
          IN  IF read = {} THEN Refused ELSE << x, slice(buf, Len(sexpToStream[x])) >>
BY DEF SExp, IsBuilt

(* SExp reads what it wrote, when no stream starts with another. *)
LEMMA SExpSound == Sound(SExp)
<1>1. ASSUME NEW v \in SExps PROVE Inverts(SExp.deserialize, sexpToStream[v], v)
  <2>1. PICK s \in Seq(Byte) : s = sexpToStream[v] /\ s # <<>>
    BY StreamAssumption
  <2>2. ASSUME NEW x \in SExps PROVE sexpToStream[x] \in Seq(Byte)
    BY StreamAssumption
  <2>3. ASSUME NEW rest \in Seq(Byte) PROVE SExp.deserialize[s \o rest] = << v, rest >>
    <3>1. PICK buf \in Seq(Byte) : buf = s \o rest
      BY Appended
    <3>2. IsPrefix(s, buf) /\ slice(buf, Len(s)) = rest
      BY <3>1, PrefixOfJoined, Divided
    <3>3. ASSUME NEW x \in SExps, IsPrefix(sexpToStream[x], buf) PROVE x = v
      <4>1. IsPrefix(sexpToStream[x], s) \/ IsPrefix(s, sexpToStream[x])
        BY <2>2, <3>2, <3>3, TwoPrefixes
      <4> QED BY <2>1, <4>1, StreamAssumption
    <3>4. {x \in SExps : IsPrefix(sexpToStream[x], buf)} = {v}
      BY <2>1, <3>2, <3>3
    <3>5. (CHOOSE x \in {v} : TRUE) = v
      OBVIOUS
    <3> QED BY <2>1, <3>1, <3>2, <3>4, <3>5, SExpFields
  <2>4. ASSUME NEW buf \in Seq(Byte), NEW more \in Seq(Byte), more # <<>>, buf \o more = s
        PROVE  SExp.deserialize[buf] = Refused
    <3>1. ASSUME NEW x \in SExps, IsPrefix(sexpToStream[x], buf) PROVE FALSE
      <4>1. PICK n \in Seq(Byte) : n = sexpToStream[x]
        BY <2>2
      <4>2. IsPrefix(buf, s) /\ Len(buf) < Len(s)
        BY <2>4, PrefixOfJoined, NotEnough
      <4>3. /\ Len(n) \in Nat /\ Len(buf) \in Nat /\ Len(s) \in Nat
            /\ Len(n) <= Len(buf) /\ \A i \in 1..Len(n) : n[i] = buf[i]
            /\ \A i \in 1..Len(buf) : buf[i] = s[i]
        <5>1. IsPrefix(n, buf)
          BY <3>1, <4>1
        <5>2. Len(n) <= Len(buf) /\ \A i \in 1..Len(n) : n[i] = buf[i]
          BY <5>1, Prefix
        <5>3. \A i \in 1..Len(buf) : buf[i] = s[i]
          BY <4>2, Prefix
        <5> QED BY <5>2, <5>3
      <4>4. IsPrefix(n, s)
        <5>1. Len(n) <= Len(s) /\ \A i \in 1..Len(n) : n[i] = s[i]
          BY <4>2, <4>3
        <5> QED BY <5>1, Prefix
      <4>5. x = v
        BY <2>1, <4>1, <4>4, StreamAssumption
      <4> QED BY <2>1, <4>1, <4>2, <4>3, <4>5
    <3>2. {x \in SExps : IsPrefix(sexpToStream[x], buf)} = {}
      BY <3>1
    <3> QED BY <3>2, SExpFields
  <2> QED BY <2>1, <2>3, <2>4 DEF Inverts
<1> QED BY <1>1, SExpFields DEF Sound

-----------------------------------------------------------------------------
(* Optional. *)

(* The parts of Optional(field). *)
LEMMA OptionalFields ==
    ASSUME NEW field
    PROVE  /\ IsBuilt(Optional(field))
           /\ \A v \in Optional(field).values :
                 /\ v = Null \/ (IsBuilt(field) /\ v \in field.values)
                 /\ Optional(field).serialize[v] =
                       IF v = Null \/ ~IsBuilt(field) THEN << 0 >> ELSE << 1 >> \o field.serialize[v]
           /\ \A buf \in Seq(Byte) : Optional(field).deserialize[buf] =
                IF ~StartsWithFlag(buf) THEN Refused
                ELSE IF buf[1] = 0 \/ ~IsBuilt(field) THEN << Null, slice(buf, 1) >>
                ELSE field.deserialize[slice(buf, 1)]
BY DEF Optional, IsBuilt

(* What is cut from a byte and what follows it. *)
LEMMA ByteCut ==
    ASSUME NEW b \in Byte, NEW s \in Seq(Byte), NEW buf \in Seq(Byte), NEW more \in Seq(Byte),
           CutsOf(buf, more, << b >>, s)
    PROVE  buf = <<>> \/ Beyond(Byte, buf, more, << b >>, s)
<1>0. << b >> \in Seq(Byte)
  OBVIOUS
<1>1. PICK h \in Seq(Byte) : h = << b >>
  BY <1>0
<1>2. CutsOf(buf, more, h, s)
  BY <1>1 DEF CutsOf
<1>3. CASE Inside(Byte, buf, h)
  <2>1. PICK x \in Seq(Byte) : x # <<>> /\ buf \o x = h
    BY <1>3 DEF Inside
  <2> QED BY <1>1, <2>1, OneByte
<1>4. CASE Beyond(Byte, buf, more, h, s)
  BY <1>1, <1>4 DEF Beyond
<1> QED BY <1>2, <1>3, <1>4, CutTwice

(* Optional reads null, and what its field wrote. *)
LEMMA OptionalSound ==
    ASSUME NEW field, IsBuilt(field) => Sound(field)
    PROVE  Sound(Optional(field))
<1> DEFINE F == Optional(field)
<1>0. 0 \in Byte /\ 1 \in Byte
  BY DEF Byte
<1>1. ASSUME NEW v \in F.values, v = Null \/ ~IsBuilt(field)
      PROVE  Inverts(F.deserialize, F.serialize[v], v)
  <2>0. v = Null
    BY <1>1, OptionalFields
  <2>1. PICK s \in Seq(Byte) : s = << 0 >> /\ F.serialize[v] = s /\ s # <<>>
    <3>1. << 0 >> \in Seq(Byte) /\ << 0 >> # <<>>
      BY <1>0
    <3>2. F.serialize[v] = << 0 >>
      BY <1>1, OptionalFields
    <3> QED BY <3>1, <3>2
  <2>2. ASSUME NEW rest \in Seq(Byte) PROVE F.deserialize[s \o rest] = << v, rest >>
    <3>1. PICK buf \in Seq(Byte) :
              buf = s \o rest /\ buf # <<>> /\ buf[1] = 0 /\ slice(buf, 1) = rest
      BY <1>0, <2>1, FirstByte
    <3>2. StartsWithFlag(buf)
      BY <3>1 DEF StartsWithFlag
    <3> QED BY <2>0, <3>1, <3>2, OptionalFields
  <2>3. ASSUME NEW buf \in Seq(Byte), NEW more \in Seq(Byte), more # <<>>, buf \o more = s
        PROVE  F.deserialize[buf] = Refused
    <3>1. buf = <<>>
      BY <1>0, <2>1, <2>3, OneByte
    <3> QED BY <3>1, OptionalFields DEF StartsWithFlag
  <2> QED BY <2>1, <2>2, <2>3 DEF Inverts
<1>2. ASSUME NEW v \in F.values, ~(v = Null \/ ~IsBuilt(field))
      PROVE  Inverts(F.deserialize, F.serialize[v], v)
  <2>1. IsBuilt(field) /\ v \in field.values
    BY <1>2, OptionalFields
  <2>2. Inverts(field.deserialize, field.serialize[v], v)
    BY <2>1 DEF Sound
  <2>3. PICK s \in Seq(Byte) : s = field.serialize[v] /\ Inverts(field.deserialize, s, v)
    BY <2>2 DEF Inverts
  <2>4. F.serialize[v] = << 1 >> \o s
    BY <1>2, <2>3, OptionalFields
  <2>5. << 1 >> \o s \in Seq(Byte) /\ << 1 >> \o s # <<>> /\ << 1 >> \in Seq(Byte)
    BY <1>0, FirstByte
  <2>6. ASSUME NEW rest \in Seq(Byte) PROVE F.deserialize[(<< 1 >> \o s) \o rest] = << v, rest >>
    <3>1. (<< 1 >> \o s) \o rest = << 1 >> \o (s \o rest) /\ s \o rest \in Seq(Byte)
      BY <2>5, Associative, Appended
    <3>2. PICK buf \in Seq(Byte) : /\ buf = << 1 >> \o (s \o rest) /\ buf # <<>>
                                   /\ buf[1] = 1 /\ slice(buf, 1) = s \o rest
      BY <1>0, <3>1, FirstByte
    <3>3. StartsWithFlag(buf) /\ buf[1] # 0
      BY <3>2 DEF StartsWithFlag
    <3>4. F.deserialize[buf] = field.deserialize[s \o rest]
      BY <2>1, <3>2, <3>3, OptionalFields
    <3> QED BY <2>3, <3>1, <3>2, <3>4 DEF Inverts
  <2>7. ASSUME NEW buf \in Seq(Byte), NEW more \in Seq(Byte), more # <<>>, buf \o more = << 1 >> \o s
        PROVE  F.deserialize[buf] = Refused
    <3>1. CASE buf = <<>>
      BY <3>1, OptionalFields DEF StartsWithFlag
    <3>2. CASE Beyond(Byte, buf, more, << 1 >>, s)
      <4>1. PICK d \in Seq(Byte) : buf = << 1 >> \o d /\ d \o more = s
        BY <3>2 DEF Beyond
      <4>2. buf # <<>> /\ buf[1] = 1 /\ slice(buf, 1) = d
        BY <1>0, <4>1, FirstByte
      <4>3. StartsWithFlag(buf) /\ buf[1] # 0
        BY <4>2 DEF StartsWithFlag
      <4>4. F.deserialize[buf] = field.deserialize[d]
        BY <2>1, <4>2, <4>3, OptionalFields
      <4> QED BY <2>3, <2>7, <4>1, <4>4 DEF Inverts
    <3>3. buf = <<>> \/ Beyond(Byte, buf, more, << 1 >>, s)
      <4>1. CutsOf(buf, more, << 1 >>, s)
        BY <2>7 DEF CutsOf
      <4> QED BY <1>0, <4>1, ByteCut
    <3> QED BY <3>1, <3>2, <3>3
  <2> QED BY <2>4, <2>5, <2>6, <2>7 DEF Inverts
<1>3. IsBuilt(F)
  BY OptionalFields
<1> QED BY <1>1, <1>2, <1>3 DEF Sound

(* An Optional of a field that is not built writes and reads null. *)
LEMMA OptionalUnbuilt == Sound(Optional(Unbuilt))
<1>1. ~IsBuilt(Unbuilt)
  BY DEF IsBuilt, Unbuilt
<1> QED BY <1>1, OptionalSound

-----------------------------------------------------------------------------
(* Properties of an object, elements of a tuple. *)

(* j reads with d what f left. *)
ReadsBoth(f, d, j) == \A buf \in Seq(Byte) : j[buf] =
    LET r == f[buf]
        s == d[r[2]]
    IN  IF r = Refused THEN Refused
        ELSE IF s = Refused THEN Refused
        ELSE << << r[1], s[1] >>, s[2] >>

(* Two fields that read what they wrote, one after the other. *)
LEMMA InvertsBoth ==
    ASSUME NEW f, NEW d, NEW j, ReadsBoth(f, d, j),
           NEW s, NEW v, Inverts(f, s, v), NEW t, NEW w, Inverts(d, t, w)
    PROVE  Inverts(j, s \o t, << v, w >>)
<1>1. /\ s \in Seq(Byte) /\ s # <<>> /\ t \in Seq(Byte)
      /\ \A rest \in Seq(Byte) : f[s \o rest] = << v, rest >> /\ d[t \o rest] = << w, rest >>
  BY DEF Inverts
<1>2. s \o t \in Seq(Byte) /\ s \o t # <<>>
  BY <1>1, Appended, NotNone
<1>3. ASSUME NEW rest \in Seq(Byte) PROVE j[(s \o t) \o rest] = << << v, w >>, rest >>
  <2>1. PICK n \in Seq(Byte) : n = t \o rest
    BY <1>1, Appended
  <2>2. PICK buf : buf = s \o n
    OBVIOUS
  <2>6. buf \in Seq(Byte) /\ (s \o t) \o rest = buf
    <3>1. (s \o t) \o rest = s \o (t \o rest)
      BY <1>1, Associative
    <3> QED BY <1>1, <2>1, <2>2, <3>1, Appended
  <2>3. f[buf] = << v, n >> /\ d[n] = << w, rest >>
    BY <1>1, <2>1, <2>2
  <2>7. PICK r, m : r = << v, n >> /\ m = << w, rest >>
    OBVIOUS
  <2>8. r # Refused /\ r[1] = v /\ r[2] = n /\ m # Refused /\ m[1] = w /\ m[2] = rest
    BY <2>7, NotRefused
  <2>5. j[buf] = << << v, w >>, rest >>
    <3>1. f[buf] = r /\ d[r[2]] = m
      BY <2>3, <2>7, <2>8
    <3>2. j[buf] = << << r[1], m[1] >>, m[2] >>
      BY <2>6, <2>8, <3>1 DEF ReadsBoth
    <3> QED BY <2>8, <3>2
  <2> QED BY <2>5, <2>6
<1>4. ASSUME NEW buf \in Seq(Byte), NEW more \in Seq(Byte), more # <<>>, buf \o more = s \o t
      PROVE  j[buf] = Refused
  <2>1. CASE Inside(Byte, buf, s)
    <3>1. PICK n \in Seq(Byte) : n # <<>> /\ buf \o n = s
      BY <2>1 DEF Inside
    <3>2. f[buf] = Refused
      BY <3>1 DEF Inverts
    <3> QED BY <3>2 DEF ReadsBoth
  <2>2. CASE Beyond(Byte, buf, more, s, t)
    <3>1. PICK n \in Seq(Byte) : buf = s \o n /\ n \o more = t
      BY <2>2 DEF Beyond
    <3>2. f[buf] = << v, n >>
      BY <1>1, <3>1
    <3>3. d[n] = Refused
      BY <1>4, <3>1 DEF Inverts
    <3>4. PICK r : r = << v, n >>
      OBVIOUS
    <3>5. f[buf] = r /\ d[r[2]] = Refused
      BY <3>2, <3>3, <3>4
    <3> QED BY <3>5 DEF ReadsBoth
  <2>3. CutsOf(buf, more, s, t)
    BY <1>4 DEF CutsOf
  <2> QED BY <1>1, <2>1, <2>2, <2>3, CutTwice
<1> QED BY <1>2, <1>3, <1>4 DEF Inverts

WritesBoth(f, d, j) == \A v \in f.values : \A w \in d.values :
    j.serialize[<< v, w >>] = f.serialize[v] \o d.serialize[w]

(* The parts of a class with two properties. *)
LEMMA PropertiesFields ==
    ASSUME NEW f, NEW d
    PROVE  /\ IsBuilt(f ++ d) /\ (f ++ d).values = f.values \X d.values
           /\ WritesBoth(f, d, f ++ d)
           /\ ReadsBoth(f.deserialize, d.deserialize, (f ++ d).deserialize)
<1>1. f ++ d = Properties(f, d)
  BY DEF ++
<1>2. /\ (f ++ d).values = f.values \X d.values
      /\ (f ++ d).serialize =
            [u \in f.values \X d.values |-> f.serialize[u[1]] \o d.serialize[u[2]]]
  BY <1>1 DEF Properties
<1>3. IsBuilt(f ++ d)
  BY <1>1 DEF Properties, IsBuilt
<1>4. ReadsBoth(f.deserialize, d.deserialize, (f ++ d).deserialize)
  BY <1>1 DEF Properties, ReadsBoth
<1>5. ASSUME NEW v \in f.values, NEW w \in d.values
      PROVE  (f ++ d).serialize[<< v, w >>] = f.serialize[v] \o d.serialize[w]
  <2>1. PICK u : u = << v, w >>
    OBVIOUS
  <2>2. u \in f.values \X d.values /\ u[1] = v /\ u[2] = w
    BY <2>1
  <2>3. (f ++ d).serialize[u] = f.serialize[u[1]] \o d.serialize[u[2]]
    BY <1>2, <2>2
  <2> QED BY <2>1, <2>2, <2>3
<1> QED BY <1>2, <1>3, <1>4, <1>5 DEF WritesBoth

(* A class reads its properties. *)
LEMMA PropertiesSound ==
    ASSUME NEW f, NEW d, Sound(f), Sound(d)
    PROVE  Sound(f ++ d)
<1>1. ASSUME NEW u \in (f ++ d).values
      PROVE  Inverts((f ++ d).deserialize, (f ++ d).serialize[u], u)
  <2>1. PICK v \in f.values, w \in d.values : u = << v, w >>
    <3>1. u \in f.values \X d.values
      BY PropertiesFields
    <3> QED BY <3>1
  <2>2. PICK s, t : s = f.serialize[v] /\ t = d.serialize[w]
    OBVIOUS
  <2>3. Inverts(f.deserialize, s, v) /\ Inverts(d.deserialize, t, w)
    BY <2>2 DEF Sound
  <2>4. (f ++ d).serialize[u] = s \o t
    <3>1. WritesBoth(f, d, f ++ d)
      BY PropertiesFields
    <3>2. (f ++ d).serialize[<< v, w >>] = f.serialize[v] \o d.serialize[w]
      BY <3>1 DEF WritesBoth
    <3> QED BY <2>1, <2>2, <3>2
  <2>5. ReadsBoth(f.deserialize, d.deserialize, (f ++ d).deserialize)
    BY PropertiesFields
  <2>6. PICK m, n, j : m = f.deserialize /\ n = d.deserialize /\ j = (f ++ d).deserialize
    OBVIOUS
  <2>7. Inverts(j, s \o t, << v, w >>)
    BY <2>3, <2>5, <2>6, InvertsBoth
  <2> QED BY <2>1, <2>4, <2>6, <2>7
<1> QED BY <1>1, PropertiesFields DEF Sound

(* The parts of a tuple. *)
LEMMA TupleFields ==
    ASSUME NEW f, NEW d
    PROVE  /\ IsBuilt(f ** d) /\ (f ** d).values = (f ++ d).values
           /\ (f ** d).serialize = (f ++ d).serialize
           /\ \A buf \in Seq(Byte) : (f ** d).deserialize[buf] =
                IF f.deserialize[buf] # Refused /\ f.deserialize[buf][2] = <<>> THEN Refused
                ELSE (f ++ d).deserialize[buf]
BY DEF **, Tuple, IsBuilt

(* A tuple reads its elements: after the first of them bytes are left. *)
LEMMA TupleSound ==
    ASSUME NEW f, NEW d, Sound(f), Sound(d)
    PROVE  Sound(f ** d)
<1>1. ASSUME NEW u \in (f ++ d).values
      PROVE  Inverts((f ** d).deserialize, (f ++ d).serialize[u], u)
  <2>1. PICK v \in f.values, w \in d.values : u = << v, w >>
    <3>1. u \in f.values \X d.values
      BY PropertiesFields
    <3> QED BY <3>1
  <2>2. PICK s, t, j : s = f.serialize[v] /\ t = d.serialize[w] /\ j = (f ++ d).serialize[u]
    OBVIOUS
  <2>3. j = s \o t
    <3>1. WritesBoth(f, d, f ++ d)
      BY PropertiesFields
    <3>2. (f ++ d).serialize[<< v, w >>] = f.serialize[v] \o d.serialize[w]
      BY <3>1 DEF WritesBoth
    <3> QED BY <2>1, <2>2, <3>2
  <2>4. Inverts((f ++ d).deserialize, j, u)
    BY <2>2, PropertiesSound DEF Sound
  <2>5. Inverts(f.deserialize, s, v) /\ Inverts(d.deserialize, t, w)
    BY <2>2 DEF Sound
  <2>6. s \in Seq(Byte) /\ t \in Seq(Byte) /\ t # <<>>
    BY <2>5 DEF Inverts
  <2>7. ASSUME NEW rest \in Seq(Byte) PROVE (f ** d).deserialize[j \o rest] = << u, rest >>
    <3>1. PICK n \in Seq(Byte) : n = t \o rest /\ n # <<>>
      <4>1. t \o rest \in Seq(Byte) /\ t \o rest # <<>>
        BY <2>6, Appended, NotNone
      <4> QED BY <4>1
    <3>2. PICK buf \in Seq(Byte) : buf = s \o n /\ j \o rest = buf
      <4>1. s \o n \in Seq(Byte)
        BY <2>6, Appended
      <4>2. (s \o t) \o rest = s \o (t \o rest)
        BY <2>6, Associative
      <4> QED BY <2>3, <3>1, <4>1, <4>2
    <3>3. f.deserialize[buf] = << v, n >>
      BY <2>5, <3>2 DEF Inverts
    <3>4. (f ** d).deserialize[buf] = (f ++ d).deserialize[buf]
      BY <3>1, <3>3, TupleFields
    <3>5. (f ++ d).deserialize[j \o rest] = << u, rest >>
      BY <2>4 DEF Inverts
    <3> QED BY <3>2, <3>4, <3>5
  <2>8. ASSUME NEW buf \in Seq(Byte), NEW more \in Seq(Byte), more # <<>>, buf \o more = j
        PROVE  (f ** d).deserialize[buf] = Refused
    <3>1. (f ++ d).deserialize[buf] = Refused
      BY <2>4, <2>8 DEF Inverts
    <3> QED BY <3>1, TupleFields
  <2>9. j \in Seq(Byte) /\ j # <<>>
    BY <2>4 DEF Inverts
  <2> QED BY <2>2, <2>7, <2>8, <2>9 DEF Inverts
<1> QED BY <1>1, TupleFields DEF Sound

-----------------------------------------------------------------------------
(* Lists. *)

(* One element more. *)
NextRead(field, size, i, before) ==
    LET r == field.deserialize[before[2]]
    IN  IF before = Refused THEN Refused
        ELSE IF r = Refused THEN Refused
        ELSE IF r[2] = <<>> /\ i # size THEN Refused
        ELSE << Append(before[1], r[1]), r[2] >>

Reads(field, size, buf, m, f) ==
    f = [i \in 0..m |-> IF i = 0 THEN << <<>>, buf >> ELSE NextRead(field, size, i, f[i - 1])]

(* What is read one after the other, as a function. *)
LEMMA ReadsExist ==
    ASSUME NEW field, NEW size, NEW buf, NEW n \in Nat
    PROVE  \E f : Reads(field, size, buf, n, f)
<1> DEFINE T == {m \in 0..n : \E f : Reads(field, size, buf, m, f)}
           Body(f, i) == IF i = 0 THEN << <<>>, buf >> ELSE NextRead(field, size, i, f[i - 1])
<1>1. 0 \in T
  <2> DEFINE f == [i \in 0..0 |-> << <<>>, buf >>]
  <2>1. f = [i \in 0..0 |-> Body(f, i)]
    OBVIOUS
  <2> HIDE DEF f
  <2> QED BY <2>1 DEF Reads
<1>2. ASSUME NEW m \in 1..n, m - 1 \in T PROVE m \in T
  <2>1. PICK f : Reads(field, size, buf, m - 1, f)
    BY <1>2
  <2>2. \A i \in 0..(m - 1) : f[i] = Body(f, i)
    BY <2>1 DEF Reads
  <2> DEFINE g == [i \in 0..m |-> IF i = m THEN Body(f, m) ELSE f[i]]
  <2>3. \A i \in 0..m : g[i] = IF i = m THEN Body(f, m) ELSE f[i]
    OBVIOUS
  <2>4. g = [i \in 0..m |-> g[i]]
    OBVIOUS
  <2> HIDE DEF g
  <2>5. ASSUME NEW i \in 0..m PROVE g[i] = Body(g, i)
    <3>1. CASE i = 0
      BY <2>2, <2>3, <3>1
    <3>2. CASE i # 0
      <4>1. i - 1 \in 0..m /\ i - 1 # m
        BY <3>2
      <4>2. g[i - 1] = f[i - 1]
        BY <2>3, <4>1
      <4>3. g[i] = Body(f, i)
        BY <2>2, <2>3
      <4> QED BY <3>2, <4>2, <4>3
    <3> QED BY <3>1, <3>2
  <2>6. g = [i \in 0..m |-> Body(g, i)]
    BY <2>4, <2>5
  <2>7. Reads(field, size, buf, m, g)
    BY <2>6 DEF Reads
  <2> QED BY <2>7
<1>3. n \in T
  <2> HIDE DEF T
  <2>1. \A k \in 0..n : k \in T
    BY <1>1, <1>2, UpTo
  <2> QED BY <2>1
<1> QED BY <1>3

(* InTurn reads like that. *)
Turns(field, size, buf, f) ==
    /\ InTurn(field, size, buf) = f[size]
    /\ f[0] = << <<>>, buf >>
    /\ \A i \in 1..size : f[i] = NextRead(field, size, i, f[i - 1])

(* InTurn is the last of it. *)
LEMMA InTurnReads ==
    ASSUME NEW field, NEW buf, NEW size \in Nat
    PROVE  \E f : Turns(field, size, buf, f)
<1> DEFINE read == CHOOSE f : f = [i \in 0..size |->
                     IF i = 0 THEN << <<>>, buf >>
                     ELSE LET before == f[i - 1]
                              r == field.deserialize[before[2]]
                          IN  IF before = Refused THEN Refused
                              ELSE IF r = Refused THEN Refused
                              ELSE IF r[2] = <<>> /\ i # size THEN Refused
                              ELSE << Append(before[1], r[1]), r[2] >>]
           chosen == CHOOSE f : Reads(field, size, buf, size, f)
<1>1. InTurn(field, size, buf) = read[size]
  BY DEF InTurn
<1>2. read = chosen
  BY DEF Reads, NextRead
<1>3. Reads(field, size, buf, size, chosen)
  BY ReadsExist
<1> HIDE DEF read, chosen
<1>4. PICK f : f = chosen
  OBVIOUS
<1>5. \A i \in 0..size :
          f[i] = IF i = 0 THEN << <<>>, buf >> ELSE NextRead(field, size, i, f[i - 1])
  BY <1>3, <1>4 DEF Reads
<1>6. f[0] = << <<>>, buf >>
  BY <1>5
<1>7. \A i \in 1..size : f[i] = NextRead(field, size, i, f[i - 1])
  BY <1>5
<1> QED BY <1>1, <1>2, <1>4, <1>6, <1>7 DEF Turns

(* What is left of the sequences that are joined, after each of them. *)
Tails(n, ss, S, g) ==
    /\ g \in [0..n -> Seq(S)] /\ g[n] = <<>>
    /\ \A k \in 1..n : g[k - 1] = ss[k] \o g[k]

(* What follows each of some joined sequences. *)
LEMMA TailsExist ==
    ASSUME NEW S, NEW n \in Nat, NEW ss, AreSequences(n, ss, S), NEW f, Joins(n, ss, S, f)
    PROVE  \E g : Tails(n, ss, S, g) /\ g[0] = f[n]
<1> DEFINE T == {m \in 0..n : \E g : Tails(m, ss, S, g) /\ g[0] = f[m]}
<1>0. f \in [0..n -> Seq(S)] /\ f[0] = <<>> /\ \A k \in 1..n : f[k] = f[k - 1] \o ss[k]
  BY DEF Joins
<1>1. 0 \in T
  <2> DEFINE g == [k \in 0..0 |-> <<>>]
  <2>1. Tails(0, ss, S, g) /\ g[0] = f[0]
    BY <1>0 DEF Tails
  <2> HIDE DEF g
  <2> QED BY <2>1
<1>2. ASSUME NEW m \in 1..n, m - 1 \in T PROVE m \in T
  <2>1. PICK g : Tails(m - 1, ss, S, g) /\ g[0] = f[m - 1]
    BY <1>2
  <2>2. /\ g \in [0..(m - 1) -> Seq(S)] /\ g[m - 1] = <<>>
        /\ \A k \in 1..(m - 1) : g[k - 1] = ss[k] \o g[k]
    BY <2>1 DEF Tails
  <2>3. ss[m] \in Seq(S) /\ \A k \in 1..n : ss[k] \in Seq(S)
    BY DEF AreSequences
  <2> DEFINE h == [k \in 0..m |-> IF k = m THEN <<>> ELSE g[k] \o ss[m]]
  <2>4. \A k \in 0..(m - 1) : h[k] = g[k] \o ss[m]
    OBVIOUS
  <2>5. h[m] = <<>>
    OBVIOUS
  <2>6. \A k \in 0..(m - 1) : g[k] \in Seq(S) /\ g[k] \o ss[m] \in Seq(S)
    BY <2>2, <2>3, Appended
  <2>7. h \in [0..m -> Seq(S)]
    BY <2>6
  <2> HIDE DEF h
  <2>8. ASSUME NEW k \in 1..m PROVE h[k - 1] = ss[k] \o h[k]
    <3>1. CASE k = m
      <4>2. k - 1 = m - 1 /\ m - 1 \in 0..(m - 1)
        BY <3>1
      <4>1. h[k - 1] = <<>> \o ss[m]
        BY <2>2, <2>4, <4>2
      <4> QED BY <2>3, <2>5, <3>1, <4>1, WithNone
    <3>2. CASE k # m
      <4>1. k \in 1..(m - 1) /\ k - 1 \in 0..(m - 1) /\ k \in 0..(m - 1)
        BY <3>2
      <4>2. h[k - 1] = g[k - 1] \o ss[m] /\ h[k] = g[k] \o ss[m] /\ g[k - 1] = ss[k] \o g[k]
        BY <2>2, <2>4, <4>1
      <4>3. ss[k] \in Seq(S) /\ g[k] \in Seq(S)
        BY <2>3, <2>6, <4>1
      <4>4. (ss[k] \o g[k]) \o ss[m] = ss[k] \o (g[k] \o ss[m])
        <5>1. PICK s \in Seq(S), t \in Seq(S), r \in Seq(S) : s = ss[k] /\ t = g[k] /\ r = ss[m]
          BY <2>3, <4>3
        <5>2. (s \o t) \o r = s \o (t \o r)
          BY Associative
        <5> QED BY <5>1, <5>2
      <4> QED BY <4>2, <4>4
    <3> QED BY <3>1, <3>2
  <2>9. h[0] = f[m]
    <3>1. 0 \in 0..(m - 1) /\ f[m] = f[m - 1] \o ss[m]
      <4>1. 0 \in 0..(m - 1)
        OBVIOUS
      <4>2. \A k \in 1..n : f[k] = f[k - 1] \o ss[k]
        BY DEF Joins
      <4>3. f[m] = f[m - 1] \o ss[m]
        BY <4>2
      <4> QED BY <4>1, <4>3
    <3>2. h[0] = g[0] \o ss[m]
      BY <2>4, <3>1
    <3> QED BY <2>1, <3>1, <3>2
  <2>10. Tails(m, ss, S, h)
    BY <2>5, <2>7, <2>8 DEF Tails
  <2> QED BY <2>9, <2>10
<1>3. n \in T
  <2> HIDE DEF T
  <2>1. \A k \in 0..n : k \in T
    BY <1>1, <1>2, UpTo
  <2> QED BY <2>1
<1> QED BY <1>3

Yields(field, b, x, r) == field.deserialize[b] = << x, r >>
GoesOn(r, i, size) == r # <<>> \/ i = size
ReadOn(field, size, i, p, b, x, r) ==
    NextRead(field, size, i, << p, b >>) = << Append(p, x), r >>

(* An element is read when bytes are left for the next. *)
LEMMA OneRead ==
    ASSUME NEW field, NEW size, NEW i, NEW p, NEW b, NEW x, NEW r,
           Yields(field, b, x, r), GoesOn(r, i, size)
    PROVE  ReadOn(field, size, i, p, b, x, r)
<1>1. PICK before, m : before = << p, b >> /\ m = << x, r >>
  OBVIOUS
<1>2. /\ before[1] = p /\ before[2] = b /\ m[1] = x /\ m[2] = r
      /\ before # Refused /\ m # Refused
  BY <1>1, NotRefused
<1>3. NextRead(field, size, i, before) = << Append(before[1], m[1]), m[2] >>
  BY <1>1, <1>2 DEF NextRead, Yields, GoesOn
<1> QED BY <1>1, <1>2, <1>3 DEF ReadOn

(* A refused element, or one after which none are left, refuses the list. *)
LEMMA NoRead ==
    ASSUME NEW field, NEW size, NEW i, NEW p, NEW b,
           field.deserialize[b] = Refused \/
           \E x : field.deserialize[b] = << x, <<>> >> /\ i # size
    PROVE  NextRead(field, size, i, << p, b >>) = Refused
<1>1. PICK before : before = << p, b >>
  OBVIOUS
<1>2. before[2] = b
  BY <1>1
<1>3. CASE field.deserialize[b] = Refused
  <2>1. NextRead(field, size, i, before) = Refused
    BY <1>2, <1>3 DEF NextRead
  <2> QED BY <1>1, <2>1
<1>4. CASE \E x : field.deserialize[b] = << x, <<>> >> /\ i # size
  <2>0. PICK x : field.deserialize[b] = << x, <<>> >> /\ i # size
    BY <1>4
  <2>3. PICK m : m = << x, <<>> >>
    OBVIOUS
  <2>1. field.deserialize[b] = m /\ m[2] = <<>> /\ i # size
    BY <2>0, <2>3
  <2>2. NextRead(field, size, i, before) = Refused
    BY <1>2, <2>1 DEF NextRead
  <2> QED BY <1>1, <2>2
<1> QED BY <1>3, <1>4

(* A refused list stays refused. *)
LEMMA StillRefused ==
    ASSUME NEW field, NEW size, NEW i
    PROVE  NextRead(field, size, i, Refused) = Refused
BY DEF NextRead

(* The first places of a sequence. *)
LEMMA First ==
    ASSUME NEW S, NEW v \in Seq(S), NEW k \in 0..Len(v)
    PROVE  /\ SubSeq(v, 1, k) \in Seq(S) /\ Len(SubSeq(v, 1, k)) = k
           /\ \A i \in 1..k : SubSeq(v, 1, k)[i] = v[i]
OBVIOUS

(* The first places and the next. *)
LEMMA OneMore ==
    ASSUME NEW S, NEW v \in Seq(S), NEW k \in 1..Len(v)
    PROVE  Append(SubSeq(v, 1, k - 1), v[k]) = SubSeq(v, 1, k)
<1>1. PICK p \in Seq(S) : /\ p = SubSeq(v, 1, k - 1) /\ Len(p) = k - 1
                          /\ \A i \in 1..(k - 1) : p[i] = v[i]
  <2>1. k - 1 \in 0..Len(v)
    OBVIOUS
  <2> QED BY <2>1, First
<1>2. PICK t \in Seq(S) : /\ t = SubSeq(v, 1, k) /\ Len(t) = k
                          /\ \A i \in 1..k : t[i] = v[i]
  <2>1. k \in 0..Len(v)
    OBVIOUS
  <2> QED BY <2>1, First
<1>3. v[k] \in S
  OBVIOUS
<1>4. Append(p, v[k]) \in Seq(S) /\ Len(Append(p, v[k])) = k
  BY <1>1, <1>3
<1>5. ASSUME NEW i \in 1..k PROVE Append(p, v[k])[i] = t[i]
  BY <1>1, <1>2, <1>3
<1>6. Append(p, v[k]) = t
  BY <1>2, <1>4, <1>5, Equal
<1> QED BY <1>1, <1>2, <1>6

(* All the places, and none. *)
LEMMA WholePart ==
    ASSUME NEW S, NEW v \in Seq(S)
    PROVE SubSeq(v, 1, Len(v)) = v /\ SubSeq(v, 1, 0) = <<>>
OBVIOUS

(* ss are the bytes of the elements of v, g what is left of them. *)
Written(d, v, n, ss, g) ==
    /\ \A k \in 1..n : Inverts(d, ss[k], v[k])
    /\ Tails(n, ss, Byte, g)

(* s are the bytes of x, t what follows them, u both. *)
Heads(d, s, x, t, u) ==
    /\ Inverts(d, s, x) /\ u = s \o t
    /\ s \in Seq(Byte) /\ s # <<>> /\ t \in Seq(Byte) /\ u \in Seq(Byte) /\ u # <<>>

(* The bytes of an element and of those that follow. *)
LEMMA WrittenStep ==
    ASSUME NEW d, NEW v, NEW n \in Nat, NEW ss, NEW g, Written(d, v, n, ss, g), NEW k \in 1..n
    PROVE  Heads(d, ss[k], v[k], g[k], g[k - 1])
<1>1. Inverts(d, ss[k], v[k]) /\ Tails(n, ss, Byte, g)
  BY DEF Written
<1>2. g[k - 1] = ss[k] \o g[k]
  BY <1>1 DEF Tails
<1>3. ss[k] \in Seq(Byte) /\ ss[k] # <<>>
  BY <1>1 DEF Inverts
<1>4. g[k] \in Seq(Byte) /\ g[k - 1] \in Seq(Byte)
  <2>1. g \in [0..n -> Seq(Byte)] /\ k \in 0..n /\ k - 1 \in 0..n
    BY <1>1 DEF Tails
  <2> QED BY <2>1
<1>5. ss[k] \o g[k] # <<>>
  BY <1>3, <1>4, NotNone
<1> QED BY <1>1, <1>2, <1>3, <1>4, <1>5 DEF Heads

Whole(field, v, n, ss, g) == n = Len(v) /\ Written(field.deserialize, v, n, ss, g)
ReadsBack(field, v, n, g, rest) == InTurn(field, n, g[0] \o rest) = << v, rest >>

(* All the elements are read, one after the other. *)
LEMMA ReadsAll ==
    ASSUME NEW field, NEW S, NEW v \in Seq(S), NEW n \in Nat, NEW ss, NEW g,
           Whole(field, v, n, ss, g), NEW rest \in Seq(Byte)
    PROVE  ReadsBack(field, v, n, g, rest)
<1>9. n = Len(v) /\ Written(field.deserialize, v, n, ss, g)
  BY DEF Whole
<1>0. PICK buf : buf = g[0] \o rest
  OBVIOUS
<1>1. PICK f : Turns(field, n, buf, f)
  BY InTurnReads
<1>2. /\ InTurn(field, n, buf) = f[n] /\ f[0] = << <<>>, buf >>
      /\ \A i \in 1..n : f[i] = NextRead(field, n, i, f[i - 1])
  BY <1>1 DEF Turns
<1> DEFINE T == {k \in 0..n : f[k] = << SubSeq(v, 1, k), g[k] \o rest >>}
<1>8. 0 \in T
  <2>1. SubSeq(v, 1, 0) = <<>>
    BY WholePart
  <2>2. f[0] = << SubSeq(v, 1, 0), g[0] \o rest >>
    BY <1>0, <1>2, <2>1
  <2> QED BY <2>2
<1>3. ASSUME NEW k \in 1..n, k - 1 \in T PROVE k \in T
  <2>1. f[k - 1] = << SubSeq(v, 1, k - 1), g[k - 1] \o rest >>
    BY <1>3
  <2>2. PICK s, t, p : s = ss[k] /\ t = g[k] /\ p = g[k - 1]
    OBVIOUS
  <2>12. Heads(field.deserialize, s, v[k], t, p)
    BY <1>9, <2>2, WrittenStep
  <2>3. Inverts(field.deserialize, s, v[k]) /\ p = s \o t /\ s \in Seq(Byte) /\ t \in Seq(Byte)
    BY <2>12 DEF Heads
  <2>4. PICK r \in Seq(Byte) : r = t \o rest
    BY <2>3, Appended
  <2>5. p \o rest = s \o r
    <3>1. (s \o t) \o rest = s \o (t \o rest)
      <4>1. s \in Seq(Byte) /\ t \in Seq(Byte)
        BY <2>3
      <4>2. PICK x \in Seq(Byte), y \in Seq(Byte) : x = s /\ y = t
        BY <4>1
      <4>3. (x \o y) \o rest = x \o (y \o rest)
        OBVIOUS
      <4> QED BY <4>2, <4>3
    <3> QED BY <2>3, <2>4, <3>1
  <2>6. field.deserialize[p \o rest] = << v[k], r >>
    BY <2>3, <2>5 DEF Inverts
  <2>7. r # <<>> \/ k = n
    <3>1. CASE k # n
      <4>1. k + 1 \in 1..n /\ (k + 1) - 1 = k
        BY <3>1
      <4>5. PICK m : m = k + 1 /\ m \in 1..n /\ m - 1 = k
        BY <4>1
      <4>6. Heads(field.deserialize, ss[m], v[m], g[m], g[m - 1])
        BY <1>9, <4>5, WrittenStep
      <4>3. t # <<>>
        BY <2>2, <4>5, <4>6 DEF Heads
      <4>4. t \o rest # <<>>
        BY <2>3, <4>3, NotNone
      <4> QED BY <2>4, <4>4
    <3> QED BY <3>1
  <2>8. NextRead(field, n, k, << SubSeq(v, 1, k - 1), p \o rest >>)
            = << Append(SubSeq(v, 1, k - 1), v[k]), r >>
    <3>1. PICK u : u = p \o rest
      OBVIOUS
    <3>2. PICK w : w = SubSeq(v, 1, k - 1)
      OBVIOUS
    <3>3. NextRead(field, n, k, << w, u >>) = << Append(w, v[k]), r >>
      <4>1. Yields(field, u, v[k], r) /\ GoesOn(r, k, n)
        BY <2>6, <2>7, <3>1 DEF Yields, GoesOn
      <4>2. ReadOn(field, n, k, w, u, v[k], r)
        BY <4>1, OneRead
      <4> QED BY <4>2 DEF ReadOn
    <3> QED BY <3>1, <3>2, <3>3
  <2>9. f[k] = << Append(SubSeq(v, 1, k - 1), v[k]), r >>
    BY <1>2, <2>1, <2>2, <2>8
  <2>10. Append(SubSeq(v, 1, k - 1), v[k]) = SubSeq(v, 1, k)
    BY <1>9, OneMore
  <2>11. f[k] = << SubSeq(v, 1, k), g[k] \o rest >>
    BY <2>2, <2>4, <2>9, <2>10
  <2> QED BY <2>11
<1>4. n \in T
  <2> HIDE DEF T
  <2>1. \A k \in 0..n : k \in T
    BY <1>8, <1>3, UpTo
  <2> QED BY <2>1
<1>5. f[n] = << SubSeq(v, 1, n), g[n] \o rest >>
  BY <1>4
<1>6. g[n] = <<>> /\ <<>> \o rest = rest
  BY <1>9, WithNone DEF Written, Tails
<1>7. SubSeq(v, 1, n) = v
  BY <1>9, WholePart
<1> QED BY <1>0, <1>2, <1>5, <1>6, <1>7 DEF ReadsBack

(* What is left of a part of the bytes, after k elements. *)
Left(f, p, k, more, t) ==
    f = Refused \/ \E b \in Seq(Byte) : f = << p, b >> /\ b \o more = t

(* Of elements whose bytes lack their end, the list is refused. *)
LEMMA ReadsPart ==
    ASSUME NEW field, NEW S, NEW v \in Seq(S), NEW n \in Nat, n = Len(v), NEW ss, NEW g,
           Written(field.deserialize, v, n, ss, g),
           NEW buf \in Seq(Byte), NEW more \in Seq(Byte), more # <<>>, buf \o more = g[0]
    PROVE  InTurn(field, n, buf) = Refused
<1>0. PICK f : Turns(field, n, buf, f)
  BY InTurnReads
<1>1. /\ InTurn(field, n, buf) = f[n] /\ f[0] = << <<>>, buf >>
      /\ \A i \in 1..n : f[i] = NextRead(field, n, i, f[i - 1])
  BY <1>0 DEF Turns
<1> DEFINE T == {k \in 0..n : \E p : Left(f[k], p, k, more, g[k])}
<1>2. 0 \in T
  BY <1>1 DEF Left
<1>3. ASSUME NEW k \in 1..n, k - 1 \in T PROVE k \in T
  <2>0. f[k] = NextRead(field, n, k, f[k - 1])
    BY <1>1
  <2>1. CASE f[k - 1] = Refused
    <3>1. f[k] = Refused
      BY <2>0, <2>1, StillRefused
    <3> QED BY <3>1 DEF Left
  <2>2. CASE f[k - 1] # Refused
    <3>7. PICK p : Left(f[k - 1], p, k - 1, more, g[k - 1])
      BY <1>3
    <3>1. PICK b \in Seq(Byte) : f[k - 1] = << p, b >> /\ b \o more = g[k - 1]
      BY <2>2, <3>7 DEF Left
    <3>2. PICK s, t, u : s = ss[k] /\ t = g[k] /\ u = g[k - 1]
      OBVIOUS
    <3>8. Heads(field.deserialize, s, v[k], t, u)
      BY <3>2, WrittenStep
    <3>3. /\ Inverts(field.deserialize, s, v[k]) /\ g[k - 1] = s \o t
          /\ s \in Seq(Byte) /\ t \in Seq(Byte)
      BY <3>2, <3>8 DEF Heads
    <3>4. CutsOf(b, more, s, t)
      BY <3>1, <3>3 DEF CutsOf
    <3>5. CASE Inside(Byte, b, s)
      <4>1. PICK m \in Seq(Byte) : m # <<>> /\ b \o m = s
        BY <3>5 DEF Inside
      <4>2. field.deserialize[b] = Refused
        BY <3>3, <4>1 DEF Inverts
      <4>3. f[k] = Refused
        BY <2>0, <3>1, <4>2, NoRead
      <4> QED BY <4>3 DEF Left
    <3>6. CASE Beyond(Byte, b, more, s, t)
      <4>1. PICK d \in Seq(Byte) : b = s \o d /\ d \o more = t
        BY <3>6 DEF Beyond
      <4>2. field.deserialize[b] = << v[k], d >>
        BY <3>3, <4>1 DEF Inverts
      <4>3. CASE d = <<>> /\ k # n
        <5>2. PICK x : field.deserialize[b] = << x, <<>> >>
          BY <4>2, <4>3
        <5>1. f[k] = Refused
          BY <2>0, <3>1, <4>3, <5>2, NoRead
        <5> QED BY <5>1 DEF Left
      <4>4. CASE d # <<>> \/ k = n
        <5>6. PICK x : x = v[k] /\ field.deserialize[b] = << x, d >>
          BY <4>2
        <5>2. PICK w : w = Append(p, x)
          OBVIOUS
        <5>5. NextRead(field, n, k, << p, b >>) = << Append(p, x), d >>
          <6>1. Yields(field, b, x, d) /\ GoesOn(d, k, n)
            BY <4>4, <5>6 DEF Yields, GoesOn
          <6>2. ReadOn(field, n, k, p, b, x, d)
            BY <6>1, OneRead
          <6> QED BY <6>2 DEF ReadOn
        <5>1. f[k] = << w, d >>
          BY <2>0, <3>1, <5>2, <5>5
        <5>3. d \o more = g[k]
          BY <3>2, <4>1
        <5>4. Left(f[k], w, k, more, g[k])
          BY <5>1, <5>2, <5>3 DEF Left
        <5> QED BY <5>4
      <4> QED BY <4>3, <4>4
    <3> QED BY <3>3, <3>4, <3>5, <3>6, CutTwice
  <2> QED BY <2>1, <2>2
<1>4. n \in T
  <2> HIDE DEF T
  <2>1. \A k \in 0..n : k \in T
    BY <1>2, <1>3, UpTo
  <2> QED BY <2>1
<1>5. g[n] = <<>>
  BY DEF Written, Tails
<1>6. ASSUME NEW b \in Seq(Byte), b \o more = <<>> PROVE FALSE
  <2>1. Len(b \o more) = Len(b) + Len(more) /\ Len(b) \in Nat /\ Len(more) \in Nat
    BY Appended
  <2>2. Len(more) # 0
    OBVIOUS
  <2>3. Len(b \o more) = 0
    BY <1>6
  <2> QED BY <2>1, <2>2, <2>3
<1>7. f[n] = Refused
  BY <1>4, <1>5, <1>6 DEF Left
<1> QED BY <1>1, <1>7

ElementsOf(field, v) == [i \in 1..Len(v) |-> field.serialize[v[i]]]

(* The parts of List(field). *)
LEMMA ListFields ==
    ASSUME NEW field
    PROVE  /\ IsBuilt(List(field))
           /\ List(field).values = {s \in Seq(field.values) : IsUInt32(Len(s))}
           /\ \A v \in List(field).values : List(field).serialize[v] =
                 writeUInt32BE(Len(v)) \o FlattenSeq(ElementsOf(field, v))
           /\ \A buf \in Seq(Byte) : List(field).deserialize[buf] =
                 IF Len(buf) < 4 THEN Refused ELSE InTurn(field, readUInt32BE(buf), slice(buf, 4))
BY DEF List, IsBuilt, ElementsOf

(* The elements of a list are written one after the other. *)
LEMMA ListBody ==
    ASSUME NEW field, Sound(field), NEW v \in Seq(field.values), NEW n \in Nat, n = Len(v)
    PROVE  \E ss, g : /\ Written(field.deserialize, v, n, ss, g)
                      /\ g[0] = FlattenSeq(ElementsOf(field, v))
<1>1. PICK ss : ss = ElementsOf(field, v)
  OBVIOUS
<1>2. ASSUME NEW k \in 1..n PROVE Inverts(field.deserialize, ss[k], v[k])
  <2>1. v[k] \in field.values
    OBVIOUS
  <2>2. ss[k] = field.serialize[v[k]]
    BY <1>1 DEF ElementsOf
  <2> QED BY <2>1, <2>2 DEF Sound
<1>3. ASSUME NEW k \in 1..n PROVE ss[k] \in Seq(Byte)
  BY <1>2 DEF Inverts
<1>4. ss \in Seq(Seq(Byte)) /\ n = Len(ss)
  <2>1. PICK B : B = Seq(Byte)
    OBVIOUS
  <2>2. ss = [k \in 1..n |-> ss[k]]
    BY <1>1 DEF ElementsOf
  <2>3. ss \in [1..n -> B]
    BY <1>3, <2>1, <2>2
  <2>4. ss \in Seq(B) /\ Len(ss) = n
    BY <2>3
  <2> QED BY <2>1, <2>4
<1>5. AreSequences(n, ss, Byte) /\ \E f : Joins(n, ss, Byte, f) /\ FlattenSeq(ss) = f[n]
  BY <1>4, Joining
<1>6. PICK f : Joins(n, ss, Byte, f) /\ FlattenSeq(ss) = f[n]
  BY <1>5
<1>7. PICK g : Tails(n, ss, Byte, g) /\ g[0] = f[n]
  BY <1>5, <1>6, TailsExist
<1>8. Written(field.deserialize, v, n, ss, g)
  BY <1>2, <1>7 DEF Written
<1> QED BY <1>1, <1>6, <1>7, <1>8

(* List reads what it wrote, whatever its length. *)
LEMMA ListSound ==
    ASSUME NEW field, Sound(field)
    PROVE  Sound(List(field))
<1>1. ASSUME NEW v \in List(field).values
      PROVE  Inverts(List(field).deserialize, List(field).serialize[v], v)
  <2>1. v \in Seq(field.values) /\ IsUInt32(Len(v)) /\ Len(v) \in Nat
    BY ListFields
  <2>2. PICK n \in Nat : n = Len(v) /\ IsUInt32(n)
    BY <2>1
  <2>3. PICK ss, g : /\ Written(field.deserialize, v, n, ss, g)
                     /\ g[0] = FlattenSeq(ElementsOf(field, v))
    BY <2>1, <2>2, ListBody
  <2>4. PICK s \in Seq(Byte) : s = g[0]
    <3>1. g \in [0..n -> Seq(Byte)] /\ 0 \in 0..n
      BY <2>3 DEF Written, Tails
    <3> QED BY <3>1
  <2>5. PICK h \in Seq(Byte) : h = writeUInt32BE(n) /\ h # <<>>
    BY <2>2, UInt32
  <2>6. List(field).serialize[v] = h \o s
    <3>1. List(field).serialize[v] = writeUInt32BE(Len(v)) \o FlattenSeq(ElementsOf(field, v))
      BY ListFields
    <3> QED BY <2>2, <2>3, <2>4, <2>5, <3>1
  <2>7. h \o s \in Seq(Byte) /\ h \o s # <<>>
    BY <2>5, Appended, NotNone
  <2>8. ASSUME NEW rest \in Seq(Byte)
        PROVE  List(field).deserialize[(h \o s) \o rest] = << v, rest >>
    <3>1. PICK u \in Seq(Byte) : u = s \o rest
      BY Appended
    <3>2. (h \o s) \o rest = h \o u
      BY <3>1
    <3>3. PICK buf \in Seq(Byte) : /\ buf = h \o u /\ Len(buf) >= 4
                                   /\ readUInt32BE(buf) = n /\ slice(buf, 4) = u
      BY <2>2, <2>5, Length
    <3>4. ~(Len(buf) < 4)
      BY <3>3
    <3>5. InTurn(field, n, s \o rest) = << v, rest >>
      <4>1. n = Len(v) /\ Written(field.deserialize, v, n, ss, g) /\ v \in Seq(field.values)
        BY <2>1, <2>2, <2>3
      <4>2. PICK w \in Seq(field.values) : w = v
        BY <4>1
      <4>3. Whole(field, w, n, ss, g)
        BY <4>1, <4>2 DEF Whole
      <4>4. ReadsBack(field, w, n, g, rest)
        BY <4>3, ReadsAll
      <4> QED BY <2>4, <4>2, <4>4 DEF ReadsBack
    <3>6. List(field).deserialize[buf] = InTurn(field, n, u)
      BY <3>3, <3>4, ListFields
    <3> QED BY <3>1, <3>2, <3>3, <3>5, <3>6
  <2>9. ASSUME NEW buf \in Seq(Byte), NEW more \in Seq(Byte), more # <<>>, buf \o more = h \o s
        PROVE  List(field).deserialize[buf] = Refused
    <3>1. CASE Len(buf) < 4
      BY <3>1, ListFields
    <3>2. CASE CutAfterLength(n, buf, more, s)
      <4>1. PICK u \in Seq(Byte) : u = slice(buf, 4) /\ u \o more = s
        BY <3>2 DEF CutAfterLength
      <4>2. InTurn(field, n, u) = Refused
        <5>1. u \o more = g[0]
          BY <2>4, <4>1
        <5> QED BY <2>1, <2>2, <2>3, <2>9, <5>1, ReadsPart
      <4>3. ~(Len(buf) < 4) /\ readUInt32BE(buf) = n
        BY <3>2 DEF CutAfterLength
      <4> QED BY <4>1, <4>2, <4>3, ListFields
    <3>3. Len(buf) < 4 \/ CutAfterLength(n, buf, more, s)
      <4>1. buf \o more = writeUInt32BE(n) \o s
        BY <2>5, <2>9
      <4> QED BY <2>2, <4>1, LengthCut
    <3> QED BY <3>1, <3>2, <3>3
  <2> QED BY <2>6, <2>7, <2>8, <2>9 DEF Inverts
<1> QED BY <1>1, ListFields DEF Sound

-----------------------------------------------------------------------------
(* Every class. *)

(* Every field that the classes are put together from. *)
LEMMA FieldsSound ==
    /\ Sound(Bytes(32)) /\ Sound(Bytes(48)) /\ Sound(Bytes(96)) /\ Sound(Bytes(100))
    /\ Sound(Uint(8)) /\ Sound(Uint(16)) /\ Sound(Uint(32)) /\ Sound(Uint(64)) /\ Sound(Uint(128))
    /\ Sound(Boolean) /\ Sound(Blob) /\ Sound(String) /\ Sound(SExp)
<1>1. /\ Sound(Bytes(32)) /\ Sound(Bytes(48)) /\ Sound(Bytes(96)) /\ Sound(Bytes(100))
  BY BytesSound
<1>2. /\ 8 \div 8 \in Nat /\ 16 \div 8 \in Nat /\ 32 \div 8 \in Nat /\ 64 \div 8 \in Nat
      /\ 128 \div 8 \in Nat
  BY SMT
<1>3. /\ Sound(Uint(8)) /\ Sound(Uint(16)) /\ Sound(Uint(32)) /\ Sound(Uint(64))
      /\ Sound(Uint(128))
  BY <1>2, UintSound
<1> QED BY <1>1, <1>3, BooleanSound, BlobSound, SExpSound DEF String

(* An Optional of a field that is built. *)
LEMMA OptionalOf == ASSUME NEW field, Sound(field) PROVE Sound(Optional(field))
BY OptionalSound

(* Coin. *)
LEMMA CoinIsSound == Sound(Coin)
BY FieldsSound, PropertiesSound DEF Coin

(* CoinSpend. *)
LEMMA CoinSpendIsSound == Sound(CoinSpend)
BY FieldsSound, CoinIsSound, PropertiesSound DEF CoinSpend

(* SpendBundle. *)
LEMMA SpendBundleIsSound == Sound(SpendBundle)
BY FieldsSound, CoinSpendIsSound, PropertiesSound, ListSound DEF SpendBundle

(* PoolTarget. *)
LEMMA PoolTargetIsSound == Sound(PoolTarget)
BY FieldsSound, PropertiesSound DEF PoolTarget

(* ProofOfSpace. *)
LEMMA ProofOfSpaceIsSound == Sound(ProofOfSpace)
BY FieldsSound, PropertiesSound, OptionalOf DEF ProofOfSpace

(* VDFInfo. *)
LEMMA VDFInfoIsSound == Sound(VDFInfo)
BY FieldsSound, PropertiesSound DEF VDFInfo

(* VDFProof. *)
LEMMA VDFProofIsSound == Sound(VDFProof)
BY FieldsSound, PropertiesSound DEF VDFProof

(* ChallengeBlockInfo. *)
LEMMA ChallengeBlockInfoIsSound == Sound(ChallengeBlockInfo)
BY FieldsSound, ProofOfSpaceIsSound, VDFInfoIsSound, PropertiesSound, OptionalOf
   DEF ChallengeBlockInfo

(* ChallengeChainSubSlot. *)
LEMMA ChallengeChainSubSlotIsSound == Sound(ChallengeChainSubSlot)
BY FieldsSound, VDFInfoIsSound, PropertiesSound, OptionalOf DEF ChallengeChainSubSlot

(* InfusedChallengeChainSubSlot. *)
LEMMA InfusedChallengeChainSubSlotIsSound == Sound(InfusedChallengeChainSubSlot)
BY FieldsSound, VDFInfoIsSound DEF InfusedChallengeChainSubSlot

(* RewardChainSubSlot. *)
LEMMA RewardChainSubSlotIsSound == Sound(RewardChainSubSlot)
BY FieldsSound, VDFInfoIsSound, PropertiesSound, OptionalOf DEF RewardChainSubSlot

(* SubSlotProofs. *)
LEMMA SubSlotProofsIsSound == Sound(SubSlotProofs)
BY FieldsSound, VDFProofIsSound, PropertiesSound, OptionalOf DEF SubSlotProofs

(* EndOfSubSlotBundle. *)
LEMMA EndOfSubSlotBundleIsSound == Sound(EndOfSubSlotBundle)
BY FieldsSound, ChallengeChainSubSlotIsSound, InfusedChallengeChainSubSlotIsSound,
   RewardChainSubSlotIsSound, SubSlotProofsIsSound, PropertiesSound, OptionalOf
   DEF EndOfSubSlotBundle

(* TransactionsInfo. *)
LEMMA TransactionsInfoIsSound == Sound(TransactionsInfo)
BY FieldsSound, CoinIsSound, PropertiesSound, ListSound DEF TransactionsInfo

(* FoliageTransactionBlock. *)
LEMMA FoliageTransactionBlockIsSound == Sound(FoliageTransactionBlock)
BY FieldsSound, PropertiesSound DEF FoliageTransactionBlock

(* FoliageBlockData. *)
LEMMA FoliageBlockDataIsSound == Sound(FoliageBlockData)
BY FieldsSound, PoolTargetIsSound, PropertiesSound, OptionalOf DEF FoliageBlockData

(* Foliage. *)
LEMMA FoliageIsSound == Sound(Foliage)
BY FieldsSound, FoliageBlockDataIsSound, PropertiesSound, OptionalOf DEF Foliage

(* RewardChainBlock. *)
LEMMA RewardChainBlockIsSound == Sound(RewardChainBlock)
BY FieldsSound, ProofOfSpaceIsSound, VDFInfoIsSound, PropertiesSound, OptionalOf
   DEF RewardChainBlock

(* HeaderBlock. *)
LEMMA HeaderBlockIsSound == Sound(HeaderBlock)
BY FieldsSound, EndOfSubSlotBundleIsSound, RewardChainBlockIsSound, VDFProofIsSound,
   FoliageIsSound, FoliageTransactionBlockIsSound, TransactionsInfoIsSound, PropertiesSound,
   ListSound, OptionalOf DEF HeaderBlock

(* Message. *)
LEMMA MessageIsSound == Sound(Message)
BY FieldsSound, PropertiesSound, OptionalOf DEF Message

(* Handshake. *)
LEMMA HandshakeIsSound == Sound(Handshake)
BY FieldsSound, PropertiesSound, TupleSound, ListSound DEF Handshake

(* RequestPuzzleSolution. *)
LEMMA RequestPuzzleSolutionIsSound == Sound(RequestPuzzleSolution)
BY FieldsSound, PropertiesSound DEF RequestPuzzleSolution

(* PuzzleSolutionResponse. *)
LEMMA PuzzleSolutionResponseIsSound == Sound(PuzzleSolutionResponse)
BY FieldsSound, PropertiesSound DEF PuzzleSolutionResponse

(* RespondPuzzleSolution. *)
LEMMA RespondPuzzleSolutionIsSound == Sound(RespondPuzzleSolution)
BY FieldsSound, PuzzleSolutionResponseIsSound DEF RespondPuzzleSolution

(* RejectPuzzleSolution. *)
LEMMA RejectPuzzleSolutionIsSound == Sound(RejectPuzzleSolution)
BY FieldsSound, PropertiesSound DEF RejectPuzzleSolution

(* SendTransaction. *)
LEMMA SendTransactionIsSound == Sound(SendTransaction)
BY FieldsSound, SpendBundleIsSound DEF SendTransaction

(* TransactionAck. *)
LEMMA TransactionAckIsSound == Sound(TransactionAck)
BY FieldsSound, PropertiesSound, OptionalUnbuilt DEF TransactionAck

(* NewPeakWallet. *)
LEMMA NewPeakWalletIsSound == Sound(NewPeakWallet)
BY FieldsSound, PropertiesSound DEF NewPeakWallet

(* RequestBlockHeader. *)
LEMMA RequestBlockHeaderIsSound == Sound(RequestBlockHeader)
BY FieldsSound DEF RequestBlockHeader

(* RespondBlockHeader. *)
LEMMA RespondBlockHeaderIsSound == Sound(RespondBlockHeader)
BY FieldsSound, HeaderBlockIsSound DEF RespondBlockHeader

(* RejectHeaderRequest. *)
LEMMA RejectHeaderRequestIsSound == Sound(RejectHeaderRequest)
BY FieldsSound DEF RejectHeaderRequest

(* RequestRemovals. *)
LEMMA RequestRemovalsIsSound == Sound(RequestRemovals)
BY FieldsSound, PropertiesSound, ListSound, OptionalOf DEF RequestRemovals

(* RespondRemovals. *)
LEMMA RespondRemovalsIsSound == Sound(RespondRemovals)
BY FieldsSound, CoinIsSound, PropertiesSound, TupleSound, ListSound, OptionalOf DEF RespondRemovals

(* RejectRemovalsRequest. *)
LEMMA RejectRemovalsRequestIsSound == Sound(RejectRemovalsRequest)
BY FieldsSound, PropertiesSound DEF RejectRemovalsRequest

(* RequestAdditions. *)
LEMMA RequestAdditionsIsSound == Sound(RequestAdditions)
BY FieldsSound, PropertiesSound, ListSound, OptionalOf DEF RequestAdditions

(* RespondAdditions. *)
LEMMA RespondAdditionsIsSound == Sound(RespondAdditions)
BY FieldsSound, CoinIsSound, PropertiesSound, TupleSound, ListSound, OptionalOf DEF RespondAdditions

(* RejectAdditionsRequest. *)
LEMMA RejectAdditionsRequestIsSound == Sound(RejectAdditionsRequest)
BY FieldsSound, PropertiesSound DEF RejectAdditionsRequest

(* RequestHeaderBlocks. *)
LEMMA RequestHeaderBlocksIsSound == Sound(RequestHeaderBlocks)
BY FieldsSound, PropertiesSound DEF RequestHeaderBlocks

(* RejectHeaderBlocks. *)
LEMMA RejectHeaderBlocksIsSound == Sound(RejectHeaderBlocks)
BY FieldsSound, PropertiesSound DEF RejectHeaderBlocks

(* RespondHeaderBlocks. *)
LEMMA RespondHeaderBlocksIsSound == Sound(RespondHeaderBlocks)
BY FieldsSound, HeaderBlockIsSound, PropertiesSound, ListSound DEF RespondHeaderBlocks

(* CoinState. *)
LEMMA CoinStateIsSound == Sound(CoinState)
BY FieldsSound, CoinIsSound, PropertiesSound, OptionalOf DEF CoinState

(* RegisterForPhUpdates. *)
LEMMA RegisterForPhUpdatesIsSound == Sound(RegisterForPhUpdates)
BY FieldsSound, PropertiesSound, ListSound DEF RegisterForPhUpdates

(* RespondToPhUpdates. *)
LEMMA RespondToPhUpdatesIsSound == Sound(RespondToPhUpdates)
BY FieldsSound, CoinStateIsSound, PropertiesSound, ListSound DEF RespondToPhUpdates

(* RegisterForCoinUpdates. *)
LEMMA RegisterForCoinUpdatesIsSound == Sound(RegisterForCoinUpdates)
BY FieldsSound, PropertiesSound, ListSound DEF RegisterForCoinUpdates

(* RespondToCoinUpdates. *)
LEMMA RespondToCoinUpdatesIsSound == Sound(RespondToCoinUpdates)
BY FieldsSound, CoinStateIsSound, PropertiesSound, ListSound DEF RespondToCoinUpdates

(* CoinStateUpdate. *)
LEMMA CoinStateUpdateIsSound == Sound(CoinStateUpdate)
BY FieldsSound, CoinStateIsSound, PropertiesSound, ListSound DEF CoinStateUpdate

(* RequestChildren. *)
LEMMA RequestChildrenIsSound == Sound(RequestChildren)
BY FieldsSound DEF RequestChildren

(* RespondChildren. *)
LEMMA RespondChildrenIsSound == Sound(RespondChildren)
BY FieldsSound, CoinStateIsSound, ListSound DEF RespondChildren

(* RequestSESInfo. *)
LEMMA RequestSESInfoIsSound == Sound(RequestSESInfo)
BY FieldsSound, PropertiesSound DEF RequestSESInfo

(* RespondSESInfo. *)
LEMMA RespondSESInfoIsSound == Sound(RespondSESInfo)
BY FieldsSound, PropertiesSound, ListSound DEF RespondSESInfo
=============================================================================
