------------------------------ MODULE Serializer ------------------------------
(***************************************************************************)
(* Serializer and its fields (src/util/serializer/serializer.ts,           *)
(* types/fields/...).  A field is what its builder returns: a serializer,  *)
(* here with the set of the values the field may have, and with its kind   *)
(* and parts.  serialize gives the bytes the field appends to a buffer,    *)
(* deserialize the value and what it leaves of the buffer, or Refused.     *)
(*                                                                         *)
(* A buffer is a sequence of bytes.  An integer is the bytes of its        *)
(* hexadecimal form, with no more leading zeros than that has; bytes are   *)
(* themselves; a string is its bytes, all of them ASCII.                   *)
(***************************************************************************)
EXTENDS Integers, Sequences, SequencesExt

CONSTANTS
    Null,          \* the null of an Optional
    SExps,         \* the S-expressions that are sent
    sexpToStream   \* sexpToStream[x]: the bytes clvm writes for x

Byte == 0..255

(* A stream tells where it ends: no other starts with it. *)
ASSUME StreamAssumption ==
    /\ sexpToStream \in [SExps -> Seq(Byte) \ {<<>>}]
    /\ \A x, y \in SExps : IsPrefix(sexpToStream[x], sexpToStream[y]) => x = y

(* A deserializer threw: there is no result. *)
Refused == <<>>

-----------------------------------------------------------------------------
Zeros(n) == [i \in 1..n |-> 0]
IsUInt32(n) == n \div 16777216 \in Byte
writeUInt32BE(n) == << n \div 16777216, (n \div 65536) % 256, (n \div 256) % 256, n % 256 >>
readUInt32BE(b) == ((b[1] * 256 + b[2]) * 256 + b[3]) * 256 + b[4]

slice(buf, n) == SubSeq(buf, n + 1, Len(buf))

(* Without the test of the length of what is left. *)
TakesWhatIsThere(buf, n) == << SubSeq(buf, 1, IF n < Len(buf) THEN n ELSE Len(buf)), slice(buf, n) >>
Take(buf, n) == IF Len(buf) < n THEN Refused ELSE << SubSeq(buf, 1, n), slice(buf, n) >>

(* _matchSize: cut or filled up with zeros. *)
matchSize(b, n) == IF Len(b) > n THEN SubSeq(b, 1, n) ELSE b \o Zeros(n - Len(b))

(* Left-padded; a longer integer is written in full. *)
padStart(b, n) == IF Len(b) < n THEN Zeros(n - Len(b)) \o b ELSE b

(* An integer without its leading zeros; 0 keeps one. *)
TrimZeros(b) ==
    LET significant == {i \in 1..Len(b) : b[i] # 0}
        first == CHOOSE i \in significant : \A k \in significant : i <= k
    IN  IF significant = {} THEN <<0>> ELSE SubSeq(b, first, Len(b))

(* A byte that is 0 or 1. *)
StartsWithFlag(buf) == buf # <<>> /\ buf[1] <= 1

-----------------------------------------------------------------------------
(* The fields of types/fields. *)

Boolean ==
    [kind |-> "Boolean", values |-> BOOLEAN,
     serialize |-> [v \in BOOLEAN |-> IF v THEN <<1>> ELSE <<0>>],
     deserialize |-> [buf \in Seq(Byte) |->
         IF StartsWithFlag(buf) THEN << buf[1] > 0, slice(buf, 1) >> ELSE Refused]]

Bytes(size) ==
    [kind |-> "Bytes", size |-> size, values |-> [1..size -> Byte],
     serialize |-> [v \in [1..size -> Byte] |-> matchSize(v, size)],
     deserialize |-> [buf \in Seq(Byte) |-> Take(buf, size)]]

(* Bytes without a size, and String. *)
Blob ==
    LET values == {s \in Seq(Byte) : IsUInt32(Len(s))}
    IN  [kind |-> "Blob", values |-> values,
         serialize |-> [v \in values |-> writeUInt32BE(Len(v)) \o v],
         deserialize |-> [buf \in Seq(Byte) |->
             IF Len(buf) < 4 THEN Refused ELSE Take(slice(buf, 4), readUInt32BE(buf))]]
String == Blob

Uint(bits) ==
    LET size == bits \div 8
        values == {b \in Seq(Byte) : Len(b) \in 1..size /\ (Len(b) = 1 \/ b[1] # 0)}
    IN  [kind |-> "Uint", size |-> size, values |-> values,
         serialize |-> [v \in values |-> padStart(v, size)],
         deserialize |-> [buf \in Seq(Byte) |->
             LET r == Take(buf, size)
             IN  IF r = Refused THEN Refused ELSE << TrimZeros(r[1]), r[2] >>]]

(* clvm reads the S-expression whose stream comes first; what is left is    *)
(* found by the length of its stream.                                       *)
SExp ==
    [kind |-> "SExp", values |-> SExps,
     serialize |-> sexpToStream,
     deserialize |-> [buf \in Seq(Byte) |->
         LET read == {x \in SExps : IsPrefix(sexpToStream[x], buf)}
             x == CHOOSE x \in read : TRUE
         IN  IF read = {} THEN Refused ELSE << x, slice(buf, Len(sexpToStream[x])) >>]]

(* A decorator that was not called has no serializer. *)
Unbuilt == [kind |-> "Unbuilt"]
IsBuilt(field) == "serialize" \in DOMAIN field

Optional(field) ==
    LET values == {Null} \cup IF IsBuilt(field) THEN field.values ELSE {}
    IN  [kind |-> "Optional", field |-> field, values |-> values,
         serialize |-> [v \in values |->
             IF v = Null \/ ~IsBuilt(field) THEN <<0>> ELSE <<1>> \o field.serialize[v]],
         deserialize |-> [buf \in Seq(Byte) |->
             IF ~StartsWithFlag(buf) THEN Refused
             ELSE IF buf[1] = 0 \/ ~IsBuilt(field) THEN << Null, slice(buf, 1) >>
             ELSE field.deserialize[slice(buf, 1)]]]

(* The elements one after the other, each from what the last one left. *)
InTurn(field, size, buf) ==
    LET read[i \in 0..size] ==
            IF i = 0 THEN << <<>>, buf >>
            ELSE LET before == read[i - 1]
                     r == field.deserialize[before[2]]
                 IN  IF before = Refused THEN Refused
                     ELSE IF r = Refused THEN Refused
                     ELSE IF r[2] = <<>> /\ i # size THEN Refused
                     ELSE << Append(before[1], r[1]), r[2] >>
    IN  read[size]

List(field) ==
    LET values == {s \in Seq(field.values) : IsUInt32(Len(s))}
    IN  [kind |-> "List", field |-> field, values |-> values,
         serialize |-> [v \in values |->
             writeUInt32BE(Len(v)) \o FlattenSeq([i \in 1..Len(v) |-> field.serialize[v[i]]])],
         deserialize |-> [buf \in Seq(Byte) |->
             IF Len(buf) < 4 THEN Refused ELSE InTurn(field, readUInt32BE(buf), slice(buf, 4))]]

(* The properties of an object, one after the other: a ++ b ++ c has those  *)
(* of a, b and c.  Its value is << << v, w >>, x >>, v being that of a.     *)
Properties(a, b) ==
    LET values == a.values \X b.values
    IN  [kind |-> "Properties", first |-> a, second |-> b, values |-> values,
         serialize |-> [v \in values |-> a.serialize[v[1]] \o b.serialize[v[2]]],
         deserialize |-> [buf \in Seq(Byte) |->
             LET r == a.deserialize[buf]
                 s == b.deserialize[r[2]]
             IN  IF r = Refused THEN Refused
                 ELSE IF s = Refused THEN Refused
                 ELSE << << r[1], s[1] >>, s[2] >>]]
a ++ b == Properties(a, b)

(* The elements of a tuple.  A tuple refuses a buffer that ends between     *)
(* two of them.                                                             *)
Tuple(a, b) ==
    LET joined == a ++ b
    IN  [kind |-> "Properties", first |-> a, second |-> b,
         values |-> joined.values, serialize |-> joined.serialize,
         deserialize |-> [buf \in Seq(Byte) |->
             LET r == a.deserialize[buf]
             IN  IF r # Refused /\ r[2] = <<>> THEN Refused ELSE joined.deserialize[buf]]]
a ** b == Tuple(a, b)
=============================================================================
