------------------------------ MODULE MCEncodings ------------------------------
(* Values for the encodings: the classes that are sent or received whole    *)
(* (they reach all the others), amounts around the powers of two that       *)
(* change the number of bytes, short texts, an entropy of each length and   *)
(* one of a wrong length, and programs that look like curried ones.         *)
EXTENDS Encodings

CONSTANT Letter

SomeSExps ==
    << Atom(<<>>), Atom(<< 200, 7 >>), Pair(Atom(<< 5 >>), Pair(Atom(<< 128 >>), Atom(<<>>))) >>

(* A value of a field; k tells the samples apart. *)
RECURSIVE Sample(_, _)
Sample(field, k) ==
    CASE field.kind = "Boolean" -> k % 2 = 1
      [] field.kind = "Bytes" -> [i \in 1..field.size |-> (37 * k + i) % 256]
      [] field.kind = "Blob" -> [i \in 1..k |-> 48 + i]
      [] field.kind = "SExp" -> SomeSExps[k + 1]
      [] field.kind = "Uint" ->
           IF k = 0 THEN << 0 >>
           ELSE IF k = 1 THEN << 128 >>
           ELSE [i \in 1..field.size |-> 255]
      [] field.kind = "List" -> [i \in 1..k |-> Sample(field.field, (k + i) % 3)]
      [] field.kind = "Optional" ->
           IF k = 0 \/ ~IsBuilt(field.field) THEN Null ELSE Sample(field.field, k)
      [] field.kind = "Properties" -> << Sample(field.first, (k + 1) % 3), Sample(field.second, (k + 2) % 3) >>

SampleObjects == [name \in DOMAIN Class |-> {Sample(Class[name], k) : k \in 0..2}]

SomeErrors == { <<>>, << 69, 82, 82 >> }

(* The streams of clvm, for atoms of up to 63 bytes. *)
RECURSIVE StreamOf(_)
StreamOf(x) ==
    IF IsPair(x) THEN << 255 >> \o StreamOf(x.first) \o StreamOf(x.rest)
    ELSE IF x.atom = <<>> THEN << 128 >>
    ELSE IF Len(x.atom) = 1 /\ x.atom[1] < 128 THEN x.atom
    ELSE << 128 + Len(x.atom) >> \o x.atom

SampleSExps == ToSet(SomeSExps)
SampleStreams == [x \in SampleSExps |-> StreamOf(x)]

Near(n) == {n - 2, n - 1, n, n + 1, n + 2}
SomeAmounts ==
    UNION { Near(n) \cup Near(-n) : n \in {0, 128, 256, 32768, 65536, 8388608} } \cup Near(16777216)

SomeTexts == UNION { [1..n -> {0, 5, Dot, Letter}] : n \in 0..4 }

(* Bits that depend on every byte of the data and on its place. *)
Hash(bits) ==
    LET weigh(i) == (2 * i + 1) * WordOf(<< 0, 0, 0 >> \o SubSeq(bits, 8 * i - 7, 8 * i))
        sum == SumSet({weigh(i) * 40 + i : i \in 1..(Len(bits) \div 8)}) % 251
    IN  SubSeq(BitsOf(sum), 4, 11)

SomeEntropies ==
    { [i \in 1..(8 * n) |-> IF (i * m) % 7 < 3 THEN 1 ELSE 0] :
          n \in {16, 17, 20, 24, 28, 32}, m \in 1..2 }

SomePrograms == { Atom(<< 1 >>), Pair(Atom(<< 2 >>), Atom(<<>>)), curry(Pair(q, q), << q >>) }
SomeArgs == { Atom(<<>>), Atom(<< 1 >>), Pair(q, Atom(<< 9 >>)), Pair(c, Pair(q, Atom(<<>>))) }
SomeArguments == UNION { [1..n -> SomeArgs] : n \in 0..3 }
=============================================================================
