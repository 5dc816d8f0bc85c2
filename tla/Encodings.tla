------------------------------- MODULE Encodings -------------------------------
(***************************************************************************)
(* Everything the library writes in another form and reads back: objects   *)
(* and messages as bytes, amounts as atoms, amounts as texts, entropies as *)
(* phrases, curried programs.  A value is encoded, what comes out may be   *)
(* damaged on its way (a frame cut short by the end of a connection, a     *)
(* text typed by a user, a phrase copied by hand), and is then decoded.    *)
(***************************************************************************)
EXTENDS WalletTypes, Amounts, Mnemonics, Currying

CONSTANTS
    Objects,      \* Objects[name]: the objects of a class that are written
    Types,        \* some message types
    Errors,       \* texts of the error of an acknowledgement
    MaxCuts,      \* how many bytes at each end of an encoding a cut may leave or take
    AmountsTried, \* amounts of coins, negative ones among them
    Units,        \* amounts per unit, powers of ten
    Tokens,       \* amounts of tokens
    Texts,        \* what a user may type as an amount
    Entropies,    \* bits
    Words,        \* what a word of a phrase may be replaced by
    Programs,     \* programs to curry
    Arguments     \* the lists of arguments

ASSUME ObjectsAssumption ==
    /\ \A name \in DOMAIN Class : Objects[name] \subseteq Class[name].values
    /\ Types \subseteq Byte
    /\ Errors \subseteq String.values
ASSUME AmountsAssumption ==
    /\ AmountsTried \subseteq Int
    /\ Tokens \subseteq Nat
    /\ \A unit \in Units : unit \in Nat \ {0} /\ unit = Power(10, decimals(unit))
    /\ \A text \in Texts : text \in Seq(ToSet(text))
    /\ Dot \notin 0..9 /\ Threw \notin Int
(* An entropy is some bytes, and a hash is longer than any checksum.       *)
ASSUME EntropiesAssumption ==
    \A e \in Entropies :
        /\ e \in Seq({0, 1}) /\ Len(e) % 8 = 0
        /\ StdHash(e) \in Seq({0, 1}) /\ Len(StdHash(e)) >= 8
(* The bound stops no list of a curried program. *)
ASSUME ProgramsAssumption ==
    /\ MaxRounds \in Nat /\ MaxRounds >= 3
    /\ NoMatch \notin Programs
    /\ \A args \in Arguments : args \in Seq(ToSet(args)) /\ Len(args) <= MaxRounds

VARIABLES
    given,     \* what was encoded, and by what
    encoded,   \* the encoding, as it is now
    decoded    \* what was made of it

vars == << given, encoded, decoded >>

Nothing == [codec |-> "none"]
Damaged == given.damage # "none"

(* realMessageLength of ChiaMessageChannel.messageHandler. *)
realMessageLength(buf) ==
    IF buf[2] # 0 THEN readUInt32BE(slice(buf, 4)) + 8 ELSE readUInt32BE(slice(buf, 2)) + 6

-----------------------------------------------------------------------------
Init == given = Nothing /\ encoded = Null /\ decoded = Null

Encode(codec, value, by, result) ==
    /\ given = Nothing
    /\ given' = [codec |-> codec, value |-> value, by |-> by, damage |-> "none"]
    /\ encoded' = result
    /\ UNCHANGED decoded

WriteObject == \E name \in DOMAIN Class : \E object \in Objects[name] :
    Encode("object", object, name, Class[name].serialize[object])

(* No object has the 4 GB that would not fit into a frame. *)
WriteMessage == \E name \in DOMAIN Class, type \in Types : \E object \in Objects[name] :
    /\ Envelope(type, Class[name], object) \in Message.values
    /\ Encode("object", Envelope(type, Class[name], object), "Message",
              makeMsg(type, Class[name], object))

(* A TransactionAck as it is declared, and as a node sends it: its error is *)
(* null or a text.                                                          *)
NodesTransactionAck == Bytes(32) ++ Uint(8) ++ Optional(String)
ReceiveAck == \E ack \in Objects["TransactionAck"], error \in Errors :
    LET sent == << ack[1], error >>
    IN  Encode("ack", sent, "TransactionAck", NodesTransactionAck.serialize[sent])

WriteAmount == \E n \in AmountsTried : Encode("amount", n, Null, amountToBytes(n))
FormatToken == \E n \in Tokens, unit \in Units : Encode("token", n, unit, formatToken(n, unit))
TypeToken == \E text \in Texts, unit \in Units : Encode("text", text, unit, text)
WritePhrase == \E e \in Entropies : Encode("phrase", e, Null, bytesToMnemonic(e))
Curry == \E p \in Programs, args \in Arguments : Encode("curried", p, args, curry(p, args))

Spoil(damage, result) ==
    /\ decoded = Null
    /\ ~Damaged
    /\ given' = [given EXCEPT !.damage = damage]
    /\ encoded' = result
    /\ UNCHANGED decoded

(* The end of a frame is lost. *)
Cut ==
    /\ given.codec = "object"
    /\ \E n \in 0..(Len(encoded) - 1) :
          /\ n <= MaxCuts \/ Len(encoded) - n <= MaxCuts
          /\ Spoil("cut", SubSeq(encoded, 1, n))

(* The peer is newer, and adds a field to the class. *)
Extend == given.codec = "object" /\ \E b \in {0, 255} : Spoil("extended", Append(encoded, b))

(* A word is replaced, or left out. *)
MistakeWord ==
    /\ given.codec = "phrase"
    /\ encoded # Failure
    /\ \E i \in 1..Len(encoded) :
          \/ \E w \in Words \ {encoded[i]} : Spoil("copied", [encoded EXCEPT ![i] = w])
          \/ Spoil("copied", RemoveAt(encoded, i))

(* deserialize ignores what is left of its buffer. *)
Decode ==
    /\ given # Nothing
    /\ given.codec # "amount"
    /\ encoded # Failure
    /\ decoded = Null
    /\ decoded' =
          CASE given.codec \in {"object", "ack"} ->
                 LET r == Class[given.by].deserialize[encoded]
                 IN  IF r = Refused THEN Refused ELSE r[1]
            [] given.codec \in {"token", "text"} -> parseToken(encoded, given.by)
            [] given.codec = "phrase" -> bytesFromMnemonic(encoded)
            [] given.codec = "curried" -> uncurry(encoded)
    /\ UNCHANGED << given, encoded >>

Next ==
    \/ WriteObject \/ WriteMessage \/ ReceiveAck \/ WriteAmount \/ FormatToken \/ TypeToken
    \/ WritePhrase \/ Curry
    \/ Cut \/ Extend \/ MistakeWord
    \/ Decode

Spec == Init /\ [][Next]_vars

-----------------------------------------------------------------------------
(* What Serializer.serialize writes, deserialize reads back as it was, for  *)
(* the values of every class in WalletTypes (strings of one byte a          *)
(* character, a TransactionAck without error, the only one it can write)    *)
(* and through every list, tuple and null, also when a newer peer wrote     *)
(* more after it; of a buffer that lacks its end it reads nothing: no field *)
(* takes less than it needs.  A message is as long as the channel, which    *)
(* looks only at the bytes of its header, takes it to be.  Of a node's      *)
(* TransactionAck with an error, the error is lost and no more than that.   *)
DecodesOrRefuses ==
    /\ given.codec = "object" /\ decoded # Null =>
          decoded = IF given.damage = "cut" THEN Refused ELSE given.value
    /\ given.codec = "object" /\ given.by = "Message" /\ ~Damaged =>
          realMessageLength(encoded) = Len(encoded)
    /\ given.codec = "ack" /\ decoded # Null => decoded = << given.value[1], Null >>

(* The integer that bytes are the two's complement of. *)
Complement(bytes) ==
    IF bytes # <<>> /\ bytes[1] >= 128
    THEN -Number([i \in 1..Len(bytes) |-> 255 - bytes[i]], 256) - 1
    ELSE Number(bytes, 256)
(* n < 128 * 256 ^ (size - 1), or -n - 1 for a negative n. *)
Fits(n, size) ==
    IF size = 0 THEN n = 0 ELSE (IF n < 0 THEN -n - 1 ELSE n) \div 128 < Power(256, size - 1)

(* The bytes of an amount that CoinUtil.getId hashes are the atom the       *)
(* puzzles see: its two's complement, in no more bytes than that takes.     *)
(* One zero byte more or less names a coin that does not exist.             *)
AmountsAreCanonical ==
    given.codec = "amount" =>
        LET size == Len(encoded)
        IN  /\ \A i \in 1..size : encoded[i] \in 0..255
            /\ Complement(encoded) = given.value
            /\ Fits(given.value, size)
            /\ size > 0 => ~Fits(given.value, size - 1)

(* A text with another character, two dots, or no digit before the dot is   *)
(* refused; digits, or digits with a dot, one decimal or more and at most   *)
(* the unit's, are read as exactly that many units.  Of any other number of *)
(* decimals, what is not refused keeps its whole units, and its decimals    *)
(* are at most one unit.                                                    *)
ReadInUnits(s, unit, result) ==
    LET places == decimals(unit)
        dots == {i \in 1..Len(s) : s[i] = Dot}
        dot == CHOOSE i \in 1..(Len(s) + 1) :
                  IF dots = {} THEN i = Len(s) + 1 ELSE i \in dots
        after == SubSeq(s, dot + 1, Len(s))
        whole == Number(SubSeq(s, 1, dot - 1), 10) * unit
        malformed == \/ \E i \in 1..Len(s) : s[i] \notin 0..9 \cup {Dot}
                     \/ Cardinality(dots) > 1
                     \/ dot = 1
    IN  IF malformed THEN result = Threw
        ELSE IF dots = {} \/ Len(after) \in 1..places
        THEN result = whole + Number(after, 10) * Power(10, places - Len(after))
        ELSE result = Threw \/ (whole <= result /\ result <= whole + unit)

(* What formatToken writes, parseToken reads as the same amount; of what a  *)
(* user types, digits with no more decimals than the unit has are read      *)
(* exactly, and a malformed text is refused.  A text with more decimals is  *)
(* not exact ("5.05" is 55 where a unit is 10): the check of the decimals   *)
(* against the unit keeps it from being off by more than one unit.          *)
TokensAreExact ==
    decoded # Null =>
        /\ given.codec = "token" => decoded = given.value
        /\ given.codec = "text" => ReadInUnits(given.value, given.by, decoded)

(* A phrase gives back the entropy it was made from, and a phrase that was  *)
(* copied wrongly is refused, unless it is the very phrase of the entropy   *)
(* it is read as: the checksum is never skipped or compared with less than  *)
(* its bits.                                                                *)
PhrasesRoundTrip ==
    given.codec = "phrase" /\ decoded # Null =>
        IF Damaged THEN decoded = Failure \/ bytesToMnemonic(decoded) = encoded
        ELSE decoded = given.value

(* uncurry finds the module and all the arguments that curry put together,  *)
(* whatever they are; it gives null when the module is an atom or when      *)
(* there are no arguments.                                                  *)
UncurryInverts ==
    given.codec = "curried" /\ decoded # Null =>
        decoded = IF IsPair(given.value) /\ given.by # <<>>
                  THEN << given.value, given.by >> ELSE NoMatch
=============================================================================
