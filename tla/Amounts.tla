-------------------------------- MODULE Amounts --------------------------------
(***************************************************************************)
(* CoinUtil.amountToBytes (src/util/coin.ts), which decides what is hashed *)
(* to a coin's id, and Util.formatToken and parseToken (src/util/index.ts).*)
(*                                                                         *)
(* Two hexadecimal digits are a byte, a text is a sequence of digits and   *)
(* other characters.                                                       *)
(***************************************************************************)
EXTENDS Integers, Sequences

CONSTANTS
    Dot,     \* the character "."
    Threw    \* what an exception leaves in place of a result

(* The digits of a number, most significant first, and back. *)
Digits(n, base) ==
    LET f[k \in 0..n] == IF k < base THEN << k >> ELSE Append(f[k \div base], k % base)
    IN  f[n]
Number(digits, base) ==
    LET v[k \in 0..Len(digits)] == IF k = 0 THEN 0 ELSE v[k - 1] * base + digits[k]
    IN  v[Len(digits)]
Power(base, n) ==
    LET p[k \in 0..n] == IF k = 0 THEN 1 ELSE base * p[k - 1]
    IN  p[n]

(* BigNumber.toHexString: bytes, most significant first, of the absolute    *)
(* value.                                                                   *)
toHex(n) == Digits(IF n < 0 THEN -n ELSE n, 256)

(* Shorter than the value it was complemented from: filled up with zeros.   *)
Unpadded(bytes, n) == bytes
Padded(bytes, n) == [i \in 1..(n - Len(bytes)) |-> 0] \o bytes

amountToBytes(amount) ==
    LET size == Len(toHex(amount))
        bytes == IF amount < 0 THEN Padded(toHex(Power(256, size) + amount), size) ELSE toHex(amount)
    IN  IF amount = 0 THEN <<>>
        ELSE IF amount < 0 /\ bytes[1] < 128 THEN << 255 >> \o bytes
        ELSE IF amount > 0 /\ bytes[1] >= 128 THEN << 0 >> \o bytes
        ELSE bytes

-----------------------------------------------------------------------------
Repeat(d, n) == [i \in 1..n |-> d]

(* How many decimals a unit has. *)
decimals(amountPerUnit) == Len(Digits(amountPerUnit, 10)) - 1

TrimmedToNothing(s) ==
    LET kept == {i \in 1..Len(s) : \E k \in i..Len(s) : s[k] # 0}
    IN  SubSeq(s, 1, CHOOSE n \in {0} \cup kept : \A k \in kept : k <= n)
(* Without its trailing zeros, but for a first digit. *)
Trimmed(s) ==
    LET kept == {i \in 1..Len(s) : i = 1 \/ \E k \in i..Len(s) : s[k] # 0}
    IN  SubSeq(s, 1, CHOOSE n \in kept : \A k \in kept : k <= n)

formatToken(amount, amountPerUnit) ==
    LET unit == IF amountPerUnit = 0 THEN 1 ELSE amountPerUnit
        rest == Digits(amount % unit, 10)
        missing == decimals(unit) - Len(rest)
    IN  Digits(amount \div unit, 10) \o << Dot >>
            \o Trimmed((IF missing > 0 THEN Repeat(0, missing) ELSE <<>>) \o rest)

(* BigNumber.from throws on an empty string. *)
BigNumberFrom(s) == IF s = <<>> THEN Threw ELSE Number(s, 10)

(* Decimals that are more than a unit. *)
NoLimit(amountAfterDot, amountPerUnit) == FALSE
ExceedsUnit(amountAfterDot, amountPerUnit) == amountAfterDot > amountPerUnit

(* More decimals than the unit has are read as if they were that many.      *)
parseToken(s, amountPerUnit) ==
    LET dots == {i \in 1..Len(s) : s[i] = Dot}
        dot == CHOOSE i \in dots : TRUE
        whole == SubSeq(s, 1, dot - 1)
        after == SubSeq(s, dot + 1, Len(s))
        missing == decimals(amountPerUnit) - Len(after)
        amountAfterDot == BigNumberFrom(after \o (IF missing > 0 THEN Repeat(0, missing) ELSE <<>>))
    IN  IF \E i \in 1..Len(s) : s[i] \notin {Dot} \cup 0..9 THEN Threw
        ELSE IF dots = {} THEN (IF s = <<>> THEN Threw ELSE Number(s, 10) * amountPerUnit)
        ELSE IF \E i \in dots : i # dot THEN Threw
        ELSE IF whole = <<>> \/ amountAfterDot = Threw THEN Threw
        ELSE IF ExceedsUnit(amountAfterDot, amountPerUnit) THEN Threw
        ELSE Number(whole, 10) * amountPerUnit + amountAfterDot
=============================================================================
