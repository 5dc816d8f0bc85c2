------------------------------- MODULE Currying -------------------------------
(***************************************************************************)
(* SExpUtil.curry and uncurry (src/util/sexp/index.ts).  A program is      *)
(* [atom |-> bytes] or [first |-> program, rest |-> program].  An          *)
(* exception of uncurry, for a module that starts with a pair in a pair,   *)
(* is Unreadable.                                                          *)
(***************************************************************************)
EXTENDS Integers, Sequences

CONSTANTS
    NoMatch,      \* the null of uncurry
    Unreadable,   \* an exception
    MaxRounds     \* bound: elements of a list, arguments of a program

Atom(bytes) == [atom |-> bytes]
Pair(first, rest) == [first |-> first, rest |-> rest]
IsPair(x) == "first" \in DOMAIN x
ListOf3(x, y, z) == Pair(x, Pair(y, Pair(z, Atom(<<>>))))

q == Atom(<<1>>)
a == Atom(<<2>>)
c == Atom(<<4>>)

(* (a (q . program) (c (q . arg) ... 1)), by CURRY_PROGRAM. *)
fixCurryArgs(args) ==
    LET from[k \in 0..Len(args)] ==
            IF k = 0 THEN q ELSE ListOf3(c, Pair(q, args[Len(args) + 1 - k]), from[k - 1])
    IN  from[Len(args)]
curry(program, args) == ListOf3(a, Pair(q, program), fixCurryArgs(args))

-----------------------------------------------------------------------------
(* as_iter: the elements up to an end that is no pair, and that end; it     *)
(* throws unless the end is nil.                                            *)
as_iter(x) ==
    LET after[k \in 0..MaxRounds] ==
            IF k = 0 THEN << <<>>, x >>
            ELSE LET s == after[k - 1]
                 IN  IF IsPair(s[2]) THEN << Append(s[1], s[2].first), s[2].rest >> ELSE s
    IN  after[MaxRounds]
Elements(x) == as_iter(x)[1]
IsProper(x) == as_iter(x)[2] = Atom(<<>>)

IsQuote(x) == IsPair(x) /\ x.first = q

(* _matchQuotedProgram. *)
matchQuotedProgram(x) == IF IsQuote(x) /\ IsPair(x.rest) THEN x.rest ELSE NoMatch

(* What _matchQuotedAtom and _matchQuotedProgram find quoted. *)
PairsOnly(x) == IF IsQuote(x) /\ IsPair(x.rest) THEN << x.rest >> ELSE <<>>
Quoted(x) == IF IsQuote(x) THEN << x.rest >> ELSE <<>>

(* _matchCurriedArgsHelper, with the arguments found so far and the program *)
(* that is left: it ends with an atom, with something that is not quoted, or*)
(* without any argument when something is not as it takes for granted.      *)
Ends(found) == << found, Atom(<<>>) >>
matchCurriedArgsHelper(found, left) ==
    LET elements == Elements(left)
    IN  IF ~IsPair(left) THEN Ends(found)
        ELSE IF ~IsProper(left) \/ Len(elements) < 2 THEN Ends(<<>>)
        ELSE IF ~IsPair(elements[2]) THEN Ends(<<>>)
        ELSE IF IsPair(elements[2].first) THEN Ends(<<>>)
        ELSE IF Quoted(elements[2]) = <<>> THEN Ends(found)
        ELSE IF Len(elements) < 3 THEN Ends(<<>>)
        ELSE << found \o Quoted(elements[2]), elements[3] >>

matchCurriedArgs(x) ==
    LET after[k \in 0..MaxRounds] ==
            IF k = 0 THEN << <<>>, x >>
            ELSE LET s == after[k - 1] IN matchCurriedArgsHelper(s[1], s[2])
    IN  after[MaxRounds][1]

uncurry(program) ==
    LET elements == Elements(program)
        module == matchQuotedProgram(elements[2])
        args == matchCurriedArgs(elements[3])
    IN  IF Len(elements) # 3 THEN NoMatch
        ELSE IF elements[1] # a THEN NoMatch
        ELSE IF IsPair(elements[2]) /\ IsPair(elements[2].first) THEN Unreadable
        ELSE IF module = NoMatch \/ args = <<>> THEN NoMatch
        ELSE << module, args >>
=============================================================================
