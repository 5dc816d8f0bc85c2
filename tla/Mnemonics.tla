------------------------------- MODULE Mnemonics -------------------------------
(***************************************************************************)
(* MnemonicUtils.bytesToMnemonic and bytesFromMnemonic                     *)
(* (src/util/key/mnemonic.ts).  Bytes are the sequence of their bits, a    *)
(* word is its position in BIP39_WORD_LIST, which lists 2048 words.        *)
(***************************************************************************)
EXTENDS Integers, Sequences, SequencesExt

CONSTANTS
    StdHash(_),   \* the bits of the SHA-256 of some bytes
    Failure       \* what an exception leaves in place of a result

(* No word is listed twice. *)
BIP39_WORD_LIST == 0..2047

(* The eleven bits of a word, and the word they are. *)
Weights == << 1024, 512, 256, 128, 64, 32, 16, 8, 4, 2, 1 >>
BitsOf(word) == [i \in 1..11 |-> (word \div Weights[i]) % 2]
WordOf(b) ==
    1024 * b[1] + 512 * b[2] + 256 * b[3] + 128 * b[4] + 64 * b[5] + 32 * b[6] + 16 * b[7]
        + 8 * b[8] + 4 * b[9] + 2 * b[10] + b[11]

FirstBits(bits, n) == SubSeq(bits, 1, n)
LastBits(bits, n) == SubSeq(bits, Len(bits) - n + 1, Len(bits))

bytesToMnemonic(entropy) ==
    LET bits == entropy \o FirstBits(StdHash(entropy), Len(entropy) \div 32)
    IN  IF Len(entropy) \div 8 \notin {16, 20, 24, 28, 32} THEN Failure
        ELSE [i \in 1..(Len(bits) \div 11) |-> WordOf(SubSeq(bits, 11 * i - 10, 11 * i))]

bytesFromMnemonic(mnemonic) ==
    LET bits == FlattenSeq([i \in 1..Len(mnemonic) |-> BitsOf(mnemonic[i])])
        CS == Len(mnemonic) \div 3
        entropy == SubSeq(bits, 1, Len(bits) - CS)
    IN  IF Len(mnemonic) \notin {12, 15, 18, 21, 24} THEN Failure
        ELSE IF \E i \in 1..Len(mnemonic) : mnemonic[i] \notin BIP39_WORD_LIST THEN Failure
        ELSE IF FirstBits(StdHash(entropy), CS) # LastBits(bits, CS) THEN Failure
        ELSE entropy
=============================================================================
