-------------------------------- MODULE Hex ---------------------------------
(***************************************************************************)
(* Keys and signatures as text (src/src/sign.rs): the hexadecimal form     *)
(* they are written in, its reading, and the comparison of two keys by     *)
(* their texts.  A text is a sequence of byte values, without the white    *)
(* space at its ends that every reader here trims.                         *)
(***************************************************************************)
EXTENDS Integers, Sequences

CONSTANT Points     \* the byte strings that encode a point of the curve

Byte == 0..255
KeyBytes == 32

ASSUME PointsAssumption ==
    \A point \in Points : point \in Seq(Byte) /\ Len(point) = KeyBytes

NoDigit == 255

HexDigit(v) == IF v < 10 THEN 48 + v ELSE 97 + (v - 10)

HexVal(c) ==
    IF c \in 48..57 THEN c - 48
    ELSE IF c \in 97..102 THEN c - 97 + 10
    ELSE IF c \in 65..70 THEN c - 65 + 10
    ELSE NoDigit

\* to_hex writes two digits, the high one first, for every byte.
ToHex(bytes) ==
    [i \in 1..(2 * Len(bytes)) |->
        HexDigit(IF i % 2 = 1 THEN bytes[(i + 1) \div 2] \div 16 ELSE bytes[i \div 2] % 16)]

\* The texts from_hex does not refuse.
IsHex(text) == Len(text) % 2 = 0 /\ \A i \in 1..Len(text) : HexVal(text[i]) # NoDigit

FromHex(text) ==
    [k \in 1..(Len(text) \div 2) |-> 16 * HexVal(text[2 * k - 1]) + HexVal(text[2 * k])]

\* from_private_hex takes any 32 bytes, no more or less; verifying_key_from_hex
\* those that are a point of the curve.
IsPrivateText(text) == IsHex(text) /\ Len(FromHex(text)) = KeyBytes
IsPublicText(text) == IsPrivateText(text) /\ FromHex(text) \in Points

Lower(c) == IF c \in 65..90 THEN c + 32 ELSE c

\* keys_equal.
KeysEqual(a, b) ==
    Len(a) = Len(b) /\ \A i \in 1..Len(a) : Lower(a[i]) = Lower(b[i])

=============================================================================
