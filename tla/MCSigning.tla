----------------------------- MODULE MCSigning -----------------------------
EXTENDS Signing, Hex, SequencesExt, TLC

ProcSymmetry == Permutations(Procs)

\* Texts of up to two bytes: the first and the last digits, of both cases,
\* and the characters next to them.
Texts == BoundedSeq({47, 48, 57, 58, 64, 65, 70, 71, 96, 97, 102, 103}, 2)
            \union [1..4 -> {48, 65, 70, 97, 102}]
Values == BoundedSeq({0, 9, 10, 15, 16, 159, 160, 255}, 3)

\* The base point of the curve.
MCPoints == {[i \in 1..32 |-> IF i = 1 THEN 88 ELSE 102]}

\* What SigningProofs proves of every text.
ASSUME HexOnSmallTexts ==
    /\ \A point \in Points : IsPublicText(ToHex(point))
    /\ \A bytes \in Values : IsHex(ToHex(bytes)) /\ FromHex(ToHex(bytes)) = bytes
    /\ \A a \in Texts : IsHex(a) => KeysEqual(ToHex(FromHex(a)), a)
    /\ \A a, b \in {t \in Texts : IsHex(t)} : KeysEqual(a, b) <=> FromHex(a) = FromHex(b)
=============================================================================
