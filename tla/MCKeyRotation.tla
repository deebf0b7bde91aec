--------------------------- MODULE MCKeyRotation ---------------------------
(* Instances of KeyRotation for TLC. *)
EXTENDS KeyRotation, TLC

CONSTANTS k1, k2

AllKeys == {k1, k2}

OneKey == {<<k1>>}

\* A reload takes the first key away and brings it back.
TwoKeysOrOne == {<<k1, k2>>, <<k2>>}

AllAnswers == AnswerKinds

RequestSymmetry == Permutations(Requests)
=============================================================================
