-------------------------- MODULE MCSharedStreaks --------------------------
EXTENDS SharedStreaks, TLC

CONSTANTS s1, s2, running, reading

\* The streaks have different names.
TwoNames == s1 :> running @@ s2 :> reading

\* The users are interchangeable.
Permuted == Permutations(Users)
=============================================================================
