-------------------------- MODULE MCFriendRequests --------------------------
EXTENDS FriendRequests, TLC

\* The users are interchangeable.
Permuted == Permutations(Users)
=============================================================================
