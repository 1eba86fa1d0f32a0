--------------------------- MODULE FriendRequests ---------------------------
(***************************************************************************)
(* Friend requests: SearchFriendsViewController and OtherProfileVC send    *)
(* and cancel them, OtherProfileVC and FriendRequestsVC accept and decline *)
(* them.                                                                   *)
(*                                                                         *)
(* No server takes part: a user's app loads the other user's profile,      *)
(* changes that copy (a ProfileContainer) in memory and writes it back     *)
(* whole, now or as long after as the screen stays open.  The user's own   *)
(* profile is cur_user_profile, changed in place and replaced by every     *)
(* snapshot.  Writes count on the device at once and reach the server in   *)
(* order, at some time.                                                    *)
(*                                                                         *)
(* The arrays friends and friendRequests are bags: how often a user is in  *)
(* them.  Only first occurrences are looked for and removed, so the order  *)
(* makes no difference.  Left out of a profile: everything else.           *)
(*                                                                         *)
(* A definition marked "Mutant" is a plausible bug of the one below it; a  *)
(* property is shown to have teeth by swapping it in.                      *)
(***************************************************************************)
EXTENDS Integers, Sequences

CONSTANTS Users,
          MaxCopies,   \* bound: how often a user is in one of the arrays
          MaxQueue,    \* bound: how many writes of a device wait
          MaxTogether  \* bound: how many writes of two devices wait

ASSUME FriendAssumption == /\ MaxCopies \in Nat \ {0}
                           /\ MaxQueue \in Nat \ {0, 1}
                           /\ MaxTogether \in Nat \ {0, 1}

VARIABLES server,    \* the profile documents
          out,       \* per device, the writes the server has yet to get
          due,       \* the users whose listener is due a snapshot
          me,        \* per device, cur_user_profile
          screen,    \* per device, the other user's profile on it: none or one
          history,   \* who asked whom, who tapped Accept, and with success
          racing     \* FALSE: users act only when everything is up to date

vars == <<server, out, due, me, screen, history, racing>>

Bag == [Users -> Nat]
Profile == [friends : Bag, friendRequests : Bag]
FriendStatus == {"AlreadyFriends", "FriendRequestSent", "TheyWantMe", "Nothing"}
Container == [other : Users, profile : Profile, status : FriendStatus]
Event == [what : {"asked", "tapped", "failed"}, by : Users, of : Users]

NoOne == [v \in Users |-> 0]
Add(bag, v) == [bag EXCEPT ![v] = @ + 1]
Remove(bag, v) == [bag EXCEPT ![v] = @ - 1]

\* A document as a device with these writes under way shows it.
ViewIn(documents, writes, doc) ==
    LET mine == {i \in DOMAIN writes : writes[i].doc = doc}
    IN  IF mine = {} THEN documents[doc]
        ELSE writes[CHOOSE i \in mine : \A j \in mine : j <= i].profile

View(u, doc) == ViewIn(server, out[u], doc)

\* Mutant: whose requests are looked at is mixed up.
StatusMixedUp(u, other, profile) ==
    IF me[u].friends[other] > 0 THEN "AlreadyFriends"
    ELSE IF me[u].friendRequests[other] > 0 THEN "FriendRequestSent"
    ELSE IF profile.friendRequests[u] > 0 THEN "TheyWantMe"
    ELSE "Nothing"

\* checkFriendStatus, and the same cases in UserStreakCell.styleView.
Status(u, other, profile) ==
    IF me[u].friends[other] > 0 THEN "AlreadyFriends"
    ELSE IF profile.friendRequests[u] > 0 THEN "FriendRequestSent"
    ELSE IF me[u].friendRequests[other] > 0 THEN "TheyWantMe"
    ELSE "Nothing"

\* setData of each of these profiles.
Write(u, writes) ==
    /\ Len(out[u]) + Len(writes) <= MaxQueue
    /\ \A v \in Users \ {u} : Len(out[u]) + Len(writes) + Len(out[v]) <= MaxTogether
    /\ out' = [out EXCEPT ![u] = @ \o writes]
    /\ due' = IF ViewIn(server, out'[u], u) # View(u, u) THEN due \cup {u} ELSE due

Settled == due = {} /\ \A u \in Users : out[u] = <<>>

\* Everything a tap on this screen relies on is up to date.
Current(u, s) ==
    Settled /\ s.profile = server[s.other] /\ s.status = Status(u, s.other, s.profile)

Happened(what, u, other) == [what |-> what, by |-> u, of |-> other] \in history
Record(events) == history' = history \cup events

-----------------------------------------------------------------------------
Init ==
    /\ server = [u \in Users |-> [friends |-> NoOne, friendRequests |-> NoOne]]
    /\ out = [u \in Users |-> <<>>]
    /\ due = {}
    /\ me = server
    /\ screen = [u \in Users |-> {}]
    /\ history = {}
    /\ racing \in BOOLEAN

\* The server gets a device's next write, and the devices hear of it.
Deliver(u) ==
    /\ out[u] # <<>>
    /\ server' = [server EXCEPT ![Head(out[u]).doc] = Head(out[u]).profile]
    /\ out' = [out EXCEPT ![u] = Tail(@)]
    /\ due' = due \cup {w \in Users : ViewIn(server', out'[w], w) # View(w, w)}
    /\ UNCHANGED <<me, screen, history>>

\* The listener of cur_user_profile.
Snapshot(u) ==
    /\ u \in due
    /\ me' = [me EXCEPT ![u] = View(u, u)]
    /\ due' = due \ {u}
    /\ UNCHANGED <<server, out, screen, history>>

\* The search screen lists the other users, and OtherProfileVC is opened on
\* one of them; so do the lists of friends and the feed.
Open(u, other) ==
    /\ other # u
    /\ racing \/ Settled
    /\ screen' = [screen EXCEPT ![u] =
           {[other |-> other, profile |-> View(u, other),
             status |-> Status(u, other, View(u, other))]}]
    /\ UNCHANGED <<server, out, due, me, history>>

\* FriendRequestsVC loads the sender of each request, and offers to accept it
\* without looking at anything else.
OpenRequest(u, other) ==
    /\ me[u].friendRequests[other] > 0
    /\ racing \/ Settled
    /\ screen' = [screen EXCEPT ![u] =
           {[other |-> other, profile |-> View(u, other), status |-> "TheyWantMe"]}]
    /\ UNCHANGED <<server, out, due, me, history>>

\* updateFriendStatus, when OtherProfileVC opens on a cell of the search screen and
\* when a write has been acknowledged; cells are styled anew as they come into view.
UpdateFriendStatus(u) ==
    /\ \E s \in screen[u] :
           screen' = [screen EXCEPT ![u] =
               {[s EXCEPT !.status = Status(u, s.other, s.profile)]}]
    /\ UNCHANGED <<server, out, due, me, history>>

\* The profile on the screen is changed in place and written.
SaveOther(u, s, profile) ==
    /\ screen' = [screen EXCEPT ![u] = {[s EXCEPT !.profile = profile]}]
    /\ Write(u, <<[doc |-> s.other, profile |-> profile]>>)

SendFriendRequest(u) ==
    /\ \E s \in screen[u] :
           /\ s.status = "Nothing"
           /\ racing \/ Current(u, s)
           /\ s.profile.friendRequests[u] < MaxCopies
           /\ SaveOther(u, s, [s.profile EXCEPT !.friendRequests = Add(@, u)])
           /\ Record({[what |-> "asked", by |-> u, of |-> s.other]})
    /\ UNCHANGED <<server, me>>

\* (Not found: an alert, and nothing is changed.)
CancelFriendRequest(u) ==
    /\ \E s \in screen[u] :
           /\ s.status = "FriendRequestSent"
           /\ racing \/ Current(u, s)
           /\ s.profile.friendRequests[u] > 0
           /\ SaveOther(u, s, [s.profile EXCEPT !.friendRequests = Remove(@, u)])
    /\ UNCHANGED <<server, me, history>>

\* Mutant: only the own list of friends is changed.
AcceptOneSided(u) ==
    /\ \E s \in screen[u] :
           LET mine == [me[u] EXCEPT !.friends = Add(@, s.other),
                                     !.friendRequests = Remove(@, s.other)]
           IN  /\ s.status = "TheyWantMe"
               /\ racing \/ Current(u, s)
               /\ me[u].friends[s.other] < MaxCopies
               /\ me[u].friendRequests[s.other] > 0
               /\ me' = [me EXCEPT ![u] = mine]
               /\ Write(u, <<[doc |-> u, profile |-> mine]>>)
               /\ Record({[what |-> "tapped", by |-> u, of |-> s.other]})
    /\ UNCHANGED <<server, screen>>

\* The friend is added to cur_user_profile in memory; the request is removed
\* from it, and both profiles are written.
Accept(u) ==
    /\ \E s \in screen[u] :
           LET mine == [me[u] EXCEPT !.friends = Add(@, s.other),
                                     !.friendRequests = Remove(@, s.other)]
               theirs == [s.profile EXCEPT !.friends = Add(@, u)]
           IN  /\ s.status = "TheyWantMe"
               /\ racing \/ Current(u, s)
               /\ me[u].friends[s.other] < MaxCopies /\ s.profile.friends[u] < MaxCopies
               /\ me[u].friendRequests[s.other] > 0
               /\ me' = [me EXCEPT ![u] = mine]
               /\ screen' = [screen EXCEPT ![u] = {[s EXCEPT !.profile = theirs]}]
               /\ Write(u, <<[doc |-> u, profile |-> mine],
                             [doc |-> s.other, profile |-> theirs]>>)
               /\ Record({[what |-> "tapped", by |-> u, of |-> s.other]})
    /\ UNCHANGED server

\* The request is gone (FoundNil): an alert, nothing is written, and the friend
\* stays in memory.
AcceptFails(u) ==
    /\ \E s \in screen[u] :
           /\ s.status = "TheyWantMe"
           /\ racing \/ Current(u, s)
           /\ me[u].friends[s.other] < MaxCopies
           /\ me[u].friendRequests[s.other] = 0
           /\ me' = [me EXCEPT ![u].friends = Add(@, s.other)]
           /\ Record({[what |-> w, by |-> u, of |-> s.other] : w \in {"tapped", "failed"}})
    /\ UNCHANGED <<server, out, due, screen>>

\* Mutant: what is removed has not been looked for.
DeclineUnchecked(u) ==
    /\ \E s \in screen[u] :
           /\ s.status = "TheyWantMe"
           /\ racing \/ Current(u, s)
           /\ me' = [me EXCEPT ![u].friendRequests = Remove(@, s.other)]
           /\ Write(u, <<[doc |-> u, profile |-> me'[u]]>>)
    /\ UNCHANGED <<server, screen, history>>

\* Mutant: the request is removed and not saved.
DeclineInMemory(u) ==
    /\ \E s \in screen[u] :
           /\ s.status = "TheyWantMe"
           /\ racing \/ Current(u, s)
           /\ me[u].friendRequests[s.other] > 0
           /\ me' = [me EXCEPT ![u].friendRequests = Remove(@, s.other)]
    /\ UNCHANGED <<server, out, due, screen, history>>

\* (Not found: an alert, and nothing is changed.)
Decline(u) ==
    /\ \E s \in screen[u] :
           /\ s.status = "TheyWantMe"
           /\ racing \/ Current(u, s)
           /\ me[u].friendRequests[s.other] > 0
           /\ me' = [me EXCEPT ![u].friendRequests = Remove(@, s.other)]
           /\ Write(u, <<[doc |-> u, profile |-> me'[u]]>>)
    /\ UNCHANGED <<server, screen, history>>

\* Any other screen that saves cur_user_profile.
SaveMine(u) ==
    /\ racing
    /\ Write(u, <<[doc |-> u, profile |-> me[u]]>>)
    /\ UNCHANGED <<server, me, screen, history>>

\* Killed and started again: Firestore's cache and pending writes survive.
Relaunch(u) ==
    /\ me' = [me EXCEPT ![u] = View(u, u)]
    /\ screen' = [screen EXCEPT ![u] = {}]
    /\ due' = due \ {u}
    /\ UNCHANGED <<server, out, history>>

Act(u) ==
    \/ Deliver(u) \/ Snapshot(u)
    \/ \E other \in Users : Open(u, other) \/ OpenRequest(u, other)
    \/ UpdateFriendStatus(u)
    \/ SendFriendRequest(u) \/ CancelFriendRequest(u)
    \/ Accept(u) \/ AcceptFails(u) \/ Decline(u)
    \/ SaveMine(u) \/ Relaunch(u)

Next == (\E u \in Users : Act(u)) /\ UNCHANGED racing

Spec == Init /\ [][Next]_vars
-----------------------------------------------------------------------------
\* Type invariant.
TypeOK ==
    /\ server \in [Users -> Profile]
    /\ out \in [Users -> Seq([doc : Users, profile : Profile])]
    /\ due \in SUBSET Users
    /\ me \in [Users -> Profile]
    /\ screen \in [Users -> SUBSET Container]
    /\ history \in SUBSET Event
    /\ racing \in BOOLEAN

\* One of the two asked and the other tapped Accept.
TookTwo(u, v) == \/ Happened("asked", u, v) /\ Happened("tapped", v, u)
                 \/ Happened("asked", v, u) /\ Happened("tapped", u, v)

\* A copy of u's profile tells of nothing that did not happen.
Honest(u, profile) ==
    \A v \in Users : /\ profile.friends[v] > 0 => TookTwo(u, v)
                     /\ profile.friendRequests[v] > 0 => Happened("asked", v, u)

\* Nobody becomes a friend without one of the two having asked and the other
\* having tapped Accept, and no request appears that was not sent, in any copy of
\* a profile: whatever profiles loaded long ago the apps write over each other's
\* (the setData of the other user's document in all four operations).
Consent ==
    \A u \in Users :
        /\ Honest(u, server[u]) /\ Honest(u, me[u])
        /\ \A w \in Users : \A i \in DOMAIN out[w] :
               out[w][i].doc = u => Honest(u, out[w][i].profile)
        /\ \A s \in screen[u] :
               /\ Honest(s.other, s.profile)
               /\ s.status = "TheyWantMe" => Happened("asked", s.other, u)

\* Once its snapshots are delivered the app's own profile is the document as the
\* device knows it; a failed Accept alone may leave a friend too many in it
\* (the changes made in place to cur_user_profile are all written).
OwnProfileIsCurrent ==
    \A u \in Users \ due :
        /\ me[u].friendRequests = View(u, u).friendRequests
        /\ \A v \in Users : \/ me[u].friends[v] = View(u, u).friends[v]
                            \/ /\ me[u].friends[v] > View(u, u).friends[v]
                               /\ Happened("failed", u, v)

\* Friendship is mutual, and friends have no requests left between them, when
\* users act only on what is up to date.
MutualWhenCalm ==
    ~racing /\ Settled => \A u, v \in Users :
        /\ server[u].friends[v] = server[v].friends[u]
        /\ server[u].friends[v] > 0 => /\ server[u].friends[v] = 1
                                       /\ server[u].friendRequests[v] = 0
                                       /\ server[v].friendRequests[u] = 0
=============================================================================
