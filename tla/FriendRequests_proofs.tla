------------------------ MODULE FriendRequests_proofs ------------------------
(* Nobody becomes a friend unasked, and no request appears that was not      *)
(* sent: for any number of users, copies in an array and writes under way.   *)
(*                                                                           *)
(* Every copy of a profile, wherever it is, is honest about the history.  So *)
(* the invariant types each place with the profiles that are, a set that     *)
(* only grows: a copy that is moved, however late, stays in it.              *)
(*                                                                           *)
(* The own profile is the one saved, and friendship is mutual when users act *)
(* only on what is up to date: for any number of users.  What matters for    *)
(* these is what the documents will be once the writes under way have        *)
(* arrived.  Delivering one does not change that; and in the calm only one   *)
(* device has any, so that it sees what will be.                             *)
EXTENDS FriendRequests, SequenceTheorems, WellFoundedInduction, TLAPS

Occurred(h, what, u, other) == [what |-> what, by |-> u, of |-> other] \in h

Two(h, u, v) == \/ Occurred(h, "asked", u, v) /\ Occurred(h, "tapped", v, u)
                \/ Occurred(h, "asked", v, u) /\ Occurred(h, "tapped", u, v)

\* The profiles u may have, after the events h.
TrueProfile(h, u) ==
    {p \in Profile : \A v \in Users :
        /\ p.friends[v] > 0 => Two(h, u, v)
        /\ p.friendRequests[v] > 0 => Occurred(h, "asked", v, u)}

TrueWrite(h) == {w \in [doc : Users, profile : Profile] :
                     w.profile \in TrueProfile(h, w.doc)}

TrueContainer(h, u) ==
    {s \in Container : /\ s.profile \in TrueProfile(h, s.other)
                       /\ s.status = "TheyWantMe" => Occurred(h, "asked", s.other, u)}

IInv ==
    /\ history \in SUBSET Event
    /\ due \in SUBSET Users
    /\ server \in [Users -> Profile]
    /\ me \in [Users -> Profile]
    /\ out \in [Users -> Seq(TrueWrite(history))]
    /\ screen \in [Users -> SUBSET Container]
    /\ \A u \in Users : /\ server[u] \in TrueProfile(history, u)
                        /\ me[u] \in TrueProfile(history, u)
                        /\ screen[u] \in SUBSET TrueContainer(history, u)

-----------------------------------------------------------------------------
\* More events allow more copies.
LEMMA MoreIsTrue ==
    ASSUME NEW h, NEW k, h \subseteq k
    PROVE  /\ \A u \in Users : TrueProfile(h, u) \subseteq TrueProfile(k, u)
           /\ TrueWrite(h) \subseteq TrueWrite(k)
           /\ Seq(TrueWrite(h)) \subseteq Seq(TrueWrite(k))
           /\ \A u \in Users : TrueContainer(h, u) \subseteq TrueContainer(k, u)
<1>1. \A u \in Users : TrueProfile(h, u) \subseteq TrueProfile(k, u)
    BY DEF TrueProfile, Two, Occurred
<1>2. TrueWrite(h) \subseteq TrueWrite(k)
    BY <1>1 DEF TrueWrite
<1>3. Seq(TrueWrite(h)) \subseteq Seq(TrueWrite(k))
    BY <1>2, SeqMonotonic
<1>4. \A u \in Users : TrueContainer(h, u) \subseteq TrueContainer(k, u)
    <2>1. SUFFICES ASSUME NEW u \in Users, NEW s \in TrueContainer(h, u)
                   PROVE  s \in TrueContainer(k, u)
        BY Zenon
    <2>2. s \in Container /\ s.other \in Users
        BY DEF TrueContainer, Container
    <2> QED BY <1>1, <2>1, <2>2 DEF TrueContainer, Occurred
<1> QED BY <1>1, <1>2, <1>3, <1>4

\* Among the writes to a document there is a last one.
LEMMA LastExists ==
    ASSUME NEW n \in Nat, NEW mine \in SUBSET (1..n), mine # {}
    PROVE  \E i \in mine : \A j \in mine : j <= i
<1> DEFINE R == OpToRel(<, Nat)
           back == {k \in Nat : n - k \in mine}
<1>1. back # {}
    <2>1. PICK i \in mine : TRUE
        OBVIOUS
    <2>2. n - i \in Nat /\ n - (n - i) = i
        OBVIOUS
    <2> QED BY <2>1, <2>2
<1>2. PICK k \in back : \A l \in back : ~(<<l, k>> \in R)
    <2>1. back \subseteq Nat
        OBVIOUS
    <2> HIDE DEF back
    <2> QED BY <1>1, <2>1, WFMin, NatLessThanWellFounded, Zenon
<1>3. \A l \in back : ~(l < k)
    BY <1>2, Zenon DEF OpToRel
<1>4. ASSUME NEW j \in mine PROVE j <= n - k
    <2>1. n - j \in Nat /\ n - (n - j) = j
        OBVIOUS
    <2>2. n - j \in back
        BY <2>1
    <2>3. ~(n - j < k)
        BY <1>3, <2>2
    <2> QED BY <2>1, <2>3
<1> QED BY <1>4

\* What a device sees of a document is the document or one of its own writes.
LEMMA ViewIsTrue ==
    ASSUME IInv, NEW u \in Users, NEW doc \in Users
    PROVE  View(u, doc) \in TrueProfile(history, doc)
<1> DEFINE writes == out[u]
           mine == {i \in DOMAIN writes : writes[i].doc = doc}
<1>1. writes \in Seq(TrueWrite(history))
    BY DEF IInv
<1>2. Len(writes) \in Nat /\ DOMAIN writes = 1..Len(writes)
    BY <1>1, LenProperties
<1>3. CASE mine = {}
    <2>1. View(u, doc) = server[doc]
        BY <1>3 DEF View, ViewIn
    <2> QED BY <2>1 DEF IInv
<1>4. CASE mine # {}
    <2> DEFINE last == CHOOSE i \in mine : \A j \in mine : j <= i
    <2>1. mine \in SUBSET (1..Len(writes))
        BY <1>2
    <2>2. last \in mine
        <3> HIDE DEF mine
        <3>1. \E i \in mine : \A j \in mine : j <= i
            BY <1>2, <1>4, <2>1, LastExists
        <3> QED BY <3>1
    <2>3. last \in 1..Len(writes) /\ writes[last].doc = doc
        BY <2>1, <2>2
    <2>4. View(u, doc) = writes[last].profile
        BY <1>4 DEF View, ViewIn
    <2> HIDE DEF last, writes
    <2>5. writes[last] \in TrueWrite(history)
        BY <1>1, <2>3, ElementOfSeq
    <2> QED BY <2>3, <2>4, <2>5 DEF TrueWrite
<1> QED BY <1>3, <1>4

\* A write of honest profiles.
LEMMA WriteTrue ==
    ASSUME IInv, history \subseteq history', NEW u \in Users,
           NEW writes, writes \in Seq(TrueWrite(history')), Write(u, writes)
    PROVE  /\ out' \in [Users -> Seq(TrueWrite(history'))]
           /\ due' \in SUBSET Users
<1>1. out \in [Users -> Seq(TrueWrite(history'))]
    BY MoreIsTrue DEF IInv
<1>2. out[u] \o writes \in Seq(TrueWrite(history'))
    BY <1>1, ConcatProperties
<1>3. out' = [out EXCEPT ![u] = out[u] \o writes]
    BY DEF Write
<1>4. out' \in [Users -> Seq(TrueWrite(history'))]
    BY <1>1, <1>2, <1>3
<1>5. due' \in SUBSET Users
    BY DEF IInv, Write
<1> QED BY <1>4, <1>5

\* One more or one less in an array.
LEMMA ArrayType ==
    ASSUME NEW bag \in Bag, NEW v \in Users
    PROVE  /\ NoOne \in Bag
           /\ Add(bag, v) \in Bag
           /\ \A w \in Users : w # v => Add(bag, v)[w] = bag[w]
           /\ bag[v] > 0 => Remove(bag, v) \in Bag
           /\ \A w \in Users : Remove(bag, v)[w] > 0 => bag[w] > 0
BY DEF Bag, NoOne, Add, Remove

\* The places a step leaves alone stay honest.
LEMMA StillTrue ==
    ASSUME IInv, history \subseteq history'
    PROVE  /\ out \in [Users -> Seq(TrueWrite(history'))]
           /\ \A u \in Users : /\ server[u] \in TrueProfile(history', u)
                               /\ me[u] \in TrueProfile(history', u)
                               /\ screen[u] \in SUBSET TrueContainer(history', u)
BY MoreIsTrue DEF IInv

\* The screens, when only u's is changed, to one honest container.
LEMMA ScreenTrue ==
    ASSUME IInv, history \subseteq history', NEW u \in Users,
           NEW s, s \in TrueContainer(history', u),
           screen' = [screen EXCEPT ![u] = {s}]
    PROVE  /\ screen' \in [Users -> SUBSET Container]
           /\ \A w \in Users : screen'[w] \in SUBSET TrueContainer(history', w)
<1>1. s \in Container
    BY DEF TrueContainer
<1>2. \A w \in Users : screen[w] \in SUBSET TrueContainer(history', w)
    BY StillTrue
<1> QED BY <1>1, <1>2 DEF IInv

\* The own profiles, when only u's is changed, to an honest one.
LEMMA MineTrue ==
    ASSUME IInv, history \subseteq history', NEW u \in Users,
           NEW profile, profile \in TrueProfile(history', u),
           me' = [me EXCEPT ![u] = profile]
    PROVE  /\ me' \in [Users -> Profile]
           /\ \A w \in Users : me'[w] \in TrueProfile(history', w)
<1>1. profile \in Profile
    BY DEF TrueProfile
<1>2. \A w \in Users : me[w] \in TrueProfile(history', w)
    BY StillTrue
<1> QED BY <1>1, <1>2 DEF IInv

\* The profile on the screen, and what its buttons stand for.
LEMMA OnScreen ==
    ASSUME IInv, NEW u \in Users, NEW s \in screen[u]
    PROVE  /\ s \in Container
           /\ s.other \in Users /\ s.profile \in Profile
           /\ s = [other |-> s.other, profile |-> s.profile, status |-> s.status]
           /\ s.status \in FriendStatus
           /\ s.profile \in TrueProfile(history, s.other)
           /\ s.status = "TheyWantMe" => Occurred(history, "asked", s.other, u)
BY DEF IInv, TrueContainer, Container

\* They want me only if they asked.
LEMMA StatusTrue ==
    ASSUME IInv, NEW u \in Users, NEW other \in Users, NEW profile,
           profile \in TrueProfile(history, other)
    PROVE  [other |-> other, profile |-> profile, status |-> Status(u, other, profile)]
               \in TrueContainer(history, u)
<1>1. me[u] \in TrueProfile(history, u)
    BY DEF IInv
<1>2. Status(u, other, profile) = "TheyWantMe" => Occurred(history, "asked", other, u)
    BY <1>1 DEF Status, TrueProfile
<1>3. Status(u, other, profile) \in FriendStatus
    BY DEF Status, FriendStatus
<1>4. profile \in Profile
    BY DEF TrueProfile
<1> QED BY <1>2, <1>3, <1>4 DEF TrueContainer, Container

-----------------------------------------------------------------------------
\* The four operations, on honest profiles.

LEMMA Befriended ==
    ASSUME NEW h \in SUBSET Event, NEW u \in Users, NEW v \in Users,
           NEW p \in TrueProfile(h, u), Two(h, u, v)
    PROVE  [p EXCEPT !.friends = Add(@, v)] \in TrueProfile(h, u)
<1>1. p.friends \in Bag /\ p.friendRequests \in Bag
    BY DEF TrueProfile, Profile
<1>2. Add(p.friends, v) \in Bag /\ \A w \in Users : w # v => Add(p.friends, v)[w] = p.friends[w]
    BY <1>1, ArrayType
<1> DEFINE q == [p EXCEPT !.friends = Add(@, v)]
<1>3. q \in Profile /\ q.friends = Add(p.friends, v) /\ q.friendRequests = p.friendRequests
    BY <1>2 DEF TrueProfile, Profile
<1> HIDE DEF q
<1>4. q \in TrueProfile(h, u)
    BY <1>2, <1>3 DEF TrueProfile
<1> QED BY <1>4 DEF q

LEMMA Requested ==
    ASSUME NEW h \in SUBSET Event, NEW u \in Users, NEW v \in Users,
           NEW p \in TrueProfile(h, u), Occurred(h, "asked", v, u)
    PROVE  [p EXCEPT !.friendRequests = Add(@, v)] \in TrueProfile(h, u)
<1>1. p.friends \in Bag /\ p.friendRequests \in Bag
    BY DEF TrueProfile, Profile
<1>2. /\ Add(p.friendRequests, v) \in Bag
      /\ \A w \in Users : w # v => Add(p.friendRequests, v)[w] = p.friendRequests[w]
    BY <1>1, ArrayType
<1> DEFINE q == [p EXCEPT !.friendRequests = Add(@, v)]
<1>3. q \in Profile /\ q.friendRequests = Add(p.friendRequests, v) /\ q.friends = p.friends
    BY <1>2 DEF TrueProfile, Profile
<1> HIDE DEF q
<1>4. q \in TrueProfile(h, u)
    BY <1>2, <1>3 DEF TrueProfile
<1> QED BY <1>4 DEF q

LEMMA RequestRemoved ==
    ASSUME NEW h \in SUBSET Event, NEW u \in Users, NEW v \in Users,
           NEW p \in TrueProfile(h, u), p.friendRequests[v] > 0
    PROVE  [p EXCEPT !.friendRequests = Remove(@, v)] \in TrueProfile(h, u)
<1>1. p.friends \in Bag /\ p.friendRequests \in Bag
    BY DEF TrueProfile, Profile
<1>2. /\ Remove(p.friendRequests, v) \in Bag
      /\ \A w \in Users : Remove(p.friendRequests, v)[w] > 0 => p.friendRequests[w] > 0
    BY <1>1, ArrayType
<1> DEFINE q == [p EXCEPT !.friendRequests = Remove(@, v)]
<1>3. q \in Profile /\ q.friendRequests = Remove(p.friendRequests, v) /\ q.friends = p.friends
    BY <1>2 DEF TrueProfile, Profile
<1> HIDE DEF q
<1>4. q \in TrueProfile(h, u)
    BY <1>2, <1>3 DEF TrueProfile
<1> QED BY <1>4 DEF q

\* What is written and shown of an honest profile.
LEMMA WrittenTrue ==
    ASSUME NEW h, NEW v \in Users, NEW p \in TrueProfile(h, v)
    PROVE  [doc |-> v, profile |-> p] \in TrueWrite(h)
BY DEF TrueWrite, TrueProfile

LEMMA ShownTrue ==
    ASSUME NEW h, NEW u \in Users, NEW s \in TrueContainer(h, u),
           NEW p \in TrueProfile(h, s.other)
    PROVE  [s EXCEPT !.profile = p] \in TrueContainer(h, u)
BY DEF TrueContainer, TrueProfile, Container

\* The profile on the screen is changed and saved.
LEMMA SaveOtherTrue ==
    ASSUME IInv, history' \in SUBSET Event, history \subseteq history',
           NEW u \in Users, NEW s \in screen[u],
           NEW profile \in TrueProfile(history', s.other),
           SaveOther(u, s, profile), UNCHANGED <<server, me>>
    PROVE  IInv'
<1>1. s \in TrueContainer(history', u) /\ s.other \in Users
    BY OnScreen, StillTrue
<1>2. [s EXCEPT !.profile = profile] \in TrueContainer(history', u)
    BY <1>1, ShownTrue
<1>3. /\ screen' \in [Users -> SUBSET Container]
      /\ \A w \in Users : screen'[w] \in SUBSET TrueContainer(history', w)
    BY <1>2, ScreenTrue DEF SaveOther
<1>4. <<[doc |-> s.other, profile |-> profile]>> \in Seq(TrueWrite(history'))
    BY <1>1, WrittenTrue
<1>5. out' \in [Users -> Seq(TrueWrite(history'))] /\ due' \in SUBSET Users
    BY <1>4, WriteTrue DEF SaveOther
<1> QED BY <1>3, <1>5, StillTrue DEF IInv

LEMMA InitTrue == Init => IInv
<1>1. [friends |-> NoOne, friendRequests |-> NoOne] \in Profile
    BY DEF NoOne, Profile, Bag
<1>2. \A u \in Users : [friends |-> NoOne, friendRequests |-> NoOne] \in TrueProfile({}, u)
    BY <1>1 DEF NoOne, TrueProfile
<1>3. <<>> \in Seq(TrueWrite({}))
    BY EmptySeq
<1> QED BY <1>1, <1>2, <1>3 DEF Init, IInv

LEMMA DeliverTrue ==
    ASSUME IInv, NEW u \in Users, Deliver(u)
    PROVE  IInv'
<1>1. out[u] \in Seq(TrueWrite(history)) /\ out[u] # <<>>
    BY DEF IInv, Deliver
<1>2. Head(out[u]) \in TrueWrite(history) /\ Tail(out[u]) \in Seq(TrueWrite(history))
    BY <1>1, HeadTailProperties
<1>3. out' \in [Users -> Seq(TrueWrite(history))]
    BY <1>2 DEF IInv, Deliver
<1>4. /\ Head(out[u]).doc \in Users /\ Head(out[u]).profile \in Profile
      /\ Head(out[u]).profile \in TrueProfile(history, Head(out[u]).doc)
    BY <1>2 DEF TrueWrite
<1>5. /\ server' \in [Users -> Profile]
      /\ \A w \in Users : server'[w] \in TrueProfile(history, w)
    BY <1>4 DEF IInv, Deliver
<1>6. due' \in SUBSET Users
    BY DEF IInv, Deliver
<1> QED BY <1>3, <1>5, <1>6 DEF IInv, Deliver

\* A snapshot, and a launch.
LEMMA ReloadTrue ==
    ASSUME IInv, NEW u \in Users, Snapshot(u) \/ Relaunch(u)
    PROVE  IInv'
<1>1. View(u, u) \in TrueProfile(history, u) /\ history' = history
    BY ViewIsTrue DEF Snapshot, Relaunch
<1>2. me' \in [Users -> Profile] /\ \A w \in Users : me'[w] \in TrueProfile(history', w)
    BY <1>1, MineTrue DEF Snapshot, Relaunch
<1>3. due' \in SUBSET Users /\ screen' \in [Users -> SUBSET Container]
    BY DEF IInv, Snapshot, Relaunch
<1>4. \A w \in Users : screen'[w] \in SUBSET screen[w]
    BY DEF IInv, Snapshot, Relaunch
<1> QED BY <1>1, <1>2, <1>3, <1>4 DEF IInv, Snapshot, Relaunch

\* A profile comes to the screen, or its buttons are set.
LEMMA ShowTrue ==
    ASSUME IInv, NEW u \in Users, NEW s \in TrueContainer(history, u),
           screen' = [screen EXCEPT ![u] = {s}],
           UNCHANGED <<server, out, due, me, history>>
    PROVE  IInv'
<1>1. /\ screen' \in [Users -> SUBSET Container]
      /\ \A w \in Users : screen'[w] \in SUBSET TrueContainer(history', w)
    BY ScreenTrue
<1> QED BY <1>1 DEF IInv

LEMMA OpenTrue ==
    ASSUME IInv, NEW u \in Users, NEW other \in Users, Open(u, other)
    PROVE  IInv'
<1>1. View(u, other) \in TrueProfile(history, other)
    BY ViewIsTrue
<1>2. [other |-> other, profile |-> View(u, other), status |-> Status(u, other, View(u, other))]
          \in TrueContainer(history, u)
    BY <1>1, StatusTrue
<1> QED BY <1>2, ShowTrue DEF Open

LEMMA OpenRequestTrue ==
    ASSUME IInv, NEW u \in Users, NEW other \in Users, OpenRequest(u, other)
    PROVE  IInv'
<1>1. View(u, other) \in TrueProfile(history, other)
    BY ViewIsTrue
<1>2. Occurred(history, "asked", other, u)
    BY DEF IInv, OpenRequest, TrueProfile
<1>3. [other |-> other, profile |-> View(u, other), status |-> "TheyWantMe"]
          \in TrueContainer(history, u)
    BY <1>1, <1>2 DEF TrueContainer, TrueProfile, Container, FriendStatus
<1> QED BY <1>3, ShowTrue DEF OpenRequest

LEMMA UpdateFriendStatusTrue ==
    ASSUME IInv, NEW u \in Users, UpdateFriendStatus(u)
    PROVE  IInv'
<1>1. PICK s \in screen[u] :
          screen' = [screen EXCEPT ![u] =
              {[s EXCEPT !.status = Status(u, s.other, s.profile)]}]
    BY DEF UpdateFriendStatus
<1>2. [s EXCEPT !.status = Status(u, s.other, s.profile)]
          = [other |-> s.other, profile |-> s.profile, status |-> Status(u, s.other, s.profile)]
    BY OnScreen
<1>3. [other |-> s.other, profile |-> s.profile, status |-> Status(u, s.other, s.profile)]
          \in TrueContainer(history, u)
    BY OnScreen, StatusTrue
<1> QED BY <1>1, <1>2, <1>3, ShowTrue DEF UpdateFriendStatus

LEMMA SendTrue ==
    ASSUME IInv, NEW u \in Users, SendFriendRequest(u)
    PROVE  IInv'
<1>1. PICK s \in screen[u] :
          /\ SaveOther(u, s, [s.profile EXCEPT !.friendRequests = Add(@, u)])
          /\ Record({[what |-> "asked", by |-> u, of |-> s.other]})
    BY DEF SendFriendRequest
<1>2. s.other \in Users /\ s.profile \in TrueProfile(history, s.other)
    BY OnScreen
<1>3. history' \in SUBSET Event /\ history \subseteq history'
    BY <1>1, <1>2 DEF Record, Event, IInv
<1>4. s.profile \in TrueProfile(history', s.other)
    BY <1>2, <1>3, MoreIsTrue
<1>5. Occurred(history', "asked", u, s.other)
    BY <1>1 DEF Record, Occurred
<1>6. [s.profile EXCEPT !.friendRequests = Add(@, u)] \in TrueProfile(history', s.other)
    BY <1>2, <1>3, <1>4, <1>5, Requested
<1> QED BY <1>1, <1>3, <1>6, SaveOtherTrue DEF SendFriendRequest

LEMMA CancelTrue ==
    ASSUME IInv, NEW u \in Users, CancelFriendRequest(u)
    PROVE  IInv'
<1>1. PICK s \in screen[u] :
          /\ s.profile.friendRequests[u] > 0
          /\ SaveOther(u, s, [s.profile EXCEPT !.friendRequests = Remove(@, u)])
    BY DEF CancelFriendRequest
<1>2. history' = history /\ history' \in SUBSET Event
    BY DEF CancelFriendRequest, IInv
<1>3. [s.profile EXCEPT !.friendRequests = Remove(@, u)] \in TrueProfile(history', s.other)
    BY <1>1, <1>2, OnScreen, RequestRemoved
<1> QED BY <1>1, <1>2, <1>3, SaveOtherTrue DEF CancelFriendRequest

\* A tap on Accept of a friend who asked: both may have each other as friends.
LEMMA TappedBoth ==
    ASSUME IInv, NEW u \in Users, NEW s \in screen[u], s.status = "TheyWantMe",
           history \subseteq history', Occurred(history', "tapped", u, s.other)
    PROVE  Two(history', u, s.other) /\ Two(history', s.other, u)
BY OnScreen DEF Two, Occurred

LEMMA AcceptTrue ==
    ASSUME IInv, NEW u \in Users, Accept(u)
    PROVE  IInv'
<1>1. PICK s \in screen[u] :
          LET mine == [me[u] EXCEPT !.friends = Add(@, s.other),
                                    !.friendRequests = Remove(@, s.other)]
              theirs == [s.profile EXCEPT !.friends = Add(@, u)]
          IN  /\ s.status = "TheyWantMe"
              /\ me[u].friendRequests[s.other] > 0
              /\ me' = [me EXCEPT ![u] = mine]
              /\ screen' = [screen EXCEPT ![u] = {[s EXCEPT !.profile = theirs]}]
              /\ Write(u, <<[doc |-> u, profile |-> mine],
                            [doc |-> s.other, profile |-> theirs]>>)
              /\ Record({[what |-> "tapped", by |-> u, of |-> s.other]})
    BY DEF Accept
<1> DEFINE half == [me[u] EXCEPT !.friends = Add(@, s.other)]
           mine == [me[u] EXCEPT !.friends = Add(@, s.other),
                                 !.friendRequests = Remove(@, s.other)]
           theirs == [s.profile EXCEPT !.friends = Add(@, u)]
<1>2. s.other \in Users /\ s.profile \in TrueProfile(history, s.other)
    BY OnScreen
<1>3. history' \in SUBSET Event /\ history \subseteq history'
    BY <1>1, <1>2 DEF Record, Event, IInv
<1>4. Occurred(history', "tapped", u, s.other)
    BY <1>1 DEF Record, Occurred
<1>5. Two(history', u, s.other) /\ Two(history', s.other, u)
    BY <1>1, <1>3, <1>4, TappedBoth
<1>6. s.profile \in TrueProfile(history', s.other) /\ me[u] \in TrueProfile(history', u)
    BY <1>2, <1>3, MoreIsTrue, StillTrue
<1>7. theirs \in TrueProfile(history', s.other)
    BY <1>2, <1>3, <1>5, <1>6, Befriended
<1>8. half \in TrueProfile(history', u)
    BY <1>2, <1>3, <1>5, <1>6, Befriended
<1>9. me[u] \in Profile
    BY DEF IInv
<1>10. /\ half.friendRequests = me[u].friendRequests
       /\ mine = [half EXCEPT !.friendRequests = Remove(@, s.other)]
    BY <1>9 DEF Profile
<1>11. mine \in TrueProfile(history', u)
    <2> HIDE DEF half, mine
    <2> QED BY <1>1, <1>2, <1>3, <1>8, <1>10, RequestRemoved
<1> HIDE DEF half
<1>12. me' \in [Users -> Profile] /\ \A w \in Users : me'[w] \in TrueProfile(history', w)
    BY <1>1, <1>3, <1>11, MineTrue
<1>13. [s EXCEPT !.profile = theirs] \in TrueContainer(history', u)
    BY <1>3, <1>7, StillTrue, ShownTrue
<1>14. /\ screen' \in [Users -> SUBSET Container]
       /\ \A w \in Users : screen'[w] \in SUBSET TrueContainer(history', w)
    BY <1>1, <1>3, <1>13, ScreenTrue
<1>15. <<[doc |-> u, profile |-> mine], [doc |-> s.other, profile |-> theirs]>>
           \in Seq(TrueWrite(history'))
    <2> HIDE DEF mine, theirs
    <2> QED BY <1>2, <1>7, <1>11, WrittenTrue
<1>16. out' \in [Users -> Seq(TrueWrite(history'))] /\ due' \in SUBSET Users
    BY <1>1, <1>3, <1>15, WriteTrue
<1> QED BY <1>3, <1>12, <1>14, <1>16, StillTrue DEF IInv, Accept

LEMMA AcceptFailsTrue ==
    ASSUME IInv, NEW u \in Users, AcceptFails(u)
    PROVE  IInv'
<1>1. PICK s \in screen[u] :
          /\ s.status = "TheyWantMe"
          /\ me' = [me EXCEPT ![u].friends = Add(@, s.other)]
          /\ Record({[what |-> w, by |-> u, of |-> s.other] : w \in {"tapped", "failed"}})
    BY DEF AcceptFails
<1>2. s.other \in Users
    BY OnScreen
<1>3. history' \in SUBSET Event /\ history \subseteq history'
    BY <1>1, <1>2 DEF Record, Event, IInv
<1>4. Occurred(history', "tapped", u, s.other)
    BY <1>1 DEF Record, Occurred
<1>5. Two(history', u, s.other)
    BY <1>1, <1>3, <1>4, TappedBoth
<1>6. [me[u] EXCEPT !.friends = Add(@, s.other)] \in TrueProfile(history', u)
    BY <1>2, <1>3, <1>5, StillTrue, Befriended
<1>7. me' = [me EXCEPT ![u] = [me[u] EXCEPT !.friends = Add(@, s.other)]]
    BY <1>1
<1>8. me' \in [Users -> Profile] /\ \A w \in Users : me'[w] \in TrueProfile(history', w)
    BY <1>3, <1>6, <1>7, MineTrue
<1> QED BY <1>3, <1>8, StillTrue DEF IInv, AcceptFails

LEMMA DeclineTrue ==
    ASSUME IInv, NEW u \in Users, Decline(u)
    PROVE  IInv'
<1>1. PICK s \in screen[u] :
          /\ me[u].friendRequests[s.other] > 0
          /\ me' = [me EXCEPT ![u].friendRequests = Remove(@, s.other)]
          /\ Write(u, <<[doc |-> u, profile |-> me'[u]]>>)
    BY DEF Decline
<1>2. s.other \in Users /\ history' = history /\ history' \in SUBSET Event
    BY OnScreen DEF Decline, IInv
<1>3. [me[u] EXCEPT !.friendRequests = Remove(@, s.other)] \in TrueProfile(history', u)
    BY <1>1, <1>2, StillTrue, RequestRemoved
<1>4. me' = [me EXCEPT ![u] = [me[u] EXCEPT !.friendRequests = Remove(@, s.other)]]
    BY <1>1
<1>5. me' \in [Users -> Profile] /\ \A w \in Users : me'[w] \in TrueProfile(history', w)
    BY <1>2, <1>3, <1>4, MineTrue
<1>6. <<[doc |-> u, profile |-> me'[u]]>> \in Seq(TrueWrite(history'))
    BY <1>5, WrittenTrue
<1>7. out' \in [Users -> Seq(TrueWrite(history'))] /\ due' \in SUBSET Users
    BY <1>1, <1>2, <1>6, WriteTrue
<1> QED BY <1>2, <1>5, <1>7, StillTrue DEF IInv, Decline

LEMMA SaveMineTrue ==
    ASSUME IInv, NEW u \in Users, SaveMine(u)
    PROVE  IInv'
<1>1. history' = history /\ me[u] \in TrueProfile(history', u)
    BY DEF IInv, SaveMine
<1>2. <<[doc |-> u, profile |-> me[u]]>> \in Seq(TrueWrite(history'))
    BY <1>1, WrittenTrue
<1>3. out' \in [Users -> Seq(TrueWrite(history'))] /\ due' \in SUBSET Users
    BY <1>1, <1>2, WriteTrue DEF SaveMine
<1> QED BY <1>1, <1>3 DEF IInv, SaveMine

LEMMA NextTrue == IInv /\ [Next]_vars => IInv'
<1> SUFFICES ASSUME IInv, [Next]_vars PROVE IInv'
    OBVIOUS
<1>1. CASE UNCHANGED vars
    BY <1>1 DEF vars, IInv
<1>2. CASE Next
    BY <1>2, DeliverTrue, ReloadTrue, OpenTrue, OpenRequestTrue, UpdateFriendStatusTrue,
       SendTrue, CancelTrue, AcceptTrue, AcceptFailsTrue, DeclineTrue, SaveMineTrue
    DEF Next, Act
<1> QED BY <1>1, <1>2

-----------------------------------------------------------------------------
LEMMA RacingStays == racing \in BOOLEAN /\ [Next]_vars => (racing \in BOOLEAN)'
BY DEF Next, vars

LEMMA TrueIsTyped == IInv /\ racing \in BOOLEAN => TypeOK
<1>1. TrueWrite(history) \subseteq [doc : Users, profile : Profile]
    BY DEF TrueWrite
<1>2. Seq(TrueWrite(history)) \subseteq Seq([doc : Users, profile : Profile])
    BY <1>1, SeqMonotonic
<1> QED BY <1>2 DEF IInv, TypeOK

LEMMA TrueIsConsent == IInv => Consent
<1> SUFFICES ASSUME IInv PROVE Consent
    OBVIOUS
<1>1. ASSUME NEW u \in Users, NEW p \in TrueProfile(history, u)
      PROVE  Honest(u, p)
    BY DEF TrueProfile, Two, Occurred, Honest, TookTwo, Happened
<1>2. ASSUME NEW u \in Users, NEW w \in Users, NEW i \in DOMAIN out[w], out[w][i].doc = u
      PROVE  Honest(u, out[w][i].profile)
    <2>1. out[w] \in Seq(TrueWrite(history))
        BY DEF IInv
    <2>2. out[w][i] \in TrueWrite(history)
        BY <1>2, <2>1, ElementOfSeq, LenProperties
    <2> QED BY <1>1, <1>2, <2>2 DEF TrueWrite
<1>3. ASSUME NEW u \in Users, NEW s \in screen[u]
      PROVE  /\ Honest(s.other, s.profile)
             /\ s.status = "TheyWantMe" => Happened("asked", s.other, u)
    BY <1>1, OnScreen DEF Occurred, Happened
<1>4. \A u \in Users : Honest(u, server[u]) /\ Honest(u, me[u])
    BY <1>1 DEF IInv
<1> QED BY <1>2, <1>3, <1>4 DEF Consent

\* The profiles, the writes and the screens stay well-formed.
THEOREM FriendsTypeCorrect == Spec => []TypeOK
<1>1. Init => racing \in BOOLEAN
    BY DEF Init
<1> QED BY <1>1, InitTrue, NextTrue, RacingStays, TrueIsTyped, PTL DEF Spec

\* Nobody becomes a friend, in any copy of any profile, without one of the two
\* having asked and the other having tapped Accept.
THEOREM FriendsConsent == Spec => []Consent
<1> QED BY InitTrue, NextTrue, TrueIsConsent, PTL DEF Spec

-----------------------------------------------------------------------------
\* The own profile, and friendship in the calm.

Writes == [doc : Users, profile : Profile]

CurrentOf(u) ==
    /\ me[u].friendRequests = View(u, u).friendRequests
    /\ \A v \in Users : \/ me[u].friends[v] = View(u, u).friends[v]
                        \/ /\ me[u].friends[v] > View(u, u).friends[v]
                           /\ Happened("failed", u, v)

\* Friends on both sides, once, and without a request; no request twice.
Mutual(profiles) ==
    \A u, v \in Users :
        /\ profiles[u].friends[v] = profiles[v].friends[u]
        /\ profiles[u].friendRequests[v] <= 1
        /\ profiles[u].friends[v] > 0 => /\ profiles[u].friends[v] = 1
                                         /\ profiles[u].friendRequests[v] = 0

Seen(u) == [doc \in Users |-> View(u, doc)]

Calm ==
    /\ \A u, v \in Users : ~Happened("failed", u, v)
    /\ \A u, v \in Users : out[u] # <<>> /\ out[v] # <<>> => u = v
    /\ \A u \in Users : (\A v \in Users \ {u} : out[v] = <<>>) => Mutual(Seen(u))

Others ==
    /\ \A u \in Users : \A s \in screen[u] : s.other # u
    /\ \A u \in Users : ~Happened("asked", u, u)

Own == \A u \in Users \ due : CurrentOf(u)

CInv == IInv /\ Others /\ Own /\ (~racing => Calm)

-----------------------------------------------------------------------------
\* What a device sees of a document, with writes under way.

LEMMA ViewLast ==
    ASSUME NEW documents, NEW s \in Seq(Writes), NEW doc,
           NEW i \in 1..Len(s), s[i].doc = doc,
           \A j \in 1..Len(s) : s[j].doc = doc => j <= i
    PROVE  ViewIn(documents, s, doc) = s[i].profile
<1> DEFINE mine == {j \in DOMAIN s : s[j].doc = doc}
           last == CHOOSE k \in mine : \A j \in mine : j <= k
<1>1. DOMAIN s = 1..Len(s) /\ Len(s) \in Nat
    BY LenProperties
<1>2. i \in mine /\ \A j \in mine : j <= i /\ j \in Nat
    BY <1>1
<1>3. last = i
    <2> HIDE DEF mine
    <2>1. last \in mine /\ \A j \in mine : j <= last
        BY <1>2
    <2> HIDE DEF last
    <2> QED BY <1>2, <2>1
<1>4. ViewIn(documents, s, doc) = s[last].profile
    BY <1>2 DEF ViewIn
<1> QED BY <1>3, <1>4

LEMMA ViewNone ==
    ASSUME NEW documents, NEW s \in Seq(Writes), NEW doc,
           \A j \in 1..Len(s) : s[j].doc # doc
    PROVE  ViewIn(documents, s, doc) = documents[doc]
<1>1. DOMAIN s = 1..Len(s)
    BY LenProperties
<1> QED BY <1>1 DEF ViewIn

LEMMA ViewEmpty ==
    ASSUME NEW documents, NEW doc
    PROVE  ViewIn(documents, <<>>, doc) = documents[doc]
BY DEF ViewIn

OneMore(s, t, w) == /\ Len(t) = Len(s) + 1 /\ t[Len(s) + 1] = w
                    /\ \A j \in 1..Len(s) : t[j] = s[j]

OneLess(s, t) == /\ Len(s) # 0 /\ Len(t) = Len(s) - 1
                 /\ \A j \in 1..Len(s) - 1 : t[j] = s[j + 1]

\* One write more ...
LEMMA ViewGrown ==
    ASSUME NEW documents, NEW s \in Seq(Writes), NEW t \in Seq(Writes), NEW doc,
           NEW w \in Writes, OneMore(s, t, w)
    PROVE  ViewIn(documents, t, doc) =
               IF w.doc = doc THEN w.profile ELSE ViewIn(documents, s, doc)
<1> DEFINE n == Len(s)
<1>1. /\ t \in Seq(Writes) /\ Len(t) = n + 1 /\ t[n + 1] = w /\ n \in Nat
      /\ \A j \in 1..n : t[j] = s[j]
    BY LenProperties DEF OneMore
<1> HIDE DEF n
<1>2. CASE w.doc = doc
    <2> DEFINE i == n + 1
    <2>1. i \in 1..n + 1 /\ \A j \in 1..n + 1 : j <= i
        BY <1>1
    <2>2. t \in Seq(Writes) /\ i \in 1..Len(t) /\ t[i].doc = doc
        BY <1>1, <1>2, <2>1
    <2>3. \A j \in 1..Len(t) : t[j].doc = doc => j <= i
        BY <1>1, <2>1
    <2> HIDE DEF i
    <2>4. ViewIn(documents, t, doc) = t[i].profile
        BY <1>1, <2>2, <2>3, ViewLast
    <2> QED BY <1>1, <1>2, <2>4 DEF i
<1>3. CASE w.doc # doc
    <2>1. \A j \in 1..n + 1 : t[j].doc = doc => j \in 1..n /\ s[j].doc = doc
        BY <1>1, <1>3
    <2>2. CASE \A j \in 1..n : s[j].doc # doc
        <3>1. \A j \in 1..Len(t) : t[j].doc # doc
            BY <1>1, <2>1, <2>2
        <3>2. \A j \in 1..Len(s) : s[j].doc # doc
            BY <2>2 DEF n
        <3>3. ViewIn(documents, t, doc) = documents[doc]
            BY <1>1, <3>1, ViewNone
        <3>4. ViewIn(documents, s, doc) = documents[doc]
            BY <3>2, ViewNone
        <3> QED BY <1>3, <3>3, <3>4
    <2>3. CASE \E j \in 1..n : s[j].doc = doc
        <3> DEFINE mine == {j \in 1..n : s[j].doc = doc}
        <3>1. PICK i \in mine : \A j \in mine : j <= i
            BY <1>1, <2>3, LastExists
        <3>2. i \in 1..n /\ s[i].doc = doc /\ \A j \in 1..n : s[j].doc = doc => j <= i
            BY <3>1
        <3>3. i \in 1..n + 1 /\ t[i] = s[i] /\ \A j \in 1..n + 1 : t[j].doc = doc => j <= i
            BY <1>1, <2>1, <3>2
        <3>4. /\ i \in 1..Len(s) /\ i \in 1..Len(t) /\ t[i].doc = doc
              /\ \A j \in 1..Len(s) : s[j].doc = doc => j <= i
              /\ \A j \in 1..Len(t) : t[j].doc = doc => j <= i
            BY <1>1, <3>2, <3>3 DEF n
        <3> HIDE DEF mine
        <3>5. ViewIn(documents, s, doc) = s[i].profile
            BY <3>2, <3>4, ViewLast
        <3>6. ViewIn(documents, t, doc) = t[i].profile
            BY <1>1, <3>4, ViewLast
        <3> QED BY <1>3, <3>3, <3>5, <3>6
    <2> QED BY <2>2, <2>3
<1> QED BY <1>2, <1>3

LEMMA ViewAppend ==
    ASSUME NEW documents, NEW s \in Seq(Writes), NEW doc, NEW w \in Writes
    PROVE  ViewIn(documents, Append(s, w), doc) =
               IF w.doc = doc THEN w.profile ELSE ViewIn(documents, s, doc)
<1> DEFINE t == Append(s, w)
           n == Len(s)
<1>1. /\ t \in Seq(Writes) /\ Len(t) = n + 1 /\ t[n + 1] = w /\ n \in Nat
      /\ \A j \in 1..n : t[j] = s[j]
    BY AppendProperties, LenProperties
<1>2. t \in Seq(Writes) /\ OneMore(s, t, w)
    BY <1>1 DEF OneMore
<1> HIDE DEF t, n
<1>3. ViewIn(documents, t, doc) = IF w.doc = doc THEN w.profile ELSE ViewIn(documents, s, doc)
    BY <1>2, ViewGrown
<1> QED BY <1>3 DEF t

\* ... and one write less, which has arrived.
LEMMA ViewArrived ==
    ASSUME NEW documents, NEW arrived, NEW s \in Seq(Writes), NEW t \in Seq(Writes),
           OneLess(s, t), NEW doc,
           arrived[doc] = IF s[1].doc = doc THEN s[1].profile ELSE documents[doc]
    PROVE  ViewIn(arrived, t, doc) = ViewIn(documents, s, doc)
<1> DEFINE n == Len(s)
<1>1. /\ t \in Seq(Writes) /\ n \in Nat \ {0} /\ Len(t) = n - 1
      /\ \A j \in 1..n - 1 : t[j] = s[j + 1]
    BY LenProperties DEF OneLess
<1> HIDE DEF n
<1>2. arrived[doc] = IF s[1].doc = doc THEN s[1].profile ELSE documents[doc]
    OBVIOUS
<1>3. CASE \E j \in 1..n - 1 : t[j].doc = doc
    <2> DEFINE mine == {j \in 1..n - 1 : t[j].doc = doc}
    <2>1. PICK i \in mine : \A j \in mine : j <= i
        <3>1. n - 1 \in Nat
            BY <1>1
        <3> QED BY <1>3, <3>1, LastExists
    <2>2. /\ i \in 1..n - 1 /\ t[i].doc = doc
          /\ \A j \in 1..n - 1 : t[j].doc = doc => j <= i
        BY <2>1
    <2>3. i + 1 \in 1..n /\ s[i + 1] = t[i]
        BY <1>1, <2>2
    <2>4. ASSUME NEW j \in 1..n, s[j].doc = doc
          PROVE  j <= i + 1
        <3>1. CASE j = 1
            BY <1>1, <2>2, <3>1
        <3>2. CASE j # 1
            <4>1. j - 1 \in 1..n - 1 /\ (j - 1) + 1 = j
                BY <1>1, <3>2
            <4>2. j - 1 <= i
                BY <1>1, <2>2, <2>4, <4>1
            <4> QED BY <1>1, <2>2, <4>1, <4>2
        <3> QED BY <3>1, <3>2
    <2> DEFINE k == i + 1
    <2>5. t \in Seq(Writes) /\ i \in 1..Len(t) /\ t[i].doc = doc
        BY <1>1, <2>2
    <2>6. \A j \in 1..Len(t) : t[j].doc = doc => j <= i
        BY <1>1, <2>2
    <2>7. k \in 1..Len(s) /\ s[k].doc = doc /\ s[k] = t[i]
        BY <2>2, <2>3 DEF n
    <2>8. \A j \in 1..Len(s) : s[j].doc = doc => j <= k
        BY <2>4 DEF n
    <2> HIDE DEF mine, k
    <2>9. ViewIn(arrived, t, doc) = t[i].profile
        BY <2>5, <2>6, ViewLast, Zenon
    <2>10. ViewIn(documents, s, doc) = s[k].profile
        BY <2>7, <2>8, ViewLast
    <2> QED BY <2>7, <2>9, <2>10
<1>4. CASE \A j \in 1..n - 1 : t[j].doc # doc
    <2>1. ViewIn(arrived, t, doc) = arrived[doc]
        BY <1>1, <1>4, ViewNone
    <2>2. ASSUME NEW j \in 1..n, s[j].doc = doc
          PROVE  j = 1
        <3> SUFFICES ASSUME j # 1 PROVE FALSE
            OBVIOUS
        <3>1. j - 1 \in 1..n - 1 /\ (j - 1) + 1 = j
            BY <1>1
        <3> QED BY <1>1, <1>4, <2>2, <3>1
    <2>3. CASE s[1].doc = doc
        <3>1. 1 \in 1..Len(s) /\ \A j \in 1..Len(s) : s[j].doc = doc => j <= 1
            BY <1>1, <2>2 DEF n
        <3>2. ViewIn(documents, s, doc) = s[1].profile
            BY <2>3, <3>1, ViewLast
        <3> QED BY <1>2, <2>1, <2>3, <3>2
    <2>4. CASE s[1].doc # doc
        <3>1. \A j \in 1..Len(s) : s[j].doc # doc
            BY <2>2, <2>4 DEF n
        <3>2. ViewIn(documents, s, doc) = documents[doc]
            BY <3>1, ViewNone
        <3> QED BY <1>2, <2>1, <2>4, <3>2
    <2> QED BY <2>3, <2>4
<1> QED BY <1>3, <1>4

LEMMA ViewTail ==
    ASSUME NEW documents \in [Users -> Profile], NEW s \in Seq(Writes), s # <<>>,
           NEW doc \in Users
    PROVE  ViewIn([documents EXCEPT ![Head(s).doc] = Head(s).profile], Tail(s), doc) =
               ViewIn(documents, s, doc)
<1> DEFINE t == Tail(s)
           n == Len(s)
           arrived == [documents EXCEPT ![Head(s).doc] = Head(s).profile]
<1>1. /\ t \in Seq(Writes) /\ n \in Nat \ {0} /\ Len(t) = n - 1 /\ Head(s) = s[1]
      /\ \A j \in 1..n - 1 : t[j] = s[j + 1]
    <2>1. n \in Nat /\ n # 0
        BY LenProperties, EmptySeq
    <2> QED BY <2>1, HeadTailProperties
<1>2. arrived[doc] = IF s[1].doc = doc THEN s[1].profile ELSE documents[doc]
    BY <1>1
<1>3. t \in Seq(Writes) /\ OneLess(s, t)
    BY <1>1 DEF OneLess
<1> HIDE DEF t, arrived
<1>4. ViewIn(arrived, t, doc) = ViewIn(documents, s, doc)
    BY <1>2, <1>3, ViewArrived
<1> QED BY <1>4 DEF t, arrived

-----------------------------------------------------------------------------
\* What is seen after a step.

LEMMA SeenTyped ==
    ASSUME IInv, NEW u \in Users
    PROVE  /\ out[u] \in Seq(Writes)
           /\ \A doc \in Users : View(u, doc) \in Profile
<1>1. TrueWrite(history) \subseteq Writes
    BY DEF TrueWrite, Writes
<1>2. Seq(TrueWrite(history)) \subseteq Seq(Writes)
    BY <1>1, SeqMonotonic
<1>3. out[u] \in Seq(Writes)
    BY <1>2 DEF IInv
<1>4. \A doc \in Users : View(u, doc) \in Profile
    BY ViewIsTrue DEF TrueProfile
<1> QED BY <1>3, <1>4

\* Only u's own view changes when u writes; u is due a snapshot if it is of
\* u's own document.
LEMMA WroteSome ==
    ASSUME IInv, NEW u \in Users, NEW writes, Write(u, writes)
    PROVE  /\ \A v \in Users \ {u} : out'[v] = out[v]
           /\ out'[u] = out[u] \o writes
           /\ due \subseteq due'
BY DEF IInv, Write

LEMMA WroteOne ==
    ASSUME IInv, NEW u \in Users, NEW w \in Writes, Write(u, <<w>>), server' = server
    PROVE  /\ \A v \in Users \ {u} : out'[v] = out[v]
           /\ \A v \in Users \ {u} : \A doc \in Users : View(v, doc)' = View(v, doc)
           /\ \A doc \in Users : View(u, doc)' = IF doc = w.doc THEN w.profile ELSE View(u, doc)
           /\ out'[u] # <<>>
           /\ due \subseteq due'
<1>1. out[u] \in Seq(Writes)
    BY SeenTyped
<1>2. /\ \A v \in Users \ {u} : out'[v] = out[v]
      /\ out'[u] = out[u] \o <<w>> /\ due \subseteq due'
    BY WroteSome
<1>3. out'[u] = Append(out[u], w)
    BY <1>1, <1>2, AppendIsConcat
<1>4. out'[u] # <<>>
    BY <1>1, <1>3, AppendProperties
<1>5. \A v \in Users \ {u} : \A doc \in Users : View(v, doc)' = View(v, doc)
    BY <1>2 DEF View
<1>6. ASSUME NEW doc \in Users
      PROVE  View(u, doc)' = IF doc = w.doc THEN w.profile ELSE View(u, doc)
    <2>1. ViewIn(server, Append(out[u], w), doc) =
              IF w.doc = doc THEN w.profile ELSE ViewIn(server, out[u], doc)
        BY <1>1, ViewAppend
    <2> QED BY <1>3, <2>1 DEF View
<1> QED BY <1>2, <1>4, <1>5, <1>6

LEMMA PairIsConcat ==
    ASSUME NEW S, NEW w \in S, NEW x \in S
    PROVE  <<w>> \in Seq(S) /\ <<x>> \in Seq(S) /\ <<w>> \o <<x>> = <<w, x>>
<1> DEFINE one == <<w>>
           other == <<x>>
           both == one \o other
           pair == <<w, x>>
<1>1. /\ one \in Seq(S) /\ Len(one) = 1 /\ one[1] = w
      /\ other \in Seq(S) /\ Len(other) = 1 /\ other[1] = x
    OBVIOUS
<1>2. pair \in Seq(S) /\ Len(pair) = 2 /\ pair[1] = w /\ pair[2] = x
    OBVIOUS
<1> HIDE DEF one, other, pair
<1>3. both \in Seq(S) /\ Len(both) = 2 /\ both[1] = w /\ both[2] = x
    <2>1. /\ both \in Seq(S) /\ Len(both) = Len(one) + Len(other)
          /\ \A i \in 1..Len(one) + Len(other) :
                 both[i] = IF i <= Len(one) THEN one[i] ELSE other[i - Len(one)]
        BY <1>1, ConcatProperties
    <2> QED BY <1>1, <2>1
<1> HIDE DEF both
<1>4. Len(both) = Len(pair) /\ \A i \in 1..Len(both) : both[i] = pair[i]
    BY <1>2, <1>3
<1>5. both = pair
    BY <1>2, <1>3, <1>4, SeqEqual
<1> QED BY <1>1, <1>5 DEF one, other, both, pair

LEMMA WroteTwo ==
    ASSUME IInv, NEW u \in Users, NEW w \in Writes, NEW x \in Writes,
           Write(u, <<w, x>>), server' = server
    PROVE  /\ \A v \in Users \ {u} : out'[v] = out[v]
           /\ \A v \in Users \ {u} : \A doc \in Users : View(v, doc)' = View(v, doc)
           /\ \A doc \in Users : View(u, doc)' =
                  IF doc = x.doc THEN x.profile
                  ELSE IF doc = w.doc THEN w.profile ELSE View(u, doc)
           /\ out'[u] # <<>>
           /\ due \subseteq due'
<1> DEFINE one == Append(out[u], w)
<1>1. out[u] \in Seq(Writes)
    BY SeenTyped
<1>2. /\ \A v \in Users \ {u} : out'[v] = out[v]
      /\ out'[u] = out[u] \o <<w, x>> /\ due \subseteq due'
    BY WroteSome
<1>3. one \in Seq(Writes)
    BY <1>1, AppendProperties
<1>4. out'[u] = Append(one, x)
    <2>1. one = out[u] \o <<w>> /\ Append(one, x) = one \o <<x>>
        BY <1>1, <1>3, AppendIsConcat
    <2>2. <<w>> \in Seq(Writes) /\ <<x>> \in Seq(Writes) /\ <<w>> \o <<x>> = <<w, x>>
        BY PairIsConcat
    <2>3. (out[u] \o <<w>>) \o <<x>> = out[u] \o (<<w>> \o <<x>>)
        BY <1>1, <2>2, ConcatAssociative
    <2> QED BY <1>2, <2>1, <2>2, <2>3
<1>5. out'[u] # <<>>
    BY <1>3, <1>4, AppendProperties
<1>6. \A v \in Users \ {u} : \A doc \in Users : View(v, doc)' = View(v, doc)
    BY <1>2 DEF View
<1>7. ASSUME NEW doc \in Users
      PROVE  View(u, doc)' = IF doc = x.doc THEN x.profile
                             ELSE IF doc = w.doc THEN w.profile ELSE View(u, doc)
    <2>1. ViewIn(server, one, doc) =
              IF w.doc = doc THEN w.profile ELSE ViewIn(server, out[u], doc)
        BY <1>1, ViewAppend
    <2> HIDE DEF one
    <2>2. ViewIn(server, Append(one, x), doc) =
              IF x.doc = doc THEN x.profile ELSE ViewIn(server, one, doc)
        BY <1>3, ViewAppend
    <2> QED BY <1>4, <2>1, <2>2 DEF View
<1> QED BY <1>2, <1>5, <1>6, <1>7

-----------------------------------------------------------------------------
\* Nobody opens the own profile, or asks it.

LEMMA OthersStay == IInv /\ Others /\ [Next]_vars => Others'
<1> SUFFICES ASSUME IInv, Others, [Next]_vars PROVE Others'
    OBVIOUS
<1>1. CASE UNCHANGED vars
    BY <1>1 DEF vars, Others, Happened
<1>2. ASSUME NEW u \in Users, Act(u)
      PROVE  Others'
    <2>1. screen \in [Users -> SUBSET Container] /\ me[u] \in TrueProfile(history, u)
        BY DEF IInv
    <2>2. CASE UNCHANGED <<screen, history>>
        BY <2>2 DEF Others, Happened
    <2>3. CASE history' = history /\ screen' = [screen EXCEPT ![u] = {}]
        BY <2>1, <2>3 DEF Others, Happened
    <2>4. ASSUME NEW other \in Users, Open(u, other)
          PROVE  Others'
        BY <2>1, <2>4 DEF Others, Happened, Open
    <2>5. ASSUME NEW other \in Users, OpenRequest(u, other)
          PROVE  Others'
        <3>1. Occurred(history, "asked", other, u)
            BY <2>1, <2>5 DEF OpenRequest, TrueProfile
        <3>2. other # u
            BY <3>1 DEF Others, Happened, Occurred
        <3> QED BY <2>1, <2>5, <3>2 DEF Others, Happened, OpenRequest
    <2>6. CASE UpdateFriendStatus(u)
        BY <2>1, <2>6 DEF Others, Happened, UpdateFriendStatus, Container
    <2>7. CASE SendFriendRequest(u)
        <3>1. PICK s \in screen[u] :
                  /\ screen' = [screen EXCEPT ![u] = {[s EXCEPT !.profile =
                         [s.profile EXCEPT !.friendRequests = Add(@, u)]]}]
                  /\ history' = history \cup {[what |-> "asked", by |-> u, of |-> s.other]}
            BY <2>7 DEF SendFriendRequest, SaveOther, Record
        <3>2. s \in Container /\ s.other # u
            BY <2>1 DEF Others
        <3>3. \A w \in Users : ~Happened("asked", w, w)'
            BY <3>1, <3>2 DEF Others, Happened
        <3> QED BY <2>1, <3>1, <3>2, <3>3 DEF Others, Container
    <2>8. CASE CancelFriendRequest(u)
        BY <2>1, <2>8 DEF Others, Happened, CancelFriendRequest, SaveOther, Container
    <2>9. CASE Accept(u)
        <3>1. PICK s \in screen[u] : \E profile :
                  /\ screen' = [screen EXCEPT ![u] = {[s EXCEPT !.profile = profile]}]
                  /\ history' = history \cup {[what |-> "tapped", by |-> u, of |-> s.other]}
            BY <2>9 DEF Accept, Record
        <3>2. s \in Container /\ s.other # u
            BY <2>1 DEF Others
        <3>3. \A w \in Users : ~Happened("asked", w, w)'
            BY <3>1 DEF Others, Happened
        <3> QED BY <2>1, <3>1, <3>2, <3>3 DEF Others, Container
    <2>10. CASE AcceptFails(u)
        <3>1. PICK s \in screen[u] :
                  /\ screen' = screen
                  /\ history' = history \cup
                         {[what |-> w, by |-> u, of |-> s.other] : w \in {"tapped", "failed"}}
            BY <2>10 DEF AcceptFails, Record
        <3>2. \A w \in Users : ~Happened("asked", w, w)'
            BY <3>1 DEF Others, Happened
        <3> QED BY <3>1, <3>2 DEF Others
    <2> QED BY <1>2, <2>2, <2>3, <2>4, <2>5, <2>6, <2>7, <2>8, <2>9, <2>10
            DEF Act, Deliver, Snapshot, Decline, SaveMine, Relaunch
<1> QED BY <1>1, <1>2 DEF Next

-----------------------------------------------------------------------------
\* The own profile is the one saved.

\* What a step does not touch stays current.
LEMMA StillCurrent ==
    ASSUME NEW u \in Users, CurrentOf(u), me'[u] = me[u], View(u, u)' = View(u, u),
           history \subseteq history'
    PROVE  CurrentOf(u)'
BY DEF CurrentOf, Happened

LEMMA ExactIsCurrent ==
    ASSUME NEW u \in Users, me'[u] = View(u, u)'
    PROVE  CurrentOf(u)'
BY DEF CurrentOf

LEMMA OwnDeliver ==
    ASSUME IInv, Own, NEW u \in Users, Deliver(u)
    PROVE  Own'
<1> SUFFICES ASSUME NEW w \in Users, w \notin due' PROVE CurrentOf(w)'
    BY DEF Own
<1>1. w \notin due /\ ViewIn(server', out'[w], w) = View(w, w)
    BY DEF Deliver
<1>2. View(w, w)' = View(w, w)
    BY <1>1 DEF View
<1>3. me' = me /\ history' = history
    BY DEF Deliver
<1> QED BY <1>1, <1>2, <1>3, StillCurrent DEF Own

LEMMA OwnReload ==
    ASSUME IInv, Own, NEW u \in Users, Snapshot(u) \/ Relaunch(u)
    PROVE  Own'
<1> SUFFICES ASSUME NEW w \in Users, w \notin due' PROVE CurrentOf(w)'
    BY DEF Own
<1>1. /\ View(w, w)' = View(w, w) /\ history' = history
      /\ me' = [me EXCEPT ![u] = View(u, u)] /\ due' = due \ {u}
    BY DEF Snapshot, Relaunch, View
<1>2. CASE w = u
    BY <1>1, <1>2, ExactIsCurrent DEF IInv
<1>3. CASE w # u
    BY <1>1, <1>3, StillCurrent DEF IInv, Own
<1> QED BY <1>2, <1>3

\* Another user's profile is changed and saved.
LEMMA OwnSaveOther ==
    ASSUME IInv, Others, Own, NEW u \in Users, NEW s \in screen[u], NEW profile \in Profile,
           SaveOther(u, s, profile), history \subseteq history',
           UNCHANGED <<server, me>>
    PROVE  Own'
<1> SUFFICES ASSUME NEW w \in Users, w \notin due' PROVE CurrentOf(w)'
    BY DEF Own
<1>1. s.other \in Users /\ s.other # u
    BY OnScreen DEF Others
<1> DEFINE x == [doc |-> s.other, profile |-> profile]
<1>2. x \in Writes /\ x.doc = s.other /\ Write(u, <<x>>)
    BY <1>1 DEF Writes, SaveOther
<1> HIDE DEF x
<1>3. View(w, w)' = View(w, w) /\ w \notin due
    BY <1>1, <1>2, WroteOne
<1> QED BY <1>3, StillCurrent DEF Own

\* The own profile is changed and saved, ...
LEMMA OwnSaved ==
    ASSUME IInv, Own, NEW u \in Users, NEW profile \in Profile,
           me' = [me EXCEPT ![u] = profile],
           Write(u, <<[doc |-> u, profile |-> profile]>>), UNCHANGED <<server, history>>
    PROVE  Own'
<1> SUFFICES ASSUME NEW w \in Users, w \notin due' PROVE CurrentOf(w)'
    BY DEF Own
<1> DEFINE x == [doc |-> u, profile |-> profile]
<1>1. x \in Writes /\ x.doc = u /\ x.profile = profile /\ Write(u, <<x>>)
    BY DEF Writes
<1> HIDE DEF x
<1>2. CASE w = u
    <2>1. View(u, u)' = profile
        BY <1>1, WroteOne
    <2> QED BY <1>2, <2>1, ExactIsCurrent DEF IInv
<1>3. CASE w # u
    <2>1. View(w, w)' = View(w, w) /\ w \notin due
        BY <1>1, <1>3, WroteOne
    <2> QED BY <1>3, <2>1, StillCurrent DEF IInv, Own
<1> QED BY <1>2, <1>3

\* ... with the friend's,
LEMMA OwnAccept ==
    ASSUME IInv, Others, Own, NEW u \in Users, Accept(u), IInv'
    PROVE  Own'
<1> SUFFICES ASSUME NEW w \in Users, w \notin due' PROVE CurrentOf(w)'
    BY DEF Own
<1>1. PICK s \in screen[u] :
          LET mine == [me[u] EXCEPT !.friends = Add(@, s.other),
                                    !.friendRequests = Remove(@, s.other)]
              theirs == [s.profile EXCEPT !.friends = Add(@, u)]
          IN  /\ me' = [me EXCEPT ![u] = mine]
              /\ Write(u, <<[doc |-> u, profile |-> mine],
                            [doc |-> s.other, profile |-> theirs]>>)
              /\ history \subseteq history'
    BY DEF Accept, Record
<1> DEFINE theirs == [s.profile EXCEPT !.friends = Add(@, u)]
           x == [doc |-> u, profile |-> me'[u]]
           y == [doc |-> s.other, profile |-> theirs]
<1>2. s.other \in Users /\ s.other # u /\ s.profile \in Profile
    BY OnScreen DEF Others
<1>3. theirs \in Profile
    BY <1>2, ArrayType DEF Profile
<1>4. /\ me'[u] = [me[u] EXCEPT !.friends = Add(@, s.other),
                                !.friendRequests = Remove(@, s.other)]
      /\ \A v \in Users \ {u} : me'[v] = me[v]
    BY <1>1 DEF IInv
<1>5. me'[u] \in Profile /\ server' = server
    BY DEF IInv, Accept
<1>6. Write(u, <<x, y>>)
    BY <1>1, <1>4
<1>7. x \in Writes /\ y \in Writes /\ x.doc = u /\ x.profile = me'[u] /\ y.doc = s.other
    BY <1>2, <1>3, <1>5 DEF Writes
<1> HIDE DEF theirs, x, y
<1>8. CASE w = u
    <2>1. View(u, u)' = me'[u]
        BY <1>2, <1>5, <1>6, <1>7, WroteTwo
    <2> QED BY <1>8, <2>1, ExactIsCurrent
<1>9. CASE w # u
    <2>1. View(w, w)' = View(w, w) /\ w \notin due
        BY <1>5, <1>6, <1>7, <1>9, WroteTwo
    <2> QED BY <1>1, <1>4, <1>9, <2>1, StillCurrent DEF Own
<1> QED BY <1>8, <1>9

\* ... or changed and not saved, which is recorded.
LEMMA OwnAcceptFails ==
    ASSUME IInv, Own, NEW u \in Users, AcceptFails(u)
    PROVE  Own'
<1> SUFFICES ASSUME NEW w \in Users, w \notin due' PROVE CurrentOf(w)'
    BY DEF Own
<1>1. PICK s \in screen[u] :
          /\ me' = [me EXCEPT ![u].friends = Add(@, s.other)]
          /\ Record({[what |-> e, by |-> u, of |-> s.other] : e \in {"tapped", "failed"}})
    BY DEF AcceptFails
<1>2. s.other \in Users /\ w \notin due /\ CurrentOf(w)
    BY OnScreen DEF Own, AcceptFails
<1>3. View(w, w)' = View(w, w) /\ history \subseteq history'
    BY <1>1 DEF AcceptFails, View, Record
<1>4. CASE w # u
    BY <1>1, <1>2, <1>3, <1>4, StillCurrent DEF IInv
<1>5. CASE w = u
    <2>1. me[u].friends \in Bag /\ View(u, u).friends \in Bag
        BY SeenTyped DEF IInv, Profile
    <2>2. /\ me'[u].friendRequests = me[u].friendRequests
          /\ me'[u].friends = Add(me[u].friends, s.other)
        BY <1>1 DEF IInv, Profile
    <2>3. Happened("failed", u, s.other)'
        BY <1>1 DEF Record, Happened
    <2>4. ASSUME NEW v \in Users
          PROVE  \/ me'[u].friends[v] = View(u, u).friends[v]
                 \/ /\ me'[u].friends[v] > View(u, u).friends[v]
                    /\ Happened("failed", u, v)'
        <3>1. \/ me[u].friends[v] = View(u, u).friends[v]
              \/ /\ me[u].friends[v] > View(u, u).friends[v]
                 /\ Happened("failed", u, v)'
            BY <1>2, <1>3, <1>5 DEF CurrentOf, Happened
        <3>2. me[u].friends[v] \in Nat /\ View(u, u).friends[v] \in Nat
            BY <2>1 DEF Bag
        <3>3. me'[u].friends[v] = IF v = s.other THEN me[u].friends[v] + 1
                                                 ELSE me[u].friends[v]
            BY <1>2, <2>1, <2>2 DEF Add, Bag
        <3> QED BY <2>3, <3>1, <3>2, <3>3
    <2> QED BY <1>2, <1>3, <1>5, <2>2, <2>4 DEF CurrentOf
<1> QED BY <1>4, <1>5

LEMMA OwnStays == IInv /\ Others /\ Own /\ [Next]_vars => Own'
<1> SUFFICES ASSUME IInv, Others, Own, [Next]_vars PROVE Own'
    OBVIOUS
<1>1. CASE UNCHANGED <<server, out, due, me, history>>
    BY <1>1 DEF Own, CurrentOf, View, Happened
<1>2. ASSUME NEW u \in Users, SendFriendRequest(u)
      PROVE  Own'
    <2>1. PICK s \in screen[u] :
              /\ SaveOther(u, s, [s.profile EXCEPT !.friendRequests = Add(@, u)])
              /\ history \subseteq history'
        BY <1>2 DEF SendFriendRequest, Record
    <2>2. [s.profile EXCEPT !.friendRequests = Add(@, u)] \in Profile
        BY OnScreen, ArrayType DEF Profile
    <2> QED BY <1>2, <2>1, <2>2, OwnSaveOther DEF SendFriendRequest
<1>3. ASSUME NEW u \in Users, CancelFriendRequest(u)
      PROVE  Own'
    <2>1. PICK s \in screen[u] :
              /\ s.profile.friendRequests[u] > 0
              /\ SaveOther(u, s, [s.profile EXCEPT !.friendRequests = Remove(@, u)])
        BY <1>3 DEF CancelFriendRequest
    <2>2. [s.profile EXCEPT !.friendRequests = Remove(@, u)] \in Profile
        BY <2>1, OnScreen, ArrayType DEF Profile
    <2> QED BY <1>3, <2>1, <2>2, OwnSaveOther DEF CancelFriendRequest
<1>4. ASSUME NEW u \in Users, Decline(u)
      PROVE  Own'
    <2>1. PICK s \in screen[u] :
              /\ me[u].friendRequests[s.other] > 0
              /\ me' = [me EXCEPT ![u].friendRequests = Remove(@, s.other)]
              /\ Write(u, <<[doc |-> u, profile |-> me'[u]]>>)
        BY <1>4 DEF Decline
    <2> DEFINE mine == [me[u] EXCEPT !.friendRequests = Remove(@, s.other)]
    <2>2. me[u] \in Profile /\ s.other \in Users
        BY OnScreen DEF IInv
    <2>3. mine \in Profile
        BY <2>1, <2>2, ArrayType DEF Profile
    <2>4. me' = [me EXCEPT ![u] = mine] /\ me'[u] = mine
        BY <2>1 DEF IInv
    <2> HIDE DEF mine
    <2> QED BY <1>4, <2>1, <2>3, <2>4, OwnSaved DEF Decline
<1>5. ASSUME NEW u \in Users, SaveMine(u)
      PROVE  Own'
    <2>1. me[u] \in Profile /\ me' = [me EXCEPT ![u] = me[u]]
        BY <1>5 DEF IInv, SaveMine
    <2> QED BY <1>5, <2>1, OwnSaved DEF SaveMine
<1>6. ASSUME NEW u \in Users, Accept(u), Next
      PROVE  Own'
    BY <1>6, NextTrue, OwnAccept
<1> QED BY <1>1, <1>2, <1>3, <1>4, <1>5, <1>6, OwnDeliver, OwnReload, OwnAcceptFails
        DEF vars, Next, Act, Open, OpenRequest, UpdateFriendStatus

-----------------------------------------------------------------------------
\* The four operations keep friendship mutual, when it is and when what they rely
\* on is so.

LEMMA MutualSend ==
    ASSUME NEW p \in [Users -> Profile], Mutual(p), NEW u \in Users, NEW v \in Users, u # v,
           p[v].friends[u] = 0, p[v].friendRequests[u] = 0,
           NEW q \in [Users -> Profile],
           q = [p EXCEPT ![v] = [p[v] EXCEPT !.friendRequests = Add(@, u)]]
    PROVE  Mutual(q)
<1>1. \A x \in Users : q[x].friends = p[x].friends
    BY DEF Profile
<1>2. \A x, y \in Users : q[x].friendRequests[y] =
          IF x = v /\ y = u THEN 1 ELSE p[x].friendRequests[y]
    BY DEF Profile, Bag, Add
<1> QED BY <1>1, <1>2 DEF Mutual

LEMMA MutualRemove ==
    ASSUME NEW p \in [Users -> Profile], Mutual(p), NEW u \in Users, NEW v \in Users, u # v,
           p[v].friendRequests[u] > 0,
           NEW q \in [Users -> Profile],
           q = [p EXCEPT ![v] = [p[v] EXCEPT !.friendRequests = Remove(@, u)]]
    PROVE  Mutual(q)
<1>1. \A x \in Users : q[x].friends = p[x].friends
    BY DEF Profile
<1>2. p[v].friendRequests[u] = 1
    BY DEF Mutual, Profile, Bag
<1>3. \A x, y \in Users : q[x].friendRequests[y] =
          IF x = v /\ y = u THEN 0 ELSE p[x].friendRequests[y]
    BY <1>2 DEF Profile, Bag, Remove
<1> QED BY <1>1, <1>3 DEF Mutual

LEMMA MutualAccept ==
    ASSUME NEW p \in [Users -> Profile], Mutual(p), NEW u \in Users, NEW v \in Users, u # v,
           p[u].friends[v] = 0, p[v].friendRequests[u] = 0, p[u].friendRequests[v] > 0,
           NEW q \in [Users -> Profile],
           q[u].friends = Add(p[u].friends, v), q[u].friendRequests = Remove(p[u].friendRequests, v),
           q[v].friends = Add(p[v].friends, u), q[v].friendRequests = p[v].friendRequests,
           \A x \in Users \ {u, v} : q[x] = p[x]
    PROVE  Mutual(q)
<1>1. p[u].friendRequests[v] = 1 /\ p[v].friends[u] = 0
    BY DEF Mutual, Profile, Bag
<1>2. \A x, y \in Users : q[x].friends[y] =
          IF (x = v /\ y = u) \/ (x = u /\ y = v) THEN 1 ELSE p[x].friends[y]
    <2>1. \A y \in Users : q[u].friends[y] = IF y = v THEN 1 ELSE p[u].friends[y]
        BY DEF Profile, Bag, Add
    <2>2. \A y \in Users : q[v].friends[y] = IF y = u THEN 1 ELSE p[v].friends[y]
        BY <1>1 DEF Profile, Bag, Add
    <2> QED BY <2>1, <2>2
<1>3. \A x, y \in Users : q[x].friendRequests[y] =
          IF x = u /\ y = v THEN 0 ELSE p[x].friendRequests[y]
    <2>1. \A y \in Users : q[u].friendRequests[y] = IF y = v THEN 0 ELSE p[u].friendRequests[y]
        BY <1>1 DEF Profile, Bag, Remove
    <2>2. q[v].friendRequests = p[v].friendRequests
        BY DEF Profile
    <2> QED BY <2>1, <2>2
<1> QED BY <1>1, <1>2, <1>3 DEF Mutual

-----------------------------------------------------------------------------
\* In the calm.

LEMMA SeenIsTyped ==
    ASSUME IInv, NEW u \in Users
    PROVE  Seen(u) \in [Users -> Profile]
BY SeenTyped DEF Seen

\* What a tap relies on, when everything is settled.
LEMMA InTheCalm ==
    ASSUME IInv, Own, Calm, Settled, NEW u \in Users
    PROVE  /\ Mutual(server)
           /\ me[u] = server[u]
           /\ Seen(u) = server
           /\ \A doc \in Users : View(u, doc) = server[doc]
<1>1. \A doc \in Users : View(u, doc) = server[doc]
    BY ViewEmpty DEF Settled, View
<1>2. Seen(u) = server
    BY <1>1 DEF Seen, IInv
<1>3. Mutual(server)
    BY <1>2 DEF Calm, Settled
<1>4. me[u] = server[u]
    <2>1. me[u] \in Profile /\ server[u] \in Profile
        BY DEF IInv
    <2>2. me[u].friendRequests = server[u].friendRequests
        BY <1>1 DEF Own, CurrentOf, Settled
    <2>3. \A v \in Users : me[u].friends[v] = server[u].friends[v]
        BY <1>1 DEF Own, CurrentOf, Settled, Calm
    <2>4. me[u].friends = server[u].friends
        BY <2>1, <2>3 DEF Profile, Bag
    <2> QED BY <2>1, <2>2, <2>4 DEF Profile
<1> QED BY <1>1, <1>2, <1>3, <1>4

\* The one device that now has writes under way sees what will be.
LEMMA CalmWrote ==
    ASSUME Settled, NEW u \in Users, out'[u] # <<>>,
           \A v \in Users \ {u} : out'[v] = out[v],
           Mutual(Seen(u)'), \A v, w \in Users : ~Happened("failed", v, w)'
    PROVE  Calm'
<1>1. \A v \in Users \ {u} : out'[v] = <<>>
    BY DEF Settled
<1> QED BY <1>1 DEF Calm

LEMMA CalmDeliver ==
    ASSUME IInv, Calm, NEW u \in Users, Deliver(u)
    PROVE  Calm'
<1>1. /\ out[u] # <<>> /\ out' = [out EXCEPT ![u] = Tail(@)]
      /\ server' = [server EXCEPT ![Head(out[u]).doc] = Head(out[u]).profile]
      /\ history' = history
    BY DEF Deliver
<1>2. out[u] \in Seq(Writes) /\ server \in [Users -> Profile] /\ out'[u] = Tail(out[u])
    BY <1>1, SeenTyped DEF IInv
<1>3. \A v \in Users \ {u} : out[v] = <<>> /\ out'[v] = <<>>
    BY <1>1 DEF Calm, IInv
<1>4. Mutual(Seen(u))
    BY <1>3 DEF Calm
<1>5. ASSUME NEW doc \in Users
      PROVE  ViewIn(server', out'[u], doc) = View(u, doc)
    BY <1>1, <1>2, ViewTail DEF View
<1>6. Seen(u)' = Seen(u)
    BY <1>5 DEF Seen, View
<1>7. ASSUME NEW w \in Users, \A v \in Users \ {w} : out'[v] = <<>>
      PROVE  Mutual(Seen(w)')
    <2>1. CASE w = u
        BY <1>4, <1>6, <2>1
    <2>2. CASE w # u
        <3>1. out'[w] = out'[u]
            BY <1>3, <1>7, <2>2
        <3>2. Seen(w)' = Seen(u)'
            BY <3>1 DEF Seen, View
        <3> QED BY <1>4, <1>6, <3>2
    <2> QED BY <2>1, <2>2
<1>8. \A v, w \in Users : ~Happened("failed", v, w)'
    BY <1>1 DEF Calm, Happened
<1> QED BY <1>3, <1>7, <1>8 DEF Calm

\* Another user's profile is changed and saved.
LEMMA CalmSaveOther ==
    ASSUME IInv, Others, Own, Calm, Settled,
           NEW u \in Users, NEW s \in screen[u], NEW profile \in Profile,
           SaveOther(u, s, profile), server' = server,
           Mutual([server EXCEPT ![s.other] = profile]),
           \A v, w \in Users : ~Happened("failed", v, w)'
    PROVE  Calm'
<1> DEFINE x == [doc |-> s.other, profile |-> profile]
<1>1. s.other \in Users
    BY OnScreen
<1>2. x \in Writes /\ x.doc = s.other /\ x.profile = profile /\ Write(u, <<x>>)
    BY <1>1 DEF Writes, SaveOther
<1> HIDE DEF x
<1>3. /\ out'[u] # <<>> /\ \A v \in Users \ {u} : out'[v] = out[v]
      /\ \A doc \in Users : View(u, doc)' = IF doc = s.other THEN profile ELSE server[doc]
    BY <1>2, WroteOne, InTheCalm
<1>4. Seen(u)' = [server EXCEPT ![s.other] = profile]
    BY <1>1, <1>3 DEF Seen, IInv
<1> QED BY <1>3, <1>4, CalmWrote

LEMMA CalmSend ==
    ASSUME IInv, Others, Own, Calm, ~racing, NEW u \in Users, SendFriendRequest(u)
    PROVE  Calm'
<1>1. PICK s \in screen[u] :
          /\ s.status = "Nothing" /\ Current(u, s)
          /\ SaveOther(u, s, [s.profile EXCEPT !.friendRequests = Add(@, u)])
          /\ Record({[what |-> "asked", by |-> u, of |-> s.other]})
    BY DEF SendFriendRequest
<1> DEFINE v == s.other
           profile == [server[v] EXCEPT !.friendRequests = Add(@, u)]
           after == [server EXCEPT ![v] = profile]
<1>2. v \in Users /\ u # v /\ s.profile = server[v] /\ server \in [Users -> Profile]
    BY <1>1, OnScreen DEF Others, Current, IInv
<1>3. Settled /\ Mutual(server) /\ me[u] = server[u]
    BY <1>1, InTheCalm DEF Current
<1>4. profile \in Profile /\ after \in [Users -> Profile]
    BY <1>2, ArrayType DEF Profile
<1>5. Status(u, v, server[v]) = "Nothing"
    BY <1>1, <1>2 DEF Current
<1>6. /\ server[u].friends[v] = 0 /\ server[v].friendRequests[u] = 0
      /\ server[v].friends[u] = 0
    <2>1. ~(server[u].friends[v] > 0) /\ ~(server[v].friendRequests[u] > 0)
        BY <1>3, <1>5 DEF Status
    <2>2. server[u].friends[v] \in Nat /\ server[v].friendRequests[u] \in Nat
        BY <1>2 DEF Profile, Bag
    <2> QED BY <1>2, <1>3, <2>1, <2>2 DEF Mutual
<1>7. Mutual(after)
    BY <1>2, <1>3, <1>4, <1>6, MutualSend
<1>8. \A x, y \in Users : ~Happened("failed", x, y)'
    BY <1>1 DEF Calm, Record, Happened
<1>9. SaveOther(u, s, profile) /\ server' = server
    BY <1>1, <1>2 DEF SendFriendRequest
<1> HIDE DEF profile
<1> QED BY <1>3, <1>4, <1>7, <1>8, <1>9, CalmSaveOther

LEMMA CalmCancel ==
    ASSUME IInv, Others, Own, Calm, ~racing, NEW u \in Users, CancelFriendRequest(u)
    PROVE  Calm'
<1>1. PICK s \in screen[u] :
          /\ Current(u, s) /\ s.profile.friendRequests[u] > 0
          /\ SaveOther(u, s, [s.profile EXCEPT !.friendRequests = Remove(@, u)])
    BY DEF CancelFriendRequest
<1> DEFINE v == s.other
           profile == [server[v] EXCEPT !.friendRequests = Remove(@, u)]
           after == [server EXCEPT ![v] = profile]
<1>2. v \in Users /\ u # v /\ s.profile = server[v] /\ server \in [Users -> Profile]
    BY <1>1, OnScreen DEF Others, Current, IInv
<1>3. Settled /\ Mutual(server)
    BY <1>1, InTheCalm DEF Current
<1>4. profile \in Profile /\ after \in [Users -> Profile]
    BY <1>1, <1>2, ArrayType DEF Profile
<1>5. Mutual(after)
    BY <1>1, <1>2, <1>3, <1>4, MutualRemove
<1>6. \A x, y \in Users : ~Happened("failed", x, y)'
    BY DEF Calm, CancelFriendRequest, Happened
<1>7. SaveOther(u, s, profile) /\ server' = server
    BY <1>1, <1>2 DEF CancelFriendRequest
<1> HIDE DEF profile
<1> QED BY <1>3, <1>4, <1>5, <1>6, <1>7, CalmSaveOther

\* Only the own profile is changed and saved.
LEMMA CalmDecline ==
    ASSUME IInv, Others, Own, Calm, ~racing, NEW u \in Users, Decline(u)
    PROVE  Calm'
<1>1. PICK s \in screen[u] :
          /\ Current(u, s) /\ me[u].friendRequests[s.other] > 0
          /\ me' = [me EXCEPT ![u].friendRequests = Remove(@, s.other)]
          /\ Write(u, <<[doc |-> u, profile |-> me'[u]]>>)
    BY DEF Decline
<1> DEFINE v == s.other
           profile == [server[u] EXCEPT !.friendRequests = Remove(@, v)]
           after == [server EXCEPT ![u] = profile]
           x == [doc |-> u, profile |-> profile]
<1>2. v \in Users /\ u # v /\ server \in [Users -> Profile]
    BY <1>1, OnScreen DEF Others, IInv
<1>3. Settled /\ Mutual(server) /\ me[u] = server[u]
    BY <1>1, InTheCalm DEF Current
<1>4. profile \in Profile /\ after \in [Users -> Profile]
    BY <1>1, <1>2, <1>3, ArrayType DEF Profile
<1>5. Mutual(after)
    BY <1>1, <1>2, <1>3, <1>4, MutualRemove
<1>6. me'[u] = profile
    BY <1>1, <1>3 DEF IInv
<1>7. server' = server /\ \A y, z \in Users : ~Happened("failed", y, z)'
    BY DEF Calm, Decline, Happened
<1> HIDE DEF profile
<1>8. x \in Writes /\ x.doc = u /\ x.profile = profile /\ Write(u, <<x>>)
    BY <1>1, <1>4, <1>6 DEF Writes
<1> HIDE DEF x
<1>9. /\ out'[u] # <<>> /\ \A w \in Users \ {u} : out'[w] = out[w]
      /\ \A doc \in Users : View(u, doc)' = IF doc = u THEN profile ELSE server[doc]
    BY <1>3, <1>7, <1>8, WroteOne, InTheCalm
<1>10. Seen(u)' = after
    BY <1>2, <1>9 DEF Seen
<1> HIDE DEF after
<1> QED BY <1>3, <1>5, <1>7, <1>9, <1>10, CalmWrote

\* Both are changed and saved.
LEMMA CalmAccept ==
    ASSUME IInv, Others, Own, Calm, ~racing, NEW u \in Users, Accept(u), IInv'
    PROVE  Calm'
<1>1. PICK s \in screen[u] :
          LET mine == [me[u] EXCEPT !.friends = Add(@, s.other),
                                    !.friendRequests = Remove(@, s.other)]
              theirs == [s.profile EXCEPT !.friends = Add(@, u)]
          IN  /\ s.status = "TheyWantMe" /\ Current(u, s)
              /\ me[u].friendRequests[s.other] > 0
              /\ me' = [me EXCEPT ![u] = mine]
              /\ Write(u, <<[doc |-> u, profile |-> mine],
                            [doc |-> s.other, profile |-> theirs]>>)
              /\ Record({[what |-> "tapped", by |-> u, of |-> s.other]})
    BY DEF Accept
<1> DEFINE v == s.other
           mine == [server[u] EXCEPT !.friends = Add(@, v), !.friendRequests = Remove(@, v)]
           theirs == [server[v] EXCEPT !.friends = Add(@, u)]
           after == [server EXCEPT ![u] = mine, ![v] = theirs]
           x == [doc |-> u, profile |-> mine]
           y == [doc |-> v, profile |-> theirs]
<1>2. v \in Users /\ u # v /\ s.profile = server[v] /\ server \in [Users -> Profile]
    BY <1>1, OnScreen DEF Others, Current, IInv
<1>3. Settled /\ Mutual(server) /\ me[u] = server[u]
    BY <1>1, InTheCalm DEF Current
<1>4. Status(u, v, server[v]) = "TheyWantMe"
    BY <1>1, <1>2 DEF Current
<1>5. server[u].friends[v] = 0 /\ server[v].friendRequests[u] = 0
    <2>1. ~(server[u].friends[v] > 0) /\ ~(server[v].friendRequests[u] > 0)
        BY <1>3, <1>4 DEF Status
    <2>2. server[u].friends[v] \in Nat /\ server[v].friendRequests[u] \in Nat
        BY <1>2 DEF Profile, Bag
    <2> QED BY <2>1, <2>2
<1>6. me'[u] = mine
    BY <1>1, <1>3 DEF IInv
<1>7. mine \in Profile /\ theirs \in Profile
    <2>1. mine \in Profile
        BY <1>6 DEF IInv
    <2>2. theirs \in Profile
        BY <1>2, ArrayType DEF Profile
    <2> QED BY <2>1, <2>2
<1>8. /\ after \in [Users -> Profile]
      /\ after[u] = mine /\ after[v] = theirs
      /\ \A w \in Users \ {u, v} : after[w] = server[w]
    <2> HIDE DEF mine, theirs
    <2> QED BY <1>2, <1>7
<1>9. Mutual(after)
    <2>1. server[u].friendRequests[v] > 0
        BY <1>1, <1>3
    <2>2. /\ after[u].friends = Add(server[u].friends, v)
          /\ after[u].friendRequests = Remove(server[u].friendRequests, v)
          /\ after[v].friends = Add(server[v].friends, u)
          /\ after[v].friendRequests = server[v].friendRequests
        BY <1>2, <1>8 DEF Profile
    <2>3. after \in [Users -> Profile] /\ server \in [Users -> Profile] /\ v \in Users /\ u # v
        BY <1>2, <1>8
    <2>4. Mutual(server) /\ server[u].friends[v] = 0 /\ server[v].friendRequests[u] = 0
        BY <1>3, <1>5
    <2>5. \A w \in Users \ {u, v} : after[w] = server[w]
        BY <1>8
    <2> HIDE DEF after, mine, theirs, v, x, y
    <2> QED BY <2>1, <2>2, <2>3, <2>4, <2>5, MutualAccept
<1>10. server' = server /\ \A w, z \in Users : ~Happened("failed", w, z)'
    BY <1>1 DEF Calm, Accept, Record, Happened
<1>11. Write(u, <<x, y>>)
    BY <1>1, <1>2, <1>3
<1> HIDE DEF mine, theirs
<1>12. /\ x \in Writes /\ x.doc = u /\ x.profile = mine
       /\ y \in Writes /\ y.doc = v /\ y.profile = theirs
    BY <1>2, <1>7 DEF Writes
<1> HIDE DEF x, y
<1>13. /\ out'[u] # <<>> /\ \A w \in Users \ {u} : out'[w] = out[w]
       /\ \A doc \in Users : View(u, doc)' = IF doc = v THEN theirs
                                             ELSE IF doc = u THEN mine ELSE server[doc]
    BY <1>3, <1>10, <1>11, <1>12, WroteTwo, InTheCalm
<1> HIDE DEF v
<1>14. Seen(u)' = after
    BY <1>2, <1>13 DEF Seen
<1> HIDE DEF after
<1> QED BY <1>3, <1>9, <1>10, <1>13, <1>14, CalmWrote

\* An Accept does not fail in the calm: the request is there.
LEMMA CalmNeverFails ==
    ASSUME IInv, Own, Calm, ~racing, NEW u \in Users, AcceptFails(u)
    PROVE  FALSE
<1>1. PICK s \in screen[u] :
          s.status = "TheyWantMe" /\ Current(u, s) /\ me[u].friendRequests[s.other] = 0
    BY DEF AcceptFails
<1>2. me[u].friendRequests[s.other] > 0
    BY <1>1 DEF Current, Status
<1> QED BY <1>1, <1>2

LEMMA CalmStays == IInv /\ Others /\ Own /\ Calm /\ ~racing /\ [Next]_vars => Calm'
<1> SUFFICES ASSUME IInv, Others, Own, Calm, ~racing, [Next]_vars PROVE Calm'
    OBVIOUS
<1>1. CASE UNCHANGED <<server, out, history>>
    BY <1>1 DEF Calm, Seen, View, Happened
<1>2. ASSUME NEW u \in Users, Accept(u), Next
      PROVE  Calm'
    BY <1>2, NextTrue, CalmAccept
<1> QED BY <1>1, <1>2, CalmDeliver, CalmSend, CalmCancel, CalmDecline, CalmNeverFails
        DEF vars, Next, Act, Snapshot, Open, OpenRequest, UpdateFriendStatus, SaveMine, Relaunch

-----------------------------------------------------------------------------
LEMMA InitCalm == Init => Others /\ Own /\ Calm
<1> SUFFICES ASSUME Init PROVE Others /\ Own /\ Calm
    OBVIOUS
<1>1. /\ \A u \in Users : out[u] = <<>> /\ screen[u] = {}
      /\ history = {} /\ me = server
      /\ server = [u \in Users |-> [friends |-> NoOne, friendRequests |-> NoOne]]
    BY DEF Init
<1>2. \A u, doc \in Users : View(u, doc) = server[doc]
    BY <1>1, ViewEmpty DEF View
<1>3. Others /\ Own
    BY <1>1, <1>2 DEF Others, Own, CurrentOf, Happened
<1>4. Mutual(server)
    <2>1. \A u, v \in Users : server[u].friends[v] = 0 /\ server[u].friendRequests[v] = 0
        BY <1>1 DEF NoOne
    <2> QED BY <2>1 DEF Mutual
<1>5. \A u \in Users : Seen(u) = server
    BY <1>1, <1>2 DEF Seen
<1> QED BY <1>1, <1>3, <1>4, <1>5 DEF Calm, Happened

LEMMA CalmIsMutual ==
    ASSUME CInv
    PROVE  OwnProfileIsCurrent /\ MutualWhenCalm
<1>1. OwnProfileIsCurrent
    BY DEF CInv, Own, CurrentOf, OwnProfileIsCurrent
<1>2. ASSUME ~racing, Settled, NEW u \in Users, NEW v \in Users
      PROVE  /\ server[u].friends[v] = server[v].friends[u]
             /\ server[u].friends[v] > 0 => /\ server[u].friends[v] = 1
                                            /\ server[u].friendRequests[v] = 0
                                            /\ server[v].friendRequests[u] = 0
    <2>1. Mutual(server)
        BY <1>2, InTheCalm DEF CInv
    <2> QED BY <2>1 DEF Mutual
<1>3. MutualWhenCalm
    BY <1>2 DEF MutualWhenCalm
<1> QED BY <1>1, <1>3

LEMMA CalmInvariant == Spec => []CInv
<1>1. Init => CInv
    BY InitTrue, InitCalm DEF CInv
<1>2. CInv /\ [Next]_vars => CInv'
    <2> SUFFICES ASSUME CInv, [Next]_vars PROVE CInv'
        OBVIOUS
    <2>1. IInv' /\ Others' /\ Own'
        BY NextTrue, OthersStay, OwnStays DEF CInv
    <2>2. racing' = racing
        BY DEF Next, vars
    <2>3. ~racing => Calm'
        BY CalmStays DEF CInv
    <2> QED BY <2>1, <2>2, <2>3 DEF CInv
<1> QED BY <1>1, <1>2, PTL DEF Spec

\* Up to a failed Accept, and to snapshots not yet delivered, every app's own
\* profile is the document as its device knows it.
THEOREM OwnProfileStaysCurrent == Spec => []OwnProfileIsCurrent
<1> QED BY CalmInvariant, CalmIsMutual, PTL

\* Friendship is mutual when users act only on what is up to date.
THEOREM MutualInTheCalm == Spec => []MutualWhenCalm
<1> QED BY CalmInvariant, CalmIsMutual, PTL
=============================================================================
