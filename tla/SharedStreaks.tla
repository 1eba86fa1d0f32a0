---------------------------- MODULE SharedStreaks ----------------------------
(***************************************************************************)
(* Public streaks and who is subscribed to them: creating (AddStreakVC),   *)
(* subscribing (ViewPublicStreakVC) and unsubscribing (HomeVC).  Friends'  *)
(* streaks are the same code on another collection.                        *)
(*                                                                         *)
(* Who is subscribed is stored twice, in the StreakInfo document and in    *)
(* the user's profile.  The two are written one after the other, from      *)
(* copies of different age, and a streak is looked up by its name.         *)
(*                                                                         *)
(* A user has one device.  A write reaches the server at once, and the     *)
(* listeners of the user's own profile run before the next tap: HomeVC and *)
(* cur_user_profile show the profile as stored, and only AddStreakVC,      *)
(* ViewPublicStreakVC and a departure keep older copies.  Arrays are bags. *)
(* Of a StreakInfo the owner, which stands for all that is given at its    *)
(* creation, and the subscribers count; of a subscription the streak.      *)
(*                                                                         *)
(* A definition marked "Mutant" is a plausible bug of the one below it; a  *)
(* property is shown to have teeth by swapping it in.                      *)
(***************************************************************************)
EXTENDS Integers, FiniteSets

CONSTANTS Users,
          Ids,         \* document ids of public_streaks
          Names,
          NameOf,      \* a public streak's name never changes
          MaxCopies,   \* bound: how often a user or streak is in an array
          MaxUnderWay  \* bound: how much is under way on all devices together

ASSUME SharedAssumption == /\ NameOf \in [Ids -> Names]
                           /\ MaxCopies \in Nat \ {0}
                           /\ MaxUnderWay \in Nat \ {0}

VARIABLES infos,     \* the StreakInfo documents: none or one
          profiles,  \* subscribedStreaks of the profile documents
          sections,  \* per device, the rows of HomeVC
          adding,    \* per device, the profile AddStreakVC has: none or one
          screen,    \* per device, ViewPublicStreakVC: none or one
          leaving,   \* per device, streaks being unsubscribed from
          chosen,    \* history: who created or subscribed to streaks of a name
          orderly    \* whether users act one at a time, on current data, and
                     \* nothing fails: chosen in the beginning

vars == <<infos, profiles, sections, adding, screen, leaving, chosen, orderly>>

Subscriptions == [Ids -> Nat]
StreakInfo == [owner : Users, subscribers : [Users -> Nat]]
ViewPublicStreakVC == [id : Ids, publicStreak : StreakInfo,
                       subscribeButton : BOOLEAN, queries : Nat]
Leaving == [id : Ids, fetched : SUBSET StreakInfo]

NoStreaks == [id \in Ids |-> 0]
Add(bag, x) == [bag EXCEPT ![x] = @ + 1]

\* setData of a profile, and HomeVC's listener, which shows all of it.
WriteProfile(u, streaks) ==
    /\ profiles' = [profiles EXCEPT ![u] = streaks]
    /\ sections' = [sections EXCEPT ![u] = streaks]

\* Nothing is under way.
Quiet == \A u \in Users : /\ leaving[u] = {}
                         /\ \A s \in screen[u] : s.queries = 0

\* Only one user has a screen open, only one, and on current data.
InOrder(u) ==
    orderly => /\ Quiet
               /\ \A v \in Users \ {u} : screen[v] = {} /\ adding[v] = {}
               /\ adding[u] = {} \/ screen[u] = {}
               /\ \A s \in screen[u] : s.publicStreak \in infos[s.id]

\* The bound leaves room for one screen or departure more.
Room == Cardinality({u \in Users : screen[u] # {}})
        + Cardinality({u \in Users : adding[u] # {}})
        + Cardinality({l \in Users \X Ids : \E m \in leaving[l[1]] : m.id = l[2]})
            < MaxUnderWay

-----------------------------------------------------------------------------
Init ==
    /\ infos = [id \in Ids |-> {}]
    /\ profiles = [u \in Users |-> NoStreaks]
    /\ sections = profiles
    /\ adding = [u \in Users |-> {}]
    /\ screen = [u \in Users |-> {}]
    /\ leaving = [u \in Users |-> {}]
    /\ chosen = {}
    /\ orderly \in BOOLEAN

\* HomeVC's search shows the streaks with these names only.
Search(u, names) ==
    /\ ~orderly
    /\ adding[u] = {}
    /\ sections' = [sections EXCEPT ![u] =
           [id \in Ids |-> IF NameOf[id] \in names THEN profiles[u][id] ELSE 0]]
    /\ UNCHANGED <<infos, profiles, adding, screen, leaving, chosen, orderly>>

OpenAdd(u) ==
    /\ Room /\ InOrder(u)
    /\ adding[u] = {}
    /\ adding' = [adding EXCEPT ![u] = {profiles[u]}]
    /\ UNCHANGED <<infos, profiles, sections, screen, leaving, chosen, orderly>>

\* The StreakInfo is added with its creator as subscriber, and the profile
\* handed over to AddStreakVC is changed in place and written.
Create(u, id) ==
    /\ infos[id] = {}
    /\ InOrder(u)
    /\ \E streaks \in adding[u] : WriteProfile(u, Add(streaks, id))
    /\ infos' = [infos EXCEPT ![id] =
           {[owner |-> u, subscribers |-> [v \in Users |-> IF v = u THEN 1 ELSE 0]]}]
    /\ adding' = [adding EXCEPT ![u] = {}]
    /\ chosen' = chosen \cup {<<u, NameOf[id]>>}
    /\ UNCHANGED <<screen, leaving, orderly>>

-----------------------------------------------------------------------------
\* A streak of DiscoverVC's list, which a listener keeps current, is opened and
\* its object handed over; checkIfAlreadySubbed.
OpenStreak(u, id) ==
    /\ Room /\ InOrder(u)
    /\ \A s \in screen[u] : s.queries = 0
    /\ \E info \in infos[id] : screen' = [screen EXCEPT ![u] =
           {[id |-> id, publicStreak |-> info, queries |-> 0,
             subscribeButton |-> \A i \in Ids : NameOf[i] = NameOf[id] => profiles[u][i] = 0]}]
    /\ UNCHANGED <<infos, profiles, sections, adding, leaving, chosen, orderly>>

\* subscribeToStreak: the user is added to the object, and the streaks of this
\* name are asked for.
Subscribe(u) ==
    /\ InOrder(u)
    /\ \E s \in screen[u] :
           LET info == [s.publicStreak EXCEPT !.subscribers = Add(@, u)]
           IN  /\ s.subscribeButton
               /\ info.subscribers[u] <= MaxCopies
               /\ screen' = [screen EXCEPT ![u] =
                      {[s EXCEPT !.publicStreak = info, !.queries = @ + 1]}]
               /\ chosen' = chosen \cup {<<u, NameOf[s.id]>>}
    /\ UNCHANGED <<infos, profiles, sections, adding, leaving, orderly>>

\* The screen is closed by the first answer; others still come.
Answered(s) == IF s.queries = 1 THEN {}
               ELSE {[s EXCEPT !.queries = @ - 1, !.subscribeButton = FALSE]}

\* Mutant: the streaks are not asked for by name.
QueryReturnsAll(u) ==
    /\ \E s \in screen[u] :
           LET found == {id \in Ids : infos[id] # {}}
               streaks == [id \in Ids |-> profiles[u][id] + IF id \in found THEN 1 ELSE 0]
           IN  /\ s.queries > 0
               /\ \A id \in found : profiles[u][id] < MaxCopies
               /\ infos' = [id \in Ids |-> IF id \in found THEN {s.publicStreak} ELSE infos[id]]
               /\ WriteProfile(u, streaks)
               /\ screen' = [screen EXCEPT ![u] = Answered(s)]
    /\ UNCHANGED <<adding, leaving, chosen, orderly>>

\* Every streak found is subscribed to and overwritten with the object; then
\* cur_user_profile is written.
QueryReturns(u) ==
    /\ \E s \in screen[u] :
           LET found == {id \in Ids : infos[id] # {} /\ NameOf[id] = NameOf[s.id]}
               streaks == [id \in Ids |-> profiles[u][id] + IF id \in found THEN 1 ELSE 0]
           IN  /\ s.queries > 0
               /\ \A id \in found : profiles[u][id] < MaxCopies
               /\ infos' = [id \in Ids |-> IF id \in found THEN {s.publicStreak} ELSE infos[id]]
               /\ WriteProfile(u, streaks)
               /\ screen' = [screen EXCEPT ![u] = Answered(s)]
    /\ UNCHANGED <<adding, leaving, chosen, orderly>>

\* Nothing is told and the screen stays.
QueryFails(u) ==
    /\ ~orderly
    /\ \E s \in screen[u] :
           /\ s.queries > 0
           /\ screen' = [screen EXCEPT ![u] = {[s EXCEPT !.queries = @ - 1]}]
    /\ UNCHANGED <<infos, profiles, sections, adding, leaving, chosen, orderly>>

\* Back from either screen.  (Not while a query is under way: a screen of which
\* the answer is awaited is the only one of its user.)
Back(u) ==
    /\ \A s \in screen[u] : s.queries = 0
    /\ screen' = [screen EXCEPT ![u] = {}]
    /\ adding' = [adding EXCEPT ![u] = {}]
    /\ UNCHANGED <<infos, profiles, sections, leaving, chosen, orderly>>

-----------------------------------------------------------------------------
\* Mutant: the row may be gone.
UnsubscribeUnchecked(u, id) ==
    /\ Room /\ InOrder(u)
    /\ adding[u] = {}
    /\ WriteProfile(u, [sections[u] EXCEPT ![id] = @ - 1])
    /\ leaving' = [leaving EXCEPT ![u] = @ \cup {[id |-> id, fetched |-> {}]}]
    /\ UNCHANGED <<infos, adding, screen, chosen, orderly>>

\* The row is removed, and what the rows show becomes the profile.
Unsubscribe(u, id) ==
    /\ Room /\ InOrder(u)
    /\ adding[u] = {} /\ sections[u][id] > 0
    /\ WriteProfile(u, [sections[u] EXCEPT ![id] = @ - 1])
    /\ leaving' = [leaving EXCEPT ![u] = @ \cup {[id |-> id, fetched |-> {}]}]
    /\ UNCHANGED <<infos, adding, screen, chosen, orderly>>

\* The server answers with the StreakInfo; or it cannot be read, and is left as
\* it is.
FetchLeft(u) ==
    /\ \E l \in leaving[u] :
           /\ l.fetched = {}
           /\ leaving' = [leaving EXCEPT ![u] = (@ \ {l}) \cup {[l EXCEPT !.fetched = infos[l.id]]}]
    /\ UNCHANGED <<infos, profiles, sections, adding, screen, chosen, orderly>>

FetchFails(u) ==
    /\ ~orderly
    /\ \E l \in leaving[u] : /\ l.fetched = {}
                             /\ leaving' = [leaving EXCEPT ![u] = @ \ {l}]
    /\ UNCHANGED <<infos, profiles, sections, adding, screen, chosen, orderly>>

\* Mutant: the email is not compared.
RemoveLeftAll(u) ==
    /\ \E l \in leaving[u] : \E info \in l.fetched :
           /\ infos' = [infos EXCEPT ![l.id] =
                  {[info EXCEPT !.subscribers = [v \in Users |-> 0]]}]
           /\ leaving' = [leaving EXCEPT ![u] = @ \ {l}]
    /\ UNCHANGED <<profiles, sections, adding, screen, chosen, orderly>>

\* The answer is in: the user is removed from what was read, and that is written.
RemoveLeft(u) ==
    /\ \E l \in leaving[u] : \E info \in l.fetched :
           /\ infos' = [infos EXCEPT ![l.id] = {[info EXCEPT !.subscribers[u] = 0]}]
           /\ leaving' = [leaving EXCEPT ![u] = @ \ {l}]
    /\ UNCHANGED <<profiles, sections, adding, screen, chosen, orderly>>

\* Killed and started again.
Relaunch(u) ==
    /\ ~orderly
    /\ sections' = [sections EXCEPT ![u] = profiles[u]]
    /\ adding' = [adding EXCEPT ![u] = {}]
    /\ screen' = [screen EXCEPT ![u] = {}]
    /\ leaving' = [leaving EXCEPT ![u] = {}]
    /\ UNCHANGED <<infos, profiles, chosen, orderly>>

Next == \E u \in Users :
    \/ \E names \in SUBSET Names : Search(u, names)
    \/ OpenAdd(u) \/ \E id \in Ids : Create(u, id) \/ OpenStreak(u, id)
    \/ Subscribe(u) \/ QueryReturns(u) \/ QueryFails(u) \/ Back(u)
    \/ \E id \in Ids : Unsubscribe(u, id)
    \/ FetchLeft(u) \/ FetchFails(u) \/ RemoveLeft(u)
    \/ Relaunch(u)

Spec == Init /\ [][Next]_vars
-----------------------------------------------------------------------------
\* Type invariant.
TypeOK ==
    /\ infos \in [Ids -> SUBSET StreakInfo]
    /\ profiles \in [Users -> Subscriptions]
    /\ sections \in [Users -> Subscriptions]
    /\ adding \in [Users -> SUBSET Subscriptions]
    /\ screen \in [Users -> SUBSET ViewPublicStreakVC]
    /\ leaving \in [Users -> SUBSET Leaving]
    /\ chosen \in SUBSET (Users \X Names)
    /\ orderly \in BOOLEAN

\* u chose every streak here; the subscribers here chose this streak.
ChosenBy(u, streaks) == \A id \in Ids : streaks[id] > 0 => <<u, NameOf[id]>> \in chosen
ChoseIt(id, info) == \A u \in Users : info.subscribers[u] > 0 => <<u, NameOf[id]>> \in chosen

\* However old the copies are that the apps write back, nobody is subscribed to a
\* streak of a name the user neither created nor subscribed to, in the profiles
\* or in the lists of subscribers (the overwriting of every streak of the name in
\* subscribeToStreak, the sections written back when unsubscribing).
OnlyChosen ==
    /\ \A id \in Ids : \A info \in infos[id] : ChoseIt(id, info)
    /\ \A u \in Users :
           /\ ChosenBy(u, profiles[u]) /\ ChosenBy(u, sections[u])
           /\ \A streaks \in adding[u] : ChosenBy(u, streaks)
           /\ \A s \in screen[u] : ChoseIt(s.id, s.publicStreak)
           /\ \A l \in leaving[u] : \A info \in l.fetched : ChoseIt(l.id, info)

Subscribed(u, id) == profiles[u][id] > 0
IsListed(u, id) == \E info \in infos[id] : info.subscribers[u] > 0

\* Users who act one at a time, on current data, find the two records of who is
\* subscribed the same, each once, when all is done (the order of the writes of
\* creating, subscribing and unsubscribing).
RecordsAgree ==
    orderly /\ Quiet => \A u \in Users, id \in Ids :
        /\ Subscribed(u, id) <=> IsListed(u, id)
        /\ profiles[u][id] <= 1
        /\ \A info \in infos[id] : info.subscribers[u] <= 1

\* StreakInfo.swift:12, "let owner: [String]": a streak keeps its owner.
OwnerIsKept == [][\A id \in Ids : \A info \in infos[id] :
                      \E new \in infos'[id] : new.owner = info.owner]_vars

\* HomeVC.swift:157, "remove streak from local list and user profile": to
\* unsubscribe takes that streak from the profile and no other.
UnsubscribesFromOne ==
    [][\A u \in Users, id \in Ids : Unsubscribe(u, id) =>
           \A other \in Ids \ {id} : profiles'[u][other] = profiles[u][other]]_vars
=============================================================================
