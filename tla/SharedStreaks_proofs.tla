------------------------ MODULE SharedStreaks_proofs -------------------------
(* Nobody is subscribed to a streak of a name the user did not choose; and,  *)
(* for streaks of different names, a streak keeps its owner and the two      *)
(* records of who is subscribed agree among users who act in order: for any  *)
(* users, streaks, names and delays.                                         *)
(*                                                                           *)
(* Every copy of a profile and of a StreakInfo holds only what was chosen,   *)
(* and what was chosen is never forgotten, so a copy may be written back any *)
(* time.  Subscribing writes one object over every streak of a name, which   *)
(* is right because what was chosen is a name.                               *)
EXTENDS SharedStreaks, TLAPS

\* The subscriptions u may have and the StreakInfo id may have, after the choices h.
TrueStreaks(h, u) ==
    {streaks \in Subscriptions : \A id \in Ids : streaks[id] > 0 => <<u, NameOf[id]>> \in h}
TrueInfo(h, id) ==
    {info \in StreakInfo : \A u \in Users : info.subscribers[u] > 0 => <<u, NameOf[id]>> \in h}

\* A query is under way only for what the user chose.
TrueScreen(h, u) ==
    {s \in ViewPublicStreakVC : /\ s.publicStreak \in TrueInfo(h, s.id)
                                /\ s.queries > 0 => <<u, NameOf[s.id]>> \in h}
TrueLeaving(h) == {l \in Leaving : l.fetched \subseteq TrueInfo(h, l.id)}

IInv ==
    /\ chosen \in SUBSET (Users \X Names)
    /\ orderly \in BOOLEAN
    /\ infos \in [Ids -> SUBSET StreakInfo]
    /\ profiles \in [Users -> Subscriptions]
    /\ sections \in [Users -> Subscriptions]
    /\ adding \in [Users -> SUBSET Subscriptions]
    /\ screen \in [Users -> SUBSET ViewPublicStreakVC]
    /\ leaving \in [Users -> SUBSET Leaving]
    /\ \A id \in Ids : infos[id] \subseteq TrueInfo(chosen, id)
    /\ \A u \in Users : /\ profiles[u] \in TrueStreaks(chosen, u)
                        /\ sections[u] \in TrueStreaks(chosen, u)
                        /\ adding[u] \subseteq TrueStreaks(chosen, u)
                        /\ screen[u] \subseteq TrueScreen(chosen, u)
                        /\ leaving[u] \subseteq TrueLeaving(chosen)

-----------------------------------------------------------------------------
\* More choices allow more copies.
LEMMA MoreIsTrue ==
    ASSUME NEW h, NEW k, h \subseteq k
    PROVE  /\ \A u \in Users : TrueStreaks(h, u) \subseteq TrueStreaks(k, u)
           /\ \A id \in Ids : TrueInfo(h, id) \subseteq TrueInfo(k, id)
           /\ \A u \in Users : TrueScreen(h, u) \subseteq TrueScreen(k, u)
           /\ TrueLeaving(h) \subseteq TrueLeaving(k)
<1>1. \A u \in Users : TrueStreaks(h, u) \subseteq TrueStreaks(k, u)
    BY DEF TrueStreaks
<1>2. \A id \in Ids : TrueInfo(h, id) \subseteq TrueInfo(k, id)
    BY DEF TrueInfo
<1>3. \A u \in Users : TrueScreen(h, u) \subseteq TrueScreen(k, u)
    <2> SUFFICES ASSUME NEW u \in Users, NEW s \in TrueScreen(h, u)
                 PROVE  s \in TrueScreen(k, u)
        OBVIOUS
    <2>1. s \in ViewPublicStreakVC /\ s.id \in Ids
        BY DEF TrueScreen, ViewPublicStreakVC
    <2> QED BY <1>2, <2>1 DEF TrueScreen
<1>4. TrueLeaving(h) \subseteq TrueLeaving(k)
    <2> SUFFICES ASSUME NEW l \in TrueLeaving(h) PROVE l \in TrueLeaving(k)
        OBVIOUS
    <2>1. l \in Leaving /\ l.id \in Ids
        BY DEF TrueLeaving, Leaving
    <2> QED BY <1>2, <2>1 DEF TrueLeaving
<1> QED BY <1>1, <1>2, <1>3, <1>4

\* The choices allow the same of two streaks of a name.
LEMMA SameNameSameInfo ==
    ASSUME NEW h, NEW i \in Ids, NEW j \in Ids, NameOf[i] = NameOf[j]
    PROVE  TrueInfo(h, i) = TrueInfo(h, j)
BY DEF TrueInfo

\* A streak more that u chose, or fewer copies of a streak.
LEMMA OneMore ==
    ASSUME NEW h, NEW u \in Users, NEW streaks \in TrueStreaks(h, u), NEW id \in Ids,
           <<u, NameOf[id]>> \in h
    PROVE  Add(streaks, id) \in TrueStreaks(h, u)
BY DEF TrueStreaks, Subscriptions, Add

LEMMA OneLess ==
    ASSUME NEW h, NEW u \in Users, NEW streaks \in TrueStreaks(h, u), NEW id \in Ids,
           streaks[id] > 0
    PROVE  [streaks EXCEPT ![id] = @ - 1] \in TrueStreaks(h, u)
BY DEF TrueStreaks, Subscriptions

LEMMA OneSubscriberMore ==
    ASSUME NEW h, NEW u \in Users, NEW id \in Ids, NEW info \in TrueInfo(h, id),
           <<u, NameOf[id]>> \in h
    PROVE  [info EXCEPT !.subscribers = Add(@, u)] \in TrueInfo(h, id)
<1>1. info.subscribers \in [Users -> Nat]
    BY DEF TrueInfo, StreakInfo
<1>2. Add(info.subscribers, u) \in [Users -> Nat]
    BY <1>1 DEF Add
<1>3. \A v \in Users : v # u => Add(info.subscribers, u)[v] = info.subscribers[v]
    BY <1>1 DEF Add
<1> QED BY <1>2, <1>3 DEF TrueInfo, StreakInfo

LEMMA OneSubscriberLess ==
    ASSUME NEW h, NEW u \in Users, NEW id \in Ids, NEW info \in TrueInfo(h, id)
    PROVE  [info EXCEPT !.subscribers[u] = 0] \in TrueInfo(h, id)
<1>1. info.subscribers \in [Users -> Nat]
    BY DEF TrueInfo, StreakInfo
<1> QED BY <1>1 DEF TrueInfo, StreakInfo

\* A profile of true subscriptions is written.
LEMMA WriteTrue ==
    ASSUME IInv, chosen \subseteq chosen', NEW u \in Users,
           NEW streaks \in TrueStreaks(chosen', u), WriteProfile(u, streaks)
    PROVE  /\ profiles' \in [Users -> Subscriptions]
           /\ sections' \in [Users -> Subscriptions]
           /\ \A v \in Users : /\ profiles'[v] \in TrueStreaks(chosen', v)
                               /\ sections'[v] \in TrueStreaks(chosen', v)
<1>1. streaks \in Subscriptions
    BY DEF TrueStreaks
<1> QED BY <1>1, MoreIsTrue DEF IInv, WriteProfile

-----------------------------------------------------------------------------
LEMMA InitInv == Init => IInv
<1> SUFFICES ASSUME Init PROVE IInv
    OBVIOUS
<1>1. NoStreaks \in Subscriptions
    BY DEF NoStreaks, Subscriptions
<1>2. \A u \in Users : NoStreaks \in TrueStreaks({}, u)
    BY <1>1 DEF TrueStreaks, NoStreaks
<1> QED BY <1>1, <1>2 DEF Init, IInv

LEMMA NextInv == IInv /\ [Next]_vars => IInv'
<1> SUFFICES ASSUME IInv, [Next]_vars PROVE IInv'
    OBVIOUS
<1> USE SharedAssumption
<1>1. CASE UNCHANGED vars
    BY <1>1 DEF vars, IInv
<1> SUFFICES ASSUME NEW u \in Users,
                    \/ \E names \in SUBSET Names : Search(u, names)
                    \/ OpenAdd(u)
                    \/ \E id \in Ids : Create(u, id) \/ OpenStreak(u, id) \/ Unsubscribe(u, id)
                    \/ Subscribe(u) \/ QueryReturns(u) \/ QueryFails(u) \/ Back(u)
                    \/ FetchLeft(u) \/ FetchFails(u) \/ RemoveLeft(u)
                    \/ Relaunch(u)
             PROVE  IInv'
    BY <1>1 DEF Next
<1>2. ASSUME NEW names \in SUBSET Names, Search(u, names) PROVE IInv'
    <2> DEFINE shown == [id \in Ids |-> IF NameOf[id] \in names THEN profiles[u][id] ELSE 0]
    <2>1. shown \in TrueStreaks(chosen, u) /\ shown \in Subscriptions
        BY DEF IInv, TrueStreaks, Subscriptions
    <2>2. sections' = [sections EXCEPT ![u] = shown]
        BY <1>2 DEF Search
    <2> HIDE DEF shown
    <2> QED BY <1>2, <2>1, <2>2 DEF Search, IInv
<1>3. CASE OpenAdd(u)
    BY <1>3 DEF OpenAdd, IInv
<1>4. ASSUME NEW id \in Ids, Create(u, id) PROVE IInv'
    <2> DEFINE info == [owner |-> u, subscribers |-> [v \in Users |-> IF v = u THEN 1 ELSE 0]]
    <2>1. NameOf[id] \in Names
        OBVIOUS
    <2>2. /\ chosen' \in SUBSET (Users \X Names) /\ chosen \subseteq chosen'
          /\ <<u, NameOf[id]>> \in chosen'
        BY <1>4, <2>1 DEF Create, IInv
    <2>3. PICK streaks \in adding[u] : WriteProfile(u, Add(streaks, id))
        BY <1>4 DEF Create
    <2>4. Add(streaks, id) \in TrueStreaks(chosen', u)
        BY <2>2, <2>3, MoreIsTrue, OneMore DEF IInv
    <2>5. info \in StreakInfo /\ info \in TrueInfo(chosen', id)
        BY <2>2 DEF TrueInfo, StreakInfo
    <2>6. infos' = [infos EXCEPT ![id] = {info}]
        BY <1>4 DEF Create
    <2> HIDE DEF info
    <2>7. /\ infos' \in [Ids -> SUBSET StreakInfo]
          /\ \A i \in Ids : infos'[i] \subseteq TrueInfo(chosen', i)
        BY <2>2, <2>5, <2>6, MoreIsTrue DEF IInv
    <2>8. /\ adding' \in [Users -> SUBSET Subscriptions]
          /\ \A v \in Users : adding'[v] \subseteq TrueStreaks(chosen', v)
        <3>1. adding' = [adding EXCEPT ![u] = {}]
            BY <1>4 DEF Create
        <3>2. \A v \in Users : adding[v] \subseteq TrueStreaks(chosen', v)
            BY <2>2, MoreIsTrue DEF IInv
        <3> QED BY <3>1, <3>2 DEF IInv
    <2>9. \A v \in Users : /\ screen[v] \subseteq TrueScreen(chosen', v)
                           /\ leaving[v] \subseteq TrueLeaving(chosen')
        BY <2>2, MoreIsTrue DEF IInv
    <2> QED BY <1>4, <2>2, <2>3, <2>4, <2>7, <2>8, <2>9, WriteTrue DEF IInv, Create
<1>5. ASSUME NEW id \in Ids, OpenStreak(u, id) PROVE IInv'
    <2>1. PICK info \in infos[id], button \in BOOLEAN : screen' = [screen EXCEPT ![u] =
              {[id |-> id, publicStreak |-> info, queries |-> 0, subscribeButton |-> button]}]
        BY <1>5 DEF OpenStreak
    <2>2. info \in StreakInfo /\ info \in TrueInfo(chosen, id)
        BY DEF IInv
    <2> DEFINE s == [id |-> id, publicStreak |-> info, queries |-> 0, subscribeButton |-> button]
    <2>3. s \in ViewPublicStreakVC /\ s \in TrueScreen(chosen, u)
        BY <2>2 DEF TrueScreen, ViewPublicStreakVC
    <2> HIDE DEF s
    <2>4. screen' = [screen EXCEPT ![u] = {s}]
        BY <2>1 DEF s
    <2> QED BY <1>5, <2>3, <2>4 DEF IInv, OpenStreak
<1>6. CASE Subscribe(u)
    <2>1. PICK s \in screen[u] :
              LET info == [s.publicStreak EXCEPT !.subscribers = Add(@, u)]
              IN  /\ screen' = [screen EXCEPT ![u] =
                         {[s EXCEPT !.publicStreak = info, !.queries = @ + 1]}]
                  /\ chosen' = chosen \cup {<<u, NameOf[s.id]>>}
        BY <1>6 DEF Subscribe
    <2> DEFINE info == [s.publicStreak EXCEPT !.subscribers = Add(@, u)]
               t == [s EXCEPT !.publicStreak = info, !.queries = @ + 1]
    <2>2. s \in ViewPublicStreakVC /\ s \in TrueScreen(chosen, u)
        BY DEF IInv
    <2>3. s.id \in Ids /\ s.queries \in Nat /\ NameOf[s.id] \in Names
        BY <2>2 DEF ViewPublicStreakVC
    <2>4. /\ chosen' \in SUBSET (Users \X Names) /\ chosen \subseteq chosen'
          /\ <<u, NameOf[s.id]>> \in chosen'
        BY <2>1, <2>3 DEF IInv
    <2>5. info \in TrueInfo(chosen', s.id)
        <3>1. s.publicStreak \in TrueInfo(chosen', s.id)
            BY <2>2, <2>3, <2>4, MoreIsTrue DEF TrueScreen
        <3> QED BY <2>3, <2>4, <3>1, OneSubscriberMore
    <2>6. t \in ViewPublicStreakVC /\ t \in TrueScreen(chosen', u)
        <3>1. info \in StreakInfo
            BY <2>5 DEF TrueInfo
        <3> DEFINE asked == s.queries + 1
        <3>a. asked \in Nat
            BY <2>3
        <3>b. t = [s EXCEPT !.publicStreak = info, !.queries = asked]
            BY <2>2 DEF ViewPublicStreakVC
        <3> HIDE DEF info, asked, t
        <3>2. t \in ViewPublicStreakVC /\ t.publicStreak = info /\ t.id = s.id
            BY <2>2, <3>1, <3>a, <3>b, Zenon DEF ViewPublicStreakVC
        <3> QED BY <2>4, <2>5, <3>2 DEF TrueScreen
    <2>7. screen' = [screen EXCEPT ![u] = {t}]
        BY <2>1
    <2> HIDE DEF t, info
    <2>8. /\ screen' \in [Users -> SUBSET ViewPublicStreakVC]
          /\ \A v \in Users : screen'[v] \subseteq TrueScreen(chosen', v)
        BY <2>4, <2>6, <2>7, MoreIsTrue DEF IInv
    <2>9. /\ \A i \in Ids : infos[i] \subseteq TrueInfo(chosen', i)
          /\ \A v \in Users : /\ profiles[v] \in TrueStreaks(chosen', v)
                              /\ sections[v] \in TrueStreaks(chosen', v)
                              /\ adding[v] \subseteq TrueStreaks(chosen', v)
                              /\ leaving[v] \subseteq TrueLeaving(chosen')
        BY <2>4, MoreIsTrue DEF IInv
    <2> QED BY <1>6, <2>4, <2>8, <2>9 DEF IInv, Subscribe
<1>7. CASE QueryReturns(u)
    <2> DEFINE found(s) == {id \in Ids : infos[id] # {} /\ NameOf[id] = NameOf[s.id]}
               more(s) == [id \in Ids |-> profiles[u][id] + IF id \in found(s) THEN 1 ELSE 0]
    <2>1. PICK s \in screen[u] :
              /\ s.queries > 0
              /\ infos' = [id \in Ids |-> IF id \in found(s) THEN {s.publicStreak} ELSE infos[id]]
              /\ WriteProfile(u, more(s))
              /\ screen' = [screen EXCEPT ![u] = Answered(s)]
        BY <1>7, Zenon DEF QueryReturns
    <2>2. s \in ViewPublicStreakVC /\ s \in TrueScreen(chosen, u) /\ chosen' = chosen
        BY <1>7 DEF IInv, QueryReturns
    <2>3. /\ s.id \in Ids /\ s.queries \in Nat /\ <<u, NameOf[s.id]>> \in chosen
          /\ s.publicStreak \in TrueInfo(chosen, s.id)
        BY <2>1, <2>2 DEF TrueScreen, ViewPublicStreakVC
    <2>4. more(s) \in TrueStreaks(chosen, u)
        <3>1. profiles[u] \in Subscriptions /\ profiles[u] \in TrueStreaks(chosen, u)
            BY DEF IInv
        <3>2. more(s) \in Subscriptions
            BY <3>1 DEF Subscriptions
        <3>3. ASSUME NEW id \in Ids, more(s)[id] > 0 PROVE <<u, NameOf[id]>> \in chosen
            <4>1. CASE id \in found(s)
                BY <2>3, <4>1
            <4>2. CASE id \notin found(s)
                <5>1. profiles[u][id] > 0
                    BY <3>1, <3>3, <4>2 DEF Subscriptions
                <5> QED BY <3>1, <5>1 DEF TrueStreaks
            <4> QED BY <4>1, <4>2
        <3> HIDE DEF more
        <3> QED BY <3>2, <3>3 DEF TrueStreaks
    <2>5. /\ infos' \in [Ids -> SUBSET StreakInfo]
          /\ \A id \in Ids : infos'[id] \subseteq TrueInfo(chosen, id)
        <3>1. s.publicStreak \in StreakInfo
            BY <2>3 DEF TrueInfo
        <3>2. \A id \in found(s) : s.publicStreak \in TrueInfo(chosen, id)
            BY <2>3, SameNameSameInfo
        <3> HIDE DEF found
        <3> QED BY <2>1, <3>1, <3>2 DEF IInv
    <2>6. Answered(s) \in SUBSET ViewPublicStreakVC /\ Answered(s) \subseteq TrueScreen(chosen, u)
        <3>1. CASE s.queries = 1
            BY <3>1 DEF Answered
        <3>2. CASE s.queries # 1
            <4> DEFINE t == [s EXCEPT !.queries = @ - 1, !.subscribeButton = FALSE]
                   others == s.queries - 1
            <4>a. others \in Nat
                BY <2>1, <2>3
            <4>b. t = [s EXCEPT !.queries = others, !.subscribeButton = FALSE]
                BY <2>2 DEF ViewPublicStreakVC
            <4>c. Answered(s) = {t}
                BY <3>2, Zenon DEF Answered
            <4> HIDE DEF others, t
            <4>1. /\ t \in ViewPublicStreakVC
                  /\ t.publicStreak = s.publicStreak /\ t.id = s.id
                BY <2>2, <4>a, <4>b, Zenon DEF ViewPublicStreakVC
            <4>2. t \in TrueScreen(chosen, u)
                BY <2>3, <4>1 DEF TrueScreen
            <4> QED BY <4>1, <4>2, <4>c
        <3> QED BY <3>1, <3>2
    <2> HIDE DEF more, found
    <2>7. /\ profiles' \in [Users -> Subscriptions]
          /\ sections' \in [Users -> Subscriptions]
          /\ \A v \in Users : /\ profiles'[v] \in TrueStreaks(chosen', v)
                              /\ sections'[v] \in TrueStreaks(chosen', v)
        BY <2>1, <2>2, <2>4, WriteTrue
    <2> QED BY <1>7, <2>1, <2>2, <2>5, <2>6, <2>7 DEF IInv, QueryReturns
<1>8. CASE QueryFails(u)
    <2>1. PICK s \in screen[u] : /\ s.queries > 0
                                 /\ screen' = [screen EXCEPT ![u] = {[s EXCEPT !.queries = @ - 1]}]
        BY <1>8 DEF QueryFails
    <2> DEFINE t == [s EXCEPT !.queries = @ - 1]
    <2>2. s \in ViewPublicStreakVC /\ s \in TrueScreen(chosen, u)
        BY DEF IInv
    <2>3. t \in ViewPublicStreakVC /\ t.publicStreak = s.publicStreak /\ t.id = s.id
        BY <2>1, <2>2 DEF ViewPublicStreakVC
    <2>4. t \in TrueScreen(chosen, u)
        BY <2>1, <2>2, <2>3 DEF TrueScreen
    <2> HIDE DEF t
    <2>5. screen' = [screen EXCEPT ![u] = {t}]
        BY <2>1 DEF t
    <2> QED BY <1>8, <2>3, <2>4, <2>5 DEF IInv, QueryFails
<1>9. CASE Back(u)
    BY <1>9 DEF Back, IInv
<1>10. ASSUME NEW id \in Ids, Unsubscribe(u, id) PROVE IInv'
    <2> DEFINE rest == [sections[u] EXCEPT ![id] = @ - 1]
               left == [id |-> id, fetched |-> {}]
    <2>1. rest \in TrueStreaks(chosen, u)
        BY <1>10, OneLess DEF IInv, Unsubscribe
    <2>2. left \in Leaving /\ left \in TrueLeaving(chosen)
        BY DEF Leaving, TrueLeaving
    <2>3. WriteProfile(u, rest) /\ leaving' = [leaving EXCEPT ![u] = @ \cup {left}]
        BY <1>10 DEF Unsubscribe
    <2> HIDE DEF rest, left
    <2>4. chosen' = chosen
        BY <1>10 DEF Unsubscribe
    <2>5. /\ profiles' \in [Users -> Subscriptions]
          /\ sections' \in [Users -> Subscriptions]
          /\ \A v \in Users : /\ profiles'[v] \in TrueStreaks(chosen', v)
                              /\ sections'[v] \in TrueStreaks(chosen', v)
        BY <2>1, <2>3, <2>4, WriteTrue
    <2>6. /\ leaving' \in [Users -> SUBSET Leaving]
          /\ \A v \in Users : leaving'[v] \subseteq TrueLeaving(chosen')
        BY <2>2, <2>3, <2>4 DEF IInv
    <2>7. UNCHANGED <<infos, adding, screen, chosen, orderly>>
        BY <1>10 DEF Unsubscribe
    <2> QED BY <2>5, <2>6, <2>7 DEF IInv
<1>11. CASE FetchLeft(u)
    <2>1. PICK l \in leaving[u] : leaving' =
              [leaving EXCEPT ![u] = (@ \ {l}) \cup {[l EXCEPT !.fetched = infos[l.id]]}]
        BY <1>11 DEF FetchLeft
    <2> DEFINE m == [l EXCEPT !.fetched = infos[l.id]]
    <2>2. l \in Leaving /\ l.id \in Ids
        BY DEF IInv, Leaving
    <2>3. infos[l.id] \subseteq StreakInfo /\ infos[l.id] \subseteq TrueInfo(chosen, l.id)
        BY <2>2 DEF IInv
    <2>4. m \in Leaving /\ m.id = l.id /\ m.fetched = infos[l.id]
        BY <2>2, <2>3 DEF Leaving
    <2>5. m \in TrueLeaving(chosen)
        BY <2>3, <2>4 DEF TrueLeaving
    <2> HIDE DEF m
    <2>6. leaving' = [leaving EXCEPT ![u] = (@ \ {l}) \cup {m}]
        BY <2>1 DEF m
    <2> QED BY <1>11, <2>4, <2>5, <2>6 DEF IInv, FetchLeft
<1>12. CASE FetchFails(u)
    BY <1>12 DEF FetchFails, IInv
<1>13. CASE RemoveLeft(u)
    <2>0. PICK l \in leaving[u] : \E info \in l.fetched :
              /\ infos' = [infos EXCEPT ![l.id] = {[info EXCEPT !.subscribers[u] = 0]}]
              /\ leaving' = [leaving EXCEPT ![u] = @ \ {l}]
        BY <1>13 DEF RemoveLeft
    <2>1. PICK info \in l.fetched :
              /\ infos' = [infos EXCEPT ![l.id] = {[info EXCEPT !.subscribers[u] = 0]}]
              /\ leaving' = [leaving EXCEPT ![u] = @ \ {l}]
        BY <2>0
    <2>2. l.id \in Ids /\ info \in TrueInfo(chosen, l.id)
        BY DEF IInv, Leaving, TrueLeaving
    <2> DEFINE new == [info EXCEPT !.subscribers[u] = 0]
    <2>3. new \in TrueInfo(chosen, l.id)
        BY <2>2, OneSubscriberLess
    <2>4. new \in StreakInfo
        BY <2>3 DEF TrueInfo
    <2>5. infos' = [infos EXCEPT ![l.id] = {new}]
        BY <2>1
    <2> HIDE DEF new
    <2>6. /\ infos' \in [Ids -> SUBSET StreakInfo]
          /\ \A i \in Ids : infos'[i] \subseteq TrueInfo(chosen, i)
        BY <2>2, <2>3, <2>4, <2>5 DEF IInv
    <2>7. /\ leaving' \in [Users -> SUBSET Leaving]
          /\ \A v \in Users : leaving'[v] \subseteq TrueLeaving(chosen)
        BY <2>1 DEF IInv
    <2>8. UNCHANGED <<profiles, sections, adding, screen, chosen, orderly>>
        BY <1>13 DEF RemoveLeft
    <2> QED BY <2>6, <2>7, <2>8 DEF IInv
<1>14. CASE Relaunch(u)
    BY <1>14 DEF Relaunch, IInv
<1> QED BY <1>2, <1>3, <1>4, <1>5, <1>6, <1>7, <1>8, <1>9, <1>10, <1>11, <1>12, <1>13, <1>14

LEMMA Invariant == Spec => []IInv
BY InitInv, NextInv, PTL DEF Spec

-----------------------------------------------------------------------------
\* The type invariant holds in every state.
THEOREM SharedTypeCorrect == Spec => []TypeOK
<1>1. IInv => TypeOK
    BY DEF IInv, TypeOK
<1> QED BY <1>1, Invariant, PTL

\* Nobody is ever subscribed to a streak of a name the user did not choose, in any
\* copy, however many streaks have the name and however late copies are written
\* (subscribeToStreak, AddStreakVC, unsubscribing in HomeVC).
THEOREM SharedOnlyChosen == Spec => []OnlyChosen
<1>1. IInv => OnlyChosen
    <2> SUFFICES ASSUME IInv PROVE OnlyChosen
        OBVIOUS
    <2>1. \A id \in Ids : \A info \in TrueInfo(chosen, id) : ChoseIt(id, info)
        BY DEF TrueInfo, ChoseIt
    <2>2. \A u \in Users : \A streaks \in TrueStreaks(chosen, u) : ChosenBy(u, streaks)
        BY DEF TrueStreaks, ChosenBy
    <2>3. \A u \in Users : \A s \in screen[u] : ChoseIt(s.id, s.publicStreak)
        BY <2>1 DEF IInv, TrueScreen, ViewPublicStreakVC
    <2>4. \A u \in Users : \A l \in leaving[u] : \A info \in l.fetched : ChoseIt(l.id, info)
        BY <2>1 DEF IInv, TrueLeaving, Leaving
    <2> QED BY <2>1, <2>2, <2>3, <2>4 DEF IInv, OnlyChosen
<1> QED BY <1>1, Invariant, PTL

-----------------------------------------------------------------------------
\* Owners, when no two streaks have one name.

NamesDiffer == \A i, j \in Ids : NameOf[i] = NameOf[j] => i = j

\* A copy of streak id with the owner the document has.
HasOwner(id, info) == \E stored \in infos[id] : stored.owner = info.owner

OneOwner ==
    /\ \A id \in Ids : \A i, j \in infos[id] : i.owner = j.owner
    /\ \A u \in Users :
           /\ \A s \in screen[u] : HasOwner(s.id, s.publicStreak)
           /\ \A l \in leaving[u] : \A info \in l.fetched : HasOwner(l.id, info)

\* A document is created, or overwritten with a copy that has its owner.
KeepsOwners ==
    \A id \in Ids :
        \/ infos'[id] = infos[id]
        \/ \E info : infos'[id] = {info} /\ (infos[id] # {} => HasOwner(id, info))

\* The copies after a step, by the documents before it.
CopiesHadOwner ==
    \A u \in Users :
        /\ \A s \in screen'[u] : s.id \in Ids /\ HasOwner(s.id, s.publicStreak)
        /\ \A l \in leaving'[u] : \A info \in l.fetched : l.id \in Ids /\ HasOwner(l.id, info)

LEMMA OwnersStay ==
    ASSUME OneOwner, KeepsOwners, CopiesHadOwner
    PROVE  /\ OneOwner'
           /\ \A id \in Ids : \A info \in infos[id] :
                  \E new \in infos'[id] : new.owner = info.owner
<1>1. \A id \in Ids : \A i, j \in infos'[id] : i.owner = j.owner
    BY DEF OneOwner, KeepsOwners
<1>2. ASSUME NEW id \in Ids, NEW info \in infos[id]
      PROVE  \E new \in infos'[id] : new.owner = info.owner
    <2>1. CASE infos'[id] = infos[id]
        BY <2>1
    <2>2. CASE infos'[id] # infos[id]
        <3>1. PICK new : infos'[id] = {new} /\ HasOwner(id, new)
            BY <1>2, <2>2 DEF KeepsOwners
        <3>2. new.owner = info.owner
            BY <1>2, <3>1 DEF HasOwner, OneOwner
        <3> QED BY <3>1, <3>2
    <2> QED BY <2>1, <2>2
<1>3. ASSUME NEW id \in Ids, NEW info, HasOwner(id, info) PROVE HasOwner(id, info)'
    BY <1>2, <1>3 DEF HasOwner
<1> QED BY <1>1, <1>2, <1>3 DEF OneOwner, CopiesHadOwner

\* Every copy is of a streak; an action that leaves screens or departures alone
\* leaves their copies' owners alone.
LEMMA CopiesHaveOwner ==
    ASSUME IInv, OneOwner
    PROVE  \A u \in Users :
               /\ \A s \in screen[u] : /\ s \in ViewPublicStreakVC /\ s.id \in Ids
                                       /\ s.publicStreak \in StreakInfo
                                       /\ HasOwner(s.id, s.publicStreak)
               /\ \A l \in leaving[u] : /\ l \in Leaving /\ l.id \in Ids
                                        /\ \A info \in l.fetched :
                                               info \in StreakInfo /\ HasOwner(l.id, info)
BY DEF IInv, OneOwner, ViewPublicStreakVC, Leaving

LEMMA StepKeepsOwners ==
    ASSUME NamesDiffer, IInv, OneOwner, [Next]_vars
    PROVE  KeepsOwners /\ CopiesHadOwner
<1>0. CASE UNCHANGED vars
    BY <1>0, CopiesHaveOwner DEF vars, KeepsOwners, CopiesHadOwner
<1> SUFFICES ASSUME Next PROVE KeepsOwners /\ CopiesHadOwner
    BY <1>0
<1>1. PICK u \in Users :
          \/ \E names \in SUBSET Names : Search(u, names)
          \/ OpenAdd(u) \/ \E id \in Ids : Create(u, id) \/ OpenStreak(u, id)
          \/ Subscribe(u) \/ QueryReturns(u) \/ QueryFails(u) \/ Back(u)
          \/ \E id \in Ids : Unsubscribe(u, id)
          \/ FetchLeft(u) \/ FetchFails(u) \/ RemoveLeft(u)
          \/ Relaunch(u)
    BY DEF Next
<1>2. CASE OpenAdd(u) \/ \E names \in SUBSET Names : Search(u, names)
    BY <1>2, CopiesHaveOwner DEF OpenAdd, Search, KeepsOwners, CopiesHadOwner
<1>3. ASSUME NEW id \in Ids, Create(u, id) PROVE KeepsOwners /\ CopiesHadOwner
    <2>1. infos[id] = {} /\ screen' = screen /\ leaving' = leaving
          /\ \E info : infos' = [infos EXCEPT ![id] = {info}]
        BY <1>3 DEF Create
    <2>2. KeepsOwners
        BY <2>1 DEF IInv, KeepsOwners
    <2> QED BY <2>1, <2>2, CopiesHaveOwner DEF CopiesHadOwner
<1>4. ASSUME NEW id \in Ids, OpenStreak(u, id) PROVE KeepsOwners /\ CopiesHadOwner
    <2> DEFINE button == \A i \in Ids : NameOf[i] = NameOf[id] => profiles[u][i] = 0
               opened(info) == [id |-> id, publicStreak |-> info, queries |-> 0,
                                subscribeButton |-> button]
    <2>0. PICK info \in infos[id] : screen' = [screen EXCEPT ![u] = {opened(info)}]
        BY <1>4 DEF OpenStreak
    <2>1. PICK s : /\ s.id = id /\ s.publicStreak = info
                   /\ screen' = [screen EXCEPT ![u] = {s}]
                   /\ infos' = infos /\ leaving' = leaving
        <3> WITNESS opened(info)
        <3> QED BY <1>4, <2>0 DEF OpenStreak
    <2> HIDE DEF button, opened
    <2>2. HasOwner(s.id, s.publicStreak)
        BY <2>1 DEF HasOwner
    <2>3. \A v \in Users : screen'[v] = screen[v] \/ screen'[v] = {s}
        BY <2>1 DEF IInv
    <2> QED BY <2>1, <2>2, <2>3, CopiesHaveOwner DEF KeepsOwners, CopiesHadOwner
<1>5. CASE Subscribe(u)
    <2>1. PICK s, info, t :
              /\ s \in screen[u]
              /\ info = [s.publicStreak EXCEPT !.subscribers = Add(@, u)]
              /\ t = [s EXCEPT !.publicStreak = info, !.queries = @ + 1]
              /\ screen' = [screen EXCEPT ![u] = {t}]
              /\ infos' = infos /\ leaving' = leaving
        BY <1>5 DEF Subscribe
    <2>2. info.owner = s.publicStreak.owner /\ t.id = s.id /\ t.publicStreak = info
        BY <2>1, CopiesHaveOwner DEF ViewPublicStreakVC, StreakInfo
    <2>3. t.id \in Ids /\ HasOwner(t.id, t.publicStreak)
        <3>1. t.id \in Ids /\ HasOwner(s.id, s.publicStreak)
            BY <2>1, <2>2, CopiesHaveOwner
        <3> QED BY <2>2, <3>1 DEF HasOwner
    <2>4. \A v \in Users : screen'[v] = screen[v] \/ screen'[v] = {t}
        BY <2>1 DEF IInv
    <2> QED BY <2>1, <2>3, <2>4, CopiesHaveOwner DEF KeepsOwners, CopiesHadOwner
<1>6. CASE QueryReturns(u)
    <2>1. PICK s \in screen[u] :
              LET found == {id \in Ids : infos[id] # {} /\ NameOf[id] = NameOf[s.id]}
              IN  /\ infos' = [id \in Ids |-> IF id \in found THEN {s.publicStreak}
                                                              ELSE infos[id]]
                  /\ screen' = [screen EXCEPT ![u] = Answered(s)]
        BY <1>6 DEF QueryReturns
    <2>2. s \in ViewPublicStreakVC /\ s.id \in Ids /\ HasOwner(s.id, s.publicStreak)
        BY <2>1, CopiesHaveOwner
    <2>3. KeepsOwners
        BY <2>1, <2>2 DEF NamesDiffer, KeepsOwners
    <2>4. \A t \in Answered(s) : t.id = s.id /\ t.publicStreak = s.publicStreak
        BY <2>2 DEF Answered, ViewPublicStreakVC
    <2>5. \A v \in Users : screen'[v] = screen[v] \/ screen'[v] = Answered(s)
        BY <2>1 DEF IInv
    <2>6. leaving' = leaving
        BY <1>6 DEF QueryReturns
    <2> QED BY <2>2, <2>3, <2>4, <2>5, <2>6, CopiesHaveOwner DEF CopiesHadOwner
<1>7. CASE QueryFails(u)
    <2>1. PICK s, t :
              /\ s \in screen[u]
              /\ t = [s EXCEPT !.queries = @ - 1]
              /\ screen' = [screen EXCEPT ![u] = {t}]
              /\ infos' = infos /\ leaving' = leaving
        BY <1>7 DEF QueryFails
    <2>2. t.id = s.id /\ t.publicStreak = s.publicStreak
        BY <2>1, CopiesHaveOwner DEF ViewPublicStreakVC
    <2>3. \A v \in Users : screen'[v] = screen[v] \/ screen'[v] = {t}
        BY <2>1 DEF IInv
    <2> QED BY <2>1, <2>2, <2>3, CopiesHaveOwner DEF KeepsOwners, CopiesHadOwner
<1>8. CASE Back(u)
    <2>1. infos' = infos /\ leaving' = leaving /\ screen' = [screen EXCEPT ![u] = {}]
        BY <1>8 DEF Back
    <2>2. \A v \in Users : screen'[v] = screen[v] \/ screen'[v] = {}
        BY <2>1 DEF IInv
    <2> QED BY <2>1, <2>2, CopiesHaveOwner DEF KeepsOwners, CopiesHadOwner
<1>9. ASSUME NEW id \in Ids, Unsubscribe(u, id) PROVE KeepsOwners /\ CopiesHadOwner
    <2>1. infos' = infos /\ screen' = screen
          /\ leaving' = [leaving EXCEPT ![u] = @ \cup {[id |-> id, fetched |-> {}]}]
        BY <1>9 DEF Unsubscribe
    <2>2. \A v \in Users : \A l \in leaving'[v] : l \in leaving[v] \/ l.fetched = {}
        BY <2>1 DEF IInv
    <2> QED BY <2>1, <2>2, CopiesHaveOwner DEF KeepsOwners, CopiesHadOwner
<1>10. CASE FetchLeft(u)
    <2>1. PICK l, m :
              /\ l \in leaving[u]
              /\ m = [l EXCEPT !.fetched = infos[l.id]]
              /\ leaving' = [leaving EXCEPT ![u] = (@ \ {l}) \cup {m}]
              /\ infos' = infos /\ screen' = screen
        BY <1>10 DEF FetchLeft
    <2>2. m.id = l.id /\ l.id \in Ids /\ m.fetched = infos[l.id]
        BY <2>1, CopiesHaveOwner DEF Leaving
    <2>3. \A info \in m.fetched : HasOwner(m.id, info)
        BY <2>2 DEF HasOwner
    <2>4. \A v \in Users : \A k \in leaving'[v] : k \in leaving[v] \/ k = m
        BY <2>1 DEF IInv
    <2> QED BY <2>1, <2>2, <2>3, <2>4, CopiesHaveOwner DEF KeepsOwners, CopiesHadOwner
<1>11. CASE FetchFails(u)
    <2>1. infos' = infos /\ screen' = screen
          /\ \E l : leaving' = [leaving EXCEPT ![u] = @ \ {l}]
        BY <1>11 DEF FetchFails
    <2>2. \A v \in Users : leaving'[v] \subseteq leaving[v]
        BY <2>1 DEF IInv
    <2> QED BY <2>1, <2>2, CopiesHaveOwner DEF KeepsOwners, CopiesHadOwner
<1>12. CASE RemoveLeft(u)
    <2>1. PICK l, info, left :
              /\ l \in leaving[u] /\ info \in l.fetched
              /\ left = [info EXCEPT !.subscribers[u] = 0]
              /\ infos' = [infos EXCEPT ![l.id] = {left}]
              /\ leaving' = [leaving EXCEPT ![u] = @ \ {l}]
              /\ screen' = screen
        BY <1>12 DEF RemoveLeft
    <2>2. l.id \in Ids /\ info \in StreakInfo /\ HasOwner(l.id, info)
        BY <2>1, CopiesHaveOwner
    <2>3. left.owner = info.owner
        BY <2>1, <2>2 DEF StreakInfo
    <2>4. HasOwner(l.id, left)
        BY <2>2, <2>3 DEF HasOwner
    <2>5. KeepsOwners
        BY <2>1, <2>2, <2>4 DEF IInv, KeepsOwners
    <2>6. \A v \in Users : leaving'[v] \subseteq leaving[v]
        BY <2>1 DEF IInv
    <2> QED BY <2>1, <2>5, <2>6, CopiesHaveOwner DEF CopiesHadOwner
<1>13. CASE Relaunch(u)
    <2>1. infos' = infos /\ screen' = [screen EXCEPT ![u] = {}]
          /\ leaving' = [leaving EXCEPT ![u] = {}]
        BY <1>13 DEF Relaunch
    <2>2. \A v \in Users : /\ screen'[v] = screen[v] \/ screen'[v] = {}
                           /\ leaving'[v] = leaving[v] \/ leaving'[v] = {}
        BY <2>1 DEF IInv
    <2> QED BY <2>1, <2>2, CopiesHaveOwner DEF KeepsOwners, CopiesHadOwner
<1> QED BY <1>1, <1>2, <1>3, <1>4, <1>5, <1>6, <1>7, <1>8, <1>9, <1>10, <1>11, <1>12, <1>13

\* When no two streaks have one name, every streak keeps its owner, however late
\* objects are written over documents: what subscribeToStreak overwrites is the
\* streak the object was read from.
THEOREM SharedOwnerIsKept == NamesDiffer => (Spec => OwnerIsKept)
<1>1. NamesDiffer /\ IInv /\ OneOwner /\ [Next]_vars
          => /\ OneOwner'
             /\ \A id \in Ids : \A info \in infos[id] :
                    \E new \in infos'[id] : new.owner = info.owner
    BY StepKeepsOwners, OwnersStay
<1>2. NamesDiffer /\ IInv /\ OneOwner /\ [Next]_vars
          => [\A id \in Ids : \A info \in infos[id] :
                 \E new \in infos'[id] : new.owner = info.owner]_vars
    BY <1>1
<1>3. Init => OneOwner
    BY DEF Init, OneOwner
<1>4. ASSUME NamesDiffer PROVE Spec => OwnerIsKept
    BY <1>1, <1>2, <1>3, <1>4, Invariant, PTL DEF Spec, OwnerIsKept
<1> QED BY <1>4

-----------------------------------------------------------------------------
\* The two records of a subscription, when users act in order.

Leaves(u, id) == \E l \in leaving[u] : l.id = id

\* How often u is to be listed: u leaves the list after the profile.
Listings(u, id) == profiles[u][id] + IF Leaves(u, id) THEN 1 ELSE 0

Records ==
    \A id \in Ids :
        /\ \A i, j \in infos[id] : i = j
        /\ \A u \in Users :
               /\ infos[id] = {} => profiles[u][id] = 0 /\ ~Leaves(u, id)
               /\ \A i \in infos[id] : /\ i.subscribers[u] = Listings(u, id)
                                       /\ Listings(u, id) <= 1

\* What a query under way will write is the document and its user.
OneSubscriberNew(u, s) ==
    \E i \in infos[s.id] : s.publicStreak = [i EXCEPT !.subscribers = Add(@, u)]

Device(u) ==
    /\ sections[u] = profiles[u]
    /\ adding[u] \subseteq {profiles[u]}
    /\ \A s, t \in screen[u] : s = t
    /\ \A s \in screen[u] :
           /\ s.subscribeButton => profiles[u][s.id] = 0
           /\ s.queries # 0 => /\ s.queries = 1 /\ s.subscribeButton /\ adding[u] = {}
                               /\ OneSubscriberNew(u, s)
    /\ \A l \in leaving[u] : l.fetched = {} \/ l.fetched = infos[l.id]

\* Only one thing is under way.
OneTask ==
    \A u, v \in Users :
        /\ \A l \in leaving[u], m \in leaving[v] : u = v /\ l = m
        /\ \A s \in screen[u] : s.queries # 0 =>
               /\ leaving[v] = {}
               /\ v # u => \A t \in screen[v] : t.queries = 0

Ordered == Records /\ (\A u \in Users : Device(u)) /\ OneTask

LEMMA OrderedFacts ==
    ASSUME IInv, Ordered, NEW u \in Users
    PROVE  /\ profiles[u] \in [Ids -> Nat] /\ sections[u] = profiles[u]
           /\ \A s \in screen[u] : s \in ViewPublicStreakVC /\ s.id \in Ids
           /\ \A l \in leaving[u] : l \in Leaving /\ l.id \in Ids
           /\ \A id \in Ids : \A i \in infos[id] : i \in StreakInfo /\ i.subscribers \in [Users -> Nat]
BY DEF IInv, Ordered, Device, Subscriptions, ViewPublicStreakVC, Leaving, StreakInfo

\* Nothing is under way, and nobody is leaving.
LEMMA QuietFacts ==
    ASSUME IInv, Ordered, Quiet
    PROVE  /\ \A u \in Users : leaving[u] = {} /\ \A s \in screen[u] : s.queries = 0
           /\ \A u \in Users, id \in Ids : ~Leaves(u, id) /\ Listings(u, id) = profiles[u][id]
<1>1. \A u \in Users, id \in Ids : ~Leaves(u, id) /\ profiles[u][id] \in Nat
    BY OrderedFacts DEF Quiet, Leaves
<1> QED BY <1>1 DEF Quiet, Listings

\* The documents, the profiles and who is leaving stay as they are.
LEMMA RecordsStay ==
    ASSUME Records, infos' = infos, profiles' = profiles,
           \A u \in Users, id \in Ids : Leaves(u, id)' = Leaves(u, id)
    PROVE  Records'
BY DEF Records, Listings

\* Whoever is leaving is the only one.
LEMMA OneLeaves ==
    ASSUME Ordered, NEW u \in Users, NEW l \in leaving[u]
    PROVE  \A v \in Users : leaving[v] = IF v = u THEN {l} ELSE {}
<1> SUFFICES ASSUME NEW v \in Users PROVE leaving[v] = IF v = u THEN {l} ELSE {}
    OBVIOUS
<1>1. \A m \in leaving[v] : v = u /\ m = l
    BY DEF Ordered, OneTask
<1>2. CASE v = u
    BY <1>1, <1>2
<1>3. CASE v # u
    BY <1>1, <1>3
<1> QED BY <1>2, <1>3

LEMMA OpenOrdered ==
    ASSUME IInv, orderly, Ordered, NEW u \in Users,
           OpenAdd(u) \/ (\E id \in Ids : OpenStreak(u, id)) \/ Back(u)
    PROVE  Ordered'
<1>1. /\ infos' = infos /\ profiles' = profiles /\ sections' = sections /\ leaving' = leaving
    BY DEF OpenAdd, OpenStreak, Back
<1>2. Records'
    BY <1>1, RecordsStay DEF Ordered, Leaves
<1>3. ASSUME NEW v \in Users
      PROVE  /\ screen'[v] = screen[v] \/ screen'[v] = {}
                \/ \E s : /\ screen'[v] = {s} /\ s.queries = 0
                          /\ s.subscribeButton => profiles[v][s.id] = 0
             /\ adding'[v] \subseteq {profiles[v]}
             /\ adding'[v] = adding[v] \/ adding'[v] = {} \/ Quiet
    <2>1. CASE OpenAdd(u)
        BY <2>1 DEF OpenAdd, InOrder, IInv, Ordered, Device
    <2>2. ASSUME NEW id \in Ids, OpenStreak(u, id) PROVE <1>3!2
        <3> DEFINE button == \A i \in Ids : NameOf[i] = NameOf[id] => profiles[u][i] = 0
                   opened(info) == [id |-> id, publicStreak |-> info, queries |-> 0,
                                    subscribeButton |-> button]
        <3>1. PICK info \in infos[id] : screen' = [screen EXCEPT ![u] = {opened(info)}]
            BY <2>2 DEF OpenStreak
        <3>2. /\ opened(info).queries = 0 /\ opened(info).id = id
              /\ opened(info).subscribeButton => profiles[u][id] = 0
            OBVIOUS
        <3>3. adding' = adding
            BY <2>2 DEF OpenStreak
        <3> HIDE DEF opened
        <3> QED BY <3>1, <3>2, <3>3 DEF IInv, Ordered, Device
    <2>3. CASE Back(u)
        BY <2>3 DEF Back, IInv, Ordered, Device
    <2> QED BY <2>1, <2>2, <2>3
<1>4. ASSUME NEW v \in Users PROVE Device(v)'
    <2>1. /\ sections'[v] = profiles'[v]
          /\ adding'[v] \subseteq {profiles'[v]}
          /\ \A l \in leaving'[v] : l.fetched = {} \/ l.fetched = infos'[l.id]
        BY <1>1, <1>3 DEF Ordered, Device
    <2>2. \A s, t \in screen'[v] : s = t
        BY <1>3 DEF Ordered, Device
    <2>3. ASSUME NEW s \in screen'[v] PROVE s.subscribeButton => profiles'[v][s.id] = 0
        BY <1>1, <1>3, <2>3 DEF Ordered, Device
    <2>4. ASSUME NEW s \in screen'[v], s.queries # 0
          PROVE  /\ s.queries = 1 /\ s.subscribeButton /\ adding'[v] = {}
                 /\ OneSubscriberNew(v, s)'
        <3>1. s \in screen[v]
            BY <1>3, <2>4
        <3>2. ~Quiet
            BY <2>4, <3>1 DEF Quiet
        <3>3. s.queries = 1 /\ s.subscribeButton /\ adding[v] = {} /\ OneSubscriberNew(v, s)
            BY <2>4, <3>1 DEF Ordered, Device
        <3>4. adding'[v] = {}
            BY <1>3, <3>2, <3>3
        <3> QED BY <1>1, <3>3, <3>4 DEF OneSubscriberNew
    <2> QED BY <2>1, <2>2, <2>3, <2>4 DEF Device
<1>5. OneTask'
    BY <1>1, <1>3 DEF Ordered, OneTask
<1> QED BY <1>2, <1>4, <1>5 DEF Ordered

LEMMA CreateOrdered ==
    ASSUME IInv, orderly, Ordered, NEW u \in Users, NEW id \in Ids, Create(u, id)
    PROVE  Ordered'
<1> DEFINE info == [owner |-> u, subscribers |-> [v \in Users |-> IF v = u THEN 1 ELSE 0]]
<1>1. /\ infos[id] = {} /\ Quiet /\ screen[u] = {} /\ adding[u] # {}
      /\ infos' = [infos EXCEPT ![id] = {info}]
      /\ adding' = [adding EXCEPT ![u] = {}]
      /\ screen' = screen /\ leaving' = leaving
    BY DEF Create, InOrder
<1>2. WriteProfile(u, Add(profiles[u], id))
    BY DEF Create, Ordered, Device
<1>3. \A v \in Users : profiles'[v] = IF v = u THEN Add(profiles[u], id) ELSE profiles[v]
    BY <1>2 DEF WriteProfile, IInv
<1>4. \A v \in Users, x \in Ids :
          profiles'[v][x] = IF v = u /\ x = id THEN 1 ELSE profiles[v][x]
    <2>1. profiles[u][id] = 0
        BY <1>1 DEF Ordered, Records
    <2> QED BY <1>3, <2>1, OrderedFacts DEF Add
<1>5. \A v \in Users, x \in Ids : ~Leaves(v, x)' /\ Listings(v, x)' = profiles'[v][x]
    <2>1. \A v \in Users, x \in Ids : ~Leaves(v, x)' /\ profiles'[v][x] \in Nat
        BY <1>1, <1>4, QuietFacts, OrderedFacts DEF Leaves
    <2> QED BY <2>1 DEF Listings
<1>6. \A x \in Ids : infos'[x] = IF x = id THEN {info} ELSE infos[x]
    BY <1>1 DEF IInv
<1>7. \A v \in Users : info.subscribers[v] = IF v = u THEN 1 ELSE 0
    OBVIOUS
<1> HIDE DEF info
<1>8. Records'
    <2> SUFFICES ASSUME NEW x \in Ids
                 PROVE  /\ \A i, j \in infos'[x] : i = j
                        /\ \A v \in Users :
                            /\ infos'[x] = {} => profiles'[v][x] = 0 /\ ~Leaves(v, x)'
                            /\ \A i \in infos'[x] : /\ i.subscribers[v] = Listings(v, x)'
                                                    /\ Listings(v, x)' <= 1
        BY DEF Records
    <2>1. CASE x = id
        <3>1. \A v \in Users : profiles[v][id] = 0
            BY <1>1 DEF Ordered, Records
        <3> QED BY <1>4, <1>5, <1>6, <1>7, <2>1, <3>1
    <2>2. CASE x # id
        BY <1>1, <1>4, <1>5, <1>6, <2>2, QuietFacts DEF Ordered, Records
    <2> QED BY <2>1, <2>2
<1>9. ASSUME NEW v \in Users PROVE Device(v)'
    <2>1. sections'[v] = profiles'[v]
        BY <1>2, OrderedFacts DEF WriteProfile, IInv
    <2>2. adding'[v] \subseteq {profiles'[v]}
        BY <1>1, <1>3 DEF IInv, Ordered, Device
    <2>3. \A s \in screen'[v] : s.queries = 0 /\ v # u /\ profiles'[v] = profiles[v]
        BY <1>1, <1>3, QuietFacts
    <2> QED BY <1>1, <2>1, <2>2, <2>3, QuietFacts DEF Ordered, Device
<1>10. OneTask'
    BY <1>1 DEF Ordered, OneTask
<1> QED BY <1>8, <1>9, <1>10 DEF Ordered

LEMMA SubscribeOrdered ==
    ASSUME IInv, orderly, Ordered, NEW u \in Users, Subscribe(u)
    PROVE  Ordered'
<1>1. PICK s, t :
          /\ s \in screen[u]
          /\ t = [s EXCEPT !.publicStreak = [s.publicStreak EXCEPT !.subscribers = Add(@, u)],
                           !.queries = @ + 1]
          /\ s.subscribeButton /\ screen' = [screen EXCEPT ![u] = {t}]
    BY DEF Subscribe
<1>2. /\ Quiet /\ adding[u] = {} /\ s.publicStreak \in infos[s.id]
      /\ infos' = infos /\ profiles' = profiles /\ sections' = sections
      /\ adding' = adding /\ leaving' = leaving
    BY <1>1 DEF Subscribe, InOrder
<1>3. /\ s \in ViewPublicStreakVC /\ s.queries = 0 /\ s.subscribeButton
      /\ profiles[u][s.id] = 0
    BY <1>1, <1>2, OrderedFacts, QuietFacts DEF Ordered, Device
<1>4. /\ t.id = s.id /\ t.queries = 1 /\ t.subscribeButton
      /\ t.publicStreak = [s.publicStreak EXCEPT !.subscribers = Add(@, u)]
    BY <1>1, <1>3 DEF ViewPublicStreakVC
<1>5. \A v \in Users : screen'[v] = IF v = u THEN {t} ELSE screen[v]
    BY <1>1 DEF IInv
<1>6. Records'
    BY <1>2, RecordsStay DEF Ordered, Leaves
<1>7. OneSubscriberNew(u, t)'
    BY <1>2, <1>4 DEF OneSubscriberNew
<1>8. ASSUME NEW v \in Users PROVE Device(v)'
    <2>1. CASE v = u
        BY <1>2, <1>3, <1>4, <1>5, <1>7, <2>1 DEF Ordered, Device
    <2>2. CASE v # u
        <3>1. screen'[v] = screen[v] /\ \A r \in screen[v] : r.queries = 0
            BY <1>2, <1>5, <2>2, QuietFacts
        <3> QED BY <1>2, <3>1 DEF Ordered, Device
    <2> QED BY <2>1, <2>2
<1>9. OneTask'
    BY <1>2, <1>5, QuietFacts DEF OneTask
<1> QED BY <1>6, <1>8, <1>9 DEF Ordered

LEMMA QueryOrdered ==
    ASSUME NamesDiffer, IInv, orderly, Ordered, NEW u \in Users, QueryReturns(u)
    PROVE  Ordered'
<1> DEFINE found(s) == {id \in Ids : infos[id] # {} /\ NameOf[id] = NameOf[s.id]}
           streaks(s) == [id \in Ids |-> profiles[u][id] + IF id \in found(s) THEN 1 ELSE 0]
<1>1. PICK s \in screen[u] :
          /\ s.queries > 0
          /\ infos' = [id \in Ids |-> IF id \in found(s) THEN {s.publicStreak} ELSE infos[id]]
          /\ WriteProfile(u, streaks(s))
          /\ screen' = [screen EXCEPT ![u] = Answered(s)]
          /\ adding' = adding /\ leaving' = leaving
    BY DEF QueryReturns
<1>2. /\ s.id \in Ids /\ s.queries = 1 /\ adding[u] = {}
      /\ profiles[u][s.id] = 0 /\ OneSubscriberNew(u, s)
    BY <1>1, OrderedFacts DEF Ordered, Device
<1>3. \A v \in Users : leaving[v] = {} /\ (v # u => \A t \in screen[v] : t.queries = 0)
    BY <1>1, <1>2 DEF Ordered, OneTask
<1>4. PICK old \in infos[s.id] : s.publicStreak = [old EXCEPT !.subscribers = Add(@, u)]
    BY <1>2 DEF OneSubscriberNew
<1>5. found(s) = {s.id}
    BY <1>2, <1>4 DEF NamesDiffer
<1>6. \A x \in Ids : infos'[x] = IF x = s.id THEN {s.publicStreak} ELSE infos[x]
    BY <1>1, <1>5
<1>7. \A x \in Ids : streaks(s)[x] = IF x = s.id THEN 1 ELSE profiles[u][x]
    BY <1>2, <1>5, OrderedFacts
<1> HIDE DEF streaks, found
<1>8. \A v \in Users : /\ profiles'[v] = IF v = u THEN streaks(s) ELSE profiles[v]
                       /\ sections'[v] = profiles'[v]
                       /\ screen'[v] = IF v = u THEN {} ELSE screen[v]
    <2>1. Answered(s) = {}
        BY <1>2 DEF Answered
    <2> QED BY <1>1, <2>1, OrderedFacts DEF WriteProfile, IInv
<1>9. \A v \in Users, x \in Ids :
          profiles'[v][x] = IF v = u /\ x = s.id THEN 1 ELSE profiles[v][x]
    BY <1>7, <1>8
<1>10. \A v \in Users, x \in Ids :
           /\ ~Leaves(v, x) /\ ~Leaves(v, x)'
           /\ Listings(v, x) = profiles[v][x] /\ Listings(v, x)' = profiles'[v][x]
    <2>1. \A v \in Users, x \in Ids :
              /\ ~Leaves(v, x) /\ ~Leaves(v, x)'
              /\ profiles[v][x] \in Nat /\ profiles'[v][x] \in Nat
        BY <1>1, <1>3, <1>9, OrderedFacts DEF Leaves
    <2> QED BY <2>1 DEF Listings
<1>11. \A v \in Users : s.publicStreak.subscribers[v] =
                            IF v = u THEN 1 ELSE old.subscribers[v]
    <2>1. old \in StreakInfo /\ old.subscribers \in [Users -> Nat]
        BY <1>2, <1>4, OrderedFacts
    <2>2. old.subscribers[u] = 0
        BY <1>2, <1>4, <1>10 DEF Ordered, Records
    <2>3. s.publicStreak.subscribers = Add(old.subscribers, u)
        BY <1>4, <2>1 DEF StreakInfo
    <2> QED BY <2>1, <2>2, <2>3 DEF Add
<1>12. Records'
    <2> SUFFICES ASSUME NEW x \in Ids
                 PROVE  /\ \A i, j \in infos'[x] : i = j
                        /\ \A v \in Users :
                            /\ infos'[x] = {} => profiles'[v][x] = 0 /\ ~Leaves(v, x)'
                            /\ \A i \in infos'[x] : /\ i.subscribers[v] = Listings(v, x)'
                                                    /\ Listings(v, x)' <= 1
        BY DEF Records
    <2>1. CASE x = s.id
        <3>1. \A v \in Users : old.subscribers[v] = profiles[v][x] /\ profiles[v][x] <= 1
            BY <1>4, <1>10, <2>1 DEF Ordered, Records
        <3> QED BY <1>6, <1>9, <1>10, <1>11, <2>1, <3>1
    <2>2. CASE x # s.id
        BY <1>6, <1>9, <1>10, <2>2 DEF Ordered, Records
    <2> QED BY <2>1, <2>2
<1>13. ASSUME NEW v \in Users PROVE Device(v)'
    <2>1. CASE v = u
        BY <1>1, <1>2, <1>3, <1>8, <2>1 DEF Device
    <2>2. CASE v # u
        BY <1>1, <1>3, <1>8, <2>2, OrderedFacts DEF Ordered, Device
    <2> QED BY <2>1, <2>2
<1>14. OneTask'
    BY <1>1, <1>3, <1>8 DEF OneTask
<1> QED BY <1>12, <1>13, <1>14 DEF Ordered

LEMMA UnsubscribeOrdered ==
    ASSUME IInv, orderly, Ordered, NEW u \in Users, NEW id \in Ids, Unsubscribe(u, id)
    PROVE  Ordered'
<1> DEFINE l == [id |-> id, fetched |-> {}]
<1>1. /\ Quiet /\ adding[u] = {} /\ profiles[u][id] > 0
      /\ WriteProfile(u, [profiles[u] EXCEPT ![id] = @ - 1])
      /\ leaving' = [leaving EXCEPT ![u] = @ \cup {l}]
      /\ infos' = infos /\ adding' = adding /\ screen' = screen
    BY OrderedFacts DEF Unsubscribe, InOrder
<1>2. /\ \A v \in Users : leaving[v] = {} /\ \A s \in screen[v] : s.queries = 0
      /\ \A v \in Users, x \in Ids : Listings(v, x) = profiles[v][x]
    BY <1>1, QuietFacts
<1>3. l.id = id /\ l.fetched = {}
    OBVIOUS
<1> HIDE DEF l
<1>4. \A v \in Users : /\ leaving'[v] = IF v = u THEN {l} ELSE {}
                       /\ sections'[v] = profiles'[v]
                       /\ profiles'[v] = IF v = u THEN [profiles[u] EXCEPT ![id] = @ - 1]
                                                  ELSE profiles[v]
    BY <1>1, <1>2, OrderedFacts DEF WriteProfile, IInv
<1>5. infos[id] # {} /\ profiles[u][id] = 1
    <2>1. infos[id] # {}
        BY <1>1 DEF Ordered, Records
    <2>2. profiles[u][id] <= 1
        BY <1>2, <2>1 DEF Ordered, Records
    <2> QED BY <1>1, <2>1, <2>2, OrderedFacts
<1>6. \A v \in Users, x \in Ids :
          profiles'[v][x] = IF v = u /\ x = id THEN 0 ELSE profiles[v][x]
    BY <1>4, <1>5, OrderedFacts
<1>7. \A v \in Users, x \in Ids : Leaves(v, x)' <=> v = u /\ x = id
    BY <1>3, <1>4 DEF Leaves
<1>8. \A v \in Users, x \in Ids : Listings(v, x)' = Listings(v, x)
    <2>1. \A v \in Users, x \in Ids : Listings(v, x)' = IF v = u /\ x = id THEN 1 ELSE profiles[v][x]
        BY <1>6, <1>7, OrderedFacts DEF Listings
    <2> QED BY <1>2, <1>5, <2>1
<1>9. Records'
    BY <1>1, <1>5, <1>6, <1>7, <1>8 DEF Ordered, Records
<1>10. ASSUME NEW v \in Users PROVE Device(v)'
    <2>1. adding'[v] \subseteq {profiles'[v]}
        BY <1>1, <1>4 DEF Ordered, Device
    <2>2. \A s \in screen'[v] : /\ s.queries = 0
                                /\ s.subscribeButton => profiles'[v][s.id] = 0
        BY <1>1, <1>2, <1>6, OrderedFacts DEF Ordered, Device
    <2>3. \A k \in leaving'[v] : k.fetched = {}
        BY <1>3, <1>4
    <2> QED BY <1>1, <1>4, <2>1, <2>2, <2>3 DEF Ordered, Device
<1>11. OneTask'
    BY <1>1, <1>2, <1>4 DEF OneTask
<1> QED BY <1>9, <1>10, <1>11 DEF Ordered

LEMMA FetchOrdered ==
    ASSUME IInv, orderly, Ordered, NEW u \in Users, FetchLeft(u)
    PROVE  Ordered'
<1>1. PICK l, m :
          /\ l \in leaving[u]
          /\ m = [l EXCEPT !.fetched = infos[l.id]]
          /\ leaving' = [leaving EXCEPT ![u] = (@ \ {l}) \cup {m}]
          /\ infos' = infos /\ profiles' = profiles /\ sections' = sections
          /\ adding' = adding /\ screen' = screen
    BY DEF FetchLeft
<1>2. m.id = l.id /\ m.fetched = infos[l.id]
    BY <1>1, OrderedFacts DEF Leaving
<1>3. \A v \in Users : leaving[v] = IF v = u THEN {l} ELSE {}
    BY <1>1, OneLeaves
<1>4. \A v \in Users : leaving'[v] = IF v = u THEN {m} ELSE {}
    BY <1>1, <1>3 DEF IInv
<1>5. \A v \in Users, x \in Ids : Leaves(v, x)' = Leaves(v, x)
    BY <1>2, <1>3, <1>4 DEF Leaves
<1>6. Records'
    BY <1>1, <1>5, RecordsStay DEF Ordered
<1>7. ASSUME NEW v \in Users PROVE Device(v)'
    <2>1. ASSUME NEW k \in leaving'[v] PROVE k.fetched = infos'[k.id]
        <3>1. k = m
            BY <1>4
        <3>2. infos' = infos
            BY <1>1
        <3> QED BY <1>2, <3>1, <3>2
    <2>2. \A s \in screen[v] : OneSubscriberNew(v, s)' = OneSubscriberNew(v, s)
        BY <1>1 DEF OneSubscriberNew
    <2> QED BY <1>1, <2>1, <2>2 DEF Ordered, Device
<1>8. OneTask'
    BY <1>1, <1>3, <1>4 DEF Ordered, OneTask
<1> QED BY <1>6, <1>7, <1>8 DEF Ordered

LEMMA RemoveOrdered ==
    ASSUME IInv, orderly, Ordered, NEW u \in Users, RemoveLeft(u)
    PROVE  Ordered'
<1>1. PICK l \in leaving[u] : \E i \in l.fetched :
          /\ infos' = [infos EXCEPT ![l.id] = {[i EXCEPT !.subscribers[u] = 0]}]
          /\ leaving' = [leaving EXCEPT ![u] = @ \ {l}]
          /\ profiles' = profiles /\ sections' = sections
          /\ adding' = adding /\ screen' = screen
    BY DEF RemoveLeft
<1>2. PICK old, left :
          /\ old \in l.fetched
          /\ left = [old EXCEPT !.subscribers[u] = 0]
          /\ infos' = [infos EXCEPT ![l.id] = {left}]
    BY <1>1
<1>3. l.id \in Ids /\ old \in infos[l.id]
    BY <1>1, <1>2, OrderedFacts DEF Ordered, Device
<1>4. \A v \in Users : left.subscribers[v] = IF v = u THEN 0 ELSE old.subscribers[v]
    <2>1. old \in StreakInfo /\ old.subscribers \in [Users -> Nat]
        BY <1>3, OrderedFacts
    <2> QED BY <1>2, <2>1 DEF StreakInfo
<1>5. \A v \in Users : leaving[v] = IF v = u THEN {l} ELSE {}
    BY <1>1, OneLeaves
<1>6. \A v \in Users : leaving'[v] = {} /\ \A s \in screen[v] : s.queries = 0
    <2>1. \A v \in Users : leaving'[v] = {}
        BY <1>1, <1>5 DEF IInv
    <2>2. \A v \in Users : \A s \in screen[v] : s.queries = 0
        BY <1>1 DEF Ordered, OneTask
    <2> QED BY <2>1, <2>2
<1>7. \A v \in Users, x \in Ids :
          /\ ~Leaves(v, x)' /\ Listings(v, x)' = profiles[v][x]
          /\ Leaves(v, x) <=> v = u /\ x = l.id
    <2>1. \A v \in Users, x \in Ids : /\ ~Leaves(v, x)' /\ profiles[v][x] \in Nat
                                      /\ Leaves(v, x) <=> v = u /\ x = l.id
        BY <1>5, <1>6, OrderedFacts DEF Leaves
    <2> QED BY <1>1, <2>1 DEF Listings
<1>8. \A v \in Users, x \in Ids :
          Listings(v, x) = IF v = u /\ x = l.id THEN profiles[v][x] + 1 ELSE profiles[v][x]
    BY <1>7, OrderedFacts DEF Listings
<1>9. profiles[u][l.id] = 0
    <2>1. Listings(u, l.id) <= 1 /\ profiles[u][l.id] \in Nat
        BY <1>3, OrderedFacts DEF Ordered, Records
    <2> QED BY <1>3, <1>8, <2>1
<1>10. \A x \in Ids : infos'[x] = IF x = l.id THEN {left} ELSE infos[x]
    BY <1>2 DEF IInv
<1>11. Records'
    <2> SUFFICES ASSUME NEW x \in Ids
                 PROVE  /\ \A i, j \in infos'[x] : i = j
                        /\ \A v \in Users :
                            /\ infos'[x] = {} => profiles[v][x] = 0 /\ ~Leaves(v, x)'
                            /\ \A i \in infos'[x] : /\ i.subscribers[v] = Listings(v, x)'
                                                    /\ Listings(v, x)' <= 1
        BY <1>1 DEF Records
    <2>1. CASE x = l.id
        <3>1. \A v \in Users : /\ old.subscribers[v] = Listings(v, x)
                               /\ Listings(v, x) <= 1
            BY <1>3, <2>1 DEF Ordered, Records
        <3> QED BY <1>4, <1>7, <1>8, <1>9, <1>10, <2>1, <3>1
    <2>2. CASE x # l.id
        BY <1>7, <1>8, <1>10, <2>2 DEF Ordered, Records
    <2> QED BY <2>1, <2>2
<1>12. ASSUME NEW v \in Users PROVE Device(v)'
    BY <1>1, <1>6 DEF Ordered, Device
<1>13. OneTask'
    BY <1>1, <1>6 DEF OneTask
<1> QED BY <1>11, <1>12, <1>13 DEF Ordered

LEMMA NextOrdered ==
    ASSUME NamesDiffer, IInv, orderly => Ordered, [Next]_vars
    PROVE  (orderly => Ordered)'
<1>0. CASE UNCHANGED vars
    BY <1>0 DEF vars, Ordered, Records, Listings, Leaves, Device, OneSubscriberNew, OneTask
<1> SUFFICES ASSUME Next, orderly, Ordered PROVE Ordered'
    <2>1. orderly' = orderly
        BY <1>0 DEF Next, Search, OpenAdd, Create, OpenStreak, Subscribe, QueryReturns,
            QueryFails, Back, Unsubscribe, FetchLeft, FetchFails, RemoveLeft, Relaunch, vars
    <2> QED BY <1>0, <2>1
<1>1. PICK u \in Users :
          \/ OpenAdd(u) \/ \E id \in Ids : Create(u, id) \/ OpenStreak(u, id)
          \/ Subscribe(u) \/ QueryReturns(u) \/ Back(u)
          \/ \E id \in Ids : Unsubscribe(u, id)
          \/ FetchLeft(u) \/ RemoveLeft(u)
    BY DEF Next, Search, QueryFails, FetchFails, Relaunch
<1> QED BY <1>1, OpenOrdered, CreateOrdered, SubscribeOrdered, QueryOrdered,
           UnsubscribeOrdered, FetchOrdered, RemoveOrdered

\* When no two streaks have one name and users act one at a time, on current
\* data, the profiles and the lists of subscribers agree whenever nothing is
\* under way, whoever created, subscribed and unsubscribed before.
THEOREM SharedRecordsAgree == NamesDiffer => (Spec => []RecordsAgree)
<1>1. Init => (orderly => Ordered)
    <2> SUFFICES ASSUME Init PROVE Ordered
        OBVIOUS
    <2>1. Records
        BY DEF Init, Records, NoStreaks, Leaves
    <2>2. (\A u \in Users : Device(u)) /\ OneTask
        BY DEF Init, Device, OneTask
    <2> QED BY <2>1, <2>2 DEF Ordered
<1>2. IInv /\ (orderly => Ordered) => RecordsAgree
    <2> SUFFICES ASSUME IInv, Ordered, orderly, Quiet, NEW u \in Users, NEW id \in Ids
                 PROVE  /\ Subscribed(u, id) <=> IsListed(u, id)
                        /\ profiles[u][id] <= 1
                        /\ \A info \in infos[id] : info.subscribers[u] <= 1
        BY DEF RecordsAgree
    <2>1. Listings(u, id) = profiles[u][id] /\ profiles[u][id] \in Nat
        BY QuietFacts, OrderedFacts
    <2> QED BY <2>1 DEF Ordered, Records, Subscribed, IsListed
<1>3. NamesDiffer /\ IInv /\ (orderly => Ordered) /\ [Next]_vars => (orderly => Ordered)'
    BY NextOrdered
<1>4. ASSUME NamesDiffer PROVE Spec => []RecordsAgree
    BY <1>1, <1>2, <1>3, <1>4, Invariant, PTL DEF Spec
<1> QED BY <1>4
=============================================================================
