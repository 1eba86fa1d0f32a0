----------------------- MODULE StreakLifecycle_proofs -----------------------
(* The state of the app stays well-formed, no day of a streak is ever        *)
(* counted twice, and once every snapshot is delivered all copies agree and  *)
(* what has expired is reset: for any number of streaks, any reminder days,  *)
(* any use of the app and any length of time.                                *)
EXTENDS StreakLifecycle, StreakCalendar_proofs, FiniteSetTheorems, SequenceTheorems

\* The strengthening: the days counted are finitely many.
IInv ==
    /\ TypeOK
    /\ NumberBounded
    /\ \A s \in Streaks : IsFiniteSet(completed[s])

-----------------------------------------------------------------------------
\* What a write, a decode and a deallocation do to types.

LEMMA BlankType == Blank \in Profile
<1>1. [day |-> 0, tick |-> 0] \in Date
    BY TicksAssumption DEF Date
<1>2. Weekdays \in ReminderDays
    BY DEF Weekdays, ReminderDays
<1> QED BY <1>1, <1>2, NewSubscriptionType DEF Blank, Profile

LEMMA RetainType ==
    ASSUME NEW objects \in [Objects -> Profile], NEW refs
    PROVE  /\ Retain(objects, refs) \in [Objects -> Profile]
           /\ \A o \in Objects : Retain(objects, refs)[o] \in {objects[o], Blank}
BY BlankType DEF Retain

LEMMA NewObjectType ==
    ASSUME ref \in [Holders -> Objects \cup {0}]
    PROVE  NewObject \in Objects
<1>1. \E o \in {1, 2, 3} : ref["view"] # o /\ ref["upload"] # o
    OBVIOUS
<1>2. \E o \in Objects : ref["view"] # o /\ ref["upload"] # o
    BY <1>1 DEF Objects
<1> QED BY <1>2 DEF NewObject

LEMMA AppearType ==
    ASSUME NEW s \in Streaks, NEW profile
    PROVE  Appear(s, profile) \in [screen : Screens, streak : Streaks,
                                   markDone : BOOLEAN, info : SUBSET ReminderDays]
BY DEF Appear, Screens, CanBeCompletedToday, WasCompletedToday

LEMMA AtHomeType ==
    AtHome \in [screen : Screens, streak : Streaks,
                markDone : BOOLEAN, info : SUBSET ReminderDays]
BY LifecycleAssumption DEF AtHome, Screens, AnyStreak

LEMMA WriteType ==
    ASSUME TypeOK, NEW profile \in Profile, NEW touched, Write(profile, touched)
    PROVE  /\ cloud' = profile /\ cloud' \in Profile
           /\ due' \in Seq(Profile)
           /\ due' = due \/ due' = Append(due, profile)
BY AppendProperties DEF TypeOK, Write

LEMMA CompleteHeldType ==
    ASSUME TypeOK, CompleteHeld, nav.screen # "home"
    PROVE  /\ heap' \in [Objects -> Profile]
           /\ completed' \in [Streaks -> SUBSET Nat]
           /\ ref["view"] \in Objects /\ nav.streak \in Streaks
           /\ LET held == heap[ref["view"]]
              IN  heap' = [heap EXCEPT ![ref["view"]] =
                      [held EXCEPT ![nav.streak] = CompleteStreak(held[nav.streak], now)]]
<1> DEFINE o == ref["view"]
           s == nav.streak
<1>1. o \in Objects /\ s \in Streaks
    BY DEF TypeOK, Holders
<1>2. heap[o] \in Profile /\ heap[o][s] \in Subscription /\ now \in Date /\ now.day \in Nat
    BY <1>1 DEF TypeOK, Profile, Date
<1>3. CompleteStreak(heap[o][s], now) \in Subscription
    BY <1>2, CompleteType
<1>4. heap' = [heap EXCEPT ![o] = [heap[o] EXCEPT ![s] = CompleteStreak(heap[o][s], now)]]
    BY DEF CompleteHeld
<1>5. heap' \in [Objects -> Profile]
    BY <1>1, <1>2, <1>3, <1>4 DEF TypeOK, Profile
<1>6. completed' \in [Streaks -> SUBSET Nat]
    BY <1>1, <1>2 DEF CompleteHeld, TypeOK
<1> QED BY <1>1, <1>4, <1>5, <1>6

LEMMA SaveEditFacts ==
    ASSUME TypeOK, NEW days \in DaySets, SaveEdit(days)
    PROVE  \E q \in Profile, touched \in BOOLEAN :
               /\ ref["view"] \in Objects /\ nav.streak \in Streaks
               /\ \/ q = [heap[ref["view"]] EXCEPT ![nav.streak] =
                         [ResetStreak(heap[ref["view"]][nav.streak], now)
                            EXCEPT !.reminderDays = days]]
                  \/ q = [heap[ref["view"]] EXCEPT ![nav.streak] =
                         [heap[ref["view"]][nav.streak] EXCEPT !.reminderDays = days]]
               /\ heap' = [heap EXCEPT ![ref["view"]] = q]
               /\ streakInfo' = [streakInfo EXCEPT ![nav.streak] = days]
               /\ Write(q, touched)
               /\ nav' = Appear(nav.streak, q)
<1> DEFINE o == ref["view"]
           s == nav.streak
           sub == heap[o][s]
<1>1. o \in Objects /\ s \in Streaks /\ days \in ReminderDays
    BY LifecycleAssumption DEF TypeOK, Holders, SaveEdit
<1>2. heap[o] \in Profile /\ sub \in Subscription /\ now \in Date
    BY <1>1 DEF TypeOK, Profile
<1>3. PICK loaded \in nav.info, touched \in BOOLEAN :
          LET edited == [(IF days # loaded THEN ResetStreak(sub, now) ELSE sub)
                            EXCEPT !.reminderDays = days]
          IN  /\ heap' = [heap EXCEPT ![o][s] = edited]
              /\ streakInfo' = [streakInfo EXCEPT ![s] = days]
              /\ Write(heap'[o], touched)
              /\ nav' = Appear(s, heap'[o])
    BY DEF SaveEdit
<1> DEFINE base == IF days # loaded THEN ResetStreak(sub, now) ELSE sub
           edited == [base EXCEPT !.reminderDays = days]
           q == [heap[o] EXCEPT ![s] = edited]
<1>4. base \in Subscription
    BY <1>2, ResetFacts
<1>5. edited \in Subscription
    BY <1>1, <1>4 DEF Subscription
<1>6. q \in Profile
    BY <1>1, <1>2, <1>5 DEF Profile
<1>7. heap' = [heap EXCEPT ![o] = q]
    BY <1>3
<1>8. heap'[o] = q
    BY <1>1, <1>7 DEF TypeOK
<1>9. \/ q = [heap[o] EXCEPT ![s] = [ResetStreak(sub, now) EXCEPT !.reminderDays = days]]
      \/ q = [heap[o] EXCEPT ![s] = [sub EXCEPT !.reminderDays = days]]
    OBVIOUS
<1> HIDE DEF q
<1> QED BY <1>1, <1>3, <1>6, <1>7, <1>8, <1>9

LEMMA SnapshotFacts ==
    ASSUME TypeOK, Snapshot
    PROVE  \E q \in Profile :
               /\ due # <<>> /\ Head(due) \in Profile /\ Tail(due) \in Seq(Profile)
               /\ q = [s \in Streaks |-> Verified(Head(due)[s], now)]
               /\ cur' = {Head(due)}
               /\ NewObject \in Objects
               /\ ref' = [ref EXCEPT !["home"] = NewObject]
               /\ heap' = Retain([heap EXCEPT ![NewObject] = q], ref')
               /\ \/ cloud' = q /\ due' = Append(Tail(due), q)
                  \/ cloud' = cloud /\ due' = Tail(due)
<1> DEFINE q == [s \in Streaks |-> Verified(Head(due)[s], now)]
<1>1. due # <<>> /\ due \in Seq(Profile)
    BY DEF Snapshot, TypeOK
<1>2. Head(due) \in Profile /\ Tail(due) \in Seq(Profile)
    BY <1>1, HeadTailProperties
<1>3. \A s \in Streaks : Verified(Head(due)[s], now) \in Subscription
    BY <1>2, VerifiedType DEF TypeOK, Profile
<1>4. q \in Profile
    BY <1>3 DEF Profile
<1>5. NewObject \in Objects
    BY NewObjectType DEF TypeOK
<1>6. /\ cur' = {Head(due)}
      /\ ref' = [ref EXCEPT !["home"] = NewObject]
      /\ heap' = Retain([heap EXCEPT ![NewObject] = q], ref')
      /\ \/ cloud' = q /\ due' = Append(Tail(due), q)
         \/ cloud' = cloud /\ due' = Tail(due)
    BY DEF Snapshot
<1> HIDE DEF q
<1>7. q = [s \in Streaks |-> Verified(Head(due)[s], now)]
    BY DEF q
<1> QED BY <1>1, <1>2, <1>4, <1>5, <1>6, <1>7

-----------------------------------------------------------------------------
LEMMA InitType == Init => TypeOK
<1> SUFFICES ASSUME Init PROVE TypeOK
    OBVIOUS
<1>1. now \in Date
    BY TicksAssumption DEF Init, Date
<1>2. cloud \in Profile
    <2>1. \A s \in Streaks : streakInfo[s] \in ReminderDays
        BY LifecycleAssumption DEF Init
    <2>2. \A s \in Streaks : NewSubscription(streakInfo[s], now) \in Subscription
        BY <1>1, <2>1, NewSubscriptionType
    <2> QED BY <2>2 DEF Init, Profile
<1>3. streakInfo \in [Streaks -> ReminderDays]
    BY LifecycleAssumption DEF Init
<1>4. due \in Seq(Profile)
    BY <1>2 DEF Init
<1>5. heap \in [Objects -> Profile]
    BY BlankType DEF Init
<1>6. /\ ref \in [Holders -> Objects \cup {0}] /\ ref["view"] = 0
      /\ cur \in SUBSET Profile /\ kept \in [Keepers -> SUBSET Profile]
      /\ completed \in [Streaks -> SUBSET Nat]
    BY DEF Init, Holders
<1>7. nav.screen = "home"
    BY DEF Init, AtHome
<1> QED BY <1>1, <1>2, <1>3, <1>4, <1>5, <1>6, <1>7, AtHomeType DEF TypeOK, Init

\* Each action keeps the state well-formed.
LEMMA NextType == TypeOK /\ [Next]_vars => TypeOK'
<1> SUFFICES ASSUME TypeOK, [Next]_vars PROVE TypeOK'
    OBVIOUS
<1> USE DEF saved, local
<1>1. CASE Tick
    <2>1. now' \in Date
        BY <1>1, TicksAssumption DEF Tick, TypeOK, Date
    <2> QED BY <1>1, <2>1 DEF Tick, TypeOK
<1>2. CASE Snapshot
    <2>1. PICK q \in Profile :
               /\ Head(due) \in Profile /\ Tail(due) \in Seq(Profile)
               /\ cur' = {Head(due)}
               /\ NewObject \in Objects
               /\ ref' = [ref EXCEPT !["home"] = NewObject]
               /\ heap' = Retain([heap EXCEPT ![NewObject] = q], ref')
               /\ \/ cloud' = q /\ due' = Append(Tail(due), q)
                  \/ cloud' = cloud /\ due' = Tail(due)
        BY <1>2, SnapshotFacts
    <2>2. due' \in Seq(Profile) /\ cloud' \in Profile
        <3>1. Append(Tail(due), q) \in Seq(Profile)
            BY <2>1, AppendProperties
        <3> QED BY <2>1, <3>1 DEF TypeOK
    <2>3. heap' \in [Objects -> Profile]
        <3>1. [heap EXCEPT ![NewObject] = q] \in [Objects -> Profile]
            BY <2>1 DEF TypeOK
        <3> QED BY <2>1, <3>1, RetainType
    <2>4. ref' \in [Holders -> Objects \cup {0}] /\ ref'["view"] = ref["view"]
        BY <2>1 DEF TypeOK, Holders
    <2> QED BY <1>2, <2>1, <2>2, <2>3, <2>4 DEF Snapshot, TypeOK
<1>3. ASSUME NEW s \in Streaks, OpenStreak(s) PROVE TypeOK'
    <2>1. ref' \in [Holders -> Objects \cup {0}] /\ ref'["view"] # 0
        BY <1>3 DEF OpenStreak, TypeOK, Holders
    <2>2. nav' = Appear(s, heap[ref["home"]]) /\ nav'.screen = "view"
        BY <1>3 DEF OpenStreak, Appear
    <2> QED BY <1>3, <2>1, <2>2, AppearType DEF OpenStreak, TypeOK
<1>4. CASE Reappear
    <2>1. nav' = Appear(nav.streak, heap[ref["view"]]) /\ nav'.screen = "view"
        BY <1>4 DEF Reappear, Appear
    <2> QED BY <1>4, <2>1, AppearType DEF Reappear, TypeOK
<1>5. CASE TapMarkDone
    BY <1>5 DEF TapMarkDone, TypeOK, Screens
<1>6. CASE Pop
    <2>1. CASE nav.screen = "view"
        <3>1. /\ nav' = AtHome /\ nav'.screen = "home"
              /\ ref' = [ref EXCEPT !["view"] = 0] /\ heap' = Retain(heap, ref')
            BY <1>6, <2>1 DEF Pop, AtHome
        <3>2. heap' \in [Objects -> Profile]
            BY <3>1, RetainType DEF TypeOK
        <3> QED BY <1>6, <3>1, <3>2, AtHomeType DEF Pop, TypeOK, Holders
    <2>2. CASE nav.screen # "view"
        <3>1. /\ nav' = Appear(nav.streak, heap[ref["view"]]) /\ nav'.screen = "view"
              /\ UNCHANGED <<ref, heap>>
            BY <1>6, <2>2 DEF Pop, Appear
        <3> QED BY <1>6, <3>1, AppearType DEF Pop, TypeOK
    <2> QED BY <2>1, <2>2
<1>7. CASE PostStreak
    <2>1. heap' \in [Objects -> Profile] /\ completed' \in [Streaks -> SUBSET Nat]
          /\ ref["view"] \in Objects
        BY <1>7, CompleteHeldType DEF PostStreak
    <2>2. cloud' \in Profile /\ due' \in Seq(Profile)
        BY <1>7, <2>1, WriteType DEF PostStreak
    <2> QED BY <1>7, <2>1, <2>2 DEF PostStreak, TypeOK
<1>8. CASE PostStreakWithImage
    <2>1. heap' \in [Objects -> Profile] /\ completed' \in [Streaks -> SUBSET Nat]
        BY <1>8, CompleteHeldType DEF PostStreakWithImage
    <2> QED BY <1>8, <2>1 DEF PostStreakWithImage, TypeOK, Holders
<1>9. CASE ImageUploaded
    <2>1. heap[ref["upload"]] \in Profile
        BY <1>9 DEF ImageUploaded, TypeOK, Holders
    <2>2. cloud' \in Profile /\ due' \in Seq(Profile)
        BY <1>9, <2>1, WriteType DEF ImageUploaded
    <2>3. heap' \in [Objects -> Profile]
        BY <1>9, RetainType DEF ImageUploaded, TypeOK
    <2> QED BY <1>9, <2>2, <2>3 DEF ImageUploaded, TypeOK, Holders
<1>10. CASE OpenEdit
    BY <1>10 DEF OpenEdit, TypeOK, Screens
<1>11. CASE StreakInfoLoaded
    <2>1. {streakInfo[nav.streak]} \in SUBSET ReminderDays
        BY DEF TypeOK
    <2> QED BY <1>11, <2>1 DEF StreakInfoLoaded, TypeOK
<1>12. ASSUME NEW days \in DaySets, SaveEdit(days) PROVE TypeOK'
    <2>1. PICK q \in Profile, touched \in BOOLEAN :
               /\ ref["view"] \in Objects
               /\ heap' = [heap EXCEPT ![ref["view"]] = q]
               /\ streakInfo' = [streakInfo EXCEPT ![nav.streak] = days]
               /\ Write(q, touched)
               /\ nav' = Appear(nav.streak, q)
        BY <1>12, SaveEditFacts
    <2>2. cloud' \in Profile /\ due' \in Seq(Profile)
        BY <2>1, WriteType
    <2>3. nav'.screen = "view" /\ nav.screen = "edit" /\ days \in ReminderDays
        BY <1>12, <2>1, LifecycleAssumption DEF Appear, SaveEdit
    <2> QED BY <1>12, <2>1, <2>2, <2>3, AppearType DEF SaveEdit, TypeOK
<1>13. ASSUME NEW w \in Keepers, KeepCopy(w) PROVE TypeOK'
    BY <1>13 DEF KeepCopy, TypeOK
<1>14. ASSUME NEW w \in Keepers, WriteBack(w) PROVE TypeOK'
    <2>1. PICK profile \in kept[w], touched \in BOOLEAN :
              /\ Write(profile, touched \/ w = "friend")
              /\ kept' = [kept EXCEPT ![w] = {}] \/ kept' = kept
        BY <1>14 DEF WriteBack
    <2>2. cloud' \in Profile /\ due' \in Seq(Profile)
        BY <2>1, WriteType DEF TypeOK
    <2> QED BY <1>14, <2>1, <2>2 DEF WriteBack, TypeOK
<1>15. CASE DeletePost
    <2>1. PICK profile \in cur : Write(profile, TRUE)
        BY <1>15 DEF DeletePost
    <2>2. cloud' \in Profile /\ due' \in Seq(Profile)
        BY <2>1, WriteType DEF TypeOK
    <2> QED BY <1>15, <2>2 DEF DeletePost, TypeOK
<1>16. CASE Relaunch
    <2>1. heap' \in [Objects -> Profile] /\ ref' \in [Holders -> Objects \cup {0}]
          /\ ref'["view"] = 0 /\ nav'.screen = "home" /\ due' \in Seq(Profile)
        BY <1>16, BlankType DEF Relaunch, Launched, AtHome, Holders, TypeOK
    <2> QED BY <1>16, <2>1, AtHomeType DEF Relaunch, Launched, TypeOK
<1>17. CASE UNCHANGED vars
    BY <1>17 DEF vars, TypeOK
<1> QED BY <1>1, <1>2, <1>3, <1>4, <1>5, <1>6, <1>7, <1>8, <1>9, <1>10, <1>11,
           <1>12, <1>13, <1>14, <1>15, <1>16, <1>17 DEF Next

\* The app's state stays well-formed, and a screen holds a profile object
\* exactly while it is on top of HomeVC.
THEOREM LifecycleTypeCorrect == Spec => []TypeOK
BY InitType, NextType, PTL DEF Spec

-----------------------------------------------------------------------------
\* What a day counted, or a reset, does to one copy.

\* What happens to one subscription's account of the days.

LEMMA DaysDoneFinite ==
    ASSUME IInv, NEW s \in Streaks, NEW day
    PROVE  /\ IsFiniteSet(DaysDone(s, day))
           /\ Cardinality(DaysDone(s, day)) \in Nat
<1>1. IsFiniteSet(completed[s]) /\ DaysDone(s, day) \in SUBSET completed[s]
    BY DEF IInv, DaysDone
<1>2. IsFiniteSet(DaysDone(s, day))
    BY <1>1, FS_Subset
<1> QED BY <1>2, FS_CardinalityType

\* A number of 0 is never too much.
LEMMA ZeroCounted ==
    ASSUME IInv, NEW s \in Streaks, NEW sub, sub.streakNumber = 0,
           ~Before(now, sub.lastStreakUpdate)
    PROVE  CountedSub(s, sub)
BY DaysDoneFinite DEF CountedSub

LEMMA ResetCounted ==
    ASSUME IInv, NEW s \in Streaks, NEW sub \in Subscription
    PROVE  CountedSub(s, ResetStreak(sub, now))
<1>1. now \in Date
    BY DEF IInv, TypeOK
<1>2. ~Before(now, now)
    BY <1>1 DEF Before, Date
<1> QED BY <1>1, <1>2, ResetFacts, ZeroCounted

LEMMA BlankCounted == IInv => Counted(Blank)
<1> SUFFICES ASSUME IInv, NEW s \in Streaks PROVE CountedSub(s, Blank[s])
    BY DEF Counted
<1>1. Blank[s].streakNumber = 0 /\ Blank[s].lastStreakUpdate = [day |-> 0, tick |-> 0]
    BY DEF Blank, NewSubscription
<1>2. now \in Date
    BY DEF IInv, TypeOK
<1>3. ~Before(now, [day |-> 0, tick |-> 0])
    BY <1>2 DEF Before, Date
<1> QED BY <1>1, <1>3, ZeroCounted

\* The account holds however time goes on and whatever else is completed.
LEMMA CountedStays ==
    ASSUME IInv, TypeOK', now' = now \/ Before(now, now'),
           \A s \in Streaks : completed[s] \subseteq completed'[s]
                              /\ IsFiniteSet(completed'[s]),
           NEW s \in Streaks, NEW sub \in Subscription, CountedSub(s, sub)
    PROVE  CountedSub(s, sub)'
<1> DEFINE day == sub.lastStreakUpdate.day
           before == {d \in completed[s] : d <= day}
           after == {d \in completed'[s] : d <= day}
<1>1. before \in SUBSET after /\ after \in SUBSET completed'[s]
    OBVIOUS
<1>2. IsFiniteSet(after)
    BY <1>1, FS_Subset
<1>3. /\ Cardinality(before) <= Cardinality(after)
      /\ Cardinality(before) \in Nat /\ Cardinality(after) \in Nat
    <2>1. IsFiniteSet(before) /\ Cardinality(before) <= Cardinality(after)
        BY <1>1, <1>2, FS_Subset
    <2> QED BY <1>2, <2>1, FS_CardinalityType
<1>4. sub.streakNumber \in Nat /\ sub.streakNumber <= Cardinality(before)
    BY DEF CountedSub, DaysDone, Subscription
<1>5. sub.streakNumber <= Cardinality(after)
    BY <1>3, <1>4
<1>6. ~Before(now', sub.lastStreakUpdate)
    <2>1. now \in Date /\ now' \in Date /\ sub.lastStreakUpdate \in Date
        BY DEF IInv, TypeOK, Subscription
    <2> QED BY <2>1 DEF CountedSub, Before, Date
<1> QED BY <1>5, <1>6 DEF CountedSub, DaysDone

\* A completion adds one to the number and a new day to the account.
LEMMA CompletionCounted ==
    ASSUME IInv, now' = now, TypeOK', NEW s \in Streaks, NEW sub \in Subscription,
           CountedSub(s, sub), CanBeCompletedToday(sub, now),
           completed'[s] = completed[s] \cup {now.day}
    PROVE  CountedSub(s, CompleteStreak(sub, now))'
<1> DEFINE day == sub.lastStreakUpdate.day
           before == {d \in completed[s] : d <= day}
           after == {d \in completed'[s] : d <= now.day}
<1>1. now \in Date /\ now.day \in Nat /\ day \in Nat /\ sub.streakNumber \in Nat
      /\ sub.lastStreakUpdate \in Date
    BY DEF IInv, TypeOK, Subscription, Date
<1>2. IsFiniteSet(completed'[s])
    <2>1. IsFiniteSet(completed[s])
        BY DEF IInv
    <2>2. IsFiniteSet(completed[s] \cup {now.day})
        BY <2>1, FS_AddElement
    <2> QED BY <2>2
<1>3. after \in SUBSET completed'[s] /\ now.day \in after
    BY <1>1
<1>4. IsFiniteSet(after) /\ Cardinality(after) \in Nat
    <2>1. IsFiniteSet(after)
        BY <1>2, <1>3, FS_Subset
    <2> QED BY <2>1, FS_CardinalityType
<1>5. sub.streakNumber + 1 <= Cardinality(after)
    <2>1. CASE sub.streakNumber = 0
        <3>1. Cardinality(after) # 0
            BY <1>3, <1>4, FS_EmptySet
        <3> QED BY <1>4, <2>1, <3>1
    <2>2. CASE sub.streakNumber # 0
        <3>1. day < now.day
            BY <1>1, <2>2 DEF CountedSub, Before, CanBeCompletedToday, WasCompletedToday, Date
        <3>2. now.day \notin before /\ before \cup {now.day} \in SUBSET after
            BY <1>1, <3>1 DEF IInv, TypeOK
        <3>3. IsFiniteSet(before) /\ Cardinality(before) \in Nat
            BY DaysDoneFinite DEF DaysDone
        <3>4. Cardinality(before \cup {now.day}) = Cardinality(before) + 1
            BY <3>2, <3>3, FS_AddElement
        <3>5. Cardinality(before \cup {now.day}) <= Cardinality(after)
            BY <1>4, <3>2, FS_Subset
        <3>6. sub.streakNumber <= Cardinality(before)
            BY DEF CountedSub, DaysDone
        <3> QED BY <1>1, <1>4, <3>3, <3>4, <3>5, <3>6
    <2> QED BY <2>1, <2>2
<1>6. /\ CompleteStreak(sub, now).streakNumber = sub.streakNumber + 1
      /\ CompleteStreak(sub, now).lastStreakUpdate = now
    BY <1>1, CompleteFacts
<1>7. ~Before(now, now)
    BY <1>1 DEF Before, Date
<1> QED BY <1>5, <1>6, <1>7 DEF CountedSub, DaysDone

-----------------------------------------------------------------------------
\* Where copies come from: an action leaves the old ones and adds a few.

LEMMA RangeAppend ==
    ASSUME NEW S, NEW seq \in Seq(S), NEW e \in S
    PROVE  Range(Append(seq, e)) \subseteq Range(seq) \cup {e}
BY AppendProperties DEF Range

LEMMA RangeHeadTail ==
    ASSUME NEW S, NEW seq \in Seq(S), seq # <<>>
    PROVE  Head(seq) \in Range(seq) /\ Range(Tail(seq)) \subseteq Range(seq)
BY HeadTailProperties DEF Range

LEMMA RangeRetain ==
    ASSUME NEW objects \in [Objects -> Profile], NEW refs
    PROVE  Range(Retain(objects, refs)) \subseteq Range(objects) \cup {Blank}
BY DEF Range, Retain

LEMMA CopiesType == TypeOK => Copies \subseteq Profile
<1> SUFFICES ASSUME TypeOK PROVE Copies \subseteq Profile
    OBVIOUS
<1>1. Range(due) \subseteq Profile
    BY DEF TypeOK, Range
<1>2. Range(heap) \subseteq Profile
    BY DEF TypeOK, Range
<1>3. UNION {kept[w] : w \in Keepers} \subseteq Profile
    BY DEF TypeOK
<1> QED BY <1>1, <1>2, <1>3 DEF TypeOK, Copies

LEMMA WriteCopies ==
    ASSUME TypeOK, NEW profile \in Profile, NEW touched, Write(profile, touched)
    PROVE  {cloud'} \cup Range(due') \subseteq {cloud} \cup Range(due) \cup {profile}
<1>1. cloud' = profile /\ (due' = due \/ due' = Append(due, profile)) /\ due \in Seq(Profile)
    BY WriteType DEF TypeOK
<1>2. Range(Append(due, profile)) \subseteq Range(due) \cup {profile}
    BY <1>1, RangeAppend
<1> QED BY <1>1, <1>2

\* The invariant is kept by an action that adds copies which account for
\* their days, and forgets no day.
LEMMA Preserved ==
    ASSUME IInv, TypeOK', now' = now \/ Before(now, now'),
           \A s \in Streaks : completed[s] \subseteq completed'[s]
                              /\ IsFiniteSet(completed'[s]),
           \A p \in Copies' : p \in Copies \/ Counted(p)'
    PROVE  IInv'
<1>1. ASSUME NEW p \in Copies PROVE Counted(p)'
    <2>1. Counted(p) /\ p \in Profile
        BY CopiesType DEF IInv, NumberBounded
    <2>2. ASSUME NEW s \in Streaks PROVE CountedSub(s, p[s])'
        <3>1. CountedSub(s, p[s]) /\ p[s] \in Subscription
            BY <2>1 DEF Counted, Profile
        <3> QED BY <3>1, CountedStays
    <2> QED BY <2>2 DEF Counted
<1>2. NumberBounded'
    BY <1>1 DEF NumberBounded
<1> QED BY <1>2 DEF IInv

\* The same when neither the clock nor the history moves.
LEMMA PreservedStill ==
    ASSUME IInv, TypeOK', now' = now, completed' = completed,
           \A p \in Copies' : p \in Copies \/ Counted(p)
    PROVE  IInv'
<1>1. \A s \in Streaks : completed[s] \subseteq completed'[s] /\ IsFiniteSet(completed'[s])
    BY DEF IInv
<1>2. ASSUME NEW p, Counted(p) PROVE Counted(p)'
    BY <1>2 DEF Counted, CountedSub, DaysDone
<1> QED BY <1>1, <1>2, Preserved

-----------------------------------------------------------------------------
LEMMA InitCounted == Init => IInv
<1> SUFFICES ASSUME Init PROVE IInv
    OBVIOUS
<1>1. TypeOK
    BY InitType
<1>2. \A s \in Streaks : IsFiniteSet(completed[s])
    BY FS_EmptySet DEF Init
<1>3. ASSUME NEW s \in Streaks PROVE CountedSub(s, cloud[s])
    <2>1. cloud[s].streakNumber = 0 /\ cloud[s].lastStreakUpdate = now
        BY DEF Init, NewSubscription
    <2>2. ~Before(now, now)
        BY <1>1 DEF TypeOK, Before, Date
    <2>3. DaysDone(s, now.day) \subseteq completed[s]
        BY DEF DaysDone
    <2>4. IsFiniteSet(DaysDone(s, now.day))
        BY <1>2, <2>3, FS_Subset
    <2>5. Cardinality(DaysDone(s, now.day)) \in Nat
        BY <2>4, FS_CardinalityType
    <2> QED BY <2>1, <2>2, <2>5 DEF CountedSub
<1>4. Counted(cloud)
    BY <1>3 DEF Counted
<1>5. ASSUME NEW s \in Streaks PROVE CountedSub(s, Blank[s])
    <2>1. Blank[s].streakNumber = 0 /\ Blank[s].lastStreakUpdate = now
        BY DEF Init, Blank, NewSubscription
    <2> QED BY <1>3, <2>1 DEF Init, NewSubscription, CountedSub
<1>6. Counted(Blank)
    BY <1>5 DEF Counted
<1>7. Copies \subseteq {cloud, Blank}
    BY DEF Init, Copies, Range
<1> QED BY <1>1, <1>2, <1>4, <1>6, <1>7 DEF IInv, NumberBounded

LEMMA TickCounted == IInv /\ Tick => IInv'
<1> SUFFICES ASSUME IInv, Tick PROVE IInv'
    OBVIOUS
<1>1. TypeOK'
    BY NextType DEF Next, IInv
<1>2. Before(now, now')
    BY TicksAssumption DEF Tick, Before, IInv, TypeOK, Date
<1>3. Copies' = Copies
    BY DEF Tick, Copies, saved, local
<1>4. completed' = completed
    BY DEF Tick
<1>5. \A s \in Streaks : completed[s] \subseteq completed'[s] /\ IsFiniteSet(completed'[s])
    BY <1>4 DEF IInv
<1> QED BY <1>1, <1>2, <1>3, <1>5, Preserved

LEMMA SnapshotCounted == IInv /\ Snapshot => IInv'
<1> SUFFICES ASSUME IInv, Snapshot PROVE IInv'
    OBVIOUS
<1>1. TypeOK /\ TypeOK' /\ now \in Date
    BY NextType DEF Next, IInv, TypeOK
<1>2. PICK q \in Profile :
           /\ due # <<>> /\ Head(due) \in Profile /\ Tail(due) \in Seq(Profile)
           /\ q = [s \in Streaks |-> Verified(Head(due)[s], now)]
           /\ cur' = {Head(due)}
           /\ NewObject \in Objects
           /\ ref' = [ref EXCEPT !["home"] = NewObject]
           /\ heap' = Retain([heap EXCEPT ![NewObject] = q], ref')
           /\ \/ cloud' = q /\ due' = Append(Tail(due), q)
              \/ cloud' = cloud /\ due' = Tail(due)
    BY <1>1, SnapshotFacts
<1>3. /\ Head(due) \in Range(due) /\ Range(Tail(due)) \subseteq Range(due)
      /\ Range(Append(Tail(due), q)) \subseteq Range(Tail(due)) \cup {q}
    BY <1>1, <1>2, RangeHeadTail, RangeAppend DEF TypeOK
<1>4. Range(heap') \subseteq Range(heap) \cup {q, Blank}
    <2>1. [heap EXCEPT ![NewObject] = q] \in [Objects -> Profile]
        BY <1>1, <1>2 DEF TypeOK
    <2>2. Range([heap EXCEPT ![NewObject] = q]) \subseteq Range(heap) \cup {q}
        BY <1>1, <1>2 DEF TypeOK, Range
    <2> QED BY <1>2, <2>1, <2>2, RangeRetain
<1>5. kept' = kept /\ now' = now /\ completed' = completed
    BY DEF Snapshot
<1>6. Copies' \subseteq Copies \cup {q, Blank}
    <2>1. Range(due') \subseteq Copies \cup {q} /\ cloud' \in Copies \cup {q}
        BY <1>2, <1>3 DEF Copies
    <2>2. cur' \subseteq Copies
        BY <1>2, <1>3 DEF Copies
    <2>3. Range(heap') \subseteq Copies \cup {q, Blank}
        BY <1>4 DEF Copies
    <2>4. UNION {kept[w] : w \in Keepers}' \subseteq Copies
        BY <1>5 DEF Copies
    <2> QED BY <2>1, <2>2, <2>3, <2>4 DEF Copies
<1>7. Counted(Head(due))
    BY <1>3 DEF IInv, NumberBounded, Copies
<1>8. ASSUME NEW s \in Streaks PROVE CountedSub(s, q[s])
    <2>1. Head(due)[s] \in Subscription /\ CountedSub(s, Head(due)[s])
        BY <1>2, <1>7 DEF Profile, Counted
    <2> QED BY <1>2, <2>1, ResetCounted DEF Verified
<1>9. \A p \in {q, Blank} : Counted(p)
    BY <1>8, BlankCounted DEF Counted
<1> QED BY <1>1, <1>5, <1>6, <1>9, PreservedStill

\* completeStreak on the screen's object, whatever is written after it.
LEMMA CompleteHeldCounted ==
    ASSUME IInv, CompleteHeld, nav.screen # "home", now' = now, TypeOK'
    PROVE  \E p \in Profile :
               /\ heap'[ref["view"]] = p
               /\ Range(heap') \subseteq Range(heap) \cup {p}
               /\ \A s \in Streaks : completed[s] \subseteq completed'[s]
                                     /\ IsFiniteSet(completed'[s])
               /\ Counted(p)'
<1>1. /\ heap' \in [Objects -> Profile] /\ heap \in [Objects -> Profile]
      /\ ref["view"] \in Objects /\ nav.streak \in Streaks
      /\ heap' = [heap EXCEPT ![ref["view"]] =
              [heap[ref["view"]] EXCEPT
                  ![nav.streak] = CompleteStreak(heap[ref["view"]][nav.streak], now)]]
      /\ completed \in [Streaks -> SUBSET Nat] /\ now \in Date
    BY CompleteHeldType DEF IInv, TypeOK
<1>2. PICK o \in Objects, t \in Streaks : o = ref["view"] /\ t = nav.streak
    BY <1>1
<1>3. PICK held \in Profile : held = heap[o]
    BY <1>1, <1>2
<1>4. PICK p \in Profile : p = heap'[o]
    BY <1>1, <1>2
<1>5. p = [held EXCEPT ![t] = CompleteStreak(held[t], now)]
    BY <1>1, <1>2, <1>3, <1>4
<1>6. Range(heap') \subseteq Range(heap) \cup {p}
    BY <1>1, <1>2, <1>4 DEF Range
<1>7. completed' = IF CanBeCompletedToday(held[t], now)
                   THEN [completed EXCEPT ![t] = @ \cup {now.day}]
                   ELSE completed
    BY <1>2, <1>3 DEF CompleteHeld
<1>8. ASSUME NEW s \in Streaks
      PROVE  completed[s] \subseteq completed'[s] /\ IsFiniteSet(completed'[s])
    <2>1. completed'[s] = completed[s] \/ completed'[s] = completed[s] \cup {now.day}
        BY <1>1, <1>7
    <2> QED BY <2>1, FS_AddElement DEF IInv
<1>9. held \in Copies
    BY <1>1, <1>3 DEF Copies, Range
<1>10. ASSUME NEW s \in Streaks PROVE CountedSub(s, p[s])'
    <2>1. held[s] \in Subscription /\ CountedSub(s, held[s])
        BY <1>9 DEF Profile, IInv, NumberBounded, Counted
    <2>2. PICK sub \in Subscription : sub = held[s]
        BY <2>1
    <2>3. CASE s = t /\ CanBeCompletedToday(held[t], now)
        <3>1. completed'[s] = completed[s] \cup {now.day}
            BY <1>1, <1>7, <2>3
        <3>2. CanBeCompletedToday(sub, now) /\ CountedSub(s, sub)
            BY <2>1, <2>2, <2>3
        <3>3. CountedSub(s, CompleteStreak(sub, now))'
            BY <3>1, <3>2, CompletionCounted
        <3>4. p[s] = CompleteStreak(sub, now)
            BY <1>5, <2>2, <2>3 DEF Profile
        <3> QED BY <3>3, <3>4
    <2>4. CASE ~(s = t /\ CanBeCompletedToday(held[t], now))
        <3>1. p[s] = sub
            BY <1>5, <2>2, <2>4 DEF Profile, CompleteStreak
        <3>2. CountedSub(s, sub)
            BY <2>1, <2>2
        <3>3. CountedSub(s, sub)'
            BY <1>8, <3>2, CountedStays
        <3> QED BY <3>1, <3>3
    <2> QED BY <2>3, <2>4
<1>11. Counted(p)'
    BY <1>10 DEF Counted
<1> QED BY <1>2, <1>4, <1>6, <1>8, <1>11

LEMMA PostCounted == IInv /\ PostStreak => IInv'
<1> SUFFICES ASSUME IInv, PostStreak PROVE IInv'
    OBVIOUS
<1>1. TypeOK /\ TypeOK' /\ CompleteHeld /\ nav.screen # "home" /\ now' = now
      /\ cur' = cur /\ kept' = kept
    BY NextType DEF Next, IInv, PostStreak
<1>2. PICK p \in Profile :
               /\ heap'[ref["view"]] = p
               /\ Range(heap') \subseteq Range(heap) \cup {p}
               /\ \A s \in Streaks : completed[s] \subseteq completed'[s]
                                     /\ IsFiniteSet(completed'[s])
               /\ Counted(p)'
    BY <1>1, CompleteHeldCounted
<1>3. Write(p, TRUE)
    BY <1>2 DEF PostStreak
<1>4. {cloud'} \cup Range(due') \subseteq {cloud} \cup Range(due) \cup {p}
    BY <1>1, <1>3, WriteCopies
<1>5. Copies' \subseteq Copies \cup {p}
    BY <1>1, <1>2, <1>4 DEF Copies
<1>6. \A r \in Copies' : r \in Copies \/ Counted(r)'
    BY <1>2, <1>5
<1> QED BY <1>1, <1>2, <1>6, Preserved

LEMMA PostWithImageCounted == IInv /\ PostStreakWithImage => IInv'
<1> SUFFICES ASSUME IInv, PostStreakWithImage PROVE IInv'
    OBVIOUS
<1>1. TypeOK /\ TypeOK' /\ CompleteHeld /\ nav.screen # "home" /\ now' = now
      /\ cur' = cur /\ kept' = kept /\ cloud' = cloud /\ due' = due
    BY NextType DEF Next, IInv, PostStreakWithImage, saved
<1>2. PICK p \in Profile :
               /\ Range(heap') \subseteq Range(heap) \cup {p}
               /\ \A s \in Streaks : completed[s] \subseteq completed'[s]
                                     /\ IsFiniteSet(completed'[s])
               /\ Counted(p)'
    BY <1>1, CompleteHeldCounted
<1>3. Copies' \subseteq Copies \cup {p}
    BY <1>1, <1>2 DEF Copies
<1>4. \A r \in Copies' : r \in Copies \/ Counted(r)'
    BY <1>2, <1>3
<1> QED BY <1>1, <1>2, <1>4, Preserved

LEMMA UploadedCounted == IInv /\ ImageUploaded => IInv'
<1> SUFFICES ASSUME IInv, ImageUploaded PROVE IInv'
    OBVIOUS
<1>1. TypeOK /\ TypeOK' /\ now' = now /\ completed' = completed
      /\ cur' = cur /\ kept' = kept /\ heap' = Retain(heap, ref')
    BY NextType DEF Next, IInv, ImageUploaded
<1>2. heap[ref["upload"]] \in Range(heap) /\ heap[ref["upload"]] \in Profile
    BY <1>1 DEF ImageUploaded, TypeOK, Holders, Range
<1>3. {cloud'} \cup Range(due')
          \subseteq {cloud} \cup Range(due) \cup {heap[ref["upload"]]}
    BY <1>1, <1>2, WriteCopies DEF ImageUploaded
<1>4. Range(heap') \subseteq Range(heap) \cup {Blank}
    BY <1>1, RangeRetain DEF TypeOK
<1>5. Copies' \subseteq Copies \cup {Blank}
    BY <1>1, <1>2, <1>3, <1>4 DEF Copies
<1> QED BY <1>1, <1>5, BlankCounted, PreservedStill

LEMMA PopCounted == IInv /\ Pop => IInv'
<1> SUFFICES ASSUME IInv, Pop PROVE IInv'
    OBVIOUS
<1>1. TypeOK /\ TypeOK' /\ now' = now /\ completed' = completed
      /\ cur' = cur /\ kept' = kept /\ cloud' = cloud /\ due' = due
      /\ (heap' = Retain(heap, ref') \/ heap' = heap)
    BY NextType DEF Next, IInv, Pop, saved
<1>2. Range(heap') \subseteq Range(heap) \cup {Blank}
    BY <1>1, RangeRetain DEF TypeOK
<1>3. Copies' \subseteq Copies \cup {Blank}
    BY <1>1, <1>2 DEF Copies
<1> QED BY <1>1, <1>3, BlankCounted, PreservedStill

LEMMA SaveEditCounted ==
    ASSUME IInv, NEW days \in DaySets, SaveEdit(days)
    PROVE  IInv'
<1>1. TypeOK /\ TypeOK' /\ now' = now /\ completed' = completed
      /\ cur' = cur /\ kept' = kept /\ days \in ReminderDays
    BY NextType, LifecycleAssumption DEF Next, IInv, SaveEdit
<1>2. PICK q \in Profile, touched \in BOOLEAN :
               /\ ref["view"] \in Objects /\ nav.streak \in Streaks
               /\ \/ q = [heap[ref["view"]] EXCEPT ![nav.streak] =
                         [ResetStreak(heap[ref["view"]][nav.streak], now)
                            EXCEPT !.reminderDays = days]]
                  \/ q = [heap[ref["view"]] EXCEPT ![nav.streak] =
                         [heap[ref["view"]][nav.streak] EXCEPT !.reminderDays = days]]
               /\ heap' = [heap EXCEPT ![ref["view"]] = q]
               /\ Write(q, touched)
    BY <1>1, SaveEditFacts
<1>3. PICK held \in Profile : held = heap[ref["view"]] /\ held \in Copies
    BY <1>1, <1>2 DEF TypeOK, Copies, Range
<1>4. \A s \in Streaks : held[s] \in Subscription /\ CountedSub(s, held[s])
    BY <1>3 DEF IInv, NumberBounded, Counted, Profile
<1>5. ASSUME NEW s \in Streaks, NEW sub \in Subscription, CountedSub(s, sub)
      PROVE  CountedSub(s, [sub EXCEPT !.reminderDays = days])
    BY <1>5 DEF CountedSub, Subscription
<1>6. ASSUME NEW s \in Streaks PROVE CountedSub(s, q[s])
    <2>1. ResetStreak(held[s], now) \in Subscription
          /\ CountedSub(s, ResetStreak(held[s], now))
        BY <1>1, <1>4, ResetFacts, ResetCounted DEF TypeOK
    <2>2. CountedSub(s, [ResetStreak(held[s], now) EXCEPT !.reminderDays = days])
        BY <1>5, <2>1
    <2>3. CountedSub(s, [held[s] EXCEPT !.reminderDays = days])
        BY <1>4, <1>5
    <2>4. \/ q[s] = [ResetStreak(held[s], now) EXCEPT !.reminderDays = days]
          \/ q[s] = [held[s] EXCEPT !.reminderDays = days]
          \/ q[s] = held[s]
        BY <1>2, <1>3 DEF Profile
    <2> QED BY <1>4, <2>2, <2>3, <2>4
<1>7. Counted(q)
    BY <1>6 DEF Counted
<1>8. {cloud'} \cup Range(due') \subseteq {cloud} \cup Range(due) \cup {q}
    BY <1>1, <1>2, WriteCopies
<1>9. Range(heap') \subseteq Range(heap) \cup {q}
    BY <1>1, <1>2 DEF TypeOK, Range
<1>10. Copies' \subseteq Copies \cup {q}
    BY <1>1, <1>8, <1>9 DEF Copies
<1> QED BY <1>1, <1>7, <1>10, PreservedStill

\* A copy kept elsewhere is written back.
LEMMA WriteOldCounted ==
    ASSUME IInv, TypeOK', now' = now, completed' = completed, heap' = heap, cur' = cur,
           \A w \in Keepers : kept'[w] \subseteq kept[w],
           NEW profile \in Copies, NEW touched, Write(profile, touched)
    PROVE  IInv'
<1>1. TypeOK /\ profile \in Profile
    BY CopiesType DEF IInv
<1>2. {cloud'} \cup Range(due') \subseteq {cloud} \cup Range(due) \cup {profile}
    BY <1>1, WriteCopies
<1>3. Copies' \subseteq Copies
    BY <1>2 DEF Copies
<1> QED BY <1>3, PreservedStill

LEMMA NextCounted == IInv /\ [Next]_vars => IInv'
<1> SUFFICES ASSUME IInv, [Next]_vars PROVE IInv'
    OBVIOUS
<1>0. TypeOK /\ TypeOK'
    BY NextType DEF IInv
<1> USE DEF saved, local
<1>1. CASE Tick                 BY <1>1, TickCounted
<1>2. CASE Snapshot             BY <1>2, SnapshotCounted
<1>3. CASE PostStreak           BY <1>3, PostCounted
<1>4. CASE PostStreakWithImage  BY <1>4, PostWithImageCounted
<1>5. CASE ImageUploaded        BY <1>5, UploadedCounted
<1>6. CASE Pop                  BY <1>6, PopCounted
<1>7. ASSUME NEW days \in DaySets, SaveEdit(days) PROVE IInv'
    BY <1>7, SaveEditCounted
<1>8. ASSUME NEW w \in Keepers, KeepCopy(w) PROVE IInv'
    <2>1. Copies' \subseteq Copies
        BY <1>0, <1>8 DEF KeepCopy, Copies, TypeOK
    <2> QED BY <1>0, <1>8, <2>1, PreservedStill DEF KeepCopy
<1>9. ASSUME NEW w \in Keepers, WriteBack(w) PROVE IInv'
    <2>1. PICK profile \in kept[w], touched \in BOOLEAN :
              /\ Write(profile, touched \/ w = "friend")
              /\ kept' = [kept EXCEPT ![w] = {}] \/ kept' = kept
        BY <1>9 DEF WriteBack
    <2>2. profile \in Copies /\ \A v \in Keepers : kept'[v] \subseteq kept[v]
        BY <1>0, <2>1 DEF Copies, TypeOK
    <2> QED BY <1>0, <1>9, <2>1, <2>2, WriteOldCounted DEF WriteBack
<1>10. CASE DeletePost
    <2>1. PICK profile \in cur : Write(profile, TRUE)
        BY <1>10 DEF DeletePost
    <2>2. profile \in Copies
        BY DEF Copies
    <2> QED BY <1>0, <1>10, <2>1, <2>2, WriteOldCounted DEF DeletePost
<1>11. CASE Relaunch
    <2>1. Range(due') = {cloud} /\ cur' = {} /\ cloud' = cloud
        BY <1>11 DEF Relaunch, Launched, Range
    <2>2. Range(heap') \subseteq {Blank}
        BY <1>11 DEF Relaunch, Launched, Range
    <2>3. \A w \in Keepers : kept'[w] \subseteq kept[w]
        BY <1>11 DEF Relaunch
    <2>4. Copies' \subseteq Copies \cup {Blank}
        BY <2>1, <2>2, <2>3 DEF Copies
    <2> QED BY <1>0, <1>11, <2>4, BlankCounted, PreservedStill DEF Relaunch
<1>12. CASE \/ \E s \in Streaks : OpenStreak(s)
            \/ Reappear \/ TapMarkDone \/ OpenEdit \/ StreakInfoLoaded
            \/ UNCHANGED vars
    <2>1. UNCHANGED <<now, cloud, due, heap, cur, kept, completed>>
        BY <1>12 DEF OpenStreak, Reappear, TapMarkDone, OpenEdit, StreakInfoLoaded, vars
    <2>2. Copies' = Copies
        BY <2>1 DEF Copies
    <2> QED BY <1>0, <2>1, <2>2, PreservedStill
<1> QED BY <1>1, <1>2, <1>3, <1>4, <1>5, <1>6, <1>7, <1>8, <1>9, <1>10, <1>11,
           <1>12 DEF Next

\* No copy of the profile, however stale, ever claims more completions than the
\* different days on which the streak was completed.
THEOREM LifecycleNumberBounded == Spec => []NumberBounded
<1>1. IInv => NumberBounded
    BY DEF IInv
<1> QED BY <1>1, InitCounted, NextCounted, PTL DEF Spec

-----------------------------------------------------------------------------
\* The copies agree when nothing is due.

\* The last snapshot due is the document, and there is one until the first has
\* been delivered.
Quiet ==
    /\ due # <<>> => due[Len(due)] = cloud
    /\ due = <<>> => ref["home"] # 0
    /\ AgreesWhenQuiet

\* Whoever writes, the last snapshot due stays the document.
LEMMA WriteQuiet ==
    ASSUME TypeOK, Quiet, NEW profile \in Profile, NEW touched, Write(profile, touched)
    PROVE  /\ due' # <<>> => due'[Len(due')] = cloud'
           /\ due' = <<>> => due = <<>> /\ cloud' = cloud
           /\ touched => due' # <<>>
<1>1. due \in Seq(Profile) /\ cloud' = profile
    BY DEF TypeOK, Write
<1>2. Append(due, profile) # <<>>
      /\ Append(due, profile)[Len(Append(due, profile))] = profile
    BY <1>1, AppendProperties
<1>3. CASE touched \/ profile # cloud
    BY <1>1, <1>2, <1>3 DEF Write
<1>4. CASE ~touched /\ profile = cloud
    BY <1>1, <1>4 DEF Write, Quiet
<1> QED BY <1>3, <1>4

\* A reset leaves nothing to be reset.
LEMMA VerifiedIsFine ==
    ASSUME NEW sub \in Subscription, NEW at \in Date
    PROVE  ~MustReset(Verified(sub, at), at)
<1>1. CASE MustReset(sub, at)
    <2>1. Verified(sub, at).streakNumber = 0 /\ Verified(sub, at).lastStreakUpdate = at
        BY <1>1 DEF Verified, ResetStreak, Subscription
    <2>2. ~Before(at, at)
        BY DEF Before, Date
    <2> QED BY <2>1, <2>2 DEF MustReset, StreakExpired
<1>2. CASE ~MustReset(sub, at)
    BY <1>2 DEF Verified
<1> QED BY <1>1, <1>2

LEMMA HomeRetained ==
    ASSUME NEW objects, NEW refs, refs["home"] \in Objects
    PROVE  Retain(objects, refs)[refs["home"]] = objects[refs["home"]]
BY DEF Retain, Holders

\* Without a reset verifyStreaks leaves the profile as it is.
LEMMA SnapshotQuiet == TypeOK /\ Quiet /\ Snapshot => Quiet'
<1> SUFFICES ASSUME TypeOK, Quiet, Snapshot PROVE Quiet'
    OBVIOUS
<1>1. PICK q \in Profile :
           /\ due # <<>> /\ Head(due) \in Profile /\ Tail(due) \in Seq(Profile)
           /\ q = [s \in Streaks |-> Verified(Head(due)[s], now)]
           /\ cur' = {Head(due)}
           /\ NewObject \in Objects
           /\ ref' = [ref EXCEPT !["home"] = NewObject]
           /\ heap' = Retain([heap EXCEPT ![NewObject] = q], ref')
    BY SnapshotFacts
<1>2. due \in Seq(Profile) /\ due[Len(due)] = cloud
    BY <1>1 DEF TypeOK, Quiet
<1>3. ref'["home"] = NewObject /\ heap'[NewObject] = q
    <2>1. ref'["home"] = NewObject
        BY <1>1 DEF TypeOK, Holders
    <2>2. [heap EXCEPT ![NewObject] = q][NewObject] = q
        BY <1>1 DEF TypeOK
    <2>3. Retain([heap EXCEPT ![NewObject] = q], ref')[ref'["home"]]
              = [heap EXCEPT ![NewObject] = q][ref'["home"]]
        BY <1>1, <2>1, HomeRetained
    <2>4. heap'[NewObject] = [heap EXCEPT ![NewObject] = q][NewObject]
        BY <1>1, <2>1, <2>3
    <2> QED BY <2>1, <2>2, <2>4
<1>4. CASE \E s \in Streaks : MustReset(Head(due)[s], now)
    <2>1. cloud' = q /\ due' = Append(Tail(due), q)
        BY <1>1, <1>4 DEF Snapshot
    <2>2. due' # <<>> /\ due'[Len(due')] = q
        BY <1>1, <2>1, AppendProperties
    <2> QED BY <2>1, <2>2 DEF Quiet, AgreesWhenQuiet
<1>5. CASE ~\E s \in Streaks : MustReset(Head(due)[s], now)
    <2>1. cloud' = cloud /\ due' = Tail(due)
        BY <1>5 DEF Snapshot
    <2>2. q = Head(due)
        BY <1>1, <1>5 DEF Verified, Profile
    <2>3. CASE Tail(due) = <<>>
        <3>1. Head(due) = cloud
            <4>1. Len(Tail(due)) = Len(due) - 1 /\ Len(due) \in Nat /\ Head(due) = due[1]
                BY <1>1, <1>2
            <4>2. Len(Tail(due)) = 0
                BY <1>1, <2>3, EmptySeq
            <4>3. Len(due) = 1
                BY <4>1, <4>2
            <4> QED BY <1>2, <4>1, <4>3
        <3> QED BY <1>1, <1>3, <2>1, <2>2, <2>3, <3>1 DEF Quiet, AgreesWhenQuiet, Objects
    <2>4. CASE Tail(due) # <<>>
        <3>1. Tail(due)[Len(Tail(due))] = due[Len(due)]
            BY <1>1, <1>2, <2>4
        <3> QED BY <1>2, <2>1, <2>4, <3>1 DEF Quiet, AgreesWhenQuiet
    <2> QED BY <2>3, <2>4
<1> QED BY <1>4, <1>5

\* A step that leaves what is due, and the Home tab's object, alone.
LEMMA StaysQuiet ==
    ASSUME TypeOK, Quiet, cloud' = cloud, due' = due, cur' = cur,
           ref'["home"] = ref["home"],
           due = <<>> => \/ ref'["upload"] = ref'["home"]
                         \/ /\ ref'["upload"] = ref["upload"]
                            /\ heap'[ref["home"]] = heap[ref["home"]]
    PROVE  Quiet'
BY DEF Quiet, AgreesWhenQuiet

LEMMA NextQuiet == TypeOK /\ Quiet /\ [Next]_vars => Quiet'
<1> SUFFICES ASSUME TypeOK, Quiet, [Next]_vars PROVE Quiet'
    OBVIOUS
<1> USE DEF saved, local
<1>1. CASE Snapshot
    BY <1>1, SnapshotQuiet
<1>2. CASE Pop
    <2>1. cloud' = cloud /\ due' = due /\ cur' = cur
          /\ ref'["home"] = ref["home"] /\ ref'["upload"] = ref["upload"]
        BY <1>2 DEF Pop, TypeOK, Holders
    <2>2. CASE due = <<>>
        <3>1. ref'["home"] \in Objects
            BY <2>1, <2>2 DEF Quiet, TypeOK, Holders
        <3>2. heap'[ref["home"]] = heap[ref["home"]]
            BY <1>2, <2>1, <3>1, HomeRetained DEF Pop
        <3> QED BY <2>1, <3>2, StaysQuiet
    <2> QED BY <2>1, <2>2, StaysQuiet
<1>3. CASE PostStreak
    <2>1. heap' \in [Objects -> Profile] /\ ref["view"] \in Objects
        BY <1>3, CompleteHeldType DEF PostStreak
    <2>2. Write(heap'[ref["view"]], TRUE)
        BY <1>3 DEF PostStreak
    <2>3. due' # <<>> /\ due'[Len(due')] = cloud'
        BY <2>1, <2>2, WriteQuiet
    <2> QED BY <2>3 DEF Quiet, AgreesWhenQuiet
<1>4. CASE PostStreakWithImage
    <2>1. /\ ref["view"] \in Objects /\ heap \in [Objects -> Profile]
          /\ \E q : heap' = [heap EXCEPT ![ref["view"]] = q]
        BY <1>4, CompleteHeldType DEF PostStreakWithImage, TypeOK
    <2>2. /\ cloud' = cloud /\ due' = due /\ cur' = cur
          /\ ref'["home"] = ref["home"] /\ ref'["upload"] = ref["view"]
          /\ ref["upload"] = 0
        BY <1>4 DEF PostStreakWithImage, TypeOK, Holders
    <2>3. CASE ref["view"] = ref["home"]
        BY <2>2, <2>3, StaysQuiet
    <2>4. CASE ref["view"] # ref["home"] /\ due = <<>>
        <3>1. ref["home"] \in Objects
            BY <2>4 DEF Quiet, TypeOK, Holders
        <3>2. heap'[ref["home"]] = heap[ref["home"]]
            BY <2>1, <2>4, <3>1
        <3>3. heap[ref["home"]] = cloud
            BY <2>2, <2>4, <3>1 DEF Quiet, AgreesWhenQuiet, Objects
        <3> QED BY <2>2, <2>4, <3>2, <3>3 DEF Quiet, AgreesWhenQuiet
    <2> QED BY <2>2, <2>3, <2>4, StaysQuiet
<1>5. CASE ImageUploaded
    <2>1. heap[ref["upload"]] \in Profile
        BY <1>5 DEF ImageUploaded, TypeOK, Holders
    <2>2. due' # <<>> /\ due'[Len(due')] = cloud'
        BY <1>5, <2>1, WriteQuiet DEF ImageUploaded
    <2> QED BY <2>2 DEF Quiet, AgreesWhenQuiet
<1>6. ASSUME NEW days \in DaySets, SaveEdit(days) PROVE Quiet'
    <2>1. PICK q \in Profile, touched \in BOOLEAN :
               /\ ref["view"] \in Objects
               /\ heap' = [heap EXCEPT ![ref["view"]] = q]
               /\ Write(q, touched)
        BY <1>6, SaveEditFacts
    <2>2. ref' = ref /\ cur' = cur /\ cloud' = q
        BY <1>6, <2>1 DEF SaveEdit, Write
    <2>3. /\ due' # <<>> => due'[Len(due')] = cloud'
          /\ due' = <<>> => due = <<>> /\ cloud' = cloud
        BY <2>1, WriteQuiet
    <2>4. CASE due' = <<>>
        <3>1. ref["home"] \in Objects
            BY <2>3, <2>4 DEF Quiet, TypeOK, Holders
        <3>2. heap'[ref["home"]] = q \/ heap'[ref["home"]] = heap[ref["home"]]
            BY <2>1, <3>1 DEF TypeOK
        <3> QED BY <2>2, <2>3, <2>4, <3>2 DEF Quiet, AgreesWhenQuiet
    <2>5. CASE due' # <<>>
        BY <2>3, <2>5 DEF Quiet, AgreesWhenQuiet
    <2> QED BY <2>4, <2>5
<1>7. CASE DeletePost \/ \E w \in Keepers : WriteBack(w)
    <2>1. PICK profile \in Profile, touched \in BOOLEAN : Write(profile, touched)
        BY <1>7 DEF DeletePost, WriteBack, TypeOK
    <2>2. /\ due' # <<>> => due'[Len(due')] = cloud'
          /\ due' = <<>> => due = <<>> /\ cloud' = cloud
        BY <2>1, WriteQuiet
    <2>3. ref' = ref /\ heap' = heap /\ cur' = cur
        BY <1>7 DEF DeletePost, WriteBack
    <2> QED BY <2>2, <2>3 DEF Quiet, AgreesWhenQuiet
<1>8. CASE Relaunch
    BY <1>8 DEF Relaunch, Quiet, AgreesWhenQuiet
<1>9. CASE \/ Tick \/ \E s \in Streaks : OpenStreak(s)
           \/ Reappear \/ TapMarkDone \/ OpenEdit \/ StreakInfoLoaded
           \/ \E w \in Keepers : KeepCopy(w)
           \/ UNCHANGED vars
    <2>1. /\ cloud' = cloud /\ due' = due /\ cur' = cur /\ heap' = heap
          /\ ref'["home"] = ref["home"] /\ ref'["upload"] = ref["upload"]
        BY <1>9 DEF Tick, OpenStreak, Reappear, TapMarkDone, OpenEdit,
                    StreakInfoLoaded, KeepCopy, vars, TypeOK, Holders
    <2> QED BY <2>1, StaysQuiet
<1> QED BY <1>1, <1>2, <1>3, <1>4, <1>5, <1>6, <1>7, <1>8, <1>9 DEF Next

LEMMA InitQuiet == Init => Quiet
BY DEF Init, Quiet, AgreesWhenQuiet

\* Once every snapshot is delivered the Home tab and cur_user_profile show the
\* document, whatever was written in whatever order, unless a completion waits
\* for its picture.
THEOREM LifecycleAgreesWhenQuiet == Spec => []AgreesWhenQuiet
<1>1. TypeOK /\ Quiet /\ [Next]_vars => (TypeOK /\ Quiet)'
    BY NextType, NextQuiet
<1>2. Quiet => AgreesWhenQuiet
    BY DEF Quiet
<1> QED BY InitType, InitQuiet, <1>1, <1>2, PTL DEF Spec

\* The last snapshot due is the document, so verifying it verifies the document:
\* no streak of it has to be reset after that.
THEOREM LifecycleRepairReachesCloud == Spec => RepairReachesCloud
<1>1. TypeOK /\ Quiet /\ [Next]_vars => (TypeOK /\ Quiet)'
    BY NextType, NextQuiet
<1>2. ASSUME TypeOK, Quiet, Snapshot, Len(due) = 1, NEW s \in Streaks
      PROVE  ~MustReset(cloud'[s], now)
    <2>1. /\ due \in Seq(Profile) /\ due # <<>> /\ Head(due) \in Profile /\ now \in Date
        BY <1>2, SnapshotFacts DEF TypeOK
    <2>2. Head(due) = cloud
        BY <1>2, <2>1 DEF Quiet
    <2>3. cloud[s] \in Subscription
        BY <2>1, <2>2 DEF Profile
    <2>4. CASE \E r \in Streaks : MustReset(Head(due)[r], now)
        <3>1. cloud'[s] = Verified(cloud[s], now)
            BY <1>2, <2>2, <2>4 DEF Snapshot
        <3> QED BY <2>1, <2>3, <3>1, VerifiedIsFine
    <2>5. CASE ~\E r \in Streaks : MustReset(Head(due)[r], now)
        BY <1>2, <2>2, <2>5 DEF Snapshot
    <2> QED BY <2>4, <2>5
<1>3. TypeOK /\ Quiet /\ [Next]_vars
          => [Snapshot /\ Len(due) = 1 => \A s \in Streaks : ~MustReset(cloud'[s], now)]_vars
    BY <1>2
<1> QED BY InitType, InitQuiet, <1>1, <1>3, PTL DEF Spec, RepairReachesCloud

\* The snapshots due that verifyStreaks will answer with a write.
ToReset == {i \in 1..Len(due) : \E s \in Streaks : MustReset(due[i][s], now)}

LEMMA SnapshotProgress ==
    ASSUME TypeOK, Snapshot
    PROVE  \/ Len(due') < Len(due)
           \/ /\ Len(due') = Len(due)
              /\ Cardinality(ToReset') < Cardinality(ToReset)
<1>1. PICK q \in Profile :
           /\ due # <<>> /\ Head(due) \in Profile /\ Tail(due) \in Seq(Profile)
           /\ q = [s \in Streaks |-> Verified(Head(due)[s], now)]
    BY SnapshotFacts
<1>2. due \in Seq(Profile) /\ now \in Date /\ now' = now
    BY DEF TypeOK, Snapshot
<1>3. Len(Tail(due)) = Len(due) - 1 /\ Len(due) \in Nat /\ Head(due) = due[1]
    BY <1>1, <1>2
<1>4. CASE ~\E s \in Streaks : MustReset(Head(due)[s], now)
    <2>1. due' = Tail(due)
        BY <1>4 DEF Snapshot
    <2> QED BY <1>3, <2>1
<1>5. CASE \E s \in Streaks : MustReset(Head(due)[s], now)
    <2>1. due' = Append(Tail(due), q)
        BY <1>1, <1>5 DEF Snapshot
    <2>2. /\ Len(due') = Len(due)
          /\ \A i \in 1..(Len(due) - 1) : due'[i] = due[i + 1]
          /\ due'[Len(due)] = q
        <3>1. Len(Append(Tail(due), q)) = Len(due)
              /\ \A i \in 1..(Len(due) - 1) : Append(Tail(due), q)[i] = Tail(due)[i]
              /\ Append(Tail(due), q)[Len(due)] = q
            BY <1>1, <1>3, AppendProperties
        <3>2. \A i \in 1..(Len(due) - 1) : Tail(due)[i] = due[i + 1]
            BY <1>1, <1>2, <1>3
        <3> QED BY <2>1, <3>1, <3>2
    <2>3. ~\E s \in Streaks : MustReset(q[s], now)
        BY <1>1, <1>2, VerifiedIsFine DEF Profile
    <2>4. /\ IsFiniteSet(ToReset) /\ 1 \in ToReset
        <3>1. IsFiniteSet(1..Len(due))
            BY <1>3, FS_Interval
        <3>2. ToReset \in SUBSET (1..Len(due))
            BY DEF ToReset
        <3>3. Len(due) # 0
            BY <1>1, <1>2, EmptySeq
        <3>4. 1 \in 1..Len(due)
            BY <1>3, <3>3
        <3>5. 1 \in ToReset
            BY <1>3, <1>5, <3>4 DEF ToReset
        <3> QED BY <3>1, <3>2, <3>5, FS_Subset
    <2>5. ASSUME NEW i \in ToReset' PROVE i \in Int /\ i + 1 \in ToReset \ {1}
        <3>1. i \in 1..Len(due) /\ \E s \in Streaks : MustReset(due'[i][s], now)
            BY <1>2, <2>2 DEF ToReset
        <3>2. i # Len(due)
            BY <2>2, <2>3, <3>1
        <3>3. i \in 1..(Len(due) - 1) /\ i + 1 \in 1..Len(due) /\ i + 1 # 1
            BY <1>3, <3>1, <3>2
        <3>4. due'[i] = due[i + 1]
            BY <2>2, <3>3
        <3> QED BY <3>1, <3>3, <3>4 DEF ToReset
    <2> DEFINE later == [i \in ToReset' |-> i + 1]
    <2>6. later \in Injection(ToReset', ToReset \ {1})
        <3>1. later \in [ToReset' -> ToReset \ {1}]
            BY <2>5
        <3>2. \A i, j \in ToReset' : later[i] = later[j] => i = j
            BY <2>5
        <3> QED BY <3>1, <3>2 DEF Injection, IsInjective
    <2>7. /\ IsFiniteSet(ToReset \ {1})
          /\ Cardinality(ToReset \ {1}) = Cardinality(ToReset) - 1
        BY <2>4, FS_RemoveElement
    <2> HIDE DEF later
    <2>8. IsFiniteSet(ToReset') /\ Cardinality(ToReset') <= Cardinality(ToReset \ {1})
        BY <2>6, <2>7, FS_Injection
    <2>9. Cardinality(ToReset) \in Nat /\ Cardinality(ToReset') \in Nat
        BY <2>4, <2>8, FS_CardinalityType
    <2> QED BY <2>2, <2>7, <2>8, <2>9
<1> QED BY <1>4, <1>5

\* verifyStreaks does not feed on itself: although its own writes are delivered to
\* it, every snapshot leaves fewer to deliver, or as many and fewer that it will
\* answer.  While the clock stands and nobody else writes it has to come to rest.
THEOREM LifecycleVerificationProgress ==
    Spec => [][Snapshot => \/ Len(due') < Len(due)
                           \/ /\ Len(due') = Len(due)
                              /\ Cardinality(ToReset') < Cardinality(ToReset)]_vars
<1>1. TypeOK /\ [Next]_vars
          => [Snapshot => \/ Len(due') < Len(due)
                          \/ /\ Len(due') = Len(due)
                             /\ Cardinality(ToReset') < Cardinality(ToReset)]_vars
    BY SnapshotProgress
<1> QED BY LifecycleTypeCorrect, <1>1, PTL DEF Spec

-----------------------------------------------------------------------------
\* The Home tab on its own: nobody else writes, no picture is uploaded, and the
\* user waits for the snapshot of one write before making the next.

HomeTabAlone == Features \subseteq {"edit", "relaunch"} /\ MaxQueue = 1

\* One snapshot at most is due, so verifyStreaks always looks at the document;
\* the object of the screens, older than HomeVC's or not, is behind the document
\* in no number; and the days of a streak are the same in its StreakInfo, in the
\* document, on the screen and in what the edit screen has loaded.
AloneInv ==
    /\ HomeTabAlone /\ TypeOK /\ Quiet
    /\ Len(due) <= 1
    /\ ref["upload"] = 0
    /\ \A w \in Keepers : kept[w] = {}
    /\ \A s \in Streaks : cloud[s].reminderDays = streakInfo[s]
    /\ nav.info \subseteq {streakInfo[nav.streak]}
    /\ ref["view"] # 0 =>
           \A s \in Streaks :
               /\ heap[ref["view"]][s].streakNumber >= cloud[s].streakNumber
               /\ heap[ref["view"]][s].reminderDays = streakInfo[s]

\* What a screen holds, compared with the document and the StreakInfos.
HoldsAll(profile, document, infos) ==
    \A s \in Streaks : /\ profile[s].streakNumber >= document[s].streakNumber
                       /\ profile[s].reminderDays = infos[s]

LEMMA AloneHolds == AloneInv /\ ref["view"] # 0 => HoldsAll(heap[ref["view"]], cloud, streakInfo)
BY DEF AloneInv, HoldsAll

LEMMA InitAlone == HomeTabAlone /\ Init => AloneInv
<1> SUFFICES ASSUME HomeTabAlone, Init PROVE AloneInv
    OBVIOUS
<1>1. Len(due) <= 1 /\ ref["upload"] = 0 /\ ref["view"] = 0
    BY DEF Init, Holders
<1>2. \A w \in Keepers : kept[w] = {}
    BY DEF Init
<1>3. \A s \in Streaks : cloud[s].reminderDays = streakInfo[s]
    BY DEF Init, NewSubscription
<1>4. nav.info = {}
    BY DEF Init, AtHome
<1> QED BY <1>1, <1>2, <1>3, <1>4, InitType, InitQuiet DEF AloneInv

\* A write of the object of the screens, when it can happen, leaves one snapshot.
LEMMA WriteAlone ==
    ASSUME AloneInv, NEW profile \in Profile, NEW touched, Write(profile, touched)
    PROVE  due = <<>> /\ cloud' = profile /\ Len(due') <= 1
<1>1. due \in Seq(Profile) /\ Len(due) < 1
    BY DEF AloneInv, TypeOK, HomeTabAlone, Write
<1>2. due = <<>>
    BY <1>1, EmptySeq
<1>3. Len(Append(<<>>, profile)) = 1
    OBVIOUS
<1> QED BY <1>1, <1>2, <1>3 DEF Write

\* verifyStreaks lowers numbers and leaves days alone.
LEMMA VerifiedFacts ==
    ASSUME NEW sub \in Subscription, NEW at \in Date
    PROVE  /\ Verified(sub, at).reminderDays = sub.reminderDays
           /\ \/ Verified(sub, at) = sub
              \/ /\ Verified(sub, at).streakNumber = 0
                 /\ Verified(sub, at).lastStreakUpdate = at
BY ResetFacts DEF Verified

\* A snapshot delivered to the Home tab on its own: of the document itself.
LEMMA SnapshotAloneFacts ==
    ASSUME AloneInv, Snapshot
    PROVE  /\ Len(due') <= 1
           /\ \A s \in Streaks :
                  /\ cloud[s] \in Subscription
                  /\ cloud'[s].reminderDays = cloud[s].reminderDays
                  /\ \/ cloud'[s] = cloud[s]
                     \/ /\ cloud'[s].streakNumber = 0
                        /\ cloud'[s].lastStreakUpdate = now
<1>1. PICK q \in Profile :
           /\ due # <<>> /\ Tail(due) \in Seq(Profile)
           /\ q = [s \in Streaks |-> Verified(Head(due)[s], now)]
           /\ \/ cloud' = q /\ due' = Append(Tail(due), q)
              \/ cloud' = cloud /\ due' = Tail(due)
    BY SnapshotFacts DEF AloneInv
<1>2. due \in Seq(Profile) /\ due[Len(due)] = cloud /\ Len(due) <= 1
    BY <1>1 DEF AloneInv, TypeOK, Quiet
<1>3. Len(due) = 1 /\ Len(Tail(due)) = 0 /\ Head(due) = due[1]
    <2>1. Len(Tail(due)) = Len(due) - 1 /\ Len(due) \in Nat /\ Head(due) = due[1]
        BY <1>1, <1>2
    <2>2. Len(due) # 0
        BY <1>1, <1>2, EmptySeq
    <2>3. Len(due) = 1
        <3>1. ASSUME NEW n \in Nat, n <= 1, n # 0 PROVE n = 1
            BY <3>1
        <3> QED BY <1>2, <2>1, <2>2, <3>1
    <2> QED BY <2>1, <2>3
<1>4. Head(due) = cloud /\ Len(Append(Tail(due), q)) = 1
    BY <1>1, <1>2, <1>3
<1>5. ASSUME NEW s \in Streaks
      PROVE  /\ cloud[s] \in Subscription
             /\ cloud'[s].reminderDays = cloud[s].reminderDays
             /\ \/ cloud'[s] = cloud[s]
                \/ cloud'[s].streakNumber = 0 /\ cloud'[s].lastStreakUpdate = now
    <2>1. cloud[s] \in Subscription /\ now \in Date
        BY DEF AloneInv, TypeOK, Profile
    <2>2. q[s] = Verified(cloud[s], now)
        BY <1>1, <1>4
    <2>3. CASE cloud' = cloud
        BY <2>1, <2>3
    <2>4. CASE cloud' = q
        BY <2>1, <2>2, <2>4, VerifiedFacts
    <2> QED BY <1>1, <2>1, <2>3, <2>4
<1> QED BY <1>1, <1>3, <1>4, <1>5

LEMMA SnapshotAlone == AloneInv /\ Snapshot => AloneInv'
<1> SUFFICES ASSUME AloneInv, Snapshot PROVE AloneInv'
    OBVIOUS
<1> DEFINE v == ref["view"]
<1>1. HomeTabAlone /\ TypeOK' /\ Quiet'
    BY NextType, SnapshotQuiet DEF AloneInv, Next
<1>2. /\ Len(due') <= 1
      /\ \A s \in Streaks :
             /\ cloud[s] \in Subscription
             /\ cloud'[s].reminderDays = cloud[s].reminderDays
             /\ \/ cloud'[s] = cloud[s]
                \/ cloud'[s].streakNumber = 0
    BY SnapshotAloneFacts
<1>3. PICK q \in Profile :
           /\ NewObject \in Objects
           /\ ref' = [ref EXCEPT !["home"] = NewObject]
           /\ heap' = Retain([heap EXCEPT ![NewObject] = q], ref')
    BY SnapshotFacts DEF AloneInv
<1>4. ref'["view"] = v /\ ref'["upload"] = 0
    BY <1>3 DEF AloneInv, TypeOK, Holders
<1>5. UNCHANGED <<kept, nav, streakInfo>>
    BY DEF Snapshot
<1>6. CASE v # 0
    <2>1. v \in Objects /\ v # NewObject
        <3>1. v \in Objects /\ ref["upload"] = 0
            BY <1>6 DEF AloneInv, TypeOK, Holders
        <3>2. \E o \in {1, 2, 3} : v # o /\ ref["upload"] # o
            BY <3>1 DEF Objects
        <3>3. \E o \in Objects : v # o /\ ref["upload"] # o
            BY <3>2 DEF Objects
        <3> QED BY <3>1, <3>3 DEF NewObject
    <2>2. heap'[v] = heap[v]
        <3>1. [heap EXCEPT ![NewObject] = q][v] = heap[v]
            BY <1>3, <2>1 DEF AloneInv, TypeOK
        <3>2. \E h \in Holders : ref'[h] = v
            BY <1>4 DEF Holders
        <3> QED BY <1>3, <2>1, <3>1, <3>2 DEF Retain
    <2>3. ASSUME NEW s \in Streaks
          PROVE  /\ heap'[v][s].streakNumber >= cloud'[s].streakNumber
                 /\ heap'[v][s].reminderDays = streakInfo'[s]
        <3>1. heap[v][s] \in Subscription
            BY <2>1 DEF AloneInv, TypeOK, Profile
        <3>2. heap[v][s].streakNumber >= cloud[s].streakNumber
              /\ heap[v][s].reminderDays = streakInfo[s]
            BY <1>6 DEF AloneInv
        <3> QED BY <1>2, <1>5, <2>2, <3>1, <3>2 DEF Subscription
    <2> QED BY <1>1, <1>2, <1>4, <1>5, <2>3 DEF AloneInv
<1>7. CASE v = 0
    BY <1>1, <1>2, <1>4, <1>5, <1>7 DEF AloneInv
<1> QED BY <1>6, <1>7

\* A tap on a row hands over the document: nothing is due.
LEMMA OpenStreakAlone ==
    ASSUME AloneInv, NEW s \in Streaks, OpenStreak(s)
    PROVE  AloneInv'
<1>1. TypeOK' /\ Quiet'
    BY NextType, NextQuiet DEF AloneInv, Next
<1>2. due = <<>> /\ ref["home"] \in Objects /\ ref["upload"] # ref["home"]
    BY DEF OpenStreak, AloneInv, TypeOK, HomeTabAlone, Holders, Objects
<1>3. heap[ref["home"]] = cloud
    BY <1>2 DEF AloneInv, Quiet, AgreesWhenQuiet
<1>4. /\ ref' = [ref EXCEPT !["view"] = ref["home"]] /\ nav'.info = {}
      /\ UNCHANGED <<cloud, due, heap, streakInfo, kept>>
    BY DEF OpenStreak, Appear, saved
<1>5. ref'["view"] = ref["home"] /\ ref'["upload"] = 0
    BY <1>4 DEF AloneInv, TypeOK, Holders
<1>6. \A r \in Streaks : cloud[r].streakNumber >= cloud[r].streakNumber
    BY DEF AloneInv, TypeOK, Profile, Subscription
<1> QED BY <1>1, <1>3, <1>4, <1>5, <1>6 DEF AloneInv

\* A screen saves the object it has just changed; of other streaks it changed
\* nothing.
LEMMA SavesAlone ==
    ASSUME AloneInv, TypeOK', Quiet', NEW q \in Profile, NEW touched,
           Write(q, touched), ref["view"] \in Objects,
           heap' = [heap EXCEPT ![ref["view"]] = q],
           ref' = ref, kept' = kept,
           \A s \in Streaks : q[s].reminderDays = streakInfo'[s],
           nav'.info \subseteq {streakInfo'[nav'.streak]}
    PROVE  AloneInv'
<1>1. cloud' = q /\ Len(due') <= 1
    BY WriteAlone
<1>2. heap'[ref'["view"]] = q
    BY DEF AloneInv, TypeOK
<1>3. \A s \in Streaks : q[s].streakNumber >= q[s].streakNumber
    BY DEF Profile, Subscription
<1> QED BY <1>1, <1>2, <1>3 DEF AloneInv

\* completeStreak() raises the number of one streak, or does nothing.
LEMMA CompleteHeldRaises ==
    ASSUME TypeOK, CompleteHeld, nav.screen # "home", NEW s \in Streaks
    PROVE  LET was == heap[ref["view"]][s]
               is == heap'[ref["view"]][s]
           IN  was.streakNumber <= is.streakNumber /\ is.reminderDays = was.reminderDays
<1> DEFINE o == ref["view"]
           was == heap[o][s]
<1>1. /\ o \in Objects /\ nav.streak \in Streaks
      /\ heap' = [heap EXCEPT ![o] =
             [heap[o] EXCEPT ![nav.streak] = CompleteStreak(heap[o][nav.streak], now)]]
    BY CompleteHeldType
<1>2. was \in Subscription /\ now \in Date /\ heap[o] \in Profile
    BY <1>1 DEF TypeOK, Profile
<1>3. heap'[o] = [heap[o] EXCEPT ![nav.streak] = CompleteStreak(heap[o][nav.streak], now)]
    BY <1>1 DEF TypeOK
<1>4. heap'[o][s] = was \/ heap'[o][s] = CompleteStreak(was, now)
    BY <1>1, <1>2, <1>3 DEF Profile
<1>5. was.streakNumber \in Nat
    BY <1>2 DEF Subscription
<1>6. CASE heap'[o][s] = was
    BY <1>5, <1>6
<1>7. CASE heap'[o][s] = CompleteStreak(was, now)
    <2>1. CASE CanBeCompletedToday(was, now)
        BY <1>2, <1>5, <1>7, <2>1, CompleteFacts
    <2>2. CASE ~CanBeCompletedToday(was, now)
        BY <1>5, <1>7, <2>2 DEF CompleteStreak
    <2> QED BY <2>1, <2>2
<1> QED BY <1>4, <1>6, <1>7

LEMMA PostAlone == AloneInv /\ PostStreak => AloneInv'
<1> SUFFICES ASSUME AloneInv, PostStreak PROVE AloneInv'
    OBVIOUS
<1>1. TypeOK' /\ Quiet' /\ TypeOK
    BY NextType, NextQuiet DEF AloneInv, Next
<1>2. CompleteHeld /\ nav.screen # "home" /\ Write(heap'[ref["view"]], TRUE)
      /\ UNCHANGED <<streakInfo, ref, kept, nav>>
    BY DEF PostStreak
<1>3. /\ heap' \in [Objects -> Profile] /\ ref["view"] \in Objects
      /\ \E q : heap' = [heap EXCEPT ![ref["view"]] = q]
    BY <1>1, <1>2, CompleteHeldType
<1> DEFINE q == heap'[ref["view"]]
<1>4. q \in Profile /\ heap' = [heap EXCEPT ![ref["view"]] = q]
    BY <1>1, <1>3 DEF TypeOK
<1>5. ref["view"] # 0
    BY <1>3 DEF Objects
<1>6. \A s \in Streaks : q[s].reminderDays = streakInfo'[s]
    BY <1>1, <1>2, <1>5, CompleteHeldRaises DEF AloneInv
<1>7. nav'.info \subseteq {streakInfo'[nav'.streak]}
    BY <1>2 DEF AloneInv
<1> HIDE DEF q
<1>8. Write(q, TRUE)
    BY <1>2 DEF q
<1> QED BY <1>1, <1>2, <1>3, <1>4, <1>6, <1>7, <1>8, SavesAlone

\* The edit screen changes the days of one streak, everywhere.
LEMMA SaveEditAlone ==
    ASSUME AloneInv, NEW days \in DaySets, SaveEdit(days)
    PROVE  AloneInv'
<1>1. TypeOK' /\ Quiet' /\ TypeOK
    BY NextType, NextQuiet DEF AloneInv, Next
<1> DEFINE o == ref["view"]
           s == nav.streak
<1>2. PICK q \in Profile, touched \in BOOLEAN :
           /\ o \in Objects /\ s \in Streaks
           /\ \/ q = [heap[o] EXCEPT ![s] =
                     [ResetStreak(heap[o][s], now) EXCEPT !.reminderDays = days]]
              \/ q = [heap[o] EXCEPT ![s] = [heap[o][s] EXCEPT !.reminderDays = days]]
           /\ heap' = [heap EXCEPT ![o] = q]
           /\ streakInfo' = [streakInfo EXCEPT ![s] = days]
           /\ Write(q, touched)
           /\ nav' = Appear(s, q)
    BY <1>1, SaveEditFacts
<1>3. ASSUME NEW r \in Streaks PROVE q[r].reminderDays = streakInfo'[r]
    <2>1. heap[o] \in Profile /\ heap[o][s] \in Subscription /\ now \in Date
        BY <1>1, <1>2 DEF TypeOK, Profile
    <2>2. CASE r = s
        <3>1. \/ q[r] = [ResetStreak(heap[o][s], now) EXCEPT !.reminderDays = days]
              \/ q[r] = [heap[o][s] EXCEPT !.reminderDays = days]
            BY <1>2, <2>1, <2>2 DEF Profile
        <3>2. q[r].reminderDays = days
            BY <2>1, <3>1, ResetFacts DEF Subscription
        <3> QED BY <1>1, <1>2, <2>2, <3>2 DEF TypeOK
    <2>3. CASE r # s
        <3>1. q[r] = heap[o][r]
            BY <1>2, <2>1, <2>3 DEF Profile
        <3>2. streakInfo'[r] = streakInfo[r]
            BY <1>1, <1>2, <2>3 DEF TypeOK
        <3>3. o # 0
            BY <1>2 DEF Objects
        <3> QED BY <3>1, <3>2, <3>3 DEF AloneInv
    <2> QED BY <2>2, <2>3
<1>4. nav'.info = {} /\ ref' = ref /\ kept' = kept
    BY <1>2 DEF SaveEdit, Appear
<1> QED BY <1>1, <1>2, <1>3, <1>4, SavesAlone

LEMMA PopAlone == AloneInv /\ Pop => AloneInv'
<1> SUFFICES ASSUME AloneInv, Pop PROVE AloneInv'
    OBVIOUS
<1>1. TypeOK' /\ Quiet'
    BY NextType, NextQuiet DEF AloneInv, Next
<1>2. UNCHANGED <<cloud, due, streakInfo, kept>>
    BY DEF Pop, saved
<1>3. CASE nav.screen = "view"
    <2>1. nav' = AtHome /\ ref' = [ref EXCEPT !["view"] = 0]
        BY <1>3 DEF Pop
    <2>2. nav'.info = {} /\ ref'["view"] = 0 /\ ref'["upload"] = 0
        BY <2>1 DEF AtHome, AloneInv, TypeOK, Holders
    <2> QED BY <1>1, <1>2, <2>2 DEF AloneInv
<1>4. CASE nav.screen # "view"
    <2>1. nav' = Appear(nav.streak, heap[ref["view"]]) /\ UNCHANGED <<ref, heap>>
        BY <1>4 DEF Pop
    <2>2. nav'.info = {}
        BY <2>1 DEF Appear
    <2> QED BY <1>1, <1>2, <2>1, <2>2 DEF AloneInv
<1> QED BY <1>3, <1>4

LEMMA NextAlone == AloneInv /\ [Next]_vars => AloneInv'
<1> SUFFICES ASSUME AloneInv, [Next]_vars PROVE AloneInv'
    OBVIOUS
<1>1. TypeOK' /\ Quiet'
    BY NextType, NextQuiet DEF AloneInv
<1> USE DEF saved, local
<1>2. CASE Snapshot    BY <1>2, SnapshotAlone
<1>3. CASE PostStreak  BY <1>3, PostAlone
<1>4. CASE Pop         BY <1>4, PopAlone
<1>5. ASSUME NEW s \in Streaks, OpenStreak(s) PROVE AloneInv'
    BY <1>5, OpenStreakAlone
<1>6. ASSUME NEW days \in DaySets, SaveEdit(days) PROVE AloneInv'
    BY <1>6, SaveEditAlone
<1>7. CASE Reappear
    <2>1. nav'.info = {}
        BY <1>7 DEF Reappear, Appear
    <2> QED BY <1>1, <1>7, <2>1 DEF AloneInv, Reappear
<1>8. CASE TapMarkDone \/ OpenEdit
    <2>1. nav'.info = nav.info /\ nav'.streak = nav.streak
        BY <1>8 DEF TapMarkDone, OpenEdit, AloneInv, TypeOK
    <2> QED BY <1>1, <1>8, <2>1 DEF AloneInv, TapMarkDone, OpenEdit
<1>9. CASE StreakInfoLoaded
    <2>1. nav'.info = {streakInfo[nav.streak]} /\ nav'.streak = nav.streak
        BY <1>9 DEF StreakInfoLoaded, AloneInv, TypeOK
    <2> QED BY <1>1, <1>9, <2>1 DEF AloneInv, StreakInfoLoaded
<1>10. CASE Relaunch
    <2>1. /\ ref'["view"] = 0 /\ ref'["upload"] = 0 /\ nav'.info = {}
          /\ Len(due') = 1 /\ UNCHANGED <<cloud, streakInfo>>
        BY <1>10 DEF Relaunch, Launched, AtHome, Holders
    <2>2. \A w \in Keepers : kept'[w] = {}
        BY <1>10 DEF Relaunch, AloneInv
    <2> QED BY <1>1, <2>1, <2>2 DEF AloneInv
<1>11. CASE Tick \/ UNCHANGED vars
    BY <1>1, <1>11 DEF Tick, vars, AloneInv
<1>12. ~PostStreakWithImage /\ ~ImageUploaded /\ ~DeletePost
    BY DEF PostStreakWithImage, ImageUploaded, DeletePost, AloneInv, HomeTabAlone
<1>13. ASSUME NEW w \in Keepers PROVE ~KeepCopy(w) /\ ~WriteBack(w)
    BY DEF KeepCopy, WriteBack, Keepers, AloneInv, HomeTabAlone
<1> QED BY <1>2, <1>3, <1>4, <1>5, <1>6, <1>7, <1>8, <1>9, <1>10, <1>11, <1>12,
           <1>13 DEF Next

\* What a step may do to the document's number of a streak.
Survives(s) ==
    \/ cloud'[s].streakNumber >= cloud[s].streakNumber
    \/ cloud'[s].streakNumber = 0 /\ cloud'[s].lastStreakUpdate = now

LEMMA StepSurvives ==
    ASSUME AloneInv, [Next]_vars, NEW s \in Streaks
    PROVE  Survives(s)
<1> USE DEF saved, local
<1>1. TypeOK /\ cloud[s].streakNumber \in Nat /\ now \in Date
    BY DEF AloneInv, TypeOK, Profile, Subscription
<1>2. CASE cloud' = cloud
    BY <1>1, <1>2 DEF Survives
<1>3. CASE Snapshot
    BY <1>1, <1>3, SnapshotAloneFacts DEF Survives
<1>4. CASE PostStreak
    <2>1. CompleteHeld /\ nav.screen # "home" /\ cloud' = heap'[ref["view"]]
        BY <1>4 DEF PostStreak, Write
    <2>2. ref["view"] # 0 /\ ref["view"] \in Objects /\ heap'[ref["view"]] \in Profile
        BY <1>1, <2>1, CompleteHeldType DEF Objects
    <2>3. heap[ref["view"]][s].streakNumber <= cloud'[s].streakNumber
        BY <1>1, <2>1, CompleteHeldRaises
    <2>4. heap[ref["view"]][s].streakNumber >= cloud[s].streakNumber
        BY <2>2 DEF AloneInv
    <2>5. /\ heap[ref["view"]][s].streakNumber \in Nat
          /\ cloud'[s].streakNumber \in Nat
        BY <1>1, <2>1, <2>2 DEF TypeOK, Profile, Subscription
    <2> QED BY <1>1, <2>3, <2>4, <2>5 DEF Survives
<1>5. ASSUME NEW days \in DaySets, SaveEdit(days) PROVE Survives(s)
    <2> DEFINE o == ref["view"]
               sub == heap[o][nav.streak]
    <2>1. PICK q \in Profile, touched \in BOOLEAN :
               /\ o \in Objects /\ nav.streak \in Streaks
               /\ \/ q = [heap[o] EXCEPT ![nav.streak] =
                         [ResetStreak(sub, now) EXCEPT !.reminderDays = days]]
                  \/ q = [heap[o] EXCEPT ![nav.streak] = [sub EXCEPT !.reminderDays = days]]
               /\ Write(q, touched)
        BY <1>1, <1>5, SaveEditFacts
    <2>2. heap[o] \in Profile /\ sub \in Subscription /\ o # 0 /\ cloud' = q
        BY <1>1, <2>1 DEF TypeOK, Profile, Objects, Write
    <2>3. heap[o][s].streakNumber >= cloud[s].streakNumber
        BY <2>2 DEF AloneInv
    <2>4. \/ q[s] = heap[o][s]
          \/ s = nav.streak /\ q[s] = [ResetStreak(sub, now) EXCEPT !.reminderDays = days]
          \/ s = nav.streak /\ q[s] = [sub EXCEPT !.reminderDays = days]
        BY <2>1, <2>2 DEF Profile
    <2>5. CASE q[s] = heap[o][s]
        BY <2>2, <2>3, <2>5 DEF Survives
    <2>6. CASE s = nav.streak /\ q[s] = [ResetStreak(sub, now) EXCEPT !.reminderDays = days]
        <3>1. ResetStreak(sub, now) \in Subscription
              /\ ResetStreak(sub, now).streakNumber = 0
              /\ ResetStreak(sub, now).lastStreakUpdate = now
            BY <1>1, <2>2, ResetFacts
        <3>2. q[s].streakNumber = 0 /\ q[s].lastStreakUpdate = now
            BY <2>6, <3>1 DEF Subscription
        <3> QED BY <2>2, <3>2 DEF Survives
    <2>7. CASE s = nav.streak /\ q[s] = [sub EXCEPT !.reminderDays = days]
        <3>1. q[s].streakNumber = heap[o][s].streakNumber
            BY <2>2, <2>7 DEF Subscription
        <3> QED BY <2>2, <2>3, <3>1 DEF Survives
    <2> QED BY <2>4, <2>5, <2>6, <2>7
<1>6. CASE \/ Tick \/ \E r \in Streaks : OpenStreak(r)
           \/ Reappear \/ TapMarkDone \/ Pop \/ OpenEdit \/ StreakInfoLoaded
           \/ Relaunch \/ UNCHANGED vars
    <2>1. cloud' = cloud
        BY <1>6 DEF Tick, OpenStreak, Reappear, TapMarkDone, Pop, OpenEdit,
                    StreakInfoLoaded, Relaunch, vars
    <2> QED BY <1>2, <2>1
<1>7. ~PostStreakWithImage /\ ~ImageUploaded /\ ~DeletePost
    BY DEF PostStreakWithImage, ImageUploaded, DeletePost, AloneInv, HomeTabAlone
<1>8. ASSUME NEW w \in Keepers PROVE ~KeepCopy(w) /\ ~WriteBack(w)
    BY DEF KeepCopy, WriteBack, Keepers, AloneInv, HomeTabAlone
<1> QED BY <1>3, <1>4, <1>5, <1>6, <1>7, <1>8 DEF Next

\* On a Home tab on its own no completion that was saved is taken back, but by a
\* reset: posting and editing one streak saves the others as they are, although
\* the screen's object may be older than the one HomeVC has been given since.
THEOREM LifecycleCompletionsSurvive == HomeTabAlone => (Spec => CompletionsSurvive)
<1>1. AloneInv /\ [Next]_vars
          => [\A s \in Streaks :
                  \/ cloud'[s].streakNumber >= cloud[s].streakNumber
                  \/ cloud'[s].streakNumber = 0 /\ cloud'[s].lastStreakUpdate = now]_vars
    BY StepSurvives DEF Survives
<1> QED BY InitAlone, NextAlone, <1>1, PTL DEF Spec, CompletionsSurvive

\* On a Home tab on its own an edit that changes the days of the subscription
\* resets the streak: the days of its StreakInfo, which are what the edit screen
\* compares, are those of the subscription it shows.
THEOREM LifecycleEditedDaysReset == HomeTabAlone => (Spec => EditedDaysReset)
<1>1. ASSUME AloneInv, NEW days \in DaySets, SaveEdit(days),
             heap[ref["view"]][nav.streak].reminderDays # days
      PROVE  heap'[ref["view"]][nav.streak].streakNumber = 0
    <2> DEFINE o == ref["view"]
               s == nav.streak
               sub == heap[o][s]
    <2>0. TypeOK
        BY <1>1 DEF AloneInv
    <2>1. o \in Objects /\ s \in Streaks /\ o # 0
        <3>1. o \in Objects /\ s \in Streaks
            BY <1>1, <2>0, SaveEditFacts
        <3> QED BY <3>1 DEF Objects
    <2>2. heap[o] \in Profile /\ sub \in Subscription /\ now \in Date
        BY <2>0, <2>1 DEF TypeOK, Profile
    <2>3. PICK loaded \in nav.info :
              heap' = [heap EXCEPT ![o][s] =
                  [(IF days # loaded THEN ResetStreak(sub, now) ELSE sub)
                     EXCEPT !.reminderDays = days]]
        BY <1>1 DEF SaveEdit
    <2>4. loaded = streakInfo[s] /\ sub.reminderDays = streakInfo[s]
        BY <1>1, <2>1, <2>3 DEF AloneInv
    <2>5. days # loaded
        BY <1>1, <2>4
    <2>6. heap' = [heap EXCEPT ![o][s] = [ResetStreak(sub, now) EXCEPT !.reminderDays = days]]
        BY <2>3, <2>5
    <2>7. heap'[o][s] = [ResetStreak(sub, now) EXCEPT !.reminderDays = days]
        BY <2>0, <2>1, <2>2, <2>6 DEF TypeOK, Profile
    <2>8. ResetStreak(sub, now) \in Subscription /\ ResetStreak(sub, now).streakNumber = 0
        BY <2>2, ResetFacts
    <2> QED BY <2>7, <2>8 DEF Subscription
<1>2. AloneInv /\ [Next]_vars
          => [\A days \in DaySets :
                  (SaveEdit(days) /\ heap[ref["view"]][nav.streak].reminderDays # days)
                      => heap'[ref["view"]][nav.streak].streakNumber = 0]_vars
    BY <1>1
<1> QED BY InitAlone, NextAlone, <1>2, PTL DEF Spec, EditedDaysReset
=============================================================================
