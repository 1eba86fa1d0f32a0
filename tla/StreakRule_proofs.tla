-------------------------- MODULE StreakRule_proofs --------------------------
(* The number of a streak is a streak, for every set of reminder days and    *)
(* every length of time.  The reminders of the day are right, for every set  *)
(* of times; and a streak with reminders still is a streak, so that what is  *)
(* said of StreakRule holds of it too.                                       *)
EXTENDS Reminders, StreakCalendar_proofs, FiniteSetTheorems

\* The strengthening: the last update is the last completion of the run, and
\* not later than the clock.
IInv ==
    /\ TypeOK
    /\ NumberCountsDays
    /\ NoMissedDay
    /\ IsFiniteSet(run)
    /\ ~Before(now, sub.lastStreakUpdate)
    /\ run # {} => sub.lastStreakUpdate \in run

LEMMA NextTickType ==
    ASSUME NEW date \in Date
    PROVE  NextTick(date) \in Date /\ Before(date, NextTick(date))
BY TicksAssumption DEF Date, NextTick, Before

\* A streak that has not expired has missed no reminder day since its last
\* update, unless it is the midnight that ends the missed day.
LEMMA UnexpiredMissedNoDay ==
    ASSUME NEW s \in Subscription, NEW t \in Date, s.streakNumber # 0,
           ~StreakExpired(s, t),
           NEW d \in (s.lastStreakUpdate.day + 1)..(t.day - 1),
           Weekday(d) \in s.reminderDays
    PROVE  t = [day |-> d + 1, tick |-> 0]
<1> DEFINE last == s.lastStreakUpdate
           first == last.day + 1
           deadline == NextDeadlineFromDate(s.reminderDays, last, FALSE)
<1>1. last \in Date /\ s.reminderDays \in ReminderDays
    BY DEF Subscription
<1>2. first \in Nat /\ t.day \in Nat /\ d \in first..(t.day - 1)
    BY <1>1 DEF Date
<1>3. ~Before(deadline, t)
    BY DEF StreakExpired
<1>4. first = IF FALSE THEN last.day ELSE last.day + 1
    OBVIOUS
<1> HIDE DEF first, deadline, last
<1>5. PICK D \in first..(first + 6) :
               /\ Weekday(D) \in s.reminderDays
               /\ \A e \in first..(D - 1) : Weekday(e) \notin s.reminderDays
               /\ deadline = [day |-> D + 1, tick |-> 0]
    BY <1>1, <1>4, DeadlineEndsNextReminderDay DEF deadline
<1>6. D \in Nat /\ d \in Nat /\ D <= d
    BY <1>2, <1>5
<1>7. ~(D + 1 < t.day) /\ (t.day = D + 1 => ~(0 < t.tick))
    BY <1>3, <1>5 DEF Before
<1>8. t.day = D + 1 /\ d = D /\ t.tick = 0
    BY <1>2, <1>6, <1>7, TicksAssumption DEF Date
<1> QED BY <1>8 DEF Date

\* A streak that has expired has missed a reminder day that is over.
LEMMA ExpiredMissedDay ==
    ASSUME NEW s \in Subscription, NEW t \in Date, StreakExpired(s, t)
    PROVE  \E d \in (s.lastStreakUpdate.day + 1)..(t.day - 1) : Weekday(d) \in s.reminderDays
<1> DEFINE last == s.lastStreakUpdate
           first == last.day + 1
           deadline == NextDeadlineFromDate(s.reminderDays, last, FALSE)
<1>1. last \in Date /\ s.reminderDays \in ReminderDays
    BY DEF Subscription
<1>2. first \in Nat /\ t.day \in Nat
    BY <1>1 DEF Date
<1>3. Before(deadline, t)
    BY DEF StreakExpired
<1>4. first = IF FALSE THEN last.day ELSE last.day + 1
    OBVIOUS
<1> HIDE DEF first, deadline, last
<1>5. PICK D \in first..(first + 6) :
               /\ Weekday(D) \in s.reminderDays
               /\ deadline = [day |-> D + 1, tick |-> 0]
    BY <1>1, <1>4, DeadlineEndsNextReminderDay DEF deadline
<1>6. D \in first..(t.day - 1)
    BY <1>2, <1>3, <1>5 DEF Before
<1> QED BY <1>5, <1>6 DEF first, last

LEMMA InitHolds == Init => IInv
<1> SUFFICES ASSUME Init PROVE IInv
    OBVIOUS
<1>1. PICK d \in StartDays : now = [day |-> d, tick |-> 0]
    BY DEF Init
<1>2. PICK days \in DaySets : sub = NewSubscription(days, now)
    BY DEF Init
<1>3. now \in Date
    BY <1>1, TicksAssumption, RuleAssumption DEF Date
<1>4. sub \in Subscription /\ sub.streakNumber = 0 /\ sub.lastStreakUpdate = now
    BY <1>2, <1>3, RuleAssumption DEF NewSubscription, Subscription
<1>5. run = {} /\ IsFiniteSet(run) /\ Cardinality(run) = 0
    BY FS_EmptySet DEF Init
<1> QED BY <1>3, <1>4, <1>5 DEF IInv, TypeOK, NumberCountsDays, NoMissedDay, Before, Date

LEMMA TickHolds == IInv /\ Tick => IInv'
<1> SUFFICES ASSUME IInv, Tick PROVE IInv'
    OBVIOUS
<1>1. now' \in Date /\ Before(now, now') /\ sub' = sub /\ run' = run
    BY NextTickType DEF Tick, IInv, TypeOK
<1>2. ~Before(now', sub.lastStreakUpdate)
    BY <1>1 DEF IInv, TypeOK, Before, Date, Subscription
<1> QED BY <1>1, <1>2 DEF IInv, TypeOK, NumberCountsDays, NoMissedDay, ReminderDay

LEMMA ResetHolds == IInv /\ Reset => IInv'
<1> SUFFICES ASSUME IInv, Reset PROVE IInv'
    OBVIOUS
<1>1. now' = now /\ now \in Date /\ run' = {} /\ sub' = ResetStreak(sub, now)
    BY DEF Reset, Verified, IInv, TypeOK
<1>2. /\ sub' \in Subscription
      /\ sub'.streakNumber = 0
      /\ sub'.lastStreakUpdate = now
    BY <1>1, ResetFacts DEF IInv, TypeOK
<1>3. IsFiniteSet(run') /\ Cardinality(run') = 0
    BY <1>1, FS_EmptySet
<1>4. ~Before(now', sub'.lastStreakUpdate)
    BY <1>1, <1>2 DEF Before, Date
<1> QED BY <1>1, <1>2, <1>3, <1>4 DEF IInv, TypeOK, NumberCountsDays, NoMissedDay

LEMMA CompleteHolds == IInv /\ Complete => IInv'
<1> SUFFICES ASSUME IInv, Complete PROVE IInv'
    OBVIOUS
<1> DEFINE last == sub.lastStreakUpdate
<1>1. /\ now' = now /\ now \in Date /\ sub \in Subscription /\ last \in Date
      /\ run' = run \cup {now} /\ run \subseteq Date
      /\ CanBeCompletedToday(sub, now) /\ ~StreakExpired(sub, now)
      /\ IsFiniteSet(run) /\ sub.streakNumber = Cardinality(run)
    BY DEF Complete, IInv, TypeOK, NumberCountsDays, Subscription
<1>2. /\ sub' \in Subscription
      /\ sub'.streakNumber = sub.streakNumber + 1
      /\ sub'.lastStreakUpdate = now
      /\ sub'.reminderDays = sub.reminderDays
    BY <1>1, CompleteFacts DEF Complete
<1>3. sub.streakNumber = 0 <=> run = {}
    BY <1>1, FS_EmptySet
<1>4. run # {} => last.day < now.day
    BY <1>1, <1>3 DEF CanBeCompletedToday, WasCompletedToday, IInv, Before, Date
<1>5. \A a \in run : a.day < now.day /\ Before(a, now)
    BY <1>1, <1>4 DEF IInv, NumberCountsDays, Before, Date
<1>6. now \notin run
    BY <1>1, <1>5 DEF Date
<1>7. IsFiniteSet(run') /\ Cardinality(run') = Cardinality(run) + 1
    BY <1>1, <1>6, FS_AddElement
<1>8. NumberCountsDays'
    <2>1. sub'.streakNumber = Cardinality(run')
        BY <1>1, <1>2, <1>7
    <2>2. \A a, b \in run' : a.day = b.day => a = b
        BY <1>1, <1>5 DEF IInv, NumberCountsDays, Date
    <2>3. \A a \in run' : a = sub'.lastStreakUpdate \/ Before(a, sub'.lastStreakUpdate)
        BY <1>1, <1>2, <1>5
    <2> QED BY <2>1, <2>2, <2>3 DEF NumberCountsDays
<1>9. NoMissedDay'
    <2> SUFFICES ASSUME NEW first \in run', NEW d \in first.day..now.day,
                        Weekday(d) \in sub.reminderDays
                 PROVE  \/ \E a \in run' : a.day = d
                        \/ [day |-> d + 1, tick |-> 0] \in run'
        BY <1>2 DEF NoMissedDay, ReminderDay
    <2>0. first \in Date /\ d \in Nat
        BY <1>1 DEF Date
    <2>1. CASE d = now.day
        BY <1>1, <2>1
    <2>2. CASE d # now.day
        <3>1. first \in run /\ run # {} /\ d < now.day
            BY <1>1, <2>0, <2>2 DEF Date
        <3>2. CASE d <= last.day
            <4>1. d \in first.day..last.day
                BY <1>1, <2>0, <3>2 DEF Date
            <4> QED BY <4>1, <3>1, <1>1 DEF IInv, NoMissedDay, ReminderDay
        <3>3. CASE d > last.day
            <4>1. d \in (last.day + 1)..(now.day - 1)
                BY <1>1, <2>0, <3>1, <3>3 DEF Date
            <4>2. now = [day |-> d + 1, tick |-> 0]
                BY <4>1, <3>1, <1>1, <1>3, UnexpiredMissedNoDay
            <4> QED BY <4>2, <1>1
        <3> QED BY <1>1, <2>0, <3>2, <3>3 DEF Date
    <2> QED BY <2>1, <2>2
<1>10. ~Before(now', sub'.lastStreakUpdate) /\ sub'.lastStreakUpdate \in run'
    BY <1>1, <1>2 DEF Before, Date
<1> QED BY <1>1, <1>2, <1>7, <1>8, <1>9, <1>10 DEF IInv, TypeOK

LEMMA NextHolds == IInv /\ [Next]_vars => IInv'
<1> SUFFICES ASSUME IInv, [Next]_vars PROVE IInv'
    OBVIOUS
<1>1. CASE Tick      BY <1>1, TickHolds
<1>2. CASE Complete  BY <1>2, CompleteHolds
<1>3. CASE Reset     BY <1>3, ResetHolds
<1>4. CASE UNCHANGED vars
    BY <1>4 DEF vars, IInv, TypeOK, NumberCountsDays, NoMissedDay, ReminderDay
<1> QED BY <1>1, <1>2, <1>3, <1>4 DEF Next

\* Whatever the reminder days and however long the streak is kept: the
\* subscription stays well-formed.
THEOREM RuleTypeCorrect == Spec => []TypeOK
<1>1. IInv => TypeOK
    BY DEF IInv
<1> QED BY <1>1, InitHolds, NextHolds, PTL DEF Spec

\* The number of the streak is the number of different days it was completed.
THEOREM RuleNumberCountsDays == Spec => []NumberCountsDays
<1>1. IInv => NumberCountsDays
    BY DEF IInv
<1> QED BY <1>1, InitHolds, NextHolds, PTL DEF Spec

\* A streak never continues across a missed reminder day, but for a completion
\* at the midnight that ends it.
THEOREM RuleNoMissedDay == Spec => []NoMissedDay
<1>1. IInv => NoMissedDay
    BY DEF IInv
<1> QED BY <1>1, InitHolds, NextHolds, PTL DEF Spec

\* Whatever the reminder days, a streak is never lost early ...
THEOREM RuleExpiredOnlyIfMissed == Spec => []ExpiredOnlyIfMissed
<1>1. IInv => ExpiredOnlyIfMissed
    BY ExpiredMissedDay DEF IInv, TypeOK, ExpiredOnlyIfMissed, ReminderDay
<1> QED BY <1>1, InitHolds, NextHolds, PTL DEF Spec

\* ... and never kept across a missed day, but for the midnight that ends it.
THEOREM RuleMissedIsExpired == Spec => []MissedIsExpired
<1>1. IInv => MissedIsExpired
    <2> SUFFICES ASSUME IInv, sub.streakNumber # 0, now.tick > 0, ~StreakExpired(sub, now),
                        NEW d \in (sub.lastStreakUpdate.day + 1)..(now.day - 1), ReminderDay(d)
                 PROVE  FALSE
        BY DEF MissedIsExpired
    <2>1. now = [day |-> d + 1, tick |-> 0]
        BY UnexpiredMissedNoDay DEF IInv, TypeOK, ReminderDay
    <2> QED BY <2>1
<1> QED BY <1>1, InitHolds, NextHolds, PTL DEF Spec

\* The deadline on the screens lies ahead, and "Come back on" names the next
\* reminder day that is to be done.
THEOREM RuleDeadlineIsNextReminderDay == Spec => []DeadlineIsNextReminderDay
<1>1. ASSUME IInv PROVE DeadlineIsNextReminderDay
    <2> DEFINE needs == CanBeCompletedToday(sub, now)
               first == IF needs THEN now.day ELSE now.day + 1
               deadline == NextDeadline(sub, now)
    <2>1. now \in Date /\ now.day \in Nat /\ sub.reminderDays \in ReminderDays
        BY <1>1 DEF IInv, TypeOK, Subscription, Date
    <2>2. needs \in BOOLEAN
        BY DEF CanBeCompletedToday, WasCompletedToday
    <2>3. PICK d \in first..(first + 6) :
                   /\ ReminderDay(d)
                   /\ \A e \in first..(d - 1) : ~ReminderDay(e)
                   /\ deadline = [day |-> d + 1, tick |-> 0]
        <3> HIDE DEF needs
        <3> QED BY <2>1, <2>2, DeadlineEndsNextReminderDay DEF NextDeadline, ReminderDay, needs
    <2>4. d \in Nat /\ d >= now.day /\ first \in {now.day, now.day + 1}
        <3> HIDE DEF needs
        <3> QED BY <2>1, <2>3
    <2> HIDE DEF deadline
    <2>5. Before(now, deadline) /\ NextStreakDate(sub, now).day = d
        BY <2>1, <2>3, <2>4 DEF Before, NextStreakDate, deadline
    <2>6. ASSUME NEW e \in now.day..(d - 1), ReminderDay(e)
          PROVE  e = now.day /\ WasCompletedToday(sub, now)
        <3>1. e \notin first..(d - 1)
            BY <2>3, <2>6
        <3>2. e = now.day /\ ~needs
            <4> HIDE DEF needs
            <4> QED BY <2>1, <2>4, <2>6, <3>1
        <3> QED BY <2>6, <3>2 DEF ReminderDay, CanBeCompletedToday
    <2> QED BY <2>3, <2>5, <2>6 DEF DeadlineIsNextReminderDay, deadline
<1> QED BY <1>1, InitHolds, NextHolds, PTL DEF Spec

-----------------------------------------------------------------------------
\* The reminders.

Wanted == {[day |-> now.day, tick |-> t] :
              t \in {x \in Times : x > now.tick /\ CanBeCompletedToday(sub, now)}}
Today == {d \in pending : d.day = now.day}

RInv == IInv /\ RemindersAreRight

\* What is asked for is for today when its time is to come.
LEMMA AskedForToday ==
    ASSUME now \in Date
    PROVE  {d \in {NextAt(t) : t \in {x \in Times : CanBeCompletedToday(sub, now)}} :
               d.day = now.day} = Wanted
<1> DEFINE can == CanBeCompletedToday(sub, now)
<1>1. now.day \in Nat /\ now.day + 1 # now.day
    BY DEF Date
<1>2. \A t \in Times : /\ NextAt(t).day = now.day <=> t > now.tick
                       /\ t > now.tick => NextAt(t) = [day |-> now.day, tick |-> t]
    BY <1>1 DEF NextAt
<1> HIDE DEF can
<1> QED BY <1>2 DEF Wanted, can

\* When a tick passes within the day, what was due at it is gone.
LEMMA TickOfTheDay ==
    ASSUME now \in Date, now' = NextTick(now), now'.day = now.day, sub' = sub,
           Today = Wanted, pending' = pending \ {now'}
    PROVE  Today' = Wanted'
<1> DEFINE can == CanBeCompletedToday(sub, now)
<1>1. /\ now.day \in Nat /\ now.tick \in Nat
      /\ now' = [day |-> now.day, tick |-> now.tick + 1]
    BY TicksAssumption DEF Date, NextTick
<1>2. CanBeCompletedToday(sub, now)' = can
    BY <1>1 DEF CanBeCompletedToday, WasCompletedToday
<1>3. \A t \in Times : t > now.tick + 1 <=> t > now.tick /\ t # now.tick + 1
    BY <1>1, RemindersAssumption
<1> HIDE DEF can
<1>4. Today' = Today \ {now'}
    BY <1>1 DEF Today
<1>5. Wanted' = {[day |-> now.day, tick |-> t] :
                    t \in {x \in Times : x > now.tick + 1 /\ can}}
    BY <1>1, <1>2 DEF Wanted
<1>6. Wanted = {[day |-> now.day, tick |-> t] :
                    t \in {x \in Times : x > now.tick /\ can}}
    BY DEF Wanted, can
<1> QED BY <1>1, <1>3, <1>4, <1>5, <1>6

LEMMA RemindersStep ==
    [RemindersNext]_remindersVars => [Next]_vars
BY DEF RemindersNext, remindersVars, vars, Next, ClockTicks, Completed, Snapshot, Raise

\* A streak with reminders is a streak: verifyStreaks and the screens do to it
\* what they do without.
THEOREM RemindersKeepRule == RemindersSpec => Spec
<1>1. RemindersInit => Init
    BY DEF RemindersInit
<1> QED BY <1>1, RemindersStep, PTL DEF RemindersSpec, Spec

LEMMA RemindersInitHolds == RemindersInit => RInv
BY InitHolds DEF RemindersInit, RInv, RemindersAreRight

LEMMA RemindersNextHolds == RInv /\ [RemindersNext]_remindersVars => RInv'
<1> SUFFICES ASSUME RInv, [RemindersNext]_remindersVars PROVE RInv'
    OBVIOUS
<1>1. IInv' /\ now \in Date /\ sub \in Subscription
    BY RemindersStep, NextHolds DEF RInv, IInv, TypeOK
<1>2. RemindersAreRight <=> (~due /\ heard => Today = Wanted)
    BY DEF RemindersAreRight, Today, Wanted
<1>3. RemindersAreRight' <=> (~due' /\ heard' => Today' = Wanted')
    BY DEF RemindersAreRight, Today, Wanted
<1>4. CASE ClockTicks
    <2> SUFFICES ASSUME ~due', heard' PROVE Today' = Wanted'
        BY <1>1, <1>3 DEF RInv
    <2>1. Today = Wanted /\ now'.day = now.day
        BY <1>2, <1>4 DEF RInv, ClockTicks
    <2>2. now' = NextTick(now) /\ sub' = sub /\ pending' = pending \ {now'}
        BY <1>4 DEF ClockTicks, Tick
    <2> QED BY <1>1, <2>1, <2>2, TickOfTheDay
<1>5. CASE Completed \/ Raise
    BY <1>1, <1>3, <1>5 DEF Completed, Raise, RInv
<1>6. CASE Snapshot
    <2> SUFFICES ASSUME ~due' PROVE Today' = Wanted'
        BY <1>1, <1>3 DEF RInv
    <2>1. UNCHANGED <<now, sub>> /\ SetupNotifications
        BY <1>6 DEF Snapshot
    <2>2. Today' = Wanted
        BY <1>1, <2>1, AskedForToday DEF SetupNotifications, Today
    <2> QED BY <2>1, <2>2 DEF Wanted
<1>7. CASE UNCHANGED remindersVars
    BY <1>1, <1>2, <1>3, <1>7 DEF remindersVars, RInv, Today, Wanted
<1> QED BY <1>4, <1>5, <1>6, <1>7 DEF RemindersNext

\* On a day the profile was heard of, the reminders still to come that day are
\* those of a streak that is to be done, and there are none once it is done.
THEOREM RemindersStayRight == RemindersSpec => []RemindersAreRight
<1>1. RInv => RemindersAreRight
    BY DEF RInv
<1> QED BY <1>1, RemindersInitHolds, RemindersNextHolds, PTL DEF RemindersSpec
=============================================================================
