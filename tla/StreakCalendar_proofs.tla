------------------------ MODULE StreakCalendar_proofs ------------------------
(* What the date arithmetic of a streak computes, for every set of reminder *)
(* days and every date.                                                     *)
EXTENDS StreakCalendar, TLAPS

LEMMA WeekdayType ==
    ASSUME NEW d \in Nat
    PROVE  Weekday(d) \in Weekdays
BY DEF Weekday, Weekdays

LEMMA WeekdayNext ==
    ASSUME NEW d \in Nat
    PROVE  Weekday(d + 1) = IncrementDayInt(Weekday(d))
BY DEF Weekday, IncrementDayInt

\* A weekday comes back after seven days, and not before.
LEMMA WeekdayUnique ==
    ASSUME NEW d \in Nat, NEW a \in (d + 1)..(d + 7), NEW b \in (d + 1)..(d + 7),
           Weekday(a) = Weekday(b)
    PROVE  a = b
BY DEF Weekday

LEMMA EveryWeekdayAhead ==
    ASSUME NEW d \in Nat, NEW w \in Weekdays
    PROVE  \E e \in d..(d + 6) : Weekday(e) = w
<1> DEFINE e == d + ((w - 1 - (d % 7) + 7) % 7)
<1>1. e \in d..(d + 6)
    BY DEF Weekdays
<1>2. Weekday(e) = w
    BY DEF Weekdays, Weekday
<1> QED BY <1>1, <1>2

LEMMA EarliestExists ==
    ASSUME NEW S \in ReminderDays
    PROVE  \E d \in S : \A e \in S : d <= e
<1>1. S \subseteq Weekdays /\ S # {}
    BY DEF ReminderDays
<1>2. CASE 1 \in S  BY <1>1, <1>2 DEF Weekdays
<1>3. CASE 1 \notin S /\ 2 \in S  BY <1>1, <1>3 DEF Weekdays
<1>4. CASE {1, 2} \cap S = {} /\ 3 \in S  BY <1>1, <1>4 DEF Weekdays
<1>5. CASE {1, 2, 3} \cap S = {} /\ 4 \in S  BY <1>1, <1>5 DEF Weekdays
<1>6. CASE {1, 2, 3, 4} \cap S = {} /\ 5 \in S  BY <1>1, <1>6 DEF Weekdays
<1>7. CASE {1, 2, 3, 4, 5} \cap S = {} /\ 6 \in S  BY <1>1, <1>7 DEF Weekdays
<1>8. CASE {1, 2, 3, 4, 5, 6} \cap S = {}
    <2>1. \A d \in S : d = 7  BY <1>1, <1>8 DEF Weekdays
    <2> QED BY <1>1, <2>1
<1> QED BY <1>2, <1>3, <1>4, <1>5, <1>6, <1>7, <1>8

\* The while loop of nextDeadlineFromDate: started at the weekday of some day,
\* it stops at the weekday of the first reminder day from that day on, which is
\* less than a week away.
LEMMA LoopFindsFirstReminderDay ==
    ASSUME NEW days \in ReminderDays, NEW from \in Nat
    PROVE  \E d \in from..(from + 6) :
               /\ Weekday(d) \in days
               /\ Weekday(d) = FirstReminderDay(days, Weekday(from))
               /\ \A e \in from..(d - 1) : Weekday(e) \notin days
<1> DEFINE w == Weekday(from)
           ahead == {x \in days : w <= x}
           S == IF ahead # {} THEN ahead ELSE days
           first == CHOOSE x \in S : \A y \in S : x <= y
<1>1. S \in ReminderDays
    BY DEF ReminderDays
<1>2. first \in S /\ \A y \in S : first <= y
    BY <1>1, EarliestExists
<1>3. first = FirstReminderDay(days, w)
    BY DEF FirstReminderDay
<1>4. days \subseteq Weekdays /\ first \in Weekdays /\ first \in days /\ w \in Weekdays
    BY <1>1, <1>2, WeekdayType DEF ReminderDays
<1>5. PICK d \in from..(from + 6) : Weekday(d) = first
    BY <1>4, EveryWeekdayAhead
<1>6. ASSUME NEW e \in from..(d - 1), Weekday(e) \in days
      PROVE  FALSE
    <2> DEFINE v == Weekday(e)
    <2>1. e \in Nat /\ v \in days /\ v \in Weekdays
        BY <1>4, <1>6, WeekdayType
    <2> HIDE DEF first, S, ahead
    <2>2. CASE ahead # {}
        \* then first >= w, so the days from `from' to d do not go round the week
        <3>1. first >= w
            BY <1>2, <2>2, <1>4 DEF S, ahead
        <3>2. v >= w /\ v < first
            BY <3>1, <1>5, <1>4, <2>1 DEF Weekday, Weekdays
        <3>3. first <= v
            BY <3>2, <2>1, <2>2, <1>2 DEF S, ahead
        <3> QED BY <3>2, <3>3, <2>1, <1>4 DEF Weekdays
    <2>3. CASE ahead = {}
        <3>1. \A x \in days : x \in Weekdays /\ x < w
            BY <2>3, <1>4 DEF Weekdays, ahead
        <3>2. v < w /\ first < w
            BY <2>1, <3>1, <1>4
        <3>3. v < first
            BY <3>2, <1>5, <1>4, <2>1 DEF Weekday, Weekdays
        <3>4. first <= v
            BY <2>1, <2>3, <1>2 DEF S
        <3> QED BY <3>3, <3>4, <2>1, <1>4 DEF Weekdays
    <2> QED BY <2>2, <2>3
<1> QED BY <1>3, <1>4, <1>5, <1>6

\* nextDeadlineFromDate returns the midnight that ends the next day the streak
\* is due: the first reminder day after startDate, or from startDate's own day
\* on when it still has to be completed that day.
THEOREM DeadlineEndsNextReminderDay ==
    ASSUME NEW days \in ReminderDays, NEW date \in Date, NEW needs \in BOOLEAN,
           NEW first, first = IF needs THEN date.day ELSE date.day + 1
    PROVE  \E d \in first..(first + 6) :
               /\ Weekday(d) \in days
               /\ \A e \in first..(d - 1) : Weekday(e) \notin days
               /\ NextDeadlineFromDate(days, date, needs) = [day |-> d + 1, tick |-> 0]
<1> DEFINE from == IF needs THEN Weekday(date.day) ELSE IncrementDayInt(Weekday(date.day))
           afterDate == IF needs THEN date ELSE [date EXCEPT !.day = @ + 1]
<1>1. date.day \in Nat /\ first \in Nat /\ afterDate.day = first
    BY DEF Date
<1>2. from = Weekday(first)
    BY <1>1, WeekdayNext
<1>3. PICK d \in first..(first + 6) :
               /\ Weekday(d) \in days
               /\ Weekday(d) = FirstReminderDay(days, Weekday(first))
               /\ \A e \in first..(d - 1) : Weekday(e) \notin days
    BY <1>1, LoopFindsFirstReminderDay
<1>4. Weekday(d + 1) = IncrementDayInt(FirstReminderDay(days, from))
    BY <1>1, <1>2, <1>3, WeekdayNext
<1> DEFINE C == CHOOSE x \in (first + 1)..(first + 7) : Weekday(x) = Weekday(d + 1)
<1>5. C = d + 1
    <2>1. d + 1 \in (first + 1)..(first + 7)
        BY <1>1
    <2>2. C \in (first + 1)..(first + 7) /\ Weekday(C) = Weekday(d + 1)
        BY <2>1
    <2> QED BY <1>1, <2>1, <2>2, WeekdayUnique
<1>6. NextDeadlineFromDate(days, date, needs) = [day |-> C, tick |-> 0]
    BY <1>1, <1>4 DEF NextDeadlineFromDate, NextDate
<1> QED BY <1>3, <1>5, <1>6

-----------------------------------------------------------------------------
\* The methods of StreakSubscription keep a subscription well-formed.

LEMMA ResetFacts ==
    ASSUME NEW s \in Subscription, NEW d \in Date
    PROVE  /\ ResetStreak(s, d) \in Subscription
           /\ ResetStreak(s, d).streakNumber = 0
           /\ ResetStreak(s, d).lastStreakUpdate = d
           /\ ResetStreak(s, d).reminderDays = s.reminderDays
BY DEF ResetStreak, Subscription

LEMMA CompleteFacts ==
    ASSUME NEW s \in Subscription, NEW d \in Date, CanBeCompletedToday(s, d)
    PROVE  /\ CompleteStreak(s, d) \in Subscription
           /\ CompleteStreak(s, d).streakNumber = s.streakNumber + 1
           /\ CompleteStreak(s, d).lastStreakUpdate = d
           /\ CompleteStreak(s, d).reminderDays = s.reminderDays
<1>1. s.streakNumber + 1 \in Nat /\ s.reminderDays \in ReminderDays
    BY DEF Subscription
<1>2. CompleteStreak(s, d) = [streakNumber |-> s.streakNumber + 1,
                              lastStreakUpdate |-> d,
                              reminderDays |-> s.reminderDays]
    BY DEF CompleteStreak, Subscription
<1> QED BY <1>1, <1>2 DEF Subscription

LEMMA VerifiedType ==
    ASSUME NEW s \in Subscription, NEW d \in Date
    PROVE  Verified(s, d) \in Subscription
BY ResetFacts DEF Verified

LEMMA CompleteType ==
    ASSUME NEW s \in Subscription, NEW d \in Date
    PROVE  CompleteStreak(s, d) \in Subscription
<1>1. CASE CanBeCompletedToday(s, d)   BY <1>1, CompleteFacts
<1>2. CASE ~CanBeCompletedToday(s, d)  BY <1>2 DEF CompleteStreak
<1> QED BY <1>1, <1>2

LEMMA NewSubscriptionType ==
    ASSUME NEW days \in ReminderDays, NEW d \in Date
    PROVE  NewSubscription(days, d) \in Subscription
BY DEF NewSubscription, Subscription
=============================================================================
