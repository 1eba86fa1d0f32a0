--------------------------- MODULE StreakCalendar ---------------------------
(***************************************************************************)
(* The date arithmetic of a streak: StreakSubscription.swift.              *)
(*                                                                         *)
(* A Date is a calendar day, counted from some Sunday, and a tick within   *)
(* that day; tick 0 is midnight.  One time zone and no daylight saving     *)
(* change: every day has the same number of ticks.  reminderDays, an array *)
(* of seven Booleans in the code, is the set of the weekdays it selects,   *)
(* 1 (Sunday) to 7 (Saturday).                                             *)
(*                                                                         *)
(* A definition marked "Mutant" is a plausible bug of the one below it; a  *)
(* property is shown to have teeth by swapping it in.  No specification    *)
(* uses one.                                                               *)
(***************************************************************************)
EXTENDS Integers

CONSTANT TicksPerDay     \* how many instants of a day are told apart

ASSUME TicksAssumption == TicksPerDay \in Nat /\ TicksPerDay >= 2

Weekdays == 1..7
ReminderDays == (SUBSET Weekdays) \ {{}}    \* addStreakPressed refuses none
Date == [day : Nat, tick : 0..(TicksPerDay - 1)]
Subscription == [streakNumber : Nat, lastStreakUpdate : Date, reminderDays : ReminderDays]

\* a < b on Dates.
Before(a, b) == a.day < b.day \/ (a.day = b.day /\ a.tick < b.tick)

\* calendar.component(.weekday, from: date), by its day.
Weekday(day) == (day % 7) + 1

IncrementDayInt(day) == IF day + 1 = 8 THEN 1 ELSE day + 1

\* Mutant: the loop advances before it looks.
SkipsFirstDay(days, day) ==
    LET Earliest(S) == CHOOSE d \in S : \A e \in S : d <= e
        ahead == {d \in days : day < d}
    IN  Earliest(IF ahead # {} THEN ahead ELSE days)

\* Where the while loop of nextDeadlineFromDate stops: the first reminder day
\* met from weekday `day' on, going round the week.
FirstReminderDay(days, day) ==
    LET Earliest(S) == CHOOSE d \in S : \A e \in S : d <= e
        ahead == {d \in days : day <= d}
    IN  Earliest(IF ahead # {} THEN ahead ELSE days)

\* calendar.nextDate(after:matching:matchingPolicy:): the first midnight
\* strictly later than `date' that opens a day with that weekday.
NextDate(date, weekday) ==
    [day  |-> CHOOSE d \in (date.day + 1)..(date.day + 7) : Weekday(d) = weekday,
     tick |-> 0]

NextDeadlineFromDate(days, startDate, needsToBeCompletedOnThatDate) ==
    LET from == IF needsToBeCompletedOnThatDate
                THEN Weekday(startDate.day)
                ELSE IncrementDayInt(Weekday(startDate.day))
        nextStreakDay == FirstReminderDay(days, from)
        afterDate == IF needsToBeCompletedOnThatDate
                     THEN startDate
                     ELSE [startDate EXCEPT !.day = @ + 1]
    IN  NextDate(afterDate, IncrementDayInt(nextStreakDay))

\* Mutant: the day of the last update has to be completed (again).
ExpiresSameDay(sub, now) ==
    /\ sub.streakNumber # 0
    /\ Before(NextDeadlineFromDate(sub.reminderDays, sub.lastStreakUpdate, TRUE), now)

\* Mutant: the deadline is looked for from today on.
ExpiresFromToday(sub, now) ==
    /\ sub.streakNumber # 0
    /\ Before(NextDeadlineFromDate(sub.reminderDays, now, FALSE), now)

StreakExpired(sub, now) ==
    /\ sub.streakNumber # 0
    /\ Before(NextDeadlineFromDate(sub.reminderDays, sub.lastStreakUpdate, FALSE), now)

\* Mutant: compares the instants, not the days.
WasCompletedThisInstant(sub, now) ==
    sub.streakNumber # 0 /\ sub.lastStreakUpdate = now

WasCompletedToday(sub, now) ==
    sub.streakNumber # 0 /\ sub.lastStreakUpdate.day = now.day

\* Mutant: only the weekday is looked at.
IsReminderDay(sub, now) == Weekday(now.day) \in sub.reminderDays

CanBeCompletedToday(sub, now) ==
    Weekday(now.day) \in sub.reminderDays /\ ~WasCompletedToday(sub, now)

\* Mutant: trusts the button of the screen.
CompleteUnchecked(sub, now) ==
    [sub EXCEPT !.streakNumber = @ + 1, !.lastStreakUpdate = now]

CompleteStreak(sub, now) ==
    IF CanBeCompletedToday(sub, now)
    THEN [sub EXCEPT !.streakNumber = @ + 1, !.lastStreakUpdate = now]
    ELSE sub

\* Mutant: -1 for a streak that is lost.
ResetToMinusOne(sub, now) ==
    [sub EXCEPT !.streakNumber = -1, !.lastStreakUpdate = now]

\* Mutant: the date of the last update is left alone.
ResetNumberOnly(sub, now) == [sub EXCEPT !.streakNumber = 0]

ResetStreak(sub, now) ==
    [sub EXCEPT !.streakNumber = 0, !.lastStreakUpdate = now]

\* The deadline the screens show.
NextDeadline(sub, now) ==
    NextDeadlineFromDate(sub.reminderDays, now, CanBeCompletedToday(sub, now))

\* Mutant: the deadline itself, a midnight too late.
DeadlineAsStreakDate(sub, now) == NextDeadline(sub, now)

\* "Come back on ...": the day before the deadline.
NextStreakDate(sub, now) ==
    [NextDeadline(sub, now) EXCEPT !.day = @ - 1]

\* Mutant: an update at this very instant counts as one in the future.
MustResetNotBefore(sub, now) ==
    StreakExpired(sub, now) \/ ~Before(sub.lastStreakUpdate, now)

\* HomeVC.verifyStreaks: is this subscription one that has to be reset, and
\* the subscription it leaves.
MustReset(sub, now) == StreakExpired(sub, now) \/ Before(now, sub.lastStreakUpdate)

Verified(sub, now) == IF MustReset(sub, now) THEN ResetStreak(sub, now) ELSE sub

\* StreakSubscription.init
NewSubscription(days, now) ==
    [streakNumber |-> 0, lastStreakUpdate |-> now, reminderDays |-> days]
=============================================================================
