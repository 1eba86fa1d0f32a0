----------------------------- MODULE StreakRule -----------------------------
(***************************************************************************)
(* What one streak promises to its owner, with a single copy of the        *)
(* subscription and with the caller's duty honoured: StreakSubscription    *)
(* says that an expired streak must be reset, so here it is never          *)
(* completed before it has been.  StreakLifecycle models what the screens  *)
(* really do with it.                                                      *)
(***************************************************************************)
EXTENDS StreakCalendar, FiniteSets

CONSTANTS DaySets,    \* the reminder days a streak may be created with
          StartDays,  \* the days of the week it may be created on
          LastDay     \* bound: the day the clock stops at the end of

ASSUME RuleAssumption == /\ DaySets \subseteq ReminderDays
                         /\ StartDays \subseteq Nat
                         /\ LastDay \in Nat

VARIABLES now,   \* the device's clock
          sub,   \* the subscription
          run    \* history: when it was completed since the last reset

vars == <<now, sub, run>>

ReminderDay(day) == Weekday(day) \in sub.reminderDays

Init ==
    /\ now \in {[day |-> d, tick |-> 0] : d \in StartDays}
    /\ sub \in {NewSubscription(days, now) : days \in DaySets}
    /\ run = {}

NextTick(date) ==
    IF date.tick + 1 < TicksPerDay
    THEN [date EXCEPT !.tick = @ + 1]
    ELSE [day |-> date.day + 1, tick |-> 0]

Tick ==
    /\ NextTick(now).day <= LastDay
    /\ now' = NextTick(now)
    /\ UNCHANGED <<sub, run>>

\* ViewStreakVC enables "Mark done for today", CompleteStreakVC posts.
Complete ==
    /\ ~StreakExpired(sub, now)
    /\ CanBeCompletedToday(sub, now)
    /\ sub' = CompleteStreak(sub, now)
    /\ run' = run \cup {now}
    /\ UNCHANGED now

\* HomeVC.verifyStreaks finds the streak expired.
Reset ==
    /\ MustReset(sub, now)
    /\ sub' = Verified(sub, now)
    /\ run' = {}
    /\ UNCHANGED now

Next == Tick \/ Complete \/ Reset

Spec == Init /\ [][Next]_vars

-----------------------------------------------------------------------------
\* Type invariant: an instant, a subscription and the dates it was completed.
TypeOK ==
    /\ now \in Date
    /\ sub \in Subscription
    /\ run \in SUBSET Date

\* The number on the screen is a number of different days: the streak was
\* completed that many times, never twice on a day, and never later than the
\* last update (completeStreak, resetStreak).
NumberCountsDays ==
    /\ sub.streakNumber = Cardinality(run)
    /\ \A a, b \in run : a.day = b.day => a = b
    /\ \A a \in run : a = sub.lastStreakUpdate \/ Before(a, sub.lastStreakUpdate)

\* The number is a streak: no reminder day between the first completion of the
\* run and the last went by uncompleted, whatever weeks they fall in.  The one
\* exception is the strict "expiryDate < Date()" of streakExpired: a completion
\* at the very midnight that ends the missed day still continues the streak.
NoMissedDay ==
    \A first \in run : \A d \in first.day..sub.lastStreakUpdate.day :
        ReminderDay(d) => \/ \E a \in run : a.day = d
                          \/ [day |-> d + 1, tick |-> 0] \in run

\* streakExpired is never early: a streak it condemns has missed a reminder day
\* that is over.
ExpiredOnlyIfMissed ==
    StreakExpired(sub, now) =>
        \E d \in (sub.lastStreakUpdate.day + 1)..(now.day - 1) : ReminderDay(d)

\* streakExpired is never late either, but for the very instant of midnight at
\* which the missed day ends ("expiryDate < Date()").
MissedIsExpired ==
    (/\ sub.streakNumber # 0
     /\ now.tick > 0
     /\ \E d \in (sub.lastStreakUpdate.day + 1)..(now.day - 1) : ReminderDay(d))
        => StreakExpired(sub, now)

\* The deadline on the screens lies ahead, and "Come back on" names a reminder
\* day, with no other between today and it that is still to be done.
DeadlineIsNextReminderDay ==
    LET back == NextStreakDate(sub, now).day
    IN  /\ Before(now, NextDeadline(sub, now))
        /\ ReminderDay(back)
        /\ \A d \in now.day..(back - 1) :
               ReminderDay(d) => d = now.day /\ WasCompletedToday(sub, now)
=============================================================================
