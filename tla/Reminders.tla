----------------------------- MODULE Reminders -----------------------------
(***************************************************************************)
(* A streak with its reminders.  LoginViewController takes every snapshot  *)
(* of the profile as the occasion to replace all notifications: one at the *)
(* streak's reminder time and a last call, for streaks that can be         *)
(* completed that day.  They do not repeat, and the system shows them      *)
(* whether or not the application runs; on a day it hears nothing it asks  *)
(* for none.                                                               *)
(***************************************************************************)
EXTENDS StreakRule

CONSTANT Times   \* ticks of the day: reminderTime and finalReminderTime

ASSUME RemindersAssumption == Times \subseteq 0..(TicksPerDay - 1)

VARIABLES pending,   \* when the notifications asked for will be shown
          due,       \* is a snapshot of the profile due
          heard      \* history: has one come today

remindersVars == <<now, sub, run, pending, due, heard>>

\* newStreakNotification, newFinalReminderNotification: the trigger names an hour
\* and a minute, and stands for the next time the clock shows them.
NextAt(tick) == [day |-> IF tick > now.tick THEN now.day ELSE now.day + 1, tick |-> tick]

\* Mutant: what was asked for before is left.
SetupMoreNotifications ==
    pending' = pending \cup {NextAt(t) : t \in {x \in Times : CanBeCompletedToday(sub, now)}}

SetupNotifications ==
    pending' = {NextAt(t) : t \in {x \in Times : CanBeCompletedToday(sub, now)}}

RemindersInit ==
    /\ Init
    /\ pending = {} /\ due = TRUE /\ heard = FALSE

\* Those whose time has come are shown, and gone.
ClockTicks ==
    /\ Tick
    /\ pending' = pending \ {now'}
    /\ heard' = (heard /\ now'.day = now.day)
    /\ UNCHANGED due

Completed == Complete /\ due' = TRUE /\ UNCHANGED <<pending, heard>>

\* Both listeners: the reminders are for the profile as it came; verifyStreaks may
\* change it, which raises a snapshot again.
Snapshot ==
    /\ due
    /\ SetupNotifications
    /\ heard' = TRUE
    /\ \/ Reset /\ due' = TRUE
       \/ ~MustReset(sub, now) /\ due' = FALSE /\ UNCHANGED <<now, sub, run>>

\* The application is started, or the profile changed in another way.
Raise ==
    /\ ~due /\ due' = TRUE
    /\ UNCHANGED <<now, sub, run, pending, heard>>

RemindersNext == ClockTicks \/ Completed \/ Snapshot \/ Raise

RemindersSpec == RemindersInit /\ [][RemindersNext]_remindersVars
-----------------------------------------------------------------------------
\* On a day the profile was heard of, what is still to be shown that day is what
\* should be: the reminders whose time is to come, as long as the streak is to be
\* done, and none once it is (setupNotifications, whatever was asked for on days
\* before).
RemindersAreRight ==
    ~due /\ heard =>
        {d \in pending : d.day = now.day} =
            {[day |-> now.day, tick |-> t] :
                t \in {x \in Times : x > now.tick /\ CanBeCompletedToday(sub, now)}}
=============================================================================
