---------------------------- MODULE MCStreakRule ----------------------------
(* Every set of reminder days, for a week and a half, with reminders at      *)
(* midnight and later.                                                       *)
EXTENDS Reminders

MCDaySets == ReminderDays
MCStartDays == {0, 4}
MCTimes == {0, 1}
=============================================================================
