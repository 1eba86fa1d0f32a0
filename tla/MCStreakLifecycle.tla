------------------------- MODULE MCStreakLifecycle -------------------------
EXTENDS StreakLifecycle

EveryDay == {1..7}
TwoPlans == {1..7, {1, 3}}     \* every day; Sundays and Tuesdays
=============================================================================
