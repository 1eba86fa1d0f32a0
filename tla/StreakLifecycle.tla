-------------------------- MODULE StreakLifecycle --------------------------
(***************************************************************************)
(* One signed-in user's streaks on one device, and everything that holds a *)
(* copy of the user's profile and later writes that copy back.             *)
(*                                                                         *)
(* The profile is one Firestore document.  Every screen works on a decoded *)
(* copy of it and saves with setData, which replaces the whole document.   *)
(* HomeVC's listener gives it a new object on every snapshot; the screens  *)
(* pushed from it (ViewStreakVC, CompleteStreakVC, AddStreakVC) keep the   *)
(* object they were handed, and share it by reference.  The listener of    *)
(* cur_user_profile decodes a copy of its own.  SettingsVC, and the apps   *)
(* of other users that add a friend request, keep a copy for as long as    *)
(* they like.                                                              *)
(*                                                                         *)
(* All callbacks run on the main queue, one at a time, so each is one      *)
(* action.  A local write is visible to the listeners at once, online or   *)
(* not, as one more snapshot to be delivered in order; the two listeners,  *)
(* of the same document, are called one right after the other.             *)
(* Left out of a profile: everything but the subscriptions (names, friends *)
(* and posts); a write that changes only those is "touched".               *)
(*                                                                         *)
(* A definition marked "Mutant" is a plausible bug of the one below it; a  *)
(* property is shown to have teeth by swapping it in.                      *)
(***************************************************************************)
EXTENDS StreakCalendar, Sequences, FiniteSets, Functions

CONSTANTS Streaks,    \* the private streaks the user subscribes to
          DaySets,    \* the reminder days that may be picked for them
          Features,   \* bound: the features this instance makes use of
          LastDay,    \* bound: the clock stops at the end of this day
          MaxQueue    \* bound: writes wait while so many snapshots are due

\* "hasty": rows are tapped before a snapshot that is due has been delivered.
AllFeatures ==
    {"image", "edit", "delete", "settings", "friend", "relaunch", "hasty"}

ASSUME LifecycleAssumption == /\ Streaks # {}
                              /\ DaySets \subseteq ReminderDays /\ DaySets # {}
                              /\ Features \subseteq AllFeatures
                              /\ LastDay \in Nat
                              /\ MaxQueue \in Nat \ {0}

VARIABLES now,         \* Date(), the device's clock
          cloud,       \* the profile document, local writes included
          streakInfo,  \* reminderDays of the private_streaks documents
          due,         \* the snapshots the listeners have yet to be given
          heap,        \* the profile objects of HomeVC and the screens on it
          ref,         \* who refers to which object; 0 is nil
          cur,         \* cur_user_profile: no copy or one
          kept,        \* the copy SettingsVC, or a friend's app, holds: same
          nav,         \* the screen on top of the Home tab
          completed    \* history: the days completeStreak counted

vars == <<now, cloud, streakInfo, due, heap, ref, cur, kept, nav, completed>>
saved == <<cloud, due>>                         \* what a write changes
local == <<heap, ref, nav>>                     \* the Home tab

Profile == [Streaks -> Subscription]
Objects == 1..3
Holders == {"home", "view", "upload"}           \* at most three live objects
Keepers == {"settings", "friend"}
Screens == {"home", "view", "complete", "edit"}

AnyStreak == CHOOSE s \in Streaks : TRUE
Blank == [s \in Streaks |-> NewSubscription(Weekdays, [day |-> 0, tick |-> 0])]
AtHome == [screen |-> "home", streak |-> AnyStreak, markDone |-> FALSE, info |-> {}]

\* Objects no one refers to are deallocated (ARC).
Retain(objects, refs) ==
    [o \in Objects |-> IF \E h \in Holders : refs[h] = o THEN objects[o] ELSE Blank]

\* The object a decode for HomeVC allocates.
NewObject == CHOOSE o \in Objects : ref["view"] # o /\ ref["upload"] # o

\* ViewStreakVC.viewWillAppear: the button is enabled as of this moment.
Appear(s, profile) ==
    [screen |-> "view", streak |-> s,
     markDone |-> CanBeCompletedToday(profile[s], now), info |-> {}]

\* setData(from: profile): the listeners are due a snapshot unless the document
\* is left exactly as it was.
Write(profile, touched) ==
    /\ Len(due) < MaxQueue
    /\ cloud' = profile
    /\ due' = IF touched \/ profile # cloud THEN Append(due, profile) ELSE due

-----------------------------------------------------------------------------
Launched ==
    /\ heap' = [o \in Objects |-> Blank]
    /\ ref' = [h \in Holders |-> 0]
    /\ cur' = {}
    /\ nav' = AtHome

Init ==
    /\ now = [day |-> 0, tick |-> 0]
    /\ streakInfo \in [Streaks -> DaySets]
    /\ cloud = [s \in Streaks |-> NewSubscription(streakInfo[s], now)]
    /\ due = <<cloud>>
    /\ heap = [o \in Objects |-> Blank]
    /\ ref = [h \in Holders |-> 0]
    /\ cur = {}
    /\ kept = [w \in Keepers |-> {}]
    /\ nav = AtHome
    /\ completed = [s \in Streaks |-> {}]

Tick ==
    /\ now.day < LastDay \/ now.tick + 1 < TicksPerDay
    /\ now' = IF now.tick + 1 < TicksPerDay
              THEN [now EXCEPT !.tick = @ + 1]
              ELSE [day |-> now.day + 1, tick |-> 0]
    /\ UNCHANGED <<saved, local, streakInfo, cur, kept, completed>>

\* Mutant: cur_user_profile is loaded once, not listened to.
SnapshotLoadsOnce ==
    /\ due # <<>>
    /\ cur' = IF cur = {} THEN {Head(due)} ELSE cur
    /\ ref' = [ref EXCEPT !["home"] = NewObject]
    /\ LET verified == [s \in Streaks |-> Verified(Head(due)[s], now)]
       IN  /\ heap' = Retain([heap EXCEPT ![NewObject] = verified], ref')
           /\ IF verified # Head(due)
              THEN cloud' = verified /\ due' = Append(Tail(due), verified)
              ELSE due' = Tail(due) /\ UNCHANGED cloud
    /\ UNCHANGED <<now, streakInfo, kept, nav, completed>>

\* Mutant: verifyStreaks resets in memory and does not save.
SnapshotSavesNothing ==
    /\ due # <<>>
    /\ cur' = {Head(due)}
    /\ ref' = [ref EXCEPT !["home"] = NewObject]
    /\ heap' = Retain([heap EXCEPT ![NewObject] =
                           [s \in Streaks |-> Verified(Head(due)[s], now)]], ref')
    /\ due' = Tail(due)
    /\ UNCHANGED <<now, cloud, streakInfo, kept, nav, completed>>

\* Mutant: verifyStreaks looks at the streaks HomeVC showed before.
SnapshotVerifiesOld ==
    /\ due # <<>>
    /\ cur' = {Head(due)}
    /\ LET profile == Head(due)
           shown == IF ref["home"] = 0 THEN profile ELSE heap[ref["home"]]
           verified == [s \in Streaks |-> Verified(profile[s], now)]
       IN  /\ ref' = [ref EXCEPT !["home"] = NewObject]
           /\ heap' = Retain([heap EXCEPT ![NewObject] = profile], ref')
           /\ IF \E s \in Streaks : MustReset(shown[s], now)
              THEN cloud' = verified /\ due' = Append(Tail(due), verified)
              ELSE due' = Tail(due) /\ UNCHANGED cloud
    /\ UNCHANGED <<now, streakInfo, kept, nav, completed>>

\* A snapshot is delivered: to the listener of cur_user_profile, which decodes
\* it, and to HomeVC's, which decodes it, runs verifyStreaks, and writes when a
\* streak had to be reset.  (Always one more snapshot: the new dates are finer
\* than a tick.)
Snapshot ==
    /\ due # <<>>
    /\ cur' = {Head(due)}
    /\ LET profile == Head(due)
           verified == [s \in Streaks |-> Verified(profile[s], now)]
       IN  /\ ref' = [ref EXCEPT !["home"] = NewObject]
           /\ heap' = Retain([heap EXCEPT ![NewObject] = verified], ref')
           /\ IF \E s \in Streaks : MustReset(profile[s], now)
              THEN cloud' = verified /\ due' = Append(Tail(due), verified)
              ELSE due' = Tail(due) /\ UNCHANGED cloud
    /\ UNCHANGED <<now, streakInfo, kept, nav, completed>>

\* A tap on a row: the object HomeVC holds now is handed over.
OpenStreak(s) ==
    /\ nav.screen = "home" /\ ref["home"] # 0
    /\ due = <<>> \/ "hasty" \in Features
    /\ ref' = [ref EXCEPT !["view"] = ref["home"]]
    /\ nav' = Appear(s, heap[ref["home"]])
    /\ UNCHANGED <<now, saved, heap, streakInfo, cur, kept, completed>>

\* Back from another tab: viewWillAppear again.
Reappear ==
    /\ nav.screen = "view"
    /\ nav' = Appear(nav.streak, heap[ref["view"]])
    /\ UNCHANGED <<now, saved, heap, ref, streakInfo, cur, kept, completed>>

TapMarkDone ==
    /\ nav.screen = "view" /\ nav.markDone
    /\ nav' = [nav EXCEPT !.screen = "complete"]
    /\ UNCHANGED <<now, saved, heap, ref, streakInfo, cur, kept, completed>>

\* Mutant: the screen that was left keeps its object.
PopKeepsObject ==
    /\ nav.screen # "home"
    /\ nav' = IF nav.screen = "view" THEN AtHome
              ELSE Appear(nav.streak, heap[ref["view"]])
    /\ UNCHANGED <<now, saved, heap, ref, streakInfo, cur, kept, completed>>

\* The user goes back, or a write made by a screen that has been left is
\* acknowledged and pops whatever is on top.
Pop ==
    /\ nav.screen # "home"
    /\ IF nav.screen = "view"
       THEN /\ nav' = AtHome
            /\ ref' = [ref EXCEPT !["view"] = 0]
            /\ heap' = Retain(heap, ref')
       ELSE /\ nav' = Appear(nav.streak, heap[ref["view"]])
            /\ UNCHANGED <<ref, heap>>
    /\ UNCHANGED <<now, saved, streakInfo, cur, kept, completed>>

\* completeStreak() on the object of the screen; its result is not looked at.
CompleteHeld ==
    LET o == ref["view"]
        s == nav.streak
    IN  /\ heap' = [heap EXCEPT ![o][s] = CompleteStreak(@, now)]
        /\ completed' = IF CanBeCompletedToday(heap[o][s], now)
                        THEN [completed EXCEPT ![s] = @ \cup {now.day}]
                        ELSE completed

\* postStreakPressed without a picture: the screen stays until the write is
\* acknowledged, and the button stays enabled.
PostStreak ==
    /\ nav.screen = "complete"
    /\ CompleteHeld
    /\ Write(heap'[ref["view"]], TRUE)
    /\ UNCHANGED <<now, streakInfo, ref, cur, kept, nav>>

\* With a picture: counted now, in memory only; bound: one upload at a time.
PostStreakWithImage ==
    /\ "image" \in Features
    /\ nav.screen = "complete" /\ ref["upload"] = 0
    /\ CompleteHeld
    /\ ref' = [ref EXCEPT !["upload"] = ref["view"]]
    /\ UNCHANGED <<now, saved, streakInfo, cur, kept, nav>>

\* ... and uploadStreakPost saves the same object when the upload has ended,
\* with or without success.
ImageUploaded ==
    /\ ref["upload"] # 0
    /\ Write(heap[ref["upload"]], TRUE)
    /\ ref' = [ref EXCEPT !["upload"] = 0]
    /\ heap' = Retain(heap, ref')
    /\ UNCHANGED <<now, streakInfo, cur, kept, nav, completed>>

OpenEdit ==
    /\ "edit" \in Features
    /\ nav.screen = "view"
    /\ nav' = [nav EXCEPT !.screen = "edit"]
    /\ UNCHANGED <<now, saved, heap, ref, streakInfo, cur, kept, completed>>

StreakInfoLoaded ==
    /\ nav.screen = "edit" /\ nav.info = {}
    /\ nav' = [nav EXCEPT !.info = {streakInfo[nav.streak]}]
    /\ UNCHANGED <<now, saved, heap, ref, streakInfo, cur, kept, completed>>

\* Mutant: the days are stored before they are compared.
SaveEditSwapped(days) ==
    /\ nav.screen = "edit"
    /\ \E loaded \in nav.info, touched \in BOOLEAN :
           LET o == ref["view"]
               s == nav.streak
           IN  /\ heap' = [heap EXCEPT ![o][s].reminderDays = days]
               /\ streakInfo' = [streakInfo EXCEPT ![s] = days]
               /\ Write(heap'[o], touched)
               /\ nav' = Appear(s, heap'[o])
    /\ UNCHANGED <<now, ref, cur, kept, completed>>

\* "Save" on the edit screen, and "Yes" when the alert asks: the streak is
\* reset when the days picked are not those of the StreakInfo it loaded.
\* Nothing happens before that is loaded.
SaveEdit(days) ==
    /\ nav.screen = "edit"
    /\ \E loaded \in nav.info, touched \in BOOLEAN :
           LET o == ref["view"]
               s == nav.streak
               edited == [(IF days # loaded THEN ResetStreak(heap[o][s], now)
                           ELSE heap[o][s]) EXCEPT !.reminderDays = days]
           IN  /\ heap' = [heap EXCEPT ![o][s] = edited]
               /\ streakInfo' = [streakInfo EXCEPT ![s] = days]
               /\ Write(heap'[o], touched)
               /\ nav' = Appear(s, heap'[o])
    /\ UNCHANGED <<now, ref, cur, kept, completed>>

\* SettingsVC is opened on cur_user_profile; a friend's app loads the document.
KeepCopy(w) ==
    /\ w \in Features
    /\ kept[w] = {}
    /\ IF w = "settings" THEN kept' = [kept EXCEPT ![w] = cur]
                         ELSE kept' = [kept EXCEPT ![w] = {cloud}]
    /\ kept'[w] # {}
    /\ UNCHANGED <<now, saved, local, streakInfo, cur, completed>>

\* SettingsVC saves whenever it disappears: it is closed, or stays loaded
\* behind another tab; a new picture only delays the write.  A friend's app
\* writes the profile back with a friend request added or removed.
WriteBack(w) ==
    /\ \E profile \in kept[w], touched \in BOOLEAN, closed \in BOOLEAN :
           /\ Write(profile, touched \/ w = "friend")
           /\ kept' = IF closed THEN [kept EXCEPT ![w] = {}] ELSE kept
    /\ UNCHANGED <<now, local, streakInfo, cur, completed>>

\* ProfileVC removes a post from cur_user_profile and saves that.
DeletePost ==
    /\ "delete" \in Features
    /\ \E profile \in cur : Write(profile, TRUE)
    /\ UNCHANGED <<now, local, streakInfo, cur, kept, completed>>

\* Mutant: the listeners are given only what changes after the launch.
RelaunchHearsNothing ==
    /\ "relaunch" \in Features
    /\ Launched
    /\ due' = <<>>
    /\ kept' = [w \in Keepers |-> IF w = "settings" THEN {} ELSE kept[w]]
    /\ UNCHANGED <<now, cloud, streakInfo, completed>>

\* The app is killed and started again: the document and its pending writes
\* survive in Firestore's cache, memory and uploads do not.
Relaunch ==
    /\ "relaunch" \in Features
    /\ Launched
    /\ due' = <<cloud>>
    /\ kept' = [w \in Keepers |-> IF w = "settings" THEN {} ELSE kept[w]]
    /\ UNCHANGED <<now, cloud, streakInfo, completed>>

Next ==
    \/ Tick \/ Snapshot
    \/ \E s \in Streaks : OpenStreak(s)
    \/ Reappear \/ TapMarkDone \/ Pop
    \/ PostStreak \/ PostStreakWithImage \/ ImageUploaded
    \/ OpenEdit \/ StreakInfoLoaded \/ \E days \in DaySets : SaveEdit(days)
    \/ \E w \in Keepers : KeepCopy(w) \/ WriteBack(w)
    \/ DeletePost \/ Relaunch

Spec == Init /\ [][Next]_vars

\* Firestore delivers what is due; nothing obliges the user.
Fairness == WF_vars(Snapshot)
FairSpec == Spec /\ Fairness
-----------------------------------------------------------------------------
\* Every copy of the profile there is.
Copies == {cloud} \cup Range(due) \cup Range(heap) \cup cur
              \cup UNION {kept[w] : w \in Keepers}

\* Type invariant; a screen is on top of HomeVC exactly while it holds a
\* profile object.
TypeOK ==
    /\ now \in Date
    /\ cloud \in Profile
    /\ streakInfo \in [Streaks -> ReminderDays]
    /\ due \in Seq(Profile)
    /\ heap \in [Objects -> Profile]
    /\ ref \in [Holders -> Objects \cup {0}]
    /\ cur \in SUBSET Profile
    /\ kept \in [Keepers -> SUBSET Profile]
    /\ nav \in [screen : Screens, streak : Streaks, markDone : BOOLEAN,
               info : SUBSET ReminderDays]
    /\ completed \in [Streaks -> SUBSET Nat]
    /\ nav.screen = "home" <=> ref["view"] = 0

\* The days counted for a streak up to some day.
DaysDone(s, day) == {d \in completed[s] : d <= day}

CountedSub(s, sub) ==
    /\ sub.streakNumber <= Cardinality(DaysDone(s, sub.lastStreakUpdate.day))
    /\ ~Before(now, sub.lastStreakUpdate)

Counted(profile) == \A s \in Streaks : CountedSub(s, profile[s])

\* No day is ever counted twice: the number in any copy, however stale, is at
\* most the number of different days the streak was completed by the date of its
\* last update.  Double taps, slow uploads, edits and copies written over each
\* other lose completions but never invent one (completeStreak, resetStreak and
\* the setData of every screen).
NumberBounded == \A profile \in Copies : Counted(profile)

\* Once every snapshot is delivered the Home tab and cur_user_profile show the
\* document, unless a completion waits for its picture: whatever the order in
\* which stale copies, verifyStreaks and the screens wrote, the last write wins
\* everywhere.
AgreesWhenQuiet ==
    due = <<>> =>
        /\ cur = {cloud}
        /\ ref["upload"] # ref["home"] => heap[ref["home"]] = cloud

\* When the last snapshot that is due has been handled the document holds no
\* streak that should have been reset at that moment, even when an out-of-date
\* copy had just brought one back (verifyStreaks writes its result).
RepairReachesCloud ==
    [][Snapshot /\ Len(due) = 1 => \A s \in Streaks : ~MustReset(cloud'[s], now)]_vars

\* A completion that was saved stays saved, until the streak is reset now: no
\* write of the Home tab itself goes back to an earlier number.  (Only for
\* instances with nothing but the Home tab and one snapshot due at most:
\* settings, post deletions, friends, uploads, hasty users and writes made before
\* the last one was delivered do overwrite completions.)
CompletionsSurvive ==
    [][\A s \in Streaks :
           \/ cloud'[s].streakNumber >= cloud[s].streakNumber
           \/ cloud'[s].streakNumber = 0 /\ cloud'[s].lastStreakUpdate = now]_vars

\* The writes of verifyStreaks, which are themselves delivered as snapshots to
\* verifyStreaks, come to an end when nothing else writes.
VerificationSettles ==
    <>[][Snapshot \/ UNCHANGED due]_vars => <>[](due = <<>>)

\* After a launch an expired streak in the document is reset in the end.
ExpiredIsRepaired ==
    \A s \in Streaks :
        (ref["home"] = 0 /\ StreakExpired(cloud[s], now))
            ~> ~StreakExpired(cloud[s], now)

\* StreakSubscription.swift:82, "if streakExpired() is true, then resetStreak()
\* must be called": no expired streak is counted further.
ExpiredMustBeReset ==
    [][\A s \in Streaks :
           completed'[s] # completed[s] => ~StreakExpired(heap[ref["view"]][s], now)]_vars

\* AddStreakVC.swift:214, "Changing the reminder days will reset your streak":
\* an edit that changes the days of the subscription leaves the number at 0,
\* although what is compared are the days of the StreakInfo.
EditedDaysReset ==
    [][\A days \in DaySets :
           (SaveEdit(days) /\ heap[ref["view"]][nav.streak].reminderDays # days)
               => heap'[ref["view"]][nav.streak].streakNumber = 0]_vars
=============================================================================
