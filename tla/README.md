# Streakz in TLA+

Streakz is an iOS app (Swift, UIKit, Firestore; `src/Streakz/Streakz`) in which a
user keeps *streaks*: things to do on certain days of the week, counted for as
long as no such day is missed.  There is no server code: every device reads and
writes whole Firestore documents, and all the logic of the application runs in
the callbacks of the view controllers.  `src/Streakz/Pods` is vendored; of it the
Firestore client is modelled, as the application's every step relies on what it
promises.

This directory models that logic in TLA+, checks it with TLC on small instances
and proves its safety properties with TLAPS for all instances.

## The system

| Component | State | Operations | Talks to |
|---|---|---|---|
| Streak calendar (`StreakSubscription`) | `streakNumber`, `lastStreakUpdate`, `reminderDays` | `completeStreak`, `resetStreak`, `streakExpired`, `nextDeadline`, `canBeCompletedToday` | the device's clock |
| Home tab (`HomeVC`) | `userProfile`, the sections, a snapshot listener | decode and verify each snapshot, search, unsubscribe, open a streak | profile document; hands its object to the screens |
| Streak screen and posting (`ViewStreakVC`, `CompleteStreakVC`) | the profile object and subscription handed over; the state of the button | mark done, post with or without a picture | completes the shared object, writes the profile |
| Add and edit (`AddStreakVC`) | the object handed over, the `StreakInfo` loaded | create, edit (reset when the days change) | writes StreakInfo and profile |
| Settings, own profile (`SettingsVC`, `ProfileVC`) | a copy of `cur_user_profile` | save names and reminder, delete a post | write the profile |
| Session (`LoginViewController`, sign-up, password) | `cur_user_email`, `cur_user_collection`, `cur_user_profile`, its listener | sign in (three ways), sign out | everything reads these globals |
| Notifications (`LoginViewController.setupNotifications`) | pending notifications | rebuilt on every snapshot of the profile | calendar |
| Friend requests (`SearchFriendsViewController`, `OtherProfileVC`, `FriendRequestsVC`) | profiles of other users as loaded | send, cancel, accept, decline | write the own profile and the other user's |
| Friends' feed and lists (`FriendsVC`, `FriendsListVC`, `FriendInfoVC`) | lists being loaded | load, refresh | read friends' profiles |
| Shared streaks (`ViewPublicStreakVC`, unsubscribing in `HomeVC`) | the StreakInfo handed over | subscribe, unsubscribe | StreakInfo documents and the profile |
| Discover (`DiscoverVC`) | three sections, several listeners | load, search | StreakInfo documents |
| App shell | none | start-up, tab bar, date formats | |
| Firestore client (`Pods/FirebaseFirestore`: `SyncEngine`, `RemoteStore`, `LocalStore`, `View`) | per user a persisted mutation queue; the document cache; the write pipeline; two streams; callbacks | `setData`, listeners, streams that break, restart of the network, change of user | everything above; the server |

What is hard: nothing here is threaded (callbacks run one at a time on the main
queue), but every write replaces a whole document with a copy read earlier.
There are many copies - the document, the snapshots not delivered yet, HomeVC's
object, the older objects the pushed screens share, the second listener's
`cur_user_profile`, the settings screen's, the ones in other users' apps - and
they are changed in memory before, and sometimes long before, they are saved.
Midnight may pass between any two steps, uploads end whenever they like, and the
app may be killed.  Signing out leaves the screens and one listener of the old
session alive, and the globals that name the document to write to keep naming the
old one.  Below all of this a write may be sent twice, answered late or never, and
be seen over one stream before or after it is acknowledged over the other.

Per component, what makes it correct:

- *Calendar*: the number is the number of different reminder days done since the
  last reset, none missed in between; a streak expires exactly when a reminder
  day ended undone; the deadline shown is that of the next reminder day.
- *Home tab, screens, settings*: no interleaving of copies counts a day twice;
  an expired streak does not survive in the document; the copies agree with it
  once all snapshots are delivered; verification does not feed on itself.
- *Editing*: changing the days resets the streak.
- *Friend requests*: nobody becomes a friend without having asked or accepted,
  friendship is mutual, nothing else of the other's profile is lost.
- *Shared streaks*: the subscribers' list and the profiles agree.
- *Session*: nobody's profile comes to be in another user's document; the tabs
  work on the document of who is signed in; no profile is replaced by an empty one.
- *Discover, feed*: nobody missing, each entry once, no row read that is not there.
- *Notifications*: on a day the application runs, exactly the reminders wanted are
  still to come.
- *Firestore client*: answers meet the writes they are for, no write is lost or
  misreported, and what a device shows is its newest pending write or else the
  newest version it has seen.

## Modules

| Module | What it is |
|---|---|
| `StreakCalendar` | `StreakSubscription.swift` as operators. A date is a day and a tick of the day; `reminderDays` is the set of selected weekdays. No variables. |
| `StreakCalendar_proofs` | Theorems about those operators. |
| `StreakRule` | What one streak promises: one copy, completed when the button says so, reset before it is completed when expired. |
| `StreakRule_proofs` | The promise, expiry and the deadline shown, proved; that a streak with reminders keeps the promise, and that the reminders are right. |
| `Reminders` | `StreakRule` with the notifications asked for; every step is one of the rule's or leaves the streak alone. |
| `MCStreakRule` | `Reminders` for all 127 sets of reminder days. |
| `StreakLifecycle` | One user's streaks on one device with every holder of a copy of the profile. |
| `MCStreakLifecycle` | The reminder days of the instances. |
| `StreakLifecycle_proofs` | Type correctness, no day counted twice, agreement of the copies, repair, and that completions survive and edited days reset on a Home tab on its own, proved. |
| `FriendRequests` | Friends and requests of some users, each with a device, the profiles it loaded and the writes it has under way. |
| `MCFriendRequests` | The symmetry of the users. |
| `FriendRequests_proofs` | Type correctness and consent, that the own profile stays the saved one, and that friendship is mutual in the calm, proved. |
| `SharedStreaks` | Public streaks, their lists of subscribers and the users' subscriptions: created, searched, subscribed to and unsubscribed from on several devices. |
| `MCSharedStreaks` | Streaks of different names; the symmetry of the users. |
| `SharedStreaks_proofs` | Type correctness, that nobody is subscribed unasked, that a streak keeps its owner, and that the two records agree, proved. |
| `Session`, `MCSession` | Signing in (three ways), up and out, with the listeners, questions and uploads that outlive a session. |
| `Session_proofs` | Whose profile is where, and that none in use is replaced, proved. |
| `Lists`, `MCLists` | The feed, the lists of friends and of requests, and Discover: arrays filled by several callbacks, and the rows of their tables. |
| `Lists_proofs` | That nobody is missing or there twice, and that the rows exist, proved. |
| `DocumentStore` | What `setData` and a listener promise: the abstract specification of the Firestore client. |
| `FirestoreClient`, `MCFirestoreClient` | The client for one document, several devices and users, and its server. |
| `FirestoreClient_proofs` | Its invariants and that it implements `DocumentStore`, proved. |

`StreakRule` and `StreakLifecycle` both extend `StreakCalendar`.  `StreakRule` is
the abstract view and deliberately not a refinement target of `StreakLifecycle`:
the screens complete expired streaks (see *Findings*), which the rule forbids.

`FirestoreClient` implements `DocumentStore` with the mapping at the end of the
module: `Pending` are the writes in the mutation queues, `SeenVersion` the cached
version, `ShownWrite` the write the View last gave its listeners; the server's
log and the user are the same in both.  `DocumentStore` is what the other modules
take `setData` and `addSnapshotListener` to be: a write is shown on the device at
once, writes of a device reach the server in their order, a listener is given the
newest pending write or else a version that never goes back.  `StreakLifecycle`
uses the device's side of that promise (`cloud`, `due`), `FriendRequests` both
sides (`View`, `out`, `server`).  No module puts the application on top of
`FirestoreClient` itself: the product of the two has too many states, and the
promise is what the refinement is for.

### StreakLifecycle, variable by variable

| TLA+ | Code |
|---|---|
| `now` | `Date()` |
| `cloud` | the profile document, as Firestore's cache on the device shows it: local writes count at once, acknowledged or not |
| `streakInfo` | `reminderDays` of the documents in `private_streaks` |
| `due` | snapshots raised and not delivered to the listeners yet |
| `heap`, `ref` | `Profile` objects, which Swift shares by reference: `HomeVC.userProfile`, `curUserProfile` of the screens pushed on it, and of a `CompleteStreakVC` whose upload goes on |
| `cur` | `cur_user_profile` (its listener, LoginViewController.swift:310) |
| `kept` | `SettingsVC.userProfile`; the profile a friend's app has loaded (`ProfileContainer`) |
| `nav` | the screen on top of the Home tab, the button's state, the loaded StreakInfo |
| `completed` | history: the days `completeStreak` counted |

One action is one callback on the main queue.  `Snapshot` is both listeners with
`verifyStreaks` and its write; `PostStreak` is `postStreakPressed` without a
picture, `PostStreakWithImage` and `ImageUploaded` its two halves with one;
`SaveEdit` is `addStreakPressed` while editing, with the alert answered "Yes";
`Pop` is the back button and the pop that follows an acknowledged write.
`setData` is external: it replaces the document and raises one snapshot.  A
failed write does not occur (Firestore retries until the server answers, see
`FirestoreClient`); a write that is never acknowledged is a `Pop` that never comes.

Dropped from a profile: names, friends, posts.  A write that changes only those
is "touched", which still raises a snapshot.  All streaks are private and exist
from the start.

### FriendRequests, variable by variable

| TLA+ | Code |
|---|---|
| `server` | the profile documents: `friends` and `friendRequests` |
| `out` | per device, `setData` calls the server has not got yet, in order |
| `due` | users whose `cur_user_profile` listener is due a snapshot |
| `me` | per device, `cur_user_profile`, changed in place |
| `screen` | per device, the `ProfileContainer` on the screen and what its buttons stand for |
| `history` | history: who asked whom, who tapped Accept, and whether that failed |
| `racing` | chosen at the start: whether users act on data that is out of date |

`Open` is the search screen's list, `OtherProfileVC` and the friends' lists;
`OpenRequest` is a row of `FriendRequestsVC`, which offers Accept whatever the
loaded profile says.  The same four operations are in two view controllers each
and differ only in what is refreshed afterwards: `UpdateFriendStatus` or another
`Open`.  `Accept` and `AcceptFails` are the two outcomes of one handler.  A
profile changed in place stays on the screen.  One container per device is
modelled; screens kept under others, with older containers, are not.  The two
arrays are bags, as only membership, `append` and removal of the first match are
used.  In the behaviours where `racing` is FALSE users act only when every device
is up to date; nothing in the code enforces that, and it is how the application is
meant to be used.

### SharedStreaks, variable by variable

| TLA+ | Code |
|---|---|
| `infos` | the documents of `public_streaks`: `owner` and `subscribers` |
| `profiles` | `subscribedStreaks` of the profile documents, of HomeVC's `userProfile` and of `cur_user_profile` |
| `sections` | `HomeVC.sections`, which a search reduces |
| `adding` | `AddStreakVC.curUserProfile`, the object HomeVC had when the screen was opened |
| `screen` | `ViewPublicStreakVC`: the StreakInfo object from Discover, the button, the queries under way |
| `leaving` | streaks unsubscribed from, whose StreakInfo is being fetched or has been |
| `chosen` | history: who created or subscribed to a streak of which name |

`Subscribe` is `subscribeToStreak` up to its query, `QueryReturns` the closure;
`Unsubscribe`, `FetchLeft` and `RemoveLeft` are the handler in `HomeVC` up to
`getDocument`, the moment the server answers, and the closure.  The writes of a
closure are one step.  One user is one device.  A write reaches the server at
once and the listeners of the own profile and of Discover run before the next
tap (what happens otherwise to the profile's copies is in `StreakLifecycle` and
`FriendRequests`); the copies kept are those the code keeps.  A user waits for an
answer before leaving `ViewPublicStreakVC`.  An object left over from a failed
query, in which the user is already a subscriber, is not opened again.

`orderly` is chosen in the beginning: in half of the behaviours one user acts at
a time, on current data, without search, failures or restarts, as the
application is meant to be used; in the others anything goes.

### Session, variable by variable

| TLA+ | Code |
|---|---|
| `docs`, `registered` | the profile documents: whose profile each holds and whether it is new, in use, or has an expired streak; the e-mail accounts |
| `tokens`, `googleUser` | who is signed in, as the three libraries keep it across launches; GIDSignIn's `currentUser` |
| `cur` | `cur_user_email` and `cur_user_collection` |
| `profile`, `listener` | `cur_user_profile` and its listener |
| `home`, `ghosts` | the HomeVC of the tabs; the HomeVCs of earlier sessions, below the new login screen, whose listeners nobody removed |
| `due` | the listeners due a snapshot |
| `requests`, `checks` | questions to Facebook, and "does this profile exist", under way |
| `upload`, `screen` | the profile an upload will save; the screen on top |
| `restarts`, `slips` | how often the app was killed; what may go wrong in this behaviour |

`Prepare` is `prepare(for:sender:)` of `LoginViewController`, which runs for every
segue; `EmailSignIn`, `GoogleSignIn`, `FacebookTap` with `GraphAnswers` and
`CheckDone` are the three ways in; `GhostSnapshot` is `verifyStreaks` in a HomeVC
out of sight.  `slips` names what the properties exclude, so that it is excluded
by name: *upload* (signing out during one) and *midnight* (a streak of the old
session expires) make `OwnDocument` fail, *password* makes `SavesOwnProfile` fail,
*offline* (a question fails) lets an existing profile be replaced.  Users wait for
the answers of a sign-in before they sign out.

### Lists, variable by variable

| TLA+ | Code |
|---|---|
| `array` | `streakPosts`, `friends`, `requestedFriends`, `publicStreakz[0]` |
| `filtered`, `text`, `rows` | what a search leaves of it; the search; the number of rows the table was last told |
| `public` | the other two sections of Discover |
| `loads`, `listed`, `fresh` | the loads under way (`DispatchGroup`); the people asked for, and history: their documents then |
| `batches`, `due` | Discover's queries of ten owners each and its listeners due a snapshot |
| `circle`, `docs` | `cur_user_profile.friends` or `.friendRequests`; the others' documents |
| `screen`, `started`, `calm`, `failing` | which screen it is; how often it was loaded; whether loads never overlapped; whether a question may fail |

`Appear` is `viewWillAppear` and the refreshes, `Answered` the closure of one
`getDocument`, `Notify` that of the group.  The profile a closure of Discover
captured can be changed in place by Accept before the next snapshot replaces it;
that is left out.

### Reminders

`pending` are the notifications asked for, `due` whether the profile's listener is
due a snapshot, `heard` whether one came today.  `Snapshot` is
`setupNotifications`: everything pending is removed and asked for anew.  A
trigger names an hour and a minute, so one asked for after that time fires the
next day, whether or not that is a day of the streak, unless the application runs
before; the property is about days on which it runs.

### FirestoreClient, variable by variable

| TLA+ | Code |
|---|---|
| `log` | the server: the writes that made the versions of the document |
| `queue`, `nextId` | per user the persisted mutation queue and its `next_batch_id_` |
| `cache` | the remote document cache: version, and whether it has committed mutations |
| `callbacks`, `told` | `SyncEngine`'s `mutation_callbacks_`; history: what they were told |
| `view` | the document the `View` last gave its listeners |
| `pipeline`, `stream`, `requests`, `answers` | `RemoteStore`'s `write_pipeline_`, the write stream, what is under way on it in both directions |
| `watch` | the watch stream and the version on its way |
| `user`, `issued`, `failures` | `current_user_`; history: writes made; failures so far |

Everything in the client runs on one worker queue, so one action is one callback
of it.  `FillWritePipeline` is part of each action that calls it.  A stream that
breaks loses what is under way in both directions; the pipeline is sent again,
and a write may become a version twice (`log` then holds it twice).

## Runs

| Run | Question | Instance |
|---|---|---|
| `rule` | Is the number a streak, is expiry neither early nor late, are the reminders of the day right? | all 127 sets of days, started on a Sunday or a Thursday, to day 9 |
| `uploads` | Late uploads, restarts, hasty taps: is a day counted twice, do the copies agree, does verification come to rest, is an expired streak repaired after a launch? | one streak, every day, three days, two snapshots due |
| `settings` | Settings, deleted posts, a friend's stale write: do the copies agree, does the repair reach the document? | one streak, every day, three days |
| `alone` | With edits of the days: does saving one streak take back another's completion; does changing the days reset the streak? | two streaks, two plans, three days, edits and restarts |
| `friends` | Can a friendship or a request appear that nobody made; is the own profile the saved one; is friendship mutual in the calm? | two users, racing or not |
| `shared` | Is anybody subscribed to what the user did not choose; does a streak keep its owner; do the two records of a subscription agree when users act in order? | two users, two streaks of different names |
| `session` | Whose profile is in whose document, whatever the order of signing in and out; is a profile ever erased; does a Google user get one? | an account of each kind, one restart |
| `lists` | Is anybody missing, twice, or read from a row that is not there? | the four screens, two people, two loads, one change each |
| `firestore` | Does the client keep its promise; are answers, callbacks and writes matched; does everything settle? | two devices, two users on one of them, three writes, one refused, one failure |
| `expired`, `unsubscribe_searched`, `session_mixed` | violated, see *Findings* | |

Bounds.  `TicksPerDay = 2`: midnight and "later", which is all the code can tell
apart (`<` at midnight, same day).  `LastDay = 2` for an every-day streak is long
enough to complete on day 0, miss day 1 and expire on day 2; `LastDay = 9` in
`rule` covers a week's gap between two completions for every set of days.
`MaxQueue` bounds writes, not deliveries.  `Features` splits the sources of
stale copies over the runs, as together they are too many states: pictures in
`uploads`, with two snapshots due; settings, deleted posts and the friend in
`settings`, with one; edits in `alone`.  The proofs of `NumberBounded`,
`AgreesWhenQuiet` and `RepairReachesCloud` cover them together.  `Times` are both
ticks of a day: a reminder at midnight and one later.
The clock stops at the bound, hence `CHECK_DEADLOCK FALSE`; in `FriendRequests`
the bounds on arrays and writes stop the users.

`FriendRequests`: `MaxQueue = 2` is what `Accept` needs, and lets its two writes
be apart; `MaxTogether = 3` lets the other device write meanwhile; `MaxCopies = 1`
leaves out a request sent twice.  All four properties are proved without these
bounds.  Users are interchangeable (`SYMMETRY`): every
property of these runs speaks of one state or one step and of all users alike.

`SharedStreaks`: two users and two streaks are what one needs to overwrite the
other's subscription or streak.  `MaxUnderWay = 2` lets two screens or
departures overlap, on one device or two.  In `shared`, `MaxCopies = 1` leaves
out tapping Subscribe twice, which the proofs cover.

`FirestoreClient`: `MaxPending = 1` (the code's is 10) makes the pipeline full
while the queue holds more; three writes, the second refused, put one before and
one after it; one failure is a broken stream, a restart or a change of user at any
moment; the second device writes in between.  Only the liveness needs these
bounds: all invariants and the refinement are proved for any number of each.

`Session`: one account of each kind is enough for every pair of ways to sign in
to follow one another; `MaxRestarts = 1` restores a session from its tokens.  In
`session_mixed` the slip is *password* and nothing is killed.

`Lists`: three owners and `BatchSize = 2` make two batches, the second of them not
full, in whatever order the owners come; two loads can overlap; one change of a
document falls before or after a load.  Its invariants are proved without these
bounds, and so are those of `Session`.

`alone` is the one run whose properties need its bounds (`HomeTabAlone`): with two snapshots due
at once (`MaxQueue = 2`) `verifyStreaks` may save an older snapshot over a newer
completion, and with settings, friends, deleted posts or uploads a stale copy
does so any time.  These losses follow from whole-document writes; the code has
no defence against them, and the properties are stated for the Home tab by itself.

Fairness.  `StreakLifecycle`: weak fairness of `Snapshot` only.  Firestore delivers
every raised snapshot; no user has to tap and no clock has to go on.
`FirestoreClient`: closed streams are opened again (they are restarted whenever
there is something to send or listen to), the server answers what it has read and
pushes newer versions, and what has arrived is handled; no user has to write and
nothing has to fail or to idle.  `Session`: the libraries restore a signed-in
Google user at launch (`restorePreviousSignIn`), questions are answered, with or
without success, and closures run; nobody has to sign in.

A definition commented "Mutant" is a plausible bug of the definition below it.
Swapping it in makes TLC refute the property it is listed for in `PROJECT.json`.

## Findings

- `expired`: StreakSubscription.swift:82 demands that an expired streak be reset.
  A streak whose screen is open over the deadline is completed instead: nothing
  between ViewStreakVC.swift:65 and CompleteStreakVC.swift:68 asks
  `streakExpired`, and the completion makes it look unexpired from then on.
- `unsubscribe_searched`: HomeVC.swift:157 removes one streak, but the profile is
  rebuilt from what a search left on the screen, and the others are gone.

- `session_mixed`: after signing out, "Create account" runs `prepare(for:sender:)`
  (LoginViewController.swift:250), which listens again to the document
  `cur_user_email` still names.  The next sign-in changes that name at once and
  `cur_user_profile` only with its first snapshot; a save in between writes the
  old user's profile to the new user's document.

Further behaviour that the models show and the properties name as an exception:

- When the request is gone, Accept shows "We ran into issues"
  (FriendRequestsVC.swift:138) and leaves the friend in `cur_user_profile` (line
  103); the next save makes it a friend.  `OwnProfileIsCurrent` excepts it by the
  event "failed".
- The streak to subscribe to is looked up by name (ViewPublicStreakVC.swift:165),
  and the object opened is written over every one found: another streak of the
  name changes its owner.  `OwnerIsKept` holds, and is proved, for streaks of
  different names.
- An upload that ends in another user's session, and the HomeVC of an earlier
  session when one of its streaks expires, save to the new user's document
  (CompleteStreakVC.swift:117, HomeVC.swift:247).  `OwnDocument` is about behaviours
  without these slips.
- A `getDocument` that fails counts as "New google user"
  (LoginViewController.swift:162), and an existing profile is replaced.
- An e-mail or Facebook user whose app is killed between the account and the
  profile stays without one; `ProfileArrives` is about Google users, for whom it
  is looked for at every sign-in.
- The feed's array is emptied without reloading its table (FriendsVC.swift:67), so
  a row that scrolls into view meanwhile is read beyond the end; a friend request
  whose document is gone is unwrapped (FriendRequestsVC.swift:50) and ends the
  application ("crashed" in `Lists`).

Whole-document writes lose what somebody else wrote in between: a friend added by
Accept, a subscriber, the days of an edited subscription.  These are known and
have no run of their own; `MutualWhenCalm`, `RecordsAgree` and `EditedDaysReset`
are therefore checked for users who act in order, or for the Home tab by itself.

## Proofs

| Theorem | Says |
|---|---|
| `DeadlineEndsNextReminderDay` | `nextDeadlineFromDate` is the midnight ending the first reminder day from the date on (or after it), for every set of days and date |
| `RuleTypeCorrect`, `RuleNumberCountsDays`, `RuleNoMissedDay` | the promise of a streak, for every set of sets of days, start, bound and number of ticks |
| `RuleExpiredOnlyIfMissed`, `RuleMissedIsExpired` | a running streak is expired exactly when a reminder day ended undone after its last update |
| `RuleDeadlineIsNextReminderDay` | the deadline shown is the midnight ending the next reminder day to do it on |
| `RemindersKeepRule`, `RemindersStayRight` | a streak with reminders is a streak; the reminders of the day are those wanted |
| `LifecycleTypeCorrect` | type correctness of the lifecycle |
| `LifecycleNumberBounded` | no copy of a profile ever counts a day twice, for any number of streaks, features, days and snapshots due |
| `LifecycleAgreesWhenQuiet` | with every snapshot delivered, HomeVC and `cur_user_profile` show the document |
| `LifecycleRepairReachesCloud` | after the last snapshot due, no streak of the document has to be reset |
| `LifecycleVerificationProgress` | every snapshot delivered leaves fewer to deliver, or as many and fewer that `verifyStreaks` will answer with a write |
| `LifecycleCompletionsSurvive`, `LifecycleEditedDaysReset` | on a Home tab on its own (`HomeTabAlone`), no saved completion is taken back but by a reset, and changing the days of a subscription resets it: for any streaks, plans and length of time |
| `FriendsTypeCorrect`, `FriendsConsent` | in no copy of a profile is there a friend or a request that the two users did not make, for any users, bounds and delays |
| `OwnProfileStaysCurrent` | with its snapshots delivered, the own profile is the document as the device knows it, but for a failed Accept |
| `MutualInTheCalm` | friendship is mutual and single, and leaves no request, among users who act on what is up to date |
| `SharedTypeCorrect`, `SharedOnlyChosen` | in no copy of a profile or a StreakInfo is anybody subscribed to a streak of a name the user neither created nor subscribed to, for any users, streaks, names and bounds |
| `SharedOwnerIsKept` | streaks of different names keep their owners |
| `SharedRecordsAgree` | for streaks of different names and users who act in order, profiles and lists of subscribers agree when nothing is under way |
| `FirestoreTypeCorrect`, `AnswersAlwaysMatch`, `AlwaysToldTheTruth`, `NothingEverLost` | the client's invariants, for any devices, users, writes, failures and size of the pipeline |
| `FirestoreImplements` | the client implements `DocumentStore` |
| `SessionTypeCorrect` | type correctness of sessions, for any accounts, slips and number of launches |
| `SessionInTheirDocument`, `SessionNothingErased` | the tabs are about who is signed in, and no profile in use is replaced by a new one, whatever goes wrong but unanswered questions |
| `SessionOwnDocument` | without slips nobody's profile comes to be in another user's document |
| `ListsTypeCorrect`, `ListsRowsExist` | the tables ask for no row that is not there, but for the feed while it loads |
| `ListsNobodyMissing`, `ListsEachOnce` | once all is answered nobody is missing or stale; nobody is there twice unless loads overlapped: for any number of people, loads and changes and any size of a batch |

Assumptions: the named `ASSUME`s of the modules (at least two ticks a day, no
empty set of reminder days, accounts of three kinds that do not overlap, finitely
many people), which TLC evaluates in every run.  Four theorems have a hypothesis on
the constants besides: `NamesDiffer`, that no two public streaks share a name, and
`HomeTabAlone`, that nobody but the Home tab writes and one write is delivered
before the next is made.  The runs `shared` and `alone` are instances of them.

`DeadlineEndsNextReminderDay` goes through the loop of `nextDeadlineFromDate`
(`LoopFindsFirstReminderDay`: going round the week from weekday *w* it stops at
the weekday of the first reminder day) and the uniqueness of a weekday within
seven days.  `RuleNoMissedDay` uses it: an unexpired streak has no missed day
between its last update and today, so completing keeps the run without gaps;
the invariant adds that the last update of a running streak is in the run and is
not in the future.  The two theorems on expiry and the one on the deadline follow
from the same invariant and the theorem on `nextDeadlineFromDate`.
`RemindersStayRight` is inductive with the rule's invariant; `RemindersKeepRule`
maps every step to one of the rule's or a stutter.

For `LifecycleNumberBounded` the invariant says of every
copy - document, snapshots due, objects, `cur`, `kept` - that its number is at
most the number of completed days up to its last update and that the last update
is not in the future.  A stale copy satisfies it for ever, as days are only
added; completing adds a day after the last update, because
`canBeCompletedToday` excludes the same day.

For `LifecycleAgreesWhenQuiet` the invariant adds that the last snapshot due is the
document, and that HomeVC has a profile once none is due.  Every write keeps that,
since it makes a document and its last snapshot at once or changes nothing; the
last delivery then hands over the document itself, as a profile in which nothing
has to be reset is left as it is.  The same invariant gives
`LifecycleRepairReachesCloud`: what the last delivery verifies is the document, and
a reset subscription need not be reset again.

For `FriendsConsent` the invariant says of every place a profile can be -
document, write under way, `cur_user_profile`, screen - that it holds one of the
profiles the history allows (`TrueProfile`).  That set only grows, so moving or
writing back an old copy keeps it; each operation adds at most one entry, and
records the event that allows it.  A screen offering Accept must itself be
justified by a request, which is part of the invariant.

`OwnProfileStaysCurrent` and `MutualInTheCalm` need more than that shape, as they
relate copies.  For the own profile: what a device sees of its own document is
`cur_user_profile`, or a snapshot is due, or a failed Accept is on record; another
device's write reaching the server raises a snapshot, and does not change what a
device with writes of its own under way sees (`ViewTail`).  For mutuality: in the
calm at most one device has writes under way, all devices without are up to date,
and what the writing device sees - the documents with its writes on top - is
mutual; it starts from mutual documents, each operation on current data keeps
that (one lemma per operation), and delivery does not change it.

`SharedOnlyChosen` has the shape of `FriendsConsent`.  Its invariant adds that a query is under
way only for a name the user chose; writing one object over all streaks of that
name then lists only users who chose the name, which is why the property is
about names and not about streaks.  `SharedOwnerIsKept` has the streaks' names
different as a hypothesis; its invariant says of every object on a screen and in a
closure that it has the owner of the document it was read from.

`SharedRecordsAgree` has that hypothesis too.  Its invariant, for users who act in
order, says that one thing is under way at a time, that a user is in the list of
subscribers as often as in the profile - once more while leaving, since the list
is written after the profile - and that a query under way will write the
document with its user added.

For `FirestoreClient` the invariant says that a device's pipeline is the beginning
of its user's queue, that answers and requests together are in step with the
pipeline (all of it while the stream is ready, none otherwise), that batch ids
ascend along a queue and lie below the next one, that callbacks are only stored
for batches still queued, and that every write waits in its user's queue, was
committed, or was refused.  From this follows that the head of the pipeline is the
write an answer is for, and each step of the client is one of `DocumentStore`'s: a
result settles the oldest pending write, a version that arrives is learned,
everything on the streams but a commit is a stutter.

For `LifecycleCompletionsSurvive` the invariant (`AloneInv`) says that at most one
snapshot is due, so that `verifyStreaks` always looks at the document itself, and
compares the screen's object with the document: an older object may still hold a
streak that verification has reset since, but its number is then the larger one, so
saving it takes nothing back.  `LifecycleEditedDaysReset` needs that the days of a
streak are the same in four places - its StreakInfo, the document, the screen's
object, and what the edit screen has loaded - as the edit screen compares the days
picked with those of the StreakInfo, not with those of the subscription it saves.
Both parts of the hypothesis are needed: with pictures, or with two snapshots due at
once, TLC refutes both properties.

For `Session` the invariant says, when questions are answered, how a session comes
about (`InSteps`): at most one library has a user; a question under way is about the
user that library has, and there is one at a time; on each screen it is fixed who is
current and which document is listened to.  `SessionNothingErased` needs besides
that every copy of a profile - stored, shown or being uploaded - belongs to
somebody who has a document, so that who is found to have none has no copy anywhere
that could be stored in between.  Both theorems except only *offline*, as a
`getDocument` that fails does replace a profile.  `SessionOwnDocument` adds, in a
session without any slip, that every copy is where it belongs.

For `Lists` the invariant says that the rows were counted after the last change of
what the table shows, that what the last load asked for is in the array or still to
come, that a load which does not overlap another lists each person once, and that
the batches of Discover cover its owners (`BatchesCover`, for any size of a batch
and any order of the owners).

Only model-checked: the liveness properties (`VerificationSettles`,
`ExpiredIsRepaired`, `WritesSettle`, `EveryoneSees`, `ProfileArrives`), which the
prover cannot handle.  `LifecycleVerificationProgress` is the safety half of
`VerificationSettles`: with the clock standing and nobody else writing, deliveries
come to an end, for any number of streaks and snapshots.  Every invariant and action property of a passing run is the
property of a theorem.

## Not modelled, and the plan

Order of work; each module comes with its MC module, runs and hazards.

1. *Done:* calendar, rule, lifecycle, and the proofs above.
2. *Done:* `FriendRequests`, with its four properties proved.
3. *Done:* `SharedStreaks`, with its properties proved.
4. *Done:* `Session`: three ways to sign in, signing out, listeners and screens that
   outlive the session.
5. *Done:* `Lists`: sections and lists filled by several callbacks.
6. *Done:* `Reminders` on the calendar.
7. *Done:* expiry, deadline and reminders proved; `FirestoreClient` and the promise it
   implements.
8. *Done:* the properties of `Session` and `Lists`, and `CompletionsSurvive` and
   `EditedDaysReset`, proved.
9. *Left:* the safety half of the other liveness properties, as
   `LifecycleVerificationProgress` is of `VerificationSettles`: steps that bring the
   end nearer, and that nothing takes back.

Left out for good:

- Layout, texts and pictures, date formats, the app shell (no state of the
  application), daylight saving and time zones (every day has the same ticks).
- A clock that is set back (HomeVC.swift:222): the number of a streak then means
  nothing, and no property of it is worth stating.
- A once-a-day counter refined by `StreakLifecycle`: expired streaks are completed
  and stale copies take completions back, so the lifecycle refines nothing simpler
  than `NumberBounded` says.
- Of the Firestore client: patches, transactions, queries over several documents,
  limbo resolution, existence filters, garbage collection, backoff.  The
  application replaces whole documents and listens to single ones; its queries
  (by name, by owner, all public streaks) are taken to answer with the documents.
- The other libraries under `Pods` (gRPC, BoringSSL, Abseil, LevelDB, sign-in,
  Storage, image picker): third-party code, nearly all of the repository's lines,
  that the application meets only in calls modelled where they are made.
