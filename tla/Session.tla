------------------------------ MODULE Session ------------------------------
(***************************************************************************)
(* Signing in and out: LoginViewController, SignUpViewController and       *)
(* ProfileVC's sign-out, with the listeners of LoginViewController and     *)
(* HomeVC and the writes they and the screens make.                        *)
(*                                                                         *)
(* Who is signed in is kept by three libraries.  The application copies it *)
(* into cur_user_email and cur_user_collection, which name the document    *)
(* every write goes to, when it leaves a LoginViewController.  Signing out *)
(* presents a new LoginViewController over the tabs: what is below stays   *)
(* alive, HomeVC's listener and uploads included, and the two globals keep *)
(* naming the old document.                                                *)
(*                                                                         *)
(* A profile is the user it is about and whether it is new, in use, or has *)
(* an expired streak for verifyStreaks to reset.  One device is modelled;  *)
(* the other ones make, use and change documents on their own.             *)
(*                                                                         *)
(* A definition marked "Mutant" is a plausible bug of the one below it; a  *)
(* property is shown to have teeth by swapping it in.                      *)
(***************************************************************************)
EXTENDS Naturals

CONSTANTS Email, Google, Facebook,   \* the accounts, by how one signs in
          None,
          Slips,                     \* sets of what may go wrong: see below
          MaxRestarts                \* bound: how often the app is killed

Accounts == Email \cup Google \cup Facebook
Profile == [of : Accounts, state : {"new", "used", "expired"}]

ASSUME SessionAssumption ==
    /\ Email \cap Google = {} /\ Email \cap Facebook = {} /\ Google \cap Facebook = {}
    /\ None \notin Accounts \cup Profile
    /\ Slips \subseteq SUBSET {"upload", "midnight", "password", "offline"}
    /\ MaxRestarts \in Nat

VARIABLES docs,         \* the profile documents
          registered,   \* who has an e-mail account
          tokens,       \* persisted: who is signed in with each library
          googleUser,   \* GIDSignIn's currentUser, in memory
          cur,          \* cur_user_email and cur_user_collection
          profile,      \* cur_user_profile
          listener,     \* cur_user_profile_listener
          home,         \* the HomeVC of the tabs: its document, its userProfile
          ghosts,       \* the documents earlier HomeVCs still listen to
          due,          \* the listeners due a snapshot
          requests,     \* questions to Facebook under way
          checks,       \* questions whether a profile exists under way
          upload,       \* the profile a picture is being uploaded for
          screen,       \* what is on top
          restarts,     \* how often the app was killed
          slips         \* what may go wrong in this behaviour

vars == <<docs, registered, tokens, googleUser, cur, profile, listener, home, ghosts,
          due, requests, checks, upload, screen, restarts, slips>>

\* "upload": the user signs out during an upload; "password": goes to the screen for
\* new users or a forgotten password after having signed out; "midnight": a streak
\* expires for a HomeVC that is out of sight; "offline": a question is not answered,
\* or the answer no longer holds.  Users always wait for answers before they enter
\* or leave a session.

NewProfile(a) == [of |-> a, state |-> "new"]
Used(p) == [p EXCEPT !.state = "used"]
NoHome == [doc |-> None, profile |-> None]
NoTokens == [email |-> None, google |-> None, facebook |-> None]
Exists(a) == docs[a] # None
Expired(a) == Exists(a) /\ docs[a].state = "expired"
Slip(what) == what \in slips

Listening ==
    {[by |-> "app", to |-> a] : a \in {listener} \ {None}}
    \cup {[by |-> "home", to |-> a] : a \in {home.doc} \ {None}}
    \cup {[by |-> "ghost", to |-> a] : a \in ghosts}

\* A listener is due a snapshot when it is added, and when its document changed.
DueAfter(delivered, added) ==
    due' = {l \in Listening' : \/ l \in added \cup (due \ delivered)
                               \/ l \notin Listening
                               \/ docs'[l.to] # docs[l.to]}

Hear == DueAfter({}, {})
Save(a, p) == docs' = [docs EXCEPT ![a] = p]

\* The presenting LoginViewController is no longer on top.
Covered(questions) == {[q EXCEPT !.here = FALSE] : q \in questions}

\* setCurUserEmailAndType, with this user of each library.
CurUser(email, google, current) ==
    IF email # None THEN email ELSE IF google # None THEN google ELSE current

\* Mutant: the listener is made before it is known who the user is.
PrepareProfileFirst(current) ==
    /\ cur' = CurUser(tokens'.email, googleUser', current)
    /\ listener' = current
    /\ UNCHANGED profile

\* prepare(for:sender:) of a LoginViewController, whatever the segue:
\* setCurUserEmailAndType and setCurUserProfile.  cur_user_profile stays.
Prepare(current) ==
    /\ cur' = CurUser(tokens'.email, googleUser', current)
    /\ listener' = cur'
    /\ UNCHANGED profile

\* The tabs come up with a HomeVC that listens to the current user's document.
ShowTabs ==
    /\ screen' = "tabs"
    /\ home' = [doc |-> cur', profile |-> None]

\* performSegue(SignInSegue): it is prepared; the tabs come up if this
\* LoginViewController is on top.
Leave(here, current) ==
    /\ Prepare(current)
    /\ IF here /\ screen = "login" THEN ShowTabs ELSE UNCHANGED <<home, screen>>

Added == {[by |-> "app", to |-> listener']}

\* viewDidAppear of a LoginViewController: a Facebook user is asked for again.
Asked == {[kind |-> "again", of |-> a, here |-> TRUE] : a \in {tokens.facebook} \ {None}}

-----------------------------------------------------------------------------
Init ==
    /\ docs = [a \in Accounts |-> None]
    /\ registered = {}
    /\ tokens = NoTokens /\ googleUser = None
    /\ cur = None /\ profile = None /\ listener = None
    /\ home = NoHome /\ ghosts = {} /\ due = {}
    /\ requests = {} /\ checks = {} /\ upload = None
    /\ screen = "login"
    /\ restarts = 0
    /\ slips \in Slips

\* GIDSignIn has a token and has not restored the user yet.
Restoring == tokens.google # None /\ googleUser = None

Answered == requests = {} /\ checks = {}
Settled == Answered /\ ~Restoring

\* The auth listener of viewDidLoad: an e-mail user has signed in, or was signed
\* in when the app was launched.
EmailSignIn(a) ==
    /\ screen = "login" /\ a \in registered /\ tokens.email \in {None, a}
    /\ Settled
    /\ tokens' = [tokens EXCEPT !.email = a]
    /\ UNCHANGED googleUser
    /\ Prepare(cur) /\ ShowTabs
    /\ requests' = Covered(requests) /\ checks' = Covered(checks)
    /\ UNCHANGED <<docs, registered, ghosts, upload, restarts, slips>>
    /\ DueAfter({}, Added)

\* SignUpViewController's createUser: the account is there, and the auth listener
\* of the LoginViewController below tries to leave its screen.
SignUp(a) ==
    /\ screen = "sign up" /\ a \notin registered
    /\ Settled
    /\ registered' = registered \cup {a}
    /\ tokens' = [tokens EXCEPT !.email = a]
    /\ UNCHANGED googleUser
    /\ Prepare(cur)
    /\ screen' = "signing up"
    /\ UNCHANGED <<docs, home, ghosts, requests, checks, upload, restarts, slips>>
    /\ DueAfter({}, Added)

\* Its completion: the profile is made.
CreateProfile ==
    /\ screen = "signing up"
    /\ Save(tokens.email, NewProfile(tokens.email))
    /\ UNCHANGED <<cur, profile, listener>>
    /\ ShowTabs
    /\ UNCHANGED <<registered, tokens, googleUser, ghosts, requests, checks, upload,
                   restarts, slips>>
    /\ Hear

\* Mutant: no question for a user who was signed in before.
GoogleSignInTrusting(a) ==
    /\ googleUser = None
    /\ (screen = "login" /\ tokens.email = None) \/ tokens.google = a
    /\ Answered
    /\ tokens' = [tokens EXCEPT !.google = a]
    /\ googleUser' = a
    /\ Leave(TRUE, cur)
    /\ requests' = Covered(requests)
    /\ checks' = Covered(checks) \cup
           {[of |-> g, answer |-> "asked", here |-> FALSE] : g \in {a} \ {tokens.google}}
    /\ UNCHANGED <<docs, registered, ghosts, upload, restarts, slips>>
    /\ DueAfter({}, Added)

\* sign(_:didSignInFor:withError:), after a tap or when restorePreviousSignIn is
\* done, whatever the screen then: the application is entered while it is asked
\* whether there is a profile.
GoogleSignIn(a) ==
    /\ googleUser = None
    /\ (screen = "login" /\ tokens.email = None) \/ tokens.google = a
    /\ Answered
    /\ tokens' = [tokens EXCEPT !.google = a]
    /\ googleUser' = a
    /\ Leave(TRUE, cur)
    /\ requests' = Covered(requests)
    /\ checks' = Covered(checks) \cup {[of |-> a, answer |-> "asked", here |-> FALSE]}
    /\ UNCHANGED <<docs, registered, ghosts, upload, restarts, slips>>
    /\ DueAfter({}, Added)

\* The Facebook button, once Facebook has let the user in.
FacebookTap(a) ==
    /\ screen = "login" /\ tokens.email = None
    /\ Settled
    /\ tokens' = [tokens EXCEPT !.facebook = a]
    /\ requests' = requests \cup {[kind |-> "tap", of |-> a, here |-> TRUE]}
    /\ UNCHANGED <<docs, registered, googleUser, cur, profile, listener, home, ghosts,
                   due, checks, upload, screen, restarts, slips>>

\* Facebook answers with the user's address: it is the current user from now on.
\* After a tap it is asked whether there is a profile; otherwise the application
\* is entered, but for an e-mail or Google user who is signed in first.
GraphAnswers(r) ==
    /\ r \in requests
    /\ IF r.kind = "tap"
       THEN /\ cur' = r.of
            /\ checks' = checks \cup {[of |-> r.of, answer |-> "asked", here |-> r.here]}
            /\ UNCHANGED <<tokens, googleUser, profile, listener, home, screen>>
       ELSE /\ UNCHANGED <<tokens, googleUser>>
            /\ Leave(r.here, r.of)
            /\ checks' = IF screen' # screen THEN Covered(checks) ELSE checks
    /\ requests' = IF screen' # screen THEN Covered(requests \ {r}) ELSE requests \ {r}
    /\ UNCHANGED <<docs, registered, ghosts, upload, restarts, slips>>
    /\ DueAfter({}, IF r.kind = "tap" THEN {} ELSE Added)

\* (An error is printed, and nothing else.)
GraphFails(r) ==
    /\ r \in requests /\ Slip("offline")
    /\ requests' = requests \ {r}
    /\ UNCHANGED <<docs, registered, tokens, googleUser, cur, profile, listener, home,
                   ghosts, due, checks, upload, screen, restarts, slips>>

\* getDocument: the server is asked, or not reached.
CheckAnswered(c) ==
    /\ c \in checks /\ c.answer = "asked"
    /\ \E found \in {Exists(c.of)} \cup {FALSE : x \in slips \cap {"offline"}} :
           checks' = (checks \ {c})
               \cup {[c EXCEPT !.answer = IF found THEN "found" ELSE "missing"]}
    /\ UNCHANGED <<docs, registered, tokens, googleUser, cur, profile, listener, home,
                   ghosts, due, requests, upload, screen, restarts, slips>>

\* Mutant: the profile is made whatever the answer.
CreateUnlessError(c) == Save(c.of, NewProfile(c.of))

CreateIfMissing(c) ==
    IF c.answer = "missing" THEN Save(c.of, NewProfile(c.of)) ELSE UNCHANGED docs

\* The closure of getDocument.  A Facebook user enters the application only now.
CheckDone(c) ==
    /\ c \in checks /\ c.answer # "asked"
    /\ CreateIfMissing(c)
    /\ IF c.of \in Google
       THEN UNCHANGED <<tokens, googleUser, cur, profile, listener, home, screen>>
       ELSE UNCHANGED <<tokens, googleUser>> /\ Leave(c.here, cur)
    /\ checks' = IF screen' # screen THEN Covered(checks \ {c}) ELSE checks \ {c}
    /\ requests' = IF screen' # screen THEN Covered(requests) ELSE requests
    /\ UNCHANGED <<registered, ghosts, upload, restarts, slips>>
    /\ DueAfter({}, IF c.of \in Google THEN {} ELSE Added)

\* "Create account" or "Forgot password": prepare(for:sender:) runs for these
\* segues too, and listens to whoever cur_user_email still names.
OtherScreen ==
    /\ screen = "login" /\ tokens.email = None
    /\ Settled /\ (Slip("password") \/ cur = None)
    /\ UNCHANGED <<tokens, googleUser>>
    /\ Prepare(cur)
    /\ screen' = "sign up"
    /\ requests' = Covered(requests) /\ checks' = Covered(checks)
    /\ UNCHANGED <<docs, registered, home, ghosts, upload, restarts, slips>>
    /\ IF cur' = None THEN UNCHANGED due ELSE DueAfter({}, Added)

\* Back to a new LoginViewController.
ReturnLogin ==
    /\ screen = "sign up"
    /\ screen' = "login"
    /\ requests' = requests \cup Asked
    /\ UNCHANGED <<docs, registered, tokens, googleUser, cur, profile, listener, home,
                   ghosts, due, checks, upload, restarts, slips>>

-----------------------------------------------------------------------------
\* The listener of cur_user_profile.
ProfileSnapshot ==
    LET l == [by |-> "app", to |-> listener]
    IN  /\ l \in due
        /\ profile' = IF Exists(listener) THEN docs[listener] ELSE profile
        /\ UNCHANGED <<docs, registered, tokens, googleUser, cur, listener, home, ghosts,
                       requests, checks, upload, screen, restarts, slips>>
        /\ DueAfter({l}, {})

\* verifyStreaks: a profile with an expired streak is reset and written to the
\* document of cur_user_email.
Verify(p) ==
    IF p # None /\ p.state = "expired" THEN Save(cur, Used(p)) ELSE UNCHANGED docs

\* HomeVC's listener.  (verifyStreaks resets userProfile in place.)
HomeSnapshot ==
    LET l == [by |-> "home", to |-> home.doc]
        p == docs[home.doc]
    IN  /\ l \in due
        /\ home' = IF p = None THEN home
                   ELSE [home EXCEPT !.profile = IF p.state = "expired" THEN Used(p) ELSE p]
        /\ Verify(p)
        /\ UNCHANGED <<registered, tokens, googleUser, cur, profile, listener, ghosts,
                       requests, checks, upload, screen, restarts, slips>>
        /\ DueAfter({l}, {})

\* The same of a HomeVC of an earlier session.
GhostSnapshot(a) ==
    LET l == [by |-> "ghost", to |-> a]
    IN  /\ l \in due
        /\ Verify(docs[a])
        /\ UNCHANGED <<registered, tokens, googleUser, cur, profile, listener, home, ghosts,
                       requests, checks, upload, screen, restarts, slips>>
        /\ DueAfter({l}, {})

\* SettingsVC, ProfileVC and FriendRequestsVC save cur_user_profile.
SaveProfile ==
    /\ screen = "tabs" /\ profile # None
    /\ Save(cur, Used(profile))
    /\ profile' = Used(profile)
    /\ UNCHANGED <<registered, tokens, googleUser, cur, listener, home, ghosts,
                   requests, checks, upload, screen, restarts, slips>>
    /\ Hear

\* HomeVC and the screens pushed on it save userProfile.
SaveHome ==
    /\ screen = "tabs" /\ home.profile # None
    /\ Save(cur, Used(home.profile))
    /\ home' = [home EXCEPT !.profile = Used(@)]
    /\ UNCHANGED <<registered, tokens, googleUser, cur, profile, listener, ghosts,
                   requests, checks, upload, screen, restarts, slips>>
    /\ Hear

\* CompleteStreakVC uploads a picture ...
StartUpload ==
    /\ screen = "tabs" /\ home.profile # None /\ upload = None
    /\ upload' = Used(home.profile)
    /\ UNCHANGED <<docs, registered, tokens, googleUser, cur, profile, listener, home,
                   ghosts, due, requests, checks, screen, restarts, slips>>

\* ... and writes the profile to the current user's document when that has ended.
Uploaded ==
    /\ upload # None
    /\ Save(cur, upload)
    /\ upload' = None
    /\ UNCHANGED <<registered, tokens, googleUser, cur, profile, listener, home, ghosts,
                   requests, checks, screen, restarts, slips>>
    /\ Hear

\* Nobody is signed in any more.  HomeVC stays where it is, under the new
\* LoginViewController, and so do cur_user_email and cur_user_collection.
EndSession ==
    /\ screen = "tabs" /\ Settled
    /\ Slip("upload") \/ upload = None
    /\ Slip("midnight") \/ ~Expired(home.doc)
    /\ tokens' = NoTokens /\ googleUser' = None
    /\ listener' = None
    /\ ghosts' = ghosts \cup {home.doc} /\ home' = NoHome
    /\ screen' = "login"
    /\ UNCHANGED <<docs, registered, cur, requests, checks, upload, restarts, slips>>

\* What HomeVC's listener is due the same listener, now out of sight, is due.
StillDue ==
    due' = {l \in Listening' : l \in due \/ (l.by = "ghost" /\ [l EXCEPT !.by = "home"] \in due)}

\* Mutant: the listener is forgotten and not removed.
SignOutListens == EndSession /\ profile' = None /\ UNCHANGED due

\* Mutant: cur_user_profile is kept.
SignOutKeepsProfile == EndSession /\ UNCHANGED profile /\ StillDue

\* ProfileVC's prepare(for:sender:) for SignOutSegue.
SignOut == EndSession /\ profile' = None /\ StillDue

-----------------------------------------------------------------------------
\* The user signs up or uses the application on another device.
Elsewhere(a) ==
    /\ Slip("offline") \/ checks = {}
    /\ IF Exists(a) THEN docs[a].state # "used" /\ Save(a, Used(docs[a]))
                    ELSE a \notin registered /\ Save(a, NewProfile(a))
    /\ registered' = IF a \in Email THEN registered \cup {a} ELSE registered
    /\ UNCHANGED <<tokens, googleUser, cur, profile, listener, home, ghosts,
                   requests, checks, upload, screen, restarts, slips>>
    /\ Hear

\* A deadline passes, and nothing is told.
Expire(a) ==
    /\ Exists(a) /\ docs[a].state = "used"
    /\ Slip("midnight") \/ a \notin ghosts
    /\ Save(a, [docs[a] EXCEPT !.state = "expired"])
    /\ UNCHANGED <<registered, tokens, googleUser, cur, profile, listener, home, ghosts,
                   due, requests, checks, upload, screen, restarts, slips>>

\* Killed and started again.
Relaunch ==
    /\ restarts < MaxRestarts
    /\ restarts' = restarts + 1
    /\ googleUser' = None /\ cur' = None /\ profile' = None /\ listener' = None
    /\ home' = NoHome /\ ghosts' = {} /\ due' = {}
    /\ requests' = Asked /\ checks' = {} /\ upload' = None
    /\ screen' = "login"
    /\ UNCHANGED <<docs, registered, tokens, slips>>

Next ==
    \/ \E a \in Email : EmailSignIn(a) \/ SignUp(a)
    \/ CreateProfile
    \/ \E a \in Google : GoogleSignIn(a)
    \/ \E a \in Facebook : FacebookTap(a)
    \/ \E r \in requests : GraphAnswers(r) \/ GraphFails(r)
    \/ \E c \in checks : CheckAnswered(c) \/ CheckDone(c)
    \/ OtherScreen \/ ReturnLogin
    \/ ProfileSnapshot \/ HomeSnapshot \/ \E a \in ghosts : GhostSnapshot(a)
    \/ SaveProfile \/ SaveHome \/ StartUpload \/ Uploaded
    \/ SignOut
    \/ \E a \in Accounts : Elsewhere(a) \/ Expire(a)
    \/ Relaunch

Spec == Init /\ [][Next]_vars

\* Libraries answer, and closures run.
Fairness ==
    /\ \A a \in Google : WF_vars(tokens.google = a /\ GoogleSignIn(a))
    /\ WF_vars(\E r \in requests : GraphAnswers(r))
    /\ WF_vars(\E c \in checks : CheckAnswered(c)) /\ WF_vars(\E c \in checks : CheckDone(c))

FairSpec == Spec /\ Fairness
-----------------------------------------------------------------------------
\* Type invariant.
TypeOK ==
    /\ docs \in [Accounts -> Profile \cup {None}]
    /\ registered \in SUBSET Email
    /\ tokens \in [email : Email \cup {None}, google : Google \cup {None},
                   facebook : Facebook \cup {None}]
    /\ googleUser \in Google \cup {None}
    /\ cur \in Accounts \cup {None}
    /\ profile \in Profile \cup {None}
    /\ listener \in Accounts \cup {None}
    /\ home \in [doc : Accounts \cup {None}, profile : Profile \cup {None}]
    /\ ghosts \in SUBSET Accounts
    /\ due \in SUBSET Listening
    /\ requests \in SUBSET [kind : {"tap", "again"}, of : Facebook, here : BOOLEAN]
    /\ checks \in SUBSET [of : Google \cup Facebook, answer : {"asked", "found", "missing"},
                          here : BOOLEAN]
    /\ upload \in Profile \cup {None}
    /\ screen \in {"login", "sign up", "signing up", "tabs"}
    /\ restarts \in 0..MaxRestarts
    /\ slips \in Slips

\* Nobody's profile comes to be in another user's document, though documents are
\* written by screens and listeners of one session under the name another
\* session has put into cur_user_email.
OwnDocument ==
    slips = {} => \A a \in Accounts : Exists(a) => docs[a].of = a

\* In the tabs the globals name the user who is signed in, first by e-mail, then
\* with Google; that user's document is the one both listeners listen to.
SignedIn == CurUser(tokens.email, googleUser, tokens.facebook)
InTheirDocument ==
    "offline" \notin slips /\ screen = "tabs" =>
        cur = SignedIn /\ home.doc = cur /\ listener = cur

\* A profile in use is never replaced by a new one: nobody who signs in, with any
\* library, loses what was there ("User exists, no need to make new profile",
\* LoginViewController.swift:163).
NothingErased ==
    []["offline" \notin slips => \A a \in Accounts :
           docs[a] = Used(NewProfile(a)) => docs'[a] # NewProfile(a)]_vars

\* A Google user who is signed in has a profile in the end, however often the app
\* is killed before it is made (the check is made again at every launch).
ProfileArrives ==
    \A a \in Google : tokens.google = a ~> Exists(a) \/ tokens.google # a

\* ProfileVC.swift:108, "update the user's profile in Firebase": what a screen or a
\* listener saves is the profile of the user whose document it is.
SavesOwnProfile ==
    \A a \in Accounts : Exists(a) => docs[a].of = a
=============================================================================
