--------------------------- MODULE Session_proofs ---------------------------
(* Whoever signs in, by whatever library and however often the app is        *)
(* killed: the tabs are about the user who is signed in, no profile in use   *)
(* is replaced by a new one, and nobody's profile comes to be in another     *)
(* user's document.  For any accounts, and number of launches.               *)
EXTENDS Session, TLAPS

\* While a question is open or a session is on, it is known who is the user; a
\* user with an e-mail address is one who has registered.
UserKnown ==
    /\ listener # None \/ checks # {} \/ screen \in {"signing up", "tabs"} => cur # None
    /\ screen = "tabs" => home.doc # None
    /\ cur \in Email => cur \in registered
    /\ tokens.email \in registered \cup {None}
    /\ \A a \in Email : Exists(a) => a \in registered

\* What is being uploaded for was in use.
UploadUsed == upload # None => upload.state = "used"

\* At most one library has a user.
OneToken ==
    /\ tokens.email = None \/ tokens.google = None
    /\ tokens.email = None \/ tokens.facebook = None
    /\ tokens.google = None \/ tokens.facebook = None

\* How a session comes about when questions are answered: what is under way, and who
\* has signed in, on each screen.
InSteps ==
    /\ OneToken
    /\ googleUser \in {None, tokens.google}
    /\ \A r \in requests : /\ r.of = tokens.facebook /\ r.here /\ screen = "login"
                           /\ checks = {}
                           /\ \A q \in requests : q = r
    /\ \A c \in checks : /\ \/ c.of = googleUser /\ screen = "tabs"
                            \/ c.of = tokens.facebook /\ c.here /\ screen = "login" /\ cur = c.of
                         /\ \A d \in checks : d = c
    /\ screen = "login" => /\ googleUser = None
                           /\ tokens.facebook # None => ~Answered
    /\ screen = "sign up" => tokens = NoTokens /\ googleUser = None
    /\ screen = "signing up" => /\ tokens.email # None /\ googleUser = None
                                /\ cur = tokens.email /\ listener = cur
    /\ screen = "tabs" => /\ googleUser = tokens.google
                          /\ cur = SignedIn /\ home.doc = cur /\ listener = cur

\* Profiles that are stored, shown or on their way to be stored.
Copies == ({docs[a] : a \in Accounts} \cup {profile, home.profile, upload}) \ {None}
NoCopy(a) == \A p \in Copies : p.of # a

\* Whoever has a profile anywhere has a document.
OriginExists == \A p \in Copies : Exists(p.of)

\* Who is about to be given a new profile has none.
NewToAll ==
    /\ screen = "signing up" => NoCopy(cur)
    /\ \A c \in checks : c.answer = "missing" => NoCopy(c.of)

\* In a session without slips each document is its user's, and a HomeVC that is out
\* of sight has nothing to reset.
StoredRight ==
    /\ \A a \in Accounts : Exists(a) => docs[a].of = a
    /\ \A a \in ghosts : ~Expired(a)

\* What is shown, or on its way to be stored, is where it belongs.
Belongs ==
    /\ StoredRight
    /\ screen # "tabs" => home = NoHome /\ upload = None
    /\ screen \in {"login", "sign up"} => listener = None
    /\ profile # None => profile.of = listener
    /\ home.profile # None => home.profile.of = home.doc
    /\ upload # None => upload.of = cur

IInv ==
    /\ TypeOK
    /\ UserKnown
    /\ UploadUsed
    /\ OriginExists
    /\ "offline" \notin slips => InSteps /\ NewToAll
    /\ slips = {} => Belongs

-----------------------------------------------------------------------------
\* Profiles and what is due.

LEMMA AccountFacts ==
    /\ Email \subseteq Accounts /\ Google \subseteq Accounts /\ Facebook \subseteq Accounts
    /\ None \notin Accounts /\ None \notin Profile
    /\ \A a \in Email : a \notin Google /\ a \notin Facebook
    /\ \A a \in Google : a \notin Facebook
BY SessionAssumption DEF Accounts

LEMMA TokenFacts ==
    ASSUME TypeOK
    PROVE  /\ tokens.email \in Email \cup {None} /\ tokens.google \in Google \cup {None}
           /\ tokens.facebook \in Facebook \cup {None} /\ googleUser \in Google \cup {None}
           /\ cur \in Accounts \cup {None} /\ listener \in Accounts \cup {None}
           /\ home.doc \in Accounts \cup {None}
           /\ \A r \in requests : r.of \in Facebook
           /\ \A c \in checks : c.of \in Google \cup Facebook
BY DEF TypeOK

LEMMA ProfileFacts ==
    ASSUME NEW p \in Profile
    PROVE  /\ p # None /\ p.of \in Accounts
           /\ Used(p) \in Profile /\ Used(p) # None
           /\ Used(p).of = p.of /\ Used(p).state = "used"
BY SessionAssumption DEF Profile, Used

LEMMA NewProfileFacts ==
    ASSUME NEW a \in Accounts
    PROVE  /\ NewProfile(a) \in Profile /\ NewProfile(a) # None
           /\ NewProfile(a).of = a /\ NewProfile(a).state = "new"
BY SessionAssumption DEF Profile, NewProfile

LEMMA DueAfterType ==
    ASSUME NEW delivered, NEW added, DueAfter(delivered, added)
    PROVE  due' \in SUBSET Listening'
BY DEF DueAfter

LEMMA DueStaysType ==
    ASSUME due \in SUBSET Listening, due' = due,
           listener' = listener, home' = home, ghosts' = ghosts
    PROVE  due' \in SUBSET Listening'
BY DEF Listening

\* Who is current after a LoginViewController was left, and what is on top.
LEMMA PrepareFacts ==
    ASSUME TypeOK, NEW current \in Accounts \cup {None}, Prepare(current),
           tokens'.email \in Email \cup {None}, googleUser' \in Google \cup {None}
    PROVE  /\ cur' = CurUser(tokens'.email, googleUser', current)
           /\ cur' \in Accounts \cup {None} /\ listener' = cur' /\ profile' = profile
           /\ current # None => cur' # None
BY DEF Prepare, CurUser, Accounts, TypeOK

LEMMA ShowTabsFacts ==
    ASSUME ShowTabs, cur' \in Accounts \cup {None}
    PROVE  /\ screen' = "tabs" /\ home'.doc = cur' /\ home'.profile = None
           /\ home' \in [doc : Accounts \cup {None}, profile : Profile \cup {None}]
BY DEF ShowTabs

LEMMA LeaveFacts ==
    ASSUME TypeOK, NEW here, NEW current \in Accounts \cup {None}, Leave(here, current),
           tokens'.email \in Email \cup {None}, googleUser' \in Google \cup {None}
    PROVE  /\ cur' = CurUser(tokens'.email, googleUser', current)
           /\ cur' \in Accounts \cup {None} /\ listener' = cur' /\ profile' = profile
           /\ current # None => cur' # None
           /\ home' \in [doc : Accounts \cup {None}, profile : Profile \cup {None}]
           /\ \/ /\ here /\ screen = "login"
                 /\ screen' = "tabs" /\ home'.doc = cur' /\ home'.profile = None
              \/ ~(here /\ screen = "login") /\ screen' = screen /\ home' = home
<1>1. CASE here /\ screen = "login"
    BY <1>1, PrepareFacts, ShowTabsFacts DEF Leave
<1>2. CASE ~(here /\ screen = "login")
    BY <1>2, PrepareFacts DEF Leave, TypeOK
<1> QED BY <1>1, <1>2

Request == [kind : {"tap", "again"}, of : Facebook, here : BOOLEAN]
Check == [of : Google \cup Facebook, answer : {"asked", "found", "missing"}, here : BOOLEAN]

LEMMA CoveredTypes ==
    /\ \A questions \in SUBSET Request : Covered(questions) \in SUBSET Request
    /\ \A questions \in SUBSET Check : Covered(questions) \in SUBSET Check
<1>1. \A q \in Request : [q EXCEPT !.here = FALSE] \in Request
    BY DEF Request
<1>2. \A q \in Check : [q EXCEPT !.here = FALSE] \in Check
    BY DEF Check
<1> QED BY <1>1, <1>2 DEF Covered

LEMMA AskedType == ASSUME TypeOK PROVE Asked \in SUBSET Request
<1>1. \A a \in Facebook : [kind |-> "again", of |-> a, here |-> TRUE] \in Request
    BY DEF Request
<1>2. tokens.facebook \in Facebook \cup {None}
    BY DEF TypeOK
<1> QED BY <1>1, <1>2 DEF Asked

LEMMA SaveType ==
    ASSUME TypeOK, NEW a, NEW p \in Profile, Save(a, p)
    PROVE  docs' \in [Accounts -> Profile \cup {None}]
BY DEF Save, TypeOK

\* Nothing is stored for nobody.
LEMMA SaveNowhere ==
    ASSUME TypeOK, NEW p, Save(None, p)
    PROVE  docs' = docs
<1>1. None \notin Accounts
    BY SessionAssumption
<1> QED BY <1>1 DEF Save, TypeOK

LEMMA EmailSignInType ==
    ASSUME IInv, NEW a \in Email, EmailSignIn(a) PROVE TypeOK'
<1>1. /\ tokens'.email = a /\ googleUser' = googleUser
      /\ tokens' \in [email : Email \cup {None}, google : Google \cup {None},
                      facebook : Facebook \cup {None}]
    BY DEF EmailSignIn, IInv, TypeOK
<1>2. cur' \in Accounts \cup {None} /\ listener' = cur' /\ profile' = profile
    BY <1>1, PrepareFacts DEF EmailSignIn, IInv, TypeOK
<1>3. screen' = "tabs" /\ home' \in [doc : Accounts \cup {None}, profile : Profile \cup {None}]
    BY <1>2, ShowTabsFacts DEF EmailSignIn
<1>4. requests' \in SUBSET Request /\ checks' \in SUBSET Check
    BY CoveredTypes DEF EmailSignIn, IInv, TypeOK, Request, Check
<1> QED BY <1>1, <1>2, <1>3, <1>4, DueAfterType DEF EmailSignIn, IInv, TypeOK, Request, Check

LEMMA SignUpType ==
    ASSUME IInv, NEW a \in Email, SignUp(a) PROVE TypeOK'
<1>1. /\ tokens'.email = a /\ googleUser' = googleUser
      /\ tokens' \in [email : Email \cup {None}, google : Google \cup {None},
                      facebook : Facebook \cup {None}]
    BY DEF SignUp, IInv, TypeOK
<1>2. cur' \in Accounts \cup {None} /\ listener' = cur' /\ profile' = profile
    BY <1>1, PrepareFacts DEF SignUp, IInv, TypeOK
<1> QED BY <1>1, <1>2, DueAfterType DEF SignUp, IInv, TypeOK

LEMMA CreateProfileType ==
    ASSUME IInv, CreateProfile PROVE TypeOK'
<1>1. docs' \in [Accounts -> Profile \cup {None}]
    <2>1. CASE tokens.email \in Email
        BY <2>1, NewProfileFacts, SaveType DEF CreateProfile, IInv, Accounts
    <2>2. CASE tokens.email = None
        BY <2>2, SaveNowhere DEF CreateProfile, IInv, TypeOK
    <2> QED BY <2>1, <2>2 DEF IInv, TypeOK
<1>2. screen' = "tabs" /\ home' \in [doc : Accounts \cup {None}, profile : Profile \cup {None}]
    BY ShowTabsFacts DEF CreateProfile, IInv, TypeOK
<1> QED BY <1>1, <1>2, DueAfterType DEF CreateProfile, IInv, TypeOK, Hear

LEMMA GoogleSignInType ==
    ASSUME IInv, NEW a \in Google, GoogleSignIn(a) PROVE TypeOK'
<1>1. /\ tokens'.email = tokens.email /\ googleUser' = a
      /\ tokens' \in [email : Email \cup {None}, google : Google \cup {None},
                      facebook : Facebook \cup {None}]
    BY DEF GoogleSignIn, IInv, TypeOK
<1>2. /\ cur' \in Accounts \cup {None} /\ listener' = cur' /\ profile' = profile
      /\ home' \in [doc : Accounts \cup {None}, profile : Profile \cup {None}]
      /\ screen' \in {screen, "tabs"}
    BY <1>1, LeaveFacts DEF GoogleSignIn, IInv, TypeOK
<1>3. requests' \in SUBSET Request
    BY CoveredTypes DEF GoogleSignIn, IInv, TypeOK, Request
<1>4. checks' \in SUBSET Check
    <2>1. [of |-> a, answer |-> "asked", here |-> FALSE] \in Check
        BY DEF Check
    <2> QED BY <2>1, CoveredTypes DEF GoogleSignIn, IInv, TypeOK, Check
<1> QED BY <1>1, <1>2, <1>3, <1>4, DueAfterType DEF GoogleSignIn, IInv, TypeOK, Request, Check

LEMMA FacebookTapType ==
    ASSUME IInv, NEW a \in Facebook, FacebookTap(a) PROVE TypeOK'
<1>1. due' \in SUBSET Listening'
    BY DueStaysType DEF FacebookTap, IInv, TypeOK
<1>2. requests' \in SUBSET Request
    <2>1. [kind |-> "tap", of |-> a, here |-> TRUE] \in Request
        BY DEF Request
    <2> QED BY <2>1 DEF FacebookTap, IInv, TypeOK, Request
<1>3. tokens' \in [email : Email \cup {None}, google : Google \cup {None},
                  facebook : Facebook \cup {None}]
    BY DEF FacebookTap, IInv, TypeOK
<1> QED BY <1>1, <1>2, <1>3 DEF FacebookTap, IInv, TypeOK, Request

LEMMA GraphAnswersType ==
    ASSUME IInv, NEW r, GraphAnswers(r) PROVE TypeOK'
<1>1. /\ r \in Request /\ r.of \in Accounts
      /\ tokens' = tokens /\ googleUser' = googleUser
    BY DEF GraphAnswers, IInv, TypeOK, Request, Accounts
<1>2. /\ cur' \in Accounts /\ listener' \in Accounts \cup {None} /\ profile' = profile
      /\ home' \in [doc : Accounts \cup {None}, profile : Profile \cup {None}]
      /\ screen' \in {screen, "tabs"}
    <2>1. CASE r.kind = "tap"
        BY <1>1, <2>1 DEF GraphAnswers, IInv, TypeOK
    <2>2. CASE r.kind # "tap"
        <3>1. Leave(r.here, r.of)
            BY <2>2 DEF GraphAnswers
        <3>2. tokens'.email \in Email \cup {None} /\ googleUser' \in Google \cup {None}
            BY <1>1 DEF IInv, TypeOK
        <3>3. r.of # None
            BY <1>1, SessionAssumption
        <3> QED BY <1>1, <3>1, <3>2, <3>3, LeaveFacts DEF IInv
    <2> QED BY <2>1, <2>2
<1>3. requests' \in SUBSET Request
    BY CoveredTypes DEF GraphAnswers, IInv, TypeOK, Request
<1>4. checks' \in SUBSET Check
    <2>1. [of |-> r.of, answer |-> "asked", here |-> r.here] \in Check
        BY <1>1 DEF Check, Request
    <2> QED BY <2>1, CoveredTypes DEF GraphAnswers, IInv, TypeOK, Check
<1> QED BY <1>1, <1>2, <1>3, <1>4, DueAfterType DEF GraphAnswers, IInv, TypeOK, Request, Check

LEMMA GraphFailsType ==
    ASSUME IInv, NEW r, GraphFails(r) PROVE TypeOK'
<1>1. due' \in SUBSET Listening'
    BY DueStaysType DEF GraphFails, IInv, TypeOK
<1>2. requests' \in SUBSET Request
    BY DEF GraphFails, IInv, TypeOK, Request
<1> QED BY <1>1, <1>2 DEF GraphFails, IInv, TypeOK, Request

LEMMA CheckAnsweredType ==
    ASSUME IInv, NEW c, CheckAnswered(c) PROVE TypeOK'
<1>1. checks' \in SUBSET Check
    <2>1. c \in Check
        BY DEF CheckAnswered, IInv, TypeOK, Check
    <2>2. \A x \in {"found", "missing"} : [c EXCEPT !.answer = x] \in Check
        BY <2>1 DEF Check
    <2> QED BY <2>2 DEF CheckAnswered, IInv, TypeOK, Check
<1>2. due' \in SUBSET Listening'
    BY DueStaysType DEF CheckAnswered, IInv, TypeOK
<1> QED BY <1>1, <1>2 DEF CheckAnswered, IInv, TypeOK, Check

LEMMA CheckDoneType ==
    ASSUME IInv, NEW c, CheckDone(c) PROVE TypeOK'
<1>1. /\ c \in Check /\ c.of \in Accounts
      /\ tokens' = tokens /\ googleUser' = googleUser
    BY DEF CheckDone, IInv, TypeOK, Check, Accounts
<1>2. docs' \in [Accounts -> Profile \cup {None}]
    BY <1>1, NewProfileFacts, SaveType DEF CheckDone, CreateIfMissing, IInv, TypeOK
<1>3. /\ cur' \in Accounts \cup {None} /\ listener' \in Accounts \cup {None}
      /\ profile' = profile
      /\ home' \in [doc : Accounts \cup {None}, profile : Profile \cup {None}]
      /\ screen' \in {screen, "tabs"}
    <2>1. CASE c.of \in Google
        BY <2>1 DEF CheckDone, IInv, TypeOK
    <2>2. CASE c.of \notin Google
        <3>1. Leave(c.here, cur)
            BY <2>2 DEF CheckDone
        <3>2. tokens'.email \in Email \cup {None} /\ googleUser' \in Google \cup {None}
            BY <1>1 DEF IInv, TypeOK
        <3> QED BY <3>1, <3>2, LeaveFacts DEF IInv, TypeOK
    <2> QED BY <2>1, <2>2
<1>4. requests' \in SUBSET Request /\ checks' \in SUBSET Check
    BY CoveredTypes DEF CheckDone, IInv, TypeOK, Request, Check
<1> QED BY <1>1, <1>2, <1>3, <1>4, DueAfterType DEF CheckDone, IInv, TypeOK, Request, Check

LEMMA OtherScreenType ==
    ASSUME IInv, OtherScreen PROVE TypeOK'
<1>1. tokens' = tokens /\ googleUser' = googleUser
    BY DEF OtherScreen
<1>2. /\ cur' \in Accounts \cup {None} /\ listener' = cur' /\ profile' = profile
      /\ cur # None => cur' # None
    BY <1>1, PrepareFacts DEF OtherScreen, IInv, TypeOK
<1>3. requests' \in SUBSET Request /\ checks' \in SUBSET Check
    BY CoveredTypes DEF OtherScreen, IInv, TypeOK, Request, Check
<1>4. due' \in SUBSET Listening'
    <2>1. CASE cur' = None
        <3>1. listener' = listener
            BY <1>2, <2>1 DEF IInv, UserKnown
        <3> QED BY <2>1, <3>1, DueStaysType DEF OtherScreen, IInv, TypeOK
    <2>2. CASE cur' # None
        BY <2>2, DueAfterType DEF OtherScreen
    <2> QED BY <2>1, <2>2
<1> QED BY <1>1, <1>2, <1>3, <1>4 DEF OtherScreen, IInv, TypeOK, Request, Check

LEMMA ReturnLoginType ==
    ASSUME IInv, ReturnLogin PROVE TypeOK'
<1>1. requests' \in SUBSET Request
    BY AskedType DEF ReturnLogin, IInv, TypeOK, Request
<1>2. due' \in SUBSET Listening'
    BY DueStaysType DEF ReturnLogin, IInv, TypeOK
<1> QED BY <1>1, <1>2 DEF ReturnLogin, IInv, TypeOK, Request

\* Whom a listener listens to.
LEMMA ListeningFacts ==
    ASSUME TypeOK, NEW l \in Listening
    PROVE  /\ l.by = "app" => l.to = listener /\ listener # None
           /\ l.by = "home" => l.to = home.doc /\ home.doc # None
           /\ l.by = "ghost" => l.to \in ghosts
           /\ l.to \in Accounts
<1>1. /\ listener \in Accounts \cup {None} /\ home.doc \in Accounts \cup {None}
      /\ ghosts \subseteq Accounts
    BY DEF TypeOK
<1>2. CASE l \in {[by |-> "app", to |-> a] : a \in {listener} \ {None}}
    BY <1>1, <1>2
<1>3. CASE l \in {[by |-> "home", to |-> a] : a \in {home.doc} \ {None}}
    BY <1>1, <1>3
<1>4. CASE l \in {[by |-> "ghost", to |-> a] : a \in ghosts}
    BY <1>1, <1>4
<1> QED BY <1>2, <1>3, <1>4 DEF Listening

LEMMA ProfileSnapshotType ==
    ASSUME IInv, ProfileSnapshot PROVE TypeOK'
<1>1. listener \in Accounts
    <2>1. [by |-> "app", to |-> listener] \in Listening
        BY DEF ProfileSnapshot, IInv, TypeOK
    <2> QED BY <2>1, ListeningFacts DEF IInv
<1>2. profile' \in Profile \cup {None}
    BY <1>1 DEF ProfileSnapshot, IInv, TypeOK
<1> QED BY <1>2, DueAfterType DEF ProfileSnapshot, IInv, TypeOK

LEMMA VerifyType ==
    ASSUME TypeOK, NEW p \in Profile \cup {None}, Verify(p)
    PROVE  docs' \in [Accounts -> Profile \cup {None}]
BY ProfileFacts, SaveType DEF Verify, TypeOK

LEMMA HomeSnapshotType ==
    ASSUME IInv, HomeSnapshot PROVE TypeOK'
<1>1. home.doc \in Accounts
    <2>1. [by |-> "home", to |-> home.doc] \in Listening
        BY DEF HomeSnapshot, IInv, TypeOK
    <2> QED BY <2>1, ListeningFacts DEF IInv
<1>2. docs[home.doc] \in Profile \cup {None}
    BY <1>1 DEF IInv, TypeOK
<1>3. docs' \in [Accounts -> Profile \cup {None}]
    BY <1>2, VerifyType DEF HomeSnapshot, IInv
<1>4. home' \in [doc : Accounts \cup {None}, profile : Profile \cup {None}]
    BY <1>2, ProfileFacts DEF HomeSnapshot, IInv, TypeOK
<1> QED BY <1>3, <1>4, DueAfterType DEF HomeSnapshot, IInv, TypeOK

LEMMA GhostSnapshotType ==
    ASSUME IInv, NEW a \in ghosts, GhostSnapshot(a) PROVE TypeOK'
<1>1. docs[a] \in Profile \cup {None}
    BY DEF IInv, TypeOK
<1>2. docs' \in [Accounts -> Profile \cup {None}]
    BY <1>1, VerifyType DEF GhostSnapshot, IInv
<1> QED BY <1>2, DueAfterType DEF GhostSnapshot, IInv, TypeOK

LEMMA SaveProfileType ==
    ASSUME IInv, SaveProfile PROVE TypeOK'
<1>1. profile \in Profile
    BY DEF SaveProfile, IInv, TypeOK
<1>2. docs' \in [Accounts -> Profile \cup {None}] /\ profile' \in Profile
    BY <1>1, ProfileFacts, SaveType DEF SaveProfile, IInv
<1> QED BY <1>2, DueAfterType DEF SaveProfile, IInv, TypeOK, Hear

LEMMA SaveHomeType ==
    ASSUME IInv, SaveHome PROVE TypeOK'
<1>1. home.profile \in Profile
    BY DEF SaveHome, IInv, TypeOK
<1>2. docs' \in [Accounts -> Profile \cup {None}]
    BY <1>1, ProfileFacts, SaveType DEF SaveHome, IInv
<1>3. home' \in [doc : Accounts \cup {None}, profile : Profile \cup {None}]
    BY <1>1, ProfileFacts DEF SaveHome, IInv, TypeOK
<1> QED BY <1>2, <1>3, DueAfterType DEF SaveHome, IInv, TypeOK, Hear

LEMMA StartUploadType ==
    ASSUME IInv, StartUpload PROVE TypeOK'
<1>1. upload' \in Profile
    BY ProfileFacts DEF StartUpload, IInv, TypeOK
<1>2. due' \in SUBSET Listening'
    BY DueStaysType DEF StartUpload, IInv, TypeOK
<1> QED BY <1>1, <1>2 DEF StartUpload, IInv, TypeOK

LEMMA UploadedType ==
    ASSUME IInv, Uploaded PROVE TypeOK'
<1>1. docs' \in [Accounts -> Profile \cup {None}]
    BY SaveType DEF Uploaded, IInv, TypeOK
<1> QED BY <1>1, DueAfterType DEF Uploaded, IInv, TypeOK, Hear

LEMMA SignOutType ==
    ASSUME IInv, SignOut PROVE TypeOK'
<1>1. ghosts' \in SUBSET Accounts
    BY DEF SignOut, EndSession, IInv, TypeOK, UserKnown
<1>2. due' \in SUBSET Listening'
    BY DEF SignOut, StillDue
<1>3. /\ tokens' \in [email : Email \cup {None}, google : Google \cup {None},
                      facebook : Facebook \cup {None}]
      /\ home' \in [doc : Accounts \cup {None}, profile : Profile \cup {None}]
    BY DEF SignOut, EndSession, NoTokens, NoHome
<1> QED BY <1>1, <1>2, <1>3 DEF SignOut, EndSession, IInv, TypeOK

LEMMA ElsewhereType ==
    ASSUME IInv, NEW a \in Accounts, Elsewhere(a) PROVE TypeOK'
<1>1. docs' \in [Accounts -> Profile \cup {None}]
    <2>1. CASE Exists(a)
        <3>1. docs[a] \in Profile /\ Save(a, Used(docs[a]))
            BY <2>1 DEF Elsewhere, Exists, IInv, TypeOK
        <3> QED BY <3>1, ProfileFacts, SaveType DEF IInv
    <2>2. CASE ~Exists(a)
        BY <2>2, NewProfileFacts, SaveType DEF Elsewhere, IInv
    <2> QED BY <2>1, <2>2
<1>2. due' \in SUBSET Listening'
    BY DueAfterType DEF Elsewhere, Hear
<1>3. registered' \in SUBSET Email
    BY DEF Elsewhere, IInv, TypeOK
<1>4. /\ tokens' = tokens /\ googleUser' = googleUser /\ cur' = cur /\ profile' = profile
      /\ listener' = listener /\ home' = home /\ ghosts' = ghosts /\ requests' = requests
      /\ checks' = checks /\ upload' = upload /\ screen' = screen
      /\ restarts' = restarts /\ slips' = slips
    BY DEF Elsewhere
<1>5. TypeOK
    BY DEF IInv
<1> QED BY <1>1, <1>2, <1>3, <1>4, <1>5 DEF TypeOK

LEMMA ExpireType ==
    ASSUME IInv, NEW a \in Accounts, Expire(a) PROVE TypeOK'
<1>1. docs[a] \in Profile
    BY DEF Expire, Exists, IInv, TypeOK
<1>2. [docs[a] EXCEPT !.state = "expired"] \in Profile
    BY <1>1 DEF Profile
<1>3. docs' \in [Accounts -> Profile \cup {None}]
    BY <1>2, SaveType DEF Expire, IInv
<1>4. due' \in SUBSET Listening'
    BY DueStaysType DEF Expire, IInv, TypeOK
<1> QED BY <1>3, <1>4 DEF Expire, IInv, TypeOK

LEMMA RelaunchType ==
    ASSUME IInv, Relaunch PROVE TypeOK'
<1>1. requests' \in SUBSET Request
    BY AskedType DEF Relaunch, IInv
<1>2. home' \in [doc : Accounts \cup {None}, profile : Profile \cup {None}]
    BY DEF Relaunch, NoHome
<1>3. restarts' \in 0..MaxRestarts
    <2>1. restarts \in 0..MaxRestarts /\ restarts < MaxRestarts /\ restarts' = restarts + 1
        BY DEF Relaunch, IInv, TypeOK
    <2> QED BY <2>1, SessionAssumption
<1> QED BY <1>1, <1>2, <1>3 DEF Relaunch, IInv, TypeOK, Request

LEMMA NextType == ASSUME IInv, [Next]_vars PROVE TypeOK'
<1>1. CASE UNCHANGED vars
    <2>1. due' \in SUBSET Listening'
        BY <1>1, DueStaysType DEF vars, IInv, TypeOK
    <2> QED BY <1>1, <2>1 DEF vars, IInv, TypeOK
<1>2. CASE Next
    BY <1>2, EmailSignInType, SignUpType, CreateProfileType, GoogleSignInType,
       FacebookTapType, GraphAnswersType, GraphFailsType, CheckAnsweredType,
       CheckDoneType, OtherScreenType, ReturnLoginType, ProfileSnapshotType,
       HomeSnapshotType, GhostSnapshotType, SaveProfileType, SaveHomeType,
       StartUploadType, UploadedType, SignOutType, ElsewhereType, ExpireType,
       RelaunchType DEF Next
<1> QED BY <1>1, <1>2

-----------------------------------------------------------------------------
\* It is known who is the user.

\* Saving to the document of a known user.
LEMMA SavedKnown ==
    ASSUME TypeOK, UserKnown, registered \subseteq registered', NEW x, NEW p,
           Save(x, p) \/ docs' = docs, x \in Email => x \in registered'
    PROVE  \A a \in Email : Exists(a)' => a \in registered'
BY DEF Save, Exists, TypeOK, UserKnown, Accounts

LEMMA UserKnownStep == ASSUME IInv, [Next]_vars PROVE UserKnown'
<1> USE AccountFacts, TokenFacts DEF IInv
<1>1. CASE UNCHANGED vars
    BY <1>1 DEF vars, UserKnown, Exists
<1>2. ASSUME NEW a \in Email, EmailSignIn(a) PROVE UserKnown'
    <2>1. /\ tokens'.email = a /\ googleUser' = googleUser /\ docs' = docs
          /\ registered' = registered /\ a \in registered
        BY <1>2 DEF EmailSignIn, TypeOK
    <2>2. cur' = a /\ listener' = cur' /\ a # None
        BY <1>2, <2>1, PrepareFacts DEF EmailSignIn, TypeOK, CurUser, Accounts
    <2>3. home'.doc = cur'
        BY <1>2 DEF EmailSignIn, ShowTabs
    <2> QED BY <2>1, <2>2, <2>3 DEF UserKnown, Exists
<1>3. ASSUME NEW a \in Email, SignUp(a) PROVE UserKnown'
    <2>1. /\ tokens'.email = a /\ googleUser' = googleUser /\ docs' = docs
          /\ registered' = registered \cup {a} /\ screen' = "signing up"
        BY <1>3 DEF SignUp, TypeOK
    <2>2. /\ Prepare(cur) /\ a # None /\ cur \in Accounts \cup {None}
          /\ tokens'.email \in Email \cup {None} /\ googleUser' \in Google \cup {None}
        BY <1>3, <2>1 DEF SignUp
    <2>3. cur' = a /\ listener' = cur'
        BY <2>1, <2>2, PrepareFacts DEF CurUser
    <2> QED BY <2>1, <2>2, <2>3 DEF UserKnown, Exists
<1>4. CASE CreateProfile
    <2>1. /\ Save(tokens.email, NewProfile(tokens.email)) /\ screen = "signing up"
          /\ cur' = cur /\ registered' = registered /\ tokens' = tokens
        BY <1>4 DEF CreateProfile
    <2>2. tokens.email \in Email => tokens.email \in registered'
        BY <2>1 DEF UserKnown, Accounts
    <2>3. \A a \in Email : Exists(a)' => a \in registered'
        BY <2>1, <2>2, SavedKnown
    <2>4. home'.doc = cur'
        BY <1>4 DEF CreateProfile, ShowTabs
    <2> QED BY <2>1, <2>3, <2>4 DEF UserKnown
<1>5. ASSUME NEW a \in Google, GoogleSignIn(a) PROVE UserKnown'
    <2>1. /\ tokens'.email = tokens.email /\ googleUser' = a
          /\ docs' = docs /\ registered' = registered
        BY <1>5 DEF GoogleSignIn, TypeOK
    <2>2. /\ Leave(TRUE, cur) /\ a # None /\ a \notin Email /\ cur \in Accounts \cup {None}
          /\ tokens'.email \in Email \cup {None} /\ googleUser' \in Google \cup {None}
        BY <1>5, <2>1 DEF GoogleSignIn
    <2>3. /\ cur' = IF tokens.email # None THEN tokens.email ELSE a
          /\ \/ screen' = "tabs" /\ home'.doc = cur'
             \/ screen' = screen /\ home' = home
        BY <2>1, <2>2, LeaveFacts DEF CurUser
    <2> QED BY <2>1, <2>2, <2>3 DEF UserKnown, Exists
<1>6. ASSUME NEW a \in Facebook, FacebookTap(a) PROVE UserKnown'
    BY <1>6 DEF FacebookTap, UserKnown, Exists, TypeOK
<1>7. ASSUME NEW r \in requests, GraphAnswers(r) PROVE UserKnown'
    <2>0. r.of \in Facebook /\ r.of # None /\ r.of \notin Email
        OBVIOUS
    <2>1. /\ docs' = docs /\ registered' = registered
          /\ tokens' = tokens /\ googleUser' = googleUser
        BY <1>7 DEF GraphAnswers
    <2>2. /\ cur' # None
          /\ cur' \in Email => cur' = tokens.email
          /\ \/ screen' = "tabs" /\ home'.doc = cur'
             \/ screen' = screen /\ home' = home
        <3>1. CASE r.kind = "tap"
            BY <1>7, <2>0, <2>1, <3>1 DEF GraphAnswers
        <3>2. CASE r.kind # "tap"
            <4>1. Leave(r.here, r.of)
                BY <1>7, <3>2 DEF GraphAnswers
            <4>2. /\ tokens'.email \in Email \cup {None} /\ googleUser' \in Google \cup {None}
                  /\ r.of \in Accounts
                BY <2>0, <2>1 DEF TypeOK, Accounts
            <4>3. /\ cur' = CurUser(tokens'.email, googleUser', r.of) /\ cur' # None
                  /\ \/ screen' = "tabs" /\ home'.doc = cur'
                     \/ screen' = screen /\ home' = home
                BY <2>0, <4>1, <4>2, LeaveFacts
            <4> QED BY <2>0, <2>1, <4>3 DEF CurUser, TypeOK
        <3> QED BY <3>1, <3>2
    <2> QED BY <2>1, <2>2 DEF UserKnown, Exists
<1>8. ASSUME NEW r \in requests, GraphFails(r) PROVE UserKnown'
    BY <1>8 DEF GraphFails, UserKnown, Exists
<1>9. ASSUME NEW c \in checks, CheckAnswered(c) PROVE UserKnown'
    BY <1>9 DEF CheckAnswered, UserKnown, Exists
<1>10. ASSUME NEW c \in checks, CheckDone(c) PROVE UserKnown'
    <2>1. /\ c.of \notin Email /\ cur # None
          /\ registered' = registered /\ tokens' = tokens /\ googleUser' = googleUser
        BY <1>10 DEF CheckDone, TypeOK, UserKnown
    <2>2. \A a \in Email : Exists(a)' => a \in registered'
        BY <1>10, <2>1, SavedKnown DEF CheckDone, CreateIfMissing
    <2>3. /\ cur' # None
          /\ cur' \in Email => cur' \in {cur, tokens.email}
          /\ \/ screen' = "tabs" /\ home'.doc = cur'
             \/ screen' = screen /\ home'.doc = home.doc
        <3>1. CASE c.of \in Google
            BY <1>10, <2>1, <3>1 DEF CheckDone
        <3>2. CASE c.of \notin Google
            <4>1. Leave(c.here, cur)
                BY <1>10, <3>2 DEF CheckDone
            <4>2. tokens'.email \in Email \cup {None} /\ googleUser' \in Google \cup {None}
                BY <2>1 DEF TypeOK
            <4>3. /\ cur' = CurUser(tokens'.email, googleUser', cur) /\ cur' # None
                  /\ \/ screen' = "tabs" /\ home'.doc = cur'
                     \/ screen' = screen /\ home' = home
                BY <2>1, <4>1, <4>2, LeaveFacts
            <4> QED BY <2>1, <4>3 DEF CurUser
        <3> QED BY <3>1, <3>2
    <2> QED BY <2>1, <2>2, <2>3 DEF UserKnown
<1>11. CASE OtherScreen
    <2>1. /\ tokens' = tokens /\ googleUser' = googleUser /\ docs' = docs
          /\ registered' = registered /\ screen' = "sign up" /\ checks = {} /\ tokens.email = None
          /\ checks' = {}
        BY <1>11 DEF OtherScreen, Settled, Answered, Covered
    <2>2. cur' = CurUser(tokens.email, googleUser, cur) /\ listener' = cur'
        BY <1>11, <2>1 DEF OtherScreen, Prepare
    <2> QED BY <2>1, <2>2 DEF UserKnown, Exists, CurUser, TypeOK
<1>12. CASE ReturnLogin
    BY <1>12 DEF ReturnLogin, UserKnown, Exists
<1>13. CASE ProfileSnapshot
    BY <1>13 DEF ProfileSnapshot, UserKnown, Exists
<1>14. CASE HomeSnapshot
    <2>1. /\ Save(cur, Used(docs[home.doc])) \/ docs' = docs
          /\ home'.doc = home.doc
        BY <1>14 DEF HomeSnapshot, Verify, TypeOK
    <2>2. /\ registered' = registered /\ tokens' = tokens /\ cur' = cur
          /\ listener' = listener /\ checks' = checks /\ screen' = screen
        BY <1>14 DEF HomeSnapshot
    <2>3. \A a \in Email : Exists(a)' => a \in registered'
        BY <2>1, <2>2, SavedKnown DEF UserKnown
    <2> QED BY <2>1, <2>2, <2>3 DEF UserKnown
<1>15. ASSUME NEW b \in ghosts, GhostSnapshot(b) PROVE UserKnown'
    <2>1. Save(cur, Used(docs[b])) \/ docs' = docs
        BY <1>15 DEF GhostSnapshot, Verify
    <2>2. /\ registered' = registered /\ tokens' = tokens /\ cur' = cur /\ home' = home
          /\ listener' = listener /\ checks' = checks /\ screen' = screen
        BY <1>15 DEF GhostSnapshot
    <2>3. \A a \in Email : Exists(a)' => a \in registered'
        BY <2>1, <2>2, SavedKnown DEF UserKnown
    <2> QED BY <2>2, <2>3 DEF UserKnown
<1>16. CASE SaveProfile \/ SaveHome \/ Uploaded
    <2>1. \E p : Save(cur, p)
        BY <1>16 DEF SaveProfile, SaveHome, Uploaded
    <2>2. /\ registered' = registered /\ tokens' = tokens /\ cur' = cur
          /\ listener' = listener /\ checks' = checks /\ screen' = screen
        BY <1>16 DEF SaveProfile, SaveHome, Uploaded
    <2>4. home'.doc = home.doc
        <3>1. home \in [doc : Accounts \cup {None}, profile : Profile \cup {None}]
            BY DEF TypeOK
        <3> QED BY <1>16, <3>1 DEF SaveProfile, SaveHome, Uploaded
    <2>3. \A a \in Email : Exists(a)' => a \in registered'
        BY <2>1, <2>2, SavedKnown DEF UserKnown
    <2> QED BY <2>2, <2>3, <2>4 DEF UserKnown
<1>17. CASE StartUpload
    BY <1>17 DEF StartUpload, UserKnown, Exists
<1>18. CASE SignOut
    BY <1>18 DEF SignOut, EndSession, Settled, Answered, NoTokens, UserKnown, Exists
<1>19. ASSUME NEW x \in Accounts, Elsewhere(x) PROVE UserKnown'
    <2>1. /\ \E p : Save(x, p)
          /\ registered' = IF x \in Email THEN registered \cup {x} ELSE registered
          /\ tokens' = tokens /\ cur' = cur /\ home' = home
          /\ listener' = listener /\ checks' = checks /\ screen' = screen
        BY <1>19 DEF Elsewhere
    <2>2. \A a \in Email : Exists(a)' => a \in registered'
        BY <2>1, SavedKnown
    <2> QED BY <2>1, <2>2 DEF UserKnown
<1>20. ASSUME NEW x \in Accounts, Expire(x) PROVE UserKnown'
    <2>1. /\ \E p : Save(x, p) /\ Exists(x)
          /\ registered' = registered /\ tokens' = tokens /\ cur' = cur /\ home' = home
          /\ listener' = listener /\ checks' = checks /\ screen' = screen
        BY <1>20 DEF Expire
    <2>2. \A a \in Email : Exists(a)' => a \in registered'
        BY <2>1, SavedKnown DEF UserKnown
    <2> QED BY <2>1, <2>2 DEF UserKnown
<1>21. CASE Relaunch
    <2>1. /\ registered' = registered /\ tokens' = tokens /\ docs' = docs /\ cur' = None
          /\ listener' = None /\ checks' = {} /\ screen' = "login" /\ None \notin Email
        BY <1>21 DEF Relaunch, Accounts
    <2> QED BY <2>1 DEF UserKnown, Exists
<1> QED BY <1>1, <1>2, <1>3, <1>4, <1>5, <1>6, <1>7, <1>8, <1>9, <1>10, <1>11, <1>12, <1>13,
           <1>14, <1>15, <1>16, <1>17, <1>18, <1>19, <1>20, <1>21 DEF Next

-----------------------------------------------------------------------------
\* Where the profiles come from.

\* Somebody is given a new profile.
GivenNew(a) ==
    \/ CreateProfile /\ a = tokens.email
    \/ \E c \in checks : CheckDone(c) /\ c.answer = "missing" /\ a = c.of
    \/ Elsewhere(a) /\ ~Exists(a)

\* A profile of somebody who has one already.
Traced(p) == p = None \/ \E q \in Copies : q.of = p.of

LEMMA TracedHere ==
    ASSUME TypeOK
    PROVE  /\ \A a \in Accounts : Traced(docs[a])
           /\ Traced(profile) /\ Traced(home.profile) /\ Traced(upload) /\ Traced(None)
BY DEF Traced, Copies

LEMMA TracedUsed ==
    ASSUME TypeOK, NEW p \in Profile, Traced(p)
    PROVE  Traced(Used(p))
BY ProfileFacts DEF Traced

\* A step that changes at most one document.
LEMMA TracedSave ==
    ASSUME TypeOK, NEW x, NEW v, Save(x, v) \/ docs' = docs, Traced(v)
    PROVE  \A a \in Accounts : Traced(docs'[a])
BY TracedHere DEF Save, TypeOK

LEMMA CopiesTraced ==
    ASSUME IInv, [Next]_vars
    PROVE  \A p \in Copies' : Traced(p) \/ \E a \in Accounts : GivenNew(a) /\ p.of = a
<1> DEFINE Fine(p) == Traced(p) \/ \E a \in Accounts : GivenNew(a) /\ p.of = a
           AllFine == /\ \A a \in Accounts : Fine(docs'[a])
                      /\ Fine(profile') /\ Fine(home'.profile) /\ Fine(upload')
<1> USE DEF IInv
<1> SUFFICES AllFine
    BY DEF Copies
<1>0. \A p : Traced(p) => Fine(p)
    OBVIOUS
<1>1. home \in [doc : Accounts \cup {None}, profile : Profile \cup {None}]
    BY DEF TypeOK
<1> HIDE DEF Fine
<1>2. CASE \/ UNCHANGED vars
           \/ \E a \in Email : EmailSignIn(a) \/ SignUp(a)
           \/ \E a \in Google : GoogleSignIn(a)
           \/ \E a \in Facebook : FacebookTap(a)
           \/ \E r \in requests : GraphAnswers(r) \/ GraphFails(r)
           \/ \E c \in checks : CheckAnswered(c)
           \/ OtherScreen \/ ReturnLogin
    <2>1. docs' = docs /\ profile' = profile /\ upload' = upload
        BY <1>2 DEF vars, EmailSignIn, SignUp, GoogleSignIn, FacebookTap, GraphAnswers,
                    GraphFails, CheckAnswered, OtherScreen, ReturnLogin, Leave, Prepare
    <2>2. home' = home \/ ShowTabs
        BY <1>2 DEF vars, EmailSignIn, SignUp, GoogleSignIn, FacebookTap, GraphAnswers,
                    GraphFails, CheckAnswered, OtherScreen, ReturnLogin, Leave
    <2>3. home'.profile \in {home.profile, None}
        BY <2>2 DEF ShowTabs
    <2> QED BY <1>0, <2>1, <2>3, TracedHere
<1>3. CASE CreateProfile
    <2>1. /\ Save(tokens.email, NewProfile(tokens.email)) /\ profile' = profile
          /\ upload' = upload /\ home'.profile = None
        BY <1>3 DEF CreateProfile, ShowTabs
    <2>2. \A a \in Accounts : docs'[a] = docs[a] \/ (a = tokens.email /\ docs'[a] = NewProfile(a))
        BY <2>1 DEF Save, TypeOK
    <2>3. \A a \in Accounts : a = tokens.email => Fine(NewProfile(a))
        BY <1>3, NewProfileFacts DEF Fine, GivenNew
    <2> QED BY <1>0, <2>1, <2>2, <2>3, TracedHere
<1>4. ASSUME NEW c \in checks, CheckDone(c) PROVE AllFine
    <2>1. profile' = profile /\ upload' = upload /\ (home' = home \/ ShowTabs)
        BY <1>4 DEF CheckDone, Leave, Prepare
    <2>2. home'.profile \in {home.profile, None}
        BY <2>1 DEF ShowTabs
    <2>3. c.of \in Accounts
        BY TokenFacts, AccountFacts
    <2>4. ASSUME c.answer = "missing" PROVE Fine(NewProfile(c.of))
        BY <1>4, <2>3, <2>4, NewProfileFacts DEF Fine, GivenNew
    <2>5. \A a \in Accounts : docs'[a] = docs[a] \/ (c.answer = "missing" /\ docs'[a] = NewProfile(c.of))
        BY <1>4 DEF CheckDone, CreateIfMissing, Save, TypeOK
    <2> QED BY <1>0, <2>1, <2>2, <2>4, <2>5, TracedHere
<1>5. CASE ProfileSnapshot
    <2>1. listener \in Accounts
        <3>1. [by |-> "app", to |-> listener] \in Listening
            BY <1>5 DEF ProfileSnapshot, TypeOK
        <3> QED BY <3>1, ListeningFacts
    <2>2. Traced(profile')
        BY <1>5, <2>1, TracedHere DEF ProfileSnapshot
    <2> QED BY <1>0, <1>5, <2>2, TracedHere DEF ProfileSnapshot
<1>6. ASSUME NEW p \in Profile \cup {None}, Traced(p), Verify(p)
      PROVE  \A a \in Accounts : Fine(docs'[a])
    <2>1. CASE p = None
        BY <1>0, <1>6, <2>1, TracedHere DEF Verify
    <2>2. CASE p \in Profile
        <3>1. Traced(Used(p)) /\ (Save(cur, Used(p)) \/ docs' = docs)
            BY <1>6, <2>2, TracedUsed DEF Verify
        <3> QED BY <1>0, <3>1, TracedSave
    <2> QED BY <2>1, <2>2
<1>7. CASE HomeSnapshot
    <2>1. home.doc \in Accounts
        <3>1. [by |-> "home", to |-> home.doc] \in Listening
            BY <1>7 DEF HomeSnapshot, TypeOK
        <3> QED BY <3>1, ListeningFacts
    <2>2. docs[home.doc] \in Profile \cup {None} /\ Traced(docs[home.doc])
        BY <2>1, TracedHere DEF TypeOK
    <2>3. home'.profile \in {home.profile, docs[home.doc], Used(docs[home.doc])}
          /\ (docs[home.doc] = None => home'.profile = home.profile)
        BY <1>1, <1>7 DEF HomeSnapshot
    <2>4. Traced(home'.profile)
        BY <2>2, <2>3, TracedHere, TracedUsed
    <2>5. \A a \in Accounts : Fine(docs'[a])
        BY <1>6, <1>7, <2>2 DEF HomeSnapshot
    <2> QED BY <1>0, <1>7, <2>4, <2>5, TracedHere DEF HomeSnapshot
<1>8. ASSUME NEW b \in ghosts, GhostSnapshot(b) PROVE AllFine
    <2>1. docs[b] \in Profile \cup {None} /\ Traced(docs[b])
        BY TracedHere DEF TypeOK
    <2>2. \A a \in Accounts : Fine(docs'[a])
        BY <1>6, <1>8, <2>1 DEF GhostSnapshot
    <2> QED BY <1>0, <1>8, <2>2, TracedHere DEF GhostSnapshot
<1>9. CASE SaveProfile
    <2>1. profile \in Profile /\ Traced(Used(profile))
        BY <1>9, TracedHere, TracedUsed DEF SaveProfile, TypeOK
    <2>2. \A a \in Accounts : Traced(docs'[a])
        BY <1>9, <2>1, TracedSave DEF SaveProfile
    <2> QED BY <1>0, <1>9, <2>1, <2>2, TracedHere DEF SaveProfile
<1>10. CASE SaveHome
    <2>1. home.profile \in Profile /\ Traced(Used(home.profile))
        BY <1>1, <1>10, TracedHere, TracedUsed DEF SaveHome
    <2>2. \A a \in Accounts : Traced(docs'[a])
        BY <1>10, <2>1, TracedSave DEF SaveHome
    <2>3. home'.profile = Used(home.profile)
        BY <1>1, <1>10 DEF SaveHome
    <2> QED BY <1>0, <1>10, <2>1, <2>2, <2>3, TracedHere DEF SaveHome
<1>11. CASE StartUpload
    <2>1. Traced(Used(home.profile))
        BY <1>1, <1>11, TracedHere, TracedUsed DEF StartUpload
    <2> QED BY <1>0, <1>11, <2>1, TracedHere DEF StartUpload
<1>12. CASE Uploaded
    <2>1. \A a \in Accounts : Traced(docs'[a])
        BY <1>12, TracedHere, TracedSave DEF Uploaded
    <2> QED BY <1>0, <1>12, <2>1, TracedHere DEF Uploaded
<1>13. CASE SignOut \/ Relaunch
    <2>1. docs' = docs /\ profile' = None /\ home'.profile = None /\ upload' \in {upload, None}
        BY <1>13 DEF SignOut, EndSession, Relaunch, NoHome
    <2> QED BY <1>0, <2>1, TracedHere
<1>14. ASSUME NEW x \in Accounts, Elsewhere(x) PROVE AllFine
    <2>1. profile' = profile /\ home' = home /\ upload' = upload
        BY <1>14 DEF Elsewhere
    <2>2. CASE Exists(x)
        <3>1. Save(x, Used(docs[x])) /\ docs[x] \in Profile
            BY <1>14, <2>2 DEF Elsewhere, Exists, TypeOK
        <3>2. Traced(Used(docs[x]))
            BY <3>1, TracedHere, TracedUsed
        <3> QED BY <1>0, <2>1, <3>1, <3>2, TracedHere, TracedSave
    <2>3. CASE ~Exists(x)
        <3>1. Fine(NewProfile(x))
            BY <1>14, <2>3, NewProfileFacts DEF Fine, GivenNew
        <3>2. \A a \in Accounts : docs'[a] = docs[a] \/ docs'[a] = NewProfile(x)
            BY <1>14, <2>3 DEF Elsewhere, Save, TypeOK
        <3> QED BY <1>0, <2>1, <3>1, <3>2, TracedHere
    <2> QED BY <2>2, <2>3
<1>15. ASSUME NEW x \in Accounts, Expire(x) PROVE AllFine
    <2>1. docs[x] \in Profile /\ Save(x, [docs[x] EXCEPT !.state = "expired"])
        BY <1>15 DEF Expire, Exists, TypeOK
    <2>2. [docs[x] EXCEPT !.state = "expired"].of = docs[x].of
        BY <2>1 DEF Profile
    <2>3. Traced([docs[x] EXCEPT !.state = "expired"])
        BY <2>1, <2>2, TracedHere, AccountFacts DEF Traced
    <2>4. \A a \in Accounts : Traced(docs'[a])
        BY <2>1, <2>3, TracedSave
    <2> QED BY <1>0, <1>15, <2>4, TracedHere DEF Expire
<1> QED BY <1>2, <1>3, <1>4, <1>5, <1>7, <1>8, <1>9, <1>10, <1>11, <1>12, <1>13, <1>14, <1>15
        DEF Next

\* Documents are never deleted, and whoever is given a profile has one.
LEMMA DocsGrow ==
    ASSUME IInv, [Next]_vars
    PROVE  \A a \in Accounts : Exists(a) \/ GivenNew(a) => Exists(a)'
<1> USE AccountFacts, TokenFacts DEF IInv
<1>1. ASSUME NEW a \in Accounts, GivenNew(a) PROVE Exists(a)'
    <2>1. Save(a, NewProfile(a))
        BY <1>1 DEF GivenNew, CreateProfile, CheckDone, CreateIfMissing, Elsewhere
    <2>2. NewProfile(a) # None
        BY NewProfileFacts
    <2> QED BY <2>1, <2>2 DEF Save, Exists, TypeOK
<1>2. ASSUME NEW a \in Accounts, Exists(a) PROVE Exists(a)'
    <2>1. CASE docs' = docs
        BY <1>2, <2>1 DEF Exists
    <2>2. ASSUME NEW v \in Profile, NEW x, Save(x, v) PROVE Exists(a)'
        <3>1. v # None
            BY ProfileFacts
        <3> QED BY <1>2, <2>2, <3>1 DEF Save, Exists, TypeOK
    <2>3. CASE CreateProfile
        <3>1. Save(tokens.email, NewProfile(tokens.email))
            BY <2>3 DEF CreateProfile
        <3>2. CASE tokens.email = None
            BY <1>2, <3>1, <3>2, SaveNowhere DEF Exists
        <3>3. CASE tokens.email # None
            BY <3>1, <3>3, <2>2, NewProfileFacts
        <3> QED BY <3>2, <3>3
    <2>4. ASSUME NEW c \in checks, CheckDone(c) PROVE Exists(a)'
        <3>1. Save(c.of, NewProfile(c.of)) \/ docs' = docs
            BY <2>4 DEF CheckDone, CreateIfMissing
        <3> QED BY <2>1, <2>2, <3>1, NewProfileFacts
    <2>5. ASSUME NEW p \in Profile \cup {None}, Verify(p) PROVE Exists(a)'
        BY <2>1, <2>2, <2>5, ProfileFacts DEF Verify
    <2>6. CASE HomeSnapshot
        <3>1. [by |-> "home", to |-> home.doc] \in Listening
            BY <2>6 DEF HomeSnapshot, TypeOK
        <3>2. docs[home.doc] \in Profile \cup {None}
            BY <3>1, ListeningFacts DEF TypeOK
        <3> QED BY <2>5, <2>6, <3>2 DEF HomeSnapshot
    <2>7. ASSUME NEW b \in ghosts, GhostSnapshot(b) PROVE Exists(a)'
        <3>1. docs[b] \in Profile \cup {None}
            BY DEF TypeOK
        <3> QED BY <2>5, <2>7, <3>1 DEF GhostSnapshot
    <2>8. CASE SaveProfile \/ SaveHome \/ Uploaded
        <3>1. /\ SaveProfile => profile \in Profile
              /\ SaveHome => home.profile \in Profile
              /\ Uploaded => upload \in Profile
            BY DEF SaveProfile, SaveHome, Uploaded, TypeOK
        <3> QED BY <2>2, <2>8, <3>1, ProfileFacts DEF SaveProfile, SaveHome, Uploaded
    <2>9. ASSUME NEW x \in Accounts, Elsewhere(x) PROVE Exists(a)'
        <3>1. \/ Save(x, Used(docs[x])) /\ docs[x] \in Profile
              \/ Save(x, NewProfile(x))
            BY <2>9 DEF Elsewhere, Exists, TypeOK
        <3> QED BY <2>2, <3>1, ProfileFacts, NewProfileFacts
    <2>10. ASSUME NEW x \in Accounts, Expire(x) PROVE Exists(a)'
        <3>1. docs[x] \in Profile /\ Save(x, [docs[x] EXCEPT !.state = "expired"])
            BY <2>10 DEF Expire, Exists, TypeOK
        <3>2. [docs[x] EXCEPT !.state = "expired"] \in Profile
            BY <3>1 DEF Profile
        <3> QED BY <2>2, <3>1, <3>2
    <2>11. \/ docs' = docs \/ CreateProfile \/ \E c \in checks : CheckDone(c)
           \/ HomeSnapshot \/ \E b \in ghosts : GhostSnapshot(b)
           \/ SaveProfile \/ SaveHome \/ Uploaded
           \/ \E x \in Accounts : Elsewhere(x) \/ Expire(x)
        BY DEF Next, vars, EmailSignIn, SignUp, GoogleSignIn, FacebookTap, GraphAnswers, GraphFails,
               CheckAnswered, OtherScreen, ReturnLogin, ProfileSnapshot, StartUpload,
               SignOut, EndSession, Relaunch
    <2> QED BY <2>1, <2>3, <2>4, <2>6, <2>7, <2>8, <2>9, <2>10, <2>11
<1> QED BY <1>1, <1>2

LEMMA OriginExistsStep == ASSUME IInv, [Next]_vars PROVE OriginExists'
<1> SUFFICES ASSUME NEW p \in Copies' PROVE Exists(p.of)'
    BY DEF OriginExists
<1>1. CASE Traced(p)
    <2>1. PICK q \in Copies : q.of = p.of
        BY <1>1 DEF Traced, Copies
    <2>2. q \in Profile
        BY <2>1 DEF Copies, IInv, TypeOK
    <2>3. p.of \in Accounts /\ Exists(p.of)
        BY <2>1, <2>2, ProfileFacts DEF IInv, OriginExists
    <2> QED BY <2>3, DocsGrow
<1>2. CASE \E a \in Accounts : GivenNew(a) /\ p.of = a
    BY <1>2, DocsGrow
<1> QED BY <1>1, <1>2, CopiesTraced

-----------------------------------------------------------------------------
\* How a session comes about.

LEMMA SlipsStay == ASSUME [Next]_vars PROVE slips' = slips
BY DEF Next, vars, EmailSignIn, SignUp, CreateProfile, GoogleSignIn, FacebookTap, GraphAnswers,
       GraphFails, CheckAnswered, CheckDone, OtherScreen, ReturnLogin, ProfileSnapshot,
       HomeSnapshot, GhostSnapshot, SaveProfile, SaveHome, StartUpload, Uploaded,
       SignOut, EndSession, Elsewhere, Expire, Relaunch

\* Nobody is signing in.
LEMMA SettledAtLogin ==
    ASSUME TypeOK, InSteps, screen = "login", Settled
    PROVE  /\ googleUser = None /\ tokens.google = None /\ tokens.facebook = None
           /\ requests = {} /\ checks = {}
BY DEF InSteps, Settled, Answered, Restoring

\* A listener's snapshot, or a screen's save.
LEMMA InStepsStay ==
    ASSUME InSteps, tokens' = tokens, googleUser' = googleUser, cur' = cur,
           listener' = listener, requests' = requests, checks' = checks,
           screen' = screen, home'.doc = home.doc
    PROVE  InSteps'
BY DEF InSteps, OneToken, Answered, SignedIn

\* A Google user signs in on the first screen.
LEMMA GoogleAtLogin ==
    ASSUME IInv, "offline" \notin slips, NEW a \in Google, GoogleSignIn(a)
    PROVE  /\ screen = "login" /\ tokens.email = None /\ tokens.facebook = None
           /\ requests = {} /\ checks = {}
<1>1. googleUser = None /\ requests = {} /\ checks = {}
    BY DEF GoogleSignIn, Answered
<1>2. CASE screen = "login" /\ tokens.email = None
    BY <1>1, <1>2 DEF IInv, InSteps, Answered
<1>3. CASE tokens.google = a
    <2>1. a # None
        BY AccountFacts
    <2>5. NoTokens.google = None
        BY DEF NoTokens
    <2>2. tokens.email = None /\ tokens.facebook = None /\ tokens # NoTokens
        BY <1>3, <2>1, <2>5 DEF IInv, InSteps, OneToken
    <2>3. screen # "sign up"
        BY <2>2 DEF IInv, InSteps
    <2>4. screen # "signing up" /\ screen # "tabs"
        BY <1>1, <1>3, <2>1, <2>2 DEF IInv, InSteps
    <2> QED BY <1>1, <2>2, <2>3, <2>4 DEF IInv, TypeOK
<1> QED BY <1>1, <1>2, <1>3 DEF GoogleSignIn

LEMMA InStepsStep ==
    ASSUME IInv, "offline" \notin slips, [Next]_vars
    PROVE  InSteps'
<1> USE AccountFacts, TokenFacts DEF IInv
<1>0. tokens \in [email : Email \cup {None}, google : Google \cup {None},
                 facebook : Facebook \cup {None}]
    BY DEF TypeOK
<1>1. ASSUME NEW a \in Email, EmailSignIn(a) PROVE InSteps'
    <2>1. /\ tokens.google = None /\ tokens.facebook = None /\ googleUser = None
          /\ requests = {} /\ checks = {}
        BY <1>1, SettledAtLogin DEF EmailSignIn
    <2>2. /\ tokens'.email = a /\ tokens'.google = None /\ tokens'.facebook = None
          /\ googleUser' = None /\ requests' = {} /\ checks' = {}
        BY <1>0, <1>1, <2>1 DEF EmailSignIn, Covered
    <2>3. /\ screen' = "tabs" /\ cur' = a /\ listener' = a /\ home'.doc = a
        BY <1>1, <2>2 DEF EmailSignIn, Prepare, CurUser, ShowTabs
    <2> QED BY <2>2, <2>3 DEF InSteps, OneToken, SignedIn, CurUser
<1>2. ASSUME NEW a \in Email, SignUp(a) PROVE InSteps'
    <2>1. /\ tokens = NoTokens /\ googleUser = None /\ requests = {} /\ checks = {}
        BY <1>2 DEF SignUp, Settled, Answered, InSteps
    <2>2. /\ tokens'.email = a /\ tokens'.google = None /\ tokens'.facebook = None
          /\ googleUser' = None /\ requests' = {} /\ checks' = {}
        BY <1>0, <1>2, <2>1 DEF SignUp, NoTokens
    <2>3. /\ screen' = "signing up" /\ cur' = a /\ listener' = a
        BY <1>2, <2>2 DEF SignUp, Prepare, CurUser
    <2> QED BY <2>2, <2>3 DEF InSteps, OneToken
<1>3. CASE CreateProfile
    <2>1. /\ tokens.email # None /\ tokens.google = None /\ tokens.facebook = None
          /\ googleUser = None /\ requests = {} /\ checks = {}
          /\ cur = tokens.email /\ listener = cur
        BY <1>3 DEF CreateProfile, InSteps, OneToken
    <2>2. /\ tokens' = tokens /\ googleUser' = googleUser /\ requests' = requests
          /\ checks' = checks /\ cur' = cur /\ listener' = listener
          /\ screen' = "tabs" /\ home'.doc = cur
        BY <1>3 DEF CreateProfile, ShowTabs
    <2> QED BY <2>1, <2>2 DEF InSteps, OneToken, SignedIn, CurUser
<1>4. ASSUME NEW a \in Google, GoogleSignIn(a) PROVE InSteps'
    <2>1. /\ screen = "login" /\ tokens.email = None /\ tokens.facebook = None
          /\ requests = {} /\ checks = {}
        BY <1>4, GoogleAtLogin
    <2>2. /\ tokens'.email = None /\ tokens'.google = a /\ tokens'.facebook = None
          /\ googleUser' = a /\ requests' = {}
        BY <1>0, <1>4, <2>1 DEF GoogleSignIn, Covered
    <2>4. PICK c : c.of = a /\ checks' = {c}
        BY <1>4, <2>1 DEF GoogleSignIn, Covered
    <2>3. /\ screen' = "tabs" /\ cur' = a /\ listener' = a /\ home'.doc = a
        BY <1>4, <2>1, <2>2 DEF GoogleSignIn, Leave, Prepare, CurUser, ShowTabs
    <2> QED BY <2>2, <2>3, <2>4 DEF InSteps, OneToken, SignedIn, CurUser
<1>5. ASSUME NEW a \in Facebook, FacebookTap(a) PROVE InSteps'
    <2>1. /\ tokens.google = None /\ googleUser = None /\ requests = {} /\ checks = {}
          /\ tokens.email = None /\ screen = "login"
        BY <1>5, SettledAtLogin DEF FacebookTap
    <2>2. /\ tokens'.email = None /\ tokens'.google = None /\ tokens'.facebook = a
          /\ googleUser' = None /\ checks' = {} /\ screen' = "login"
        BY <1>0, <1>5, <2>1 DEF FacebookTap
    <2>3. PICK r : r.of = a /\ r.here /\ requests' = {r}
        BY <1>5, <2>1 DEF FacebookTap
    <2> QED BY <2>2, <2>3 DEF InSteps, OneToken, Answered
\* A Facebook user is the only one.
<1>6. ASSUME tokens.facebook \in Facebook, screen = "login"
      PROVE  tokens.email = None /\ tokens.google = None /\ googleUser = None
    BY <1>6 DEF InSteps, OneToken
<1>7. ASSUME NEW r \in requests, GraphAnswers(r) PROVE InSteps'
    <2>1. /\ r.of = tokens.facebook /\ r.of \in Facebook /\ r.here /\ screen = "login"
          /\ checks = {} /\ requests = {r}
        BY DEF InSteps
    <2>2. tokens.email = None /\ tokens.google = None /\ googleUser = None
        BY <1>6, <2>1
    <2>3. tokens' = tokens /\ googleUser' = googleUser /\ requests' = {} /\ cur' = r.of
        BY <1>7, <2>1, <2>2 DEF GraphAnswers, Leave, Prepare, CurUser, Covered
    <2>4. CASE r.kind = "tap"
        <3>1. PICK c : c.of = r.of /\ c.here /\ checks' = {c}
            BY <1>7, <2>1, <2>4 DEF GraphAnswers
        <3>2. screen' = "login"
            BY <1>7, <2>1, <2>4 DEF GraphAnswers
        <3> QED BY <2>1, <2>2, <2>3, <3>1, <3>2 DEF InSteps, OneToken, Answered
    <2>5. CASE r.kind # "tap"
        <3>1. screen' = "tabs" /\ listener' = cur' /\ home'.doc = cur' /\ checks' = {}
            BY <1>7, <2>1, <2>5 DEF GraphAnswers, Leave, Prepare, ShowTabs, Covered
        <3> QED BY <2>1, <2>2, <2>3, <3>1 DEF InSteps, OneToken, SignedIn, CurUser
    <2> QED BY <2>4, <2>5
<1>8. ASSUME NEW c \in checks, CheckAnswered(c) PROVE InSteps'
    <2>1. checks = {c} /\ requests = {}
        BY DEF InSteps
    <2>2. PICK d : d.of = c.of /\ d.here = c.here /\ checks' = {d}
        <3>1. c \in Check
            BY DEF TypeOK, Check
        <3>2. \A x : [c EXCEPT !.answer = x].of = c.of /\ [c EXCEPT !.answer = x].here = c.here
            BY <3>1 DEF Check
        <3>3. \E x : checks' = {[c EXCEPT !.answer = x]}
            BY <1>8, <2>1 DEF CheckAnswered
        <3> QED BY <3>2, <3>3
    <2>3. /\ tokens' = tokens /\ googleUser' = googleUser /\ cur' = cur /\ listener' = listener
          /\ requests' = requests /\ screen' = screen /\ home' = home
        BY <1>8 DEF CheckAnswered
    <2> QED BY <2>1, <2>2, <2>3 DEF InSteps, OneToken, Answered, SignedIn
<1>9. ASSUME NEW c \in checks, CheckDone(c) PROVE InSteps'
    <2>1. checks = {c} /\ requests = {}
        BY DEF InSteps
    <2>2. tokens' = tokens /\ googleUser' = googleUser /\ requests' = {} /\ checks' = {}
        BY <1>9, <2>1 DEF CheckDone, Covered
    <2>3. CASE c.of \in Google
        <3>1. screen = "tabs"
            BY <2>3 DEF InSteps
        <3>2. /\ cur' = cur /\ listener' = listener /\ screen' = screen /\ home' = home
            BY <1>9, <2>3 DEF CheckDone
        <3> QED BY <2>2, <3>1, <3>2 DEF InSteps, OneToken, SignedIn
    <2>4. CASE c.of \in Facebook
        <3>1. /\ c.of = tokens.facebook /\ c.here /\ screen = "login" /\ cur = c.of
            BY <2>4 DEF InSteps
        <3>2. tokens.email = None /\ tokens.google = None /\ googleUser = None
            BY <1>6, <2>4, <3>1
        <3>3. screen' = "tabs" /\ cur' = cur /\ listener' = cur' /\ home'.doc = cur'
            BY <1>9, <2>2, <2>4, <3>1, <3>2 DEF CheckDone, Leave, Prepare, CurUser, ShowTabs
        <3> QED BY <2>2, <3>1, <3>2, <3>3 DEF InSteps, OneToken, SignedIn, CurUser
    <2> QED BY <2>3, <2>4
<1>10. CASE OtherScreen
    <2>1. /\ tokens.google = None /\ googleUser = None /\ requests = {} /\ checks = {}
          /\ tokens.email = None /\ tokens.facebook = None
        BY <1>10, SettledAtLogin DEF OtherScreen
    <2>2. tokens = NoTokens
        BY <1>0, <2>1 DEF NoTokens
    <2>3. /\ tokens' = tokens /\ googleUser' = None /\ requests' = {} /\ checks' = {}
          /\ screen' = "sign up"
        BY <1>10, <2>1 DEF OtherScreen, Covered
    <2> QED BY <2>1, <2>2, <2>3 DEF InSteps, OneToken
<1>11. CASE ReturnLogin
    <2>1. tokens = NoTokens /\ googleUser = None /\ requests = {} /\ checks = {}
        BY <1>11 DEF ReturnLogin, InSteps
    <2>2. /\ tokens' = tokens /\ googleUser' = None /\ requests' = {} /\ checks' = {}
          /\ screen' = "login"
        BY <1>11, <2>1 DEF ReturnLogin, Asked, NoTokens
    <2> QED BY <2>1, <2>2 DEF InSteps, OneToken, NoTokens
<1>12. CASE HomeSnapshot \/ SaveHome
    <2>1. home'.doc = home.doc
        <3>1. home \in [doc : Accounts \cup {None}, profile : Profile \cup {None}]
            BY DEF TypeOK
        <3> QED BY <1>12, <3>1 DEF HomeSnapshot, SaveHome
    <2> QED BY <1>12, <2>1, InStepsStay DEF HomeSnapshot, SaveHome
<1>13. CASE \/ UNCHANGED vars \/ ProfileSnapshot \/ SaveProfile \/ StartUpload \/ Uploaded
            \/ \E b \in ghosts : GhostSnapshot(b)
            \/ \E x \in Accounts : Elsewhere(x) \/ Expire(x)
    BY <1>13, InStepsStay DEF vars, ProfileSnapshot, SaveProfile, StartUpload, Uploaded,
       GhostSnapshot, Elsewhere, Expire
<1>14. CASE SignOut
    BY <1>14 DEF SignOut, EndSession, Settled, Answered, NoTokens, InSteps, OneToken
<1>15. CASE Relaunch
    <2>1. /\ tokens' = tokens /\ googleUser' = None /\ requests' = Asked /\ checks' = {}
          /\ screen' = "login"
        BY <1>15 DEF Relaunch
    <2>2. CASE tokens.facebook = None
        <3>1. Asked = {}
            BY <2>2 DEF Asked
        <3> QED BY <2>1, <2>2, <3>1 DEF InSteps, OneToken
    <2>3. CASE tokens.facebook # None
        <3> DEFINE q == [kind |-> "again", of |-> tokens.facebook, here |-> TRUE]
        <3>1. q.of = tokens.facebook /\ q.here
            OBVIOUS
        <3>2. Asked = {q}
            BY <2>3 DEF Asked
        <3> HIDE DEF q
        <3> QED BY <2>1, <3>1, <3>2 DEF InSteps, OneToken, Answered
    <2> QED BY <2>2, <2>3
<1>16. ASSUME NEW r \in requests, GraphFails(r) PROVE FALSE
    BY <1>16 DEF GraphFails, Slip
<1> QED BY <1>1, <1>2, <1>3, <1>4, <1>5, <1>7, <1>8, <1>9, <1>10, <1>11, <1>12, <1>13, <1>14,
           <1>15, <1>16 DEF Next

-----------------------------------------------------------------------------
\* Who is given a new profile.

LEMMA NoDocNoCopy ==
    ASSUME OriginExists, NEW a, ~Exists(a) PROVE NoCopy(a)
BY DEF OriginExists, NoCopy

LEMMA NoCopyStays ==
    ASSUME IInv, [Next]_vars, NEW a \in Accounts, NoCopy(a), ~GivenNew(a)
    PROVE  NoCopy(a)'
<1> SUFFICES ASSUME NEW p \in Copies', p.of = a PROVE FALSE
    BY DEF NoCopy
<1>1. p # None
    BY DEF Copies
<1>2. Traced(p) \/ \E b \in Accounts : GivenNew(b) /\ p.of = b
    BY CopiesTraced
<1>3. ~Traced(p)
    BY <1>1 DEF Traced, NoCopy
<1> QED BY <1>2, <1>3

\* A question that is open after a step was open before it, or was just asked.
LEMMA MissingBefore ==
    ASSUME IInv, "offline" \notin slips, [Next]_vars, NEW c \in checks', c.answer = "missing"
    PROVE  \/ \E d \in checks : d.of = c.of /\ d.answer = "missing"
           \/ \E d \in checks : CheckAnswered(d) /\ d.of = c.of /\ ~Exists(d.of)
<1> USE DEF IInv
<1> DEFINE Before == \E d \in checks : d.of = c.of /\ d.answer = "missing"
<1>1. checks \in SUBSET Check
    BY DEF TypeOK, Check
<1>2. c \in checks => Before
    OBVIOUS
<1>3. c \in Covered(checks) => Before
    <2>1. \A d \in Check : /\ [d EXCEPT !.here = FALSE].of = d.of
                           /\ [d EXCEPT !.here = FALSE].answer = d.answer
        BY DEF Check
    <2> QED BY <1>1, <2>1 DEF Covered
<1>4. CASE \/ \E a \in Email : EmailSignIn(a)
           \/ \E a \in Google : GoogleSignIn(a)
           \/ \E r \in requests : GraphAnswers(r)
           \/ OtherScreen
    <2>1. c \in checks \cup Covered(checks) \/ c.answer = "asked"
        <3>1. ASSUME NEW a \in Google, GoogleSignIn(a)
              PROVE  c \in Covered(checks) \/ c.answer = "asked"
            BY <3>1 DEF GoogleSignIn
        <3>2. ASSUME NEW r \in requests, GraphAnswers(r)
              PROVE  c \in checks \cup Covered(checks) \/ c.answer = "asked"
            <4>1. CASE r.kind = "tap"
                BY <3>2, <4>1 DEF GraphAnswers
            <4>2. CASE r.kind # "tap"
                BY <3>2, <4>2 DEF GraphAnswers
            <4> QED BY <4>1, <4>2
        <3> QED BY <1>4, <3>1, <3>2 DEF EmailSignIn, OtherScreen
    <2> QED BY <1>2, <1>3, <2>1
<1>5. ASSUME NEW d \in checks, CheckAnswered(d)
      PROVE  Before \/ (CheckAnswered(d) /\ d.of = c.of /\ ~Exists(d.of))
    <2>1. d \in Check
        BY <1>1
    <2>2. slips \cap {"offline"} = {}
        OBVIOUS
    <2>3. PICK found \in {Exists(d.of)} :
              checks' = (checks \ {d}) \cup {[d EXCEPT !.answer = IF found THEN "found" ELSE "missing"]}
        BY <1>5, <2>2 DEF CheckAnswered
    <2>4. CASE c \in checks
        BY <1>2, <2>4
    <2>5. CASE c = [d EXCEPT !.answer = IF found THEN "found" ELSE "missing"]
        <3>1. c.of = d.of /\ c.answer = IF found THEN "found" ELSE "missing"
            BY <2>1, <2>5 DEF Check
        <3> QED BY <1>5, <2>3, <3>1
    <2> QED BY <2>3, <2>4, <2>5
<1>6. ASSUME NEW d \in checks, CheckDone(d) PROVE Before
    BY <1>2, <1>3, <1>6 DEF CheckDone, Covered
<1>7. CASE \/ UNCHANGED checks \/ Relaunch
    BY <1>2, <1>7 DEF Relaunch
<1>8. \/ UNCHANGED checks \/ Relaunch
      \/ \E a \in Email : EmailSignIn(a)
      \/ \E a \in Google : GoogleSignIn(a)
      \/ \E r \in requests : GraphAnswers(r)
      \/ OtherScreen
      \/ \E d \in checks : CheckAnswered(d) \/ CheckDone(d)
    BY DEF Next, vars, SignUp, CreateProfile, FacebookTap, GraphFails, ReturnLogin,
           ProfileSnapshot, HomeSnapshot, GhostSnapshot, SaveProfile, SaveHome, StartUpload,
           Uploaded, SignOut, EndSession, Elsewhere, Expire
<1> QED BY <1>4, <1>5, <1>6, <1>7, <1>8

\* While a question is open, nobody is given a profile but by its own closure.
LEMMA NobodyGivenMeanwhile ==
    ASSUME IInv, "offline" \notin slips, [Next]_vars, NEW a, GivenNew(a)
    PROVE  checks' = {}
<1>1. CASE CreateProfile
    BY <1>1 DEF IInv, InSteps, CreateProfile
<1>2. ASSUME NEW c \in checks, CheckDone(c) PROVE checks' = {}
    <2>1. checks = {c}
        BY DEF IInv, InSteps
    <2> QED BY <1>2, <2>1 DEF CheckDone, Covered
<1>3. CASE Elsewhere(a)
    BY <1>3 DEF Elsewhere, Slip
<1> QED BY <1>1, <1>2, <1>3 DEF GivenNew

\* An account that is being registered stays the current one until it has a profile.
LEMMA SigningUp ==
    ASSUME IInv, "offline" \notin slips, [Next]_vars, screen' = "signing up"
    PROVE  \/ \E a \in Email : SignUp(a)
           \/ screen = "signing up" /\ cur' = cur /\ ~GivenNew(cur)
<1> USE DEF IInv
<1>1. \/ screen = "signing up"
      \/ \E a \in Email : SignUp(a)
    BY DEF Next, vars, EmailSignIn, CreateProfile, GoogleSignIn, FacebookTap, GraphAnswers,
           GraphFails, CheckAnswered, CheckDone, OtherScreen, ReturnLogin, ProfileSnapshot,
           HomeSnapshot, GhostSnapshot, SaveProfile, SaveHome, StartUpload, Uploaded,
           SignOut, EndSession, Elsewhere, Expire, Relaunch, Leave, ShowTabs
<1>2. CASE screen = "signing up"
    <2>1. /\ tokens.email # None /\ tokens.google = None /\ cur = tokens.email
          /\ requests = {} /\ checks = {}
        BY <1>2 DEF InSteps, OneToken
    <2>2. ~CreateProfile
        BY DEF CreateProfile, ShowTabs
    <2>3. cur \in registered
        BY <2>1 DEF UserKnown
    <2>4. ~GivenNew(cur)
        BY <2>1, <2>2, <2>3 DEF GivenNew, Elsewhere
    <2>5. \A a \in Google : ~GoogleSignIn(a)
        BY <1>2, <2>1, AccountFacts DEF GoogleSignIn
    <2>6. cur' = cur
        BY <1>2, <2>1, <2>2, <2>5 DEF Next, vars, EmailSignIn, SignUp, FacebookTap,
           OtherScreen, ReturnLogin, ProfileSnapshot, HomeSnapshot, GhostSnapshot,
           SaveProfile, SaveHome, StartUpload, Uploaded, SignOut, EndSession, Elsewhere,
           Expire, Relaunch
    <2> QED BY <1>2, <2>4, <2>6
<1> QED BY <1>1, <1>2

LEMMA NewToAllStep ==
    ASSUME IInv, "offline" \notin slips, [Next]_vars
    PROVE  NewToAll'
<1> USE DEF IInv
<1>1. ASSUME screen' = "signing up" PROVE NoCopy(cur)'
    <2>1. ASSUME NEW a \in Email, SignUp(a) PROVE NoCopy(cur)'
        <3>1. cur' = a
            BY <2>1, AccountFacts DEF SignUp, Prepare, CurUser, TypeOK
        <3>2. ~Exists(a)
            BY <2>1 DEF SignUp, UserKnown
        <3>3. NoCopy(a)
            BY <3>2, NoDocNoCopy
        <3>4. Copies' = Copies
            BY <2>1 DEF SignUp, Prepare, Copies
        <3> QED BY <3>1, <3>3, <3>4 DEF NoCopy
    <2>2. CASE screen = "signing up" /\ cur' = cur /\ ~GivenNew(cur)
        <3>1. NoCopy(cur) /\ cur \in Accounts
            BY <2>2 DEF NewToAll, UserKnown, TypeOK
        <3>2. PICK a \in Accounts : a = cur
            BY <3>1
        <3>3. NoCopy(a)'
            BY <2>2, <3>1, <3>2, NoCopyStays
        <3> QED BY <2>2, <3>2, <3>3 DEF NoCopy
    <2> QED BY <1>1, <2>1, <2>2, SigningUp
<1>2. ASSUME NEW c \in checks', c.answer = "missing" PROVE NoCopy(c.of)'
    <2>1. c.of \in Accounts /\ NoCopy(c.of)
        <3>1. \A d \in checks : d.of \in Accounts
            BY TokenFacts, AccountFacts
        <3>2. \A d \in checks : ~Exists(d.of) => NoCopy(d.of)
            BY NoDocNoCopy
        <3> QED BY <1>2, <3>1, <3>2, MissingBefore DEF NewToAll
    <2>2. ~GivenNew(c.of)
        BY <1>2, NobodyGivenMeanwhile
    <2> QED BY <2>1, <2>2, NoCopyStays
<1> QED BY <1>1, <1>2 DEF NewToAll

-----------------------------------------------------------------------------
\* Whose profile is where.

LEMMA SavedRight ==
    ASSUME TypeOK, StoredRight, ghosts' = ghosts, NEW x, NEW v \in Profile,
           docs' = docs \/ Save(x, v), v.of = x, v.state # "expired" \/ x \notin ghosts
    PROVE  StoredRight'
<1>1. \A a \in Accounts : docs'[a] = docs[a] \/ (a = x /\ docs'[a] = v)
    BY DEF Save, TypeOK
<1>2. ghosts \subseteq Accounts
    BY DEF TypeOK
<1> QED BY <1>1, <1>2 DEF StoredRight, Exists, Expired

LEMMA StaysRight ==
    ASSUME StoredRight, docs' = docs, ghosts' = ghosts PROVE StoredRight'
BY DEF StoredRight, Exists, Expired

\* Nobody's profile is held, or on its way, before the tabs come up.
LEMMA NothingHeld ==
    ASSUME TypeOK, Belongs, screen \in {"login", "sign up"}
    PROVE  profile = None /\ listener = None /\ upload = None /\ home = NoHome
<1>1. screen # "tabs"
    OBVIOUS
<1>2. listener = None /\ upload = None /\ home = NoHome
    BY <1>1 DEF Belongs
<1>3. profile \in Profile => profile.of # None
    BY ProfileFacts, AccountFacts
<1> QED BY <1>2, <1>3 DEF Belongs, TypeOK

\* The tabs come up.
LEMMA EnteredBelongs ==
    ASSUME StoredRight', profile' = None, upload' = None, home'.profile = None, screen' = "tabs"
    PROVE  Belongs'
BY DEF Belongs

LEMMA BelongsStep ==
    ASSUME IInv, slips = {}, [Next]_vars
    PROVE  Belongs'
<1> USE AccountFacts, TokenFacts DEF IInv
<1>0. /\ InSteps /\ Belongs /\ StoredRight
      /\ home \in [doc : Accounts \cup {None}, profile : Profile \cup {None}]
    BY DEF TypeOK, Belongs
<1>1. ASSUME NEW a \in Email, EmailSignIn(a) PROVE Belongs'
    <2>1. profile = None /\ upload = None /\ StoredRight'
        BY <1>0, <1>1, NothingHeld, StaysRight DEF EmailSignIn
    <2> QED BY <1>1, <2>1, EnteredBelongs DEF EmailSignIn, Prepare, ShowTabs
<1>2. ASSUME NEW a \in Email, SignUp(a) PROVE Belongs'
    <2>1. /\ profile = None /\ upload = None /\ home = NoHome /\ StoredRight'
        BY <1>0, <1>2, NothingHeld, StaysRight DEF SignUp
    <2> QED BY <1>2, <2>1 DEF SignUp, Prepare, NoHome, Belongs
<1>3. CASE CreateProfile
    <2>1. /\ upload = None /\ cur = listener /\ cur = tokens.email /\ cur \in Email
        BY <1>0, <1>3 DEF CreateProfile, InSteps, Belongs
    <2>2. StoredRight'
        <3>1. /\ NewProfile(cur) \in Profile /\ NewProfile(cur).of = cur
              /\ NewProfile(cur).state # "expired"
            BY <2>1, NewProfileFacts
        <3> QED BY <1>0, <1>3, <2>1, <3>1, SavedRight DEF CreateProfile
    <2>3. /\ screen' = "tabs" /\ home'.profile = None /\ upload' = None /\ profile' = profile
          /\ listener' = listener
        BY <1>3, <2>1 DEF CreateProfile, ShowTabs
    <2> QED BY <1>0, <2>2, <2>3 DEF Belongs
<1>4. ASSUME NEW a \in Google, GoogleSignIn(a) PROVE Belongs'
    <2>1. screen = "login"
        BY <1>4, GoogleAtLogin
    <2>2. profile = None /\ upload = None /\ StoredRight'
        BY <1>0, <1>4, <2>1, NothingHeld, StaysRight DEF GoogleSignIn
    <2> QED BY <1>4, <2>1, <2>2, EnteredBelongs DEF GoogleSignIn, Leave, Prepare, ShowTabs
<1>5. ASSUME NEW r \in requests, GraphAnswers(r) PROVE Belongs'
    <2>1. screen = "login" /\ r.here
        BY <1>0 DEF InSteps
    <2>2. profile = None /\ upload = None /\ home = NoHome /\ listener = None /\ StoredRight'
        BY <1>0, <1>5, <2>1, NothingHeld, StaysRight DEF GraphAnswers
    <2>3. CASE r.kind = "tap"
        BY <1>5, <2>2, <2>3 DEF GraphAnswers, Belongs, NoHome
    <2>4. CASE r.kind # "tap"
        BY <1>5, <2>1, <2>2, <2>4, EnteredBelongs DEF GraphAnswers, Leave, Prepare, ShowTabs
    <2> QED BY <2>3, <2>4
<1>6. ASSUME NEW c \in checks, CheckDone(c) PROVE Belongs'
    <2>1. StoredRight'
        <3>1. /\ NewProfile(c.of) \in Profile /\ NewProfile(c.of).of = c.of
              /\ NewProfile(c.of).state # "expired"
            BY NewProfileFacts
        <3>2. ghosts' = ghosts /\ (docs' = docs \/ Save(c.of, NewProfile(c.of)))
            BY <1>6 DEF CheckDone, CreateIfMissing
        <3> QED BY <1>0, <3>1, <3>2, SavedRight
    <2>2. CASE c.of \in Google
        BY <1>0, <1>6, <2>1, <2>2 DEF CheckDone, Belongs
    <2>3. CASE c.of \in Facebook
        <3>1. screen = "login" /\ c.here
            BY <1>0, <2>3 DEF InSteps
        <3>2. profile = None /\ upload = None
            BY <1>0, <3>1, NothingHeld
        <3> QED BY <1>6, <2>1, <2>3, <3>1, <3>2, EnteredBelongs
                DEF CheckDone, Leave, Prepare, ShowTabs
    <2> QED BY <2>2, <2>3
<1>7. CASE OtherScreen
    <2>1. /\ screen = "login" /\ tokens' = tokens /\ googleUser' = None /\ tokens.email = None
          /\ cur = None
        BY <1>0, <1>7, SettledAtLogin DEF OtherScreen, Slip
    <2>2. profile = None /\ upload = None /\ home = NoHome /\ StoredRight'
        BY <1>0, <1>7, <2>1, NothingHeld, StaysRight DEF OtherScreen
    <2>3. listener' = None /\ profile' = None
        BY <1>7, <2>1, <2>2 DEF OtherScreen, Prepare, CurUser
    <2> QED BY <1>7, <2>2, <2>3 DEF OtherScreen, Belongs, NoHome
<1>8. CASE ReturnLogin
    <2>1. StoredRight'
        BY <1>0, <1>8, StaysRight DEF ReturnLogin
    <2> QED BY <1>0, <1>8, <2>1 DEF ReturnLogin, Belongs
<1>9. CASE ProfileSnapshot
    <2>1. listener \in Accounts
        <3>1. [by |-> "app", to |-> listener] \in Listening
            BY <1>9 DEF ProfileSnapshot, TypeOK
        <3> QED BY <3>1, ListeningFacts
    <2>2. StoredRight'
        BY <1>0, <1>9, StaysRight DEF ProfileSnapshot
    <2>3. profile' # None => profile'.of = listener
        BY <1>0, <1>9, <2>1 DEF ProfileSnapshot, Belongs, StoredRight
    <2> QED BY <1>0, <1>9, <2>2, <2>3 DEF ProfileSnapshot, Belongs
\* In the tabs every listener and every write is about one document.
<1>10. home.doc # None \/ screen = "tabs" => cur = home.doc /\ listener = cur /\ cur \in Accounts
    <2>1. CASE screen = "tabs"
        BY <1>0, <2>1 DEF InSteps, UserKnown
    <2>2. CASE screen # "tabs"
        <3>1. home = NoHome
            BY <1>0, <2>2 DEF Belongs
        <3>2. home.doc = None
            BY <3>1 DEF NoHome
        <3> QED BY <2>2, <3>2
    <2> QED BY <2>1, <2>2
<1>11. CASE HomeSnapshot
    <2>1. home.doc \in Accounts /\ cur = home.doc
        <3>1. [by |-> "home", to |-> home.doc] \in Listening
            BY <1>11 DEF HomeSnapshot, TypeOK
        <3> QED BY <1>10, <3>1, ListeningFacts
    <2>2. docs[home.doc] # None => /\ docs[home.doc] \in Profile /\ docs[home.doc].of = home.doc
                                   /\ Used(docs[home.doc]).of = home.doc
        BY <1>0, <2>1, ProfileFacts DEF StoredRight, Exists, TypeOK
    <2>3. StoredRight'
        <3>1. CASE docs' = docs
            BY <1>0, <1>11, <3>1, StaysRight DEF HomeSnapshot
        <3>2. CASE docs[home.doc] # None /\ Save(cur, Used(docs[home.doc]))
            <4>1. Used(docs[home.doc]) \in Profile /\ Used(docs[home.doc]).state # "expired"
                BY <2>2, <3>2, ProfileFacts
            <4> QED BY <1>0, <1>11, <2>1, <2>2, <3>2, <4>1, SavedRight DEF HomeSnapshot
        <3> QED BY <1>11, <3>1, <3>2 DEF HomeSnapshot, Verify
    <2>4. home'.doc = home.doc /\ (home'.profile # None => home'.profile.of = home.doc)
        BY <1>0, <1>11, <2>2 DEF HomeSnapshot, Belongs
    <2>5. screen = "tabs"
        <3>1. home # NoHome
            BY <2>1 DEF NoHome
        <3> QED BY <1>0, <3>1 DEF Belongs
    <2> QED BY <1>0, <1>11, <2>3, <2>4, <2>5 DEF HomeSnapshot, Belongs
<1>12. ASSUME NEW b \in ghosts, GhostSnapshot(b) PROVE Belongs'
    <2>1. docs' = docs
        BY <1>0, <1>12 DEF GhostSnapshot, Verify, StoredRight, Expired, Exists
    <2>2. StoredRight'
        BY <1>0, <1>12, <2>1, StaysRight DEF GhostSnapshot
    <2> QED BY <1>0, <1>12, <2>2 DEF GhostSnapshot, Belongs
<1>13. CASE SaveProfile
    <2>1. /\ Used(profile) \in Profile /\ Used(profile).of = cur /\ listener = cur
          /\ Used(profile).state # "expired"
        BY <1>0, <1>10, <1>13, ProfileFacts DEF SaveProfile, Belongs, TypeOK
    <2>2. StoredRight'
        BY <1>0, <1>13, <2>1, SavedRight DEF SaveProfile
    <2> QED BY <1>0, <1>13, <2>1, <2>2 DEF SaveProfile, Belongs
<1>14. CASE SaveHome
    <2>1. /\ Used(home.profile) \in Profile /\ Used(home.profile).of = cur /\ home.doc = cur
          /\ Used(home.profile).state # "expired"
        BY <1>0, <1>10, <1>14, ProfileFacts DEF SaveHome, Belongs
    <2>2. StoredRight'
        BY <1>0, <1>14, <2>1, SavedRight DEF SaveHome
    <2>3. home'.doc = home.doc /\ home'.profile = Used(home.profile)
        BY <1>0, <1>14 DEF SaveHome
    <2> QED BY <1>0, <1>14, <2>1, <2>2, <2>3 DEF SaveHome, Belongs
<1>15. CASE StartUpload
    <2>1. Used(home.profile).of = cur
        BY <1>0, <1>10, <1>15, ProfileFacts DEF StartUpload, Belongs
    <2>2. StoredRight'
        BY <1>0, <1>15, StaysRight DEF StartUpload
    <2> QED BY <1>0, <1>15, <2>1, <2>2 DEF StartUpload, Belongs
<1>16. CASE Uploaded
    <2>1. upload \in Profile /\ upload.of = cur /\ upload.state # "expired"
        BY <1>0, <1>16 DEF Uploaded, UploadUsed, Belongs, TypeOK
    <2>2. StoredRight'
        BY <1>0, <1>16, <2>1, SavedRight DEF Uploaded
    <2> QED BY <1>0, <1>16, <2>2 DEF Uploaded, Belongs
<1>17. CASE SignOut
    <2>1. upload = None /\ ~Expired(home.doc)
        BY <1>17 DEF SignOut, EndSession, Slip
    <2>2. StoredRight'
        BY <1>0, <1>17, <2>1 DEF SignOut, EndSession, StoredRight, Exists, Expired
    <2> QED BY <1>17, <2>1, <2>2 DEF SignOut, EndSession, NoHome, Belongs
<1>18. ASSUME NEW x \in Accounts, Elsewhere(x) PROVE Belongs'
    <2>1. StoredRight'
        <3>1. CASE Exists(x)
            <4>1. /\ Used(docs[x]) \in Profile /\ Used(docs[x]).of = x
                  /\ Used(docs[x]).state # "expired"
                BY <1>0, <3>1, ProfileFacts DEF StoredRight, Exists, TypeOK
            <4> QED BY <1>0, <1>18, <3>1, <4>1, SavedRight DEF Elsewhere
        <3>2. CASE ~Exists(x)
            <4>1. /\ NewProfile(x) \in Profile /\ NewProfile(x).of = x
                  /\ NewProfile(x).state # "expired"
                BY NewProfileFacts
            <4> QED BY <1>0, <1>18, <3>2, <4>1, SavedRight DEF Elsewhere
        <3> QED BY <3>1, <3>2
    <2> QED BY <1>0, <1>18, <2>1 DEF Elsewhere, Belongs
<1>19. ASSUME NEW x \in Accounts, Expire(x) PROVE Belongs'
    <2> DEFINE v == [docs[x] EXCEPT !.state = "expired"]
    <2>1. docs[x] \in Profile /\ docs[x].of = x /\ x \notin ghosts
        BY <1>0, <1>19 DEF Expire, Exists, Slip, StoredRight, TypeOK
    <2>2. v \in Profile /\ v.of = x
        BY <2>1 DEF Profile
    <2>3. Save(x, v) /\ ghosts' = ghosts
        BY <1>19 DEF Expire
    <2> HIDE DEF v
    <2>4. StoredRight'
        BY <1>0, <2>1, <2>2, <2>3, SavedRight
    <2> QED BY <1>0, <1>19, <2>4 DEF Expire, Belongs
<1>20. CASE Relaunch
    <2>1. StoredRight'
        BY <1>0, <1>20 DEF Relaunch, StoredRight, Exists, Expired
    <2> QED BY <1>20, <2>1 DEF Relaunch, NoHome, Belongs
<1>21. CASE \/ UNCHANGED vars
            \/ \E a \in Facebook : FacebookTap(a)
            \/ \E r \in requests : GraphFails(r)
            \/ \E c \in checks : CheckAnswered(c)
    <2>1. /\ docs' = docs /\ ghosts' = ghosts /\ screen' = screen /\ home' = home
          /\ upload' = upload /\ listener' = listener /\ profile' = profile /\ cur' = cur
        BY <1>21 DEF vars, FacebookTap, GraphFails, CheckAnswered
    <2>2. StoredRight'
        BY <1>0, <2>1, StaysRight
    <2> QED BY <1>0, <2>1, <2>2 DEF Belongs
<1>22. CASE \/ \E a \in Email : EmailSignIn(a) \/ SignUp(a)
            \/ CreateProfile \/ \E a \in Google : GoogleSignIn(a)
            \/ \E r \in requests : GraphAnswers(r)
            \/ \E c \in checks : CheckDone(c)
            \/ OtherScreen \/ ReturnLogin
    BY <1>1, <1>2, <1>3, <1>4, <1>5, <1>6, <1>7, <1>8, <1>22
<1>23. CASE \/ ProfileSnapshot \/ HomeSnapshot \/ \E b \in ghosts : GhostSnapshot(b)
            \/ SaveProfile \/ SaveHome \/ StartUpload \/ Uploaded \/ SignOut
            \/ \E x \in Accounts : Elsewhere(x) \/ Expire(x)
            \/ Relaunch
    BY <1>9, <1>11, <1>12, <1>13, <1>14, <1>15, <1>16, <1>17, <1>18, <1>19, <1>20, <1>23
<1>24. \/ Next \/ UNCHANGED vars
    OBVIOUS
<1> HIDE DEF IInv
<1> QED BY <1>21, <1>22, <1>23, <1>24 DEF Next

LEMMA UploadUsedStep == ASSUME IInv, [Next]_vars PROVE UploadUsed'
<1>1. CASE StartUpload
    <2>1. home.profile \in Profile
        BY <1>1 DEF StartUpload, IInv, TypeOK
    <2> QED BY <1>1, <2>1, ProfileFacts DEF StartUpload, UploadUsed
<1>2. CASE ~StartUpload
    <2>1. upload' = upload \/ upload' = None
        BY <1>2 DEF Next, vars, EmailSignIn, SignUp, CreateProfile, GoogleSignIn, FacebookTap,
           GraphAnswers, GraphFails, CheckAnswered, CheckDone, OtherScreen, ReturnLogin,
           ProfileSnapshot, HomeSnapshot, GhostSnapshot, SaveProfile, SaveHome, Uploaded,
           SignOut, EndSession, Elsewhere, Expire, Relaunch
    <2> QED BY <2>1 DEF IInv, UploadUsed
<1> QED BY <1>1, <1>2

-----------------------------------------------------------------------------
LEMMA InitIInv == ASSUME Init PROVE IInv
<1> USE SessionAssumption DEF Init, NoTokens, NoHome
<1>1. TypeOK
    BY DEF TypeOK
<1>2. UserKnown
    BY AccountFacts DEF UserKnown, Exists
<1>7. UploadUsed
    BY DEF UploadUsed
<1>3. OriginExists
    BY DEF OriginExists, Copies
<1>4. InSteps
    BY DEF InSteps, OneToken, Answered
<1>5. NewToAll
    BY DEF NewToAll
<1>6. Belongs
    BY DEF Belongs, StoredRight, Exists
<1> QED BY <1>1, <1>2, <1>3, <1>4, <1>5, <1>6, <1>7 DEF IInv

LEMMA NextIInv == ASSUME IInv, [Next]_vars PROVE IInv'
<1>1. TypeOK'
    BY NextType
<1>2. UserKnown'
    BY UserKnownStep
<1>6. UploadUsed'
    BY UploadUsedStep
<1>3. OriginExists'
    BY OriginExistsStep
<1>4. "offline" \notin slips' => InSteps' /\ NewToAll'
    BY SlipsStay, InStepsStep, NewToAllStep
<1>5. slips' = {} => Belongs'
    BY SlipsStay, BelongsStep
<1> QED BY <1>1, <1>2, <1>3, <1>4, <1>5, <1>6 DEF IInv

\* The inductive invariant.
THEOREM SessionInvariant == Spec => []IInv
<1>1. Init => IInv
    BY InitIInv
<1>2. IInv /\ [Next]_vars => IInv'
    BY NextIInv
<1> QED BY <1>1, <1>2, PTL DEF Spec

\* Type correctness, for any accounts, slips and number of launches.
THEOREM SessionTypeCorrect == Spec => []TypeOK
<1>1. IInv => TypeOK
    BY DEF IInv
<1> QED BY <1>1, SessionInvariant, PTL

\* In the tabs the globals and both listeners are about the user who is signed in,
\* if the questions a session is entered with are answered.
THEOREM SessionInTheirDocument == Spec => []InTheirDocument
<1>1. IInv => InTheirDocument
    BY DEF IInv, InSteps, InTheirDocument
<1> QED BY <1>1, SessionInvariant, PTL

\* In a session without slips nobody's profile comes to be in another user's document.
THEOREM SessionOwnDocument == Spec => []OwnDocument
<1>1. IInv => OwnDocument
    BY DEF IInv, Belongs, StoredRight, OwnDocument
<1> QED BY <1>1, SessionInvariant, PTL

\* A new profile is written only for whoever is given one ...
LEMMA NewOnlyGiven ==
    ASSUME IInv, [Next]_vars, NEW a \in Accounts, docs'[a] = NewProfile(a), docs[a] # NewProfile(a)
    PROVE  GivenNew(a)
<1> USE AccountFacts, TokenFacts DEF IInv
<1>1. NewProfile(a).state = "new" /\ NewProfile(a).of = a
    BY NewProfileFacts
<1>2. ASSUME NEW x, NEW v \in Profile, Save(x, v), v.state # "new" PROVE FALSE
    BY <1>1, <1>2 DEF Save, TypeOK
<1>3. ASSUME NEW p \in Profile \cup {None}, Verify(p) PROVE FALSE
    BY <1>2, <1>3, ProfileFacts DEF Verify
<1>4. CASE CreateProfile
    BY <1>4 DEF CreateProfile, Save, TypeOK, GivenNew
<1>5. ASSUME NEW c \in checks, CheckDone(c) PROVE GivenNew(a)
    BY <1>5 DEF CheckDone, CreateIfMissing, Save, TypeOK, GivenNew
<1>6. CASE HomeSnapshot
    <2>1. [by |-> "home", to |-> home.doc] \in Listening
        BY <1>6 DEF HomeSnapshot, TypeOK
    <2>2. docs[home.doc] \in Profile \cup {None}
        BY <2>1, ListeningFacts DEF TypeOK
    <2> QED BY <1>3, <1>6, <2>2 DEF HomeSnapshot
<1>7. ASSUME NEW b \in ghosts, GhostSnapshot(b) PROVE FALSE
    <2>1. docs[b] \in Profile \cup {None}
        BY DEF TypeOK
    <2> QED BY <1>3, <1>7, <2>1 DEF GhostSnapshot
<1>8. CASE SaveProfile
    BY <1>2, <1>8, ProfileFacts DEF SaveProfile, TypeOK
<1>9. CASE SaveHome
    BY <1>2, <1>9, ProfileFacts DEF SaveHome, TypeOK
<1>10. CASE Uploaded
    BY <1>2, <1>10 DEF Uploaded, UploadUsed, TypeOK
<1>11. ASSUME NEW x \in Accounts, Elsewhere(x) PROVE GivenNew(a)
    <2>1. CASE Exists(x)
        <3>1. docs[x] \in Profile
            BY <2>1 DEF Exists, TypeOK
        <3> QED BY <1>2, <1>11, <2>1, <3>1, ProfileFacts DEF Elsewhere
    <2>2. CASE ~Exists(x)
        BY <1>11, <2>2 DEF Elsewhere, Save, TypeOK, GivenNew
    <2> QED BY <2>1, <2>2
<1>12. ASSUME NEW x \in Accounts, Expire(x) PROVE FALSE
    <2>1. docs[x] \in Profile
        BY <1>12 DEF Expire, Exists, TypeOK
    <2>2. /\ [docs[x] EXCEPT !.state = "expired"] \in Profile
          /\ [docs[x] EXCEPT !.state = "expired"].state = "expired"
        BY <2>1 DEF Profile
    <2> QED BY <1>2, <1>12, <2>2 DEF Expire
<1>13. docs' # docs
    OBVIOUS
<1>14. \/ docs' = docs \/ CreateProfile \/ \E c \in checks : CheckDone(c)
       \/ HomeSnapshot \/ \E b \in ghosts : GhostSnapshot(b)
       \/ SaveProfile \/ SaveHome \/ Uploaded
       \/ \E x \in Accounts : Elsewhere(x) \/ Expire(x)
    BY DEF Next, vars, EmailSignIn, SignUp, GoogleSignIn, FacebookTap, GraphAnswers, GraphFails,
           CheckAnswered, OtherScreen, ReturnLogin, ProfileSnapshot, StartUpload,
           SignOut, EndSession, Relaunch
<1> QED BY <1>4, <1>5, <1>6, <1>7, <1>8, <1>9, <1>10, <1>11, <1>12, <1>13, <1>14

\* ... which is nobody who has one.
LEMMA GivenHadNone ==
    ASSUME IInv, "offline" \notin slips, NEW a \in Accounts, GivenNew(a)
    PROVE  docs[a] # Used(NewProfile(a))
<1>1. Used(NewProfile(a)) # None /\ Used(NewProfile(a)).of = a
    BY NewProfileFacts, ProfileFacts
<1>2. NoCopy(a) \/ ~Exists(a)
    BY DEF IInv, NewToAll, InSteps, GivenNew, CreateProfile
<1> QED BY <1>1, <1>2 DEF NoCopy, Copies, Exists

\* No profile in use is replaced by a new one, whoever signs in with any library and
\* whatever else goes wrong, if the questions whether there is one are answered.
THEOREM SessionNothingErased == Spec => NothingErased
<1> DEFINE Keeps == "offline" \notin slips => \A a \in Accounts :
               docs[a] = Used(NewProfile(a)) => docs'[a] # NewProfile(a)
<1>1. IInv /\ [Next]_vars => Keeps
    <2> SUFFICES ASSUME IInv, [Next]_vars, "offline" \notin slips, NEW a \in Accounts,
                        docs[a] = Used(NewProfile(a)), docs'[a] = NewProfile(a)
                 PROVE  FALSE
        OBVIOUS
    <2>1. Used(NewProfile(a)).state = "used" /\ NewProfile(a).state = "new"
        BY NewProfileFacts, ProfileFacts
    <2>2. docs[a] # NewProfile(a)
        BY <2>1
    <2> QED BY <2>2, NewOnlyGiven, GivenHadNone
<1>2. [Keeps]_vars <=> Keeps \/ UNCHANGED vars
    OBVIOUS
<1> QED BY <1>1, SessionInvariant, PTL DEF Spec, NothingErased
=============================================================================
