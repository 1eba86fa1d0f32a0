------------------------------- MODULE Lists -------------------------------
(***************************************************************************)
(* The screens that show what others have done: FriendsVC (the feed of     *)
(* posts), FriendsListVC, FriendRequestsVC and DiscoverVC.  Each keeps an  *)
(* array that callbacks fill and, but for the feed, the part of it a       *)
(* search leaves; the table asks for the rows it counted when it was last  *)
(* reloaded.                                                               *)
(*                                                                         *)
(* The first three ask for one document per person whenever they appear,   *)
(* and the loads of two appearances overlap.  DiscoverVC is loaded once    *)
(* and keeps its listeners: one for each batch of ten owners, whose        *)
(* documents are added to the first section on every snapshot, and one for *)
(* all public streaks, which fills the other two sections anew.            *)
(*                                                                         *)
(* An entry is a person and the version of that person's document (for     *)
(* DiscoverVC, of the streaks the person owns): a post or a streak each.   *)
(***************************************************************************)
EXTENDS Integers, Sequences, FiniteSets, Functions, Bags

CONSTANTS People, Me,
          BatchSize,    \* 10: what a query allows
          MaxLoads,     \* bound: how often the screen appears
          MaxChanges    \* bound: how often a document changes

ASSUME ListsAssumption == /\ IsFiniteSet(People) /\ Me \notin People
                          /\ BatchSize \in Nat \ {0}
                          /\ MaxLoads \in Nat /\ MaxChanges \in Nat

VARIABLES screen,     \* which of the four it is, or "crashed"
          docs,       \* the versions of the documents
          circle,     \* cur_user_profile.friends or .friendRequests
          array,      \* streakPosts, friends, requestedFriends, publicStreakz[0]
          public,     \* publicStreakz[1] and [2]
          filtered,   \* filteredFriends, filteredRequestedFriends, filteredPublicStreakz[0]
          text,       \* whom the search text leaves
          rows,       \* how many rows the table believes there are
          loads,      \* the loads under way, with whom is still to be answered for
          batches,    \* DiscoverVC's queries for friends' streaks
          due,        \* those that are due a snapshot; 0 is the one for public streaks
          started,    \* how many loads there were
          listed,     \* the circle at the last one
          fresh,      \* history: the documents at the last load
          calm,       \* history: no two loads overlapped
          failing     \* may a question fail in this behaviour

vars == <<screen, docs, circle, array, public, filtered, text, rows, loads, batches, due,
          started, listed, fresh, calm, failing>>

Owners == People \cup {Me}
Loading == {"feed", "friends", "requests"}
Entry == [who : Owners, version : 0..MaxChanges]
EntriesOf(people) == SetToBag({[who |-> p, version |-> docs[p]] : p \in people})
Of(bag, people) == [e \in {x \in DOMAIN bag : x.who \in people} |-> bag[e]]

\* How many places of an array its entries take.
Count(bag) == Cardinality(UNION {{e} \X (1..bag[e]) : e \in DOMAIN bag})
Copies(bag, p) == Count(Of(bag, {p}))

\* What the table's data source reads.
Table == IF screen = "feed" THEN array ELSE filtered

Reload == rows' = Count(IF screen = "feed" THEN array' ELSE filtered')

\* loadRequests does not wait for the last answer.
UnderWay(l) == {x \in {l} : screen # "requests" \/ x.left # {}}

\* Mutant: the tenth of each batch is left out.
BatchesShort(owners) ==
    [i \in 1..((Len(owners) + BatchSize - 1) \div BatchSize) |->
        {owners[k] : k \in {j \in DOMAIN owners : (i - 1) * BatchSize < j /\ j < i * BatchSize}}]

\* friendsCircle[i ... min(i + 9, count - 1)] for i = 0, 10, ...
Batches(owners) ==
    [i \in 1..((Len(owners) + BatchSize - 1) \div BatchSize) |->
        {owners[k] : k \in {j \in DOMAIN owners : (i - 1) * BatchSize < j /\ j <= i * BatchSize}}]

Init ==
    /\ screen \in Loading \cup {"discover"}
    /\ docs = [p \in Owners |-> 0]
    /\ circle \in SUBSET People
    /\ array = EmptyBag /\ filtered = EmptyBag /\ text = Owners /\ rows = 0
    /\ public = [friends |-> EmptyBag, others |-> EmptyBag]
    /\ loads = {} /\ batches = <<>> /\ due = {}
    /\ started = 0 /\ listed = {} /\ fresh = docs /\ calm = TRUE
    /\ failing \in BOOLEAN

-----------------------------------------------------------------------------
Load(start, shown) ==
    /\ screen \in Loading /\ started < MaxLoads
    /\ array' = start
    /\ filtered' = IF screen = "requests" THEN array' ELSE shown
    /\ rows' = IF screen = "requests" THEN Count(filtered') ELSE rows
    /\ loads' = loads \cup UnderWay([id |-> started, left |-> circle])
    /\ started' = started + 1
    /\ listed' = circle /\ fresh' = docs
    /\ calm' = (calm /\ loads = {})
    /\ UNCHANGED <<screen, docs, circle, public, text, batches, due, failing>>

\* Mutant: filteredFriends is emptied as well, and the table is not reloaded.
AppearEmpties == Load(EmptyBag, EmptyBag)

\* viewWillAppear of the three screens; pulling the feed down; a request dealt with:
\* the array is emptied, and asked for anew.  loadRequests reloads the table at
\* once, the two others when the last answer is there.
Appear == Load(EmptyBag, filtered)

\* The load l has p's answer.
Less(l, p) == loads' = (loads \ {l}) \cup UnderWay([l EXCEPT !.left = @ \ {p}])

\* The closure of getDocument.
Answered(l, p) ==
    /\ screen \in Loading /\ p \in l.left
    /\ Less(l, p)
    /\ array' = array (+) EntriesOf({p})
    /\ IF screen = "requests" THEN filtered' = array' /\ Reload
                              ELSE UNCHANGED <<filtered, rows>>
    /\ UNCHANGED <<screen, docs, circle, public, text, batches, due,
                   started, listed, fresh, calm, failing>>

\* Mutant: the person is listed, with nothing known.
UnansweredListed(l, p) ==
    /\ screen \in Loading /\ failing /\ p \in l.left
    /\ Less(l, p)
    /\ array' = array (+) SetToBag({[who |-> p, version |-> MaxChanges + 1]})
    /\ UNCHANGED <<screen, docs, circle, public, filtered, text, rows, batches, due,
                   started, listed, fresh, calm, failing>>

\* No document: data(as:) is nil and not an error.  loadRequests unwraps it.
Unanswered(l, p) ==
    /\ screen \in Loading /\ failing /\ p \in l.left
    /\ Less(l, p)
    /\ screen' = IF screen = "requests" THEN "crashed" ELSE screen
    /\ UNCHANGED <<docs, circle, array, public, filtered, text, rows, batches, due,
                   started, listed, fresh, calm, failing>>

\* dispatchGroup.notify: all of this load's answers are there.
Notify(l) ==
    /\ screen \in Loading /\ l.left = {}
    /\ loads' = loads \ {l}
    /\ IF screen = "friends" THEN filtered' = array ELSE UNCHANGED filtered
    /\ UNCHANGED array /\ Reload
    /\ UNCHANGED <<screen, docs, circle, public, text, batches, due,
                   started, listed, fresh, calm, failing>>

-----------------------------------------------------------------------------
\* DiscoverVC.viewDidLoad: nobody's friend has no friends' streaks, its own neither.
Discover ==
    /\ screen = "discover" /\ started = 0
    /\ started' = 1 /\ listed' = circle /\ fresh' = docs
    /\ \E order \in Surjection(1..Cardinality(circle), circle) :
           batches' = IF circle = {} THEN <<>> ELSE Batches(Append(order, Me))
    /\ due' = 0..Len(batches')
    /\ UNCHANGED <<screen, docs, circle, array, public, filtered, text, rows, loads,
                   calm, failing>>

\* A snapshot for one batch: its documents are added, whatever is there.
BatchSnapshot(i) ==
    /\ i \in due \ {0}
    /\ due' = due \ {i}
    /\ array' = array (+) EntriesOf(batches[i])
    /\ filtered' = array' /\ Reload
    /\ UNCHANGED <<screen, docs, circle, public, text, loads, batches,
                   started, listed, fresh, calm, failing>>

\* Whose public streaks are in the section for friends: profile is the one of
\* viewDidLoad.
Near == listed \cup {Me}

\* Mutant: the sections are not emptied before.
PublicSnapshotAdds ==
    /\ 0 \in due
    /\ due' = due \ {0}
    /\ public' = [friends |-> public.friends (+) EntriesOf(Near),
                  others |-> public.others (+) EntriesOf(Owners \ Near)]
    /\ filtered' = array /\ UNCHANGED array /\ Reload
    /\ UNCHANGED <<screen, docs, circle, text, loads, batches,
                   started, listed, fresh, calm, failing>>

\* A snapshot of all public streaks.
PublicSnapshot ==
    /\ 0 \in due
    /\ due' = due \ {0}
    /\ public' = [friends |-> EntriesOf(Near), others |-> EntriesOf(Owners \ Near)]
    /\ filtered' = array /\ UNCHANGED array /\ Reload
    /\ UNCHANGED <<screen, docs, circle, text, loads, batches,
                   started, listed, fresh, calm, failing>>

-----------------------------------------------------------------------------
\* searchBar(_:textDidChange:)
Search ==
    /\ screen \notin {"feed", "crashed"} /\ started > 0
    /\ \E found \in SUBSET Owners :
           /\ text' = found
           /\ filtered' = Of(array, found)
    /\ UNCHANGED array /\ Reload
    /\ UNCHANGED <<screen, docs, circle, public, loads, batches, due,
                   started, listed, fresh, calm, failing>>

\* Somebody posts, or changes a streak: the listeners are due it.
Change(p) ==
    /\ docs[p] < MaxChanges
    /\ docs' = [docs EXCEPT ![p] = @ + 1]
    /\ due' = IF screen = "discover" /\ started > 0
              THEN due \cup {0} \cup {i \in DOMAIN batches : p \in batches[i]} ELSE due
    /\ UNCHANGED <<screen, circle, array, public, filtered, text, rows, loads, batches,
                   started, listed, fresh, calm, failing>>

\* The listener of cur_user_profile: another friend, or one less.
CircleChanges(p) ==
    /\ circle' = IF p \in circle THEN circle \ {p} ELSE circle \cup {p}
    /\ UNCHANGED <<screen, docs, array, public, filtered, text, rows, loads, batches, due,
                   started, listed, fresh, calm, failing>>

Next ==
    \/ Appear
    \/ \E l \in loads : Notify(l) \/ \E p \in People : Answered(l, p) \/ Unanswered(l, p)
    \/ Discover \/ PublicSnapshot \/ \E i \in DOMAIN batches : BatchSnapshot(i)
    \/ Search
    \/ \E p \in Owners : Change(p)
    \/ \E p \in People : CircleChanges(p)

Spec == Init /\ [][Next]_vars
-----------------------------------------------------------------------------
\* Type invariant.
TypeOK ==
    /\ screen \in Loading \cup {"discover", "crashed"}
    /\ docs \in [Owners -> 0..MaxChanges] /\ fresh \in [Owners -> 0..MaxChanges]
    /\ circle \in SUBSET People /\ listed \in SUBSET People /\ text \in SUBSET Owners
    /\ \A bag \in {array, filtered, public.friends, public.others} :
           IsABag(bag) /\ DOMAIN bag \subseteq Entry
    /\ rows \in Nat /\ started \in Nat
    /\ loads \in SUBSET [id : Nat, left : SUBSET People]
    /\ batches \in Seq(SUBSET Owners) /\ due \in SUBSET (0..Len(batches))
    /\ calm \in BOOLEAN /\ failing \in BOOLEAN

AtRest == started > 0 /\ loads = {} /\ due = {} /\ screen # "crashed"

\* Whom the screen is to show: DiscoverVC one's own streaks as well.
Wanted == IF screen = "discover" /\ listed # {} THEN listed \cup {Me} ELSE listed

\* When everything is answered nobody of the circle is missing, and nobody is older
\* than when the screen was loaded, or for DiscoverVC, than the document; without a
\* search text all of it can be seen.  (The queries' batches; notify; the closures
\* of older loads, which add to the array of the newer one.)
NobodyMissing ==
    AtRest /\ ~failing =>
        /\ \A p \in Wanted : \E e \in DOMAIN array :
               e.who = p /\ e.version >= IF screen = "discover" THEN docs[p] ELSE fresh[p]
        /\ text = Owners => Table = array

\* Nobody is there twice, or without being in the circle, as long as no two loads
\* overlap; the public streaks are there once whatever happens, as they are now, in
\* the section of friends or the other one.
EachOnce ==
    AtRest =>
        /\ screen # "discover" /\ calm /\ ~failing =>
               \A p \in Owners : Copies(array, p) = IF p \in listed THEN 1 ELSE 0
        /\ screen = "discover" =>
               /\ public.friends (+) public.others = EntriesOf(Owners)
               /\ \A p \in Owners : Copies(public.friends, p) = 1 <=> p \in Near

\* The table never asks for a row that is not there, but for the feed while it is
\* loaded: streakPosts is emptied and the table not reloaded (FriendsVC.swift:67
\* and :113), so a row that scrolls into view then is read beyond the array's end.
RowsExist ==
    rows > Count(Table) => screen = "feed" /\ loads # {}
=============================================================================
