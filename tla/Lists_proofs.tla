---------------------------- MODULE Lists_proofs ----------------------------
(* The lists hold whom they should, and the table never asks for a row that  *)
(* is not there but for the feed: for any number of people, loads, changes   *)
(* and any size of the batches.                                              *)
EXTENDS Lists, FiniteSetTheorems, TLAPS

\* The table has been reloaded since what it shows was changed.
RowsCounted == screen # "feed" \/ loads = {} => rows = Count(Table)

\* Loads are told apart by their numbers.
LoadsNumbered ==
    /\ \A l \in loads : l.id < started
    /\ \A l, k \in loads : l.id = k.id => l = k
    /\ screen = "requests" => \A l \in loads : l.left # {}
    /\ screen = "discover" => loads = {}
    /\ \A p \in Owners : docs[p] >= fresh[p]

\* An answer the last load has not got is still to come.
Pending(p) == \E l \in loads : l.id = started - 1 /\ p \in l.left
LoadedSoFar ==
    screen \in Loading /\ ~failing =>
        \A p \in listed : \/ Pending(p)
                          \/ \E e \in DOMAIN array : e.who = p /\ e.version >= fresh[p]

\* Without a search text the screen shows all there is.
ShownWhole ==
    /\ screen \in {"requests", "discover"} /\ text = Owners => filtered = array
    /\ screen = "friends" /\ text = Owners /\ loads = {} => filtered = array

\* As long as loads do not overlap there is one, and it lists each person once.
OneLoad ==
    screen \in Loading /\ calm =>
        /\ \A l \in loads : l.id = started - 1 /\ l.left \subseteq listed
        /\ \A e \in DOMAIN array : /\ array[e] = 1 /\ e.who \in listed
                                   /\ \A l \in loads : e.who \notin l.left
        /\ \A e, f \in DOMAIN array : e.who = f.who => e = f

\* DiscoverVC's queries cover whom it is to show; a listener that is not due a
\* snapshot has delivered the documents as they are.
Covers ==
    /\ screen # "discover" \/ started = 0 => due = {} /\ batches = <<>>
    /\ screen = "discover" /\ started = 0 => listed = {}
    /\ screen = "discover" /\ started > 0 =>
        /\ \A p \in Wanted : \E i \in DOMAIN batches : p \in batches[i]
        /\ \A i \in DOMAIN batches : \A p \in batches[i] :
               i \in due \/ \E e \in DOMAIN array : e.who = p /\ e.version >= docs[p]
        /\ 0 \in due \/ public = [friends |-> EntriesOf(Near), others |-> EntriesOf(Owners \ Near)]

IInv ==
    /\ TypeOK
    /\ RowsCounted
    /\ LoadsNumbered
    /\ LoadedSoFar
    /\ ShownWhole
    /\ OneLoad
    /\ Covers

-----------------------------------------------------------------------------
\* Arrays.

LEMMA SumOfBags ==
    ASSUME NEW A, NEW B, IsABag(A), IsABag(B)
    PROVE  /\ IsABag(A (+) B) /\ DOMAIN (A (+) B) = (DOMAIN A) \cup (DOMAIN B)
           /\ \A e \in (DOMAIN A) \ (DOMAIN B) : (A (+) B)[e] = A[e]
           /\ \A e \in (DOMAIN B) \ (DOMAIN A) : (A (+) B)[e] = B[e]
BY DEF IsABag, (+)

LEMMA NoEntries == IsABag(EmptyBag) /\ DOMAIN EmptyBag = {}
BY DEF IsABag, EmptyBag, SetToBag

LEMMA EntriesFacts ==
    ASSUME docs \in [Owners -> 0..MaxChanges], NEW people \in SUBSET Owners
    PROVE  /\ IsABag(EntriesOf(people)) /\ DOMAIN EntriesOf(people) \subseteq Entry
           /\ DOMAIN EntriesOf(people) = {[who |-> p, version |-> docs[p]] : p \in people}
           /\ \A e \in DOMAIN EntriesOf(people) :
                  e.who \in people /\ e.version = docs[e.who] /\ EntriesOf(people)[e] = 1
BY DEF IsABag, EntriesOf, SetToBag, Entry

LEMMA PartFacts ==
    ASSUME NEW bag, IsABag(bag), DOMAIN bag \subseteq Entry, NEW people
    PROVE  /\ IsABag(Of(bag, people)) /\ DOMAIN Of(bag, people) \subseteq Entry
           /\ DOMAIN Of(bag, people) = {e \in DOMAIN bag : e.who \in people}
           /\ \A e \in DOMAIN Of(bag, people) : Of(bag, people)[e] = bag[e]
           /\ people = Owners => Of(bag, people) = bag
<1>1. /\ IsABag(Of(bag, people)) /\ DOMAIN Of(bag, people) \subseteq Entry
      /\ DOMAIN Of(bag, people) = {e \in DOMAIN bag : e.who \in people}
      /\ \A e \in DOMAIN Of(bag, people) : Of(bag, people)[e] = bag[e]
    BY DEF IsABag, Of
<1>2. ASSUME people = Owners PROVE Of(bag, people) = bag
    <2>1. {e \in DOMAIN bag : e.who \in people} = DOMAIN bag
        BY <1>2 DEF Entry
    <2>2. bag = [e \in DOMAIN bag |-> bag[e]]
        BY DEF IsABag
    <2> QED BY <2>1, <2>2 DEF Of
<1> QED BY <1>1, <1>2

LEMMA OwnersFinite == IsFiniteSet(Owners)
BY ListsAssumption, FS_AddElement DEF Owners

LEMMA EntriesFinite == IsFiniteSet(Entry)
<1> DEFINE pair == [w \in Owners \X (0..MaxChanges) |-> [who |-> w[1], version |-> w[2]]]
<1>1. IsFiniteSet(0..MaxChanges)
    BY ListsAssumption, FS_Interval
<1>2. IsFiniteSet(Owners \X (0..MaxChanges))
    BY <1>1, OwnersFinite, FS_Product
<1>3. pair \in Surjection(Owners \X (0..MaxChanges), Entry)
    <2>1. pair \in [Owners \X (0..MaxChanges) -> Entry]
        BY DEF Entry
    <2>2. ASSUME NEW e \in Entry
          PROVE  <<e.who, e.version>> \in Owners \X (0..MaxChanges) /\ pair[<<e.who, e.version>>] = e
        BY DEF Entry
    <2> QED BY <2>1, <2>2 DEF Surjection
<1> QED BY <1>2, <1>3, FS_Surjection

LEMMA CountIsNat ==
    ASSUME NEW bag, IsABag(bag), DOMAIN bag \subseteq Entry
    PROVE  Count(bag) \in Nat
<1> DEFINE places == [e \in DOMAIN bag |-> {e} \X (1..bag[e])]
           all == {{e} \X (1..bag[e]) : e \in DOMAIN bag}
<1>1. IsFiniteSet(DOMAIN bag)
    BY EntriesFinite, FS_Subset
<1>2. places \in Surjection(DOMAIN bag, all)
    BY DEF Surjection
<1>3. IsFiniteSet(all)
    BY <1>1, <1>2, FS_Surjection
<1>4. ASSUME NEW e \in DOMAIN bag PROVE IsFiniteSet({e} \X (1..bag[e]))
    <2>1. bag[e] \in Nat
        BY DEF IsABag
    <2>2. IsFiniteSet({e})
        BY FS_Singleton
    <2>3. \A n \in Nat : IsFiniteSet(1..n)
        BY FS_Interval
    <2> QED BY <2>1, <2>2, <2>3, FS_Product
<1>5. \A places2 \in all : IsFiniteSet(places2)
    BY <1>4
<1> HIDE DEF all
<1>6. IsFiniteSet(UNION all)
    BY <1>3, <1>5, FS_UNION
<1> QED BY <1>6, FS_CardinalityType DEF Count, all

LEMMA CountNone == Count(EmptyBag) = 0
<1>1. UNION {{e} \X (1..EmptyBag[e]) : e \in DOMAIN EmptyBag} = {}
    BY NoEntries
<1> QED BY <1>1, FS_EmptySet DEF Count

\* One entry, once.
LEMMA CountOne ==
    ASSUME NEW bag, NEW e, DOMAIN bag = {e}, bag[e] = 1
    PROVE  Count(bag) = 1
<1>1. UNION {{x} \X (1..bag[x]) : x \in DOMAIN bag} = {<<e, 1>>}
    <2>1. 1..bag[e] = {1}
        OBVIOUS
    <2> QED BY <2>1
<1> QED BY <1>1, FS_Singleton DEF Count

LEMMA CountNothing ==
    ASSUME NEW bag, DOMAIN bag = {} PROVE Count(bag) = 0
<1>1. UNION {{e} \X (1..bag[e]) : e \in DOMAIN bag} = {}
    OBVIOUS
<1> QED BY <1>1, FS_EmptySet DEF Count

-----------------------------------------------------------------------------
\* DiscoverVC's batches.

LEMMA BatchesType ==
    ASSUME NEW owners \in Seq(Owners)
    PROVE  Batches(owners) \in Seq(SUBSET Owners)
<1> DEFINE n == (Len(owners) + BatchSize - 1) \div BatchSize
           batch(i) == {owners[k] : k \in {j \in DOMAIN owners :
                                              (i - 1) * BatchSize < j /\ j <= i * BatchSize}}
<1>1. Len(owners) \in Nat /\ BatchSize \in Nat \ {0}
    BY ListsAssumption
<1>2. n \in Nat
    BY <1>1
<1>3. \A i \in 1..n : batch(i) \in SUBSET Owners
    <2>1. \A k \in DOMAIN owners : owners[k] \in Owners
        OBVIOUS
    <2> QED BY <2>1
<1> HIDE DEF n, batch
<1>4. [i \in 1..n |-> batch(i)] \in Seq(SUBSET Owners)
    BY <1>2, <1>3
<1> QED BY <1>4 DEF Batches, n, batch

\* Everybody is in one of them.
LEMMA BatchesCover ==
    ASSUME NEW owners \in Seq(Owners), NEW k \in DOMAIN owners
    PROVE  \E i \in DOMAIN Batches(owners) : owners[k] \in Batches(owners)[i]
<1> DEFINE n == (Len(owners) + BatchSize - 1) \div BatchSize
           q == (k - 1) \div BatchSize
<1>1. /\ Len(owners) \in Nat /\ BatchSize \in Nat /\ BatchSize >= 1
      /\ k \in Nat /\ 1 <= k /\ k <= Len(owners)
    BY ListsAssumption
<1>2. \A x \in Nat : /\ x \div BatchSize \in Nat
                     /\ (x \div BatchSize) * BatchSize <= x
                     /\ x < (x \div BatchSize) * BatchSize + BatchSize
    BY <1>1
<1>3. q \in Nat /\ n \in Nat /\ q * BatchSize <= k - 1 /\ k <= q * BatchSize + BatchSize
    BY <1>1, <1>2
<1>4. Len(owners) <= n * BatchSize
    BY <1>1, <1>2
<1> HIDE DEF n, q
<1>5. q + 1 <= n
    <2>1. q * BatchSize < n * BatchSize
        BY <1>1, <1>3, <1>4
    <2>2. \A a, b, c \in Nat : a >= b => a * c >= b * c
        OBVIOUS
    <2> QED BY <1>1, <1>3, <2>1, <2>2
<1>6. q + 1 \in 1..n /\ (q + 1 - 1) * BatchSize < k /\ k <= (q + 1) * BatchSize
    <2>1. q + 1 - 1 = q /\ (q + 1) * BatchSize = q * BatchSize + BatchSize
        BY <1>1, <1>3
    <2> QED BY <1>1, <1>3, <1>5, <2>1
<1> DEFINE places(i) == {j \in DOMAIN owners : (i - 1) * BatchSize < j /\ j <= i * BatchSize}
           batch(i) == {owners[x] : x \in places(i)}
<1>7. k \in places(q + 1)
    BY <1>1, <1>3, <1>6
<1>9. Batches(owners) = [i \in 1..n |-> batch(i)]
    BY DEF Batches, n
<1> HIDE DEF places
<1>8. owners[k] \in batch(q + 1)
    BY <1>7
<1> HIDE DEF batch
<1> QED BY <1>6, <1>8, <1>9

LEMMA DiscoverBatches ==
    ASSUME TypeOK, Discover
    PROVE  /\ batches' \in Seq(SUBSET Owners)
           /\ circle # {} => \A p \in circle \cup {Me} : \E i \in DOMAIN batches' : p \in batches'[i]
<1> PICK order \in Surjection(1..Cardinality(circle), circle) :
        batches' = IF circle = {} THEN <<>> ELSE Batches(Append(order, Me))
    BY DEF Discover
<1>1. CASE circle = {}
    BY <1>1
<1>2. CASE circle # {}
    <2> DEFINE owners == Append(order, Me)
    <2>1. Cardinality(circle) \in Nat
        BY ListsAssumption, FS_Subset, FS_CardinalityType DEF TypeOK
    <2>2. order \in Seq(Owners) /\ Len(order) = Cardinality(circle)
        BY <2>1 DEF Surjection, TypeOK, Owners
    <2>3. owners \in Seq(Owners) /\ owners[Len(order) + 1] = Me
          /\ DOMAIN owners = 1..(Len(order) + 1)
          /\ \A k \in 1..Len(order) : owners[k] = order[k]
        BY <2>2 DEF Owners
    <2>4. \A p \in circle \cup {Me} : \E k \in DOMAIN owners : owners[k] = p
        BY <2>1, <2>2, <2>3 DEF Surjection
    <2> HIDE DEF owners
    <2>5. batches' = Batches(owners)
        BY <1>2 DEF owners
    <2> QED BY <2>3, <2>4, <2>5, BatchesType, BatchesCover
<1> QED BY <1>1, <1>2

-----------------------------------------------------------------------------
\* Loads.

LoadType == [id : Nat, left : SUBSET People]

\* The load l, with p's answer.
After(l, p) == [l EXCEPT !.left = @ \ {p}]

LEMMA AfterFacts ==
    ASSUME NEW l \in LoadType, NEW p
    PROVE  After(l, p) \in LoadType /\ After(l, p).id = l.id /\ After(l, p).left = l.left \ {p}
BY DEF After, LoadType

LEMMA LessFacts ==
    ASSUME TypeOK, NEW l \in loads, NEW p, Less(l, p)
    PROVE  /\ loads' \in SUBSET LoadType
           /\ loads' \subseteq (loads \ {l}) \cup {After(l, p)} /\ loads \ {l} \subseteq loads'
           /\ screen # "requests" \/ After(l, p).left # {} => After(l, p) \in loads'
           /\ screen = "requests" /\ After(l, p) \in loads' =>
                  After(l, p) \in loads \ {l} \/ After(l, p).left # {}
<1>1. l \in LoadType /\ loads \in SUBSET LoadType
    BY DEF TypeOK, LoadType
<1>2. loads' = (loads \ {l}) \cup {x \in {After(l, p)} : screen # "requests" \/ x.left # {}}
    BY DEF Less, UnderWay, After
<1> QED BY <1>1, <1>2, AfterFacts

-----------------------------------------------------------------------------
\* Types.

LEMMA ArraysType ==
    ASSUME TypeOK
    PROVE  /\ IsABag(array) /\ DOMAIN array \subseteq Entry
           /\ IsABag(filtered) /\ DOMAIN filtered \subseteq Entry
           /\ IsABag(public.friends) /\ DOMAIN public.friends \subseteq Entry
           /\ IsABag(public.others) /\ DOMAIN public.others \subseteq Entry
BY DEF TypeOK

\* The documents of these people are added.
LEMMA AddedEntries ==
    ASSUME TypeOK, NEW people \in SUBSET Owners
    PROVE  /\ IsABag(array (+) EntriesOf(people))
           /\ DOMAIN (array (+) EntriesOf(people)) \subseteq Entry
           /\ DOMAIN (array (+) EntriesOf(people)) =
                  (DOMAIN array) \cup {[who |-> p, version |-> docs[p]] : p \in people}
<1>1. IsABag(array) /\ DOMAIN array \subseteq Entry
    BY ArraysType
<1>2. /\ IsABag(EntriesOf(people)) /\ DOMAIN EntriesOf(people) \subseteq Entry
      /\ DOMAIN EntriesOf(people) = {[who |-> p, version |-> docs[p]] : p \in people}
    BY EntriesFacts DEF TypeOK
<1> QED BY <1>1, <1>2, SumOfBags

LEMMA ReloadType ==
    ASSUME Reload, IsABag(array'), DOMAIN array' \subseteq Entry,
           IsABag(filtered'), DOMAIN filtered' \subseteq Entry
    PROVE  rows' \in Nat
BY CountIsNat DEF Reload

LEMMA TypeStep == ASSUME TypeOK, [Next]_vars PROVE TypeOK'
<1>1. CASE UNCHANGED vars
    BY <1>1 DEF vars, TypeOK
<1>2. CASE Appear
    <2>1. IsABag(array') /\ DOMAIN array' \subseteq Entry
        BY <1>2, NoEntries DEF Appear, Load
    <2>2. IsABag(filtered') /\ DOMAIN filtered' \subseteq Entry
        BY <1>2, <2>1, ArraysType DEF Appear, Load
    <2>3. rows' \in Nat
        BY <1>2, <2>2, CountIsNat DEF Appear, Load, TypeOK
    <2>4. loads' \in SUBSET LoadType
        BY <1>2 DEF Appear, Load, UnderWay, TypeOK, LoadType
    <2> QED BY <1>2, <2>1, <2>2, <2>3, <2>4 DEF Appear, Load, TypeOK, LoadType
<1>3. ASSUME NEW l \in loads, NEW p \in People, Answered(l, p) PROVE TypeOK'
    <2>1. IsABag(array') /\ DOMAIN array' \subseteq Entry
        <3>1. {p} \in SUBSET Owners
            BY DEF Owners
        <3> QED BY <1>3, <3>1, AddedEntries DEF Answered
    <2>2. IsABag(filtered') /\ DOMAIN filtered' \subseteq Entry
        BY <1>3, <2>1, ArraysType DEF Answered
    <2>3. rows' \in Nat
        BY <1>3, <2>1, <2>2, ReloadType DEF Answered, TypeOK
    <2>4. loads' \in SUBSET LoadType
        BY <1>3, LessFacts DEF Answered
    <2> QED BY <1>3, <2>1, <2>2, <2>3, <2>4 DEF Answered, TypeOK, LoadType
<1>4. ASSUME NEW l \in loads, NEW p \in People, Unanswered(l, p) PROVE TypeOK'
    <2>1. loads' \in SUBSET LoadType
        BY <1>4, LessFacts DEF Unanswered
    <2> QED BY <1>4, <2>1 DEF Unanswered, TypeOK, LoadType
<1>5. ASSUME NEW l \in loads, Notify(l) PROVE TypeOK'
    <2>1. /\ IsABag(array') /\ DOMAIN array' \subseteq Entry
          /\ IsABag(filtered') /\ DOMAIN filtered' \subseteq Entry
        BY <1>5, ArraysType DEF Notify
    <2>2. rows' \in Nat
        BY <1>5, <2>1, ReloadType DEF Notify
    <2> QED BY <1>5, <2>1, <2>2 DEF Notify, TypeOK
<1>6. CASE Discover
    <2>1. batches' \in Seq(SUBSET Owners)
        BY <1>6, DiscoverBatches
    <2>2. due' \in SUBSET (0..Len(batches'))
        BY <1>6 DEF Discover
    <2> QED BY <1>6, <2>1, <2>2 DEF Discover, TypeOK
<1>7. ASSUME NEW i \in DOMAIN batches, BatchSnapshot(i) PROVE TypeOK'
    <2>1. IsABag(array') /\ DOMAIN array' \subseteq Entry
        <3>1. batches[i] \in SUBSET Owners
            BY DEF TypeOK
        <3> QED BY <1>7, <3>1, AddedEntries DEF BatchSnapshot
    <2>2. IsABag(filtered') /\ DOMAIN filtered' \subseteq Entry
        BY <1>7, <2>1 DEF BatchSnapshot
    <2>3. rows' \in Nat
        BY <1>7, <2>1, <2>2, ReloadType DEF BatchSnapshot
    <2> QED BY <1>7, <2>1, <2>2, <2>3 DEF BatchSnapshot, TypeOK
<1>8. CASE PublicSnapshot
    <2>1. /\ IsABag(public'.friends) /\ DOMAIN public'.friends \subseteq Entry
          /\ IsABag(public'.others) /\ DOMAIN public'.others \subseteq Entry
        <3>1. Near \in SUBSET Owners /\ Owners \ Near \in SUBSET Owners
            BY DEF Near, Owners, TypeOK
        <3>2. /\ public'.friends = EntriesOf(Near)
              /\ public'.others = EntriesOf(Owners \ Near)
            BY <1>8 DEF PublicSnapshot
        <3> QED BY <3>1, <3>2, EntriesFacts DEF TypeOK
    <2>2. /\ IsABag(array') /\ DOMAIN array' \subseteq Entry
          /\ IsABag(filtered') /\ DOMAIN filtered' \subseteq Entry
        BY <1>8, ArraysType DEF PublicSnapshot
    <2>3. rows' \in Nat
        BY <1>8, <2>2, ReloadType DEF PublicSnapshot
    <2> QED BY <1>8, <2>1, <2>2, <2>3 DEF PublicSnapshot, TypeOK
<1>9. CASE Search
    <2>1. IsABag(array') /\ DOMAIN array' \subseteq Entry
        BY <1>9, ArraysType DEF Search
    <2>2. IsABag(filtered') /\ DOMAIN filtered' \subseteq Entry
        BY <1>9, ArraysType, PartFacts DEF Search
    <2>3. rows' \in Nat
        BY <1>9, <2>1, <2>2, ReloadType DEF Search
    <2> QED BY <1>9, <2>1, <2>2, <2>3 DEF Search, TypeOK
<1>10. ASSUME NEW p \in Owners, Change(p) PROVE TypeOK'
    <2>1. docs' \in [Owners -> 0..MaxChanges]
        <3>1. docs[p] + 1 \in 0..MaxChanges
            BY <1>10, ListsAssumption DEF Change, TypeOK
        <3> QED BY <1>10, <3>1 DEF Change, TypeOK
    <2>2. due' \in SUBSET (0..Len(batches'))
        <3>1. DOMAIN batches \subseteq 0..Len(batches) /\ 0 \in 0..Len(batches)
            BY DEF TypeOK
        <3> QED BY <1>10, <3>1 DEF Change, TypeOK
    <2> QED BY <1>10, <2>1, <2>2 DEF Change, TypeOK
<1>11. ASSUME NEW p \in People, CircleChanges(p) PROVE TypeOK'
    BY <1>11 DEF CircleChanges, TypeOK
<1> QED BY <1>1, <1>2, <1>3, <1>4, <1>5, <1>6, <1>7, <1>8, <1>9, <1>10, <1>11 DEF Next

-----------------------------------------------------------------------------
\* The table and what is shown.

LEMMA RowsCountedStep == ASSUME TypeOK, RowsCounted, LoadsNumbered, [Next]_vars PROVE RowsCounted'
<1>1. CASE Appear
    <2>1. screen # "requests" => loads' # {}
        BY <1>1 DEF Appear, Load, UnderWay
    <2> QED BY <1>1, <2>1 DEF Appear, Load, RowsCounted, Table, Loading
<1>2. ASSUME NEW l \in loads, NEW p \in People, Answered(l, p) PROVE RowsCounted'
    <2>1. screen = "feed" => loads' # {}
        BY <1>2, LessFacts DEF Answered
    <2> QED BY <1>2, <2>1 DEF Answered, RowsCounted, Reload, Table, Loading
<1>3. ASSUME NEW l \in loads, NEW p \in People, Unanswered(l, p) PROVE RowsCounted'
    <2>1. screen = "feed" => loads' # {}
        BY <1>3, LessFacts DEF Unanswered
    <2> QED BY <1>3, <2>1 DEF Unanswered, RowsCounted, Table, Loading
<1>4. ASSUME NEW l \in loads, Notify(l) PROVE RowsCounted'
    BY <1>4 DEF Notify, RowsCounted, Reload, Table
<1>5. CASE Discover
    BY <1>5 DEF Discover, RowsCounted, Table
<1>6. ASSUME NEW i \in DOMAIN batches, BatchSnapshot(i) PROVE RowsCounted'
    BY <1>6 DEF BatchSnapshot, RowsCounted, Reload, Table
<1>7. CASE PublicSnapshot \/ Search
    BY <1>7 DEF PublicSnapshot, Search, RowsCounted, Reload, Table
<1>8. CASE \/ UNCHANGED vars
           \/ \E p \in Owners : Change(p)
           \/ \E p \in People : CircleChanges(p)
    BY <1>8 DEF vars, Change, CircleChanges, RowsCounted, Table
<1> QED BY <1>1, <1>2, <1>3, <1>4, <1>5, <1>6, <1>7, <1>8 DEF Next

LEMMA ShownWholeStep == ASSUME TypeOK, ShownWhole, LoadsNumbered, Covers, [Next]_vars PROVE ShownWhole'
<1>1. CASE Appear
    <2>1. screen # "requests" => loads' # {}
        BY <1>1 DEF Appear, Load, UnderWay
    <2> QED BY <1>1, <2>1 DEF Appear, Load, ShownWhole, Loading
<1>2. ASSUME NEW l \in loads, NEW p \in People, Answered(l, p) PROVE ShownWhole'
    <2>1. screen # "requests" => loads' # {}
        BY <1>2, LessFacts DEF Answered
    <2> QED BY <1>2, <2>1 DEF Answered, ShownWhole, Loading
<1>3. ASSUME NEW l \in loads, NEW p \in People, Unanswered(l, p) PROVE ShownWhole'
    <2>1. screen # "requests" => loads' # {}
        BY <1>3, LessFacts DEF Unanswered
    <2> QED BY <1>3, <2>1 DEF Unanswered, ShownWhole, Loading
<1>4. ASSUME NEW l \in loads, Notify(l) PROVE ShownWhole'
    BY <1>4 DEF Notify, ShownWhole, Loading
<1>5. CASE Discover
    BY <1>5 DEF Discover, ShownWhole
<1>6. ASSUME NEW i \in DOMAIN batches, BatchSnapshot(i) PROVE ShownWhole'
    BY <1>6 DEF BatchSnapshot, ShownWhole
<1>7. CASE PublicSnapshot
    BY <1>7 DEF PublicSnapshot, ShownWhole
<1>8. CASE Search
    <2>1. text' = Owners => filtered' = array
        BY <1>8, ArraysType, PartFacts DEF Search
    <2> QED BY <1>8, <2>1 DEF Search, ShownWhole
<1>9. CASE \/ UNCHANGED vars
           \/ \E p \in Owners : Change(p)
           \/ \E p \in People : CircleChanges(p)
    BY <1>9 DEF vars, Change, CircleChanges, ShownWhole
<1> QED BY <1>1, <1>2, <1>3, <1>4, <1>5, <1>6, <1>7, <1>8, <1>9 DEF Next

-----------------------------------------------------------------------------
\* The loads of the three screens.

LEMMA LoadsNumberedStep == ASSUME TypeOK, LoadsNumbered, Covers, [Next]_vars PROVE LoadsNumbered'
<1> USE DEF TypeOK
<1>1. CASE Appear
    <2>1. /\ loads' \subseteq loads \cup {[id |-> started, left |-> circle]}
          /\ started' = started + 1 /\ screen' = screen /\ screen # "discover"
          /\ docs' = docs /\ fresh' = docs
        BY <1>1 DEF Appear, Load, UnderWay, Loading
    <2>2. screen = "requests" => \A l \in loads' : l.left # {}
        BY <1>1 DEF Appear, Load, UnderWay, LoadsNumbered
    <2>3. \A p \in Owners : docs[p] \in Int
        OBVIOUS
    <2>4. \A l \in loads' : l \in loads \/ (l.id = started /\ l = [id |-> started, left |-> circle])
        BY <2>1
    <2>5. \A l \in loads' : l.id < started + 1
        BY <2>4 DEF LoadsNumbered
    <2>6. \A l, k \in loads' : l.id = k.id => l = k
        BY <2>4 DEF LoadsNumbered
    <2> QED BY <2>1, <2>2, <2>3, <2>5, <2>6 DEF LoadsNumbered
<1>2. ASSUME NEW l \in loads, NEW p \in People, Less(l, p),
             started' = started, docs' = docs, fresh' = fresh,
             screen' = screen \/ screen' = "crashed"
      PROVE  LoadsNumbered'
    <2>1. l \in LoadType
        BY DEF LoadType
    <2>2. /\ \A k \in loads' : (k \in loads /\ k # l) \/ k = After(l, p)
          /\ After(l, p).id = l.id
        BY <1>2, <2>1, AfterFacts, LessFacts
    <2>3. \A k \in loads' : k.id < started
        BY <2>2 DEF LoadsNumbered
    <2>4. \A k, m \in loads' : k.id = m.id => k = m
        BY <2>2 DEF LoadsNumbered
    <2>5. screen' = "requests" => \A k \in loads' : k.left # {}
        <3> SUFFICES ASSUME screen' = "requests", NEW k \in loads' PROVE k.left # {}
            OBVIOUS
        <3>1. screen = "requests"
            BY <1>2
        <3>2. CASE k \in loads
            BY <3>1, <3>2 DEF LoadsNumbered
        <3>3. CASE k = After(l, p)
            BY <1>2, <3>1, <3>3, LessFacts DEF LoadsNumbered
        <3> QED BY <2>2, <3>2, <3>3
    <2>6. screen' # "discover"
        BY <1>2 DEF LoadsNumbered
    <2> QED BY <1>2, <2>3, <2>4, <2>5, <2>6 DEF LoadsNumbered
<1>3. ASSUME NEW l \in loads, NEW p \in People, Answered(l, p) \/ Unanswered(l, p)
      PROVE  LoadsNumbered'
    BY <1>2, <1>3 DEF Answered, Unanswered
<1>4. ASSUME NEW l \in loads, Notify(l) PROVE LoadsNumbered'
    BY <1>4 DEF Notify, LoadsNumbered
<1>5. CASE Discover
    <2>1. /\ loads' = loads /\ loads = {} /\ screen' = screen /\ started' = 1
          /\ docs' = docs /\ fresh' = docs
        BY <1>5 DEF Discover, LoadsNumbered
    <2>2. \A p \in Owners : docs[p] \in Int
        OBVIOUS
    <2> QED BY <2>1, <2>2 DEF LoadsNumbered
<1>6. ASSUME NEW p \in Owners, Change(p) PROVE LoadsNumbered'
    <2>1. \A q \in Owners : docs'[q] >= docs[q] /\ docs[q] \in Int /\ docs'[q] \in Int /\ fresh[q] \in Int
        BY <1>6 DEF Change
    <2> QED BY <1>6, <2>1 DEF Change, LoadsNumbered
<1>7. CASE \/ UNCHANGED vars \/ PublicSnapshot \/ Search
           \/ \E i \in DOMAIN batches : BatchSnapshot(i)
           \/ \E p \in People : CircleChanges(p)
    BY <1>7 DEF vars, PublicSnapshot, Search, BatchSnapshot, CircleChanges, LoadsNumbered
<1> QED BY <1>1, <1>3, <1>4, <1>5, <1>6, <1>7 DEF Next

\* An answer is added once, and whoever was listed still is.
LEMMA OneMore ==
    ASSUME TypeOK, NEW p \in Owners
    PROVE  /\ DOMAIN (array (+) EntriesOf({p})) =
                  (DOMAIN array) \cup {[who |-> p, version |-> docs[p]]}
           /\ \A e \in DOMAIN array : e.who # p => (array (+) EntriesOf({p}))[e] = array[e]
           /\ (\A e \in DOMAIN array : e.who # p) =>
                  (array (+) EntriesOf({p}))[[who |-> p, version |-> docs[p]]] = 1
<1> DEFINE new == [who |-> p, version |-> docs[p]]
<1>1. /\ IsABag(EntriesOf({p})) /\ DOMAIN EntriesOf({p}) = {new} /\ EntriesOf({p})[new] = 1
    <2>1. {[who |-> q, version |-> docs[q]] : q \in {p}} = {new}
        OBVIOUS
    <2> QED BY <2>1, EntriesFacts DEF TypeOK
<1>2. new.who = p
    OBVIOUS
<1> HIDE DEF new
<1>3. /\ DOMAIN (array (+) EntriesOf({p})) = (DOMAIN array) \cup {new}
      /\ \A e \in (DOMAIN array) \ {new} : (array (+) EntriesOf({p}))[e] = array[e]
      /\ new \notin DOMAIN array => (array (+) EntriesOf({p}))[new] = 1
    <2>1. IsABag(array)
        BY ArraysType
    <2>2. /\ DOMAIN (array (+) EntriesOf({p})) = (DOMAIN array) \cup (DOMAIN EntriesOf({p}))
          /\ \A e \in (DOMAIN array) \ (DOMAIN EntriesOf({p})) :
                 (array (+) EntriesOf({p}))[e] = array[e]
          /\ \A e \in (DOMAIN EntriesOf({p})) \ (DOMAIN array) :
                 (array (+) EntriesOf({p}))[e] = EntriesOf({p})[e]
        BY <1>1, <2>1, SumOfBags
    <2> QED BY <1>1, <2>2
<1>4. \A e \in DOMAIN array : e.who # p => e # new
    BY <1>2
<1> QED BY <1>2, <1>3, <1>4 DEF new

LEMMA LoadedSoFarStep ==
    ASSUME TypeOK, LoadsNumbered, LoadedSoFar, Covers, [Next]_vars
    PROVE  LoadedSoFar'
<1> SUFFICES ASSUME screen' \in Loading, ~failing', NEW q \in listed'
             PROVE  \/ \E k \in loads' : k.id = started' - 1 /\ q \in k.left
                    \/ \E e \in DOMAIN array' : e.who = q /\ e.version >= fresh'[q]
    BY DEF LoadedSoFar, Pending
<1>0. ASSUME screen \in Loading, ~failing, q \in listed
      PROVE  \/ \E k \in loads : k.id = started - 1 /\ q \in k.left
             \/ \E e \in DOMAIN array : e.who = q /\ e.version >= fresh[q]
    BY <1>0 DEF LoadedSoFar, Pending
<1>1. CASE Appear
    <2> DEFINE k == [id |-> started, left |-> circle]
    <2>1. k \in loads' /\ q \in k.left
        BY <1>1 DEF Appear, Load, UnderWay
    <2>2. k.id = started' - 1
        BY <1>1 DEF Appear, Load, TypeOK
    <2> QED BY <2>1, <2>2
<1>2. ASSUME NEW l \in loads, NEW p \in People, Answered(l, p)
      PROVE  \/ \E k \in loads' : k.id = started' - 1 /\ q \in k.left
             \/ \E e \in DOMAIN array' : e.who = q /\ e.version >= fresh'[q]
    <2>1. /\ screen \in Loading /\ ~failing /\ q \in listed
          /\ started' = started /\ fresh' = fresh /\ array' = array (+) EntriesOf({p})
          /\ Less(l, p) /\ l \in LoadType /\ p \in Owners
        BY <1>2 DEF Answered, TypeOK, LoadType, Owners
    <2>2. DOMAIN array' = (DOMAIN array) \cup {[who |-> p, version |-> docs[p]]}
        BY <2>1, OneMore
    <2>3. CASE \E e \in DOMAIN array : e.who = q /\ e.version >= fresh[q]
        BY <2>1, <2>2, <2>3
    <2>4. ASSUME NEW k \in loads, k.id = started - 1, q \in k.left
          PROVE  \/ \E m \in loads' : m.id = started' - 1 /\ q \in m.left
                 \/ \E e \in DOMAIN array' : e.who = q /\ e.version >= fresh'[q]
        <3>1. CASE k # l
            BY <2>1, <2>4, <3>1, LessFacts
        <3>2. CASE k = l /\ q # p
            <4>1. After(l, p).id = k.id /\ q \in After(l, p).left
                BY <2>1, <2>4, <3>2, AfterFacts
            <4>2. After(l, p) \in loads'
                BY <2>1, <4>1, LessFacts
            <4> QED BY <2>1, <2>4, <4>1, <4>2
        <3>3. CASE q = p
            <4> DEFINE e == [who |-> p, version |-> docs[p]]
            <4>1. e \in DOMAIN array' /\ e.who = q /\ e.version >= fresh'[q]
                BY <2>1, <2>2, <3>3 DEF LoadsNumbered
            <4> QED BY <4>1
        <3> QED BY <3>1, <3>2, <3>3
    <2> QED BY <1>0, <2>1, <2>3, <2>4
<1>3. ASSUME NEW l \in loads, NEW p \in People, Unanswered(l, p) PROVE FALSE
    BY <1>3 DEF Unanswered
<1>4. ASSUME NEW l \in loads, Notify(l)
      PROVE  \/ \E k \in loads' : k.id = started' - 1 /\ q \in k.left
             \/ \E e \in DOMAIN array' : e.who = q /\ e.version >= fresh'[q]
    BY <1>0, <1>4 DEF Notify
<1>5. CASE Discover
    BY <1>5 DEF Discover, Loading
<1>6. ASSUME NEW i \in DOMAIN batches, BatchSnapshot(i) PROVE FALSE
    BY <1>6 DEF BatchSnapshot, Covers, Loading
<1>7. CASE \/ UNCHANGED vars \/ PublicSnapshot \/ Search
           \/ \E p \in Owners : Change(p)
           \/ \E p \in People : CircleChanges(p)
    <2>1. /\ screen' = screen /\ failing' = failing /\ listed' = listed /\ loads' = loads
          /\ started' = started /\ array' = array /\ fresh' = fresh
        BY <1>7 DEF vars, PublicSnapshot, Search, Change, CircleChanges
    <2> QED BY <1>0, <2>1
<1> QED BY <1>1, <1>2, <1>3, <1>4, <1>5, <1>6, <1>7 DEF Next

LEMMA OneLoadStep ==
    ASSUME TypeOK, LoadsNumbered, OneLoad, Covers, [Next]_vars
    PROVE  OneLoad'
<1> SUFFICES ASSUME screen' \in Loading, calm'
             PROVE  /\ \A l \in loads' : l.id = started' - 1 /\ l.left \subseteq listed'
                    /\ \A e \in DOMAIN array' : /\ array'[e] = 1 /\ e.who \in listed'
                                                /\ \A l \in loads' : e.who \notin l.left
                    /\ \A e, f \in DOMAIN array' : e.who = f.who => e = f
    BY DEF OneLoad
<1>1. CASE Appear
    <2>1. loads' \subseteq {[id |-> started, left |-> circle]} /\ started' = started + 1
          /\ listed' = circle /\ array' = EmptyBag
        BY <1>1 DEF Appear, Load, UnderWay
    <2>2. started = started' - 1
        BY <2>1 DEF TypeOK
    <2> QED BY <2>1, <2>2, NoEntries
<1>2. ASSUME NEW l \in loads, NEW p \in People, Answered(l, p)
      PROVE  /\ \A k \in loads' : k.id = started' - 1 /\ k.left \subseteq listed'
             /\ \A e \in DOMAIN array' : /\ array'[e] = 1 /\ e.who \in listed'
                                         /\ \A k \in loads' : e.who \notin k.left
             /\ \A e, f \in DOMAIN array' : e.who = f.who => e = f
    <2> DEFINE new == [who |-> p, version |-> docs[p]]
    <2>1. /\ screen \in Loading /\ calm /\ listed' = listed
          /\ started' = started /\ array' = array (+) EntriesOf({p})
          /\ Less(l, p) /\ l \in LoadType /\ p \in Owners /\ p \in l.left
        BY <1>2 DEF Answered, TypeOK, LoadType, Owners
    <2>2. /\ \A k \in loads : k.id = started - 1 /\ k.left \subseteq listed
          /\ \A e \in DOMAIN array : /\ array[e] = 1 /\ e.who \in listed
                                     /\ \A k \in loads : e.who \notin k.left
          /\ \A e, f \in DOMAIN array : e.who = f.who => e = f
        BY <2>1 DEF OneLoad
    <2>3. \A k \in loads' : k.id = l.id /\ k.left = l.left \ {p}
        <3>1. \A k \in loads : k = l
            BY <2>2 DEF LoadsNumbered
        <3>2. \A k \in loads' : k = After(l, p)
            BY <2>1, <3>1, LessFacts
        <3> QED BY <2>1, <3>2, AfterFacts
    <2>4. \A e \in DOMAIN array : e.who # p
        BY <2>1, <2>2
    <2>5. /\ DOMAIN array' = (DOMAIN array) \cup {new} /\ new.who = p
          /\ \A e \in DOMAIN array : array'[e] = array[e]
          /\ array'[new] = 1
        BY <2>1, <2>4, OneMore
    <2> HIDE DEF new
    <2>6. p \in listed
        BY <2>1, <2>2
    <2>7. \A k \in loads' : k.id = started' - 1 /\ k.left \subseteq listed'
        BY <2>1, <2>2, <2>3
    <2>8. \A e \in DOMAIN array' : /\ array'[e] = 1 /\ e.who \in listed'
                                   /\ \A k \in loads' : e.who \notin k.left
        BY <2>1, <2>2, <2>3, <2>5, <2>6
    <2>9. \A e, f \in DOMAIN array' : e.who = f.who => e = f
        BY <2>2, <2>4, <2>5
    <2> QED BY <2>7, <2>8, <2>9
<1>3. ASSUME NEW l \in loads, NEW p \in People, Unanswered(l, p)
      PROVE  /\ \A k \in loads' : k.id = started' - 1 /\ k.left \subseteq listed'
             /\ \A e \in DOMAIN array' : /\ array'[e] = 1 /\ e.who \in listed'
                                         /\ \A k \in loads' : e.who \notin k.left
             /\ \A e, f \in DOMAIN array' : e.who = f.who => e = f
    <2>1. /\ screen \in Loading /\ calm /\ listed' = listed
          /\ started' = started /\ array' = array /\ Less(l, p) /\ l \in LoadType
        BY <1>3 DEF Unanswered, TypeOK, LoadType
    <2>2. \A k \in loads' : k \in loads \/ (k.id = l.id /\ k.left \subseteq l.left)
        BY <2>1, LessFacts, AfterFacts
    <2> QED BY <2>1, <2>2 DEF OneLoad
<1>4. ASSUME NEW l \in loads, Notify(l)
      PROVE  /\ \A k \in loads' : k.id = started' - 1 /\ k.left \subseteq listed'
             /\ \A e \in DOMAIN array' : /\ array'[e] = 1 /\ e.who \in listed'
                                         /\ \A k \in loads' : e.who \notin k.left
             /\ \A e, f \in DOMAIN array' : e.who = f.who => e = f
    BY <1>4 DEF Notify, OneLoad
<1>5. CASE Discover
    BY <1>5 DEF Discover, Loading
<1>6. ASSUME NEW i \in DOMAIN batches, BatchSnapshot(i) PROVE FALSE
    BY <1>6 DEF BatchSnapshot, Covers, Loading
<1>7. CASE \/ UNCHANGED vars \/ PublicSnapshot \/ Search
           \/ \E p \in Owners : Change(p)
           \/ \E p \in People : CircleChanges(p)
    <2>1. /\ screen' = screen /\ calm' = calm /\ listed' = listed /\ loads' = loads
          /\ started' = started /\ array' = array
        BY <1>7 DEF vars, PublicSnapshot, Search, Change, CircleChanges
    <2> QED BY <2>1 DEF OneLoad
<1> QED BY <1>1, <1>2, <1>3, <1>4, <1>5, <1>6, <1>7 DEF Next

-----------------------------------------------------------------------------
\* DiscoverVC's listeners.

LEMMA CoversStep == ASSUME TypeOK, Covers, [Next]_vars PROVE Covers'
<1>1. CASE screen \in Loading
    <2>1. screen' \in Loading \cup {"crashed"} /\ due' = due /\ batches' = batches
        <3>1. due = {} /\ batches = <<>>
            BY <1>1 DEF Covers, Loading
        <3>2. \A i \in DOMAIN batches : ~BatchSnapshot(i)
            BY <3>1 DEF BatchSnapshot
        <3>3. ~PublicSnapshot /\ ~Discover
            BY <1>1, <3>1 DEF PublicSnapshot, Discover, Loading
        <3>4. ASSUME NEW p \in Owners, Change(p)
              PROVE  screen' \in Loading \cup {"crashed"} /\ due' = due /\ batches' = batches
            BY <1>1, <3>4 DEF Change, Loading
        <3> QED BY <1>1, <3>2, <3>3, <3>4 DEF Next, vars, Appear, Load, Answered, Unanswered, Notify,
                                         Search, CircleChanges
    <2> QED BY <1>1, <2>1 DEF Covers, Loading
<1>2. CASE screen \notin Loading
    <2>1. CASE Discover
        <3>1. Wanted' = IF circle = {} THEN {} ELSE circle \cup {Me}
            BY <2>1 DEF Discover, Wanted
        <3>2. \A p \in Wanted' : \E i \in DOMAIN batches' : p \in batches'[i]
            BY <2>1, <3>1, DiscoverBatches
        <3>3. DOMAIN batches' = 1..Len(batches') /\ Len(batches') \in Nat
            BY <2>1, DiscoverBatches
        <3>4. /\ due' = 0..Len(batches') /\ screen' = "discover" /\ started' = 1
            BY <2>1 DEF Discover
        <3> QED BY <3>2, <3>3, <3>4 DEF Covers
    <2>2. ASSUME NEW i \in DOMAIN batches, BatchSnapshot(i) PROVE Covers'
        <3>1. screen = "discover" /\ started > 0
            BY <2>2 DEF BatchSnapshot, Covers, TypeOK
        <3>2. /\ screen' = screen /\ started' = started /\ listed' = listed /\ docs' = docs
              /\ public' = public /\ batches' = batches /\ due' = due \ {i} /\ i # 0
              /\ array' = array (+) EntriesOf(batches[i])
            BY <2>2 DEF BatchSnapshot
        <3>3. DOMAIN array' = (DOMAIN array) \cup {[who |-> p, version |-> docs[p]] : p \in batches[i]}
            <4>1. batches[i] \in SUBSET Owners
                BY DEF TypeOK
            <4> QED BY <3>2, <4>1, AddedEntries
        <3>4. ASSUME NEW j \in DOMAIN batches, NEW p \in batches[j]
              PROVE  j \in due' \/ \E e \in DOMAIN array' : e.who = p /\ e.version >= docs[p]
            <4>1. CASE j = i
                <5> DEFINE e == [who |-> p, version |-> docs[p]]
                <5>1. docs[p] \in Nat
                    BY DEF TypeOK
                <5>2. e \in DOMAIN array' /\ e.who = p /\ e.version >= docs[p]
                    BY <3>3, <4>1, <5>1
                <5> QED BY <5>2
            <4>2. CASE j # i
                BY <3>1, <3>2, <3>3, <4>2 DEF Covers
            <4> QED BY <4>1, <4>2
        <3>5. Wanted' = Wanted
            BY <3>2 DEF Wanted
        <3> QED BY <3>1, <3>2, <3>4, <3>5 DEF Covers, EntriesOf, Near
    <2>3. CASE PublicSnapshot
        <3>1. screen = "discover" /\ started > 0
            BY <2>3 DEF PublicSnapshot, Covers, TypeOK
        <3>2. /\ screen' = screen /\ started' = started /\ listed' = listed /\ docs' = docs
              /\ batches' = batches /\ due' = due \ {0} /\ array' = array
              /\ public' = [friends |-> EntriesOf(Near), others |-> EntriesOf(Owners \ Near)]
            BY <2>3 DEF PublicSnapshot
        <3>3. Wanted' = Wanted
            BY <3>2 DEF Wanted
        <3>4. 0 \notin DOMAIN batches
            BY DEF TypeOK
        <3> QED BY <3>1, <3>2, <3>3, <3>4 DEF Covers, EntriesOf, Near
    <2>4. ASSUME NEW p \in Owners, Change(p) PROVE Covers'
        <3>1. /\ screen' = screen /\ started' = started /\ listed' = listed
              /\ docs' = [docs EXCEPT ![p] = @ + 1]
              /\ batches' = batches /\ array' = array
            BY <2>4 DEF Change
        <3>2. Wanted' = Wanted
            BY <3>1 DEF Wanted
        <3>3. CASE screen = "discover" /\ started > 0
            <4>1. due' = due \cup {0} \cup {i \in DOMAIN batches : p \in batches[i]}
                BY <2>4, <3>3 DEF Change
            <4>2. \A q \in Owners : q # p => docs'[q] = docs[q]
                BY <3>1 DEF TypeOK
            <4>3. ASSUME NEW i \in DOMAIN batches, NEW q \in batches[i]
                  PROVE  i \in due' \/ \E e \in DOMAIN array : e.who = q /\ e.version >= docs'[q]
                <5>1. q \in Owners
                    BY DEF TypeOK
                <5> QED BY <3>3, <4>1, <4>2, <5>1 DEF Covers
            <4> QED BY <3>1, <3>2, <3>3, <4>1, <4>3 DEF Covers
        <3>4. CASE ~(screen = "discover" /\ started > 0)
            BY <2>4, <3>1, <3>4 DEF Change, Covers, TypeOK
        <3> QED BY <3>3, <3>4
    <2>5. CASE UNCHANGED vars \/ Search \/ \E p \in People : CircleChanges(p)
        <3>1. /\ screen' = screen /\ started' = started /\ listed' = listed /\ docs' = docs
              /\ batches' = batches /\ due' = due /\ array' = array /\ public' = public
            BY <2>5 DEF vars, Search, CircleChanges
        <3> QED BY <3>1 DEF Covers, Wanted, EntriesOf, Near
    <2>6. /\ ~Appear
          /\ \A l \in loads : ~Notify(l) /\ \A p \in People : ~Answered(l, p) /\ ~Unanswered(l, p)
        BY <1>2 DEF Appear, Load, Notify, Answered, Unanswered
    <2> QED BY <2>1, <2>2, <2>3, <2>4, <2>5, <2>6 DEF Next
<1> QED BY <1>1, <1>2

-----------------------------------------------------------------------------
LEMMA InitIInv == ASSUME Init PROVE IInv
<1> USE ListsAssumption, NoEntries DEF Init
<1>1. TypeOK
    BY DEF TypeOK, Loading
<1>2. RowsCounted
    BY CountNone DEF RowsCounted, Table
<1>3. LoadsNumbered
    BY DEF LoadsNumbered
<1>4. LoadedSoFar /\ ShownWhole /\ OneLoad
    BY DEF LoadedSoFar, ShownWhole, OneLoad
<1>5. Covers
    BY DEF Covers
<1> QED BY <1>1, <1>2, <1>3, <1>4, <1>5 DEF IInv

LEMMA NextIInv == ASSUME IInv, [Next]_vars PROVE IInv'
BY TypeStep, RowsCountedStep, ShownWholeStep, LoadsNumberedStep, LoadedSoFarStep, OneLoadStep,
   CoversStep DEF IInv

\* The inductive invariant.
THEOREM ListsInvariant == Spec => []IInv
<1>1. Init => IInv
    BY InitIInv
<1>2. IInv /\ [Next]_vars => IInv'
    BY NextIInv
<1> QED BY <1>1, <1>2, PTL DEF Spec

\* Type correctness.
THEOREM ListsTypeCorrect == Spec => []TypeOK
<1>1. IInv => TypeOK
    BY DEF IInv
<1> QED BY <1>1, ListsInvariant, PTL

\* The table asks for no row that is not there but for the feed while it is loaded.
THEOREM ListsRowsExist == Spec => []RowsExist
<1>1. IInv => RowsExist
    <2> SUFFICES ASSUME IInv, rows > Count(Table) PROVE screen = "feed" /\ loads # {}
        BY DEF RowsExist
    <2>1. rows \in Nat
        BY DEF IInv, TypeOK
    <2> QED BY <2>1 DEF IInv, RowsCounted
<1> QED BY <1>1, ListsInvariant, PTL

\* Nobody of the circle is missing when all is answered, and without a search text
\* all of it can be seen.
THEOREM ListsNobodyMissing == Spec => []NobodyMissing
<1>1. IInv => NobodyMissing
    <2> SUFFICES ASSUME IInv, AtRest, ~failing
                 PROVE  /\ \A p \in Wanted : \E e \in DOMAIN array :
                               e.who = p /\ e.version >= IF screen = "discover" THEN docs[p] ELSE fresh[p]
                        /\ text = Owners => Table = array
        BY DEF NobodyMissing
    <2>1. text = Owners => Table = array
        BY DEF IInv, ShownWhole, AtRest, Table, TypeOK, Loading
    <2>2. CASE screen = "discover"
        <3>1. /\ started > 0 /\ due = {} /\ Covers
            BY DEF IInv, AtRest
        <3>2. ASSUME NEW p \in Wanted PROVE \E e \in DOMAIN array : e.who = p /\ e.version >= docs[p]
            BY <2>2, <3>1 DEF Covers
        <3> QED BY <2>1, <2>2, <3>2
    <2>3. CASE screen # "discover"
        <3>1. screen \in Loading /\ Wanted = listed
            BY <2>3 DEF IInv, TypeOK, AtRest, Wanted
        <3>2. LoadedSoFar /\ loads = {}
            BY DEF IInv, AtRest
        <3>3. \A p \in listed : \E e \in DOMAIN array : e.who = p /\ e.version >= fresh[p]
            BY <3>1, <3>2 DEF LoadedSoFar, Pending
        <3> QED BY <2>1, <2>3, <3>1, <3>3
    <2> QED BY <2>1, <2>2, <2>3
<1> QED BY <1>1, ListsInvariant, PTL

\* How often somebody is listed.
LEMMA CopiesFacts ==
    ASSUME NEW bag, NEW p
    PROVE  /\ (\A e \in DOMAIN bag : e.who # p) => Copies(bag, p) = 0
           /\ \A e \in DOMAIN bag : e.who = p /\ bag[e] = 1 /\ (\A f \in DOMAIN bag : f.who = p => f = e)
                  => Copies(bag, p) = 1
<1>1. /\ DOMAIN Of(bag, {p}) = {e \in DOMAIN bag : e.who = p}
      /\ \A e \in DOMAIN bag : e.who = p => Of(bag, {p})[e] = bag[e]
    BY DEF Of
<1>2. ASSUME \A e \in DOMAIN bag : e.who # p PROVE Copies(bag, p) = 0
    BY <1>1, <1>2, CountNothing DEF Copies
<1>3. ASSUME NEW e \in DOMAIN bag, e.who = p, bag[e] = 1, \A f \in DOMAIN bag : f.who = p => f = e
      PROVE  Copies(bag, p) = 1
    <2>1. DOMAIN Of(bag, {p}) = {e}
        BY <1>1, <1>3
    <2>2. Of(bag, {p})[e] = 1
        BY <1>1, <1>3
    <2> QED BY <2>1, <2>2, CountOne DEF Copies
<1> QED BY <1>2, <1>3

\* As long as no two loads overlap nobody is listed twice, or without being in the
\* circle; the public streaks are there once, each in its section.
THEOREM ListsEachOnce == Spec => []EachOnce
<1>1. IInv => EachOnce
    <2> SUFFICES ASSUME IInv, AtRest
                 PROVE  /\ screen # "discover" /\ calm /\ ~failing =>
                              \A p \in Owners : Copies(array, p) = IF p \in listed THEN 1 ELSE 0
                        /\ screen = "discover" =>
                              /\ public.friends (+) public.others = EntriesOf(Owners)
                              /\ \A p \in Owners : Copies(public.friends, p) = 1 <=> p \in Near
        BY DEF EachOnce
    <2>1. ASSUME screen # "discover", calm, ~failing, NEW p \in Owners
          PROVE  Copies(array, p) = IF p \in listed THEN 1 ELSE 0
        <3>1. screen \in Loading /\ loads = {}
            BY <2>1 DEF IInv, TypeOK, AtRest
        <3>2. /\ \A e \in DOMAIN array : array[e] = 1 /\ e.who \in listed
              /\ \A e, f \in DOMAIN array : e.who = f.who => e = f
            BY <2>1, <3>1 DEF IInv, OneLoad
        <3>3. p \in listed => \E e \in DOMAIN array : e.who = p
            BY <2>1, <3>1 DEF IInv, LoadedSoFar, Pending
        <3>4. CASE p \in listed
            <4> PICK e \in DOMAIN array : e.who = p
                BY <3>3, <3>4
            <4> QED BY <3>2, <3>4, CopiesFacts
        <3>5. CASE p \notin listed
            BY <3>2, <3>5, CopiesFacts
        <3> QED BY <3>4, <3>5
    <2>2. ASSUME screen = "discover"
          PROVE  /\ public.friends (+) public.others = EntriesOf(Owners)
                 /\ \A p \in Owners : Copies(public.friends, p) = 1 <=> p \in Near
        <3>1. /\ public.friends = EntriesOf(Near) /\ public.others = EntriesOf(Owners \ Near)
              /\ Near \in SUBSET Owners /\ Owners \ Near \in SUBSET Owners
            BY <2>2 DEF IInv, Covers, AtRest, Near, Owners, TypeOK
        <3>2. docs \in [Owners -> 0..MaxChanges]
            BY DEF IInv, TypeOK
        <3>3. EntriesOf(Near) (+) EntriesOf(Owners \ Near) = EntriesOf(Owners)
            <4> DEFINE A == EntriesOf(Near)
                       C == EntriesOf(Owners \ Near)
                       All == EntriesOf(Owners)
            <4>0. Owners \in SUBSET Owners
                OBVIOUS
            <4>1. /\ DOMAIN A = {[who |-> p, version |-> docs[p]] : p \in Near}
                  /\ DOMAIN C = {[who |-> p, version |-> docs[p]] : p \in Owners \ Near}
                  /\ DOMAIN All = {[who |-> p, version |-> docs[p]] : p \in Owners}
                  /\ \A e \in DOMAIN A : e.who \in Near /\ A[e] = 1
                  /\ \A e \in DOMAIN C : e.who \in Owners \ Near /\ C[e] = 1
                  /\ IsABag(A) /\ IsABag(C)
                BY <3>1, <3>2, <4>0, EntriesFacts
            <4>2. All = [e \in DOMAIN All |-> 1]
                BY DEF EntriesOf, SetToBag
            <4>3. A (+) C = [e \in (DOMAIN A) \cup (DOMAIN C) |-> (A (+) C)[e]]
                BY DEF (+)
            <4>4. DOMAIN All = (DOMAIN A) \cup (DOMAIN C)
                BY <3>1, <4>1
            <4> HIDE DEF A, C, All
            <4>7. IsABag(A) /\ IsABag(C)
                BY <4>1
            <4>5. ASSUME NEW e \in (DOMAIN A) \cup (DOMAIN C) PROVE (A (+) C)[e] = 1
                <5>1. e \in DOMAIN A => e \notin DOMAIN C
                    BY <4>1
                <5>2. /\ \A x \in (DOMAIN A) \ (DOMAIN C) : (A (+) C)[x] = A[x]
                      /\ \A x \in (DOMAIN C) \ (DOMAIN A) : (A (+) C)[x] = C[x]
                    BY <4>7, SumOfBags, Zenon
                <5> QED BY <4>1, <5>1, <5>2
            <4>6. A (+) C = All
                BY <4>2, <4>3, <4>4, <4>5
            <4> QED BY <4>6 DEF A, C, All
        <3>4. ASSUME NEW p \in Owners PROVE Copies(EntriesOf(Near), p) = 1 <=> p \in Near
            <4> DEFINE A == EntriesOf(Near)
                       e == [who |-> p, version |-> docs[p]]
            <4>1. /\ DOMAIN A = {[who |-> q, version |-> docs[q]] : q \in Near}
                  /\ \A f \in DOMAIN A : f.who \in Near /\ f.version = docs[f.who] /\ A[f] = 1
                BY <3>1, <3>2, EntriesFacts
            <4>2. CASE p \in Near
                <5>1. e \in DOMAIN A /\ e.who = p
                    BY <4>1, <4>2
                <5>2. \A f \in DOMAIN A : f.who = p => f = e
                    BY <4>1
                <5> HIDE DEF A, e
                <5> QED BY <4>1, <4>2, <5>1, <5>2, CopiesFacts DEF A
            <4>3. CASE p \notin Near
                <5>1. \A f \in DOMAIN A : f.who # p
                    BY <4>1, <4>3
                <5>2. Copies(A, p) = 0
                    BY <5>1, CopiesFacts
                <5> QED BY <4>3, <5>2
            <4> QED BY <4>2, <4>3
        <3> QED BY <3>1, <3>3, <3>4
    <2> QED BY <2>1, <2>2
<1> QED BY <1>1, ListsInvariant, PTL
=============================================================================
