----------------------- MODULE FirestoreClient_proofs -----------------------
(* For any devices, users, refused writes and failures: answers meet the     *)
(* writes they are for, callbacks are told the truth, no write is lost, and  *)
(* the client implements DocumentStore.                                      *)
(*                                                                           *)
(* The pipeline is the beginning of the queue of the user who is signed in,  *)
(* and what is under way on a stream that is ready is the pipeline again,    *)
(* answered in part: everything else rests on that.  Batch ids grow along a  *)
(* queue, and a callback is kept only for a batch that still is in one.      *)
EXTENDS FirestoreClient, SequenceTheorems, WellFoundedInduction, TLAPS

Ascending(q) == \A i, j \in 1..Len(q) : i < j => q[i].id < q[j].id
Prefix(p, q) == Len(p) <= Len(q) /\ \A i \in 1..Len(p) : p[i] = q[i]

\* Of the pipeline p, k batches are answered and the others requested.
InStep(p, sent, k, state) ==
    IF state = "ready"
    THEN k + Len(sent) = Len(p) /\ \A i \in 1..Len(sent) : sent[i] = p[k + i]
    ELSE sent = <<>> /\ k = 0

Meets(answer, w) ==
    IF answer.ok THEN answer.version \in 1..Len(log) /\ log[answer.version] = w
    ELSE w \in Forbidden

QueueOK(c, u) ==
    /\ Ascending(queue[c][u])
    /\ \A i \in 1..Len(queue[c][u]) : /\ queue[c][u][i].id < nextId[c]
                                      /\ queue[c][u][i].write <= issued
    /\ \A cb \in callbacks[c][u] : \E i \in 1..Len(queue[c][u]) : queue[c][u][i] = cb

PipelineOK(c) ==
    /\ Prefix(pipeline[c], Own(c))
    /\ InStep(pipeline[c], requests[c], Len(answers[c]), stream[c])
    /\ \A i \in 1..Len(answers[c]) : Meets(answers[c][i], pipeline[c][i].write)

SeenOK(c) == /\ cache[c].version \in 1..Len(log)
             /\ watch[c].version \in 0..Len(log)

ServerOK ==
    /\ Len(log) > 0
    /\ \A v \in 1..Len(log) : log[v] <= issued /\ log[v] \notin Forbidden

ToldOK ==
    \A w \in Writes : /\ told[w] = "committed" => \E v \in 1..Len(log) : log[v] = w
                      /\ told[w] = "rejected" => w \in Forbidden

Waits(w) == \E c \in Clients : \E u \in Users :
                \E i \in 1..Len(queue[c][u]) : queue[c][u][i].write = w
Accounted(w) == (\E v \in 1..Len(log) : log[v] = w) \/ w \in Forbidden \/ Waits(w)

ClientOK(c) == (\A u \in Users : QueueOK(c, u)) /\ PipelineOK(c) /\ SeenOK(c)

IInv ==
    /\ TypeOK
    /\ \A c \in Clients : ClientOK(c)
    /\ ServerOK /\ ToldOK
    /\ \A w \in 1..issued : Accounted(w)

-----------------------------------------------------------------------------
LEMMA SeqOfBatches ==
    ASSUME NEW q \in Seq(Batch)
    PROVE  /\ Len(q) \in Nat /\ DOMAIN q = 1..Len(q)
           /\ \A i \in 1..Len(q) : /\ q[i] \in Batch
                                   /\ q[i].id \in Nat /\ q[i].write \in Writes
<1>1. Len(q) \in Nat /\ DOMAIN q = 1..Len(q)
    BY LenProperties
<1>2. \A i \in 1..Len(q) : q[i] \in Batch
    BY ElementOfSeq
<1>3. \A b \in Batch : b.id \in Nat /\ b.write \in Writes
    BY DEF Batch
<1> QED BY <1>1, <1>2, <1>3

\* The queue without its first batch.
LEMMA RemoveFirst ==
    ASSUME NEW q \in Seq(Batch), q # <<>>, Ascending(q)
    PROVE  Remove(q, q[1].id) = Tail(q)
<1> DEFINE i == CHOOSE j \in DOMAIN q : q[j].id = q[1].id
<1>1. Len(q) \in Nat \ {0} /\ DOMAIN q = 1..Len(q) /\ 1 \in 1..Len(q)
    BY LenProperties, EmptySeq
<1>2. \A j \in 1..Len(q) : q[j].id \in Nat
    BY SeqOfBatches
<1>3. i \in 1..Len(q) /\ q[i].id = q[1].id
    BY <1>1
<1>4. i = 1
    <2> HIDE DEF i
    <2> QED BY <1>1, <1>2, <1>3 DEF Ascending
<1>5. SubSeq(q, 1, i - 1) = <<>>
    <2> HIDE DEF i
    <2>1. i - 1 = 0
        BY <1>4
    <2> QED BY <2>1, SubSeqEmpty
<1>6. SubSeq(q, i + 1, Len(q)) = Tail(q)
    <2> HIDE DEF i
    <2>1. i + 1 = 2
        BY <1>4
    <2> QED BY <2>1, TailIsSubSeq
<1>7. Tail(q) \in Seq(Batch)
    BY HeadTailProperties
<1> QED BY <1>5, <1>6, <1>7, ConcatEmptySeq DEF Remove

\* A batch of the queue is found by its id.
LEMMA UpToElement ==
    ASSUME NEW q \in Seq(Batch), Ascending(q), NEW k \in 1..Len(q)
    PROVE  UpTo(q, q[k].id) = k
<1> DEFINE P(n) == /\ n > 0 => q[n].id <= q[k].id
                   /\ n < Len(q) => q[n + 1].id > q[k].id
<1>1. Len(q) \in Nat
    BY LenProperties
<1>2. \A j \in 1..Len(q) : q[j].id \in Nat
    BY SeqOfBatches
<1>3. k \in 0..Len(q) /\ P(k)
    BY <1>1, <1>2 DEF Ascending
<1>4. \A n \in 0..Len(q) : P(n) => n = k
    <2> SUFFICES ASSUME NEW n \in 0..Len(q), P(n) PROVE n = k
        OBVIOUS
    <2>1. ~(n < k)
        <3> SUFFICES ASSUME n < k PROVE FALSE
            OBVIOUS
        <3>1. n + 1 \in 1..Len(q) /\ n + 1 <= k /\ q[n + 1].id > q[k].id
            BY <1>1
        <3>2. n + 1 = k \/ q[n + 1].id < q[k].id
            BY <3>1 DEF Ascending
        <3> QED BY <1>2, <3>1, <3>2
    <2>2. ~(n > k)
        <3> SUFFICES ASSUME n > k PROVE FALSE
            OBVIOUS
        <3>1. n \in 1..Len(q) /\ q[n].id <= q[k].id
            BY <1>1
        <3>2. q[k].id < q[n].id
            BY <3>1 DEF Ascending
        <3> QED BY <1>2, <3>1, <3>2
    <2> QED BY <1>1, <2>1, <2>2
<1> QED BY <1>3, <1>4 DEF UpTo

\* Filling makes a longer beginning of the queue.
LEMMA FilledIsPrefix ==
    ASSUME NEW q \in Seq(Batch), Ascending(q), NEW p \in Seq(Batch), Prefix(p, q)
    PROVE  /\ Filled(p, q) \in Seq(Batch)
           /\ Prefix(Filled(p, q), q)
           /\ Len(p) <= Len(Filled(p, q))
<1> DEFINE from == IF p = <<>> THEN 0 ELSE UpTo(q, Last(p).id)
           room == IF Len(p) < MaxPending THEN MaxPending - Len(p) ELSE 0
           m == IF from + room < Len(q) THEN from + room ELSE Len(q)
           more == SubSeq(q, from + 1, m)
<1>1. Len(p) \in Nat /\ Len(q) \in Nat /\ Len(p) <= Len(q) /\ MaxPending \in Nat
    BY LenProperties, ClientAssumption DEF Prefix
<1>2. from = Len(p)
    <2>1. CASE p = <<>>
        BY <2>1, EmptySeq
    <2>2. CASE p # <<>>
        <3>1. Len(p) \in 1..Len(q)
            BY <1>1, <2>2, EmptySeq
        <3>2. Last(p) = q[Len(p)]
            BY <1>1, <3>1 DEF Last, Prefix
        <3> QED BY <2>2, <3>1, <3>2, UpToElement
    <2> QED BY <2>1, <2>2
<1>3. room \in Nat
    BY <1>1
<1>4. m \in Len(p)..Len(q)
    <2> HIDE DEF from, room
    <2> QED BY <1>1, <1>2, <1>3
<1> HIDE DEF m
<1>5. /\ more \in Seq(Batch)
      /\ Len(more) = m - Len(p)
      /\ \A i \in 1..m - Len(p) : more[i] = q[Len(p) + i]
    <2> HIDE DEF from
    <2>1. \A i \in Len(p) + 1..m : q[i] \in Batch
        BY <1>1, <1>4, ElementOfSeq
    <2>2. more = SubSeq(q, Len(p) + 1, m)
        BY <1>2
    <2>3. Len(p) + 1 \in Int /\ m \in Int
        BY <1>1, <1>4
    <2>4. /\ SubSeq(q, Len(p) + 1, m) \in Seq(Batch)
          /\ Len(SubSeq(q, Len(p) + 1, m)) =
                 IF Len(p) + 1 <= m THEN m - (Len(p) + 1) + 1 ELSE 0
          /\ \A i \in 1..m - (Len(p) + 1) + 1 :
                 SubSeq(q, Len(p) + 1, m)[i] = q[Len(p) + 1 + i - 1]
        BY <2>1, <2>3, SubSeqProperties
    <2>5. (IF Len(p) + 1 <= m THEN m - (Len(p) + 1) + 1 ELSE 0) = m - Len(p)
        BY <1>1, <1>4
    <2>6. ASSUME NEW i \in 1..m - Len(p)
          PROVE  more[i] = q[Len(p) + i]
        <3>1. i \in 1..m - (Len(p) + 1) + 1 /\ Len(p) + 1 + i - 1 = Len(p) + i
            BY <1>1, <1>4
        <3> QED BY <2>2, <2>4, <3>1
    <2> QED BY <2>2, <2>4, <2>5, <2>6
<1>6. Filled(p, q) = p \o more
    BY DEF Filled, m
<1> HIDE DEF more
<1>7. /\ p \o more \in Seq(Batch)
      /\ Len(p \o more) = Len(p) + Len(more)
      /\ \A i \in 1..Len(p) + Len(more) :
             (p \o more)[i] = IF i <= Len(p) THEN p[i] ELSE more[i - Len(p)]
    BY <1>5, ConcatProperties
<1>8. \A i \in 1..m : (p \o more)[i] = q[i]
    <2> SUFFICES ASSUME NEW i \in 1..m PROVE (p \o more)[i] = q[i]
        OBVIOUS
    <2>1. CASE i <= Len(p)
        BY <1>1, <1>4, <1>5, <1>7, <2>1 DEF Prefix
    <2>2. CASE i > Len(p)
        <3>1. i - Len(p) \in 1..m - Len(p) /\ Len(p) + (i - Len(p)) = i
            BY <1>1, <1>4, <2>2
        <3>2. more[i - Len(p)] = q[i]
            BY <1>5, <3>1
        <3>3. i \in 1..Len(p) + Len(more) /\ ~(i <= Len(p))
            BY <1>1, <1>4, <1>5, <2>2
        <3> QED BY <1>7, <3>2, <3>3
    <2>3. i <= Len(p) \/ i > Len(p)
        BY <1>1, <1>4
    <2> QED BY <2>1, <2>2, <2>3
<1>9. Len(p \o more) = m
    BY <1>1, <1>4, <1>5, <1>7
<1> QED BY <1>1, <1>4, <1>6, <1>7, <1>8, <1>9 DEF Prefix

\* The next id is above all ids.
LEMMA NextIdBounds ==
    ASSUME NEW queues \in [Users -> Seq(Batch)], NEW bound \in Nat,
           \A u \in Users : \A i \in 1..Len(queues[u]) : queues[u][i].id < bound
    PROVE  /\ NextBatchId(queues) \in Nat
           /\ \A u \in Users : \A i \in 1..Len(queues[u]) :
                  queues[u][i].id < NextBatchId(queues)
<1> DEFINE ids == UNION {{queues[u][i].id : i \in DOMAIN queues[u]} : u \in Users}
           S == {1} \cup {id + 1 : id \in ids}
           T == {n \in Nat : \A id \in ids : id < n}
<1>1. \A u \in Users : \A i \in 1..Len(queues[u]) : queues[u][i].id \in ids
    BY SeqOfBatches
<1>2. \A id \in ids : id \in Nat /\ id < bound
    BY SeqOfBatches
<1> HIDE DEF ids
<1>3. PICK m \in T : \A n \in T : ~(n < m)
    <2>1. T # {} /\ T \subseteq Nat
        BY <1>2
    <2>2. \E m \in T : \A n \in T : ~(<<n, m>> \in OpToRel(<, Nat))
        <3> HIDE DEF T
        <3> QED BY <2>1, WFMin, NatLessThanWellFounded
    <2> QED BY <2>1, <2>2 DEF OpToRel
<1>4. \E n \in S : n \in Nat /\ \A id \in ids : id < n
    <2>1. CASE ids = {}
        BY <2>1
    <2>2. CASE ids # {}
        <3>1. m \in Nat /\ m > 0 /\ m - 1 \in Nat
            BY <1>2, <2>2
        <3>2. m - 1 \notin T
            BY <1>3, <3>1
        <3>3. PICK id \in ids : ~(id < m - 1)
            BY <3>1, <3>2
        <3>4. id + 1 = m
            BY <1>2, <3>1, <3>3
        <3> QED BY <3>1, <3>4
    <2> QED BY <2>1, <2>2
<1>5. \A n \in S : n \in Nat
    BY <1>2
<1>6. NextBatchId(queues) = CHOOSE n \in S : \A id \in ids : id < n
    BY DEF NextBatchId, ids
<1> HIDE DEF S, T
<1>7. NextBatchId(queues) \in S /\ \A id \in ids : id < NextBatchId(queues)
    BY <1>4, <1>6
<1> QED BY <1>1, <1>5, <1>7

\* FillWritePipeline keeps the pipeline a beginning of the queue, and what is
\* requested in step with it.
LEMMA Fill ==
    ASSUME pipeline \in [Clients -> Seq(Batch)],
           requests \in [Clients -> Seq(Batch)],
           stream \in [Clients -> {"stopped", "starting", "ready"}],
           NEW c \in Clients,
           NEW q \in Seq(Batch), Ascending(q),
           NEW p \in Seq(Batch), Prefix(p, q),
           NEW sent \in Seq(Batch), NEW k \in Nat,
           NEW state \in {"stopped", "starting", "ready"}
    PROVE  InStep(p, sent, k, state) /\ FillWritePipeline(c, q, p, sent, state) =>
           /\ pipeline' \in [Clients -> Seq(Batch)]
           /\ requests' \in [Clients -> Seq(Batch)]
           /\ stream' \in [Clients -> {"stopped", "starting", "ready"}]
           /\ Prefix(p, pipeline'[c])
           /\ Prefix(pipeline'[c], q)
           /\ InStep(pipeline'[c], requests'[c], k, stream'[c])
           /\ \A d \in Clients \ {c} : /\ pipeline'[d] = pipeline[d]
                                      /\ requests'[d] = requests[d]
                                      /\ stream'[d] = stream[d]
<1>0. SUFFICES ASSUME InStep(p, sent, k, state), FillWritePipeline(c, q, p, sent, state)
             PROVE  /\ pipeline' \in [Clients -> Seq(Batch)]
                    /\ requests' \in [Clients -> Seq(Batch)]
                    /\ stream' \in [Clients -> {"stopped", "starting", "ready"}]
                    /\ Prefix(p, pipeline'[c])
                    /\ Prefix(pipeline'[c], q)
                    /\ InStep(pipeline'[c], requests'[c], k, stream'[c])
                    /\ \A d \in Clients \ {c} : /\ pipeline'[d] = pipeline[d]
                                               /\ requests'[d] = requests[d]
                                               /\ stream'[d] = stream[d]
    OBVIOUS
<1> DEFINE filled == Filled(p, q)
           added == SubSeq(filled, Len(p) + 1, Len(filled))
           sending == sent \o added
<1>1. /\ pipeline' = [pipeline EXCEPT ![c] = filled]
      /\ requests' = [requests EXCEPT ![c] = IF state = "ready" THEN sent \o added ELSE sent]
      /\ stream' = [stream EXCEPT ![c] =
             IF state = "stopped" /\ filled # <<>> THEN "starting" ELSE state]
    BY <1>0 DEF FillWritePipeline
<1>2. filled \in Seq(Batch) /\ Prefix(filled, q) /\ Len(p) <= Len(filled)
    BY FilledIsPrefix
<1> HIDE DEF filled
<1>3. Len(p) \in Nat /\ Len(q) \in Nat /\ Len(filled) \in Nat /\ Len(sent) \in Nat
    BY <1>2, LenProperties
<1>4. Prefix(p, filled)
    <2>1. /\ \A i \in 1..Len(p) : p[i] = q[i]
          /\ \A i \in 1..Len(filled) : filled[i] = q[i]
        BY <1>2 DEF Prefix
    <2>2. \A i \in 1..Len(p) : i \in 1..Len(filled)
        BY <1>2, <1>3
    <2> QED BY <1>2, <2>1, <2>2 DEF Prefix
<1>5. /\ added \in Seq(Batch)
      /\ Len(added) = Len(filled) - Len(p)
      /\ \A i \in 1..Len(filled) - Len(p) : added[i] = filled[Len(p) + i]
    <2>1. Len(p) + 1 \in Int /\ Len(filled) \in Int
          /\ \A i \in Len(p) + 1..Len(filled) : filled[i] \in Batch
        BY <1>2, <1>3, ElementOfSeq
    <2>2. /\ added \in Seq(Batch)
          /\ Len(added) = IF Len(p) + 1 <= Len(filled)
                          THEN Len(filled) - (Len(p) + 1) + 1 ELSE 0
          /\ \A i \in 1..Len(filled) - (Len(p) + 1) + 1 :
                 added[i] = filled[Len(p) + 1 + i - 1]
        BY <2>1, SubSeqProperties
    <2> HIDE DEF added
    <2>3. Len(added) = Len(filled) - Len(p)
        BY <1>2, <1>3, <2>2
    <2>4. ASSUME NEW i \in 1..Len(filled) - Len(p)
          PROVE  added[i] = filled[Len(p) + i]
        <3>1. i \in 1..Len(filled) - (Len(p) + 1) + 1 /\ Len(p) + 1 + i - 1 = Len(p) + i
            BY <1>3
        <3> QED BY <2>2, <3>1
    <2> QED BY <2>2, <2>3, <2>4
<1> HIDE DEF added
<1>l. Len(added) = Len(filled) - Len(p)
    BY <1>5
<1>6. /\ sending \in Seq(Batch)
      /\ Len(sending) = Len(sent) + Len(added)
      /\ \A i \in 1..Len(sent) + Len(added) :
             sending[i] = IF i <= Len(sent) THEN sent[i] ELSE added[i - Len(sent)]
    BY <1>5, ConcatProperties
<1>m. Len(sending) = Len(sent) + Len(added)
    BY <1>6
<1>7. InStep(pipeline'[c], requests'[c], k, stream'[c])
    <2>1. CASE state = "ready"
        <3>1. /\ stream'[c] = "ready" /\ pipeline'[c] = filled
              /\ requests'[c] = sending
            BY <1>1, <2>1 DEF sending
        <3>2. k + Len(sent) = Len(p) /\ \A i \in 1..Len(sent) : sent[i] = p[k + i]
            BY <1>0, <2>1 DEF InStep
        <3>3. /\ \A i \in 1..Len(p) : p[i] = filled[i]
              /\ \A i \in 1..Len(sent) + (Len(filled) - Len(p)) :
                     sending[i] = IF i <= Len(sent) THEN sent[i] ELSE added[i - Len(sent)]
            BY <1>4, <1>6, <1>l DEF Prefix
        <3>4. /\ k + (Len(sent) + (Len(filled) - Len(p))) = Len(filled)
              /\ \A i \in 1..Len(sent) + (Len(filled) - Len(p)) : sending[i] = filled[k + i]
            <4> DEFINE l == Len(p)
                       lf == Len(filled)
                       ls == Len(sent)
            <4>1. l \in Nat /\ lf \in Nat /\ ls \in Nat /\ k \in Nat
                BY <1>3
            <4>2. k + ls = l /\ l <= lf /\ \A i \in 1..ls : sent[i] = p[k + i]
                BY <1>2, <3>2
            <4>3. /\ \A i \in 1..l : p[i] = filled[i]
                  /\ \A i \in 1..lf - l : added[i] = filled[l + i]
                  /\ \A i \in 1..ls + (lf - l) :
                         sending[i] = IF i <= ls THEN sent[i] ELSE added[i - ls]
                BY <1>5, <3>3
            <4> HIDE DEF l, lf, ls
            <4>4. k + (ls + (lf - l)) = lf
                BY <4>1, <4>2
            <4>5. ASSUME NEW i \in 1..ls + (lf - l)
                  PROVE  sending[i] = filled[k + i]
                <5>1. CASE i <= ls
                    <6>1. k + i \in 1..l /\ i \in 1..ls
                        BY <4>1, <4>2, <5>1
                    <6> QED BY <4>2, <4>3, <5>1, <6>1
                <5>2. CASE ~(i <= ls)
                    <6>1. i - ls \in 1..lf - l /\ l + (i - ls) = k + i
                        BY <4>1, <4>2, <5>2
                    <6> QED BY <4>3, <5>2, <6>1
                <5> QED BY <5>1, <5>2
            <4> QED BY <4>4, <4>5 DEF l, lf, ls
        <3>5. Len(sending) = Len(sent) + (Len(filled) - Len(p))
            BY <1>l, <1>m
        <3> QED BY <3>1, <3>4, <3>5 DEF InStep
    <2>2. CASE state # "ready"
        <3>1. stream'[c] # "ready" /\ requests'[c] = sent
            BY <1>1, <2>2
        <3> QED BY <1>0, <2>2, <3>1 DEF InStep
    <2> QED BY <2>1, <2>2
<1> QED BY <1>1, <1>2, <1>4, <1>6, <1>7 DEF sending

-----------------------------------------------------------------------------
(* The sequences when one batch is taken or added.                           *)
LEMMA TailParts ==
    ASSUME NEW S, NEW s \in Seq(S), s # <<>>
    PROVE  /\ Len(s) \in Nat \ {0} /\ Head(s) = s[1] /\ s[1] \in S
           /\ Tail(s) \in Seq(S) /\ Len(Tail(s)) = Len(s) - 1
           /\ \A i \in 1..Len(s) - 1 : Tail(s)[i] = s[i + 1]
<1>1. Len(s) \in Nat \ {0}
    BY EmptySeq
<1>2. Head(s) = s[1]
    OBVIOUS
<1> QED BY <1>1, <1>2, HeadTailProperties

LEMMA TailPrefix ==
    ASSUME NEW p \in Seq(Batch), NEW q \in Seq(Batch), p # <<>>, Prefix(p, q)
    PROVE  q # <<>> /\ p[1] = q[1] /\ Prefix(Tail(p), Tail(q))
<1> DEFINE l == Len(p)
           m == Len(q)
           tp == Tail(p)
           tq == Tail(q)
<1>1. l \in Nat \ {0} /\ m \in Nat /\ l <= m /\ \A i \in 1..l : p[i] = q[i]
    BY EmptySeq, LenProperties DEF Prefix
<1>2. q # <<>>
    BY <1>1, EmptySeq
<1>3. /\ Len(tp) = l - 1 /\ \A i \in 1..l - 1 : tp[i] = p[i + 1]
      /\ Len(tq) = m - 1 /\ \A i \in 1..m - 1 : tq[i] = q[i + 1]
    BY <1>2, TailParts
<1> HIDE DEF l, m, tp, tq
<1>4. l - 1 <= m - 1 /\ 1 \in 1..l
    BY <1>1
<1>5. ASSUME NEW i \in 1..l - 1
      PROVE  tp[i] = tq[i]
    <2>1. i + 1 \in 1..l /\ i \in 1..m - 1
        BY <1>1
    <2> QED BY <1>1, <1>3, <2>1
<1>6. Prefix(tp, tq)
    BY <1>3, <1>4, <1>5 DEF Prefix
<1> QED BY <1>1, <1>2, <1>4, <1>6 DEF tp, tq

LEMMA TailAscending ==
    ASSUME NEW q \in Seq(Batch), q # <<>>, Ascending(q)
    PROVE  Ascending(Tail(q))
<1> DEFINE m == Len(q)
           tq == Tail(q)
<1>1. m \in Nat /\ Len(tq) = m - 1 /\ \A i \in 1..m - 1 : tq[i] = q[i + 1]
    BY TailParts
<1>2. \A i, j \in 1..m : i < j => q[i].id < q[j].id
    BY DEF Ascending
<1> HIDE DEF m, tq
<1>3. ASSUME NEW i \in 1..m - 1, NEW j \in 1..m - 1, i < j
      PROVE  tq[i].id < tq[j].id
    <2>1. i + 1 \in 1..m /\ j + 1 \in 1..m /\ i + 1 < j + 1
        BY <1>1, <1>3
    <2> QED BY <1>1, <1>2, <2>1
<1>4. Ascending(tq)
    BY <1>1, <1>3 DEF Ascending
<1> QED BY <1>4 DEF tq

LEMMA AppendQueue ==
    ASSUME NEW q \in Seq(Batch), Ascending(q), NEW b \in Batch,
           \A i \in 1..Len(q) : q[i].id < b.id,
           NEW p \in Seq(Batch), Prefix(p, q)
    PROVE  Ascending(Append(q, b)) /\ Prefix(p, Append(q, b))
<1> DEFINE l == Len(p)
           m == Len(q)
           a == Append(q, b)
<1>1. /\ m \in Nat /\ Len(a) = m + 1
      /\ \A i \in 1..m : a[i] = q[i]
      /\ a[m + 1] = b
    BY AppendProperties, LenProperties
<1>2. /\ \A i, j \in 1..m : i < j => q[i].id < q[j].id
      /\ \A i \in 1..m : q[i].id < b.id
    BY DEF Ascending
<1>3. l \in Nat /\ l <= m /\ \A i \in 1..l : p[i] = q[i]
    BY LenProperties DEF Prefix
<1> HIDE DEF l, m, a
<1>4. ASSUME NEW i \in 1..m + 1, NEW j \in 1..m + 1, i < j
      PROVE  a[i].id < a[j].id
    <2>1. i \in 1..m
        BY <1>1, <1>4
    <2>2. CASE j \in 1..m
        BY <1>1, <1>2, <1>4, <2>1, <2>2
    <2>3. CASE j = m + 1
        BY <1>1, <1>2, <2>1, <2>3
    <2> QED BY <1>1, <2>2, <2>3
<1>5. Ascending(a)
    BY <1>1, <1>4 DEF Ascending
<1>6. l <= m + 1 /\ \A i \in 1..l : i \in 1..m
    BY <1>1, <1>3
<1>7. Prefix(p, a)
    <2>1. \A i \in 1..l : p[i] = a[i]
        BY <1>1, <1>3, <1>6
    <2> QED BY <1>1, <1>6, <2>1 DEF Prefix, l
<1> QED BY <1>5, <1>7 DEF a

\* The first batch of the pipeline is answered for good ...
LEMMA AnswerTaken ==
    ASSUME NEW p \in Seq(Batch), NEW sent \in Seq(Batch), NEW k \in Nat \ {0},
           NEW state, InStep(p, sent, k, state)
    PROVE  state = "ready" /\ p # <<>> /\ InStep(Tail(p), sent, k - 1, state)
<1> DEFINE l == Len(p)
           s == Len(sent)
           tp == Tail(p)
<1>1. /\ state = "ready" /\ l \in Nat /\ s \in Nat /\ k + s = l
      /\ \A i \in 1..s : sent[i] = p[k + i]
    BY LenProperties DEF InStep
<1>2. p # <<>>
    <2>1. Len(p) # 0
        <3> HIDE DEF s
        <3>1. l # 0
            <4> HIDE DEF l
            <4> QED BY <1>1
        <3> QED BY <3>1
    <2> QED BY <2>1, EmptySeq
<1>3. Len(tp) = l - 1 /\ \A i \in 1..l - 1 : tp[i] = p[i + 1]
    BY <1>2, TailParts
<1> HIDE DEF l, s, tp
<1>4. k - 1 + s = l - 1
    BY <1>1
<1>5. ASSUME NEW i \in 1..s
      PROVE  sent[i] = tp[k - 1 + i]
    <2>1. k - 1 + i \in 1..l - 1 /\ k - 1 + i + 1 = k + i
        BY <1>1
    <2> QED BY <1>1, <1>3, <2>1
<1>6. InStep(tp, sent, k - 1, state)
    BY <1>1, <1>3, <1>4, <1>5 DEF InStep, s
<1> QED BY <1>1, <1>2, <1>6 DEF tp

\* ... or the first that was requested is answered.
LEMMA RequestTaken ==
    ASSUME NEW p \in Seq(Batch), NEW sent \in Seq(Batch), NEW k \in Nat,
           NEW state, InStep(p, sent, k, state), sent # <<>>
    PROVE  /\ state = "ready" /\ k + 1 \in 1..Len(p) /\ sent[1] = p[k + 1]
           /\ InStep(p, Tail(sent), k + 1, state)
<1> DEFINE l == Len(p)
           s == Len(sent)
           ts == Tail(sent)
<1>1. /\ state = "ready" /\ l \in Nat /\ k + s = l
      /\ \A i \in 1..s : sent[i] = p[k + i]
    BY LenProperties DEF InStep
<1>2. s \in Nat \ {0} /\ Len(ts) = s - 1 /\ \A i \in 1..s - 1 : ts[i] = sent[i + 1]
    BY TailParts
<1> HIDE DEF l, s, ts
<1>3. k + 1 \in 1..l /\ 1 \in 1..s /\ k + 1 + (s - 1) = l
    BY <1>1, <1>2
<1>4. ASSUME NEW i \in 1..s - 1
      PROVE  ts[i] = p[k + 1 + i]
    <2>1. i + 1 \in 1..s /\ k + (i + 1) = k + 1 + i
        BY <1>2
    <2> QED BY <1>1, <1>2, <2>1
<1>5. InStep(p, ts, k + 1, state)
    BY <1>1, <1>2, <1>3, <1>4 DEF InStep, l
<1> QED BY <1>1, <1>3, <1>5 DEF l, ts

-----------------------------------------------------------------------------
(* What every action has in common.                                          *)
Grown == /\ issued <= issued' /\ Len(log) <= Len(log')
         /\ \A v \in 1..Len(log) : log'[v] = log[v]

Untouched(d) ==
    /\ user'[d] = user[d] /\ queue'[d] = queue[d] /\ nextId'[d] = nextId[d]
    /\ cache'[d] = cache[d] /\ callbacks'[d] = callbacks[d]
    /\ pipeline'[d] = pipeline[d] /\ stream'[d] = stream[d]
    /\ requests'[d] = requests[d] /\ answers'[d] = answers[d] /\ watch'[d] = watch[d]

LEMMA Types ==
    ASSUME TypeOK, NEW c \in Clients
    PROVE  /\ issued \in Nat /\ user[c] \in Users /\ nextId[c] \in Nat
           /\ \A u \in Users : /\ queue[c][u] \in Seq(Batch)
                               /\ Len(queue[c][u]) \in Nat
                               /\ callbacks[c][u] \subseteq Batch
           /\ Own(c) \in Seq(Batch) /\ Len(Own(c)) \in Nat
           /\ pipeline[c] \in Seq(Batch) /\ Len(pipeline[c]) \in Nat
           /\ requests[c] \in Seq(Batch)
           /\ answers[c] \in Seq(Answer) /\ Len(answers[c]) \in Nat
           /\ stream[c] \in {"stopped", "starting", "ready"}
           /\ cache[c] \in [version : Nat, committed : BOOLEAN]
           /\ watch[c] \in [open : BOOLEAN, pushed : Nat, version : Nat]
           /\ view[c] \in [write : Writes \cup {0}, local : BOOLEAN]
           /\ log \in Seq(Writes \cup {0}) /\ Len(log) \in Nat
           /\ \A v \in 1..Len(log) : log[v] \in Nat
<1>1. /\ issued \in Nat /\ user[c] \in Users /\ nextId[c] \in Nat
      /\ \A u \in Users : queue[c][u] \in Seq(Batch) /\ callbacks[c][u] \subseteq Batch
      /\ stream[c] \in {"stopped", "starting", "ready"}
      /\ cache[c] \in [version : Nat, committed : BOOLEAN]
      /\ watch[c] \in [open : BOOLEAN, pushed : Nat, version : Nat]
      /\ view[c] \in [write : Writes \cup {0}, local : BOOLEAN]
    BY ClientAssumption DEF TypeOK
<1>2. /\ pipeline[c] \in Seq(Batch) /\ requests[c] \in Seq(Batch)
      /\ answers[c] \in Seq(Answer) /\ log \in Seq(Writes \cup {0})
    BY DEF TypeOK
<1>3. \A v \in 1..Len(log) : log[v] \in Nat
    <2>1. \A v \in 1..Len(log) : log[v] \in Writes \cup {0}
        BY <1>2, ElementOfSeq
    <2> QED BY <2>1, ClientAssumption DEF Writes
<1>4. Own(c) \in Seq(Batch)
    BY <1>1 DEF Own
<1>5. \A u \in Users : Len(queue[c][u]) \in Nat
    BY <1>1, LenProperties
<1>6. /\ Len(Own(c)) \in Nat /\ Len(pipeline[c]) \in Nat
      /\ Len(answers[c]) \in Nat /\ Len(log) \in Nat
    BY <1>2, <1>4, LenProperties
<1> QED BY <1>1, <1>2, <1>3, <1>4, <1>5, <1>6

\* An answer stays the right one.
LEMMA StillMeets ==
    ASSUME TypeOK, Grown, Len(log') \in Nat, NEW c \in Clients,
           NEW answer \in Answer, NEW w, Meets(answer, w)
    PROVE  Meets(answer, w)'
<1> DEFINE l == Len(log)
           m == Len(log')
<1>1. l \in Nat /\ m \in Nat /\ l <= m /\ \A v \in 1..l : log'[v] = log[v]
    BY Types DEF Grown
<1>2. CASE answer.ok
    <2>1. answer.version \in 1..l /\ log[answer.version] = w
        BY <1>2 DEF Meets
    <2> HIDE DEF l, m
    <2>2. answer.version \in 1..m /\ log'[answer.version] = w
        BY <1>1, <2>1
    <2> QED BY <1>2, <2>2 DEF Meets, m
<1>3. CASE ~answer.ok
    BY <1>3 DEF Meets
<1> QED BY <1>2, <1>3

LEMMA Kept ==
    ASSUME TypeOK, Grown, issued' \in Nat, Len(log') \in Nat,
           NEW d \in Clients, ClientOK(d), Untouched(d)
    PROVE  ClientOK(d)'
<1> USE DEF Untouched
<1>1. ASSUME NEW u \in Users
      PROVE  QueueOK(d, u)'
    <2>1. QueueOK(d, u)
        BY DEF ClientOK
    <2>2. \A i \in 1..Len(queue[d][u]) : queue[d][u][i].write <= issued'
        <3> DEFINE q == queue[d][u]
        <3>1. issued \in Nat /\ issued <= issued'
              /\ \A i \in 1..Len(q) : q[i].write \in Nat /\ q[i].write <= issued
            <4>1. \A i \in 1..Len(q) : q[i].write \in Writes
                BY Types, SeqOfBatches
            <4> QED BY <2>1, <4>1, Types, ClientAssumption DEF QueueOK, Writes, Grown
        <3> HIDE DEF q
        <3>2. \A i \in 1..Len(q) : q[i].write <= issued'
            BY <3>1
        <3> QED BY <3>2 DEF q
    <2> QED BY <2>1, <2>2 DEF QueueOK
<1>2. PipelineOK(d)'
    <2>1. PipelineOK(d) /\ \A i \in 1..Len(answers[d]) : answers[d][i] \in Answer
        BY Types, ElementOfSeq DEF ClientOK
    <2>2. \A i \in 1..Len(answers[d]) : Meets(answers[d][i], pipeline[d][i].write)
        BY <2>1 DEF PipelineOK
    <2>3. \A i \in 1..Len(answers[d]) : Meets(answers[d][i], pipeline[d][i].write)'
        BY <2>1, <2>2, StillMeets
    <2>4. Own(d)' = Own(d)
        BY DEF Own
    <2> QED BY <2>1, <2>3, <2>4 DEF PipelineOK
<1>3. SeenOK(d)'
    <2> DEFINE l == Len(log)
               m == Len(log')
    <2>1. l \in Nat /\ m \in Nat /\ l <= m
          /\ cache[d].version \in 1..l /\ watch[d].version \in 0..l
        BY Types DEF Grown, ClientOK, SeenOK
    <2> HIDE DEF l, m
    <2>2. cache[d].version \in 1..m /\ watch[d].version \in 0..m
        BY <2>1
    <2> QED BY <2>2 DEF SeenOK, m
<1> QED BY <1>1, <1>2, <1>3 DEF ClientOK

LEMMA Assembled ==
    ASSUME IInv, NEW c \in Clients, TypeOK', Grown,
           \A d \in Clients \ {c} : Untouched(d), ClientOK(c)',
           ServerOK', ToldOK', (\A w \in 1..issued : Accounted(w))'
    PROVE  IInv'
<1>1. issued' \in Nat /\ Len(log') \in Nat
    BY ClientAssumption, LenProperties DEF TypeOK
<1>2. \A d \in Clients : ClientOK(d)'
    BY <1>1, Kept DEF IInv
<1> QED BY <1>2 DEF IInv

\* Nothing happens to the server, the callbacks and the queues.
LEMMA ServerKept ==
    ASSUME IInv, UNCHANGED <<log, issued, told, queue>>
    PROVE  /\ Grown /\ ServerOK' /\ ToldOK'
           /\ (\A w \in 1..issued : Accounted(w))'
<1>1. Grown
    <2>1. issued \in Nat /\ Len(log) \in Nat
        BY ClientAssumption, LenProperties DEF IInv, TypeOK
    <2> QED BY <2>1 DEF Grown
<1>2. ServerOK' /\ ToldOK'
    BY DEF IInv, ServerOK, ToldOK
<1>3. \A w \in 1..issued : Accounted(w)
    BY DEF IInv
<1> QED BY <1>1, <1>2, <1>3 DEF Accounted, Waits

LEMMA HandshakeInv ==
    ASSUME IInv, NEW c \in Clients, HandshakeComplete(c)
    PROVE  IInv'
<1> USE DEF HandshakeComplete, local_store
<1>1. TypeOK /\ ClientOK(c)
    BY DEF IInv
<1>2. TypeOK'
    BY <1>1 DEF TypeOK
<1>3. \A d \in Clients \ {c} : Untouched(d)
    BY <1>1 DEF Untouched, TypeOK
<1>4. ClientOK(c)'
    <2>1. /\ stream'[c] = "ready" /\ requests'[c] = pipeline[c]
          /\ \A u \in Users : QueueOK(c, u)'
        BY <1>1 DEF TypeOK, ClientOK, QueueOK
    <2>2. Len(answers[c]) = 0 /\ Len(pipeline[c]) \in Nat
        BY <1>1, Types DEF ClientOK, PipelineOK, InStep
    <2>3. InStep(pipeline[c], pipeline[c], Len(answers[c]), "ready")
        <3> DEFINE p == pipeline[c]
                   l == Len(p)
                   k == Len(answers[c])
        <3>1. k = 0 /\ l \in Nat
            BY <2>2
        <3> HIDE DEF l, k, p
        <3>2. k + l = l /\ \A i \in 1..l : p[i] = p[k + i]
            BY <3>1
        <3>3. InStep(p, p, k, "ready")
            BY <3>2 DEF InStep, l
        <3> QED BY <3>3 DEF p, k
    <2>4. PipelineOK(c)'
        <3>1. PipelineOK(c)
            BY <1>1 DEF ClientOK
        <3>2. /\ Prefix(pipeline[c], Own(c))'
              /\ (\A i \in 1..Len(answers[c]) : Meets(answers[c][i], pipeline[c][i].write))'
            BY <3>1 DEF PipelineOK, Own, Meets
        <3> QED BY <2>1, <2>3, <3>2 DEF PipelineOK
    <2>5. SeenOK(c)'
        BY <1>1 DEF ClientOK, SeenOK
    <2> QED BY <2>1, <2>4, <2>5 DEF ClientOK
<1> QED BY <1>2, <1>3, <1>4, ServerKept, Assembled

\* The stream is closed, and what was under way on it forgotten.
LEMMA StreamClosedInv ==
    ASSUME IInv, NEW c \in Clients, WriteStreamFails(c) \/ WriteStreamIdles(c)
    PROVE  IInv'
<1>1. TypeOK /\ ClientOK(c) /\ PipelineOK(c)
    BY DEF IInv, ClientOK
<1>0. CASE WriteStreamFails(c)
    <2> USE <1>0 DEF WriteStreamFails, Fails, local_store
    <2>1. TypeOK'
        BY <1>1, EmptySeq, ClientAssumption DEF TypeOK
    <2>2. \A d \in Clients \ {c} : Untouched(d)
        BY <1>1 DEF Untouched, TypeOK
    <2>3. stream'[c] # "ready" /\ requests'[c] = <<>> /\ Len(answers'[c]) = 0
        BY <1>1, EmptySeq DEF TypeOK
    <2>4. ClientOK(c)'
        <3>1. (\A u \in Users : QueueOK(c, u)') /\ SeenOK(c)'
            BY <1>1 DEF ClientOK, QueueOK, SeenOK
        <3>2. Prefix(pipeline[c], Own(c))'
            BY <1>1 DEF PipelineOK, Own
        <3>3. PipelineOK(c)'
            BY <2>3, <3>2 DEF PipelineOK, InStep
        <3> QED BY <3>1, <3>3 DEF ClientOK
    <2> QED BY <2>1, <2>2, <2>4, ServerKept, Assembled
<1>2. CASE WriteStreamIdles(c)
    <2> USE <1>2 DEF WriteStreamIdles, local_store
    <2>1. TypeOK'
        BY <1>1 DEF TypeOK
    <2>2. \A d \in Clients \ {c} : Untouched(d)
        BY <1>1 DEF Untouched, TypeOK
    <2>3. requests[c] = <<>> /\ Len(answers[c]) = 0
        <3> DEFINE k == Len(answers[c])
                   s == Len(requests[c])
        <3>1. k + s = Len(pipeline[c]) /\ Len(pipeline[c]) = 0
            BY <1>1, EmptySeq DEF PipelineOK, InStep
        <3>2. k \in Nat /\ s \in Nat
            BY <1>1, Types, LenProperties
        <3> HIDE DEF k, s
        <3>3. k = 0 /\ s = 0
            BY <3>1, <3>2
        <3> QED BY <1>1, <3>3, EmptySeq, Types DEF k, s
    <2>4. stream'[c] # "ready"
        BY <1>1 DEF TypeOK
    <2>5. ClientOK(c)'
        <3>1. (\A u \in Users : QueueOK(c, u)') /\ SeenOK(c)'
            BY <1>1 DEF ClientOK, QueueOK, SeenOK
        <3>2. Prefix(pipeline[c], Own(c))'
            BY <1>1 DEF PipelineOK, Own
        <3>3. PipelineOK(c)'
            BY <2>3, <2>4, <3>2 DEF PipelineOK, InStep
        <3> QED BY <3>1, <3>3 DEF ClientOK
    <2> QED BY <2>1, <2>2, <2>5, ServerKept, Assembled
<1> QED BY <1>0, <1>2

\* What the listeners are given is a write, or the document before them.
LEMMA ShownType ==
    ASSUME TypeOK, NEW q \in Seq(Batch), NEW cached, cached.version \in 1..Len(log)
    PROVE  /\ Document(q, cached) \in [write : Writes \cup {0}, local : BOOLEAN]
           /\ \A old \in [write : Writes \cup {0}, local : BOOLEAN] :
                  Shown(old, q, cached) \in [write : Writes \cup {0}, local : BOOLEAN]
<1>1. log[cached.version] \in Writes \cup {0}
    <2>1. log \in Seq(Writes \cup {0})
        BY DEF TypeOK
    <2> QED BY <2>1, ElementOfSeq
<1>2. q # <<>> => Last(q).write \in Writes
    <2>1. q # <<>> => Len(q) \in 1..Len(q)
        BY EmptySeq
    <2> QED BY <2>1, SeqOfBatches DEF Last
<1>3. Document(q, cached) \in [write : Writes \cup {0}, local : BOOLEAN]
    BY <1>1, <1>2 DEF Document
<1> QED BY <1>3 DEF Shown

(* The two fields of a watch stream that change together.                    *)
WatchSet == [open : BOOLEAN, pushed : Nat, version : Nat]

LEMMA WatchPushed ==
    ASSUME watch \in [Clients -> WatchSet], NEW c \in Clients, NEW v \in Nat
    PROVE  watch' = [watch EXCEPT ![c].pushed = v, ![c].version = v] =>
           /\ watch' \in [Clients -> WatchSet] /\ watch'[c].version = v
           /\ \A d \in Clients \ {c} : watch'[d] = watch[d]
<1> DEFINE M == [watch EXCEPT ![c].pushed = v]
<1>0. SUFFICES ASSUME watch' = [watch EXCEPT ![c].pushed = v, ![c].version = v]
      PROVE  /\ watch' \in [Clients -> WatchSet] /\ watch'[c].version = v
           /\ \A d \in Clients \ {c} : watch'[d] = watch[d]
    OBVIOUS
<1>1. M \in [Clients -> WatchSet] /\ \A d \in Clients \ {c} : M[d] = watch[d]
    BY DEF WatchSet
<1>2. watch' = [M EXCEPT ![c].version = v]
    BY <1>0, Zenon
<1> HIDE DEF M
<1> QED BY <1>1, <1>2 DEF WatchSet

LEMMA WatchClosed ==
    ASSUME watch \in [Clients -> WatchSet], NEW c \in Clients
    PROVE  watch' = [watch EXCEPT ![c].open = FALSE, ![c].version = 0] =>
           /\ watch' \in [Clients -> WatchSet] /\ watch'[c].version = 0
           /\ \A d \in Clients \ {c} : watch'[d] = watch[d]
<1> DEFINE M == [watch EXCEPT ![c].open = FALSE]
<1>0. SUFFICES ASSUME watch' = [watch EXCEPT ![c].open = FALSE, ![c].version = 0]
      PROVE  /\ watch' \in [Clients -> WatchSet] /\ watch'[c].version = 0
           /\ \A d \in Clients \ {c} : watch'[d] = watch[d]
    OBVIOUS
<1>1. M \in [Clients -> WatchSet] /\ \A d \in Clients \ {c} : M[d] = watch[d]
    BY DEF WatchSet
<1>2. watch' = [M EXCEPT ![c].version = 0]
    BY <1>0, Zenon
<1> HIDE DEF M
<1> QED BY <1>1, <1>2 DEF WatchSet

\* The watch stream.
LEMMA WatchInv ==
    ASSUME IInv, NEW c \in Clients,
           WatchOpens(c) \/ WatchFails(c) \/ ServerPushes(c) \/ ApplyRemoteEvent(c)
    PROVE  IInv'
<1>1. TypeOK /\ ClientOK(c) /\ Len(log) \in Nat \ {0}
    BY Types DEF IInv, ServerOK
<1>2. /\ UNCHANGED <<log, issued, told, queue, user, nextId, callbacks, write_stream>>
      /\ failures' \in 0..MaxFailures
    BY <1>1, ClientAssumption
    DEF WatchOpens, WatchFails, ServerPushes, ApplyRemoteEvent, local_store, Fails, TypeOK
<1>3. /\ watch' \in [Clients -> [open : BOOLEAN, pushed : Nat, version : Nat]]
      /\ watch'[c].version \in 0..Len(log)
      /\ \A d \in Clients \ {c} : watch'[d] = watch[d]
    <2>0. /\ watch \in [Clients -> [open : BOOLEAN, pushed : Nat, version : Nat]]
          /\ watch[c] \in [open : BOOLEAN, pushed : Nat, version : Nat]
          /\ Len(log) \in Nat /\ Len(log) - 1 \in Nat
        BY <1>1 DEF TypeOK
    <2>1. CASE WatchOpens(c)
        BY <2>0, <2>1 DEF WatchOpens
    <2>2. CASE WatchFails(c)
        <3>1. watch' = [watch EXCEPT ![c].open = FALSE, ![c].version = 0]
            BY <2>2 DEF WatchFails
        <3>2. watch \in [Clients -> WatchSet]
            BY <2>0 DEF WatchSet
        <3>3. /\ watch' \in [Clients -> WatchSet] /\ watch'[c].version = 0
              /\ \A d \in Clients \ {c} : watch'[d] = watch[d]
            BY <3>1, <3>2, WatchClosed, Zenon
        <3> QED BY <2>0, <3>3 DEF WatchSet
    <2>3. CASE ServerPushes(c)
        <3>1. PICK v \in watch[c].pushed + 1..Len(log) :
                  watch' = [watch EXCEPT ![c].pushed = v, ![c].version = v]
            BY <2>3 DEF ServerPushes
        <3>2. v \in Nat /\ v <= Len(log)
            BY <2>0
        <3>3. /\ watch' \in [Clients -> WatchSet] /\ watch'[c].version = v
              /\ \A d \in Clients \ {c} : watch'[d] = watch[d]
            <4>1. watch \in [Clients -> WatchSet]
                BY <2>0 DEF WatchSet
            <4> QED BY <3>1, <3>2, <4>1, WatchPushed, Zenon
        <3>4. v \in 0..Len(log)
            BY <2>0, <3>2
        <3> QED BY <3>3, <3>4 DEF WatchSet
    <2>4. CASE ApplyRemoteEvent(c)
        <3>1. watch' = [watch EXCEPT ![c].version = 0]
            BY <2>4 DEF ApplyRemoteEvent
        <3> QED BY <2>0, <3>1
    <2> QED BY <2>1, <2>2, <2>3, <2>4
<1>4. /\ cache' \in [Clients -> [version : Nat, committed : BOOLEAN]]
      /\ cache'[c].version \in 1..Len(log)
      /\ \A d \in Clients \ {c} : cache'[d] = cache[d]
      /\ view' \in [Clients -> [write : Writes \cup {0}, local : BOOLEAN]]
    <2>1. CASE UNCHANGED <<cache, view>>
        BY <1>1, <2>1 DEF TypeOK, ClientOK, SeenOK
    <2>2. CASE ApplyRemoteEvent(c) /\ ~UNCHANGED <<cache, view>>
        <3> DEFINE cached == [version |-> watch[c].version, committed |-> FALSE]
        <3>1. /\ watch[c].version # 0
              /\ cache' = [cache EXCEPT ![c] = cached]
              /\ view' = [view EXCEPT ![c] = Shown(@, Own(c), cached)]
            BY <2>2 DEF ApplyRemoteEvent
        <3>2. cached.version \in 1..Len(log) /\ cached.version \in Nat
            BY <1>1, <3>1 DEF ClientOK, SeenOK
        <3>3. Shown(view[c], Own(c), cached) \in [write : Writes \cup {0}, local : BOOLEAN]
            <4>1. Own(c) \in Seq(Batch)
                  /\ view[c] \in [write : Writes \cup {0}, local : BOOLEAN]
                BY <1>1, Types
            <4> HIDE DEF cached
            <4> QED BY <1>1, <3>2, <4>1, ShownType
        <3>4. cached \in [version : Nat, committed : BOOLEAN]
            BY <3>2
        <3> HIDE DEF cached
        <3> QED BY <1>1, <3>1, <3>2, <3>3, <3>4 DEF TypeOK
    <2> QED BY <2>1, <2>2 DEF WatchOpens, WatchFails, ServerPushes, ApplyRemoteEvent,
                              local_store
<1>5. TypeOK'
    BY <1>1, <1>2, <1>3, <1>4 DEF TypeOK, write_stream
<1>6. \A d \in Clients \ {c} : Untouched(d)
    BY <1>2, <1>3, <1>4 DEF Untouched, write_stream
<1>7. ClientOK(c)'
    <2>1. (\A u \in Users : QueueOK(c, u)')
        BY <1>1, <1>2 DEF ClientOK, QueueOK
    <2>2. PipelineOK(c)'
        BY <1>1, <1>2 DEF ClientOK, PipelineOK, Own, Meets, write_stream
    <2>3. SeenOK(c)'
        BY <1>2, <1>3, <1>4 DEF SeenOK
    <2> QED BY <2>1, <2>2, <2>3 DEF ClientOK
<1> QED BY <1>2, <1>5, <1>6, <1>7, ServerKept, Assembled

\* The server answers the first request.
LEMMA ServedInv ==
    ASSUME IInv, NEW c \in Clients, ServerCommits(c) \/ ServerRejects(c)
    PROVE  IInv'
<1> DEFINE p == pipeline[c]
           k == Len(answers[c])
           w == Head(requests[c]).write
           l == Len(log)
<1>1. TypeOK /\ ClientOK(c) /\ PipelineOK(c) /\ ServerOK
    BY DEF IInv, ClientOK
<1>2. /\ requests[c] # <<>>
      /\ UNCHANGED <<issued, told, user, queue, nextId, cache, callbacks, view,
                     pipeline, stream, watch, failures>>
      /\ requests' = [requests EXCEPT ![c] = Tail(@)]
    BY DEF ServerCommits, ServerRejects, Serving, local_store
<1>3. p \in Seq(Batch) /\ requests[c] \in Seq(Batch) /\ k \in Nat /\ l \in Nat
      /\ answers[c] \in Seq(Answer)
    BY <1>1, Types
<1>4. /\ stream[c] = "ready" /\ k + 1 \in 1..Len(p) /\ requests[c][1] = p[k + 1]
      /\ InStep(p, Tail(requests[c]), k + 1, stream[c])
    BY <1>1, <1>2, <1>3, RequestTaken DEF PipelineOK
<1>5. /\ Tail(requests[c]) \in Seq(Batch) /\ w = p[k + 1].write /\ w \in Writes
    <2>1. Head(requests[c]) = requests[c][1] /\ Tail(requests[c]) \in Seq(Batch)
        BY <1>2, <1>3, TailParts
    <2>2. p[k + 1].write \in Writes
        BY <1>3, <1>4, SeqOfBatches
    <2> QED BY <1>4, <2>1, <2>2
<1>6. w <= issued
    <2>1. Prefix(p, Own(c)) /\ \A i \in 1..Len(Own(c)) : Own(c)[i].write <= issued
        BY <1>1, Types DEF PipelineOK, ClientOK, QueueOK, Own
    <2>2. k + 1 \in 1..Len(Own(c)) /\ p[k + 1] = Own(c)[k + 1]
        <3> DEFINE m == Len(Own(c))
                   n == Len(p)
        <3>1. n \in Nat /\ m \in Nat /\ n <= m /\ k + 1 \in 1..n
              /\ \A i \in 1..n : p[i] = Own(c)[i]
            BY <1>1, <1>4, <2>1, Types DEF Prefix
        <3> HIDE DEF m, n, k, p
        <3> QED BY <3>1 DEF m
    <2> QED BY <1>5, <2>1, <2>2
<1>7. PICK a \in Answer : /\ answers' = [answers EXCEPT ![c] = Append(@, a)]
                         /\ \/ /\ a.ok /\ a.version = l + 1 /\ w \notin Forbidden
                               /\ log' = Append(log, w)
                            \/ ~a.ok /\ w \in Forbidden /\ log' = log
    <2>1. CASE ServerCommits(c)
        <3> DEFINE a == [ok |-> TRUE, version |-> l + 1]
        <3>1. a \in Answer
            BY <1>3 DEF Answer
        <3> QED BY <2>1, <3>1 DEF ServerCommits
    <2>2. CASE ServerRejects(c)
        <3> DEFINE a == [ok |-> FALSE, version |-> 0]
        <3>1. a \in Answer
            BY DEF Answer
        <3> QED BY <2>2, <3>1 DEF ServerRejects
    <2> QED BY <2>1, <2>2
<1>8. /\ log \in Seq(Writes \cup {0}) /\ w \in Writes \cup {0}
      /\ \A v \in 1..l : log[v] \in Nat
    BY <1>1, <1>5, Types
<1>9. /\ log' \in Seq(Writes \cup {0})
      /\ \A v \in 1..l : log'[v] = log[v]
      /\ \/ a.ok /\ Len(log') = l + 1 /\ log'[l + 1] = w /\ w \notin Forbidden
         \/ ~a.ok /\ Len(log') = l /\ w \in Forbidden
    <2> HIDE DEF w
    <2>1. CASE log' = log
        BY <1>7, <1>8, <2>1, AppendProperties
    <2>2. CASE log' = Append(log, w)
        <3>1. /\ Append(log, w) \in Seq(Writes \cup {0})
              /\ Len(Append(log, w)) = l + 1
              /\ \A v \in 1..l : Append(log, w)[v] = log[v]
              /\ Append(log, w)[l + 1] = w
            BY <1>8, AppendProperties
        <3>2. Append(log, w) # log
            <4>1. Len(Append(log, w)) # Len(log)
                <5> HIDE DEF l
                <5>1. l + 1 # l
                    BY <1>3
                <5> QED BY <3>1, <5>1 DEF l
            <4> QED BY <4>1
        <3> QED BY <1>7, <2>2, <3>1, <3>2
    <2> QED BY <1>7, <2>1, <2>2
<1>10. /\ Append(answers[c], a) \in Seq(Answer) /\ Len(Append(answers[c], a)) = k + 1
       /\ \A i \in 1..k : Append(answers[c], a)[i] = answers[c][i]
       /\ Append(answers[c], a)[k + 1] = a
    BY <1>3, AppendProperties
<1>11. TypeOK'
    BY <1>1, <1>2, <1>5, <1>7, <1>9, <1>10 DEF TypeOK
<1>12. Grown
    <2>1. issued \in Nat
        BY <1>1, Types
    <2>2. l <= Len(log')
        <3> HIDE DEF l
        <3> QED BY <1>3, <1>9
    <2> QED BY <1>2, <1>9, <2>1, <2>2 DEF Grown
<1>13. \A d \in Clients \ {c} : Untouched(d)
    BY <1>1, <1>2, <1>7 DEF Untouched, TypeOK
<1>14. Len(log') \in Nat
    BY <1>9, LenProperties
<1>15. ClientOK(c)'
    <2>1. (\A u \in Users : QueueOK(c, u)')
        BY <1>1, <1>2 DEF ClientOK, QueueOK
    <2>2. answers'[c] = Append(answers[c], a) /\ requests'[c] = Tail(requests[c])
        BY <1>1, <1>2, <1>7 DEF TypeOK
    <2>3. InStep(p, requests[c], Len(answers[c]), stream[c])'
        BY <1>2, <1>4, <1>10, <2>2
    <2>4. ASSUME NEW i \in 1..k + 1
          PROVE  Meets(answers[c][i], p[i].write)'
        <3>1. CASE i = k + 1
            <4>1. IF a.ok THEN a.version \in 1..Len(log') /\ log'[a.version] = w
                  ELSE w \in Forbidden
                <5> HIDE DEF l, w
                <5>1. a.ok => l + 1 \in 1..Len(log') /\ a.version = l + 1
                    BY <1>3, <1>7, <1>9
                <5> QED BY <1>9, <5>1
            <4>2. answers'[c][i] = a /\ p'[i].write = w
                BY <1>2, <1>5, <1>10, <2>2, <3>1
            <4> HIDE DEF w, p
            <4> QED BY <4>1, <4>2 DEF Meets
        <3>2. CASE i # k + 1
            <4> HIDE DEF k
            <4>1. i \in 1..k
                BY <1>3, <3>2
            <4>2. answers[c][i] \in Answer /\ Meets(answers[c][i], p[i].write)
                BY <1>1, <1>3, <4>1, ElementOfSeq DEF PipelineOK, k
            <4>3. answers'[c][i] = answers[c][i] /\ p' = p
                BY <1>2, <1>10, <2>2, <4>1
            <4>4. Meets(answers[c][i], p[i].write)'
                BY <1>1, <1>12, <1>14, <4>2, <4>3, StillMeets
            <4> QED BY <4>4
        <3> QED BY <3>1, <3>2
    <2>5. PipelineOK(c)'
        <3>1. Prefix(pipeline[c], Own(c))'
            BY <1>1, <1>2 DEF PipelineOK, Own
        <3>2. Len(answers'[c]) = k + 1
            BY <1>10, <2>2
        <3> QED BY <2>3, <2>4, <3>1, <3>2 DEF PipelineOK
    <2>6. SeenOK(c)'
        <3>1. cache'[c] = cache[c] /\ watch'[c] = watch[c] /\ SeenOK(c)
            BY <1>1, <1>2 DEF ClientOK
        <3>2. cache[c].version \in 1..l /\ watch[c].version \in 0..l /\ l <= Len(log')
            BY <1>12, <3>1 DEF SeenOK, Grown
        <3> HIDE DEF l
        <3>3. cache[c].version \in 1..Len(log') /\ watch[c].version \in 0..Len(log')
            BY <1>3, <1>14, <3>2
        <3> QED BY <3>1, <3>3 DEF SeenOK
    <2> QED BY <2>1, <2>5, <2>6 DEF ClientOK
<1>16. ServerOK'
    <2>1. l > 0 /\ \A v \in 1..l : log[v] <= issued /\ log[v] \notin Forbidden
        BY <1>1 DEF ServerOK
    <2> HIDE DEF l, w
    <2>2. Len(log') > 0
        BY <1>3, <1>9, <2>1
    <2>3. ASSUME NEW v \in 1..Len(log')
          PROVE  log'[v] <= issued /\ log'[v] \notin Forbidden
        <3>1. CASE v \in 1..l
            BY <1>9, <2>1, <3>1
        <3>2. CASE v \notin 1..l
            <4>1. v = l + 1 /\ a.ok
                BY <1>3, <1>9, <3>2
            <4> QED BY <1>6, <1>9, <4>1
        <3> QED BY <3>1, <3>2
    <2> QED BY <1>2, <2>2, <2>3 DEF ServerOK
<1>17. ASSUME NEW x, \E v \in 1..l : log[v] = x
       PROVE  \E v \in 1..Len(log') : log'[v] = x
    <2>1. PICK v \in 1..l : log[v] = x
        BY <1>17
    <2>2. l <= Len(log')
        BY <1>12 DEF Grown
    <2> HIDE DEF l
    <2>3. v \in 1..Len(log') /\ log'[v] = x
        BY <1>3, <1>9, <1>14, <2>1, <2>2
    <2> QED BY <2>3
<1>18. ToldOK'
    BY <1>2, <1>17 DEF IInv, ToldOK
<1>19. (\A x \in 1..issued : Accounted(x))'
    <2>1. \A x \in 1..issued : Accounted(x)
        BY DEF IInv
    <2> QED BY <1>2, <1>17, <2>1 DEF Accounted, Waits
<1> QED BY <1>11, <1>12, <1>13, <1>15, <1>16, <1>18, <1>19, Assembled

-----------------------------------------------------------------------------
(* The pipeline is filled.                                                   *)
LEMMA QueueChanged ==
    ASSUME queue \in [Clients -> [Users -> Seq(Batch)]],
           NEW c \in Clients, NEW u \in Users, NEW q \in Seq(Batch)
    PROVE  queue' = [queue EXCEPT ![c][u] = q] =>
           /\ queue' \in [Clients -> [Users -> Seq(Batch)]]
           /\ queue'[c][u] = q
           /\ \A x \in Users \ {u} : queue'[c][x] = queue[c][x]
           /\ \A d \in Clients \ {c} : queue'[d] = queue[d]
OBVIOUS

LEMMA CallbacksChanged ==
    ASSUME callbacks \in [Clients -> [Users -> SUBSET Batch]],
           NEW c \in Clients, NEW u \in Users, NEW cbs \in SUBSET Batch
    PROVE  callbacks' = [callbacks EXCEPT ![c][u] = cbs] =>
           /\ callbacks' \in [Clients -> [Users -> SUBSET Batch]]
           /\ callbacks'[c][u] = cbs
           /\ \A x \in Users \ {u} : callbacks'[c][x] = callbacks[c][x]
           /\ \A d \in Clients \ {c} : callbacks'[d] = callbacks[d]
OBVIOUS

\* The first k batches of p are still the ones that are answered.
LEMMA Refilled ==
    ASSUME UNCHANGED log, NEW c \in Clients,
           NEW p \in Seq(Batch), NEW k \in Nat, k <= Len(p),
           Len(answers'[c]) = k,
           \A i \in 1..k : Meets(answers'[c][i], p[i].write)
    PROVE  /\ Prefix(p, pipeline'[c]) /\ Prefix(pipeline'[c], Own(c)')
           /\ InStep(pipeline'[c], requests'[c], k, stream'[c])
           => PipelineOK(c)'
<1>0. SUFFICES ASSUME /\ Prefix(p, pipeline'[c]) /\ Prefix(pipeline'[c], Own(c)')
                      /\ InStep(pipeline'[c], requests'[c], k, stream'[c])
      PROVE  PipelineOK(c)'
    OBVIOUS
<1>1. \A i \in 1..k : pipeline'[c][i] = p[i]
    <2> DEFINE l == Len(p)
    <2>1. l \in Nat /\ k <= l /\ \A i \in 1..l : p[i] = pipeline'[c][i]
        BY <1>0, LenProperties DEF Prefix
    <2> HIDE DEF l
    <2> QED BY <2>1
<1>2. (\A i \in 1..Len(answers[c]) : Meets(answers[c][i], pipeline[c][i].write))'
    BY <1>1 DEF Meets
<1> QED BY <1>0, <1>2 DEF PipelineOK

LEMMA AnsweredInPipeline ==
    ASSUME NEW p \in Seq(Batch), NEW sent \in Seq(Batch), NEW k \in Nat, NEW state,
           InStep(p, sent, k, state)
    PROVE  k <= Len(p)
<1> DEFINE l == Len(p)
           s == Len(sent)
<1>1. l \in Nat /\ s \in Nat /\ (k + s = l \/ k = 0)
    BY LenProperties DEF InStep
<1> HIDE DEF l, s
<1>2. k <= l
    BY <1>1
<1> QED BY <1>2 DEF l

\* A queue that stays as it is.
LEMMA QueueStill ==
    ASSUME TypeOK, NEW c \in Clients, NEW x \in Users, QueueOK(c, x),
           queue'[c][x] = queue[c][x], callbacks'[c][x] \subseteq callbacks[c][x],
           nextId'[c] \in Nat, issued' \in Nat, issued <= issued',
           \A i \in 1..Len(queue[c][x]) : queue[c][x][i].id < nextId'[c]
    PROVE  QueueOK(c, x)'
<1> DEFINE q == queue[c][x]
<1>1. /\ q \in Seq(Batch) /\ Ascending(q) /\ issued \in Nat
      /\ \A i \in 1..Len(q) : q[i].id < nextId'[c] /\ q[i].write <= issued
      /\ \A cb \in callbacks'[c][x] : \E i \in 1..Len(q) : q[i] = cb
    BY Types DEF QueueOK
<1>2. \A i \in 1..Len(q) : q[i].write \in Nat
    <2>1. \A i \in 1..Len(q) : q[i].write \in Writes
        BY <1>1, SeqOfBatches
    <2> QED BY <2>1, ClientAssumption DEF Writes
<1>3. queue'[c][x] = q
    OBVIOUS
<1> HIDE DEF q
<1>4. \A i \in 1..Len(q) : q[i].write <= issued'
    BY <1>1, <1>2
<1> QED BY <1>1, <1>3, <1>4 DEF QueueOK

LEMMA WriteInv ==
    ASSUME IInv, NEW c \in Clients, WriteMutations(c)
    PROVE  IInv'
<1> DEFINE u == user[c]
           batch == [id |-> nextId[c], write |-> issued + 1]
           own == Own(c)
           m == Len(own)
           q == Append(own, batch)
           p == pipeline[c]
           k == Len(answers[c])
           cbs == IF \E cb \in callbacks[c][u] : cb.id = batch.id THEN callbacks[c][u]
                  ELSE callbacks[c][u] \cup {batch}
<1>1. TypeOK /\ ClientOK(c) /\ PipelineOK(c) /\ \A x \in Users : QueueOK(c, x)
    BY DEF IInv, ClientOK
<1>2. /\ issued < MaxWrites /\ issued' = issued + 1
      /\ queue' = [queue EXCEPT ![c][u] = q]
      /\ nextId' = [nextId EXCEPT ![c] = @ + 1]
      /\ callbacks' = [callbacks EXCEPT ![c][u] = cbs]
      /\ view' = [view EXCEPT ![c] = Shown(@, q, cache[c])]
      /\ FillWritePipeline(c, q, pipeline[c], requests[c], stream[c])
      /\ UNCHANGED <<log, told, user, cache, answers, watch, failures>>
    BY DEF WriteMutations
<1>3. /\ issued \in Nat /\ issued' \in 0..MaxWrites /\ issued <= issued' /\ issued' \in Nat
      /\ u \in Users /\ nextId[c] \in Nat
      /\ batch \in Batch /\ own \in Seq(Batch) /\ m \in Nat /\ own = queue[c][u]
      /\ p \in Seq(Batch) /\ requests[c] \in Seq(Batch) /\ k \in Nat
      /\ stream[c] \in {"stopped", "starting", "ready"}
    <2>1. issued \in 0..MaxWrites /\ MaxWrites \in Nat
        BY <1>1, ClientAssumption DEF TypeOK
    <2>2. issued + 1 \in Writes /\ issued' \in 0..MaxWrites
        BY <1>2, <2>1 DEF Writes
    <2>3. issued \in Nat /\ issued' \in Nat /\ issued <= issued'
        BY <1>2, <2>1
    <2>4. nextId[c] \in Nat /\ batch \in Batch
        BY <1>1, <2>2, Types DEF Batch
    <2>5. own = queue[c][u]
        BY DEF Own
    <2> HIDE DEF batch, own
    <2> QED BY <1>1, <2>2, <2>3, <2>4, <2>5, Types DEF own
<1>4. /\ Ascending(own) /\ \A i \in 1..m : own[i].id < batch.id /\ own[i].write <= issued
      /\ Prefix(p, own) /\ InStep(p, requests[c], k, stream[c])
    BY <1>1, <1>3 DEF QueueOK, PipelineOK
<1> HIDE DEF batch, cbs
<1>5. /\ q \in Seq(Batch) /\ Len(q) = m + 1 /\ q[m + 1] = batch
      /\ \A i \in 1..m : q[i] = own[i]
    BY <1>3, AppendProperties
<1>6. Ascending(q) /\ Prefix(p, q)
    BY <1>3, <1>4, AppendQueue
<1> HIDE DEF q
<1>7. /\ pipeline \in [Clients -> Seq(Batch)]
      /\ requests \in [Clients -> Seq(Batch)]
      /\ stream \in [Clients -> {"stopped", "starting", "ready"}]
      /\ queue \in [Clients -> [Users -> Seq(Batch)]]
      /\ callbacks \in [Clients -> [Users -> SUBSET Batch]]
    BY <1>1 DEF TypeOK
<1>8. /\ pipeline' \in [Clients -> Seq(Batch)]
      /\ requests' \in [Clients -> Seq(Batch)]
      /\ stream' \in [Clients -> {"stopped", "starting", "ready"}]
      /\ Prefix(p, pipeline'[c])
      /\ Prefix(pipeline'[c], q)
      /\ InStep(pipeline'[c], requests'[c], k, stream'[c])
      /\ \A d \in Clients \ {c} : /\ pipeline'[d] = pipeline[d]
                                 /\ requests'[d] = requests[d]
                                 /\ stream'[d] = stream[d]
    BY <1>2, <1>3, <1>4, <1>5, <1>6, <1>7, Fill
<1>9. /\ queue' \in [Clients -> [Users -> Seq(Batch)]]
      /\ queue'[c][u] = q
      /\ \A x \in Users \ {u} : queue'[c][x] = queue[c][x]
      /\ \A d \in Clients \ {c} : queue'[d] = queue[d]
    BY <1>2, <1>3, <1>5, <1>7, QueueChanged
<1>10. cbs \subseteq callbacks[c][u] \cup {batch} /\ cbs \in SUBSET Batch
    BY <1>3, <1>7 DEF cbs
<1>11. /\ callbacks' \in [Clients -> [Users -> SUBSET Batch]]
       /\ callbacks'[c][u] = cbs
       /\ \A x \in Users \ {u} : callbacks'[c][x] = callbacks[c][x]
       /\ \A d \in Clients \ {c} : callbacks'[d] = callbacks[d]
    BY <1>2, <1>3, <1>7, <1>10, CallbacksChanged
<1>12. /\ nextId' \in [Clients -> Nat] /\ nextId'[c] = nextId[c] + 1
       /\ \A d \in Clients \ {c} : nextId'[d] = nextId[d]
    BY <1>1, <1>2 DEF TypeOK
<1>13. view' \in [Clients -> [write : Writes \cup {0}, local : BOOLEAN]]
    <2>1. cache[c].version \in 1..Len(log)
        BY <1>1 DEF ClientOK, SeenOK
    <2>2. Shown(view[c], q, cache[c]) \in [write : Writes \cup {0}, local : BOOLEAN]
        BY <1>1, <1>5, <2>1, ShownType, Types
    <2> QED BY <1>1, <1>2, <2>2 DEF TypeOK
<1>14. TypeOK'
    BY <1>1, <1>2, <1>3, <1>8, <1>9, <1>11, <1>12, <1>13 DEF TypeOK
<1>15. Grown
    BY <1>1, <1>2, <1>3, Types DEF Grown
<1>16. \A d \in Clients \ {c} : Untouched(d)
    BY <1>2, <1>8, <1>9, <1>11, <1>12 DEF Untouched
<1>17. ASSUME NEW x \in Users
       PROVE  QueueOK(c, x)'
    <2>1. CASE x # u
        <3>1. \A i \in 1..Len(queue[c][x]) : queue[c][x][i].id < nextId'[c]
            <4> DEFINE n == nextId[c]
                       r == queue[c][x]
            <4>1. \A i \in 1..Len(r) : r[i].id \in Nat /\ r[i].id < n
                BY <1>1, Types, SeqOfBatches DEF QueueOK
            <4> HIDE DEF n, r
            <4>2. \A i \in 1..Len(r) : r[i].id < n + 1
                BY <1>3, <4>1 DEF n
            <4> QED BY <1>12, <4>2 DEF n, r
        <3> QED BY <1>1, <1>3, <1>9, <1>11, <1>12, <2>1, <3>1, QueueStill
    <2>2. CASE x = u
        <3>1. \A i \in 1..m + 1 : q[i].id < nextId[c] + 1 /\ q[i].write <= issued + 1
            <4>1. \A i \in 1..m : own[i].id \in Nat /\ own[i].write \in Nat
                <5>1. \A i \in 1..m : own[i].id \in Nat /\ own[i].write \in Writes
                    BY <1>3, SeqOfBatches
                <5> QED BY <5>1, ClientAssumption DEF Writes
            <4>2. batch.id = nextId[c] /\ batch.write = issued + 1
                BY DEF batch
            <4> DEFINE n == nextId[c]
            <4>3. /\ n \in Nat /\ m \in Nat /\ issued \in Nat
                  /\ \A i \in 1..m : own[i].id < n /\ own[i].write <= issued
                BY <1>3, <1>4, <4>2
            <4>4. /\ \A i \in 1..m : q[i] = own[i]
                  /\ q[m + 1].id = n /\ q[m + 1].write = issued + 1
                BY <1>5, <4>2
            <4> HIDE DEF m, own, n
            <4>5. ASSUME NEW i \in 1..m + 1
                  PROVE  q[i].id < n + 1 /\ q[i].write <= issued + 1
                <5>1. CASE i = m + 1
                    BY <4>3, <4>4, <5>1
                <5>2. CASE i # m + 1
                    <6>1. i \in 1..m
                        BY <4>3, <5>2
                    <6>2. /\ q[i].id \in Nat /\ q[i].id < n
                          /\ q[i].write \in Nat /\ q[i].write <= issued
                        BY <4>1, <4>3, <4>4, <6>1
                    <6> QED BY <4>3, <6>2
                <5> QED BY <5>1, <5>2
            <4> QED BY <4>5 DEF n
        <3>2. \A cb \in callbacks'[c][u] : \E i \in 1..m + 1 : q[i] = cb
            <4> SUFFICES ASSUME NEW cb \in callbacks'[c][u]
                PROVE  \E i \in 1..m + 1 : q[i] = cb
                OBVIOUS
            <4>1. CASE cb = batch
                <5>1. m + 1 \in 1..m + 1
                    BY <1>3
                <5> QED BY <1>5, <4>1, <5>1
            <4>2. CASE cb # batch
                <5>1. PICK i \in 1..m : own[i] = cb
                    BY <1>1, <1>3, <1>10, <1>11, <4>2 DEF QueueOK
                <5>2. i \in 1..m + 1
                    BY <1>3
                <5> QED BY <1>5, <5>1, <5>2
            <4> QED BY <4>1, <4>2
        <3>3. Len(q) = m + 1 /\ queue'[c][x] = q /\ callbacks'[c][x] = callbacks'[c][u]
            BY <1>5, <1>9, <2>2
        <3>4. issued' = issued + 1 /\ nextId'[c] = nextId[c] + 1
            BY <1>2, <1>12
        <3> DEFINE r == queue'[c][x]
        <3>5. r = q /\ Len(r) = m + 1 /\ Ascending(r)
            BY <1>6, <3>3
        <3> HIDE DEF r, q, m
        <3>6. \A i \in 1..Len(r) : r[i].id < nextId'[c] /\ r[i].write <= issued'
            BY <3>1, <3>4, <3>5
        <3>7. \A cb \in callbacks'[c][x] : \E i \in 1..Len(r) : r[i] = cb
            BY <3>2, <3>3, <3>5
        <3> QED BY <3>5, <3>6, <3>7 DEF QueueOK, r
    <2> QED BY <2>1, <2>2
<1>18. PipelineOK(c)'
    <2>1. Own(c)' = q
        BY <1>2, <1>9 DEF Own
    <2>2. k <= Len(p)
        BY <1>3, <1>4, AnsweredInPipeline
    <2>3. Len(answers'[c]) = k /\ \A i \in 1..k : Meets(answers'[c][i], p[i].write)
        BY <1>1, <1>2 DEF PipelineOK
    <2>4. UNCHANGED log
        BY <1>2
    <2> HIDE DEF k, p
    <2> QED BY <1>3, <1>8, <2>1, <2>2, <2>3, <2>4, Refilled
<1>19. SeenOK(c)'
    BY <1>1, <1>2 DEF ClientOK, SeenOK
<1>20. ClientOK(c)'
    BY <1>17, <1>18, <1>19 DEF ClientOK
<1>21. ServerOK' /\ ToldOK'
    <2>1. \A v \in 1..Len(log) : log[v] \in Nat /\ log[v] <= issued
        BY <1>1, Types DEF IInv, ServerOK
    <2>2. \A v \in 1..Len(log) : log[v] <= issued'
        BY <1>2, <1>3, <2>1
    <2> QED BY <1>2, <2>2 DEF IInv, ServerOK, ToldOK
<1>22. (\A w \in 1..issued : Accounted(w))'
    <2> SUFFICES ASSUME NEW w \in 1..issued'
        PROVE  Accounted(w)'
        OBVIOUS
    <2>1. CASE w = issued + 1
        <3>1. Len(q) = m + 1 /\ m + 1 \in 1..m + 1 /\ q[m + 1].write = w
            BY <1>3, <1>5, <2>1 DEF batch
        <3>2. Waits(w)'
            BY <1>3, <1>9, <3>1 DEF Waits
        <3> QED BY <3>2 DEF Accounted
    <2>2. CASE w # issued + 1
        <3>1. w \in 1..issued
            BY <1>2, <1>3, <2>2
        <3>2. Accounted(w)
            BY <3>1 DEF IInv
        <3>3. CASE Waits(w)
            <4>1. PICK d \in Clients, x \in Users : \E i \in 1..Len(queue[d][x]) :
                                                   queue[d][x][i].write = w
                BY <3>3 DEF Waits
            <4>2. PICK i \in 1..Len(queue[d][x]) : queue[d][x][i].write = w
                BY <4>1
            <4>3. i \in 1..Len(queue'[d][x]) /\ queue'[d][x][i].write = w
                <5>1. CASE d = c /\ x = u
                    <6>1. i \in 1..m /\ own[i].write = w
                        BY <1>3, <4>2, <5>1
                    <6>2. i \in 1..m + 1 /\ q[i].write = w
                        BY <1>3, <1>5, <6>1
                    <6> QED BY <1>5, <1>9, <5>1, <6>2
                <5>2. CASE ~(d = c /\ x = u)
                    <6>1. queue'[d][x] = queue[d][x]
                        BY <1>9, <5>2
                    <6> QED BY <4>2, <6>1
                <5> QED BY <5>1, <5>2
            <4>4. Waits(w)'
                BY <4>3 DEF Waits
            <4> QED BY <4>4 DEF Accounted
        <3>4. CASE ~Waits(w)
            BY <1>2, <3>2, <3>4 DEF Accounted
        <3> QED BY <3>3, <3>4
    <2> QED BY <2>1, <2>2
<1> QED BY <1>14, <1>15, <1>16, <1>20, <1>21, <1>22, Assembled

-----------------------------------------------------------------------------
(* The first batch of the pipeline leaves the queue.                         *)
LEMMA FirstIsFirst ==
    ASSUME IInv, NEW c \in Clients, answers[c] # <<>>
    PROVE  /\ pipeline[c] # <<>> /\ Own(c) # <<>>
           /\ Head(pipeline[c]) = Own(c)[1] /\ Own(c)[1] \in Batch
           /\ Remove(Own(c), Head(pipeline[c]).id) = Tail(Own(c))
           /\ Tail(Own(c)) \in Seq(Batch) /\ Ascending(Tail(Own(c)))
           /\ Tail(pipeline[c]) \in Seq(Batch)
           /\ Prefix(Tail(pipeline[c]), Tail(Own(c)))
           /\ stream[c] = "ready"
           /\ InStep(Tail(pipeline[c]), requests[c], Len(answers[c]) - 1, "ready")
           /\ 1 \in 1..Len(answers[c]) /\ Head(answers[c]) = answers[c][1]
           /\ Meets(Head(answers[c]), Own(c)[1].write)
<1>1. TypeOK /\ PipelineOK(c) /\ QueueOK(c, user[c])
    BY Types DEF IInv, ClientOK
<1>2. /\ Own(c) \in Seq(Batch) /\ pipeline[c] \in Seq(Batch) /\ requests[c] \in Seq(Batch)
      /\ answers[c] \in Seq(Answer) /\ Ascending(Own(c)) /\ Prefix(pipeline[c], Own(c))
    BY <1>1, Types DEF PipelineOK, QueueOK, Own
<1>3. /\ Len(answers[c]) \in Nat \ {0} /\ 1 \in 1..Len(answers[c])
      /\ Head(answers[c]) = answers[c][1]
    BY <1>2, TailParts
<1>4. /\ stream[c] = "ready" /\ pipeline[c] # <<>>
      /\ InStep(Tail(pipeline[c]), requests[c], Len(answers[c]) - 1, stream[c])
    BY <1>1, <1>2, <1>3, AnswerTaken DEF PipelineOK
<1>5. /\ Own(c) # <<>> /\ pipeline[c][1] = Own(c)[1]
      /\ Prefix(Tail(pipeline[c]), Tail(Own(c)))
    BY <1>2, <1>4, TailPrefix
<1>6. /\ Head(pipeline[c]) = pipeline[c][1] /\ Tail(pipeline[c]) \in Seq(Batch)
      /\ Tail(Own(c)) \in Seq(Batch) /\ Own(c)[1] \in Batch
    BY <1>2, <1>4, <1>5, TailParts
<1>7. Remove(Own(c), Own(c)[1].id) = Tail(Own(c)) /\ Ascending(Tail(Own(c)))
    BY <1>2, <1>5, RemoveFirst, TailAscending
<1>8. Meets(Head(answers[c]), Own(c)[1].write)
    BY <1>1, <1>3, <1>5 DEF PipelineOK
<1> QED BY <1>2, <1>3, <1>4, <1>5, <1>6, <1>7, <1>8

LEMMA Dequeued ==
    ASSUME IInv, NEW c \in Clients, answers[c] # <<>>,
           NEW outcome \in {"committed", "rejected"},
           outcome = "committed" => \E v \in 1..Len(log) : log[v] = Own(c)[1].write,
           outcome = "rejected" => Own(c)[1].write \in Forbidden,
           UNCHANGED <<log, issued, user, nextId>>
    PROVE  /\ NotifyUser(c, Head(pipeline[c]).id, outcome)
           /\ queue' = [queue EXCEPT ![c][user[c]] = Tail(Own(c))]
           =>
           /\ queue' \in [Clients -> [Users -> Seq(Batch)]]
           /\ callbacks' \in [Clients -> [Users -> SUBSET Batch]]
           /\ told' \in [Writes -> {"nothing", "committed", "rejected"}]
           /\ Own(c)' = Tail(Own(c))
           /\ \A d \in Clients \ {c} : queue'[d] = queue[d] /\ callbacks'[d] = callbacks[d]
           /\ \A x \in Users : QueueOK(c, x)'
           /\ Grown /\ ServerOK' /\ ToldOK' /\ (\A w \in 1..issued : Accounted(w))'
<1> DEFINE u == user[c]
           own == Own(c)
           m == Len(own)
           q == Tail(own)
           batch == own[1]
           mine == {cb \in callbacks[c][u] : cb.id = batch.id}
           cbs == callbacks[c][u] \ mine
<1>0. SUFFICES ASSUME /\ NotifyUser(c, Head(pipeline[c]).id, outcome)
                      /\ queue' = [queue EXCEPT ![c][u] = q]
      PROVE  /\ queue' \in [Clients -> [Users -> Seq(Batch)]]
             /\ callbacks' \in [Clients -> [Users -> SUBSET Batch]]
             /\ told' \in [Writes -> {"nothing", "committed", "rejected"}]
             /\ Own(c)' = q
             /\ \A d \in Clients \ {c} : queue'[d] = queue[d] /\ callbacks'[d] = callbacks[d]
             /\ \A x \in Users : QueueOK(c, x)'
             /\ Grown /\ ServerOK' /\ ToldOK' /\ (\A w \in 1..issued : Accounted(w))'
    OBVIOUS
<1>1. TypeOK /\ \A x \in Users : QueueOK(c, x)
    BY DEF IInv, ClientOK
<1>2. /\ own \in Seq(Batch) /\ own # <<>> /\ Head(pipeline[c]) = batch /\ batch \in Batch
      /\ q \in Seq(Batch) /\ Ascending(q) /\ Ascending(own)
      /\ u \in Users /\ own = queue[c][u]
    BY <1>1, FirstIsFirst, Types DEF QueueOK, Own
<1>3. /\ m \in Nat \ {0} /\ Len(q) = m - 1 /\ \A i \in 1..m - 1 : q[i] = own[i + 1]
    BY <1>2, TailParts
<1>4. /\ told' = [w \in Writes |->
             IF \E cb \in mine : cb.write = w THEN outcome ELSE told[w]]
      /\ callbacks' = [callbacks EXCEPT ![c][u] = cbs]
    BY <1>0, <1>2 DEF NotifyUser
<1>5. \A cb \in mine : cb = batch
    <2> SUFFICES ASSUME NEW cb \in mine PROVE cb = batch
        OBVIOUS
    <2>1. PICK i \in 1..m : own[i] = cb
        BY <1>1, <1>2 DEF QueueOK
    <2>2. own[i].id = own[1].id /\ \A j \in 1..m : own[j].id \in Nat
        BY <1>2, <2>1, SeqOfBatches
    <2>3. \A j \in 1..m : 1 < j => own[1].id < own[j].id
        <3>1. 1 \in 1..m
            BY <1>3
        <3> QED BY <1>2, <3>1 DEF Ascending
    <2> HIDE DEF m, own, mine, batch
    <2>4. i = 1
        BY <1>3, <2>2, <2>3
    <2> QED BY <2>1, <2>4 DEF batch
<1> HIDE DEF mine
<1>6. /\ queue' \in [Clients -> [Users -> Seq(Batch)]]
      /\ queue'[c][u] = q
      /\ \A x \in Users \ {u} : queue'[c][x] = queue[c][x]
      /\ \A d \in Clients \ {c} : queue'[d] = queue[d]
    <2>1. queue \in [Clients -> [Users -> Seq(Batch)]]
        BY <1>1 DEF TypeOK
    <2> HIDE DEF q, u
    <2> QED BY <1>0, <1>2, <2>1, QueueChanged
<1>7. /\ callbacks' \in [Clients -> [Users -> SUBSET Batch]]
      /\ callbacks'[c][u] = cbs
      /\ \A x \in Users \ {u} : callbacks'[c][x] = callbacks[c][x]
      /\ \A d \in Clients \ {c} : callbacks'[d] = callbacks[d]
    <2>1. callbacks \in [Clients -> [Users -> SUBSET Batch]] /\ cbs \in SUBSET Batch
        BY <1>1, <1>2 DEF TypeOK
    <2> HIDE DEF cbs, u
    <2> QED BY <1>2, <1>4, <2>1, CallbacksChanged
<1>8. told' \in [Writes -> {"nothing", "committed", "rejected"}]
    BY <1>1, <1>4 DEF TypeOK
<1>9. Own(c)' = q
    BY <1>6 DEF Own
<1>10. issued \in Nat /\ nextId[c] \in Nat /\ issued' = issued /\ nextId'[c] = nextId[c]
    BY <1>1, Types
<1>11. ASSUME NEW x \in Users
       PROVE  QueueOK(c, x)'
    <2>1. CASE x # u
        <3>1. queue'[c][x] = queue[c][x] /\ callbacks'[c][x] = callbacks[c][x]
            BY <1>6, <1>7, <2>1
        <3> QED BY <1>1, <1>10, <3>1 DEF QueueOK
    <2>2. CASE x = u
        <3>1. \A i \in 1..m : own[i].id < nextId[c] /\ own[i].write <= issued
            BY <1>1, <1>2 DEF QueueOK
        <3>2. \A i \in 1..m - 1 : q[i].id < nextId[c] /\ q[i].write <= issued
            <4> HIDE DEF m, own, q
            <4>1. \A i \in 1..m - 1 : i + 1 \in 1..m
                BY <1>3
            <4> QED BY <1>3, <3>1, <4>1
        <3>3. \A cb \in cbs : \E i \in 1..m - 1 : q[i] = cb
            <4> SUFFICES ASSUME NEW cb \in cbs PROVE \E i \in 1..m - 1 : q[i] = cb
                OBVIOUS
            <4>1. PICK i \in 1..m : own[i] = cb
                BY <1>1, <1>2 DEF QueueOK
            <4>2. i # 1
                BY <4>1 DEF mine
            <4> HIDE DEF m, own, q
            <4>3. i - 1 \in 1..m - 1 /\ i - 1 + 1 = i
                BY <1>3, <4>2
            <4>4. q[i - 1] = cb
                BY <1>3, <4>1, <4>3
            <4> QED BY <4>3, <4>4
        <3>4. Len(q) = m - 1 /\ queue'[c][x] = q /\ callbacks'[c][x] = cbs
            BY <1>3, <1>6, <1>7, <2>2
        <3> HIDE DEF q, m, own, cbs
        <3> QED BY <1>2, <1>10, <3>2, <3>3, <3>4 DEF QueueOK
    <2> QED BY <2>1, <2>2
<1>12. Grown
    BY <1>1, <1>10, Types DEF Grown
<1>13. ServerOK'
    BY DEF IInv, ServerOK
<1>14. ToldOK'
    <2> SUFFICES ASSUME NEW w \in Writes
        PROVE  /\ told'[w] = "committed" => \E v \in 1..Len(log) : log[v] = w
               /\ told'[w] = "rejected" => w \in Forbidden
        BY DEF ToldOK
    <2>1. CASE \E cb \in mine : cb.write = w
        <3>1. told'[w] = outcome /\ batch.write = w
            BY <1>4, <1>5, <2>1
        <3> QED BY <3>1
    <2>2. CASE ~\E cb \in mine : cb.write = w
        <3>1. told'[w] = told[w]
            BY <1>4, <2>2
        <3> QED BY <3>1 DEF IInv, ToldOK
    <2> QED BY <2>1, <2>2
<1>15. (\A w \in 1..issued : Accounted(w))'
    <2> SUFFICES ASSUME NEW w \in 1..issued
        PROVE  Accounted(w)'
        BY <1>10
    <2>1. CASE w = batch.write
        BY <2>1 DEF Accounted
    <2>2. CASE w # batch.write
        <3>1. Accounted(w)
            BY DEF IInv
        <3>2. CASE Waits(w)
            <4>1. PICK d \in Clients, x \in Users : \E i \in 1..Len(queue[d][x]) :
                                                   queue[d][x][i].write = w
                BY <3>2 DEF Waits
            <4>2. PICK i \in 1..Len(queue[d][x]) : queue[d][x][i].write = w
                BY <4>1
            <4>3. \E j \in 1..Len(queue'[d][x]) : queue'[d][x][j].write = w
                <5>1. CASE d = c /\ x = u
                    <6>1. i \in 1..m /\ own[i].write = w /\ i # 1
                        BY <1>2, <2>2, <4>2, <5>1
                    <6>2. i - 1 \in 1..m - 1 /\ i - 1 + 1 = i
                        <7> HIDE DEF m, own
                        <7> QED BY <1>3, <6>1
                    <6>3. q[i - 1].write = w
                        BY <1>3, <6>1, <6>2
                    <6>4. i - 1 \in 1..Len(queue'[d][x]) /\ queue'[d][x] = q
                        BY <1>3, <1>6, <5>1, <6>2
                    <6> QED BY <6>3, <6>4
                <5>2. CASE ~(d = c /\ x = u)
                    <6>1. queue'[d][x] = queue[d][x]
                        BY <1>6, <5>2
                    <6> QED BY <4>2, <6>1
                <5> QED BY <5>1, <5>2
            <4>4. Waits(w)'
                BY <4>3 DEF Waits
            <4> QED BY <4>4 DEF Accounted
        <3>3. CASE ~Waits(w)
            BY <3>1, <3>3 DEF Accounted
        <3> QED BY <3>2, <3>3
    <2> QED BY <2>1, <2>2
<1> QED BY <1>6, <1>7, <1>8, <1>9, <1>11, <1>12, <1>13, <1>14, <1>15

\* OnWriteStreamMutationResult.
LEMMA MutationResultInv ==
    ASSUME IInv, NEW c \in Clients, MutationResult(c)
    PROVE  IInv'
<1> DEFINE p == pipeline[c]
           q == Tail(Own(c))
           k == Len(answers[c])
           cached == Acknowledged(cache[c], Head(answers[c]).version)
<1>1. TypeOK /\ ClientOK(c) /\ PipelineOK(c) /\ SeenOK(c)
    BY DEF IInv, ClientOK
<1>2. answers[c] # <<>> /\ Head(answers[c]).ok
    BY DEF MutationResult
<1>3. /\ p # <<>> /\ q \in Seq(Batch) /\ Ascending(q) /\ Tail(p) \in Seq(Batch)
      /\ Remove(Own(c), Head(p).id) = q
      /\ Prefix(Tail(p), q) /\ stream[c] = "ready"
      /\ InStep(Tail(p), requests[c], k - 1, "ready")
      /\ Head(answers[c]) = answers[c][1]
      /\ Meets(Head(answers[c]), Own(c)[1].write)
    BY <1>2, FirstIsFirst
<1>4. /\ NotifyUser(c, Head(p).id, "committed")
      /\ queue' = [queue EXCEPT ![c][user[c]] = q]
      /\ cache' = [cache EXCEPT ![c] = cached]
      /\ view' = [view EXCEPT ![c] = Shown(@, q, cached)]
      /\ answers' = [answers EXCEPT ![c] = Tail(@)]
      /\ FillWritePipeline(c, q, Tail(p), requests[c], stream[c])
      /\ UNCHANGED <<log, issued, user, nextId, watch, failures>>
    BY <1>3 DEF MutationResult
<1>5. \E v \in 1..Len(log) : log[v] = Own(c)[1].write
    BY <1>2, <1>3 DEF Meets
<1>6. /\ queue' \in [Clients -> [Users -> Seq(Batch)]]
      /\ callbacks' \in [Clients -> [Users -> SUBSET Batch]]
      /\ told' \in [Writes -> {"nothing", "committed", "rejected"}]
      /\ Own(c)' = q
      /\ \A d \in Clients \ {c} : queue'[d] = queue[d] /\ callbacks'[d] = callbacks[d]
      /\ \A x \in Users : QueueOK(c, x)'
      /\ Grown /\ ServerOK' /\ ToldOK' /\ (\A w \in 1..issued : Accounted(w))'
    <2>1. UNCHANGED <<log, issued, user, nextId>>
        BY <1>4
    <2> QED BY <1>2, <1>4, <1>5, <2>1, Dequeued
<1>7. /\ answers[c] \in Seq(Answer) /\ k \in Nat \ {0} /\ Tail(answers[c]) \in Seq(Answer)
      /\ Len(Tail(answers[c])) = k - 1
      /\ \A i \in 1..k - 1 : Tail(answers[c])[i] = answers[c][i + 1]
    BY <1>1, <1>2, Types, TailParts
<1>8. k - 1 \in Nat
    BY <1>7
<1>9. /\ pipeline' \in [Clients -> Seq(Batch)]
      /\ requests' \in [Clients -> Seq(Batch)]
      /\ stream' \in [Clients -> {"stopped", "starting", "ready"}]
      /\ Prefix(Tail(p), pipeline'[c])
      /\ Prefix(pipeline'[c], q)
      /\ InStep(pipeline'[c], requests'[c], k - 1, stream'[c])
      /\ \A d \in Clients \ {c} : /\ pipeline'[d] = pipeline[d]
                                 /\ requests'[d] = requests[d]
                                 /\ stream'[d] = stream[d]
    <2>1. /\ pipeline \in [Clients -> Seq(Batch)]
          /\ requests \in [Clients -> Seq(Batch)] /\ requests[c] \in Seq(Batch)
          /\ stream \in [Clients -> {"stopped", "starting", "ready"}]
        BY <1>1 DEF TypeOK
    <2>2. FillWritePipeline(c, q, Tail(p), requests[c], "ready")
        BY <1>3, <1>4
    <2> HIDE DEF q, p, k
    <2> QED BY <1>3, <1>8, <2>1, <2>2, Fill
<1>10. /\ cached \in [version : Nat, committed : BOOLEAN]
       /\ cached.version \in 1..Len(log)
    <2>1. /\ Head(answers[c]).version \in 1..Len(log) /\ cache[c].version \in 1..Len(log)
          /\ cache[c] \in [version : Nat, committed : BOOLEAN]
        BY <1>1, <1>2, <1>3, Types DEF Meets, SeenOK
    <2> QED BY <2>1 DEF Acknowledged
<1>11. view' \in [Clients -> [write : Writes \cup {0}, local : BOOLEAN]]
    <2> HIDE DEF cached, q
    <2>1. Shown(view[c], q, cached) \in [write : Writes \cup {0}, local : BOOLEAN]
        BY <1>1, <1>3, <1>10, ShownType, Types
    <2> QED BY <1>1, <1>4, <2>1 DEF TypeOK
<1> HIDE DEF cached
<1>12. /\ cache' \in [Clients -> [version : Nat, committed : BOOLEAN]]
       /\ cache'[c] = cached /\ \A d \in Clients \ {c} : cache'[d] = cache[d]
    BY <1>1, <1>4, <1>10 DEF TypeOK
<1>13. /\ answers' \in [Clients -> Seq(Answer)] /\ answers'[c] = Tail(answers[c])
       /\ \A d \in Clients \ {c} : answers'[d] = answers[d]
    BY <1>1, <1>4, <1>7 DEF TypeOK
<1>14. TypeOK'
    BY <1>1, <1>4, <1>6, <1>9, <1>11, <1>12, <1>13 DEF TypeOK
<1>15. \A d \in Clients \ {c} : Untouched(d)
    BY <1>4, <1>6, <1>9, <1>12, <1>13 DEF Untouched
<1>16. PipelineOK(c)'
    <2>1. k - 1 <= Len(Tail(p))
        BY <1>1, <1>3, <1>8, AnsweredInPipeline, Types
    <2>2. ASSUME NEW i \in 1..k - 1
          PROVE  Meets(answers'[c][i], Tail(p)[i].write)
        <3>1. i \in 1..Len(p) - 1
            <4> DEFINE l == Len(p)
            <4>1. Len(Tail(p)) = l - 1 /\ l \in Nat
                BY <1>1, <1>3, TailParts, Types
            <4>2. k - 1 <= l - 1
                BY <2>1, <4>1
            <4> HIDE DEF l, k
            <4>3. i \in 1..l - 1
                BY <1>7, <4>1, <4>2
            <4> QED BY <4>3 DEF l
        <3>2. Tail(p)[i] = p[i + 1]
            BY <1>1, <1>3, <3>1, TailParts, Types
        <3>3. i + 1 \in 1..k
            <4> HIDE DEF k
            <4> QED BY <1>7
        <3>4. Meets(answers[c][i + 1], p[i + 1].write)
            BY <1>1, <3>3 DEF PipelineOK
        <3> QED BY <1>7, <1>13, <3>2, <3>4
    <2>3. Len(answers'[c]) = k - 1 /\ UNCHANGED log
        BY <1>4, <1>7, <1>13
    <2> HIDE DEF p, q, k
    <2> QED BY <1>3, <1>6, <1>8, <1>9, <2>1, <2>2, <2>3, Refilled
<1>17. SeenOK(c)'
    BY <1>1, <1>4, <1>10, <1>12 DEF SeenOK
<1>18. ClientOK(c)'
    BY <1>6, <1>16, <1>17 DEF ClientOK
<1> QED BY <1>6, <1>14, <1>15, <1>18, Assembled

\* The pipeline that is filled after the streams were closed.
LEMMA FilledAnew ==
    ASSUME TypeOK, NEW c \in Clients, NEW q \in Seq(Batch), Ascending(q),
           NEW p \in Seq(Batch), Prefix(p, q)
    PROVE  FillWritePipeline(c, q, p, <<>>, "stopped") =>
           /\ pipeline' \in [Clients -> Seq(Batch)]
           /\ requests' \in [Clients -> Seq(Batch)]
           /\ stream' \in [Clients -> {"stopped", "starting", "ready"}]
           /\ Prefix(pipeline'[c], q)
           /\ InStep(pipeline'[c], requests'[c], 0, stream'[c])
           /\ \A d \in Clients \ {c} : /\ pipeline'[d] = pipeline[d]
                                      /\ requests'[d] = requests[d]
                                      /\ stream'[d] = stream[d]
<1>1. /\ pipeline \in [Clients -> Seq(Batch)]
      /\ requests \in [Clients -> Seq(Batch)]
      /\ stream \in [Clients -> {"stopped", "starting", "ready"}]
    BY DEF TypeOK
<1>2. InStep(p, <<>>, 0, "stopped") /\ <<>> \in Seq(Batch)
    BY EmptySeq DEF InStep
<1>3. 0 \in Nat /\ "stopped" \in {"stopped", "starting", "ready"}
    OBVIOUS
<1> QED BY <1>1, <1>2, <1>3, Fill

LEMMA PipelineAnew ==
    ASSUME NEW c \in Clients, answers'[c] = <<>>,
           Prefix(pipeline'[c], Own(c)'),
           InStep(pipeline'[c], requests'[c], 0, stream'[c])
    PROVE  PipelineOK(c)'
<1>1. Len(answers'[c]) = 0
    BY EmptySeq
<1> QED BY <1>1 DEF PipelineOK

\* HandleWriteError.
LEMMA WriteRejectedInv ==
    ASSUME IInv, NEW c \in Clients, WriteRejected(c)
    PROVE  IInv'
<1> DEFINE p == pipeline[c]
           q == Tail(Own(c))
<1>1. TypeOK /\ ClientOK(c) /\ SeenOK(c)
    BY DEF IInv, ClientOK
<1>2. answers[c] # <<>> /\ ~Head(answers[c]).ok
    BY DEF WriteRejected
<1>3. /\ q \in Seq(Batch) /\ Ascending(q) /\ Tail(p) \in Seq(Batch)
      /\ Remove(Own(c), Head(p).id) = q
      /\ Prefix(Tail(p), q)
      /\ Meets(Head(answers[c]), Own(c)[1].write)
    BY <1>2, FirstIsFirst
<1>4. /\ NotifyUser(c, Head(p).id, "rejected")
      /\ queue' = [queue EXCEPT ![c][user[c]] = q]
      /\ view' = [view EXCEPT ![c] = Shown(@, q, cache[c])]
      /\ answers' = [answers EXCEPT ![c] = <<>>]
      /\ FillWritePipeline(c, q, Tail(p), <<>>, "stopped")
      /\ UNCHANGED <<log, issued, user, nextId, cache, watch, failures>>
    BY <1>3 DEF WriteRejected
<1>5. Own(c)[1].write \in Forbidden
    BY <1>2, <1>3 DEF Meets
<1>6. /\ queue' \in [Clients -> [Users -> Seq(Batch)]]
      /\ callbacks' \in [Clients -> [Users -> SUBSET Batch]]
      /\ told' \in [Writes -> {"nothing", "committed", "rejected"}]
      /\ Own(c)' = q
      /\ \A d \in Clients \ {c} : queue'[d] = queue[d] /\ callbacks'[d] = callbacks[d]
      /\ \A x \in Users : QueueOK(c, x)'
      /\ Grown /\ ServerOK' /\ ToldOK' /\ (\A w \in 1..issued : Accounted(w))'
    <2>1. UNCHANGED <<log, issued, user, nextId>>
        BY <1>4
    <2> QED BY <1>2, <1>4, <1>5, <2>1, Dequeued
<1>7. /\ pipeline' \in [Clients -> Seq(Batch)]
      /\ requests' \in [Clients -> Seq(Batch)]
      /\ stream' \in [Clients -> {"stopped", "starting", "ready"}]
      /\ Prefix(pipeline'[c], q)
      /\ InStep(pipeline'[c], requests'[c], 0, stream'[c])
      /\ \A d \in Clients \ {c} : /\ pipeline'[d] = pipeline[d]
                                 /\ requests'[d] = requests[d]
                                 /\ stream'[d] = stream[d]
    <2> HIDE DEF q, p
    <2> QED BY <1>1, <1>3, <1>4, FilledAnew
<1>8. view' \in [Clients -> [write : Writes \cup {0}, local : BOOLEAN]]
    <2> HIDE DEF q
    <2>1. Shown(view[c], q, cache[c]) \in [write : Writes \cup {0}, local : BOOLEAN]
        BY <1>1, <1>3, ShownType, Types DEF SeenOK
    <2> QED BY <1>1, <1>4, <2>1 DEF TypeOK
<1>9. /\ answers' \in [Clients -> Seq(Answer)] /\ answers'[c] = <<>>
      /\ \A d \in Clients \ {c} : answers'[d] = answers[d]
    BY <1>1, <1>4, EmptySeq DEF TypeOK
<1>10. TypeOK'
    BY <1>1, <1>4, <1>6, <1>7, <1>8, <1>9 DEF TypeOK
<1>11. \A d \in Clients \ {c} : Untouched(d)
    BY <1>4, <1>6, <1>7, <1>9 DEF Untouched
<1>12. ClientOK(c)'
    <2>1. PipelineOK(c)'
        BY <1>6, <1>7, <1>9, PipelineAnew
    <2>2. SeenOK(c)'
        BY <1>1, <1>4 DEF SeenOK
    <2> QED BY <1>6, <2>1, <2>2 DEF ClientOK
<1> QED BY <1>6, <1>10, <1>11, <1>12, Assembled

-----------------------------------------------------------------------------
(* The streams are made anew.                                                *)
LEMMA Restarted ==
    ASSUME TypeOK, NEW c \in Clients, SeenOK(c), NEW q \in Seq(Batch), Ascending(q),
           UNCHANGED <<log, cache>>
    PROVE  RestartNetwork(c, q) =>
           /\ pipeline' \in [Clients -> Seq(Batch)]
           /\ requests' \in [Clients -> Seq(Batch)]
           /\ stream' \in [Clients -> {"stopped", "starting", "ready"}]
           /\ answers' \in [Clients -> Seq(Answer)]
           /\ watch' \in [Clients -> [open : BOOLEAN, pushed : Nat, version : Nat]]
           /\ Own(c)' = q => PipelineOK(c)'
           /\ SeenOK(c)'
           /\ \A d \in Clients \ {c} : /\ pipeline'[d] = pipeline[d] /\ stream'[d] = stream[d]
                                      /\ requests'[d] = requests[d]
                                      /\ answers'[d] = answers[d] /\ watch'[d] = watch[d]
<1>0. SUFFICES ASSUME RestartNetwork(c, q)
      PROVE  /\ pipeline' \in [Clients -> Seq(Batch)]
             /\ requests' \in [Clients -> Seq(Batch)]
             /\ stream' \in [Clients -> {"stopped", "starting", "ready"}]
             /\ answers' \in [Clients -> Seq(Answer)]
             /\ watch' \in [Clients -> [open : BOOLEAN, pushed : Nat, version : Nat]]
             /\ Own(c)' = q => PipelineOK(c)'
             /\ SeenOK(c)'
             /\ \A d \in Clients \ {c} : /\ pipeline'[d] = pipeline[d] /\ stream'[d] = stream[d]
                                        /\ requests'[d] = requests[d]
                                        /\ answers'[d] = answers[d] /\ watch'[d] = watch[d]
    OBVIOUS
<1>1. /\ FillWritePipeline(c, q, <<>>, <<>>, "stopped")
      /\ answers' = [answers EXCEPT ![c] = <<>>]
      /\ watch' = [watch EXCEPT ![c].open = FALSE, ![c].version = 0]
    BY <1>0 DEF RestartNetwork
<1>2. Prefix(<<>>, q) /\ <<>> \in Seq(Batch)
    <2>1. Len(q) \in Nat
        BY LenProperties
    <2> QED BY <2>1, EmptySeq DEF Prefix
<1>3. /\ pipeline' \in [Clients -> Seq(Batch)]
      /\ requests' \in [Clients -> Seq(Batch)]
      /\ stream' \in [Clients -> {"stopped", "starting", "ready"}]
      /\ Prefix(pipeline'[c], q)
      /\ InStep(pipeline'[c], requests'[c], 0, stream'[c])
      /\ \A d \in Clients \ {c} : /\ pipeline'[d] = pipeline[d]
                                 /\ requests'[d] = requests[d]
                                 /\ stream'[d] = stream[d]
    BY <1>1, <1>2, FilledAnew
<1>4. /\ answers' \in [Clients -> Seq(Answer)] /\ answers'[c] = <<>>
      /\ \A d \in Clients \ {c} : answers'[d] = answers[d]
    <2>1. answers \in [Clients -> Seq(Answer)] /\ <<>> \in Seq(Answer)
        BY EmptySeq DEF TypeOK
    <2> QED BY <1>1, <2>1
<1>5. /\ watch' \in [Clients -> WatchSet] /\ watch'[c].version = 0
      /\ \A d \in Clients \ {c} : watch'[d] = watch[d]
    <2>1. watch \in [Clients -> WatchSet]
        BY DEF TypeOK, WatchSet
    <2> QED BY <1>1, <2>1, WatchClosed, Zenon
<1>6. SeenOK(c)'
    <2>1. Len(log) \in Nat /\ cache'[c].version \in 1..Len(log)
        BY Types DEF SeenOK
    <2> QED BY <1>5, <2>1 DEF SeenOK
<1>7. Own(c)' = q => PipelineOK(c)'
    BY <1>3, <1>4, PipelineAnew
<1> QED BY <1>3, <1>4, <1>5, <1>6, <1>7 DEF WatchSet

LEMMA NextIdKeepsQueues ==
    ASSUME IInv, NEW c \in Clients
    PROVE  /\ NextBatchId(queue[c]) \in Nat
           /\ \A u \in Users : \A i \in 1..Len(queue[c][u]) :
                  queue[c][u][i].id < NextBatchId(queue[c])
<1>1. /\ queue[c] \in [Users -> Seq(Batch)] /\ nextId[c] \in Nat
      /\ \A u \in Users : \A i \in 1..Len(queue[c][u]) : queue[c][u][i].id < nextId[c]
    BY DEF IInv, TypeOK, ClientOK, QueueOK
<1> QED BY <1>1, NextIdBounds

LEMMA CredentialChangeInv ==
    ASSUME IInv, NEW c \in Clients, NEW u \in Users, CredentialChange(c, u)
    PROVE  IInv'
<1> DEFINE q == queue[c][u]
<1>1. TypeOK /\ ClientOK(c) /\ SeenOK(c)
    BY DEF IInv, ClientOK
<1>2. /\ user' = [user EXCEPT ![c] = u]
      /\ nextId' = IF u = user[c] THEN nextId
                   ELSE [nextId EXCEPT ![c] = NextBatchId(queue[c])]
      /\ view' = [view EXCEPT ![c] = Shown(@, q, cache[c])]
      /\ RestartNetwork(c, q)
      /\ UNCHANGED <<log, issued, told, queue, cache, callbacks>>
      /\ failures' \in 0..MaxFailures
    BY <1>1, ClientAssumption DEF CredentialChange, Fails, TypeOK
<1>3. q \in Seq(Batch) /\ Ascending(q)
    BY <1>1, Types DEF ClientOK, QueueOK
<1> HIDE DEF q
<1>4. /\ pipeline' \in [Clients -> Seq(Batch)]
      /\ requests' \in [Clients -> Seq(Batch)]
      /\ stream' \in [Clients -> {"stopped", "starting", "ready"}]
      /\ answers' \in [Clients -> Seq(Answer)]
      /\ watch' \in [Clients -> [open : BOOLEAN, pushed : Nat, version : Nat]]
      /\ Own(c)' = q => PipelineOK(c)'
      /\ SeenOK(c)'
      /\ \A d \in Clients \ {c} : /\ pipeline'[d] = pipeline[d] /\ stream'[d] = stream[d]
                                 /\ requests'[d] = requests[d]
                                 /\ answers'[d] = answers[d] /\ watch'[d] = watch[d]
    <2>1. UNCHANGED <<log, cache>> /\ RestartNetwork(c, q)
        BY <1>2
    <2> QED BY <1>1, <1>3, <2>1, Restarted
<1>5. /\ nextId' \in [Clients -> Nat] /\ \A d \in Clients \ {c} : nextId'[d] = nextId[d]
      /\ \A x \in Users : \A i \in 1..Len(queue[c][x]) : queue[c][x][i].id < nextId'[c]
    <2>1. CASE u = user[c]
        BY <1>1, <1>2, <2>1 DEF TypeOK, ClientOK, QueueOK
    <2>2. CASE u # user[c]
        <3>1. nextId' = [nextId EXCEPT ![c] = NextBatchId(queue[c])]
            BY <1>2, <2>2
        <3>2. nextId \in [Clients -> Nat]
            BY <1>1 DEF TypeOK
        <3> QED BY <3>1, <3>2, NextIdKeepsQueues
    <2> QED BY <2>1, <2>2
<1>6. view' \in [Clients -> [write : Writes \cup {0}, local : BOOLEAN]]
    <2>1. Shown(view[c], q, cache[c]) \in [write : Writes \cup {0}, local : BOOLEAN]
        BY <1>1, <1>3, ShownType, Types DEF SeenOK
    <2> QED BY <1>1, <1>2, <2>1 DEF TypeOK
<1>7. user' \in [Clients -> Users] /\ user'[c] = u
      /\ \A d \in Clients \ {c} : user'[d] = user[d]
    BY <1>1, <1>2 DEF TypeOK
<1>8. TypeOK'
    BY <1>1, <1>2, <1>4, <1>5, <1>6, <1>7 DEF TypeOK
<1>9. \A d \in Clients \ {c} : Untouched(d)
    BY <1>2, <1>4, <1>5, <1>7 DEF Untouched
<1>10. ClientOK(c)'
    <2>1. \A x \in Users : QueueOK(c, x)'
        BY <1>1, <1>2, <1>5 DEF ClientOK, QueueOK
    <2>2. Own(c)' = q
        BY <1>2, <1>7 DEF Own, q
    <2> QED BY <1>4, <2>1, <2>2 DEF ClientOK
<1> QED BY <1>2, <1>8, <1>9, <1>10, ServerKept, Assembled

LEMMA RelaunchInv ==
    ASSUME IInv, NEW c \in Clients, Relaunch(c)
    PROVE  IInv'
<1> DEFINE q == Own(c)
<1>1. TypeOK /\ ClientOK(c) /\ SeenOK(c)
    BY DEF IInv, ClientOK
<1>2. /\ nextId' = [nextId EXCEPT ![c] = NextBatchId(queue[c])]
      /\ callbacks' = [callbacks EXCEPT ![c] = [u \in Users |-> {}]]
      /\ view' = [view EXCEPT ![c] = Document(q, cache[c])]
      /\ RestartNetwork(c, q)
      /\ UNCHANGED <<log, issued, told, user, queue, cache>>
      /\ failures' \in 0..MaxFailures
    BY <1>1, ClientAssumption DEF Relaunch, Fails, TypeOK
<1>3. q \in Seq(Batch) /\ Ascending(q)
    BY <1>1, Types DEF ClientOK, QueueOK, Own
<1> HIDE DEF q
<1>4. /\ pipeline' \in [Clients -> Seq(Batch)]
      /\ requests' \in [Clients -> Seq(Batch)]
      /\ stream' \in [Clients -> {"stopped", "starting", "ready"}]
      /\ answers' \in [Clients -> Seq(Answer)]
      /\ watch' \in [Clients -> [open : BOOLEAN, pushed : Nat, version : Nat]]
      /\ Own(c)' = q => PipelineOK(c)'
      /\ SeenOK(c)'
      /\ \A d \in Clients \ {c} : /\ pipeline'[d] = pipeline[d] /\ stream'[d] = stream[d]
                                 /\ requests'[d] = requests[d]
                                 /\ answers'[d] = answers[d] /\ watch'[d] = watch[d]
    <2>1. UNCHANGED <<log, cache>> /\ RestartNetwork(c, q)
        BY <1>2
    <2> QED BY <1>1, <1>3, <2>1, Restarted
<1>5. /\ nextId' \in [Clients -> Nat] /\ \A d \in Clients \ {c} : nextId'[d] = nextId[d]
      /\ \A x \in Users : \A i \in 1..Len(queue[c][x]) : queue[c][x][i].id < nextId'[c]
    <2>1. nextId \in [Clients -> Nat]
        BY <1>1 DEF TypeOK
    <2> QED BY <1>2, <2>1, NextIdKeepsQueues
<1>6. view' \in [Clients -> [write : Writes \cup {0}, local : BOOLEAN]]
    <2>1. Document(q, cache[c]) \in [write : Writes \cup {0}, local : BOOLEAN]
        BY <1>1, <1>3, ShownType DEF SeenOK
    <2> QED BY <1>1, <1>2, <2>1 DEF TypeOK
<1>7. /\ callbacks' \in [Clients -> [Users -> SUBSET Batch]]
      /\ \A x \in Users : callbacks'[c][x] = {}
      /\ \A d \in Clients \ {c} : callbacks'[d] = callbacks[d]
    <2>1. callbacks \in [Clients -> [Users -> SUBSET Batch]]
        BY <1>1 DEF TypeOK
    <2> QED BY <1>2, <2>1
<1>8. TypeOK'
    BY <1>1, <1>2, <1>4, <1>5, <1>6, <1>7 DEF TypeOK
<1>9. \A d \in Clients \ {c} : Untouched(d)
    BY <1>2, <1>4, <1>5, <1>7 DEF Untouched
<1>10. ClientOK(c)'
    <2>1. \A x \in Users : QueueOK(c, x)'
        BY <1>1, <1>2, <1>5, <1>7 DEF ClientOK, QueueOK
    <2>2. Own(c)' = q
        BY <1>2 DEF Own, q
    <2> QED BY <1>4, <2>1, <2>2 DEF ClientOK
<1> QED BY <1>2, <1>8, <1>9, <1>10, ServerKept, Assembled

-----------------------------------------------------------------------------
LEMMA InitInv ==
    Init => IInv
<1> SUFFICES ASSUME Init PROVE IInv
    OBVIOUS
<1> USE DEF Init
<1>1. TypeOK
    <2>1. log \in Seq(Writes \cup {0})
        OBVIOUS
    <2>2. <<>> \in Seq(Batch) /\ <<>> \in Seq(Answer)
        BY EmptySeq
    <2> HIDE DEF Init
    <2> QED BY <2>1, <2>2, ClientAssumption DEF TypeOK, Init
<1>2. Len(log) = 1 /\ log[1] = 0
    OBVIOUS
<1>3. ASSUME NEW c \in Clients
      PROVE  ClientOK(c)
    <2>1. \A u \in Users : QueueOK(c, u)
        BY EmptySeq DEF QueueOK, Ascending
    <2>2. PipelineOK(c)
        BY EmptySeq, ClientAssumption DEF PipelineOK, Own, Prefix, InStep
    <2>3. SeenOK(c)
        BY <1>2 DEF SeenOK
    <2> QED BY <2>1, <2>2, <2>3 DEF ClientOK
<1>4. ServerOK /\ ToldOK
    BY <1>2, ClientAssumption DEF ServerOK, ToldOK, Writes
<1> QED BY <1>1, <1>3, <1>4 DEF IInv

LEMMA NextInv ==
    IInv /\ [Next]_vars => IInv'
<1> SUFFICES ASSUME IInv, [Next]_vars PROVE IInv'
    OBVIOUS
<1>1. CASE UNCHANGED vars
    <2>1. TypeOK' /\ TypeOK
        BY <1>1 DEF vars, IInv, TypeOK
    <2>2. /\ Grown /\ ServerOK' /\ ToldOK'
          /\ (\A w \in 1..issued : Accounted(w))'
        BY <1>1, ServerKept DEF vars
    <2>3. issued' \in Nat /\ Len(log') \in Nat
        BY <2>1, ClientAssumption, LenProperties DEF TypeOK
    <2>4. \A c \in Clients : ClientOK(c) /\ Untouched(c)
        BY <1>1 DEF vars, IInv, Untouched
    <2>5. \A c \in Clients : ClientOK(c)'
        BY <2>1, <2>2, <2>3, <2>4, Kept
    <2> QED BY <2>1, <2>2, <2>5 DEF IInv
<1>2. CASE Next
    <2> PICK c \in Clients :
            \/ WriteMutations(c) \/ HandshakeComplete(c)
            \/ ServerCommits(c) \/ ServerRejects(c)
            \/ MutationResult(c) \/ WriteRejected(c)
            \/ WriteStreamFails(c) \/ WriteStreamIdles(c)
            \/ WatchOpens(c) \/ WatchFails(c) \/ ServerPushes(c) \/ ApplyRemoteEvent(c)
            \/ \E u \in Users : CredentialChange(c, u)
            \/ Relaunch(c)
        BY <1>2 DEF Next
    <2> QED BY WriteInv, HandshakeInv, ServedInv, MutationResultInv, WriteRejectedInv,
               StreamClosedInv, WatchInv, CredentialChangeInv, RelaunchInv
<1> QED BY <1>1, <1>2

\* Every reachable state satisfies the inductive invariant.
THEOREM FirestoreInvariant ==
    Spec => []IInv
BY InitInv, NextInv, PTL DEF Spec

\* Every reachable state of the client is well typed.
THEOREM FirestoreTypeCorrect ==
    Spec => []TypeOK
<1>1. IInv => TypeOK
    BY DEF IInv
<1> QED BY <1>1, FirestoreInvariant, PTL

\* What RemoteStore and the mutation queue assert whenever an answer is handled:
\* it is for the first batch of the pipeline, and that is the first of the queue.
THEOREM AnswersAlwaysMatch ==
    Spec => []AnswersMatch
<1>1. ASSUME IInv, NEW c \in Clients
      PROVE  /\ Len(pipeline[c]) <= Len(Own(c))
             /\ pipeline[c] = SubSeq(Own(c), 1, Len(pipeline[c]))
             /\ Len(answers[c]) <= Len(pipeline[c])
             /\ \A i \in DOMAIN answers[c] :
                    IF answers[c][i].ok THEN log[answers[c][i].version] = pipeline[c][i].write
                    ELSE pipeline[c][i].write \in Forbidden
    <2> DEFINE p == pipeline[c]
               q == Own(c)
               l == Len(p)
               first == SubSeq(q, 1, l)
    <2>1. TypeOK /\ PipelineOK(c)
        BY <1>1 DEF IInv, ClientOK
    <2>2. /\ p \in Seq(Batch) /\ q \in Seq(Batch) /\ requests[c] \in Seq(Batch)
          /\ l \in Nat /\ Len(q) \in Nat /\ Len(answers[c]) \in Nat
          /\ DOMAIN answers[c] = 1..Len(answers[c])
        BY <2>1, Types, LenProperties
    <2>3. l <= Len(q) /\ \A i \in 1..l : p[i] = q[i]
        BY <2>1 DEF PipelineOK, Prefix
    <2>4. first \in Seq(Batch) /\ Len(first) = l /\ \A i \in 1..l : first[i] = q[i]
        <3> HIDE DEF p, q
        <3>1. \A i \in 1..l : q[i] \in Batch
            <4>1. \A i \in 1..l : i \in 1..Len(q)
                BY <2>2, <2>3
            <4> QED BY <2>2, <4>1, ElementOfSeq
        <3>2. /\ first \in Seq(Batch)
              /\ Len(first) = IF 1 <= l THEN l - 1 + 1 ELSE 0
              /\ \A i \in 1..l - 1 + 1 : first[i] = q[1 + i - 1]
            <4> HIDE DEF l
            <4> QED BY <2>2, <3>1, SubSeqProperties
        <3> HIDE DEF first, l
        <3>3. l - 1 + 1 = l /\ (IF 1 <= l THEN l - 1 + 1 ELSE 0) = l
              /\ \A i \in 1..l : 1 + i - 1 = i
            BY <2>2
        <3> QED BY <3>2, <3>3
    <2>5. p = first
        <3> HIDE DEF first, p, q
        <3> QED BY <2>2, <2>3, <2>4, SeqEqual DEF l
    <2>6. Len(answers[c]) <= l
        BY <2>1, <2>2, AnsweredInPipeline DEF PipelineOK
    <2>7. \A i \in 1..Len(answers[c]) : Meets(answers[c][i], p[i].write)
        BY <2>1 DEF PipelineOK
    <2> QED BY <2>2, <2>3, <2>5, <2>6, <2>7 DEF Meets
<1>2. IInv => AnswersMatch
    BY <1>1 DEF AnswersMatch
<1> QED BY <1>2, FirestoreInvariant, PTL

\* Completion callbacks are told the truth.
THEOREM AlwaysToldTheTruth ==
    Spec => []ToldTheTruth
<1>1. IInv => ToldTheTruth
    <2> SUFFICES ASSUME IInv PROVE ToldTheTruth
        OBVIOUS
    <2>1. DOMAIN log = 1..Len(log)
        BY LenProperties DEF IInv, TypeOK
    <2> QED BY <2>1 DEF IInv, ToldOK, ServerOK, ToldTheTruth, Committed
<1> QED BY <1>1, FirestoreInvariant, PTL

\* No write is lost.
THEOREM NothingEverLost ==
    Spec => []NothingLost
<1>1. IInv => NothingLost
    <2> SUFFICES ASSUME IInv, NEW w \in 1..issued
        PROVE  \/ Committed(w)
               \/ w \in Forbidden
               \/ \E c \in Clients : \E u \in Users : \E i \in DOMAIN queue[c][u] :
                      queue[c][u][i].write = w
        BY DEF NothingLost
    <2>1. DOMAIN log = 1..Len(log)
        BY LenProperties DEF IInv, TypeOK
    <2>2. \A c \in Clients : \A u \in Users : DOMAIN queue[c][u] = 1..Len(queue[c][u])
        BY Types, SeqOfBatches DEF IInv
    <2>3. Accounted(w)
        BY DEF IInv
    <2> QED BY <2>1, <2>2, <2>3 DEF Accounted, Waits, Committed
<1> QED BY <1>1, FirestoreInvariant, PTL

-----------------------------------------------------------------------------
(* The client implements DocumentStore.                                      *)
LEMMA WritesOfQueue ==
    ASSUME NEW q \in Seq(Batch)
    PROVE  /\ DOMAIN WritesOf(q) = 1..Len(q) /\ Len(WritesOf(q)) = Len(q)
           /\ WritesOf(q) \in Seq(Writes)
           /\ WritesOf(q) = <<>> <=> q = <<>>
           /\ \A i \in 1..Len(q) : WritesOf(q)[i] = q[i].write
<1> DEFINE l == Len(q)
           w == WritesOf(q)
<1>1. l \in Nat /\ DOMAIN q = 1..l /\ \A i \in 1..l : q[i].write \in Writes
    BY SeqOfBatches
<1>2. w = [i \in 1..l |-> q[i].write]
    BY <1>1 DEF WritesOf
<1> HIDE DEF l, w
<1>3. DOMAIN w = 1..l /\ w \in [1..l -> Writes] /\ \A i \in 1..l : w[i] = q[i].write
    BY <1>1, <1>2
<1>4. w \in Seq(Writes)
    BY <1>1, <1>3, SeqDef
<1>5. Len(w) = l
    BY <1>1, <1>3, <1>4, LenProperties
<1>6. w = <<>> <=> l = 0
    BY <1>1, <1>4, <1>5, EmptySeq
<1>7. q = <<>> <=> l = 0
    BY <1>1, EmptySeq DEF l
<1> QED BY <1>3, <1>4, <1>5, <1>6, <1>7 DEF l, w

LEMMA WritesOfAppend ==
    ASSUME NEW q \in Seq(Batch), NEW b \in Batch
    PROVE  WritesOf(Append(q, b)) = Append(WritesOf(q), b.write)
<1> DEFINE l == Len(q)
           a == Append(q, b)
           s == WritesOf(a)
           t == Append(WritesOf(q), b.write)
<1>1. /\ l \in Nat /\ a \in Seq(Batch) /\ Len(a) = l + 1 /\ a[l + 1] = b
      /\ \A i \in 1..l : a[i] = q[i]
    BY AppendProperties, LenProperties
<1>2. /\ s \in Seq(Writes) /\ Len(s) = l + 1 /\ \A i \in 1..l + 1 : s[i] = a[i].write
    <2> HIDE DEF a, l
    <2> QED BY <1>1, WritesOfQueue
<1>3. /\ WritesOf(q) \in Seq(Writes) /\ Len(WritesOf(q)) = l
      /\ \A i \in 1..l : WritesOf(q)[i] = q[i].write /\ b.write \in Writes
    BY WritesOfQueue DEF Batch
<1>4. b.write \in Writes
    BY DEF Batch
<1>5. /\ t \in Seq(Writes) /\ Len(t) = l + 1 /\ t[l + 1] = b.write
      /\ \A i \in 1..l : t[i] = q[i].write
    <2> DEFINE wq == WritesOf(q)
    <2>1. /\ Append(wq, b.write) \in Seq(Writes)
          /\ Len(Append(wq, b.write)) = Len(wq) + 1
          /\ \A i \in 1..Len(wq) : Append(wq, b.write)[i] = wq[i]
          /\ Append(wq, b.write)[Len(wq) + 1] = b.write
        <3> HIDE DEF wq
        <3> QED BY <1>3, <1>4, AppendProperties DEF wq
    <2> HIDE DEF l
    <2> QED BY <1>3, <2>1
<1> HIDE DEF l, a, s, t
<1>6. \A i \in 1..l + 1 : s[i] = t[i]
    <2> SUFFICES ASSUME NEW i \in 1..l + 1 PROVE s[i] = t[i]
        OBVIOUS
    <2>1. CASE i = l + 1
        BY <1>1, <1>2, <1>5, <2>1
    <2>2. CASE i # l + 1
        <3>1. i \in 1..l
            BY <1>1, <2>2
        <3> QED BY <1>1, <1>2, <1>5, <3>1
    <2> QED BY <2>1, <2>2
<1>7. s = t
    BY <1>2, <1>5, <1>6, SeqEqual
<1> QED BY <1>7 DEF s, t, a

LEMMA WritesOfTail ==
    ASSUME NEW q \in Seq(Batch), q # <<>>
    PROVE  WritesOf(Tail(q)) = Tail(WritesOf(q))
<1> DEFINE l == Len(q)
           a == Tail(q)
           w == WritesOf(q)
           s == WritesOf(a)
           t == Tail(w)
<1>1. /\ l \in Nat \ {0} /\ a \in Seq(Batch) /\ Len(a) = l - 1
      /\ \A i \in 1..l - 1 : a[i] = q[i + 1]
    BY TailParts
<1>2. /\ s \in Seq(Writes) /\ Len(s) = l - 1 /\ \A i \in 1..l - 1 : s[i] = a[i].write
    <2> HIDE DEF a, l
    <2> QED BY <1>1, WritesOfQueue
<1>3. /\ w \in Seq(Writes) /\ Len(w) = l /\ w # <<>>
      /\ \A i \in 1..l : w[i] = q[i].write
    BY WritesOfQueue
<1>4. /\ t \in Seq(Writes) /\ Len(t) = l - 1 /\ \A i \in 1..l - 1 : t[i] = w[i + 1]
    <2> HIDE DEF l, w
    <2> QED BY <1>3, TailParts
<1> HIDE DEF l, a, w, s, t
<1>5. \A i \in 1..l - 1 : s[i] = t[i]
    <2> SUFFICES ASSUME NEW i \in 1..l - 1 PROVE s[i] = t[i]
        OBVIOUS
    <2>1. i + 1 \in 1..l
        BY <1>1
    <2> QED BY <1>1, <1>2, <1>3, <1>4, <2>1
<1>6. s = t
    BY <1>2, <1>4, <1>5, SeqEqual
<1> QED BY <1>6 DEF s, t, a, w

\* What the listeners are given is what DocumentStore lets them see.
LEMMA DocumentIsCurrent ==
    ASSUME TypeOK, NEW q \in Seq(Batch), NEW cached
    PROVE  /\ Document(q, cached).write = Store!Current(WritesOf(q), cached.version)
           /\ \A old : Shown(old, q, cached).write \in
                         {old.write, Store!Current(WritesOf(q), cached.version)}
<1>1. q # <<>> => Last(q).write = WritesOf(q)[Len(WritesOf(q))]
    <2>1. q # <<>> => Len(q) \in 1..Len(q)
        BY EmptySeq
    <2> QED BY <2>1, WritesOfQueue DEF Last
<1>2. Document(q, cached).write = Store!Current(WritesOf(q), cached.version)
    BY <1>1, WritesOfQueue DEF Document, Store!Current
<1> QED BY <1>2 DEF Shown

LEMMA PendingChanged ==
    ASSUME queue \in [Clients -> [Users -> Seq(Batch)]],
           NEW c \in Clients, NEW u \in Users, NEW q
    PROVE  queue' = [queue EXCEPT ![c][u] = q] =>
           Pending' = [Pending EXCEPT ![c][u] = WritesOf(q)]
BY DEF Pending

LEMMA ViewChanged ==
    ASSUME TypeOK, NEW c \in Clients, NEW seen
    PROVE  view' = [view EXCEPT ![c] = seen] =>
           ShownWrite' = [ShownWrite EXCEPT ![c] = seen.write]
BY DEF ShownWrite, TypeOK

LEMMA CacheChanged ==
    ASSUME TypeOK, NEW c \in Clients, NEW cached
    PROVE  cache' = [cache EXCEPT ![c] = cached] =>
           SeenVersion' = [SeenVersion EXCEPT ![c] = cached.version]
BY DEF SeenVersion, TypeOK

LEMMA SetStep ==
    ASSUME IInv, NEW c \in Clients, WriteMutations(c)
    PROVE  Store!Set(c)
<1> DEFINE u == user[c]
           w == issued + 1
           batch == [id |-> nextId[c], write |-> w]
           q == Append(Own(c), batch)
<1>1. TypeOK /\ \A d \in Clients : \A x \in Users : QueueOK(d, x)
    BY DEF IInv, ClientOK
<1>2. /\ w \in 1..MaxWrites /\ issued \in Nat
      /\ queue' = [queue EXCEPT ![c][u] = q]
      /\ view' = [view EXCEPT ![c] = Shown(@, q, cache[c])]
      /\ UNCHANGED <<log, user, cache>>
    <2>1. issued \in Nat /\ issued < MaxWrites /\ MaxWrites \in Nat
        BY <1>1, ClientAssumption, Types DEF WriteMutations
    <2> QED BY <2>1 DEF WriteMutations
<1>3. u \in Users /\ Own(c) \in Seq(Batch) /\ batch \in Batch /\ Own(c) = queue[c][u]
    BY <1>1, <1>2, Types DEF Batch, Writes, Own
<1>4. \A d \in Clients : \A x \in Users : \A i \in DOMAIN Pending[d][x] : Pending[d][x][i] # w
    <2> SUFFICES ASSUME NEW d \in Clients, NEW x \in Users, NEW i \in DOMAIN Pending[d][x]
        PROVE  Pending[d][x][i] # w
        OBVIOUS
    <2> DEFINE r == queue[d][x]
    <2>1. Pending[d][x] = WritesOf(r) /\ r \in Seq(Batch)
        BY <1>1, Types DEF Pending
    <2>2. i \in 1..Len(r) /\ Pending[d][x][i] = r[i].write
        <3> HIDE DEF r
        <3> QED BY <2>1, WritesOfQueue
    <2>3. r[i].write \in Nat /\ r[i].write <= issued
        <3>1. r[i].write \in Writes
            BY <2>1, <2>2, SeqOfBatches
        <3> QED BY <1>1, <2>2, <3>1, ClientAssumption DEF QueueOK, Writes
    <2> QED BY <1>2, <2>2, <2>3
<1>5. ~Store!Committed(w)
    <2>1. DOMAIN log = 1..Len(log) /\ \A v \in 1..Len(log) : log[v] \in Nat /\ log[v] <= issued
        BY <1>1, Types, LenProperties DEF IInv, ServerOK
    <2> QED BY <1>2, <2>1 DEF Store!Committed
<1>6. Pending' = [Pending EXCEPT ![c][u] = Append(@, w)]
    <2>1. queue \in [Clients -> [Users -> Seq(Batch)]]
        BY <1>1 DEF TypeOK
    <2>2. WritesOf(q) = Append(WritesOf(Own(c)), w)
        <3>1. batch.write = w
            OBVIOUS
        <3> HIDE DEF batch
        <3> QED BY <1>3, <3>1, WritesOfAppend
    <2>3. Pending' = [Pending EXCEPT ![c][u] = WritesOf(q)]
        <3> HIDE DEF q, u
        <3> QED BY <1>2, <1>3, <2>1, PendingChanged
    <2>4. Pending[c][u] = WritesOf(Own(c))
        BY <1>3 DEF Pending
    <2> HIDE DEF q, w
    <2> QED BY <2>2, <2>3, <2>4
<1>7. ShownWrite' = [ShownWrite EXCEPT ![c] = w]
    <2>1. q # <<>> /\ Last(q) = batch
        <3>1. /\ q # <<>> /\ Len(q) = Len(Own(c)) + 1 /\ q[Len(Own(c)) + 1] = batch
            BY <1>3, AppendProperties
        <3> QED BY <3>1 DEF Last
    <2>2. Shown(view[c], q, cache[c]).write = w
        <3> HIDE DEF q
        <3> QED BY <2>1 DEF Shown, Document
    <2> HIDE DEF q, w
    <2> QED BY <1>1, <1>2, <2>2, ViewChanged
<1>8. UNCHANGED <<log, user, SeenVersion>>
    BY <1>2 DEF SeenVersion
<1> HIDE DEF w
<1> QED BY <1>2, <1>4, <1>5, <1>6, <1>7, <1>8 DEF Store!Set

LEMMA CommitStep ==
    ASSUME IInv, NEW c \in Clients, ServerCommits(c)
    PROVE  Store!Commit(c)
<1> DEFINE k == Len(answers[c])
           p == pipeline[c]
           writes == Pending[c][user[c]]
<1>1. TypeOK /\ PipelineOK(c)
    BY DEF IInv, ClientOK
<1>2. /\ requests[c] # <<>> /\ \A i \in DOMAIN answers[c] : answers[c][i].ok
      /\ Head(requests[c]).write \notin Forbidden
      /\ log' = Append(log, Head(requests[c]).write)
      /\ UNCHANGED <<user, queue, cache, view>>
    BY DEF ServerCommits, Serving, local_store
<1>3. /\ p \in Seq(Batch) /\ requests[c] \in Seq(Batch) /\ Own(c) \in Seq(Batch)
      /\ k \in Nat /\ DOMAIN answers[c] = 1..k /\ DOMAIN log = 1..Len(log)
      /\ user[c] \in Users
    BY <1>1, Types, LenProperties
<1>4. /\ k + 1 \in 1..Len(p) /\ requests[c][1] = p[k + 1]
      /\ Head(requests[c]) = requests[c][1]
    BY <1>1, <1>2, <1>3, RequestTaken, TailParts DEF PipelineOK
<1>5. writes = WritesOf(Own(c))
    BY <1>3 DEF Pending, Own
<1>6. ASSUME NEW i \in 1..k + 1
      PROVE  i \in DOMAIN writes /\ writes[i] = p[i].write
    <2> DEFINE l == Len(p)
               m == Len(Own(c))
    <2>1. l \in Nat /\ m \in Nat /\ l <= m /\ \A j \in 1..l : p[j] = Own(c)[j]
        BY <1>1, Types DEF PipelineOK, Prefix
    <2>2. k + 1 \in 1..l
        BY <1>4
    <2>3. DOMAIN writes = 1..m /\ \A j \in 1..m : writes[j] = Own(c)[j].write
        BY <1>3, <1>5, WritesOfQueue
    <2> HIDE DEF l, m, k, p, writes
    <2>4. i \in 1..l /\ i \in 1..m
        BY <1>3, <2>1, <2>2
    <2> QED BY <2>1, <2>3, <2>4
<1>7. k + 1 \in 1..k + 1 /\ k + 1 - 1 = k /\ \A j \in 1..k : j \in 1..k + 1
    <2> HIDE DEF k
    <2> QED BY <1>3
<1>8. /\ k + 1 \in DOMAIN writes /\ writes[k + 1] \notin Forbidden
      /\ log' = Append(log, writes[k + 1])
    BY <1>2, <1>4, <1>6, <1>7
<1>9. \A j \in 1..k + 1 - 1 : Store!Committed(writes[j])
    <2> SUFFICES ASSUME NEW j \in 1..k PROVE Store!Committed(writes[j])
        BY <1>7
    <2>1. Meets(answers[c][j], p[j].write) /\ answers[c][j].ok /\ writes[j] = p[j].write
        BY <1>1, <1>2, <1>3, <1>6, <1>7 DEF PipelineOK
    <2> QED BY <1>3, <2>1 DEF Meets, Store!Committed
<1>10. UNCHANGED <<user, Pending, SeenVersion, ShownWrite>>
    BY <1>2 DEF Pending, SeenVersion, ShownWrite
<1> DEFINE Due(i) == /\ writes[i] \notin Forbidden
                     /\ \A j \in 1..i - 1 : Store!Committed(writes[j])
                     /\ log' = Append(log, writes[i])
<1>11. k + 1 \in DOMAIN writes /\ Due(k + 1)
    BY <1>8, <1>9
<1>12. \E i \in DOMAIN writes : Due(i)
    <2> HIDE DEF Due, k, writes
    <2> QED BY <1>11
<1> HIDE DEF k
<1> QED BY <1>10, <1>12 DEF Store!Commit

\* The listeners are given what is current or nothing.
LEMMA ShowStep ==
    ASSUME TypeOK, NEW c \in Clients, NEW q \in Seq(Batch), NEW cached,
           UNCHANGED log, Pending'[c][user'[c]] = WritesOf(q), SeenVersion'[c] = cached.version
    PROVE  view' = [view EXCEPT ![c] = Shown(@, q, cached)] \/
           view' = [view EXCEPT ![c] = Document(q, cached)] => Store!Show(c)
<1>1. Store!Current(WritesOf(q), cached.version) =
          IF WritesOf(q) # <<>> THEN WritesOf(q)[Len(WritesOf(q))] ELSE log[cached.version]
    BY DEF Store!Current
<1>2. ShownWrite[c] = view[c].write
    BY DEF ShownWrite
<1>3. SUFFICES ASSUME NEW seen, view' = [view EXCEPT ![c] = seen],
                      seen.write \in {view[c].write,
                                      Store!Current(WritesOf(q), cached.version)}
      PROVE  Store!Show(c)
    BY DocumentIsCurrent
<1>4. ShownWrite' = [ShownWrite EXCEPT ![c] = seen.write]
    BY <1>3, ViewChanged
<1> QED BY <1>1, <1>2, <1>3, <1>4 DEF Store!Show, Store!Current

LEMMA SettleStep ==
    ASSUME IInv, NEW c \in Clients, answers[c] # <<>>, NEW cached
    PROVE  /\ UNCHANGED <<log, user>>
           /\ queue' = [queue EXCEPT ![c][user[c]] = Tail(Own(c))]
           /\ view' = [view EXCEPT ![c] = Shown(@, Tail(Own(c)), cached)]
           /\ SeenVersion'[c] = cached.version
           /\ \/ Own(c)[1].write \in Forbidden /\ UNCHANGED SeenVersion
              \/ \E v \in DOMAIN log :
                     /\ log[v] = Own(c)[1].write
                     /\ SeenVersion' = [SeenVersion EXCEPT ![c] = IF @ < v THEN v ELSE @]
           => Store!Settle(c)
<1> DEFINE u == user[c]
           q == Tail(Own(c))
           writes == Pending[c][u]
<1>0. SUFFICES ASSUME /\ UNCHANGED <<log, user>>
                      /\ queue' = [queue EXCEPT ![c][u] = q],
                      view' = [view EXCEPT ![c] = Shown(@, q, cached)],
                      SeenVersion'[c] = cached.version,
                      \/ Own(c)[1].write \in Forbidden /\ UNCHANGED SeenVersion
                      \/ \E v \in DOMAIN log :
                             /\ log[v] = Own(c)[1].write
                             /\ SeenVersion' = [SeenVersion EXCEPT ![c] = IF @ < v THEN v ELSE @]
               PROVE  Store!Settle(c)
    OBVIOUS
<1>1. TypeOK /\ u \in Users /\ Own(c) \in Seq(Batch) /\ q \in Seq(Batch) /\ Own(c) # <<>>
    BY Types, FirstIsFirst DEF IInv
<1>2. writes = WritesOf(Own(c))
    BY <1>1 DEF Pending, Own
<1>3. writes # <<>> /\ writes[1] = Own(c)[1].write /\ WritesOf(q) = Tail(writes)
    <2>1. 1 \in 1..Len(Own(c))
        BY <1>1, TailParts
    <2> HIDE DEF writes
    <2> QED BY <1>1, <1>2, <2>1, WritesOfQueue, WritesOfTail
<1>4. Pending' = [Pending EXCEPT ![c][u] = WritesOf(q)]
    <2>1. queue \in [Clients -> [Users -> Seq(Batch)]]
        BY <1>1 DEF TypeOK
    <2> HIDE DEF q, u
    <2> QED BY <1>0, <1>1, <2>1, PendingChanged
<1>5. Pending' = [Pending EXCEPT ![c][u] = Tail(@)]
    <2> HIDE DEF q
    <2> QED BY <1>3, <1>4
<1>6. Pending'[c][user'[c]] = WritesOf(q)
    <2>1. user'[c] = u
        BY <1>0
    <2>2. Pending \in [Clients -> [Users -> {WritesOf(queue[d][x]) : d \in Clients, x \in Users}]]
        BY DEF Pending
    <2> HIDE DEF q, u
    <2> QED BY <1>1, <1>4, <2>1, <2>2
<1>7. Store!Show(c)
    <2> HIDE DEF q
    <2> QED BY <1>0, <1>1, <1>6, ShowStep
<1>8. \/ writes[1] \in Forbidden /\ UNCHANGED SeenVersion
      \/ \E v \in DOMAIN log :
             /\ log[v] = writes[1]
             /\ SeenVersion' = [SeenVersion EXCEPT ![c] = IF @ < v THEN v ELSE @]
    BY <1>0, <1>3
<1>9. UNCHANGED <<log, user>>
    BY <1>0
<1> QED BY <1>3, <1>5, <1>7, <1>8, <1>9 DEF Store!Settle

LEMMA CommittedStep ==
    ASSUME IInv, NEW c \in Clients, MutationResult(c)
    PROVE  Store!Settle(c)
<1> DEFINE v == Head(answers[c]).version
           cached == Acknowledged(cache[c], v)
<1>1. TypeOK /\ answers[c] # <<>> /\ Head(answers[c]).ok
    BY DEF IInv, MutationResult
<1>2. /\ Remove(Own(c), Head(pipeline[c]).id) = Tail(Own(c))
      /\ v \in 1..Len(log) /\ log[v] = Own(c)[1].write
    BY <1>1, FirstIsFirst DEF Meets
<1>3. /\ queue' = [queue EXCEPT ![c][user[c]] = Tail(Own(c))]
      /\ view' = [view EXCEPT ![c] = Shown(@, Tail(Own(c)), cached)]
      /\ cache' = [cache EXCEPT ![c] = cached]
      /\ UNCHANGED <<log, user>>
    BY <1>2 DEF MutationResult
<1>4. SeenVersion' = [SeenVersion EXCEPT ![c] = cached.version]
    <2> HIDE DEF cached
    <2> QED BY <1>1, <1>3, CacheChanged
<1>5. SeenVersion'[c] = cached.version /\ SeenVersion[c] = cache[c].version
    <2>1. SeenVersion \in [Clients -> {cache[d].version : d \in Clients}]
        BY DEF SeenVersion
    <2> HIDE DEF cached
    <2> QED BY <1>4, <2>1 DEF SeenVersion
<1>6. cached.version = IF SeenVersion[c] < v THEN v ELSE SeenVersion[c]
    BY <1>5 DEF Acknowledged
<1>7. SeenVersion' = [SeenVersion EXCEPT ![c] = IF @ < v THEN v ELSE @]
    <2> HIDE DEF cached, v
    <2> QED BY <1>4, <1>6
<1>8. DOMAIN log = 1..Len(log)
    BY <1>1, Types, LenProperties
<1>9. \E x \in DOMAIN log :
          /\ log[x] = Own(c)[1].write
          /\ SeenVersion' = [SeenVersion EXCEPT ![c] = IF @ < x THEN x ELSE @]
    BY <1>2, <1>7, <1>8
<1> HIDE DEF cached
<1> QED BY <1>1, <1>3, <1>5, <1>9, SettleStep

LEMMA RejectedStep ==
    ASSUME IInv, NEW c \in Clients, WriteRejected(c)
    PROVE  Store!Settle(c)
<1>1. TypeOK /\ answers[c] # <<>> /\ ~Head(answers[c]).ok
    BY DEF IInv, WriteRejected
<1>2. /\ Remove(Own(c), Head(pipeline[c]).id) = Tail(Own(c))
      /\ Own(c)[1].write \in Forbidden
    BY <1>1, FirstIsFirst DEF Meets
<1>3. /\ queue' = [queue EXCEPT ![c][user[c]] = Tail(Own(c))]
      /\ view' = [view EXCEPT ![c] = Shown(@, Tail(Own(c)), cache[c])]
      /\ UNCHANGED <<log, user, cache>>
    BY <1>2 DEF WriteRejected
<1>4. UNCHANGED SeenVersion /\ SeenVersion'[c] = cache[c].version
    BY <1>3 DEF SeenVersion
<1> QED BY <1>1, <1>2, <1>3, <1>4, SettleStep

LEMMA LearnStep ==
    ASSUME IInv, NEW c \in Clients, ApplyRemoteEvent(c)
    PROVE  Store!Learn(c) \/ UNCHANGED Store!vars
<1> DEFINE v == watch[c].version
           cached == [version |-> v, committed |-> FALSE]
<1>1. TypeOK /\ SeenOK(c) /\ v # 0 /\ UNCHANGED <<log, user, queue>>
    BY DEF IInv, ClientOK, ApplyRemoteEvent
<1>2. UNCHANGED <<log, user, Pending>>
    BY <1>1 DEF Pending
<1>3. CASE Outdated(cache[c], v)
    <2>1. UNCHANGED <<cache, view>>
        BY <1>3 DEF ApplyRemoteEvent
    <2> QED BY <1>2, <2>1 DEF Store!vars, SeenVersion, ShownWrite
<1>4. CASE ~Outdated(cache[c], v)
    <2>1. /\ cache' = [cache EXCEPT ![c] = cached]
          /\ view' = [view EXCEPT ![c] = Shown(@, Own(c), cached)]
        BY <1>4 DEF ApplyRemoteEvent
    <2>2. SeenVersion' = [SeenVersion EXCEPT ![c] = v]
        <3>1. SeenVersion' = [SeenVersion EXCEPT ![c] = cached.version]
            <4> HIDE DEF cached
            <4> QED BY <1>1, <2>1, CacheChanged
        <3> QED BY <3>1
    <2>3. SeenVersion'[c] = v /\ SeenVersion[c] = cache[c].version
        <3>1. SeenVersion \in [Clients -> {cache[d].version : d \in Clients}]
            BY DEF SeenVersion
        <3> HIDE DEF v
        <3> QED BY <2>2, <3>1 DEF SeenVersion
    <2>4. v \in DOMAIN log /\ v >= SeenVersion[c]
        <3> DEFINE l == Len(log)
        <3>1. DOMAIN log = 1..l /\ l \in Nat /\ v \in 0..l /\ cache[c].version \in Nat
            BY <1>1, Types, LenProperties DEF SeenOK
        <3>2. v >= cache[c].version
            <4> HIDE DEF l
            <4> QED BY <1>4, <3>1 DEF Outdated
        <3> HIDE DEF l, v
        <3> QED BY <1>1, <2>3, <3>1, <3>2
    <2>5. Own(c) \in Seq(Batch) /\ Pending'[c][user'[c]] = WritesOf(Own(c))
        <3>1. user[c] \in Users /\ Own(c) \in Seq(Batch)
            BY <1>1, Types
        <3>2. Pending[c][user[c]] = WritesOf(Own(c))
            BY <3>1 DEF Pending, Own
        <3> QED BY <1>2, <3>1, <3>2
    <2>6. Store!Show(c)
        <3>1. SeenVersion'[c] = cached.version
            BY <2>3
        <3> HIDE DEF cached
        <3> QED BY <1>1, <1>2, <2>1, <2>5, <3>1, ShowStep
    <2> HIDE DEF v
    <2> QED BY <1>2, <2>2, <2>4, <2>6 DEF Store!Learn
<1> QED BY <1>3, <1>4

LEMMA ChangeUserStep ==
    ASSUME IInv, NEW c \in Clients, NEW u \in Users, CredentialChange(c, u)
    PROVE  Store!ChangeUser(c)
<1> DEFINE q == queue[c][u]
<1>1. /\ TypeOK /\ UNCHANGED <<log, queue, cache>>
      /\ user' = [user EXCEPT ![c] = u]
      /\ view' = [view EXCEPT ![c] = Shown(@, q, cache[c])]
    BY DEF IInv, CredentialChange
<1>2. UNCHANGED <<log, Pending, SeenVersion>>
    BY <1>1 DEF Pending, SeenVersion
<1>3. user'[c] = u
    BY <1>1 DEF TypeOK
<1>4. q \in Seq(Batch) /\ Pending'[c][user'[c]] = WritesOf(q) /\ SeenVersion'[c] = cache[c].version
    BY <1>1, <1>2, <1>3, Types DEF Pending, SeenVersion
<1>5. Store!Show(c)
    <2> HIDE DEF q
    <2> QED BY <1>1, <1>4, ShowStep
<1> QED BY <1>1, <1>2, <1>5 DEF Store!ChangeUser

LEMMA RelaunchStep ==
    ASSUME IInv, NEW c \in Clients, Relaunch(c)
    PROVE  Store!Learn(c)
<1> DEFINE q == Own(c)
           v == cache[c].version
<1>1. /\ TypeOK /\ SeenOK(c) /\ UNCHANGED <<log, user, queue, cache>>
      /\ view' = [view EXCEPT ![c] = Document(q, cache[c])]
    BY DEF IInv, ClientOK, Relaunch
<1>2. UNCHANGED <<log, user, Pending, SeenVersion>>
    BY <1>1 DEF Pending, SeenVersion
<1>3. q \in Seq(Batch) /\ Pending'[c][user'[c]] = WritesOf(q) /\ SeenVersion[c] = v
    BY <1>1, <1>2, Types DEF Pending, SeenVersion, Own
<1>4. v \in DOMAIN log /\ v >= v
    <2> DEFINE l == Len(log)
    <2>1. DOMAIN log = 1..l /\ l \in Nat /\ v \in 1..l
        BY <1>1, Types, LenProperties DEF SeenOK
    <2> HIDE DEF l, v
    <2> QED BY <2>1
<1>5. SeenVersion' = [SeenVersion EXCEPT ![c] = v]
    BY <1>2 DEF SeenVersion
<1>6. Store!Show(c)
    <2> HIDE DEF q
    <2> QED BY <1>1, <1>2, <1>3, ShowStep
<1> HIDE DEF v
<1> QED BY <1>2, <1>3, <1>4, <1>5, <1>6 DEF Store!Learn

LEMMA StutterStep ==
    UNCHANGED <<log, user, queue, cache, view>> => UNCHANGED Store!vars
BY DEF Store!vars, Pending, SeenVersion, ShownWrite

LEMMA InitStore ==
    Init => Store!Init
<1> SUFFICES ASSUME Init PROVE Store!Init
    OBVIOUS
<1>1. WritesOf(<<>>) = <<>>
    BY EmptySeq, WritesOfQueue
<1>2. Pending = [c \in Clients |-> [u \in Users |-> <<>>]]
    BY <1>1 DEF Init, Pending
<1>3. /\ SeenVersion = [c \in Clients |-> 1]
      /\ ShownWrite = [c \in Clients |-> 0]
    BY DEF Init, SeenVersion, ShownWrite
<1>4. log = <<0>> /\ user \in [Clients -> Users]
    BY ClientAssumption DEF Init
<1> QED BY <1>2, <1>3, <1>4 DEF Store!Init

LEMMA NextStore ==
    IInv /\ [Next]_vars => [Store!Next]_Store!vars
<1> SUFFICES ASSUME IInv, [Next]_vars PROVE [Store!Next]_Store!vars
    OBVIOUS
<1>1. CASE UNCHANGED vars
    BY <1>1, StutterStep DEF vars
<1>2. CASE Next
    <2> PICK c \in Clients :
            \/ WriteMutations(c) \/ HandshakeComplete(c)
            \/ ServerCommits(c) \/ ServerRejects(c)
            \/ MutationResult(c) \/ WriteRejected(c)
            \/ WriteStreamFails(c) \/ WriteStreamIdles(c)
            \/ WatchOpens(c) \/ WatchFails(c) \/ ServerPushes(c) \/ ApplyRemoteEvent(c)
            \/ \E u \in Users : CredentialChange(c, u)
            \/ Relaunch(c)
        BY <1>2 DEF Next
    <2>1. CASE WriteMutations(c)
        BY <2>1, SetStep DEF Store!Next
    <2>2. CASE ServerCommits(c)
        BY <2>2, CommitStep DEF Store!Next
    <2>3. CASE MutationResult(c)
        BY <2>3, CommittedStep DEF Store!Next
    <2>4. CASE WriteRejected(c)
        BY <2>4, RejectedStep DEF Store!Next
    <2>5. CASE ApplyRemoteEvent(c)
        BY <2>5, LearnStep DEF Store!Next
    <2>6. CASE \E u \in Users : CredentialChange(c, u)
        BY <2>6, ChangeUserStep DEF Store!Next
    <2>7. CASE Relaunch(c)
        BY <2>7, RelaunchStep DEF Store!Next
    <2>8. CASE \/ HandshakeComplete(c) \/ ServerRejects(c)
               \/ WriteStreamFails(c) \/ WriteStreamIdles(c)
               \/ WatchOpens(c) \/ WatchFails(c) \/ ServerPushes(c)
        <3>1. UNCHANGED <<log, user, queue, cache, view>>
            BY <2>8 DEF HandshakeComplete, ServerRejects, WriteStreamFails, WriteStreamIdles,
                        WatchOpens, WatchFails, ServerPushes, local_store
        <3> QED BY <3>1, StutterStep
    <2> QED BY <2>1, <2>2, <2>3, <2>4, <2>5, <2>6, <2>7, <2>8
<1> QED BY <1>1, <1>2

\* The Firestore client implements DocumentStore: what the application sees of
\* its document is what a plain list of versions and a queue of pending writes
\* would show, whatever happens to the streams, the process and the user.
THEOREM FirestoreImplements ==
    Spec => Implements
BY InitStore, NextStore, FirestoreInvariant, PTL DEF Spec, Implements, Store!Spec
=============================================================================
