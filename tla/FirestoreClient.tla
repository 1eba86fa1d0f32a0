-------------------------- MODULE FirestoreClient --------------------------
(***************************************************************************)
(* The Firestore client the application is built on, as far as one         *)
(* document and the writes to it are concerned: SyncEngine, RemoteStore,   *)
(* LocalStore, the mutation queue and View of the vendored SDK.            *)
(*                                                                         *)
(* setData appends a batch to the persisted mutation queue of the user who *)
(* is signed in.  RemoteStore takes the first batches of the queue into    *)
(* its write pipeline and sends them over the write stream; the server     *)
(* answers them in order.  When the stream breaks, the whole pipeline is   *)
(* sent again over the next one: a write whose answer was lost is made     *)
(* twice, as streams are not resumed (write_stream.cc:73).  The watch      *)
(* stream brings the versions of the document.  Both streams may break,    *)
(* the network change, the user change and the process be killed at any    *)
(* time.  All of it runs on one worker queue: a callback is one action.    *)
(*                                                                         *)
(* The document's value is the write that made it, and its version the     *)
(* number of commits.  Left out: deletions and patches, queries and limbo  *)
(* documents, existence filters, the resume and stream tokens, backoff.    *)
(* The cache holds the document from the start.                            *)
(*                                                                         *)
(* A definition marked "Mutant" is a plausible bug of the one below it; a  *)
(* property is shown to have teeth by swapping it in.                      *)
(***************************************************************************)
EXTENDS Integers, Sequences

CONSTANTS Clients,       \* the devices
          Users,         \* who may be signed in on them
          Owner,         \* the user who is signed in first
          Shared,        \* the devices on which the user may change
          Forbidden,     \* the writes the security rules refuse
          MaxPending,    \* kMaxPendingWrites
          MaxWrites,     \* bound: calls of setData
          MaxFailures    \* bound: broken streams, restarts, changes of user

ASSUME ClientAssumption == /\ Owner \in Users
                           /\ Shared \subseteq Clients
                           /\ MaxPending \in Nat \ {0}
                           /\ MaxWrites \in Nat
                           /\ MaxFailures \in Nat
                           /\ Forbidden \subseteq 1..MaxWrites

VARIABLES log,         \* the server: the writes that made the versions
          issued,      \* history: how many writes were made
          told,        \* history: what the completion callbacks were told
          user,        \* SyncEngine's current_user_
          queue,       \* per user the mutation queue, persisted
          nextId,      \* its next_batch_id_
          cache,       \* the remote document cache, persisted
          callbacks,   \* per user SyncEngine's mutation_callbacks_
          view,        \* the document the View has given its listeners
          pipeline,    \* RemoteStore's write_pipeline_
          stream,      \* the state of the write stream
          requests,    \* what was sent over it and the server has yet to read
          answers,     \* what the server answered and the client has yet to read
          watch,       \* the watch stream: the version on its way, if any
          failures     \* the number of failures so far

vars == <<log, issued, told, user, queue, nextId, cache, callbacks, view,
          pipeline, stream, requests, answers, watch, failures>>
write_stream == <<pipeline, stream, requests, answers>>
local_store == <<queue, nextId, cache>>

Writes == 1..MaxWrites
Batch == [id : Nat, write : Writes]
Answer == [ok : BOOLEAN, version : Nat]

Last(s) == s[Len(s)]
Own(c) == queue[c][user[c]]

-----------------------------------------------------------------------------
\* NextMutationBatchAfterBatchId: how many batches of q come up to this id.
UpTo(q, id) ==
    CHOOSE n \in 0..Len(q) : /\ n > 0 => q[n].id <= id
                             /\ n < Len(q) => q[n + 1].id > id

\* The loop of FillWritePipeline: the next batches, while there is room.
Filled(p, q) ==
    LET from == IF p = <<>> THEN 0 ELSE UpTo(q, Last(p).id)
        room == IF Len(p) < MaxPending THEN MaxPending - Len(p) ELSE 0
    IN  p \o SubSeq(q, from + 1, IF from + room < Len(q) THEN from + room ELSE Len(q))

\* FillWritePipeline with this queue, pipeline, requests under way and stream.
\* A batch that is added is sent when the stream is ready, and a stream is
\* started when there is something to send.
FillWritePipeline(c, q, p, sent, state) ==
    LET filled == Filled(p, q)
        added == SubSeq(filled, Len(p) + 1, Len(filled))
    IN  /\ pipeline' = [pipeline EXCEPT ![c] = filled]
        /\ requests' = [requests EXCEPT ![c] = IF state = "ready" THEN sent \o added ELSE sent]
        /\ stream' = [stream EXCEPT ![c] =
               IF state = "stopped" /\ filled # <<>> THEN "starting" ELSE state]

\* The local view of the document, with these batches pending.
Document(q, cached) ==
    [write |-> IF q # <<>> THEN Last(q).write ELSE log[cached.version],
     local |-> q # <<>>]

\* View.ComputeDocumentChanges.  A document whose local write has been committed
\* is not shown (ShouldWaitForSyncedDocument): the watch stream will send it.
Shown(old, q, cached) ==
    IF old.local /\ q = <<>> /\ cached.committed THEN old ELSE Document(q, cached)

\* Mutant: it is erased from the batch to the end.
RemoveToTheEnd(q, id) ==
    LET i == CHOOSE i \in DOMAIN q : q[i].id = id
    IN  SubSeq(q, 1, i - 1)

\* RemoveMutationBatch.
Remove(q, id) ==
    LET i == CHOOSE i \in DOMAIN q : q[i].id = id
    IN  SubSeq(q, 1, i - 1) \o SubSeq(q, i + 1, Len(q))

\* Mutant: the highest id, which is unknown when there are no batches.
HighestBatchId(queues) ==
    LET ids == UNION {{queues[u][i].id : i \in DOMAIN queues[u]} : u \in Users}
    IN  CHOOSE n \in {-1} \cup ids : \A id \in ids : id <= n

\* LoadNextBatchIdFromDb, of the queues of all users.
NextBatchId(queues) ==
    LET ids == UNION {{queues[u][i].id : i \in DOMAIN queues[u]} : u \in Users}
    IN  CHOOSE n \in {1} \cup {id + 1 : id \in ids} : \A id \in ids : id < n

\* SyncEngine.NotifyUser: the callback stored under this id is called, if any.
NotifyUser(c, id, outcome) ==
    LET mine == {cb \in callbacks[c][user[c]] : cb.id = id}
    IN  /\ told' = [w \in Writes |->
               IF \E cb \in mine : cb.write = w THEN outcome ELSE told[w]]
        /\ callbacks' = [callbacks EXCEPT ![c][user[c]] = @ \ mine]

\* Mutant: the pipeline is not cleared.
RestartKeepsPipeline(c, q) ==
    /\ FillWritePipeline(c, q, pipeline[c], <<>>, "stopped")
    /\ answers' = [answers EXCEPT ![c] = <<>>]
    /\ watch' = [watch EXCEPT ![c].open = FALSE, ![c].version = 0]

\* Both streams are stopped and the pipeline is cleared; then it is filled again.
RestartNetwork(c, q) ==
    /\ FillWritePipeline(c, q, <<>>, <<>>, "stopped")
    /\ answers' = [answers EXCEPT ![c] = <<>>]
    /\ watch' = [watch EXCEPT ![c].open = FALSE, ![c].version = 0]

Fails == /\ failures < MaxFailures
         /\ failures' = failures + 1

-----------------------------------------------------------------------------
Init ==
    /\ log = <<0>>
    /\ issued = 0
    /\ told = [w \in Writes |-> "nothing"]
    /\ user = [c \in Clients |-> Owner]
    /\ queue = [c \in Clients |-> [u \in Users |-> <<>>]]
    /\ nextId = [c \in Clients |-> 1]
    /\ cache = [c \in Clients |-> [version |-> 1, committed |-> FALSE]]
    /\ callbacks = [c \in Clients |-> [u \in Users |-> {}]]
    /\ view = [c \in Clients |-> [write |-> 0, local |-> FALSE]]
    /\ pipeline = [c \in Clients |-> <<>>]
    /\ stream = [c \in Clients |-> "stopped"]
    /\ requests = [c \in Clients |-> <<>>]
    /\ answers = [c \in Clients |-> <<>>]
    /\ watch = [c \in Clients |-> [open |-> FALSE, pushed |-> 0, version |-> 0]]
    /\ failures = 0

\* SyncEngine.WriteMutations: the batch is stored, the listeners are given the
\* new document, and it is sent if there is room in the pipeline.
WriteMutations(c) ==
    LET u == user[c]
        batch == [id |-> nextId[c], write |-> issued + 1]
        q == Append(Own(c), batch)
    IN  /\ issued < MaxWrites
        /\ issued' = issued + 1
        /\ queue' = [queue EXCEPT ![c][u] = q]
        /\ nextId' = [nextId EXCEPT ![c] = @ + 1]
        /\ callbacks' = [callbacks EXCEPT ![c][u] =
               IF \E cb \in @ : cb.id = batch.id THEN @ ELSE @ \cup {batch}]
        /\ view' = [view EXCEPT ![c] = Shown(@, q, cache[c])]
        /\ FillWritePipeline(c, q, pipeline[c], requests[c], stream[c])
        /\ UNCHANGED <<log, told, user, cache, answers, watch, failures>>

\* The stream is open and the handshake complete: the pipeline is sent.  (An
\* attempt that fails before is made again; until then nothing was sent.)
HandshakeComplete(c) ==
    /\ stream[c] = "starting"
    /\ stream' = [stream EXCEPT ![c] = "ready"]
    /\ requests' = [requests EXCEPT ![c] = pipeline[c]]
    /\ UNCHANGED <<log, issued, told, user, local_store, callbacks, view,
                   pipeline, answers, watch, failures>>

\* The server answers requests in order, and none after one it refused.
Serving(c) == requests[c] # <<>> /\ \A i \in DOMAIN answers[c] : answers[c][i].ok

ServerCommits(c) ==
    /\ Serving(c) /\ Head(requests[c]).write \notin Forbidden
    /\ log' = Append(log, Head(requests[c]).write)
    /\ requests' = [requests EXCEPT ![c] = Tail(@)]
    /\ answers' = [answers EXCEPT ![c] = Append(@, [ok |-> TRUE, version |-> Len(log) + 1])]
    /\ UNCHANGED <<issued, told, user, local_store, callbacks, view,
                   pipeline, stream, watch, failures>>

ServerRejects(c) ==
    /\ Serving(c) /\ Head(requests[c]).write \in Forbidden
    /\ requests' = [requests EXCEPT ![c] = Tail(@)]
    /\ answers' = [answers EXCEPT ![c] = Append(@, [ok |-> FALSE, version |-> 0])]
    /\ UNCHANGED <<log, issued, told, user, local_store, callbacks, view,
                   pipeline, stream, watch, failures>>

\* Mutant: what is cached is overwritten.
AcknowledgedAnyway(cached, version) == [version |-> version, committed |-> TRUE]

\* LocalStore.ApplyBatchResult: a cached document that is newer is left alone.
Acknowledged(cached, version) ==
    IF cached.version < version THEN [version |-> version, committed |-> TRUE] ELSE cached

\* OnWriteStreamMutationResult and SyncEngine.HandleSuccessfulWrite, for the
\* first batch of the pipeline; the slot is filled.
MutationResult(c) ==
    /\ answers[c] # <<>> /\ Head(answers[c]).ok
    /\ LET batch == Head(pipeline[c])
           q == Remove(Own(c), batch.id)
           cached == Acknowledged(cache[c], Head(answers[c]).version)
       IN  /\ NotifyUser(c, batch.id, "committed")
           /\ queue' = [queue EXCEPT ![c][user[c]] = q]
           /\ cache' = [cache EXCEPT ![c] = cached]
           /\ view' = [view EXCEPT ![c] = Shown(@, q, cached)]
           /\ answers' = [answers EXCEPT ![c] = Tail(@)]
           /\ FillWritePipeline(c, q, Tail(pipeline[c]), requests[c], stream[c])
    /\ UNCHANGED <<log, issued, user, nextId, watch, failures>>

\* The stream is closed with a permanent error, HandleWriteError and SyncEngine.
\* HandleRejectedWrite: the first batch of the pipeline is given up.
WriteRejected(c) ==
    /\ answers[c] # <<>> /\ ~Head(answers[c]).ok
    /\ LET batch == Head(pipeline[c])
           q == Remove(Own(c), batch.id)
       IN  /\ NotifyUser(c, batch.id, "rejected")
           /\ queue' = [queue EXCEPT ![c][user[c]] = q]
           /\ view' = [view EXCEPT ![c] = Shown(@, q, cache[c])]
           /\ answers' = [answers EXCEPT ![c] = <<>>]
           /\ FillWritePipeline(c, q, Tail(pipeline[c]), <<>>, "stopped")
    /\ UNCHANGED <<log, issued, user, nextId, cache, watch, failures>>

\* Mutant: every error counts as permanent.
EveryErrorRejects(c) ==
    /\ stream[c] = "ready" /\ pipeline[c] # <<>>
    /\ Fails
    /\ LET batch == Head(pipeline[c])
           q == Remove(Own(c), batch.id)
       IN  /\ NotifyUser(c, batch.id, "rejected")
           /\ queue' = [queue EXCEPT ![c][user[c]] = q]
           /\ view' = [view EXCEPT ![c] = Shown(@, q, cache[c])]
           /\ answers' = [answers EXCEPT ![c] = <<>>]
           /\ FillWritePipeline(c, q, Tail(pipeline[c]), <<>>, "stopped")
    /\ UNCHANGED <<log, issued, user, nextId, cache, watch>>

\* Mutant: the stream is not started again.
WriteStreamStops(c) ==
    /\ stream[c] = "ready"
    /\ Fails
    /\ stream' = [stream EXCEPT ![c] = "stopped"]
    /\ requests' = [requests EXCEPT ![c] = <<>>]
    /\ answers' = [answers EXCEPT ![c] = <<>>]
    /\ UNCHANGED <<log, issued, told, user, local_store, callbacks, view, pipeline, watch>>

\* The stream is closed with any other error, whatever was under way on it: it is
\* started again if there is something in the pipeline.
WriteStreamFails(c) ==
    /\ stream[c] = "ready"
    /\ Fails
    /\ stream' = [stream EXCEPT ![c] = IF pipeline[c] # <<>> THEN "starting" ELSE "stopped"]
    /\ requests' = [requests EXCEPT ![c] = <<>>]
    /\ answers' = [answers EXCEPT ![c] = <<>>]
    /\ UNCHANGED <<log, issued, told, user, local_store, callbacks, view, pipeline, watch>>

\* Nothing has been sent for a minute.
WriteStreamIdles(c) ==
    /\ stream[c] = "ready" /\ pipeline[c] = <<>>
    /\ stream' = [stream EXCEPT ![c] = "stopped"]
    /\ UNCHANGED <<log, issued, told, user, local_store, callbacks, view,
                   pipeline, requests, answers, watch, failures>>

-----------------------------------------------------------------------------
\* The watch stream opens, and the server is asked for the document.
WatchOpens(c) ==
    /\ ~watch[c].open
    /\ watch' = [watch EXCEPT ![c] = [open |-> TRUE, pushed |-> Len(log) - 1, version |-> 0]]
    /\ UNCHANGED <<log, issued, told, user, local_store, callbacks, view, write_stream, failures>>

WatchFails(c) ==
    /\ watch[c].open
    /\ Fails
    /\ watch' = [watch EXCEPT ![c].open = FALSE, ![c].version = 0]
    /\ UNCHANGED <<log, issued, told, user, local_store, callbacks, view, write_stream>>

\* The server sends a version; it may leave some out, and never goes back.
ServerPushes(c) ==
    /\ watch[c].open /\ watch[c].version = 0
    /\ \E v \in watch[c].pushed + 1..Len(log) :
           watch' = [watch EXCEPT ![c].pushed = v, ![c].version = v]
    /\ UNCHANGED <<log, issued, told, user, local_store, callbacks, view, write_stream, failures>>

\* Mutant: the version that was acknowledged is not news.
OutdatedOrEqual(cached, version) == version <= cached.version

\* The version LocalStore.ApplyRemoteEvent leaves alone.
Outdated(cached, version) ==
    version < cached.version \/ (version = cached.version /\ ~cached.committed)

\* RaiseWatchSnapshot and SyncEngine.ApplyRemoteEvent.
ApplyRemoteEvent(c) ==
    LET v == watch[c].version
        cached == [version |-> v, committed |-> FALSE]
    IN  /\ v # 0
        /\ watch' = [watch EXCEPT ![c].version = 0]
        /\ IF Outdated(cache[c], v)
           THEN UNCHANGED <<cache, view>>
           ELSE /\ cache' = [cache EXCEPT ![c] = cached]
                /\ view' = [view EXCEPT ![c] = Shown(@, Own(c), cached)]
        /\ UNCHANGED <<log, issued, told, user, queue, nextId, callbacks, write_stream, failures>>

-----------------------------------------------------------------------------
\* SyncEngine.HandleCredentialChange: the listeners see the other queue, and the
\* streams are made anew.
CredentialChange(c, u) ==
    /\ c \in Shared \/ u = user[c]
    /\ Fails
    /\ user' = [user EXCEPT ![c] = u]
    /\ nextId' = IF u = user[c] THEN nextId
                 ELSE [nextId EXCEPT ![c] = NextBatchId(queue[c])]
    /\ view' = [view EXCEPT ![c] = Shown(@, queue[c][u], cache[c])]
    /\ RestartNetwork(c, queue[c][u])
    /\ UNCHANGED <<log, issued, told, queue, cache, callbacks>>

\* The process is killed and started again: what is persisted remains, and the
\* listeners are given the document the cache and the queue make.
Relaunch(c) ==
    /\ Fails
    /\ nextId' = [nextId EXCEPT ![c] = NextBatchId(queue[c])]
    /\ callbacks' = [callbacks EXCEPT ![c] = [u \in Users |-> {}]]
    /\ view' = [view EXCEPT ![c] = Document(Own(c), cache[c])]
    /\ RestartNetwork(c, Own(c))
    /\ UNCHANGED <<log, issued, told, user, queue, cache>>

Next == \E c \in Clients :
    \/ WriteMutations(c) \/ HandshakeComplete(c)
    \/ ServerCommits(c) \/ ServerRejects(c)
    \/ MutationResult(c) \/ WriteRejected(c)
    \/ WriteStreamFails(c) \/ WriteStreamIdles(c)
    \/ WatchOpens(c) \/ WatchFails(c) \/ ServerPushes(c) \/ ApplyRemoteEvent(c)
    \/ \E u \in Users : CredentialChange(c, u)
    \/ Relaunch(c)

Spec == Init /\ [][Next]_vars

\* Streams are opened again, the server serves them, and what arrives is handled.
Fairness == \A c \in Clients :
    /\ WF_vars(HandshakeComplete(c))
    /\ WF_vars(ServerCommits(c)) /\ WF_vars(ServerRejects(c))
    /\ WF_vars(MutationResult(c)) /\ WF_vars(WriteRejected(c))
    /\ WF_vars(WatchOpens(c)) /\ WF_vars(ServerPushes(c)) /\ WF_vars(ApplyRemoteEvent(c))

FairSpec == Spec /\ Fairness
-----------------------------------------------------------------------------
\* Type invariant.
TypeOK ==
    /\ log \in Seq(Writes \cup {0})
    /\ issued \in 0..MaxWrites
    /\ told \in [Writes -> {"nothing", "committed", "rejected"}]
    /\ user \in [Clients -> Users]
    /\ queue \in [Clients -> [Users -> Seq(Batch)]]
    /\ nextId \in [Clients -> Nat]
    /\ cache \in [Clients -> [version : Nat, committed : BOOLEAN]]
    /\ callbacks \in [Clients -> [Users -> SUBSET Batch]]
    /\ view \in [Clients -> [write : Writes \cup {0}, local : BOOLEAN]]
    /\ pipeline \in [Clients -> Seq(Batch)]
    /\ stream \in [Clients -> {"stopped", "starting", "ready"}]
    /\ requests \in [Clients -> Seq(Batch)]
    /\ answers \in [Clients -> Seq(Answer)]
    /\ watch \in [Clients -> [open : BOOLEAN, pushed : Nat, version : Nat]]
    /\ failures \in 0..MaxFailures

Committed(w) == \E v \in DOMAIN log : log[v] = w

\* An answer is taken for the one to the first batch of the pipeline, which is
\* taken for the first batch of the queue (the assertions of RemoteStore and of
\* the mutation queue): it always is, across broken streams and changes of user.
AnswersMatch ==
    \A c \in Clients :
        /\ Len(pipeline[c]) <= Len(Own(c))
        /\ pipeline[c] = SubSeq(Own(c), 1, Len(pipeline[c]))
        /\ Len(answers[c]) <= Len(pipeline[c])
        /\ \A i \in DOMAIN answers[c] :
               IF answers[c][i].ok THEN log[answers[c][i].version] = pipeline[c][i].write
               ELSE pipeline[c][i].write \in Forbidden

\* A completion callback is told of the fate of its own write: "committed" only
\* of what the server made a version of, "rejected" only of what it never did.
\* Callbacks are found by batch ids, which start again at 1 now and then.
ToldTheTruth ==
    \A w \in Writes : /\ told[w] = "committed" => Committed(w)
                      /\ told[w] = "rejected" => ~Committed(w)

\* No write is lost: each waits in some queue, has been a version, or was
\* refused, whoever signed in since and however often the process was killed.
NothingLost ==
    \A w \in 1..issued :
        \/ Committed(w)
        \/ w \in Forbidden
        \/ \E c \in Clients : \E u \in Users : \E i \in DOMAIN queue[c][u] :
               queue[c][u][i].write = w

\* The client keeps the promise of DocumentStore.
WritesOf(q) == [i \in DOMAIN q |-> q[i].write]
Pending == [c \in Clients |-> [u \in Users |-> WritesOf(queue[c][u])]]
SeenVersion == [c \in Clients |-> cache[c].version]
ShownWrite == [c \in Clients |-> view[c].write]

Store == INSTANCE DocumentStore WITH
    pending <- Pending, seen <- SeenVersion, view <- ShownWrite

Implements == Store!Spec

\* The writes of a user who stays signed in are all settled in the end.
WritesSettle ==
    \A c \in Clients : <>[](Own(c) = <<>>)

\* In the end every listener is given the document the server has: a write that
\* was refused or overwritten does not stay on any screen.
EveryoneSees ==
    <>[](\A c \in Clients : view[c].write = Last(log))
=============================================================================
