--------------------------- MODULE DocumentStore ---------------------------
(***************************************************************************)
(* What the application relies on when it calls setData and listens to a   *)
(* document: the promise the Firestore client is shown to keep             *)
(* (FirestoreClient).                                                      *)
(*                                                                         *)
(* Every write replaces the document, so a version of it is the write made *)
(* then, and the document is the list of its versions.  A client has seen  *)
(* the versions up to some one, and has the writes of each user pending    *)
(* that are not settled yet.  It shows the newest pending write, or else   *)
(* the version it has seen; sometimes it is late to show the latter.       *)
(***************************************************************************)
EXTENDS Naturals, Sequences

CONSTANTS Clients,     \* the devices
          Users,       \* who may be signed in on them
          MaxWrites,   \* bound: the writes are numbered 1, 2, ...
          Forbidden    \* the writes the security rules refuse

VARIABLES log,       \* the versions of the document; the first is write 0
          user,      \* who is signed in
          pending,   \* per client and user, the writes made and not settled
          seen,      \* the newest version a client has seen
          view       \* the write a client's listeners were last given

vars == <<log, user, pending, seen, view>>

Committed(write) == \E v \in DOMAIN log : log[v] = write

\* What a client should show.
Current(writes, version) ==
    IF writes # <<>> THEN writes[Len(writes)] ELSE log[version]

Init ==
    /\ log = <<0>>
    /\ user \in [Clients -> Users]
    /\ pending = [c \in Clients |-> [u \in Users |-> <<>>]]
    /\ seen = [c \in Clients |-> 1]
    /\ view = [c \in Clients |-> 0]

\* The listeners are given what is to be shown, or nothing yet.
Show(c) ==
    \E write \in {view[c], Current(pending'[c][user'[c]], seen'[c])} :
        view' = [view EXCEPT ![c] = write]

\* A new write is shown on the device at once.
Set(c) ==
    \E w \in 1..MaxWrites :
        /\ \A d \in Clients : \A u \in Users :
               \A i \in DOMAIN pending[d][u] : pending[d][u][i] # w
        /\ ~Committed(w)
        /\ pending' = [pending EXCEPT ![c][user[c]] = Append(@, w)]
        /\ view' = [view EXCEPT ![c] = w]
        /\ UNCHANGED <<log, user, seen>>

\* The server makes a pending write of the signed-in user a version, in order
\* with those before it; until it is settled perhaps not for the last time.
Commit(c) ==
    LET writes == pending[c][user[c]]
    IN  \E i \in DOMAIN writes :
            /\ writes[i] \notin Forbidden
            /\ \A j \in 1..i - 1 : Committed(writes[j])
            /\ log' = Append(log, writes[i])
            /\ UNCHANGED <<user, pending, seen, view>>

\* The oldest pending write is settled.  A client that learns so has seen the
\* write from then on, or never will.
Settle(c) ==
    LET writes == pending[c][user[c]]
    IN  /\ writes # <<>>
        /\ pending' = [pending EXCEPT ![c][user[c]] = Tail(@)]
        /\ \/ /\ writes[1] \in Forbidden
              /\ UNCHANGED seen
           \/ \E v \in DOMAIN log :
                  /\ log[v] = writes[1]
                  /\ seen' = [seen EXCEPT ![c] = IF @ < v THEN v ELSE @]
        /\ UNCHANGED <<log, user>>
        /\ Show(c)

\* A client hears of a newer version, or only now shows what it should.
Learn(c) ==
    /\ \E v \in DOMAIN log : v >= seen[c] /\ seen' = [seen EXCEPT ![c] = v]
    /\ UNCHANGED <<log, user, pending>>
    /\ Show(c)

\* Another user signs in; the writes of the first wait.
ChangeUser(c) ==
    /\ \E u \in Users : user' = [user EXCEPT ![c] = u]
    /\ UNCHANGED <<log, pending, seen>>
    /\ Show(c)

Next == \E c \in Clients :
            Set(c) \/ Commit(c) \/ Settle(c) \/ Learn(c) \/ ChangeUser(c)

Spec == Init /\ [][Next]_vars
=============================================================================
