---------------------------- MODULE UsersService ----------------------------
(***************************************************************************)
(* The USERS service: three goroutines that each consume one RabbitMQ      *)
(* queue ("create", "update", "delete"), the gRPC handler goroutines that  *)
(* run beside them, the Mongo collection they write, the Redis cache in    *)
(* front of it, and the life cycle of the process (shutdown by signal,     *)
(* crash, loss of the AMQP connection, restart).                           *)
(*                                                                         *)
(* A handler is cut where another goroutine can run in between: before     *)
(* each call to Mongo, to Redis or to the broker.  Each such call is one   *)
(* step.  A call may fail; one that fails may have been applied or not.    *)
(***************************************************************************)
EXTENDS Integers, FiniteSets

CONSTANTS
  UserIds,      \* ObjectIDs; bounds how many users are ever inserted
  InitialUsers, \* the users the collection holds when the model starts
  Emails,       \* non-empty e-mail addresses
  Names,        \* non-empty values of the other updatable fields
  Empty,        \* the empty string
  NoUser,       \* no document, no cache entry, no local value
  NoRequest,    \* no request
  Clients,      \* gRPC handler goroutines
  Calls,        \* the requests the gRPC clients make
  Published,    \* the requests the gateway publishes
  MaxMessages,  \* bound: messages published
  MaxFaults,    \* bound: Mongo or Redis calls that fail
  MaxLosses     \* bound: crashes and losses of the AMQP connection

\* The queues, and also the names of the goroutines that consume them:
\* "create" runs RegisterUser, "update" UpdateUser, "delete" DeleteUserById.
Queues == {"create", "update", "delete"}

Procs == Queues \cup Clients

MsgIds == 1 .. MaxMessages

\* A stored user.  "name" stands for the username and the profile fields,
\* which Update treats alike; the password is never updated and left out.
User == [id : UserIds, email : Emails \cup {Empty},
         name : Names \cup {Empty}, deleted : BOOLEAN]

CreateReq  == [op : {"create"}, email : Emails, name : Names, deleted : BOOLEAN]
UpdateReq  == [op : {"update"}, id : UserIds,
               email : Emails \cup {Empty}, name : Names \cup {Empty}]
DeleteReq  == [op : {"delete"}, id : UserIds]
LoginReq   == [op : {"login"}, email : Emails]
GetByIdReq == [op : {"getById"}, id : UserIds]

QueueReq == CreateReq \cup UpdateReq \cup DeleteReq
Request  == QueueReq \cup LoginReq \cup GetByIdReq

ASSUME UsersAssumption ==
  /\ InitialUsers \subseteq User
  /\ \A u, v \in InitialUsers : u.id = v.id => u = v
  /\ NoUser \notin User
  /\ NoRequest \notin Request
  /\ Clients \cap Queues = {}
  /\ Calls \subseteq Request
  /\ Published \subseteq QueueReq
  /\ MaxMessages \in Nat /\ MaxFaults \in Nat /\ MaxLosses \in Nat

VARIABLES
  db,         \* the Mongo collection: id -> document
  cache,      \* Redis: id -> cached user
  body,       \* message -> the request in it
  status,     \* message -> where the broker has it
  buffered,   \* messages the AMQP library still has from a lost connection
  up,         \* the process is running
  connected,  \* its AMQP connection is open
  cancelled,  \* consumerCtx has been cancelled
  wg,         \* the counter of the WaitGroup
  pc,         \* goroutine -> the call it makes next
  job,        \* goroutine -> its local variables
  faults,     \* failed calls so far
  losses,     \* crashes and lost connections so far
  \* History, read by no guard:
  hist,       \* id -> every document the collection has held under it
  applied,    \* message -> the ids written while handling it
  suspect     \* ids whose cache entry a named race or failure may have left stale

store  == <<db, cache>>
broker == <<body, status, buffered>>
life   == <<up, connected, cancelled, wg>>
local  == <<pc, job>>
budget == <<faults, losses>>
ghosts == <<hist, applied, suspect>>
vars   == <<store, broker, life, local, budget, ghosts>>

-----------------------------------------------------------------------------
Steps  == {"idle", "check", "insert", "find", "write", "cacheGet", "cacheSet",
           "end", "stopped"}
Errors == {"none", "decode", "ctx", "mongo", "redis", "notFound", "noRows",
           "badUpdate", "password"}
Status == {"unsent", "ready", "unacked", "acked", "dropped"}

Job == [msg : MsgIds \cup {0}, req : Request \cup {NoRequest},
        user : User \cup {NoUser}, err : Errors]

NoJob == [msg |-> 0, req |-> NoRequest, user |-> NoUser, err |-> "none"]

\* The mutated form of NumberOfServices: a goroutine added, the count forgotten.
TwoServices == 2

\* A count raised without a goroutine to match.
FourServices == 4

\* The numberOfServices main passes to the broker: the goroutines Wait waits for.
NumberOfServices == 3

TypeOK ==
  /\ db \in [UserIds -> User \cup {NoUser}]
  /\ cache \in [UserIds -> User \cup {NoUser}]
  /\ body \in [MsgIds -> QueueReq \cup {NoRequest}]
  /\ status \in [MsgIds -> Status]
  /\ buffered \subseteq MsgIds
  /\ up \in BOOLEAN /\ connected \in BOOLEAN /\ cancelled \in BOOLEAN
  /\ wg \in 0 .. NumberOfServices
  /\ pc \in [Procs -> Steps]
  /\ job \in [Procs -> Job]
  /\ faults \in 0 .. MaxFaults /\ losses \in 0 .. MaxLosses
  /\ hist \in [UserIds -> SUBSET User]
  /\ applied \in [MsgIds -> SUBSET UserIds]
  /\ suspect \subseteq UserIds

\* The service starts on a collection that may already hold users, and on an
\* empty cache and empty queues.
Init ==
  /\ db = [i \in UserIds |-> IF \E u \in InitialUsers : u.id = i
                             THEN CHOOSE u \in InitialUsers : u.id = i
                             ELSE NoUser]
  /\ cache = [i \in UserIds |-> NoUser]
  /\ body = [n \in MsgIds |-> NoRequest]
  /\ status = [n \in MsgIds |-> "unsent"]
  /\ buffered = {}
  /\ up = TRUE /\ connected = TRUE /\ cancelled = FALSE
  /\ wg = NumberOfServices
  /\ pc = [p \in Procs |-> "idle"]
  /\ job = [p \in Procs |-> NoJob]
  /\ faults = 0 /\ losses = 0
  /\ hist = [i \in UserIds |-> {db[i]} \ {NoUser}]
  /\ applied = [n \in MsgIds |-> {}]
  /\ suspect = {}

-----------------------------------------------------------------------------
(* Helpers *)

At(p, step) == up /\ pc[p] = step

Goto(p, step) == pc' = [pc EXCEPT ![p] = step]

\* The handler returns an error.
Fail(p, e) ==
  /\ Goto(p, "end")
  /\ job' = [job EXCEPT ![p].err = e]

\* The consumers run under consumerCtx; a gRPC handler under its caller's.
Cancelled(p) == p \in Queues /\ cancelled

\* A call made under a cancelled context fails; any call may fail by itself.
CallFails(p) ==
  /\ Cancelled(p) \/ faults < MaxFaults
  /\ faults' = IF Cancelled(p) THEN faults ELSE faults + 1

ErrorOf(p, service) == IF Cancelled(p) THEN "ctx" ELSE service

AnyLive(i) == db[i] # NoUser

\* The filter {"_id": i, "deleted": false}.
IsLive(i) == db[i] # NoUser /\ ~db[i].deleted

\* Update without the len(..) > 0 guards.
MergeAll(u, r) == [u EXCEPT !.email = r.email, !.name = r.name]

\* User.Update: a non-empty field of the request replaces the user's.
Merge(u, r) ==
  [u EXCEPT !.email = IF r.email # Empty THEN r.email ELSE @,
            !.name  = IF r.name # Empty THEN r.name ELSE @]

\* The document CreateUser builds under a new ObjectID.
NewUser(i, r) == [id |-> i, email |-> r.email, name |-> r.name, deleted |-> r.deleted]

\* Goroutines that hold a user i they are about to put in Redis.
Holders(i) == {p \in Procs : pc[p] = "cacheSet" /\ job[p].user.id = i}

\* Those of them whose write the cache does not show yet.
Refreshers(i) == {p \in Holders(i) : job[p].req.op = "update"}

Record(p, i, u) ==
  /\ db' = [db EXCEPT ![i] = u]
  /\ hist' = [hist EXCEPT ![i] = @ \cup {u}]
  /\ applied' = IF p \in Queues
                THEN [applied EXCEPT ![job[p].msg] = @ \cup {i}] ELSE applied

-----------------------------------------------------------------------------
(* The handlers.  Every action below is one call of a handler goroutine.   *)

Entry == [create |-> "check", update |-> "find", delete |-> "find",
          login |-> "find", getById |-> "cacheGet"]

Start(p, n, r) ==
  /\ Goto(p, Entry[r.op])
  /\ job' = [job EXCEPT ![p] = [NoJob EXCEPT !.msg = n, !.req = r]]

\* CreateUser: the select on ctx.Done() before the insert.
CheckContext(p) ==
  /\ At(p, "check")
  /\ IF Cancelled(p) THEN Fail(p, "ctx") ELSE Goto(p, "insert") /\ UNCHANGED job
  /\ UNCHANGED <<store, broker, life, budget, ghosts>>

\* CreateUser: InsertOne under a fresh ObjectID.
InsertOne(p) ==
  /\ At(p, "insert")
  /\ \E i \in UserIds :
       LET u == NewUser(i, job[p].req) IN
       /\ db[i] = NoUser
       /\ \/ /\ ~Cancelled(p)
             /\ Record(p, i, u)
             /\ job' = [job EXCEPT ![p].user = u]
             /\ Goto(p, "cacheSet")
             /\ UNCHANGED faults
          \/ /\ CallFails(p)
             /\ Fail(p, ErrorOf(p, "mongo"))
             /\ Record(p, i, u) \/ UNCHANGED <<db, hist, applied>>
  /\ UNCHANGED <<cache, broker, life, losses, suspect>>

\* The documents FindOne may answer with.
Matches(r) ==
  CASE r.op \in {"update", "getById"} -> {i \in UserIds : IsLive(i) /\ i = r.id}
    [] r.op = "login"  -> {i \in UserIds : IsLive(i) /\ db[i].email = r.email}
    [] r.op = "delete" -> {i \in UserIds : db[i] # NoUser /\ i = r.id}

\* The handler puts the merged user in Redis and only then writes it.
CacheFirst == [update |-> "cacheSet", delete |-> "write", login |-> "cacheSet",
               getById |-> "end"]

\* The call that follows a successful FindOne.
AfterFind == [update |-> "write", delete |-> "write", login |-> "cacheSet",
              getById |-> "end"]

\* getByField, and the FindOne of DeleteUserById.  UpdateUser merges the
\* request into its copy at once; LoginUser compares the password.
FindOne(p) ==
  LET r == job[p].req
      Found(i) == IF r.op = "update" THEN Merge(db[i], r) ELSE db[i]
  IN
  /\ At(p, "find")
  /\ \/ /\ ~Cancelled(p)
        /\ \E i \in Matches(r) : job' = [job EXCEPT ![p].user = Found(i)]
        /\ Goto(p, AfterFind[r.op])
        /\ UNCHANGED faults
     \/ /\ ~Cancelled(p)
        /\ Matches(r) = {}
        /\ Fail(p, "notFound")
        /\ UNCHANGED faults
     \/ /\ ~Cancelled(p)
        /\ r.op = "login" /\ Matches(r) # {}
        /\ Fail(p, "password")
        /\ UNCHANGED faults
     \/ CallFails(p) /\ Fail(p, ErrorOf(p, "mongo"))
  /\ UNCHANGED <<store, broker, life, losses, ghosts>>

\* UpdateUser returns as soon as Mongo has the new document.
SkipCache == "end"

\* UpdateUser refreshes Redis after UpdateOne.
AfterUpdate == "cacheSet"

\* UpdateUser: UpdateOne with {"$set": user} on the live document.  Nothing
\* modified, because none is live or because it is already equal, is an error.
UpdateOne(p) ==
  LET i == job[p].req.id
      u == job[p].user
      modifies == IsLive(i) /\ db[i] # u
  IN
  /\ At(p, "write") /\ job[p].req.op = "update"
  /\ \/ /\ ~Cancelled(p) /\ modifies
        /\ Record(p, i, u)
        /\ suspect' = IF Holders(i) # {} THEN suspect \cup {i} ELSE suspect
        /\ Goto(p, AfterUpdate)
        /\ UNCHANGED <<job, faults>>
     \/ /\ ~Cancelled(p) /\ ~modifies
        /\ Fail(p, "noRows")
        /\ UNCHANGED <<db, hist, applied, suspect, faults>>
     \/ /\ CallFails(p)
        /\ Fail(p, ErrorOf(p, "mongo"))
        /\ \/ modifies /\ Record(p, i, u) /\ suspect' = suspect \cup {i}
           \/ UNCHANGED <<db, hist, applied, suspect>>
  /\ UNCHANGED <<cache, broker, life, losses>>

\* DeleteUserById: UpdateOne with a document that has no "$" key, which the
\* driver refuses before it calls the server.
DeleteOne(p) ==
  /\ At(p, "write") /\ job[p].req.op = "delete"
  /\ Fail(p, "badUpdate")
  /\ UNCHANGED <<store, broker, life, budget, ghosts>>

\* StoreUserInRedis.  LoginUser ignores its error; the other two return it,
\* after the database has been written.
CacheSet(p) ==
  LET u   == job[p].user
      op  == job[p].req.op
      set == [cache EXCEPT ![u.id] = u]
  IN
  /\ At(p, "cacheSet")
  /\ \/ /\ ~Cancelled(p)
        /\ cache' = set
        /\ Goto(p, "end")
        /\ UNCHANGED <<job, faults, suspect>>
     \/ /\ CallFails(p)
        /\ cache' \in {cache, set}
        /\ IF op = "login" THEN Goto(p, "end") /\ UNCHANGED job
                           ELSE Fail(p, ErrorOf(p, "redis"))
        /\ suspect' = IF op = "update" THEN suspect \cup {u.id} ELSE suspect
  /\ UNCHANGED <<db, broker, life, losses, hist, applied>>

\* GetById asks Redis first and falls through to Mongo on a miss or an error.
CacheGet(p) ==
  LET u == cache[job[p].req.id] IN
  /\ At(p, "cacheGet")
  /\ \/ /\ u # NoUser
        /\ job' = [job EXCEPT ![p].user = u]
        /\ Goto(p, "end")
        /\ UNCHANGED faults
     \/ /\ u = NoUser
        /\ Goto(p, "find")
        /\ UNCHANGED <<job, faults>>
     \/ /\ CallFails(p)
        /\ Goto(p, "find")
        /\ UNCHANGED job
  /\ UNCHANGED <<store, broker, life, losses, ghosts>>

Handle(p) ==
  \/ CheckContext(p) \/ InsertOne(p) \/ FindOne(p) \/ UpdateOne(p)
  \/ DeleteOne(p) \/ CacheSet(p) \/ CacheGet(p)

-----------------------------------------------------------------------------
(* consumeMessages, and the gRPC server's calls. *)

\* The oldest message that waits in queue q.
IsHead(n, q) ==
  /\ status[n] = "ready" /\ body[n].op = q
  /\ \A m \in MsgIds : status[m] = "ready" /\ body[m].op = q => n <= m

\* The select takes a delivery.  It may do so after the cancellation too: it
\* picks among the ready cases at random.
Take(q) ==
  /\ At(q, "idle") /\ connected
  /\ \E n \in MsgIds :
       /\ IsHead(n, q)
       /\ status' = [status EXCEPT ![n] = "unacked"]
       /\ Start(q, n, body[n])
  /\ UNCHANGED <<store, body, buffered, life, budget, ghosts>>

Buffered(q) == {n \in buffered : body[n].op = q}

\* The consumers have no prefetch limit: when the connection is lost, the AMQP
\* library may still hand over deliveries that the broker has taken back.
TakeBuffered(q) ==
  /\ At(q, "idle") /\ ~connected
  /\ \E n \in Buffered(q) :
       /\ \A m \in Buffered(q) : n <= m
       /\ buffered' = buffered \ {n}
       /\ Start(q, n, body[n])
  /\ UNCHANGED <<store, body, status, life, budget, ghosts>>

\* Or it drops them and closes the channel: every receive yields an empty
\* delivery, which does not unmarshal.
TakeEmpty(q) ==
  /\ At(q, "idle") /\ ~connected
  /\ buffered' = buffered \ Buffered(q)
  /\ Fail(q, "decode")
  /\ UNCHANGED <<store, body, status, life, budget, ghosts>>

\* Forms of Answer a slip in consumeMessages would give.
AlwaysAck(err) == "acked"
NackRequeue(err) == IF err = "none" THEN "acked" ELSE "ready"
ForgetNack(err) == IF err = "none" THEN "acked" ELSE "unacked"

\* Ack(false) on success, Nack(false, false) on any error: the message is
\* discarded, never requeued.
Answer(err) == IF err = "none" THEN "acked" ELSE "dropped"

\* The answer reaches the broker only on the connection of the delivery; its
\* error is ignored.
Settle(q) ==
  /\ At(q, "end")
  /\ status' = IF connected THEN [status EXCEPT ![job[q].msg] = Answer(job[q].err)]
                            ELSE status
  /\ Goto(q, "idle")
  /\ job' = [job EXCEPT ![q] = NoJob]
  /\ UNCHANGED <<store, body, buffered, life, budget, ghosts>>

\* The select takes ctx.Done(): the goroutine returns, and wg.Done() runs.
Stop(q) ==
  /\ At(q, "idle") /\ cancelled
  /\ Goto(q, "stopped")
  /\ wg' = wg - 1
  /\ UNCHANGED <<store, broker, up, connected, cancelled, job, budget, ghosts>>

Call(c) ==
  /\ At(c, "idle")
  /\ \E r \in Calls : Start(c, 0, r)
  /\ UNCHANGED <<store, broker, life, budget, ghosts>>

Reply(c) ==
  /\ At(c, "end")
  /\ Goto(c, "idle")
  /\ job' = [job EXCEPT ![c] = NoJob]
  /\ UNCHANGED <<store, broker, life, budget, ghosts>>

-----------------------------------------------------------------------------
(* The life of the process, and its surroundings. *)

\* The broker takes back every delivery that was not answered.
Requeue == status' = [n \in MsgIds |-> IF status[n] = "unacked" THEN "ready"
                                                                ELSE status[n]]

\* The process is gone with all its goroutines; a refresh of Redis that was
\* still to come never will.
Vanish ==
  /\ up' = FALSE /\ connected' = FALSE /\ cancelled' = FALSE
  /\ wg' = NumberOfServices
  /\ pc' = [p \in Procs |-> "idle"]
  /\ job' = [p \in Procs |-> NoJob]
  /\ suspect' = suspect \cup {i \in UserIds : Refreshers(i) # {}}
  /\ buffered' = {}
  /\ Requeue
  /\ UNCHANGED <<store, body, faults, hist, applied>>

\* SIGTERM or interrupt: cancel().
Signal ==
  /\ up /\ ~cancelled
  /\ cancelled' = TRUE
  /\ UNCHANGED <<store, broker, up, connected, wg, local, budget, ghosts>>

\* wg.Wait() returns, and main closes the channel and the connection.
Exit == up /\ cancelled /\ wg = 0 /\ Vanish /\ UNCHANGED losses

Crash ==
  /\ up /\ losses < MaxLosses
  /\ losses' = losses + 1
  /\ Vanish

\* The AMQP connection breaks; the service never dials again.
Disconnect ==
  /\ up /\ connected /\ losses < MaxLosses
  /\ losses' = losses + 1
  /\ connected' = FALSE
  /\ buffered' = {n \in MsgIds : status[n] = "ready"}
  /\ Requeue
  /\ UNCHANGED <<store, body, up, cancelled, wg, local, faults, ghosts>>

Restart ==
  /\ ~up
  /\ up' = TRUE /\ connected' = TRUE
  /\ UNCHANGED <<store, broker, cancelled, wg, local, budget, ghosts>>

\* A cached user lives 24 hours.  With it go the traces of old races, unless
\* some goroutine still holds that user.
Expire(i) ==
  /\ cache[i] # NoUser
  /\ cache' = [cache EXCEPT ![i] = NoUser]
  /\ suspect' = IF Holders(i) = {} THEN suspect \ {i} ELSE suspect
  /\ UNCHANGED <<db, broker, life, local, budget, hist, applied>>

\* The gateway publishes; messages are numbered in the order of publication.
Publish ==
  \E n \in MsgIds, r \in Published :
    /\ status[n] = "unsent"
    /\ \A m \in MsgIds : m < n => status[m] # "unsent"
    /\ status' = [status EXCEPT ![n] = "ready"]
    /\ body' = [body EXCEPT ![n] = r]
    /\ UNCHANGED <<store, buffered, life, local, budget, ghosts>>

Consume(q) == Take(q) \/ TakeBuffered(q) \/ TakeEmpty(q) \/ Handle(q) \/ Settle(q)
Serve(c)   == Handle(c) \/ Reply(c)

Next ==
  \/ \E q \in Queues : Consume(q) \/ Stop(q)
  \/ \E c \in Clients : Call(c) \/ Serve(c)
  \/ \E i \in UserIds : Expire(i)
  \/ Publish \/ Signal \/ Exit \/ Crash \/ Disconnect \/ Restart

Spec == Init /\ [][Next]_vars

\* The Go scheduler runs every goroutine that is ready, and calls to Mongo and
\* Redis return.  A select picks at random among its ready cases, so a consumer
\* that comes back to it over and over with ctx done takes that case in the end:
\* strong fairness.  Nothing is assumed of clients, faults, signals or restarts.
Fairness ==
  /\ \A q \in Queues : WF_vars(Consume(q)) /\ SF_vars(Stop(q))
  /\ \A c \in Clients : WF_vars(Serve(c))
  /\ WF_vars(Exit)

FairSpec == Spec /\ Fairness

-----------------------------------------------------------------------------
(* Properties *)

\* A message the service has acknowledged has had its effect on the database:
\* Ack(false) comes after the write, on every path of the handler and across
\* redeliveries.
AckMeansDone == \A n \in MsgIds : status[n] = "acked" => applied[n] # {}

\* RegisterUser is not idempotent, so every redelivery of a registration may
\* insert one more user; but only a crash or a lost connection redelivers.
\* Shutdown, failed calls and refused requests never do.
RepeatsBounded == \A n \in MsgIds : Cardinality(applied[n]) <= 1 + losses

\* GetById answers from Redis: what Redis holds for a user is always something
\* the collection held for that user, never a value that was not written.
CacheHoldsCommitted ==
  \A i \in UserIds : cache[i] # NoUser => cache[i] \in hist[i]

\* Redis disagrees with the collection only while the UpdateUser that wrote it
\* is about to refresh Redis, or after one of four things: a write that
\* committed while another goroutine held an older copy of the user, a refresh
\* that failed, an UpdateOne that was applied and reported an error, a process
\* that ended before the refresh.
StaleHasCause ==
  \A i \in UserIds :
    cache[i] # NoUser /\ cache[i] # db[i] => i \in suspect \/ Refreshers(i) # {}

\* UpdateUser reads the document, merges and writes it back whole; with a
\* single writer this amounts to an atomic merge: fields the request leaves
\* empty keep the value they have at the time of the write.
UpdateIsAtomicMerge ==
  [][\A i \in UserIds : db[i] # NoUser /\ db'[i] # db[i] =>
       \E p \in Procs : LET r == job[p].req IN
         /\ pc[p] = "write" /\ r.op = "update" /\ r.id = i
         /\ db'[i].email = IF r.email = Empty THEN db[i].email ELSE r.email
         /\ db'[i].name = IF r.name = Empty THEN db[i].name ELSE r.name
         /\ db'[i].deleted = db[i].deleted]_vars

\* Users are never removed, and one marked deleted is never written again,
\* whatever update was under way: both queries of UpdateUser filter on it.
DeletedUserFrozen ==
  [][\A i \in UserIds : db[i] # NoUser =>
       /\ db'[i] # NoUser
       /\ db[i].deleted => db'[i] = db[i]]_vars

\* "Shutting down, waiting for consumers to finish": the process that ends in
\* order has no consumer in the middle of a handler, and no delivery it took is
\* left for the broker to deliver again.
ExitIsOrderly ==
  [][up /\ ~up' /\ losses' = losses =>
       /\ \A q \in Queues : pc[q] = "stopped"
       /\ \A n \in MsgIds : status[n] # "unacked"]_vars

\* Every published message is answered in the end, unless the service is shut
\* down, dies or loses its connection first.
EveryMessageSettled ==
  \A n \in MsgIds :
    status[n] = "ready" ~>
      (status[n] \in {"acked", "dropped"} \/ ~up \/ ~connected \/ cancelled)

\* After a signal the process ends, also when its connection is lost and its
\* consumers spin on closed channels.
ShutdownTerminates == (up /\ cancelled) ~> ~up

(* What the service promises the gateway, who sees neither its goroutines nor *)
(* its stores. *)

\* Where the broker has a message, as the ledger counts it.
Place == [unsent |-> "unsent", ready |-> "waiting", unacked |-> "taken",
          acked |-> "done", dropped |-> "discarded"]

Ledger == INSTANCE MessageLedger
            WITH Messages <- MsgIds, Effects <- UserIds,
                 place <- [n \in MsgIds |-> Place[status[n]]], effect <- applied

\* Three consumers, their handlers, the shutdown, crashes, lost connections and
\* leftover deliveries together implement the ledger: in particular no message
\* has an effect once it is answered, and none is given up while it waits.
ImplementsLedger == Ledger!Spec

(* What the code's own comments and messages say of it. *)

\* "DeleteUserById marks a user as deleted by ID": if no call failed, the user
\* it found is marked when it returns.
DeleteMarksUser ==
  \A p \in Procs :
    pc[p] = "end" /\ job[p].req # NoRequest /\ job[p].req.op = "delete"
      /\ job[p].user # NoUser /\ job[p].err \notin {"ctx", "mongo"}
      => db[job[p].req.id].deleted

=============================================================================
