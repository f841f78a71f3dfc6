------------------------------- MODULE Gateway -------------------------------
(***************************************************************************)
(* The GATEWAY's user handlers with everything a request meets on its way: *)
(* the checks over gRPC, the queue, the three services that consume that   *)
(* queue side by side, the collection of users, and the read by which the  *)
(* handler answers without knowing what became of its message.             *)
(*                                                                         *)
(* A step of a handler is one call to another service.  The USERS service  *)
(* is here what UsersService shows it to be towards its queues: it applies *)
(* a message in one write (UpdateIsAtomicMerge), acknowledges it after     *)
(* that (AckMeansDone), and repeats it only after a loss (RepeatsBounded). *)
(***************************************************************************)
EXTENDS Naturals, Sequences, FiniteSets

CONSTANTS
  Emails, Usernames,  \* non-empty values of the two fields that should be unique
  Empty,              \* the empty string
  NoUser,             \* no document, no user in an answer
  NoRequest,          \* no request
  InitialUser,        \* the user that is in the collection at the start
  Requests,           \* what the HTTP clients ask for
  Handlers,           \* HTTP handler goroutines
  Rivals,             \* the services that consume the queues beside USERS
  MaxMessages,        \* bound: messages published
  MaxUsers,           \* bound: users in the collection
  MaxFaults,          \* bound: failed calls
  MaxLosses           \* bound: crashes of USERS and restarts of the broker

Queues  == {"create", "update", "delete"}
MsgIds  == 1 .. MaxMessages
UserIds == 1 .. MaxUsers

User == [email : Emails, username : Usernames]

RegisterReq == [op : {"create"}, email : Emails, username : Usernames]
UpdateReq   == [op : {"update"}, id : UserIds, email : Emails \cup {Empty},
                username : Usernames \cup {Empty}]
DeleteReq   == [op : {"delete"}, id : UserIds]
Request     == RegisterReq \cup UpdateReq \cup DeleteReq

ASSUME GatewayAssumption ==
  /\ Emails \cap Usernames = {} /\ Empty \notin Emails \cup Usernames
  /\ NoUser \notin User \cup UserIds
  /\ NoRequest \notin Request
  /\ InitialUser \in User /\ Requests \subseteq Request
  /\ Rivals \subseteq {"GATEWAY", "DEVICES"}
  /\ MaxMessages \in Nat /\ MaxUsers \in Nat \ {0}
  /\ MaxFaults \in Nat /\ MaxLosses \in Nat

VARIABLES
  users,      \* the users collection
  queue,      \* queue -> the messages that wait in it
  body,       \* message -> the request in it
  sent,       \* messages published so far
  held,       \* queue -> the message the USERS consumer works on, or 0
  written,    \* queues whose USERS consumer has written and not acknowledged
  devicesUp,  \* the DEVICES process is running
  severed,    \* the broker has been restarted: the connections to it are closed
  pc,         \* handler -> the call it makes next
  job,        \* handler -> its local variables
  faults,     \* failed calls so far
  losses,     \* crashes and restarts so far
  \* History, read by no guard:
  born,       \* message -> the users inserted while handling it
  excused     \* values for which a named race or failure may break uniqueness

broker == <<queue, body, sent, severed>>
service == <<held, written>>
local  == <<pc, job>>
vars   == <<users, broker, service, devicesUp, local, faults, losses, born, excused>>

-----------------------------------------------------------------------------
Steps   == {"idle", "checkEmail", "checkName", "publish", "wait", "readBack", "answered"}
Answers == {"none", "created", "ok", "conflict", "error", "timeout"}

Job   == [req : Request \cup {NoRequest}, msg : MsgIds \cup {0}, answer : Answers,
          user : UserIds \cup {NoUser}]
NoJob == [req |-> NoRequest, msg |-> 0, answer |-> "none", user |-> NoUser]

TypeOK ==
  /\ users \in [UserIds -> User \cup {NoUser}]
  /\ queue \in [Queues -> Seq(MsgIds)]
  /\ body \in [MsgIds -> Request \cup {NoRequest}]
  /\ sent \in 0 .. MaxMessages
  /\ held \in [Queues -> MsgIds \cup {0}] /\ written \subseteq Queues
  /\ devicesUp \in BOOLEAN /\ severed \in BOOLEAN
  /\ pc \in [Handlers -> Steps] /\ job \in [Handlers -> Job]
  /\ faults \in 0 .. MaxFaults /\ losses \in 0 .. MaxLosses
  /\ born \in [MsgIds -> SUBSET UserIds]
  /\ excused \subseteq Emails \cup Usernames

Init ==
  /\ users = [i \in UserIds |-> IF i = 1 THEN InitialUser ELSE NoUser]
  /\ queue = [q \in Queues |-> <<>>]
  /\ body = [n \in MsgIds |-> NoRequest] /\ sent = 0
  /\ held = [q \in Queues |-> 0] /\ written = {}
  /\ devicesUp = TRUE /\ severed = FALSE
  /\ pc = [h \in Handlers |-> "idle"] /\ job = [h \in Handlers |-> NoJob]
  /\ faults = 0 /\ losses = 0
  /\ born = [n \in MsgIds |-> {}] /\ excused = {}

-----------------------------------------------------------------------------
(* Helpers *)

Goto(h, step) == pc' = [pc EXCEPT ![h] = step]

\* The handler writes its HTTP response.
Answer(h, kind, i) ==
  /\ Goto(h, "answered")
  /\ job' = [job EXCEPT ![h].answer = kind, ![h].user = i]

CallFails ==
  /\ faults < MaxFaults
  /\ faults' = faults + 1

\* Users with the value v, an e-mail or a username.
Owners(v) == {i \in UserIds : users[i] # NoUser /\ v \in {users[i].email, users[i].username}}

\* The values a request sets.
Sets(r) == IF r.op \in {"create", "update"} THEN {r.email, r.username} \ {Empty} ELSE {}

\* Messages that are still to be handled.
InFlight == {n \in MsgIds : \E q \in Queues :
               held[q] = n \/ \E k \in 1 .. Len(queue[q]) : queue[q][k] = n}

\* Registrations that have found the value v free and are not answered.
Past(v) ==
  {h \in Handlers : /\ job[h].req # NoRequest /\ job[h].req.op = "create"
                    /\ \/ v = job[h].req.email /\ pc[h] = "checkName"
                       \/ v \in Sets(job[h].req) /\ pc[h] \in {"publish", "wait", "readBack"}}

\* Somebody else is on the way to take the value v.
Claimed(v) == Past(v) # {} \/ \E n \in InFlight : v \in Sets(body[n])

-----------------------------------------------------------------------------
(* The HTTP handlers *)

Entry == [create |-> "checkEmail", update |-> "publish", delete |-> "publish"]

\* Bound: a message is left for every handler that may publish.
Room == sent + Cardinality({h \in Handlers : pc[h] \in {"checkEmail", "checkName", "publish"}})
          < MaxMessages

\* A request comes in and binds.
Ask(h) ==
  /\ pc[h] = "idle"
  /\ Room
  /\ \E r \in Requests : /\ Goto(h, Entry[r.op])
                         /\ job' = [job EXCEPT ![h] = [NoJob EXCEPT !.req = r]]
  /\ UNCHANGED <<users, broker, service, devicesUp, faults, losses, born, excused>>

\* A registration or an update whose body does not bind, or an update whose path has
\* no ObjectID: it is answered at once.  A deletion is not looked at.
Refuse(h) ==
  /\ pc[h] = "idle"
  /\ \E r \in Requests : r.op \in {"create", "update"}
  /\ Answer(h, "error", NoUser)
  /\ UNCHANGED <<users, broker, service, devicesUp, faults, losses, born, excused>>

\* A registration that looks for its username only.
TakenName(r, step) == step = "checkName" /\ Owners(r.username) # {}

\* checkIfUserExists: GetByEmail, then GetByUsername.
Taken(r, step) == Owners(IF step = "checkEmail" THEN r.email ELSE r.username) # {}

AfterCheck == [checkEmail |-> "checkName", checkName |-> "publish"]

\* The error of either call is discarded, and the value counts as free.
Check(h) ==
  LET r == job[h].req
      v == IF pc[h] = "checkEmail" THEN r.email ELSE r.username
  IN
  /\ pc[h] \in {"checkEmail", "checkName"}
  /\ \/ /\ Taken(r, pc[h])
        /\ Answer(h, "conflict", NoUser)
        /\ UNCHANGED <<faults, excused>>
     \/ /\ ~Taken(r, pc[h])
        /\ Goto(h, AfterCheck[pc[h]])
        /\ excused' = IF Claimed(v) THEN excused \cup {v} ELSE excused
        /\ UNCHANGED <<job, faults>>
     \/ /\ CallFails
        /\ Goto(h, AfterCheck[pc[h]])
        /\ excused' = excused \cup {v}
        /\ UNCHANGED job
  /\ UNCHANGED <<users, broker, service, devicesUp, losses, born>>

AfterPublish == [create |-> "wait", update |-> "readBack", delete |-> "readBack"]

\* On a closed channel every publication fails; the gateway never dials again.
PublishFails == IF severed THEN UNCHANGED faults ELSE CallFails

\* PublishToQueue.  There are no publisher confirms: a message may be lost
\* without an error, and only a registration looks at the error.  An update sets
\* what it is told to, without a check.
Publish(h) ==
  LET r == job[h].req
      n == sent + 1
  IN
  /\ pc[h] = "publish"
  /\ \/ /\ ~severed
        /\ sent' = n
        /\ body' = [body EXCEPT ![n] = r]
        /\ queue' = [queue EXCEPT ![r.op] = Append(@, n)]
        /\ job' = [job EXCEPT ![h].msg = n]
        /\ Goto(h, AfterPublish[r.op])
        /\ excused' = IF r.op = "update" THEN excused \cup Sets(r) ELSE excused
        /\ UNCHANGED faults
     \/ /\ PublishFails
        /\ Goto(h, AfterPublish[r.op])
        /\ UNCHANGED <<queue, body, sent, job, excused>>
     \/ /\ PublishFails
        /\ r.op = "create"
        /\ Answer(h, "error", NoUser)
        /\ UNCHANGED <<queue, body, sent, excused>>
  /\ UNCHANGED <<users, service, devicesUp, severed, losses, born>>

\* A registration that waits for the reply it asked for.
ReplyCame(h) == job[h].msg # 0 /\ born[job[h].msg] # {}

\* The five seconds pass, whatever the consumers do.
TimePasses(h) == TRUE

\* Both timers have expired when the goroutine gets to run late; the select then
\* takes either.
Wait(h) ==
  /\ pc[h] = "wait" /\ TimePasses(h)
  /\ \/ Goto(h, "readBack") /\ UNCHANGED job
     \/ Answer(h, "timeout", NoUser)
  /\ UNCHANGED <<users, broker, service, devicesUp, faults, losses, born, excused>>

\* GetByEmail of a registration, GetById of an update or a deletion.
Found(r) ==
  CASE r.op = "create" -> Owners(r.email)
    [] r.op \in {"update", "delete"} -> {i \in UserIds : i = r.id /\ users[i] # NoUser}

ReadBack(h) ==
  LET r == job[h].req IN
  /\ pc[h] = "readBack"
  /\ \/ /\ \E i \in Found(r) : Answer(h, IF r.op = "create" THEN "created" ELSE "ok", i)
        /\ UNCHANGED faults
     \/ /\ Found(r) = {}
        /\ Answer(h, "error", NoUser)
        /\ UNCHANGED faults
     \/ CallFails /\ Answer(h, "error", NoUser)
  /\ UNCHANGED <<users, broker, service, devicesUp, losses, born, excused>>

Finish(h) ==
  /\ pc[h] = "answered"
  /\ Goto(h, "idle")
  /\ job' = [job EXCEPT ![h] = NoJob]
  /\ UNCHANGED <<users, broker, service, devicesUp, faults, losses, born, excused>>

-----------------------------------------------------------------------------
(* The consumers *)

UsersTake(q) ==
  /\ held[q] = 0 /\ queue[q] # <<>>
  /\ held' = [held EXCEPT ![q] = Head(queue[q])]
  /\ queue' = [queue EXCEPT ![q] = Tail(@)]
  /\ UNCHANGED <<users, body, sent, severed, written, devicesUp, local, faults, losses, born, excused>>

\* Update without the len(..) > 0 guards.
MergeAll(u, r) == [email |-> r.email, username |-> r.username]

\* User.Update: a non-empty field of the request replaces the user's.
Merge(u, r) ==
  [email    |-> IF r.email # Empty THEN r.email ELSE u.email,
   username |-> IF r.username # Empty THEN r.username ELSE u.username]

\* What an update changes; one that changes nothing is an error.
Changes(r) == users[r.id] # NoUser /\ Merge(users[r.id], r) # users[r.id]

\* The write of RegisterUser or UpdateUser.  ObjectIDs are numbered in the order
\* of the insertions.
Write(n, r) ==
  \/ /\ r.op = "create"
     /\ \E i \in UserIds :
          /\ users[i] = NoUser /\ \A j \in 1 .. i - 1 : users[j] # NoUser
          /\ users' = [users EXCEPT ![i] = [email |-> r.email, username |-> r.username]]
          /\ born' = [born EXCEPT ![n] = @ \cup {i}]
  \/ /\ r.op = "update" /\ Changes(r)
     /\ users' = [users EXCEPT ![r.id] = Merge(@, r)]
     /\ UNCHANGED born

\* DeleteUserById always fails, an update that changes nothing too.
Refused(r) == r.op = "delete" \/ (r.op = "update" /\ ~Changes(r))

\* The handler for the message, which Nack(false, false) discards on an error.
UsersHandle(q) ==
  LET n == held[q]
      r == body[n]
      Nack == held' = [held EXCEPT ![q] = 0] /\ UNCHANGED written
  IN
  /\ n # 0 /\ q \notin written
  /\ \/ /\ Write(n, r)
        /\ written' = written \cup {q}
        /\ UNCHANGED <<held, faults>>
     \/ /\ Refused(r)
        /\ Nack
        /\ UNCHANGED <<users, born, faults>>
     \/ /\ CallFails
        /\ Write(n, r) \/ UNCHANGED <<users, born>>
        /\ Nack
  /\ UNCHANGED <<broker, devicesUp, local, losses, excused>>

UsersAck(q) ==
  /\ q \in written
  /\ held' = [held EXCEPT ![q] = 0]
  /\ written' = written \ {q}
  /\ UNCHANGED <<users, broker, devicesUp, local, faults, losses, born, excused>>

\* The USERS process dies and is started again; the broker puts what it had back
\* where it was, and a registration already written will be written once more.
\* After a restart of the broker there is nobody to put anything back.
UsersCrash ==
  /\ losses < MaxLosses
  /\ losses' = losses + 1
  /\ queue' = [q \in Queues |-> IF severed THEN <<>>
                               ELSE IF held[q] = 0 THEN queue[q]
                               ELSE <<held[q]>> \o queue[q]]
  /\ held' = [q \in Queues |-> 0]
  /\ written' = {}
  /\ excused' = IF severed THEN excused
                           ELSE excused \cup UNION {Sets(body[held[q]]) : q \in written}
  /\ UNCHANGED <<users, body, sent, severed, devicesUp, local, faults, born>>

\* What may be left of a queue: some of its messages, in their order.
Increasing(k, n) ==
  {f \in [1 .. k -> 1 .. n] : \A i, j \in 1 .. k : i < j => f[i] < f[j]}
Remains(s) ==
  UNION {{[i \in 1 .. k |-> s[f[i]]] : f \in Increasing(k, Len(s))} : k \in 0 .. Len(s)}

\* The broker is restarted.  The queues are durable and the messages are not: all
\* that is left of a queue is what the AMQP library of USERS has received of it.
BrokerRestart ==
  /\ ~severed /\ losses < MaxLosses
  /\ losses' = losses + 1
  /\ severed' = TRUE
  /\ \E left \in [Queues -> UNION {Remains(queue[q]) : q \in Queues}] :
       /\ \A q \in Queues : left[q] \in Remains(queue[q])
       /\ queue' = left
  /\ UNCHANGED <<users, body, sent, service, devicesUp, local, faults, born, excused>>

\* The DEVICES service consumes the same queues.  It takes a registration for a
\* device and stores one without a name, it fails on an update, whose id it does
\* not read; either way the message is gone.  On a deletion it panics: the
\* process ends and the message goes back.
DevicesTake(q) ==
  /\ "DEVICES" \in Rivals /\ devicesUp /\ ~severed /\ queue[q] # <<>>
  /\ devicesUp' = (q # "delete")
  /\ queue' = IF q = "delete" THEN queue ELSE [queue EXCEPT ![q] = Tail(@)]
  /\ UNCHANGED <<users, body, sent, severed, service, local, faults, losses, born, excused>>

DevicesRestart ==
  /\ ~devicesUp
  /\ devicesUp' = TRUE
  /\ UNCHANGED <<users, broker, service, local, faults, losses, born, excused>>

\* The gateway itself consumes them with auto-ack, and reads no delivery.
Swallow(q) ==
  /\ "GATEWAY" \in Rivals /\ ~severed /\ queue[q] # <<>>
  /\ queue' = [queue EXCEPT ![q] = Tail(@)]
  /\ UNCHANGED <<users, body, sent, severed, service, devicesUp, local, faults, losses, born,
                 excused>>

-----------------------------------------------------------------------------
Serve(h)   == Check(h) \/ Publish(h) \/ Wait(h) \/ ReadBack(h) \/ Finish(h)
Consume(q) == UsersTake(q) \/ UsersHandle(q) \/ UsersAck(q)

Next ==
  \/ \E h \in Handlers : Ask(h) \/ Refuse(h) \/ Serve(h)
  \/ \E q \in Queues : Consume(q) \/ DevicesTake(q) \/ Swallow(q)
  \/ UsersCrash \/ BrokerRestart \/ DevicesRestart

Spec == Init /\ [][Next]_vars

\* gRPC calls return and timers expire.  Nothing is assumed of the consumers, of
\* the clients, of faults and crashes.
Fairness == \A h \in Handlers : WF_vars(Serve(h))

FairSpec == Spec /\ Fairness

-----------------------------------------------------------------------------
(* Properties *)

\* Two users share an e-mail or a username only after one of four things: a
\* registration that found the value free while another one, or an update, was on
\* the way to it; a check that failed and counted as "free"; an update, which
\* checks nothing; a registration that USERS had to handle twice.  In particular
\* the rivals for the queue and lost messages never cause it.
DuplicateHasCause ==
  \A v \in Emails \cup Usernames : Cardinality(Owners(v)) > 1 => v \in excused

\* A registration answered with a user is answered with the user that its own
\* message inserted, although the handler only looks for the e-mail again, unless
\* one of those four things happened to that e-mail.
CreatedIsOwn ==
  \A h \in Handlers :
    pc[h] = "answered" /\ job[h].answer = "created" =>
      \/ job[h].msg # 0 /\ job[h].user \in born[job[h].msg]
      \/ job[h].req.email \in excused

\* Every HTTP request is answered, whatever becomes of its message: no consumer
\* needs to take it.
EveryRequestAnswered ==
  \A h \in Handlers : pc[h] \notin {"idle", "answered"} ~> pc[h] = "answered"

(* What the gateway says of it. *)

\* "user with email %s already exists": users do not share an e-mail, when no call
\* fails and nobody updates one.
EmailsUnique ==
  \A e \in Emails : Cardinality(Owners(e)) <= 1

=============================================================================
