---------------------------- MODULE DeviceQueues ----------------------------
(***************************************************************************)
(* The three consumers of DEVICES on the queues that it shares with USERS, *)
(* here with DEVICES alone: the messages are about users, whose fields a   *)
(* device does not have.  A registration creates a device without a name,  *)
(* an update names no device, and a deletion ends the process.             *)
(*                                                                         *)
(* The devices are counted, not described; what is in Mongo and Redis is   *)
(* in DevicesService.                                                      *)
(***************************************************************************)
EXTENDS Integers, FiniteSets

CONSTANTS
  MaxMessages,  \* bound: messages
  MaxFaults,    \* bound: calls to Mongo and Redis that fail
  MaxLosses,    \* bound: losses of the process or the connection, but for
                \* those that deletions bring about
  MaxRestarts   \* bound: restarts of the process

ASSUME DeviceQueuesAssumption ==
  MaxMessages \in Nat /\ MaxFaults \in Nat /\ MaxLosses \in Nat /\ MaxRestarts \in Nat

Queues   == {"create", "update", "delete"}
Messages == 1 .. MaxMessages
None     == 0

VARIABLES
  queue,      \* for each message: the queue it is published to
  status,     \* "unsent", "ready", "unacked", "acked" or "dropped"
  leftover,   \* deliveries of a lost connection that the library still holds
  up, connected, cancelled,
  pc,         \* for each consumer: where in consumeMessages it is
  msg,        \* the message of its delivery
  devices,    \* for each message: how many devices it has inserted
  faults, losses, restarts

broker  == <<queue, status, leftover>>
process == <<up, connected, cancelled>>
local   == <<pc, msg>>
budget  == <<faults, losses, restarts>>
vars    == <<broker, process, local, devices, budget>>

At(q, l) == up /\ pc[q] = l
Goto(q, l) == pc' = [pc EXCEPT ![q] = l]

\* The consumer's types, and what the library may hand over.
TypeOK ==
  /\ queue \in [Messages -> Queues]
  /\ status \in [Messages -> {"unsent", "ready", "unacked", "acked", "dropped"}]
  /\ leftover \subseteq Messages
  /\ up \in BOOLEAN /\ connected \in BOOLEAN /\ cancelled \in BOOLEAN
  /\ connected => up /\ leftover = {}
  /\ pc \in [Queues -> {"select", "insert", "cache", "ack", "nack", "panic", "stopped"}]
  /\ msg \in [Queues -> Messages \cup {None}]
  /\ devices \in [Messages -> 0 .. MaxRestarts + 1]
  /\ faults \in 0 .. MaxFaults /\ losses \in 0 .. MaxLosses /\ restarts \in 0 .. MaxRestarts

Init ==
  /\ queue \in [Messages -> Queues]
  /\ status = [n \in Messages |-> "unsent"] /\ leftover = {}
  /\ up = TRUE /\ connected = TRUE /\ cancelled = FALSE
  /\ pc = [q \in Queues |-> "select"] /\ msg = [q \in Queues |-> None]
  /\ devices = [n \in Messages |-> 0]
  /\ faults = 0 /\ losses = 0 /\ restarts = 0

-----------------------------------------------------------------------------
(* consumeMessages *)

\* A message of the queue that waits longest.
First(q, waiting) ==
  {n \in waiting : queue[n] = q /\ \A m \in waiting : queue[m] = q => n <= m}

Ready == {n \in Messages : status[n] = "ready"}

\* With the handler found by an assertion that fits.
EntryTyped(q) == CASE q = "create" -> "insert" [] OTHER -> "nack"

\* A body is read as a Device or a deletion, of whose fields it has none.  The
\* request of an update then has no id, which is an error; the handler of the
\* deletions is asserted to have another type than it has.
Entry(q) ==
  CASE q = "create" -> "insert" [] q = "update" -> "nack" [] q = "delete" -> "panic"

Begin(q, n) ==
  /\ Goto(q, Entry(q))
  /\ msg' = [msg EXCEPT ![q] = n]

\* The select takes a delivery.
Take(q) ==
  /\ At(q, "select") /\ connected
  /\ \E n \in First(q, Ready) :
       /\ status' = [status EXCEPT ![n] = "unacked"]
       /\ Begin(q, n)
  /\ UNCHANGED <<queue, leftover, process, devices, budget>>

\* Or one that the library has kept beyond the connection.
TakeLeftover(q) ==
  /\ At(q, "select") /\ ~connected
  /\ \E n \in First(q, leftover) :
       /\ leftover' = leftover \ {n}
       /\ Begin(q, n)
  /\ UNCHANGED <<queue, status, process, devices, budget>>

\* After which the channel is closed, and yields deliveries that do not
\* unmarshal and whose Nack goes nowhere.
TakeEmpty(q) ==
  /\ At(q, "select") /\ ~connected
  /\ leftover' = {n \in leftover : queue[n] # q}
  /\ Goto(q, "nack")
  /\ UNCHANGED <<queue, status, process, msg, devices, budget>>

\* A call fails, at the latest because its context is cancelled.
CallFails ==
  \/ cancelled /\ UNCHANGED faults
  \/ faults < MaxFaults /\ faults' = faults + 1

\* CreateDevice inserts; of a failing call nobody knows whether it did.
Insert(q) ==
  LET inserted == [devices EXCEPT ![msg[q]] = @ + 1] IN
  /\ At(q, "insert")
  /\ \/ ~cancelled /\ devices' = inserted /\ Goto(q, "cache") /\ UNCHANGED faults
     \/ CallFails /\ devices' \in {devices, inserted} /\ Goto(q, "nack")
  /\ UNCHANGED <<broker, process, msg, losses, restarts>>

\* StoreDeviceInRedis; that the copy cannot be stored is an error of the creation.
Cache(q) ==
  /\ At(q, "cache")
  /\ \/ ~cancelled /\ Goto(q, "ack") /\ UNCHANGED faults
     \/ CallFails /\ Goto(q, "nack")
  /\ UNCHANGED <<broker, process, msg, devices, losses, restarts>>

\* Forms of Settled that a slip in consumeMessages would give.
Requeued(answer)  == IF answer = "ack" THEN "acked" ELSE "ready"
Forgotten(answer) == IF answer = "ack" THEN "acked" ELSE "unacked"
AlwaysAcked(answer) == "acked"

\* Ack(false) and Nack(false, false).
Settled(answer) == IF answer = "ack" THEN "acked" ELSE "dropped"

\* The answer reaches the broker on the connection of its delivery only.
Settle(q) ==
  /\ up /\ pc[q] \in {"ack", "nack"}
  /\ status' = IF connected /\ msg[q] # None
               THEN [status EXCEPT ![msg[q]] = Settled(pc[q])] ELSE status
  /\ Goto(q, "select")
  /\ msg' = [msg EXCEPT ![q] = None]
  /\ UNCHANGED <<queue, leftover, process, devices, budget>>

\* The select takes ctx.Done().
Stop(q) ==
  /\ At(q, "select") /\ cancelled
  /\ Goto(q, "stopped")
  /\ UNCHANGED <<broker, process, msg, devices, budget>>

-----------------------------------------------------------------------------
(* The process and the broker *)

\* The broker takes back what was not answered.
Return == status' = [n \in Messages |->
                       IF status[n] = "unacked" THEN "ready" ELSE status[n]]

Vanish ==
  /\ up' = FALSE /\ connected' = FALSE /\ cancelled' = FALSE
  /\ pc' = [q \in Queues |-> "select"] /\ msg' = [q \in Queues |-> None]
  /\ leftover' = {}
  /\ Return
  /\ UNCHANGED <<queue, devices, faults, restarts>>

\* A type assertion that fails panics, and no one recovers.
Panic(q) == At(q, "panic") /\ Vanish /\ UNCHANGED losses

Crash ==
  /\ up /\ losses < MaxLosses
  /\ losses' = losses + 1
  /\ Vanish

\* The group counts one goroutine more than there are.
AllOfFour == Cardinality({q \in Queues : pc[q] = "stopped"}) = 4

\* The wait group is back at zero.
AllDone == Cardinality({q \in Queues : pc[q] = "stopped"}) = 3

\* wg.Wait() returns, and so does main.
Exit ==
  /\ up /\ cancelled /\ AllDone
  /\ Vanish
  /\ UNCHANGED losses

Signal ==
  /\ up /\ ~cancelled
  /\ cancelled' = TRUE
  /\ UNCHANGED <<broker, up, connected, local, devices, budget>>

\* The connection breaks; nobody dials again.
Disconnect ==
  /\ up /\ connected /\ losses < MaxLosses
  /\ losses' = losses + 1
  /\ connected' = FALSE
  /\ leftover' = Ready
  /\ Return
  /\ UNCHANGED <<queue, up, cancelled, local, devices, faults, restarts>>

Restart ==
  /\ ~up /\ restarts < MaxRestarts
  /\ restarts' = restarts + 1
  /\ up' = TRUE /\ connected' = TRUE
  /\ UNCHANGED <<broker, cancelled, local, devices, faults, losses>>

\* The gateway publishes, to whichever queue.
Publish(n) ==
  /\ status[n] = "unsent"
  /\ \A m \in Messages : m < n => status[m] # "unsent"
  /\ status' = [status EXCEPT ![n] = "ready"]
  /\ UNCHANGED <<queue, leftover, process, local, devices, budget>>

Consume(q) ==
  \/ Take(q) \/ TakeLeftover(q) \/ TakeEmpty(q)
  \/ Insert(q) \/ Cache(q) \/ Settle(q) \/ Panic(q)

Next ==
  \/ \E q \in Queues : Consume(q) \/ Stop(q)
  \/ \E n \in Messages : Publish(n)
  \/ Crash \/ Exit \/ Signal \/ Disconnect \/ Restart

Spec == Init /\ [][Next]_vars

\* As in UsersService: goroutines run, calls return, and a select that comes
\* back often enough takes the cancellation.
Fairness ==
  /\ \A q \in Queues : WF_vars(Consume(q)) /\ SF_vars(Stop(q))
  /\ WF_vars(Exit)

FairSpec == Spec /\ Fairness

-----------------------------------------------------------------------------
(* Properties *)

\* A registration creates at most one device in the life of a process, although
\* its delivery may be lost and leftover deliveries handled beside it: there are
\* no more devices than processes.  Updates and deletions create none.
DevicesBounded ==
  \A n \in Messages :
    devices[n] <= IF queue[n] = "create" THEN 1 + restarts ELSE 0

\* An acknowledged message has created its device, whatever failed on the way.
AckMeansDevice ==
  \A n \in Messages :
    status[n] = "acked" => queue[n] = "create" /\ devices[n] >= 1

\* DEVICES alone never gets rid of a deletion: every process that takes it ends,
\* and leaves it to the next.
DeletionStays ==
  \A n \in Messages : queue[n] = "delete" => status[n] \notin {"acked", "dropped"}

\* Every other message is settled, unless the process ends, loses its connection
\* or is told to stop first.
OthersSettled ==
  \A n \in Messages :
    status[n] = "ready" /\ queue[n] # "delete" ~>
      (status[n] \in {"acked", "dropped"} \/ ~up \/ ~connected \/ cancelled)

\* A signal ends the process, also when the connection is lost.
StopsOnSignal == (up /\ cancelled) ~> ~up

\* The consumers implement the ledger, as those of USERS do.
Place == [unsent |-> "unsent", ready |-> "waiting", unacked |-> "taken",
          acked |-> "done", dropped |-> "discarded"]

Ledger == INSTANCE MessageLedger
            WITH Effects <- 1 .. MaxRestarts + 1,
                 place <- [n \in Messages |-> Place[status[n]]],
                 effect <- [n \in Messages |-> 1 .. devices[n]]

ImplementsLedger == Ledger!Spec

=============================================================================
