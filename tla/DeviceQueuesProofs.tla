------------------------- MODULE DeviceQueuesProofs -------------------------
(***************************************************************************)
(* Theorems about DeviceQueues, for any number of messages, failed calls,  *)
(* losses and restarts.  They rest on one inductive invariant, Inv, which  *)
(* says what a consumer knows of the delivery that it holds, and which     *)
(* messages the running process may still make a device of.                *)
(***************************************************************************)
EXTENDS DeviceQueues, TLAPS

-----------------------------------------------------------------------------
(* The invariant *)

Status == {"unsent", "ready", "unacked", "acked", "dropped"}
PCs    == {"select", "insert", "cache", "ack", "nack", "panic", "stopped"}

Typed ==
  /\ queue \in [Messages -> Queues]
  /\ status \in [Messages -> Status]
  /\ leftover \subseteq Messages
  /\ up \in BOOLEAN /\ connected \in BOOLEAN /\ cancelled \in BOOLEAN
  /\ connected => up /\ leftover = {}
  /\ pc \in [Queues -> PCs]
  /\ msg \in [Queues -> Messages \cup {None}]
  /\ devices \in [Messages -> Nat]
  /\ faults \in 0 .. MaxFaults /\ losses \in 0 .. MaxLosses /\ restarts \in 0 .. MaxRestarts

\* Where a consumer is tells whether it holds a delivery, and of which queue.
PlaceFits(q) ==
  /\ pc[q] \in {"select", "stopped"} => msg[q] = None
  /\ pc[q] \in {"insert", "cache", "ack"} => msg[q] # None /\ q = "create"
  /\ q = "delete" /\ msg[q] # None => pc[q] = "panic"
  /\ pc[q] \in {"cache", "ack"} => devices[msg[q]] >= 1
  /\ ~up => pc[q] = "select"

\* What the broker makes of a delivery that is held: it is unanswered, or waits for
\* another process because the connection is lost.
HeldFits(q) ==
  msg[q] # None =>
    /\ queue[msg[q]] = q
    /\ msg[q] \notin leftover
    /\ connected => status[msg[q]] = "unacked"
    /\ ~connected => status[msg[q]] = "ready"

\* The library keeps deliveries while the process runs, and they wait meanwhile.
LeftoverWaits ==
  /\ \A n \in leftover : status[n] = "ready"
  /\ ~up => leftover = {}

\* The running process may still insert a device for the message.
MayInsert(n) ==
  \/ connected /\ status[n] \in {"unsent", "ready"}
  \/ n \in leftover
  \/ pc["create"] = "insert" /\ msg["create"] = n

\* One device for each process before this one, and one for this one unless it
\* may still insert it.
Counted(n) ==
  /\ devices[n] <= restarts + 1
  /\ MayInsert(n) => devices[n] <= restarts
  /\ queue[n] # "create" => devices[n] = 0

Inv ==
  /\ Typed
  /\ \A q \in Queues : PlaceFits(q)
  /\ \A q \in Queues : HeldFits(q)
  /\ LeftoverWaits
  /\ \A n \in Messages : Counted(n)
  /\ AckMeansDevice
  /\ DeletionStays

-----------------------------------------------------------------------------
(* It holds at the start, and every action keeps it. *)

LEMMA MessagesArePositive == Messages \subseteq Nat /\ None \notin Messages
BY DeviceQueuesAssumption DEF Messages, None

LEMMA InvInit == Init => Inv
<1> SUFFICES ASSUME Init PROVE Inv
  OBVIOUS
<1>1. Typed
  <2>1. faults \in 0 .. MaxFaults /\ losses \in 0 .. MaxLosses /\ restarts \in 0 .. MaxRestarts
    BY DeviceQueuesAssumption DEF Init
  <2>2. up \in BOOLEAN /\ connected \in BOOLEAN /\ cancelled \in BOOLEAN
    BY DEF Init
  <2>3. /\ queue \in [Messages -> Queues] /\ status \in [Messages -> Status]
        /\ leftover = {} /\ up
        /\ pc \in [Queues -> PCs] /\ msg \in [Queues -> Messages \cup {None}]
        /\ devices \in [Messages -> Nat]
    BY DEF Init, Status, PCs
  <2> QED
    BY <2>1, <2>2, <2>3 DEF Typed
<1>2. (\A q \in Queues : PlaceFits(q)) /\ (\A q \in Queues : HeldFits(q)) /\ LeftoverWaits
  BY DEF Init, PlaceFits, HeldFits, LeftoverWaits, Queues
<1>3. \A n \in Messages : Counted(n)
  BY DEF Init, Counted, MayInsert, Queues
<1>4. AckMeansDevice /\ DeletionStays
  BY DEF Init, AckMeansDevice, DeletionStays
<1> QED
  BY <1>1, <1>2, <1>3, <1>4 DEF Inv

\* Two consumers never hold the same delivery.
LEMMA HeldOnce ==
  ASSUME Inv, NEW q \in Queues, NEW p \in Queues, msg[q] = msg[p], msg[q] # None
  PROVE  q = p
BY DEF Inv, HeldFits

LEMMA TakeKeeps == ASSUME Inv, NEW q \in Queues, Take(q) PROVE Inv'
<1>1. PICK n \in Messages :
        /\ status[n] = "ready" /\ queue[n] = q
        /\ status' = [status EXCEPT ![n] = "unacked"]
        /\ pc' = [pc EXCEPT ![q] = Entry(q)]
        /\ msg' = [msg EXCEPT ![q] = n]
  BY DEF Take, First, Ready, Begin, Goto
<1>2. /\ up /\ connected /\ pc[q] = "select" /\ leftover = {}
      /\ UNCHANGED <<queue, leftover, up, connected, cancelled, devices, faults, losses, restarts>>
  BY DEF Take, At, process, budget, Inv, Typed
<1>3. /\ Entry(q) \in {"insert", "nack", "panic"}
      /\ Entry(q) = "insert" <=> q = "create"
      /\ q = "delete" => Entry(q) = "panic"
  BY DEF Entry, Queues
<1>4. n # None
  BY MessagesArePositive
<1>5. Typed'
  BY <1>1, <1>2, <1>3 DEF Inv, Typed, Status, PCs
<1>6. \A p \in Queues : PlaceFits(p)'
  BY <1>1, <1>2, <1>3, <1>4 DEF Inv, Typed, PlaceFits
<1>7. \A p \in Queues : HeldFits(p)'
  BY <1>1, <1>2, <1>4 DEF Inv, Typed, HeldFits
<1>8. LeftoverWaits'
  BY <1>2 DEF LeftoverWaits
<1>9. \A m \in Messages : Counted(m)'
  BY <1>1, <1>2, <1>3 DEF Inv, Typed, Counted, MayInsert, Queues
<1>10. AckMeansDevice' /\ DeletionStays'
  BY <1>1, <1>2 DEF Inv, Typed, AckMeansDevice, DeletionStays
<1> QED
  BY <1>5, <1>6, <1>7, <1>8, <1>9, <1>10 DEF Inv

LEMMA TakeLeftoverKeeps == ASSUME Inv, NEW q \in Queues, TakeLeftover(q) PROVE Inv'
<1>1. PICK n \in leftover :
        /\ queue[n] = q
        /\ leftover' = leftover \ {n}
        /\ pc' = [pc EXCEPT ![q] = Entry(q)]
        /\ msg' = [msg EXCEPT ![q] = n]
  BY DEF TakeLeftover, First, Begin, Goto
<1>2. /\ up /\ ~connected /\ pc[q] = "select"
      /\ UNCHANGED <<queue, status, up, connected, cancelled, devices, faults, losses, restarts>>
  BY DEF TakeLeftover, At, process, budget
<1>3. /\ Entry(q) \in {"insert", "nack", "panic"}
      /\ Entry(q) = "insert" <=> q = "create"
      /\ q = "delete" => Entry(q) = "panic"
  BY DEF Entry, Queues
<1>4. n \in Messages /\ n # None /\ status[n] = "ready"
  BY <1>1, MessagesArePositive DEF Inv, Typed, LeftoverWaits
<1>5. Typed'
  BY <1>1, <1>2, <1>3, <1>4 DEF Inv, Typed, Status, PCs
<1>6. \A p \in Queues : PlaceFits(p)'
  BY <1>1, <1>2, <1>3, <1>4 DEF Inv, Typed, PlaceFits
<1>7. \A p \in Queues : HeldFits(p)'
  BY <1>1, <1>2, <1>4 DEF Inv, Typed, HeldFits
<1>8. LeftoverWaits'
  BY <1>1, <1>2 DEF Inv, LeftoverWaits
<1>9. \A m \in Messages : Counted(m)'
  BY <1>1, <1>2, <1>3 DEF Inv, Typed, Counted, MayInsert, Queues
<1>10. AckMeansDevice' /\ DeletionStays'
  BY <1>2 DEF Inv, AckMeansDevice, DeletionStays
<1> QED
  BY <1>5, <1>6, <1>7, <1>8, <1>9, <1>10 DEF Inv

LEMMA TakeEmptyKeeps == ASSUME Inv, NEW q \in Queues, TakeEmpty(q) PROVE Inv'
<1>1. /\ up /\ ~connected /\ pc[q] = "select"
      /\ leftover' \subseteq leftover
      /\ pc' = [pc EXCEPT ![q] = "nack"]
      /\ UNCHANGED <<queue, status, msg, up, connected, cancelled, devices, faults, losses, restarts>>
  BY DEF TakeEmpty, Goto, At, process, budget
<1>2. msg[q] = None
  BY <1>1 DEF Inv, PlaceFits
<1>3. Typed'
  BY <1>1 DEF Inv, Typed, Status, PCs
<1>4. \A p \in Queues : PlaceFits(p)'
  BY <1>1, <1>2 DEF Inv, Typed, PlaceFits
<1>5. (\A p \in Queues : HeldFits(p)') /\ LeftoverWaits'
  BY <1>1 DEF Inv, HeldFits, LeftoverWaits
<1>6. \A m \in Messages : Counted(m)'
  BY <1>1 DEF Inv, Typed, Counted, MayInsert, Queues
<1>7. AckMeansDevice' /\ DeletionStays'
  BY <1>1 DEF Inv, AckMeansDevice, DeletionStays
<1> QED
  BY <1>3, <1>4, <1>5, <1>6, <1>7 DEF Inv

LEMMA InsertKeeps == ASSUME Inv, NEW q \in Queues, Insert(q) PROVE Inv'
<1>0. PICK n : n = msg[q]
  OBVIOUS
<1>1. /\ up /\ pc[q] = "insert"
      /\ \/ devices' = [devices EXCEPT ![n] = @ + 1] /\ pc' = [pc EXCEPT ![q] = "cache"]
         \/ /\ devices' \in {devices, [devices EXCEPT ![n] = @ + 1]}
            /\ pc' = [pc EXCEPT ![q] = "nack"]
      /\ faults' \in 0 .. MaxFaults
      /\ UNCHANGED <<queue, status, leftover, msg, up, connected, cancelled, losses, restarts>>
  BY <1>0, DeviceQueuesAssumption
  DEF Insert, Goto, At, broker, process, CallFails, Inv, Typed
<1>2. n \in Messages /\ q = "create" /\ queue[n] = "create" /\ n \notin leftover
  BY <1>0, <1>1 DEF Inv, Typed, PlaceFits, HeldFits
<1>3. MayInsert(n) /\ devices[n] \in Nat /\ devices[n] <= restarts
  BY <1>0, <1>1, <1>2 DEF Inv, Typed, Counted, MayInsert
<1>4. ~MayInsert(n)'
  BY <1>0, <1>1, <1>2, MessagesArePositive DEF Inv, Typed, HeldFits, MayInsert
<1>5. /\ devices' \in [Messages -> Nat]
      /\ devices'[n] \in {devices[n], devices[n] + 1}
      /\ \A m \in Messages : m # n => devices'[m] = devices[m]
      /\ pc'[q] = "cache" => devices'[n] = devices[n] + 1
  BY <1>1, <1>2, <1>3 DEF Inv, Typed
<1>6. Typed'
  BY <1>1, <1>5 DEF Inv, Typed, PCs
<1>7. \A p \in Queues : PlaceFits(p)'
  BY <1>0, <1>1, <1>2, <1>3, <1>5 DEF Inv, Typed, PlaceFits
<1>8. (\A p \in Queues : HeldFits(p)') /\ LeftoverWaits'
  BY <1>1 DEF Inv, HeldFits, LeftoverWaits
<1>9. \A m \in Messages : Counted(m)'
  <2>1. Counted(n)'
    BY <1>1, <1>2, <1>3, <1>4, <1>5 DEF Inv, Typed, Counted
  <2>2. ASSUME NEW m \in Messages, m # n PROVE Counted(m)'
    BY <1>0, <1>1, <1>2, <1>5, <2>2 DEF Inv, Typed, Counted, MayInsert
  <2> QED
    BY <2>1, <2>2
<1>10. AckMeansDevice' /\ DeletionStays'
  BY <1>1, <1>3, <1>5 DEF Inv, AckMeansDevice, DeletionStays
<1> QED
  BY <1>6, <1>7, <1>8, <1>9, <1>10 DEF Inv

LEMMA CacheKeeps == ASSUME Inv, NEW q \in Queues, Cache(q) PROVE Inv'
<1>1. /\ up /\ pc[q] = "cache"
      /\ \E l \in {"ack", "nack"} : pc' = [pc EXCEPT ![q] = l]
      /\ faults' \in 0 .. MaxFaults
      /\ UNCHANGED <<queue, status, leftover, msg, up, connected, cancelled, devices, losses, restarts>>
  BY DeviceQueuesAssumption
  DEF Cache, Goto, At, broker, process, CallFails, Inv, Typed
<1>2. Typed'
  BY <1>1 DEF Inv, Typed, PCs
<1>3. \A p \in Queues : PlaceFits(p)'
  BY <1>1 DEF Inv, Typed, PlaceFits
<1>4. (\A p \in Queues : HeldFits(p)') /\ LeftoverWaits'
  BY <1>1 DEF Inv, HeldFits, LeftoverWaits
<1>5. \A m \in Messages : Counted(m)'
  BY <1>1 DEF Inv, Typed, Counted, MayInsert, Queues
<1>6. AckMeansDevice' /\ DeletionStays'
  BY <1>1 DEF Inv, AckMeansDevice, DeletionStays
<1> QED
  BY <1>2, <1>3, <1>4, <1>5, <1>6 DEF Inv

\* The one action that settles.
LEMMA SettleKeeps == ASSUME Inv, NEW q \in Queues, Settle(q) PROVE Inv'
<1>1. /\ up /\ pc[q] \in {"ack", "nack"}
      /\ pc' = [pc EXCEPT ![q] = "select"] /\ msg' = [msg EXCEPT ![q] = None]
      /\ UNCHANGED <<queue, leftover, up, connected, cancelled, devices, faults, losses, restarts>>
  BY DEF Settle, Goto, process, budget
<1>2. /\ status' \in [Messages -> Status]
      /\ ~connected => status' = status
      /\ \A m \in Messages : m # msg[q] => status'[m] = status[m]
      /\ \A m \in Messages : m = msg[q] /\ connected =>
           status'[m] = IF pc[q] = "ack" THEN "acked" ELSE "dropped"
  BY MessagesArePositive DEF Settle, Settled, Inv, Typed, Status
<1>3. Typed'
  BY <1>1, <1>2 DEF Inv, Typed, PCs
<1>4. \A p \in Queues : PlaceFits(p)'
  BY <1>1 DEF Inv, Typed, PlaceFits
<1>5. \A p \in Queues : HeldFits(p)'
  BY <1>1, <1>2, HeldOnce DEF Inv, Typed, HeldFits
<1>6. LeftoverWaits'
  BY <1>1, <1>2 DEF Inv, Typed, LeftoverWaits
<1>7. \A m \in Messages : Counted(m)'
  BY <1>1, <1>2 DEF Inv, Typed, Counted, MayInsert, Queues
<1>8. AckMeansDevice'
  BY <1>1, <1>2 DEF Inv, Typed, AckMeansDevice, PlaceFits, HeldFits
<1>9. DeletionStays'
  BY <1>1, <1>2, MessagesArePositive DEF Inv, Typed, DeletionStays, PlaceFits, HeldFits
<1> QED
  BY <1>3, <1>4, <1>5, <1>6, <1>7, <1>8, <1>9 DEF Inv

LEMMA StopKeeps == ASSUME Inv, NEW q \in Queues, Stop(q) PROVE Inv'
<1>1. /\ up /\ pc[q] = "select" /\ pc' = [pc EXCEPT ![q] = "stopped"]
      /\ UNCHANGED <<queue, status, leftover, msg, up, connected, cancelled, devices, faults,
                     losses, restarts>>
  BY DEF Stop, Goto, At, broker, process, budget
<1>2. Typed'
  BY <1>1 DEF Inv, Typed, PCs
<1>3. \A p \in Queues : PlaceFits(p)'
  BY <1>1 DEF Inv, Typed, PlaceFits
<1>4. (\A p \in Queues : HeldFits(p)') /\ LeftoverWaits'
  BY <1>1 DEF Inv, HeldFits, LeftoverWaits
<1>5. \A m \in Messages : Counted(m)'
  BY <1>1 DEF Inv, Typed, Counted, MayInsert, Queues
<1>6. AckMeansDevice' /\ DeletionStays'
  BY <1>1 DEF Inv, AckMeansDevice, DeletionStays
<1> QED
  BY <1>2, <1>3, <1>4, <1>5, <1>6 DEF Inv

\* The end of the process, by whatever cause.
LEMMA VanishKeeps ==
  ASSUME Inv, Vanish, losses' \in 0 .. MaxLosses PROVE Inv'
<1>1. /\ up' = FALSE /\ connected' = FALSE /\ cancelled' = FALSE /\ leftover' = {}
      /\ pc' = [p \in Queues |-> "select"] /\ msg' = [p \in Queues |-> None]
      /\ UNCHANGED <<queue, devices, faults, restarts>>
  BY DEF Vanish
<1>2. /\ status' \in [Messages -> Status]
      /\ \A m \in Messages : status'[m] = IF status[m] = "unacked" THEN "ready" ELSE status[m]
  BY DEF Vanish, Return, Inv, Typed, Status
<1>3. Typed'
  BY <1>1, <1>2 DEF Inv, Typed, PCs
<1>4. (\A p \in Queues : PlaceFits(p)') /\ (\A p \in Queues : HeldFits(p)') /\ LeftoverWaits'
  BY <1>1 DEF PlaceFits, HeldFits, LeftoverWaits
<1>5. \A m \in Messages : Counted(m)'
  BY <1>1 DEF Inv, Counted, MayInsert, Queues
<1>6. AckMeansDevice' /\ DeletionStays'
  BY <1>1, <1>2 DEF Inv, AckMeansDevice, DeletionStays
<1> QED
  BY <1>3, <1>4, <1>5, <1>6 DEF Inv

LEMMA DisconnectKeeps == ASSUME Inv, Disconnect PROVE Inv'
<1>1. /\ up /\ connected /\ connected' = FALSE /\ leftover' = Ready
      /\ losses' \in 0 .. MaxLosses
      /\ UNCHANGED <<queue, up, cancelled, pc, msg, devices, faults, restarts>>
  BY DeviceQueuesAssumption DEF Disconnect, local, Inv, Typed
<1>2. /\ status' \in [Messages -> Status]
      /\ \A m \in Messages : status'[m] = IF status[m] = "unacked" THEN "ready" ELSE status[m]
  BY DEF Disconnect, Return, Inv, Typed, Status
<1>3. Typed'
  BY <1>1, <1>2 DEF Inv, Typed, Ready
<1>4. \A p \in Queues : PlaceFits(p)'
  BY <1>1 DEF Inv, PlaceFits
<1>5. (\A p \in Queues : HeldFits(p)') /\ LeftoverWaits'
  BY <1>1, <1>2 DEF Inv, Typed, HeldFits, LeftoverWaits, Ready
<1>6. \A m \in Messages : Counted(m)'
  BY <1>1 DEF Inv, Typed, Counted, MayInsert, Ready
<1>7. AckMeansDevice' /\ DeletionStays'
  BY <1>1, <1>2 DEF Inv, AckMeansDevice, DeletionStays
<1> QED
  BY <1>3, <1>4, <1>5, <1>6, <1>7 DEF Inv

LEMMA RestartKeeps == ASSUME Inv, Restart PROVE Inv'
<1>1. /\ ~up /\ up' = TRUE /\ connected' = TRUE
      /\ restarts' = restarts + 1 /\ restarts' \in 0 .. MaxRestarts
      /\ UNCHANGED <<queue, status, leftover, cancelled, pc, msg, devices, faults, losses>>
  BY DeviceQueuesAssumption DEF Restart, broker, local, Inv, Typed
<1>2. \A p \in Queues : pc[p] = "select" /\ msg[p] = None
  BY <1>1 DEF Inv, PlaceFits
<1>3. leftover = {}
  BY <1>1 DEF Inv, LeftoverWaits
<1>4. Typed'
  BY <1>1, <1>3 DEF Inv, Typed
<1>5. (\A p \in Queues : PlaceFits(p)') /\ (\A p \in Queues : HeldFits(p)') /\ LeftoverWaits'
  BY <1>1, <1>2, <1>3 DEF PlaceFits, HeldFits, LeftoverWaits
<1>6. \A m \in Messages : Counted(m)'
  BY <1>1, <1>2 DEF Inv, Typed, Counted, MayInsert, Queues
<1>7. AckMeansDevice' /\ DeletionStays'
  BY <1>1 DEF Inv, AckMeansDevice, DeletionStays
<1> QED
  BY <1>4, <1>5, <1>6, <1>7 DEF Inv

LEMMA SignalKeeps == ASSUME Inv, Signal PROVE Inv'
<1>1. /\ up /\ cancelled' = TRUE
      /\ UNCHANGED <<queue, status, leftover, up, connected, pc, msg, devices, faults, losses,
                     restarts>>
  BY DEF Signal, broker, local, budget
<1>2. Typed'
  BY <1>1 DEF Inv, Typed
<1>3. (\A p \in Queues : PlaceFits(p)') /\ (\A p \in Queues : HeldFits(p)') /\ LeftoverWaits'
  BY <1>1 DEF Inv, PlaceFits, HeldFits, LeftoverWaits
<1>4. (\A m \in Messages : Counted(m)') /\ AckMeansDevice' /\ DeletionStays'
  BY <1>1 DEF Inv, Counted, MayInsert, AckMeansDevice, DeletionStays
<1> QED
  BY <1>2, <1>3, <1>4 DEF Inv

LEMMA PublishKeeps == ASSUME Inv, NEW n \in Messages, Publish(n) PROVE Inv'
<1>1. /\ status[n] = "unsent" /\ status' = [status EXCEPT ![n] = "ready"]
      /\ UNCHANGED <<queue, leftover, up, connected, cancelled, pc, msg, devices, faults, losses,
                     restarts>>
  BY DEF Publish, process, local, budget
<1>2. Typed'
  BY <1>1 DEF Inv, Typed, Status
<1>3. \A p \in Queues : PlaceFits(p)'
  BY <1>1 DEF Inv, PlaceFits
<1>4. (\A p \in Queues : HeldFits(p)') /\ LeftoverWaits'
  BY <1>1 DEF Inv, Typed, HeldFits, LeftoverWaits
<1>5. \A m \in Messages : Counted(m)'
  BY <1>1 DEF Inv, Typed, Counted, MayInsert
<1>6. AckMeansDevice' /\ DeletionStays'
  BY <1>1 DEF Inv, Typed, AckMeansDevice, DeletionStays
<1> QED
  BY <1>2, <1>3, <1>4, <1>5, <1>6 DEF Inv

\* The process ends by a panic, a crash or in good order.
LEMMA EndKeeps ==
  ASSUME Inv, (\E q \in Queues : Panic(q)) \/ Crash \/ Exit PROVE Inv'
<1>1. Vanish
  BY DEF Panic, Crash, Exit
<1>2. losses' \in 0 .. MaxLosses
  BY DeviceQueuesAssumption DEF Panic, Crash, Exit, Inv, Typed
<1> QED
  BY <1>1, <1>2, VanishKeeps

LEMMA InvStep == Inv /\ [Next]_vars => Inv'
<1> SUFFICES ASSUME Inv, [Next]_vars PROVE Inv'
  OBVIOUS
<1>1. CASE UNCHANGED vars
  <2>1. /\ UNCHANGED <<queue, status, leftover, up, connected, cancelled, pc, msg>>
        /\ UNCHANGED <<devices, faults, losses, restarts>>
    BY <1>1 DEF vars, broker, process, local, budget
  <2> QED
    BY <2>1 DEF Inv, Typed, PlaceFits, HeldFits, LeftoverWaits, Counted, MayInsert,
                AckMeansDevice, DeletionStays
<1>2. ASSUME NEW q \in Queues, Consume(q) \/ Stop(q) PROVE Inv'
  BY <1>2, TakeKeeps, TakeLeftoverKeeps, TakeEmptyKeeps, InsertKeeps, CacheKeeps, SettleKeeps,
     StopKeeps, EndKeeps DEF Consume
<1>3. ASSUME NEW n \in Messages, Publish(n) PROVE Inv'
  BY <1>3, PublishKeeps
<1>4. CASE Crash \/ Exit
  BY <1>4, EndKeeps
<1>5. CASE Signal \/ Disconnect \/ Restart
  BY <1>5, SignalKeeps, DisconnectKeeps, RestartKeeps
<1> QED
  BY <1>1, <1>2, <1>3, <1>4, <1>5 DEF Next

LEMMA AlwaysInv == Spec => []Inv
BY InvInit, InvStep, PTL DEF Spec

-----------------------------------------------------------------------------
(* The safety properties *)

\* The variables keep their types; for the number of devices that takes the count.
THEOREM TypeCorrect == Spec => []TypeOK
<1>1. ASSUME Inv PROVE TypeOK
  <2>1. devices \in [Messages -> 0 .. MaxRestarts + 1]
    <3>1. \A n \in Messages : devices[n] \in 0 .. MaxRestarts + 1
      BY <1>1, DeviceQueuesAssumption DEF Inv, Typed, Counted
    <3> QED
      BY <1>1, <3>1 DEF Inv, Typed
  <2> QED
    BY <1>1, <2>1 DEF Inv, Typed, TypeOK, Status, PCs
<1> QED
  BY <1>1, AlwaysInv, PTL

\* A registration leaves no more devices than there were processes to handle it,
\* however deliveries are lost, kept and repeated.
THEOREM DevicesAreBounded == Spec => []DevicesBounded
<1>1. ASSUME Inv PROVE DevicesBounded
  BY <1>1 DEF Inv, Typed, Counted, DevicesBounded
<1> QED
  BY <1>1, AlwaysInv, PTL

\* What DEVICES acknowledges has become a device.
THEOREM AckedIsDevice == Spec => []AckMeansDevice
BY AlwaysInv, PTL DEF Inv

\* No deletion is ever settled.
THEOREM DeletionNeverSettled == Spec => []DeletionStays
BY AlwaysInv, PTL DEF Inv

-----------------------------------------------------------------------------
(* The refinement *)

place  == [n \in Messages |-> Place[status[n]]]
effect == [n \in Messages |-> 1 .. devices[n]]

LEMMA PlaceOf ==
  ASSUME Inv, NEW n \in Messages
  PROVE  /\ place[n] = Place[status[n]]
         /\ place[n] = "unsent" <=> status[n] = "unsent"
         /\ place[n] = "waiting" <=> status[n] = "ready"
         /\ place[n] = "taken" <=> status[n] = "unacked"
<1>1. status[n] \in Status
  BY DEF Inv, Typed
<1> QED
  BY <1>1 DEF place, Place, Status

\* A change of one status is a move of one message.
LEMMA PlaceMoves ==
  ASSUME Inv, NEW n \in Messages, NEW s \in Status, status' = [status EXCEPT ![n] = s]
  PROVE  place' = [place EXCEPT ![n] = Place[s]]
<1>1. status \in [Messages -> Status]
  BY DEF Inv, Typed
<1>2. \A m \in Messages : status'[m] = IF m = n THEN s ELSE status[m]
  BY <1>1
<1>3. place' = [m \in Messages |-> IF m = n THEN Place[s] ELSE Place[status[m]]]
  BY <1>2 DEF place, Place, Messages
<1> QED
  BY <1>3 DEF place

LEMMA PlaceStays == status' = status => place' = place
BY DEF place, Place, Messages

LEMMA EffectStays == devices' = devices => effect' = effect
BY DEF effect, Messages

LEMMA LosesReturn ==
  ASSUME Inv, Return, devices' = devices PROVE Ledger!Return
<1>1. \A m \in Messages : status'[m] = IF status[m] = "unacked" THEN "ready" ELSE status[m]
  BY DEF Return
<1>2. \A m \in Messages : Place[status'[m]] = IF place[m] = "taken" THEN "waiting" ELSE place[m]
  BY <1>1, PlaceOf DEF Place
<1>3. place' = [m \in Messages |-> Place[status'[m]]]
  BY DEF place, Place, Messages
<1> QED
  BY <1>2, <1>3, EffectStays DEF Ledger!Return, place, effect

\* The insertion of a device, by a process that has the message or had it last.
LEMMA InsertDoes ==
  ASSUME Inv, NEW q \in Queues, Insert(q), devices' # devices PROVE Ledger!Next
<1> DEFINE n == msg[q]
<1>1. /\ pc[q] = "insert" /\ devices' = [devices EXCEPT ![n] = @ + 1]
      /\ UNCHANGED <<status, restarts>>
  BY DEF Insert, At, broker
<1>2. n \in Messages /\ n # None /\ q = "create"
  BY <1>1 DEF Inv, Typed, PlaceFits
<1>3. status[n] \in {"ready", "unacked"}
  BY <1>2 DEF Inv, Typed, HeldFits
<1>4. devices[n] + 1 \in 1 .. MaxRestarts + 1
  BY <1>1, <1>2, DeviceQueuesAssumption DEF Inv, Typed, Counted, MayInsert
<1>5. devices \in [Messages -> Nat]
  BY DEF Inv, Typed
<1>6. 1 .. (devices[n] + 1) = (1 .. devices[n]) \cup {devices[n] + 1}
  BY <1>2, <1>5
<1>7. effect' = [effect EXCEPT ![n] = @ \cup {devices[n] + 1}]
  <2>1. effect' = [m \in Messages |-> 1 .. devices'[m]]
    BY DEF effect, Messages
  <2>2. \A m \in Messages : 1 .. devices'[m] = IF m = n THEN (1 .. devices[n]) \cup {devices[n] + 1}
                                               ELSE 1 .. devices[m]
    BY <1>1, <1>2, <1>5, <1>6
  <2> QED
    BY <2>1, <2>2 DEF effect
<1>8. place[n] \in {"waiting", "taken"} /\ place' = place
  BY <1>1, <1>2, <1>3, PlaceOf, PlaceStays
<1> QED
  BY <1>2, <1>4, <1>7, <1>8 DEF Ledger!Next, Ledger!Do, place, effect

LEMMA SettleSettles ==
  ASSUME Inv, NEW q \in Queues, Settle(q), status' # status PROVE Ledger!Next
<1> DEFINE n == msg[q]
<1>1. /\ pc[q] \in {"ack", "nack"} /\ connected /\ n # None
      /\ status' = [status EXCEPT ![n] = Settled(pc[q])] /\ devices' = devices
  BY DEF Settle
<1>2. n \in Messages /\ status[n] = "unacked"
  BY <1>1 DEF Inv, Typed, HeldFits
<1>3. place[n] = "taken" /\ effect' = effect
  BY <1>1, <1>2, PlaceOf, EffectStays
<1>4. CASE pc[q] = "ack"
  <2>1. place' = [place EXCEPT ![n] = "done"]
    BY <1>1, <1>2, <1>4, PlaceMoves DEF Settled, Status, Place
  <2>2. 1 \in effect[n]
    BY <1>2, <1>4 DEF Inv, Typed, PlaceFits, effect
  <2> QED
    BY <1>2, <1>3, <2>1, <2>2 DEF Ledger!Next, Ledger!Ack, Ledger!Move, place, effect
<1>5. CASE pc[q] = "nack"
  <2>1. place' = [place EXCEPT ![n] = "discarded"]
    BY <1>1, <1>2, <1>5, PlaceMoves DEF Settled, Status, Place
  <2> QED
    BY <1>2, <1>3, <2>1 DEF Ledger!Next, Ledger!Drop, Ledger!Move, place, effect
<1> QED
  BY <1>1, <1>4, <1>5

LEMMA LedgerStep == Inv /\ [Next]_vars => [Ledger!Next]_(Ledger!vars)
<1> SUFFICES ASSUME Inv, [Next]_vars
             PROVE  Ledger!Next \/ (place' = place /\ effect' = effect)
  BY DEF Ledger!vars, place, effect
<1>1. CASE status' = status /\ devices' = devices
  BY <1>1, PlaceStays, EffectStays
<1>2. ASSUME NEW q \in Queues, Take(q) PROVE Ledger!Next
  <2>1. PICK n \in Messages : status[n] = "ready" /\ status' = [status EXCEPT ![n] = "unacked"]
    BY <1>2 DEF Take, First, Ready
  <2>2. place[n] = "waiting" /\ place' = [place EXCEPT ![n] = "taken"]
    BY <2>1, PlaceOf, PlaceMoves DEF Status, Place
  <2>3. effect' = effect
    BY <1>2, EffectStays DEF Take
  <2> QED
    BY <2>2, <2>3 DEF Ledger!Next, Ledger!Take, Ledger!Move, place, effect
<1>3. ASSUME NEW n \in Messages, Publish(n) PROVE Ledger!Next
  <2>1. place[n] = "unsent" /\ place' = [place EXCEPT ![n] = "waiting"]
    BY <1>3, PlaceOf, PlaceMoves DEF Publish, Status, Place
  <2>2. effect' = effect
    BY <1>3, EffectStays DEF Publish
  <2> QED
    BY <2>1, <2>2 DEF Ledger!Next, Ledger!Send, Ledger!Move, place, effect
<1>4. ASSUME NEW q \in Queues, Insert(q)
      PROVE  Ledger!Next \/ (place' = place /\ effect' = effect)
  BY <1>4, InsertDoes, PlaceStays, EffectStays DEF Insert, broker
<1>5. ASSUME NEW q \in Queues, Settle(q)
      PROVE  Ledger!Next \/ (place' = place /\ effect' = effect)
  BY <1>5, SettleSettles, PlaceStays, EffectStays DEF Settle
<1>6. CASE Vanish \/ Disconnect
  BY <1>6, LosesReturn DEF Vanish, Disconnect, Ledger!Next
<1>7. ASSUME NEW q \in Queues,
             TakeLeftover(q) \/ TakeEmpty(q) \/ Cache(q) \/ Stop(q)
      PROVE  status' = status /\ devices' = devices
  BY <1>7 DEF TakeLeftover, TakeEmpty, Cache, Stop, broker
<1>8. Signal \/ Restart \/ UNCHANGED vars => status' = status /\ devices' = devices
  BY DEF Signal, Restart, vars, broker
<1>9. (\E q \in Queues : Panic(q)) \/ Crash \/ Exit => Vanish
  BY DEF Panic, Crash, Exit
<1> QED
  BY <1>1, <1>2, <1>3, <1>4, <1>5, <1>6, <1>7, <1>8, <1>9 DEF Next, Consume

\* DEVICES keeps to the ledger as USERS does, although what it makes of the
\* messages is not what was meant.
THEOREM LedgerImplemented == Spec => ImplementsLedger
<1>1. Init => Ledger!Init
  BY DEF Init, Ledger!Init, Place
<1> QED
  BY <1>1, AlwaysInv, LedgerStep, PTL DEF Spec, ImplementsLedger, Ledger!Spec

=============================================================================
