-------------------------- MODULE UsersLedgerProofs --------------------------
(***************************************************************************)
(* The proof that UsersService implements MessageLedger: a step of the     *)
(* service is a step of the ledger on one message, a return of all that    *)
(* the consumers had, or none.                                             *)
(***************************************************************************)
EXTENDS UsersServiceProofs

place == [n \in MsgIds |-> Place[status[n]]]

\* What a consumer keeps of a lost connection waits with the broker for the next.
LeftoverWaits ==
  /\ \A n \in buffered : status[n] = "ready"
  /\ ~connected => \A q \in Queues : Working(q) /\ job[q].msg # 0 =>
                     status[job[q].msg] = "ready"

\* The status of one message decides its place, and is decided by it.
LEMMA PlaceOf ==
  ASSUME TypeInv, NEW n \in MsgIds
  PROVE  /\ place[n] = Place[status[n]]
         /\ place[n] = "unsent" <=> status[n] = "unsent"
         /\ place[n] = "waiting" <=> status[n] = "ready"
         /\ place[n] = "taken" <=> status[n] = "unacked"
<1>1. status[n] \in Status
  BY DEF TypeInv, TypeOK
<1> QED
  BY <1>1 DEF place, Place, Status

\* A change of one status is a move of one message.
LEMMA PlaceMoves ==
  ASSUME TypeInv, NEW n \in MsgIds, NEW s \in Status, status' = [status EXCEPT ![n] = s]
  PROVE  place' = [place EXCEPT ![n] = Place[s]]
<1>1. status \in [MsgIds -> Status] /\ MsgIds' = MsgIds /\ Place' = Place
  BY DEF TypeInv, TypeOK, MsgIds, Place
<1>2. place' = [m \in MsgIds |-> Place[status'[m]]]
  BY <1>1 DEF place
<1>3. \A m \in MsgIds : status'[m] = IF m = n THEN s ELSE status[m]
  BY <1>1
<1>4. place' = [m \in MsgIds |-> IF m = n THEN Place[s] ELSE Place[status[m]]]
  BY <1>2, <1>3
<1>5. [place EXCEPT ![n] = Place[s]] = [m \in MsgIds |-> IF m = n THEN Place[s] ELSE Place[status[m]]]
  BY DEF place
<1> QED
  BY <1>4, <1>5

LEMMA PlaceStays ==
  ASSUME status' = status PROVE place' = place
BY DEF place, Place, MsgIds

LEMMA LeftoverInit == Init => LeftoverWaits
BY DEF Init, LeftoverWaits

\* The broker, the connection and the message of every consumer stay as they are.
LEMMA LeftoverQuiet ==
  ASSUME TypeInv, LeftoverWaits, UNCHANGED <<status, connected>>, buffered' \subseteq buffered,
         \A q \in Queues : Working(q)' => \/ Working(q) /\ job'[q].msg = job[q].msg
                                        \/ job'[q].msg = 0
  PROVE  LeftoverWaits'
BY DEF LeftoverWaits, Queues

LEMMA LeftoverStep ==
  ASSUME TypeInv, DeliveryInv, LeftoverWaits, [Next]_vars PROVE LeftoverWaits'
<1>1. ASSUME NEW p \in Procs, Handle(p) PROVE LeftoverWaits'
  <2>1. UNCHANGED broker /\ UNCHANGED life /\ Moves(p)
    BY <1>1, HandleShape
  <2>2. pc[p] \notin {"idle", "stopped"}
    BY <1>1 DEF Handle, CheckContext, InsertOne, FindOne, UpdateOne, DeleteOne, CacheSet,
                CacheGet, At
  <2>3. \A q \in Queues : Working(q)' => Working(q) /\ job'[q].msg = job[q].msg
    BY <2>1, <2>2 DEF Moves, Working, Procs
  <2> QED
    BY <2>1, <2>3, LeftoverQuiet DEF broker, life
<1>2. ASSUME NEW q \in Queues, Take(q) \/ (Settle(q) /\ connected) PROVE LeftoverWaits'
  <2>1. connected' /\ buffered' = {}
    BY <1>2 DEF Take, Settle, life, DeliveryInv, LifeOK
  <2> QED
    BY <2>1 DEF LeftoverWaits
<1>3. ASSUME NEW q \in Queues, TakeBuffered(q) PROVE LeftoverWaits'
  <2>1. PICK n \in Buffered(q) : buffered' = buffered \ {n} /\ Start(q, n, body[n])
    BY <1>3 DEF TakeBuffered
  <2>2. job'[q].msg = n /\ \A o \in Queues \ {q} : job'[o] = job[o] /\ pc'[o] = pc[o]
    BY <2>1 DEF Start, Goto, TypeInv, TypeOK, Procs, NoJob
  <2>3. UNCHANGED <<status, connected>> /\ status[n] = "ready"
    BY <1>3, <2>1 DEF TakeBuffered, Buffered, LeftoverWaits, life
  <2> QED
    BY <2>1, <2>2, <2>3 DEF LeftoverWaits, Working
<1>4. ASSUME NEW q \in Queues, TakeEmpty(q) \/ (Settle(q) /\ ~connected) \/ Stop(q)
      PROVE  LeftoverWaits'
  <2>1. UNCHANGED <<status, connected>> /\ buffered' \subseteq buffered
    BY <1>4 DEF TakeEmpty, Settle, Stop, life, broker
  <2>2. \A o \in Queues \ {q} : job'[o] = job[o] /\ pc'[o] = pc[o]
    BY <1>4 DEF TakeEmpty, Settle, Stop, Fail, Goto, TypeInv, TypeOK, Procs
  <2>3. Working(q)' => job'[q].msg = 0
    BY <1>4 DEF TakeEmpty, Settle, Stop, Fail, Goto, At, Working, TypeInv, TypeOK, Procs,
                DeliveryInv, IdleOK, Job
  <2> QED
    BY <2>1, <2>2, <2>3, LeftoverQuiet DEF Working
<1>5. ASSUME NEW c \in Clients, Call(c) \/ Reply(c) PROVE LeftoverWaits'
  <2>1. UNCHANGED <<status, connected, buffered>>
    BY <1>5 DEF Call, Reply, broker, life
  <2>2. \A q \in Queues : pc'[q] = pc[q] /\ job'[q] = job[q]
    BY <1>5, UsersAssumption DEF Call, Reply, Start, Goto, TypeInv, TypeOK, Procs
  <2> QED
    BY <2>1, <2>2, LeftoverQuiet DEF Working
<1>6. CASE Signal \/ UNCHANGED vars \/ \E i \in UserIds : Expire(i)
  <2>1. UNCHANGED <<status, connected, buffered, pc, job>>
    BY <1>6 DEF Signal, Expire, vars, broker, life, local
  <2> QED
    BY <2>1, LeftoverQuiet DEF Working
<1>7. CASE Vanish
  <2>1. buffered' = {} /\ \A q \in Queues : ~Working(q)'
    BY <1>7 DEF Vanish, Working, Procs
  <2> QED
    BY <2>1 DEF LeftoverWaits
<1>8. CASE Disconnect
  <2>1. /\ \A n \in MsgIds : status'[n] = IF status[n] = "unacked" THEN "ready" ELSE status[n]
        /\ buffered' = {n \in MsgIds : status[n] = "ready"}
        /\ connected /\ UNCHANGED <<pc, job>>
    BY <1>8 DEF Disconnect, Requeue, local
  <2>2. ASSUME NEW q \in Queues, Working(q), job[q].msg # 0
        PROVE  job[q].msg \in MsgIds /\ status[job[q].msg] = "unacked"
    BY <2>1, <2>2 DEF DeliveryInv, HoldsOK, TypeInv, TypeOK, Job, Procs
  <2> QED
    BY <2>1, <2>2 DEF LeftoverWaits, Working
<1>9. CASE Restart
  <2>1. connected' /\ buffered' = {}
    BY <1>9 DEF Restart, broker, DeliveryInv, LifeOK
  <2> QED
    BY <2>1 DEF LeftoverWaits
<1>10. CASE Publish
  <2>1. PICK n \in MsgIds : status' = [status EXCEPT ![n] = "ready"]
    BY <1>10 DEF Publish
  <2>2. \A m \in MsgIds : status[m] = "ready" => status'[m] = "ready"
    BY <2>1 DEF TypeInv, TypeOK
  <2>3. UNCHANGED <<connected, buffered, pc, job>>
    BY <1>10 DEF Publish, life, local
  <2>4. \A q \in Queues : job[q].msg # 0 => job[q].msg \in MsgIds
    BY DEF TypeInv, TypeOK, Job, Procs
  <2>5. buffered \subseteq MsgIds
    BY DEF TypeInv, TypeOK
  <2> QED
    BY <2>2, <2>3, <2>4, <2>5 DEF LeftoverWaits, Working
<1> QED
  BY <1>1, <1>2, <1>3, <1>4, <1>5, <1>6, <1>7, <1>8, <1>9, <1>10
  DEF Next, Consume, Serve, Crash, Exit, Procs

\* Requeue returns what the consumers had.
LEMMA RequeueReturns ==
  ASSUME TypeInv, Requeue, applied' = applied PROVE Ledger!Return
<1>1. place' = [m \in MsgIds |-> Place[status'[m]]]
  BY DEF place, Place, MsgIds
<1>2. \A m \in MsgIds : status'[m] = IF status[m] = "unacked" THEN "ready" ELSE status[m]
  BY DEF Requeue
<1>3. \A m \in MsgIds : Place[status'[m]] = IF place[m] = "taken" THEN "waiting" ELSE place[m]
  BY <1>2, PlaceOf DEF Place
<1> QED
  BY <1>1, <1>3 DEF Ledger!Return, place

\* A write of a handler is an effect of its message, or repeats one.
LEMMA HandlerDoes ==
  ASSUME TypeInv, DeliveryInv, LeftoverWaits, NEW p \in Procs, Handle(p)
  PROVE  place' = place /\ (Ledger!Next \/ applied' = applied)
<1>1. UNCHANGED <<broker, life, losses>> /\ (p \notin Queues => applied' = applied)
  BY HandleShape
<1>2. place' = place
  BY <1>1, PlaceStays DEF broker
<1>3. ASSUME applied' # applied PROVE Ledger!Next
  <2>1. p \in Queues /\ (InsertOne(p) \/ UpdateOne(p))
    BY <1>1, <1>3 DEF Handle, CheckContext, FindOne, DeleteOne, CacheSet, CacheGet, ghosts
  <2>2. pc[p] \in {"insert", "write"} /\ Busy(p)
    BY <2>1 DEF InsertOne, UpdateOne, At, Busy, Working
  <2>3. /\ job[p].msg \in MsgIds
        /\ status[job[p].msg] \in {"ready", "unacked"}
    <3>1. job[p].msg # 0 /\ job[p] \in Job
      BY <2>1, <2>2 DEF DeliveryInv, BusyOK, TypeInv, TypeOK
    <3>2. job[p].msg \in MsgIds
      BY <3>1 DEF Job
    <3>3. status[job[p].msg] = "unacked" \/ status[job[p].msg] = "ready"
      BY <2>1, <2>2, <3>1 DEF DeliveryInv, HoldsOK, Busy, LeftoverWaits
    <3> QED
      BY <3>2, <3>3
  <2>4. PICK i \in UserIds : applied' = [applied EXCEPT ![job[p].msg] = @ \cup {i}]
    BY <1>3, <2>1, HandleShape DEF Writing, NotWriting
  <2>5. place[job[p].msg] \in {"waiting", "taken"}
    BY <2>3, PlaceOf
  <2> QED
    BY <1>2, <2>3, <2>4, <2>5 DEF Ledger!Next, Ledger!Do, place
<1> QED
  BY <1>2, <1>3

\* Every step of the service is a step of the ledger, or none.
LEMMA LedgerStep ==
  ASSUME TypeInv, DeliveryInv, LeftoverWaits, [Next]_vars PROVE [Ledger!Next]_(Ledger!vars)
<1> SUFFICES Ledger!Next \/ (place' = place /\ applied' = applied)
  BY DEF Ledger!vars, place
<1>1. ASSUME NEW p \in Procs, Handle(p)
      PROVE  Ledger!Next \/ (place' = place /\ applied' = applied)
  BY <1>1, HandlerDoes
<1>2. ASSUME NEW q \in Queues, Take(q) PROVE Ledger!Next
  <2>1. PICK n \in MsgIds : status[n] = "ready" /\ status' = [status EXCEPT ![n] = "unacked"]
    BY <1>2 DEF Take, IsHead
  <2>2. place[n] = "waiting" /\ place' = [place EXCEPT ![n] = "taken"]
    BY <2>1, PlaceOf, PlaceMoves DEF Status, Place
  <2>3. applied' = applied
    BY <1>2 DEF Take, ghosts
  <2> QED
    BY <2>2, <2>3 DEF Ledger!Next, Ledger!Take, Ledger!Move, place
<1>3. ASSUME NEW q \in Queues, Settle(q)
      PROVE  Ledger!Next \/ (place' = place /\ applied' = applied)
  <2>1. applied' = applied /\ pc[q] = "end" /\ job[q] \in Job
    BY <1>3 DEF Settle, ghosts, At, TypeInv, TypeOK, Procs
  <2>2. CASE ~connected \/ job[q].msg = 0
    <3>1. status' = status
      BY <1>3, <2>2 DEF Settle, TypeInv, TypeOK, MsgIds
    <3> QED
      BY <2>1, <3>1, PlaceStays
  <2>3. CASE connected /\ job[q].msg # 0
    <3>1. /\ job[q].msg \in MsgIds
          /\ status' = [status EXCEPT ![job[q].msg] = Answer(job[q].err)]
      BY <1>3, <2>1, <2>3 DEF Settle, Job
    <3>2. status[job[q].msg] = "unacked"
      BY <2>1, <2>3 DEF DeliveryInv, HoldsOK, Working
    <3>3. place[job[q].msg] = "taken"
      BY <3>1, <3>2, PlaceOf
    <3>4. CASE job[q].err = "none"
      <4>1. applied[job[q].msg] # {}
        BY <2>1, <3>4 DEF DeliveryInv, DoneOK
      <4>2. place' = [place EXCEPT ![job[q].msg] = "done"]
        BY <3>1, <3>4, PlaceMoves DEF Answer, Status, Place
      <4> QED
        BY <2>1, <3>1, <3>3, <4>1, <4>2 DEF Ledger!Next, Ledger!Ack, Ledger!Move, place
    <3>5. CASE job[q].err # "none"
      <4>1. place' = [place EXCEPT ![job[q].msg] = "discarded"]
        BY <3>1, <3>5, PlaceMoves DEF Answer, Status, Place
      <4> QED
        BY <2>1, <3>1, <3>3, <4>1 DEF Ledger!Next, Ledger!Drop, Ledger!Move, place
    <3> QED
      BY <3>4, <3>5
  <2> QED
    BY <2>2, <2>3
<1>4. ASSUME NEW q \in Queues, TakeBuffered(q) \/ TakeEmpty(q) \/ Stop(q)
      PROVE  place' = place /\ applied' = applied
  BY <1>4, PlaceStays DEF TakeBuffered, TakeEmpty, Stop, broker, ghosts
<1>5. ASSUME NEW c \in Clients, Call(c) \/ Reply(c) PROVE place' = place /\ applied' = applied
  BY <1>5, PlaceStays DEF Call, Reply, broker, ghosts
<1>6. CASE Signal \/ Restart \/ UNCHANGED vars \/ \E i \in UserIds : Expire(i)
  BY <1>6, PlaceStays DEF Signal, Restart, Expire, vars, broker, ghosts
<1>7. CASE Vanish
  BY <1>7, RequeueReturns DEF Vanish, Ledger!Next
<1>8. CASE Disconnect
  BY <1>8, RequeueReturns DEF Disconnect, ghosts, Ledger!Next
<1>9. CASE Publish
  <2>1. PICK n \in MsgIds : status[n] = "unsent" /\ status' = [status EXCEPT ![n] = "ready"]
    BY <1>9 DEF Publish
  <2>2. place[n] = "unsent" /\ place' = [place EXCEPT ![n] = "waiting"]
    BY <2>1, PlaceOf, PlaceMoves DEF Status, Place
  <2>3. applied' = applied
    BY <1>9 DEF Publish, ghosts
  <2> QED
    BY <2>2, <2>3 DEF Ledger!Next, Ledger!Send, Ledger!Move, place
<1> QED
  BY <1>1, <1>2, <1>3, <1>4, <1>5, <1>6, <1>7, <1>8, <1>9
  DEF Next, Consume, Serve, Crash, Exit, Procs

\* The service implements the ledger: among all interleavings of handlers,
\* failures, lost connections and restarts, none loses a waiting message, none
\* answers one without cause, and none gives an answered one a further effect.
THEOREM LedgerImplemented == Spec => ImplementsLedger
<1>1. Init => Ledger!Init
  BY DEF Init, Ledger!Init, Place
<1>2. TypeInv /\ DeliveryInv /\ LeftoverWaits /\ [Next]_vars => [Ledger!Next]_(Ledger!vars)
  BY LedgerStep
<1> QED
  BY <1>1, <1>2, TypeInit, TypeStep, DeliveryInit, DeliveryStep, LeftoverInit, LeftoverStep, PTL
  DEF Spec, ImplementsLedger, Ledger!Spec

=============================================================================
