---------------------------- MODULE GatewayProofs ----------------------------
(***************************************************************************)
(* Proofs about Gateway, for any number of handlers, messages, users,      *)
(* failed calls and losses.                                                *)
(***************************************************************************)
EXTENDS Gateway, FiniteSetTheorems, SequenceTheorems, TLAPS

-----------------------------------------------------------------------------
(* Queues *)

Elems(s)    == {s[k] : k \in 1 .. Len(s)}
NoRepeat(s) == \A i, j \in 1 .. Len(s) : s[i] = s[j] => i = j

LEMMA ElemsType == ASSUME NEW S, NEW s \in Seq(S) PROVE Elems(s) \subseteq S
BY ElementOfSeq DEF Elems

LEMMA EmptyQueue == /\ Elems(<<>>) = {} /\ NoRepeat(<<>>)
BY DEF Elems, NoRepeat

LEMMA AppendQueue ==
  ASSUME NEW S, NEW s \in Seq(S), NEW n \in S
  PROVE  /\ Append(s, n) \in Seq(S)
         /\ Elems(Append(s, n)) = Elems(s) \cup {n}
         /\ NoRepeat(s) /\ n \notin Elems(s) => NoRepeat(Append(s, n))
<1>1. /\ Append(s, n) \in Seq(S) /\ Len(s) \in Nat /\ Len(Append(s, n)) = Len(s) + 1
      /\ \A k \in 1 .. Len(s) : Append(s, n)[k] = s[k]
      /\ Append(s, n)[Len(s) + 1] = n
  OBVIOUS
<1>2. \A k \in 1 .. Len(s) + 1 : k \in 1 .. Len(s) \/ k = Len(s) + 1
  BY <1>1
<1>3. Elems(Append(s, n)) = Elems(s) \cup {n}
  <2>1. Elems(Append(s, n)) \subseteq Elems(s) \cup {n}
    BY <1>1, <1>2 DEF Elems
  <2>2. Elems(s) \subseteq Elems(Append(s, n))
    BY <1>1 DEF Elems
  <2>3. n \in Elems(Append(s, n))
    <3>1. Len(s) + 1 \in 1 .. Len(Append(s, n))
      BY <1>1
    <3> QED
      BY <1>1, <3>1 DEF Elems
  <2> QED
    BY <2>1, <2>2, <2>3
<1>4. ASSUME NoRepeat(s), n \notin Elems(s) PROVE NoRepeat(Append(s, n))
  <2>1. \A k \in 1 .. Len(s) : s[k] # n
    BY <1>4 DEF Elems
  <2> QED
    BY <1>1, <1>2, <1>4, <2>1 DEF NoRepeat
<1> QED
  BY <1>1, <1>3, <1>4

LEMMA TakeQueue ==
  ASSUME NEW S, NEW s \in Seq(S), s # <<>>
  PROVE  /\ Head(s) \in Elems(s) /\ Tail(s) \in Seq(S)
         /\ Elems(s) = Elems(Tail(s)) \cup {Head(s)}
         /\ NoRepeat(s) => NoRepeat(Tail(s)) /\ Head(s) \notin Elems(Tail(s))
<1>1. /\ Head(s) \in S /\ Tail(s) \in Seq(S) /\ Len(Tail(s)) = Len(s) - 1 /\ Head(s) = s[1]
      /\ \A i \in 1 .. Len(Tail(s)) : Tail(s)[i] = s[i + 1]
  BY HeadTailProperties
<1>2. Len(s) \in Nat \ {0}
  BY EmptySeq
<1>3. 1 \in 1 .. Len(s) /\ \A i \in 1 .. Len(Tail(s)) : i + 1 \in 1 .. Len(s)
  BY <1>1, <1>2
<1>4. Head(s) \in Elems(s) /\ Elems(Tail(s)) \subseteq Elems(s)
  BY <1>1, <1>3 DEF Elems
<1>5. Elems(s) \subseteq Elems(Tail(s)) \cup {Head(s)}
  <2> SUFFICES ASSUME NEW k \in 1 .. Len(s) PROVE s[k] \in Elems(Tail(s)) \cup {Head(s)}
    BY DEF Elems
  <2>1. CASE k = 1
    BY <1>1, <2>1
  <2>2. CASE k # 1
    <3>1. k - 1 \in 1 .. Len(Tail(s)) /\ (k - 1) + 1 = k
      BY <1>1, <1>2, <2>2
    <3>2. Tail(s)[k - 1] = s[k]
      BY <1>1, <3>1
    <3> QED
      BY <3>1, <3>2 DEF Elems
  <2> QED
    BY <2>1, <2>2
<1>6. ASSUME NoRepeat(s) PROVE NoRepeat(Tail(s)) /\ Head(s) \notin Elems(Tail(s))
  <2>1. \A i, j \in 1 .. Len(Tail(s)) : Tail(s)[i] = Tail(s)[j] => i = j
    BY <1>1, <1>2, <1>3, <1>6 DEF NoRepeat
  <2>2. \A i \in 1 .. Len(Tail(s)) : Tail(s)[i] # Head(s)
    BY <1>1, <1>2, <1>3, <1>6 DEF NoRepeat
  <2> QED
    BY <2>1, <2>2 DEF NoRepeat, Elems
<1> QED
  BY <1>1, <1>4, <1>5, <1>6

LEMMA RequeueQueue ==
  ASSUME NEW S, NEW s \in Seq(S), NEW n \in S
  PROVE  /\ <<n>> \o s \in Seq(S)
         /\ Elems(<<n>> \o s) = Elems(s) \cup {n}
         /\ NoRepeat(s) /\ n \notin Elems(s) => NoRepeat(<<n>> \o s)
<1> DEFINE t == <<n>> \o s
<1>1. /\ t \in Seq(S) /\ Len(s) \in Nat /\ Len(t) = 1 + Len(s)
      /\ \A k \in 1 .. 1 + Len(s) : t[k] = IF k <= 1 THEN n ELSE s[k - 1]
  <2>1. <<n>> \in Seq(S) /\ Len(<<n>>) = 1 /\ <<n>>[1] = n /\ Len(s) \in Nat
    OBVIOUS
  <2>2. /\ t \in Seq(S) /\ Len(t) = 1 + Len(s)
        /\ \A k \in 1 .. 1 + Len(s) : t[k] = IF k <= 1 THEN <<n>>[k] ELSE s[k - 1]
    BY <2>1, ConcatProperties
  <2>3. ASSUME NEW k \in 1 .. 1 + Len(s)
        PROVE  t[k] = IF k <= 1 THEN n ELSE s[k - 1]
    <3> HIDE DEF t
    <3>1. k <= 1 => k = 1
      BY <2>1
    <3>2. t[k] = IF k <= 1 THEN <<n>>[k] ELSE s[k - 1]
      BY <2>2
    <3>3. k <= 1 => <<n>>[k] = n
      BY <2>1, <3>1
    <3> QED
      BY <3>2, <3>3
  <2> QED
    BY <2>1, <2>2, <2>3
<1> HIDE DEF t
<1>2. t[1] = n /\ 1 \in 1 .. Len(t)
      /\ \A k \in 1 .. Len(s) : k + 1 \in 1 .. Len(t) /\ t[k + 1] = s[k]
  BY <1>1
<1>3. \A k \in 1 .. Len(t) : k = 1 \/ (k - 1 \in 1 .. Len(s) /\ t[k] = s[k - 1])
  BY <1>1
<1>4. Elems(t) = Elems(s) \cup {n}
  <2>1. ASSUME NEW k \in 1 .. Len(t) PROVE t[k] \in Elems(s) \cup {n}
    <3>1. CASE k = 1
      BY <1>2, <3>1
    <3>2. CASE k - 1 \in 1 .. Len(s) /\ t[k] = s[k - 1]
      BY <3>2 DEF Elems
    <3> QED
      BY <1>3, <3>1, <3>2
  <2>2. Elems(s) \subseteq Elems(t) /\ n \in Elems(t)
    BY <1>2 DEF Elems
  <2>3. Elems(t) \subseteq Elems(s) \cup {n}
    BY <2>1 DEF Elems
  <2> QED
    BY <2>2, <2>3
<1>5. ASSUME NoRepeat(s), n \notin Elems(s) PROVE NoRepeat(t)
  <2>1. \A k \in 1 .. Len(s) : s[k] # n
    BY <1>5 DEF Elems
  <2> SUFFICES ASSUME NEW i \in 1 .. Len(t), NEW j \in 1 .. Len(t), t[i] = t[j] PROVE i = j
    BY DEF NoRepeat
  <2>2. CASE i = 1 \/ j = 1
    BY <1>2, <1>3, <2>1, <2>2
  <2>3. CASE i # 1 /\ j # 1
    <3>1. i - 1 = j - 1
      BY <1>3, <1>5, <2>3 DEF NoRepeat
    <3> QED
      BY <1>1, <3>1
  <2> QED
    BY <2>2, <2>3
<1> QED
  BY <1>1, <1>4, <1>5 DEF t

LEMMA RemainsQueue ==
  ASSUME NEW S, NEW s \in Seq(S), NEW t \in Remains(s)
  PROVE  /\ t \in Seq(S) /\ Elems(t) \subseteq Elems(s)
         /\ NoRepeat(s) => NoRepeat(t)
<1>1. PICK k \in 0 .. Len(s) : \E f \in Increasing(k, Len(s)) : t = [i \in 1 .. k |-> s[f[i]]]
  BY DEF Remains
<1>2. PICK f \in [1 .. k -> 1 .. Len(s)] : /\ \A i, j \in 1 .. k : i < j => f[i] < f[j]
                                           /\ t = [i \in 1 .. k |-> s[f[i]]]
  BY <1>1 DEF Increasing
<1>3. k \in Nat /\ \A i \in 1 .. k : s[f[i]] \in S
  BY <1>1, <1>2, ElementOfSeq
<1>4. t \in [1 .. k -> S]
  BY <1>2, <1>3
<1>5. t \in Seq(S) /\ Len(t) = k
  BY <1>3, <1>4, SeqDef
<1>6. Elems(t) \subseteq Elems(s)
  BY <1>2, <1>5 DEF Elems
<1>7. ASSUME NoRepeat(s) PROVE NoRepeat(t)
  <2>1. \A i, j \in 1 .. k : t[i] = t[j] => f[i] = f[j]
    BY <1>2, <1>7 DEF NoRepeat
  <2>2. \A i, j \in 1 .. k : f[i] = f[j] => i = j
    <3> SUFFICES ASSUME NEW i \in 1 .. k, NEW j \in 1 .. k, f[i] = f[j], i # j PROVE FALSE
      OBVIOUS
    <3>1. f[i] \in Int /\ (i < j \/ j < i)
      BY <1>2
    <3>2. f[i] < f[j] \/ f[j] < f[i]
      BY <1>2, <3>1
    <3> QED
      BY <3>1, <3>2
  <2> QED
    BY <1>5, <2>1, <2>2 DEF NoRepeat
<1> QED
  BY <1>5, <1>6, <1>7

-----------------------------------------------------------------------------
(* The type invariant: what the handlers, the queues and the consumers may   *)
(* hold, and that a message is left for every handler that may publish.      *)

PublishSteps == {"checkEmail", "checkName", "publish"}
Publishing   == {h \in Handlers : pc[h] \in PublishSteps}

\* The request of a handler by the step it is at.
Fits(step, j) ==
  /\ step \notin {"idle", "answered"} => j.req \in Request
  /\ step \in {"checkEmail", "checkName", "wait"} => j.req \in RegisterReq
  /\ step = "answered" /\ j.answer = "created" => j.req \in RegisterReq

JobsFit == \A h \in Handlers : Fits(pc[h], job[h])

\* A message m of queue q, with the bodies B, t messages sent and the values X
\* excused.
MessageFits(m, q, B, t, X) ==
  /\ m <= t /\ B[m] \in Request /\ B[m].op = q
  /\ q = "update" => Sets(B[m]) \subseteq X

\* The queue q holds s, and its consumer in USERS works on n: no message is twice
\* on its way.
QueueFits(q, s, n, B, t, X) ==
  /\ NoRepeat(s) /\ n \notin Elems(s)
  /\ \A m \in Elems(s) \cup ({n} \ {0}) : MessageFits(m, q, B, t, X)

QueuesFit   == \A q \in Queues : QueueFits(q, queue[q], held[q], body, sent, excused)
WrittenHeld == \A q \in written : held[q] # 0
RoomLeft    == IsFiniteSet(Publishing) /\ sent + Cardinality(Publishing) <= MaxMessages

TypeInv == TypeOK /\ JobsFit /\ QueuesFit /\ WrittenHeld /\ RoomLeft

LEMMA RequestKinds ==
  ASSUME NEW r \in Request
  PROVE  /\ r.op \in {"create", "update", "delete"}
         /\ r.op = "create" <=> r \in RegisterReq
         /\ r.op = "update" <=> r \in UpdateReq
         /\ r.op = "delete" <=> r \in DeleteReq
BY DEF Request, RegisterReq, UpdateReq, DeleteReq

LEMMA RegisterSets ==
  ASSUME NEW r \in RegisterReq
  PROVE  /\ r \in Request /\ r.op = "create" /\ r # NoRequest
         /\ r.email \in Emails /\ r.username \in Usernames
         /\ Sets(r) = {r.email, r.username}
BY GatewayAssumption DEF Request, RegisterReq, Sets

LEMMA UpdateSets ==
  ASSUME NEW r \in UpdateReq
  PROVE  /\ r \in Request /\ r.op = "update" /\ r # NoRequest /\ r.id \in UserIds
         /\ r.email \in Emails \cup {Empty} /\ r.username \in Usernames \cup {Empty}
         /\ Sets(r) = {r.email, r.username} \ {Empty}
BY GatewayAssumption DEF Request, UpdateReq, Sets

LEMMA SetsAreValues ==
  ASSUME NEW r \in Request PROVE Sets(r) \subseteq Emails \cup Usernames
<1>1. CASE r.op = "create"
  BY <1>1, RequestKinds, RegisterSets
<1>2. CASE r.op = "update"
  BY <1>2, RequestKinds, UpdateSets
<1>3. CASE r.op \notin {"create", "update"}
  BY <1>3 DEF Sets
<1> QED
  BY <1>1, <1>2, <1>3

LEMMA ZeroIsNoMessage == 0 \notin MsgIds
BY DEF MsgIds

LEMMA InitTypeInv == Init => TypeInv
<1> SUFFICES ASSUME Init PROVE TypeInv
  OBVIOUS
<1>1. <<>> \in Seq(MsgIds) /\ NoJob \in Job
  BY DEF NoJob, Job, Answers
<1>2. TypeOK
  <2>1. users \in [UserIds -> User \cup {NoUser}]
    BY GatewayAssumption DEF Init
  <2>2. queue \in [Queues -> Seq(MsgIds)] /\ body \in [MsgIds -> Request \cup {NoRequest}]
    BY <1>1 DEF Init
  <2>3. pc \in [Handlers -> Steps] /\ job \in [Handlers -> Job]
    BY <1>1 DEF Init, Steps
  <2>4. /\ sent \in 0 .. MaxMessages /\ faults \in 0 .. MaxFaults /\ losses \in 0 .. MaxLosses
        /\ held \in [Queues -> MsgIds \cup {0}] /\ written \subseteq Queues
    BY GatewayAssumption DEF Init
  <2>5. /\ born \in [MsgIds -> SUBSET UserIds] /\ excused \subseteq Emails \cup Usernames
        /\ devicesUp \in BOOLEAN /\ severed \in BOOLEAN
    BY DEF Init
  <2> QED
    BY <2>1, <2>2, <2>3, <2>4, <2>5 DEF TypeOK
<1>3. JobsFit
  BY DEF Init, JobsFit, Fits
<1>4. QueuesFit /\ WrittenHeld
  BY EmptyQueue DEF Init, QueuesFit, QueueFits, WrittenHeld
<1>5. Publishing = {}
  BY DEF Init, Publishing, PublishSteps
<1>6. RoomLeft
  BY <1>5, FS_EmptySet, GatewayAssumption DEF Init, RoomLeft
<1> QED
  BY <1>2, <1>3, <1>4, <1>6 DEF TypeInv

-----------------------------------------------------------------------------
(* Steps of a handler *)

\* The handler h goes to another step, with other local variables.
Moves(h) ==
  /\ \E step \in Steps : pc' = [pc EXCEPT ![h] = step]
  /\ \E j \in Job : job' = [job EXCEPT ![h] = j]

LEMMA Moved ==
  ASSUME TypeOK, NEW h \in Handlers, Moves(h)
  PROVE  /\ pc' \in [Handlers -> Steps] /\ job' \in [Handlers -> Job]
         /\ \A g \in Handlers : g # h => pc'[g] = pc[g] /\ job'[g] = job[g]
BY DEF TypeOK, Moves

LEMMA GotoMoves ==
  ASSUME TypeOK, NEW h \in Handlers, NEW step \in Steps, Goto(h, step), UNCHANGED job
  PROVE  Moves(h) /\ pc'[h] = step /\ job'[h] = job[h]
<1>1. pc' = [pc EXCEPT ![h] = step] /\ job[h] \in Job /\ job' = [job EXCEPT ![h] = job[h]]
  BY DEF TypeOK, Goto
<1> QED
  BY <1>1 DEF TypeOK, Moves

LEMMA AnswerMoves ==
  ASSUME TypeOK, NEW h \in Handlers, NEW kind \in Answers, NEW i \in UserIds \cup {NoUser},
         Answer(h, kind, i)
  PROVE  /\ Moves(h) /\ pc'[h] = "answered"
         /\ job'[h].req = job[h].req /\ job'[h].msg = job[h].msg
         /\ job'[h].answer = kind /\ job'[h].user = i
<1> DEFINE j == [job[h] EXCEPT !.answer = kind, !.user = i]
<1>1. job[h] \in Job
  BY DEF TypeOK
<1>2. j \in Job /\ j.req = job[h].req /\ j.msg = job[h].msg /\ j.answer = kind /\ j.user = i
  BY <1>1 DEF Job
<1>3. pc' = [pc EXCEPT ![h] = "answered"] /\ job' = [job EXCEPT ![h] = j]
  BY DEF TypeOK, Answer, Goto
<1> HIDE DEF j
<1>4. "answered" \in Steps
  BY DEF Steps
<1> QED
  BY <1>2, <1>3, <1>4 DEF TypeOK, Moves

LEMMA MoveFits ==
  ASSUME TypeOK, JobsFit, NEW h \in Handlers, Moves(h), Fits(pc'[h], job'[h])
  PROVE  JobsFit'
BY Moved DEF JobsFit, Fits

LEMMA MovePublishing ==
  ASSUME TypeOK, IsFiniteSet(Publishing), NEW h \in Handlers, Moves(h)
  PROVE  /\ IsFiniteSet(Publishing') /\ Cardinality(Publishing') \in Nat
         /\ Cardinality(Publishing) \in Nat
         /\ Cardinality(Publishing') <= Cardinality(Publishing) + 1
         /\ pc'[h] \notin PublishSteps \/ pc[h] \in PublishSteps =>
              Cardinality(Publishing') <= Cardinality(Publishing)
         /\ pc'[h] \notin PublishSteps /\ pc[h] \in PublishSteps =>
              Cardinality(Publishing') = Cardinality(Publishing) - 1
<1>1. Publishing' = IF pc'[h] \in PublishSteps THEN Publishing \cup {h} ELSE Publishing \ {h}
  BY Moved DEF Publishing
<1>2. h \in Publishing <=> pc[h] \in PublishSteps
  BY DEF Publishing
<1>3. /\ IsFiniteSet(Publishing \cup {h}) /\ IsFiniteSet(Publishing \ {h})
      /\ Cardinality(Publishing \cup {h}) =
           IF h \in Publishing THEN Cardinality(Publishing) ELSE Cardinality(Publishing) + 1
      /\ Cardinality(Publishing \ {h}) =
           IF h \in Publishing THEN Cardinality(Publishing) - 1 ELSE Cardinality(Publishing)
  BY FS_AddElement, FS_RemoveElement
<1>4. /\ Cardinality(Publishing) \in Nat /\ Cardinality(Publishing \cup {h}) \in Nat
      /\ Cardinality(Publishing \ {h}) \in Nat
  BY <1>3, FS_CardinalityType
<1>5. CASE pc'[h] \in PublishSteps
  BY <1>1, <1>2, <1>3, <1>4, <1>5
<1>6. CASE pc'[h] \notin PublishSteps
  BY <1>1, <1>2, <1>3, <1>4, <1>6
<1> QED
  BY <1>5, <1>6

\* A handler that publishes nothing keeps the room, if it may not come to publish.
LEMMA MoveRoom ==
  ASSUME TypeInv, NEW h \in Handlers, Moves(h), UNCHANGED sent,
         pc'[h] \notin PublishSteps \/ pc[h] \in PublishSteps
  PROVE  RoomLeft'
<1>1. sent \in Nat /\ MaxMessages \in Nat /\ sent' = sent
  BY GatewayAssumption DEF TypeInv, TypeOK
<1> QED
  BY <1>1, MovePublishing DEF TypeInv, RoomLeft

\* Nothing moves on the queues; more may be excused.
LEMMA SameQueues ==
  ASSUME QueuesFit, WrittenHeld, UNCHANGED <<queue, held, body, sent, written>>,
         excused \subseteq excused'
  PROVE  QueuesFit' /\ WrittenHeld'
BY DEF QueuesFit, QueueFits, MessageFits, WrittenHeld

LEMMA HandlerKeeps ==
  ASSUME TypeInv, NEW h \in Handlers, Moves(h), Fits(pc'[h], job'[h]), RoomLeft',
         UNCHANGED <<users, broker, service, devicesUp, losses, born>>,
         faults' \in 0 .. MaxFaults, excused \subseteq excused',
         excused' \subseteq Emails \cup Usernames
  PROVE  TypeInv'
<1>1. TypeOK'
  BY Moved DEF TypeInv, TypeOK, broker, service
<1>2. JobsFit'
  BY MoveFits DEF TypeInv
<1>3. QueuesFit' /\ WrittenHeld'
  BY SameQueues DEF TypeInv, broker, service
<1> QED
  BY <1>1, <1>2, <1>3 DEF TypeInv

LEMMA FaultsCount ==
  ASSUME TypeOK, UNCHANGED faults \/ CallFails PROVE faults' \in 0 .. MaxFaults
BY GatewayAssumption DEF TypeOK, CallFails

LEMMA AskTypes == ASSUME TypeInv, NEW h \in Handlers, Ask(h) PROVE TypeInv'
<1>1. PICK r \in Requests : /\ Room
                            /\ Goto(h, Entry[r.op])
                            /\ job' = [job EXCEPT ![h] = [NoJob EXCEPT !.req = r]]
  BY DEF Ask
<1> DEFINE j == [NoJob EXCEPT !.req = r]
<1>2. r \in Request /\ r.op \in {"create", "update", "delete"}
  BY GatewayAssumption, RequestKinds
<1>3. j \in Job /\ j.req = r /\ j.answer = "none"
  BY <1>2 DEF NoJob, Job, Answers
<1> HIDE DEF j
<1>4. /\ Entry[r.op] \in Steps
      /\ r.op = "create" => Entry[r.op] = "checkEmail"
      /\ r.op \in {"update", "delete"} => Entry[r.op] = "publish"
  BY <1>2 DEF Entry, Steps
<1>5. Moves(h) /\ pc'[h] = Entry[r.op] /\ job'[h] = j
  BY <1>1, <1>3, <1>4 DEF Moves, Goto, TypeInv, TypeOK, j
<1>6. Fits(pc'[h], job'[h])
  BY <1>2, <1>3, <1>4, <1>5, RequestKinds DEF Fits
<1>7. RoomLeft'
  <2>1. sent \in Nat /\ MaxMessages \in Nat /\ sent' = sent
    BY GatewayAssumption DEF TypeInv, TypeOK, Ask, broker
  <2>2. sent + Cardinality(Publishing) < MaxMessages
    BY <1>1 DEF Room, Publishing, PublishSteps
  <2> QED
    BY <1>5, <2>1, <2>2, MovePublishing DEF TypeInv, RoomLeft
<1> QED
  BY <1>5, <1>6, <1>7, HandlerKeeps DEF Ask, TypeInv, TypeOK

LEMMA RefuseTypes == ASSUME TypeInv, NEW h \in Handlers, Refuse(h) PROVE TypeInv'
<1>1. Moves(h) /\ pc'[h] = "answered" /\ job'[h].answer = "error"
  BY AnswerMoves DEF Refuse, TypeInv, Answers
<1>2. Fits(pc'[h], job'[h]) /\ pc'[h] \notin PublishSteps
  BY <1>1 DEF Fits, PublishSteps
<1> QED
  BY <1>1, <1>2, HandlerKeeps, MoveRoom DEF Refuse, TypeInv, TypeOK, broker

\* What a handler has while it checks.
LEMMA CheckedRequest ==
  ASSUME TypeInv, NEW h \in Handlers, pc[h] \in {"checkEmail", "checkName"}
  PROVE  job[h].req \in RegisterReq
BY DEF TypeInv, JobsFit, Fits

LEMMA CheckTypes == ASSUME TypeInv, NEW h \in Handlers, Check(h) PROVE TypeInv'
<1> DEFINE r == job[h].req
           v == IF pc[h] = "checkEmail" THEN r.email ELSE r.username
<1>1. /\ pc[h] \in {"checkEmail", "checkName"} /\ r \in RegisterReq
      /\ v \in Emails \cup Usernames /\ job[h] \in Job
  BY CheckedRequest, RegisterSets DEF Check, TypeInv, TypeOK
<1>2. /\ AfterCheck[pc[h]] \in Steps /\ AfterCheck[pc[h]] \in {"checkName", "publish"}
  BY <1>1 DEF AfterCheck, Steps
<1>3. UNCHANGED <<users, broker, service, devicesUp, losses, born>> /\ pc[h] \in PublishSteps
  BY <1>1 DEF Check, PublishSteps
<1>4. CASE Answer(h, "conflict", NoUser) /\ UNCHANGED <<faults, excused>>
  <2>1. Moves(h) /\ pc'[h] = "answered" /\ job'[h].req = r /\ job'[h].answer = "conflict"
    BY <1>4, AnswerMoves DEF TypeInv, Answers
  <2>2. Fits(pc'[h], job'[h])
    BY <1>1, <2>1, RegisterSets DEF Fits
  <2> QED
    BY <1>3, <1>4, <2>1, <2>2, HandlerKeeps, MoveRoom DEF TypeInv, TypeOK, broker
<1>5. CASE /\ Goto(h, AfterCheck[pc[h]]) /\ UNCHANGED job /\ (UNCHANGED faults \/ CallFails)
           /\ excused' \in {excused, excused \cup {v}}
  <2>1. Moves(h) /\ pc'[h] \in {"checkName", "publish"} /\ job'[h] = job[h]
    BY <1>2, <1>5, GotoMoves DEF TypeInv
  <2>2. Fits(pc'[h], job'[h])
    BY <1>1, <2>1, RegisterSets DEF Fits
  <2>3. /\ faults' \in 0 .. MaxFaults /\ excused \subseteq excused'
        /\ excused' \subseteq Emails \cup Usernames
    BY <1>1, <1>5, FaultsCount DEF TypeInv, TypeOK
  <2> QED
    BY <1>3, <2>1, <2>2, <2>3, HandlerKeeps, MoveRoom DEF broker
<1> QED
  BY <1>4, <1>5 DEF Check

LEMMA WaitTypes == ASSUME TypeInv, NEW h \in Handlers, Wait(h) PROVE TypeInv'
<1>1. /\ pc[h] = "wait" /\ job[h].req \in RegisterReq
      /\ UNCHANGED <<users, broker, service, devicesUp, faults, losses, born, excused>>
  BY DEF Wait, TypeInv, JobsFit, Fits
<1>2. CASE Goto(h, "readBack") /\ UNCHANGED job
  <2>1. Moves(h) /\ pc'[h] = "readBack" /\ job'[h] = job[h]
    BY <1>2, GotoMoves DEF TypeInv, Steps
  <2>2. Fits(pc'[h], job'[h]) /\ pc'[h] \notin PublishSteps
    BY <1>1, <2>1, RegisterSets DEF Fits, PublishSteps
  <2> QED
    BY <1>1, <2>1, <2>2, HandlerKeeps, MoveRoom DEF TypeInv, TypeOK, broker
<1>3. CASE Answer(h, "timeout", NoUser)
  <2>1. Moves(h) /\ pc'[h] = "answered" /\ job'[h].req = job[h].req /\ job'[h].answer = "timeout"
    BY <1>3, AnswerMoves DEF TypeInv, Answers
  <2>2. Fits(pc'[h], job'[h]) /\ pc'[h] \notin PublishSteps
    BY <1>1, <2>1, RegisterSets DEF Fits, PublishSteps
  <2> QED
    BY <1>1, <2>1, <2>2, HandlerKeeps, MoveRoom DEF TypeInv, TypeOK, broker
<1> QED
  BY <1>2, <1>3 DEF Wait

LEMMA ReadBackTypes == ASSUME TypeInv, NEW h \in Handlers, ReadBack(h) PROVE TypeInv'
<1>1. /\ pc[h] = "readBack" /\ job[h].req \in Request
      /\ UNCHANGED <<users, broker, service, devicesUp, losses, born, excused>>
      /\ UNCHANGED faults \/ CallFails
  BY DEF ReadBack, TypeInv, JobsFit, Fits
<1>2. PICK kind \in Answers, i \in UserIds \cup {NoUser} :
         Answer(h, kind, i) /\ (kind = "created" => job[h].req.op = "create")
  <2>1. \A i \in Found(job[h].req) : i \in UserIds
    BY <1>1, RequestKinds DEF Found, Owners
  <2>2. {"created", "ok", "error"} \subseteq Answers
    BY DEF Answers
  <2> QED
    BY <2>1, <2>2 DEF ReadBack
<1>3. /\ Moves(h) /\ pc'[h] = "answered" /\ job'[h].req = job[h].req /\ job'[h].answer = kind
  BY <1>2, AnswerMoves DEF TypeInv
<1>4. Fits(pc'[h], job'[h]) /\ pc'[h] \notin PublishSteps
  BY <1>1, <1>2, <1>3, RequestKinds DEF Fits, PublishSteps
<1> QED
  BY <1>1, <1>3, <1>4, FaultsCount, HandlerKeeps, MoveRoom DEF TypeInv, TypeOK, broker

LEMMA FinishTypes == ASSUME TypeInv, NEW h \in Handlers, Finish(h) PROVE TypeInv'
<1>1. NoJob \in Job /\ "idle" \in Steps
  BY DEF NoJob, Job, Answers, Steps
<1>2. Moves(h) /\ pc'[h] = "idle"
  BY <1>1 DEF Finish, Goto, Moves, TypeInv, TypeOK
<1>3. Fits(pc'[h], job'[h]) /\ pc'[h] \notin PublishSteps
  BY <1>2 DEF Fits, PublishSteps
<1> QED
  BY <1>2, <1>3, HandlerKeeps, MoveRoom DEF Finish, TypeInv, TypeOK, broker

LEMMA PublishTypes == ASSUME TypeInv, NEW h \in Handlers, Publish(h) PROVE TypeInv'
<1> DEFINE r == job[h].req
           n == sent + 1
<1>1. /\ pc[h] = "publish" /\ r \in Request /\ r.op \in Queues /\ job[h] \in Job
      /\ UNCHANGED <<users, service, devicesUp, severed, losses, born>>
  BY RequestKinds DEF Publish, TypeInv, TypeOK, JobsFit, Fits, Queues
<1>2. AfterPublish[r.op] \in {"wait", "readBack"} /\ AfterPublish[r.op] \in Steps
      /\ (AfterPublish[r.op] = "wait" => r \in RegisterReq)
  BY <1>1, RequestKinds DEF AfterPublish, Steps, Queues
<1>3. sent \in Nat /\ MaxMessages \in Nat /\ sent + Cardinality(Publishing) <= MaxMessages
  BY GatewayAssumption DEF TypeInv, TypeOK, RoomLeft
<1>4. PublishFails => UNCHANGED faults \/ CallFails
  BY DEF PublishFails
<1>5. CASE /\ sent' = n /\ body' = [body EXCEPT ![n] = r]
           /\ queue' = [queue EXCEPT ![r.op] = Append(@, n)]
           /\ job' = [job EXCEPT ![h].msg = n] /\ Goto(h, AfterPublish[r.op])
           /\ excused' = IF r.op = "update" THEN excused \cup Sets(r) ELSE excused
           /\ UNCHANGED faults
  <2> DEFINE j == [job[h] EXCEPT !.msg = n]
  <2>1. pc' = [pc EXCEPT ![h] = AfterPublish[r.op]] /\ job' = [job EXCEPT ![h] = j]
    BY <1>5 DEF Goto, TypeInv, TypeOK
  <2>2. IsFiniteSet(Publishing) /\ h \in Publishing
    BY <1>1 DEF TypeInv, RoomLeft, Publishing, PublishSteps
  <2>3. Cardinality(Publishing) \in Nat \ {0}
    BY <2>2, FS_EmptySet, FS_CardinalityType
  <2>4. n \in MsgIds
    BY <1>3, <2>3 DEF MsgIds
  <2>5. j \in Job /\ j.req = r
    BY <1>1, <2>4 DEF Job
  <2> HIDE DEF j
  <2>6. Moves(h) /\ pc'[h] \in {"wait", "readBack"} /\ job'[h].req = r /\ pc'[h] = AfterPublish[r.op]
    BY <1>2, <2>1, <2>5 DEF Moves, TypeInv, TypeOK
  <2>7. Fits(pc'[h], job'[h]) /\ pc'[h] \notin PublishSteps
    BY <1>1, <1>2, <2>6 DEF Fits, PublishSteps
  <2>8. RoomLeft'
    <3>1. /\ IsFiniteSet(Publishing') /\ Cardinality(Publishing') = Cardinality(Publishing) - 1
      BY <1>1, <2>2, <2>6, <2>7, MovePublishing DEF TypeInv, PublishSteps
    <3> QED
      BY <1>3, <1>5, <2>3, <3>1 DEF RoomLeft
  <2>9. excused' \subseteq Emails \cup Usernames /\ excused \subseteq excused'
    BY <1>1, <1>5, SetsAreValues DEF TypeInv, TypeOK
  <2>10. /\ queue[r.op] \in Seq(MsgIds) /\ n \notin Elems(queue[r.op]) /\ n # held[r.op]
    <3>1. queue[r.op] \in Seq(MsgIds) /\ QueueFits(r.op, queue[r.op], held[r.op], body, sent, excused)
      BY <1>1 DEF TypeInv, TypeOK, QueuesFit
    <3>2. \A m \in Elems(queue[r.op]) \cup ({held[r.op]} \ {0}) : m <= sent
      BY <3>1 DEF QueueFits, MessageFits
    <3> QED
      BY <1>3, <3>1, <3>2
  <2>11. TypeOK'
    <3>1. queue' \in [Queues -> Seq(MsgIds)]
      BY <1>1, <1>5, <2>4, <2>10, AppendQueue DEF TypeInv, TypeOK
    <3>2. sent' \in 0 .. MaxMessages /\ body' \in [MsgIds -> Request \cup {NoRequest}]
      BY <1>1, <1>3, <1>5, <2>4 DEF TypeInv, TypeOK, MsgIds
    <3> QED
      BY <1>1, <1>5, <2>6, <2>9, <3>1, <3>2, Moved DEF TypeInv, TypeOK, service
  <2>12. QueuesFit' /\ WrittenHeld'
    <3>1. ASSUME NEW m \in MsgIds, NEW q, MessageFits(m, q, body, sent, excused)
          PROVE  MessageFits(m, q, body', sent', excused')
      <4>1. m # n /\ m <= sent'
        BY <1>3, <1>5, <3>1 DEF MessageFits, MsgIds
      <4> QED
        BY <1>5, <2>9, <3>1, <4>1 DEF MessageFits, TypeInv, TypeOK
    <3>2. MessageFits(n, r.op, body', sent', excused')
      <4>1. body'[n] = r /\ n <= sent'
        BY <1>3, <1>5, <2>4 DEF TypeInv, TypeOK
      <4> QED
        BY <1>1, <1>5, <4>1 DEF MessageFits
    <3> SUFFICES ASSUME NEW q \in Queues
                 PROVE  QueueFits(q, queue'[q], held'[q], body', sent', excused')
      BY <1>1 DEF QueuesFit, WrittenHeld, TypeInv, service
    <3>3. /\ QueueFits(q, queue[q], held[q], body, sent, excused) /\ held'[q] = held[q]
          /\ held[q] \in MsgIds \cup {0} /\ queue[q] \in Seq(MsgIds) /\ Elems(queue[q]) \subseteq MsgIds
      BY <1>1, ElemsType DEF TypeInv, TypeOK, QueuesFit, service
    <3>4. CASE q # r.op
      <4>1. queue'[q] = queue[q]
        BY <1>5, <3>4 DEF TypeInv, TypeOK
      <4> QED
        BY <3>1, <3>3, <4>1 DEF QueueFits
    <3>5. CASE q = r.op
      <4>1. queue'[q] = Append(queue[q], n)
        BY <1>5, <3>5 DEF TypeInv, TypeOK
      <4>2. NoRepeat(queue'[q]) /\ Elems(queue'[q]) = Elems(queue[q]) \cup {n}
        BY <2>4, <2>10, <3>3, <3>5, <4>1, AppendQueue DEF QueueFits
      <4> QED
        BY <2>10, <3>1, <3>2, <3>3, <3>5, <4>2 DEF QueueFits
    <3> QED
      BY <3>4, <3>5
  <2> QED
    BY <2>6, <2>7, <2>8, <2>11, <2>12, MoveFits DEF TypeInv
<1>6. CASE /\ UNCHANGED faults \/ CallFails
           /\ Goto(h, AfterPublish[r.op])
           /\ UNCHANGED <<queue, body, sent, job, excused>>
  <2>1. Moves(h) /\ pc'[h] = AfterPublish[r.op] /\ job'[h] = job[h]
    BY <1>2, <1>6, GotoMoves DEF TypeInv
  <2>2. Fits(pc'[h], job'[h]) /\ pc'[h] \notin PublishSteps
    BY <1>1, <1>2, <2>1 DEF Fits, PublishSteps
  <2> QED
    BY <1>1, <1>6, <2>1, <2>2, FaultsCount, HandlerKeeps, MoveRoom DEF TypeInv, TypeOK, broker
<1>7. CASE /\ UNCHANGED faults \/ CallFails
           /\ Answer(h, "error", NoUser)
           /\ UNCHANGED <<queue, body, sent, excused>>
  <2>1. /\ Moves(h) /\ pc'[h] = "answered" /\ job'[h].req = r /\ job'[h].answer = "error"
    BY <1>7, AnswerMoves DEF TypeInv, Answers
  <2>2. Fits(pc'[h], job'[h]) /\ pc'[h] \notin PublishSteps
    BY <1>1, <2>1 DEF Fits, PublishSteps
  <2> QED
    BY <1>1, <1>7, <2>1, <2>2, FaultsCount, HandlerKeeps, MoveRoom DEF TypeInv, TypeOK, broker
<1> QED
  BY <1>4, <1>5, <1>6, <1>7 DEF Publish

-----------------------------------------------------------------------------
(* Steps of the consumers *)

\* A step that leaves the handlers alone, and takes messages off the queues or
\* gives them to a consumer.
LEMMA ConsumerKeeps ==
  ASSUME TypeInv, TypeOK', WrittenHeld', UNCHANGED <<local, body, sent>>,
         excused \subseteq excused',
         \A q \in Queues :
           /\ NoRepeat(queue'[q]) /\ held'[q] \notin Elems(queue'[q])
           /\ Elems(queue'[q]) \cup ({held'[q]} \ {0})
                \subseteq Elems(queue[q]) \cup ({held[q]} \ {0})
  PROVE  TypeInv'
<1>1. JobsFit' /\ Publishing' = Publishing
  BY DEF TypeInv, JobsFit, local, Publishing
<1>2. RoomLeft'
  BY <1>1 DEF TypeInv, RoomLeft
<1>3. QueuesFit'
  <2> SUFFICES ASSUME NEW q \in Queues
               PROVE  QueueFits(q, queue'[q], held'[q], body', sent', excused')
    BY DEF QueuesFit
  <2>1. /\ QueueFits(q, queue[q], held[q], body, sent, excused)
        /\ body' = body /\ sent' = sent
    BY DEF TypeInv, QueuesFit
  <2> QED
    BY <2>1 DEF QueueFits, MessageFits
<1> QED
  BY <1>1, <1>2, <1>3 DEF TypeInv

\* What the invariant says of a queue.
LEMMA QueueFacts ==
  ASSUME TypeInv, NEW q \in Queues
  PROVE  /\ queue[q] \in Seq(MsgIds) /\ Elems(queue[q]) \subseteq MsgIds
         /\ held[q] \in MsgIds \cup {0} /\ 0 \notin Elems(queue[q])
         /\ NoRepeat(queue[q]) /\ held[q] \notin Elems(queue[q])
         /\ \A m \in Elems(queue[q]) \cup ({held[q]} \ {0}) :
              /\ m \in MsgIds /\ m <= sent /\ body[m] \in Request /\ body[m].op = q
              /\ Sets(body[m]) \subseteq Emails \cup Usernames
              /\ q = "update" => Sets(body[m]) \subseteq excused
<1>1. queue[q] \in Seq(MsgIds) /\ held[q] \in MsgIds \cup {0}
  BY DEF TypeInv, TypeOK
<1>2. Elems(queue[q]) \subseteq MsgIds
  BY <1>1, ElemsType
<1>3. QueueFits(q, queue[q], held[q], body, sent, excused)
  BY DEF TypeInv, QueuesFit
<1> QED
  BY <1>1, <1>2, <1>3, ZeroIsNoMessage, SetsAreValues DEF QueueFits, MessageFits

LEMMA UsersTakeTypes == ASSUME TypeInv, NEW q \in Queues, UsersTake(q) PROVE TypeInv'
<1>1. /\ held[q] = 0 /\ queue[q] # <<>> /\ queue[q] \in Seq(MsgIds)
      /\ held' = [held EXCEPT ![q] = Head(queue[q])]
      /\ queue' = [queue EXCEPT ![q] = Tail(queue[q])]
      /\ UNCHANGED <<users, body, sent, severed, written, devicesUp, local, faults, losses, born,
                     excused>>
  BY QueueFacts DEF UsersTake
<1>2. /\ Head(queue[q]) \in Elems(queue[q]) /\ Tail(queue[q]) \in Seq(MsgIds)
      /\ Elems(queue[q]) = Elems(Tail(queue[q])) \cup {Head(queue[q])}
      /\ NoRepeat(Tail(queue[q])) /\ Head(queue[q]) \notin Elems(Tail(queue[q]))
      /\ Head(queue[q]) \in MsgIds
  BY <1>1, QueueFacts, TakeQueue
<1>3. TypeOK'
  BY <1>1, <1>2 DEF TypeInv, TypeOK, local
<1>4. WrittenHeld'
  BY <1>1, <1>2, ZeroIsNoMessage DEF TypeInv, TypeOK, WrittenHeld
<1>5. ASSUME NEW p \in Queues
      PROVE  /\ NoRepeat(queue'[p]) /\ held'[p] \notin Elems(queue'[p])
             /\ Elems(queue'[p]) \cup ({held'[p]} \ {0})
                  \subseteq Elems(queue[p]) \cup ({held[p]} \ {0})
  BY <1>1, <1>2, QueueFacts DEF TypeInv, TypeOK
<1> QED
  BY <1>1, <1>3, <1>4, <1>5, ConsumerKeeps

\* A message is taken off a queue and handled by nobody.
LEMMA DropTypes ==
  ASSUME TypeInv, NEW q \in Queues, queue[q] # <<>>, devicesUp' \in BOOLEAN,
         queue' \in {queue, [queue EXCEPT ![q] = Tail(queue[q])]},
         UNCHANGED <<users, body, sent, severed, service, local, faults, losses, born, excused>>
  PROVE  TypeInv'
<1>1. /\ Tail(queue[q]) \in Seq(MsgIds) /\ NoRepeat(Tail(queue[q]))
      /\ Elems(Tail(queue[q])) \subseteq Elems(queue[q])
  BY QueueFacts, TakeQueue
<1>2. TypeOK'
  <2>1. queue' \in [Queues -> Seq(MsgIds)]
    BY <1>1 DEF TypeInv, TypeOK
  <2> QED
    BY <2>1 DEF TypeInv, TypeOK, service, local
<1>3. WrittenHeld'
  BY DEF TypeInv, WrittenHeld, service
<1>4. ASSUME NEW p \in Queues
      PROVE  /\ NoRepeat(queue'[p]) /\ held'[p] \notin Elems(queue'[p])
             /\ Elems(queue'[p]) \cup ({held'[p]} \ {0})
                  \subseteq Elems(queue[p]) \cup ({held[p]} \ {0})
  <2>1. held'[p] = held[p] /\ queue'[p] \in {queue[p], Tail(queue[q])}
        /\ (p # q => queue'[p] = queue[p])
    BY DEF TypeInv, TypeOK, service
  <2> QED
    BY <1>1, <2>1, QueueFacts
<1> QED
  BY <1>2, <1>3, <1>4, ConsumerKeeps

LEMMA DevicesTakeTypes == ASSUME TypeInv, NEW q \in Queues, DevicesTake(q) PROVE TypeInv'
<1>1. devicesUp' \in BOOLEAN
  BY DEF DevicesTake
<1>2. queue' \in {queue, [queue EXCEPT ![q] = Tail(queue[q])]}
  BY DEF DevicesTake
<1> QED
  BY <1>1, <1>2, DropTypes DEF DevicesTake

LEMMA SwallowTypes == ASSUME TypeInv, NEW q \in Queues, Swallow(q) PROVE TypeInv'
<1>1. devicesUp' \in BOOLEAN /\ queue' = [queue EXCEPT ![q] = Tail(queue[q])]
  BY DEF Swallow, TypeInv, TypeOK
<1> QED
  BY <1>1, DropTypes DEF Swallow

LEMMA DevicesRestartTypes == ASSUME TypeInv, DevicesRestart PROVE TypeInv'
<1>1. TypeOK' /\ WrittenHeld'
  BY DEF DevicesRestart, TypeInv, TypeOK, WrittenHeld, broker, service, local
<1>2. queue' = queue /\ held' = held
  BY DEF DevicesRestart, broker, service
<1> QED
  BY <1>1, <1>2, QueueFacts, ConsumerKeeps DEF DevicesRestart, broker

\* An update leaves a user, whose values it had or the request sets.
LEMMA MergeUser ==
  ASSUME NEW u \in User, NEW r \in UpdateReq
  PROVE  /\ Merge(u, r) \in User
         /\ {Merge(u, r).email, Merge(u, r).username} \subseteq {u.email, u.username} \cup Sets(r)
<1>1. u.email \in Emails /\ u.username \in Usernames
  BY DEF User
<1> QED
  BY <1>1, UpdateSets DEF Merge, User

LEMMA WriteTypes ==
  ASSUME TypeOK, NEW n \in MsgIds, NEW r \in Request, Write(n, r)
  PROVE  users' \in [UserIds -> User \cup {NoUser}] /\ born' \in [MsgIds -> SUBSET UserIds]
<1>1. CASE r.op = "create"
  <2>1. PICK i \in UserIds :
          /\ users' = [users EXCEPT ![i] = [email |-> r.email, username |-> r.username]]
          /\ born' = [born EXCEPT ![n] = @ \cup {i}]
    BY <1>1 DEF Write
  <2>2. [email |-> r.email, username |-> r.username] \in User
    BY <1>1, RequestKinds, RegisterSets DEF User
  <2> QED
    BY <2>1, <2>2 DEF TypeOK
<1>2. CASE r.op = "update"
  <2>1. /\ users[r.id] # NoUser /\ users' = [users EXCEPT ![r.id] = Merge(users[r.id], r)]
        /\ born' = born /\ r \in UpdateReq
    BY <1>2, RequestKinds DEF Write, Changes
  <2>2. users[r.id] \in User
    BY <2>1, UpdateSets DEF TypeOK
  <2> QED
    BY <2>1, <2>2, MergeUser DEF TypeOK
<1> QED
  BY <1>1, <1>2 DEF Write

LEMMA UsersHandleTypes == ASSUME TypeInv, NEW q \in Queues, UsersHandle(q) PROVE TypeInv'
<1> DEFINE n == held[q]
           r == body[n]
<1>1. /\ n # 0 /\ n \in MsgIds /\ r \in Request /\ q \notin written
      /\ UNCHANGED <<broker, devicesUp, local, losses, excused>>
  BY QueueFacts DEF UsersHandle
<1>2. /\ Write(n, r) \/ UNCHANGED <<users, born>>
      /\ UNCHANGED faults \/ CallFails
      /\ \/ written' = written \cup {q} /\ UNCHANGED held
         \/ held' = [held EXCEPT ![q] = 0] /\ UNCHANGED written
  BY DEF UsersHandle
<1>3. users' \in [UserIds -> User \cup {NoUser}] /\ born' \in [MsgIds -> SUBSET UserIds]
  BY <1>1, <1>2, WriteTypes DEF TypeInv, TypeOK
<1> HIDE DEF n, r
<1>4. TypeOK'
  <2>1. held' \in [Queues -> MsgIds \cup {0}] /\ written' \subseteq Queues
    BY <1>2 DEF TypeInv, TypeOK
  <2>2. faults' \in 0 .. MaxFaults
    BY <1>2, FaultsCount DEF TypeInv
  <2> QED
    BY <1>1, <1>3, <2>1, <2>2 DEF TypeInv, TypeOK, broker, local
<1>5. WrittenHeld'
  BY <1>1, <1>2 DEF TypeInv, TypeOK, WrittenHeld, n
<1>6. ASSUME NEW p \in Queues
      PROVE  /\ NoRepeat(queue'[p]) /\ held'[p] \notin Elems(queue'[p])
             /\ Elems(queue'[p]) \cup ({held'[p]} \ {0})
                  \subseteq Elems(queue[p]) \cup ({held[p]} \ {0})
  <2>1. queue'[p] = queue[p] /\ held'[p] \in {held[p], 0}
    BY <1>1, <1>2 DEF TypeInv, TypeOK, broker
  <2> QED
    BY <2>1, QueueFacts
<1> QED
  BY <1>1, <1>4, <1>5, <1>6, ConsumerKeeps DEF broker

LEMMA UsersAckTypes == ASSUME TypeInv, NEW q \in Queues, UsersAck(q) PROVE TypeInv'
<1>1. /\ held' = [held EXCEPT ![q] = 0] /\ written' = written \ {q}
      /\ UNCHANGED <<users, broker, devicesUp, local, faults, losses, born, excused>>
  BY DEF UsersAck
<1>2. TypeOK'
  <2>1. held' \in [Queues -> MsgIds \cup {0}] /\ written' \subseteq Queues
    BY <1>1 DEF TypeInv, TypeOK
  <2> QED
    BY <1>1, <2>1 DEF TypeInv, TypeOK, broker, local
<1>3. WrittenHeld'
  BY <1>1 DEF TypeInv, TypeOK, WrittenHeld
<1>4. ASSUME NEW p \in Queues
      PROVE  /\ NoRepeat(queue'[p]) /\ held'[p] \notin Elems(queue'[p])
             /\ Elems(queue'[p]) \cup ({held'[p]} \ {0})
                  \subseteq Elems(queue[p]) \cup ({held[p]} \ {0})
  <2>1. queue'[p] = queue[p] /\ held'[p] \in {held[p], 0}
    BY <1>1 DEF TypeInv, TypeOK, broker
  <2> QED
    BY <2>1, QueueFacts
<1> QED
  BY <1>1, <1>2, <1>3, <1>4, ConsumerKeeps DEF broker

\* What a crash of USERS leaves of a queue.
LEMMA CrashedQueue ==
  ASSUME TypeInv, UsersCrash, NEW q \in Queues
  PROVE  /\ held'[q] = 0 /\ queue'[q] \in Seq(MsgIds)
         /\ Elems(queue'[q]) \subseteq Elems(queue[q]) \cup ({held[q]} \ {0})
         /\ NoRepeat(queue'[q])
<1>1. /\ held'[q] = 0
      /\ queue'[q] = IF severed THEN <<>>
                     ELSE IF held[q] = 0 THEN queue[q]
                     ELSE <<held[q]>> \o queue[q]
  BY DEF UsersCrash
<1>2. CASE severed
  BY <1>1, <1>2, EmptyQueue
<1>3. CASE ~severed /\ held[q] = 0
  BY <1>1, <1>3, QueueFacts
<1>4. CASE ~severed /\ held[q] # 0
  <2>1. held[q] \in MsgIds
    BY <1>4, QueueFacts
  <2> QED
    BY <1>1, <1>4, <2>1, QueueFacts, RequeueQueue
<1> QED
  BY <1>2, <1>3, <1>4 DEF TypeInv, TypeOK

\* What a crash of USERS excuses.
LEMMA CrashExcuses ==
  ASSUME TypeInv, UsersCrash
  PROVE  /\ excused \subseteq excused' /\ excused' \subseteq Emails \cup Usernames
         /\ ~severed => \A q \in written : Sets(body[held[q]]) \subseteq excused'
<1>1. \A q \in written : q \in Queues /\ Sets(body[held[q]]) \subseteq Emails \cup Usernames
  BY QueueFacts DEF TypeInv, TypeOK, WrittenHeld
<1> QED
  BY <1>1 DEF UsersCrash, TypeInv, TypeOK

LEMMA UsersCrashTypes == ASSUME TypeInv, UsersCrash PROVE TypeInv'
<1>1. /\ losses' = losses + 1 /\ losses < MaxLosses /\ written' = {}
      /\ held' = [q \in Queues |-> 0] /\ DOMAIN queue' = Queues
      /\ UNCHANGED <<users, body, sent, severed, devicesUp, local, faults, born>>
  BY DEF UsersCrash
<1>2. queue' \in [Queues -> Seq(MsgIds)]
  <2>1. queue' = [q \in Queues |-> queue'[q]]
    BY DEF UsersCrash
  <2> QED
    BY <2>1, CrashedQueue
<1>3. losses' \in 0 .. MaxLosses
  BY <1>1, GatewayAssumption DEF TypeInv, TypeOK
<1>4. TypeOK' /\ WrittenHeld'
  BY <1>1, <1>2, <1>3, CrashExcuses DEF TypeInv, TypeOK, WrittenHeld, local
<1>5. ASSUME NEW p \in Queues
      PROVE  /\ NoRepeat(queue'[p]) /\ held'[p] \notin Elems(queue'[p])
             /\ Elems(queue'[p]) \cup ({held'[p]} \ {0})
                  \subseteq Elems(queue[p]) \cup ({held[p]} \ {0})
  <2>1. 0 \notin Elems(queue[p]) \cup ({held[p]} \ {0})
    BY QueueFacts
  <2> QED
    BY <2>1, CrashedQueue
<1> QED
  BY <1>1, <1>4, <1>5, ConsumerKeeps, CrashExcuses

LEMMA BrokerRestartTypes == ASSUME TypeInv, BrokerRestart PROVE TypeInv'
<1>1. PICK left \in [Queues -> UNION {Remains(queue[q]) : q \in Queues}] :
        (\A q \in Queues : left[q] \in Remains(queue[q])) /\ queue' = left
  BY DEF BrokerRestart
<1>2. ASSUME NEW q \in Queues
      PROVE  /\ queue'[q] \in Seq(MsgIds) /\ NoRepeat(queue'[q])
             /\ Elems(queue'[q]) \subseteq Elems(queue[q])
  <2>1. queue'[q] \in Remains(queue[q])
    BY <1>1
  <2> QED
    BY <2>1, QueueFacts, RemainsQueue
<1>3. queue' \in [Queues -> Seq(MsgIds)]
  <2>1. queue' = [q \in Queues |-> queue'[q]]
    BY <1>1
  <2> QED
    BY <1>2, <2>1
<1>4. losses' \in 0 .. MaxLosses
  BY GatewayAssumption DEF BrokerRestart, TypeInv, TypeOK
<1>5. TypeOK' /\ WrittenHeld'
  BY <1>3, <1>4 DEF BrokerRestart, TypeInv, TypeOK, WrittenHeld, local, service
<1>6. ASSUME NEW p \in Queues
      PROVE  /\ NoRepeat(queue'[p]) /\ held'[p] \notin Elems(queue'[p])
             /\ Elems(queue'[p]) \cup ({held'[p]} \ {0})
                  \subseteq Elems(queue[p]) \cup ({held[p]} \ {0})
  <2>1. held'[p] = held[p]
    BY DEF BrokerRestart, service
  <2> QED
    BY <1>2, <2>1, QueueFacts
<1> QED
  BY <1>5, <1>6, ConsumerKeeps DEF BrokerRestart

-----------------------------------------------------------------------------
LEMMA NextTypeInv == TypeInv /\ [Next]_vars => TypeInv'
<1> SUFFICES ASSUME TypeInv, [Next]_vars PROVE TypeInv'
  OBVIOUS
<1>1. CASE UNCHANGED vars
  <2>1. TypeOK' /\ WrittenHeld' /\ queue' = queue /\ held' = held
    BY <1>1 DEF TypeInv, TypeOK, WrittenHeld, vars, broker, service, local
  <2> QED
    BY <1>1, <2>1, QueueFacts, ConsumerKeeps DEF vars, broker
<1>2. ASSUME NEW h \in Handlers, Ask(h) \/ Refuse(h) \/ Serve(h) PROVE TypeInv'
  BY <1>2, AskTypes, RefuseTypes, CheckTypes, PublishTypes, WaitTypes, ReadBackTypes, FinishTypes
     DEF Serve
<1>3. ASSUME NEW q \in Queues, Consume(q) \/ DevicesTake(q) \/ Swallow(q) PROVE TypeInv'
  BY <1>3, UsersTakeTypes, UsersHandleTypes, UsersAckTypes, DevicesTakeTypes, SwallowTypes
     DEF Consume
<1>4. CASE UsersCrash \/ BrokerRestart \/ DevicesRestart
  BY <1>4, UsersCrashTypes, BrokerRestartTypes, DevicesRestartTypes
<1> QED
  BY <1>1, <1>2, <1>3, <1>4 DEF Next

\* Every variable keeps its type, however the services are interleaved, crash and
\* lose messages: in particular no more is ever published than there are messages,
\* since a request only comes in while one is left for every handler on its way.
THEOREM TypeCorrect == Spec => []TypeOK
<1>1. TypeInv => TypeOK
  BY DEF TypeInv
<1> QED
  BY <1>1, InitTypeInv, NextTypeInv, PTL DEF Spec

-----------------------------------------------------------------------------
(* Who may claim a value.  While nothing excuses a value v, at most one of    *)
(* these exists: a user that has it, a registration that has found it free    *)
(* and is not published, a message that is still to be written and sets it.   *)

Values == Emails \cup Usernames

\* At this step, with these local variables, a registration has found v free and
\* is not published.
Claims(v, step, j) ==
  /\ j.req # NoRequest /\ j.req.op = "create"
  /\ \/ step = "checkName" /\ v = j.req.email
     \/ step = "publish" /\ v \in Sets(j.req)

Unpublished(v) == {h \in Handlers : Claims(v, pc[h], job[h])}

\* A message that is still to be written.
Unwritten(n) == \E q \in Queues : n \in Elems(queue[q]) \/ (n = held[q] /\ q \notin written)

Waiting(v) == {n \in MsgIds : Unwritten(n) /\ v \in Sets(body[n])}

Lone(A) == \A x, y \in A : x = y

\* At most one element in all.
AtMostOne(A, B, C) ==
  /\ Lone(A) /\ Lone(B) /\ Lone(C)
  /\ A = {} \/ B = {}
  /\ A = {} \/ C = {}
  /\ B = {} \/ C = {}

OneClaim ==
  \A v \in Values : v \notin excused => AtMostOne(Owners(v), Unpublished(v), Waiting(v))

\* A registration that is published, or has failed to be, and has not been read
\* back.
Registering(step, j) == step \in {"wait", "readBack"} /\ j.req.op = "create"

\* The e-mail e is left to the message m: whoever has it was inserted for m, and
\* nobody else may still come by it.
LeftTo(m, e) ==
  /\ \A i \in Owners(e) : m # 0 /\ i \in born[m]
  /\ Waiting(e) \subseteq {m} /\ Unpublished(e) = {}

Mine ==
  \A h \in Handlers, e \in Emails, m \in MsgIds \cup {0} :
    Registering(pc[h], job[h]) /\ e = job[h].req.email /\ m = job[h].msg /\ e \notin excused =>
      LeftTo(m, e)

RaceInv == TypeInv /\ OneClaim /\ Mine

LEMMA FewerClaims ==
  ASSUME NEW A, NEW B, NEW C, NEW D, NEW E, NEW F, AtMostOne(A, B, C),
         D \subseteq A, E \subseteq B, F \subseteq C
  PROVE  AtMostOne(D, E, F)
BY DEF AtMostOne, Lone

LEMMA ClaimedInFlight ==
  ASSUME TypeInv, NEW v \in Values, ~Claimed(v)
  PROVE  /\ Past(v) = {} /\ Unpublished(v) = {} /\ Waiting(v) = {}
<1>1. Past(v) = {} /\ ~ \E n \in InFlight : v \in Sets(body[n])
  BY DEF Claimed
<1>2. Unpublished(v) \subseteq Past(v)
  BY DEF Unpublished, Claims, Past
<1>3. Waiting(v) \subseteq {n \in InFlight : v \in Sets(body[n])}
  BY DEF Waiting, Unwritten, InFlight, Elems
<1> QED
  BY <1>1, <1>2, <1>3

\* Nobody comes by a value that is not excused, and no registration is published.
LEMMA QuietKeeps ==
  ASSUME RaceInv, excused \subseteq excused',
         \A n \in MsgIds : born[n] \subseteq born'[n],
         \A v \in Values : v \notin excused' =>
           /\ Owners(v)' \subseteq Owners(v)
           /\ Unpublished(v)' \subseteq Unpublished(v)
           /\ Waiting(v)' \subseteq Waiting(v),
         \A h \in Handlers : Registering(pc'[h], job'[h]) =>
           /\ Registering(pc[h], job[h])
           /\ job'[h].req = job[h].req /\ job'[h].msg = job[h].msg
  PROVE  OneClaim' /\ Mine'
<1>1. OneClaim'
  <2> SUFFICES ASSUME NEW v \in Values, v \notin excused'
               PROVE  AtMostOne(Owners(v)', Unpublished(v)', Waiting(v)')
    BY DEF OneClaim
  <2>1. AtMostOne(Owners(v), Unpublished(v), Waiting(v))
    BY DEF RaceInv, OneClaim
  <2> QED
    BY <2>1, FewerClaims
<1>2. Mine'
  <2> SUFFICES ASSUME NEW h \in Handlers, NEW e \in Emails, NEW m \in MsgIds \cup {0},
                      Registering(pc'[h], job'[h]), e = job'[h].req.email, m = job'[h].msg,
                      e \notin excused'
               PROVE  LeftTo(m, e)'
    BY DEF Mine
  <2>1. LeftTo(m, e)
    BY DEF RaceInv, Mine
  <2>2. e \in Values
    BY DEF Values
  <2> QED
    BY <2>1, <2>2 DEF LeftTo
<1> QED
  BY <1>1, <1>2

LEMMA SameOwners == ASSUME UNCHANGED users, NEW v PROVE Owners(v)' = Owners(v)
BY DEF Owners

LEMMA SameUnpublished == ASSUME UNCHANGED local, NEW v PROVE Unpublished(v)' = Unpublished(v)
BY DEF Unpublished, local

LEMMA SameWaiting ==
  ASSUME UNCHANGED <<queue, body, held, written>>, NEW v PROVE Waiting(v)' = Waiting(v)
BY DEF Waiting, Unwritten

\* A handler that does not claim a value it did not claim, and does not come to
\* wait for a message.
LEMMA QuietHandler ==
  ASSUME RaceInv, NEW h \in Handlers, Moves(h), UNCHANGED <<users, broker, service, born>>,
         excused \subseteq excused',
         \A v \in Values : v \notin excused' /\ Claims(v, pc'[h], job'[h]) => h \in Unpublished(v),
         Registering(pc'[h], job'[h]) => Registering(pc[h], job[h]) /\ job'[h] = job[h]
  PROVE  OneClaim' /\ Mine'
<1>1. \A g \in Handlers : g # h => pc'[g] = pc[g] /\ job'[g] = job[g]
  BY Moved DEF RaceInv, TypeInv
<1>2. ASSUME NEW v \in Values, v \notin excused'
      PROVE  /\ Owners(v)' \subseteq Owners(v)
             /\ Unpublished(v)' \subseteq Unpublished(v)
             /\ Waiting(v)' \subseteq Waiting(v)
  <2>1. Owners(v)' = Owners(v) /\ Waiting(v)' = Waiting(v)
    BY SameOwners, SameWaiting DEF broker, service
  <2>2. Unpublished(v)' \subseteq Unpublished(v)
    BY <1>1, <1>2 DEF Unpublished
  <2> QED
    BY <2>1, <2>2
<1>3. \A g \in Handlers : Registering(pc'[g], job'[g]) =>
           /\ Registering(pc[g], job[g])
           /\ job'[g].req = job[g].req /\ job'[g].msg = job[g].msg
  BY <1>1
<1> QED
  BY <1>2, <1>3, QuietKeeps

\* A handler that answers claims nothing any more.
LEMMA AnswerRace ==
  ASSUME RaceInv, NEW h \in Handlers, UNCHANGED <<users, broker, service, born>>,
         excused \subseteq excused', Moves(h), pc'[h] \in {"answered", "idle", "checkEmail"}
  PROVE  OneClaim' /\ Mine'
<1>1. /\ \A v \in Values : ~Claims(v, pc'[h], job'[h])
      /\ ~Registering(pc'[h], job'[h])
  BY DEF Claims, Registering
<1> QED
  BY <1>1, QuietHandler

LEMMA AskRace == ASSUME RaceInv, NEW h \in Handlers, Ask(h) PROVE OneClaim' /\ Mine'
<1>1. PICK r \in Requests : /\ Goto(h, Entry[r.op])
                            /\ job' = [job EXCEPT ![h] = [NoJob EXCEPT !.req = r]]
  BY DEF Ask
<1> DEFINE j == [NoJob EXCEPT !.req = r]
<1>2. r \in Request /\ r.op \in {"create", "update", "delete"}
  BY GatewayAssumption, RequestKinds
<1>3. j \in Job /\ j.req = r
  BY <1>2 DEF NoJob, Job, Answers
<1> HIDE DEF j
<1>4. /\ Entry[r.op] \in Steps
      /\ r.op = "create" => Entry[r.op] = "checkEmail"
      /\ r.op # "create" => Entry[r.op] \in {"publish", "readBack"}
  BY <1>2 DEF Entry, Steps
<1>5. Moves(h) /\ pc'[h] = Entry[r.op] /\ job'[h] = j
  BY <1>1, <1>3, <1>4 DEF Moves, Goto, RaceInv, TypeInv, TypeOK, j
<1>6. /\ \A v \in Values : ~Claims(v, pc'[h], job'[h])
      /\ ~Registering(pc'[h], job'[h])
  BY <1>3, <1>4, <1>5 DEF Claims, Registering
<1> QED
  BY <1>5, <1>6, QuietHandler DEF Ask

LEMMA RefuseRace == ASSUME RaceInv, NEW h \in Handlers, Refuse(h) PROVE OneClaim' /\ Mine'
<1>1. Moves(h) /\ pc'[h] = "answered"
  BY AnswerMoves DEF Refuse, RaceInv, TypeInv, Answers
<1> QED
  BY <1>1, AnswerRace DEF Refuse

\* A registration that goes on with a check claims the value it has looked for;
\* if somebody else is on the way to it, or the check failed, the value is excused.
LEMMA PassRace ==
  ASSUME RaceInv, NEW h \in Handlers, pc[h] \in {"checkEmail", "checkName"},
         NEW v \in Values,
         v = (IF pc[h] = "checkEmail" THEN job[h].req.email ELSE job[h].req.username),
         Goto(h, AfterCheck[pc[h]]), UNCHANGED job,
         UNCHANGED <<users, broker, service, born>>,
         excused \subseteq excused',
         v \in excused' \/ (Owners(v) = {} /\ ~Claimed(v))
  PROVE  OneClaim' /\ Mine'
<1> DEFINE r == job[h].req
<1>1. /\ r \in RegisterReq /\ AfterCheck[pc[h]] \in Steps
      /\ pc[h] = "checkEmail" => AfterCheck[pc[h]] = "checkName"
      /\ pc[h] = "checkName" => AfterCheck[pc[h]] = "publish"
  BY CheckedRequest DEF AfterCheck, Steps, RaceInv
<1>2. /\ Moves(h) /\ pc'[h] = AfterCheck[pc[h]] /\ job' = job
  BY <1>1, GotoMoves DEF RaceInv, TypeInv
<1>3. \A g \in Handlers : g # h => pc'[g] = pc[g]
  BY <1>2, Moved DEF RaceInv, TypeInv
<1>4. \A w \in Values : Claims(w, pc'[h], job'[h]) => w = v \/ Claims(w, pc[h], job[h])
  BY <1>1, <1>2, RegisterSets DEF Claims
<1>5. \A w \in Values : Owners(w)' = Owners(w) /\ Waiting(w)' = Waiting(w)
  BY SameOwners, SameWaiting DEF broker, service
<1>6. /\ \A w \in Values : w # v => Unpublished(w)' \subseteq Unpublished(w)
      /\ Unpublished(v)' \subseteq Unpublished(v) \cup {h}
  BY <1>2, <1>3, <1>4 DEF Unpublished
<1>7. v \notin excused' => /\ Owners(v) = {} /\ Past(v) = {} /\ Unpublished(v) = {} /\ Waiting(v) = {}
  BY ClaimedInFlight DEF RaceInv
<1>8. OneClaim'
  <2> SUFFICES ASSUME NEW w \in Values, w \notin excused'
               PROVE  AtMostOne(Owners(w)', Unpublished(w)', Waiting(w)')
    BY DEF OneClaim
  <2>1. CASE w = v
    <3>1. Owners(w)' = {} /\ Waiting(w)' = {} /\ Unpublished(w)' \subseteq {h}
      BY <1>5, <1>6, <1>7, <2>1
    <3> QED
      BY <3>1 DEF AtMostOne, Lone
  <2>2. CASE w # v
    <3>1. AtMostOne(Owners(w), Unpublished(w), Waiting(w))
      BY DEF RaceInv, OneClaim
    <3> QED
      BY <1>5, <1>6, <2>2, <3>1, FewerClaims
  <2> QED
    BY <2>1, <2>2
<1>9. Mine'
  <2> SUFFICES ASSUME NEW g \in Handlers, NEW e \in Emails, NEW m \in MsgIds \cup {0},
                      Registering(pc'[g], job'[g]), e = job'[g].req.email, m = job'[g].msg,
                      e \notin excused'
               PROVE  LeftTo(m, e)'
    BY DEF Mine
  <2>1. g # h
    BY <1>1, <1>2 DEF Registering
  <2>2. Registering(pc[g], job[g]) /\ e = job[g].req.email /\ m = job[g].msg /\ e \notin excused
    BY <1>2, <1>3, <2>1
  <2>3. LeftTo(m, e) /\ e \in Values
    BY <2>2 DEF RaceInv, Mine, Values
  <2>4. e # v
    <3>1. job[g].req \in Request /\ job[g].req.op = "create"
      BY <2>2 DEF RaceInv, TypeInv, JobsFit, Fits, Registering
    <3>2. job[g].req # NoRequest /\ e \in Sets(job[g].req)
      BY <2>2, <3>1, RequestKinds, RegisterSets
    <3>3. g \in Past(e)
      BY <2>2, <3>1, <3>2 DEF Past, Registering
    <3> QED
      BY <1>7, <3>3
  <2> QED
    BY <1>5, <1>6, <2>3, <2>4 DEF LeftTo
<1> QED
  BY <1>8, <1>9

LEMMA CheckRace == ASSUME RaceInv, NEW h \in Handlers, Check(h) PROVE OneClaim' /\ Mine'
<1> DEFINE r == job[h].req
           v == IF pc[h] = "checkEmail" THEN r.email ELSE r.username
<1>1. /\ pc[h] \in {"checkEmail", "checkName"} /\ r \in RegisterReq /\ v \in Values
      /\ UNCHANGED <<users, broker, service, born>>
  BY CheckedRequest, RegisterSets DEF Check, RaceInv, Values
<1>2. CASE Answer(h, "conflict", NoUser) /\ UNCHANGED excused
  <2>1. Moves(h) /\ pc'[h] = "answered"
    BY <1>2, AnswerMoves DEF RaceInv, TypeInv, Answers
  <2> QED
    BY <1>1, <1>2, <2>1, AnswerRace
<1>3. CASE /\ Goto(h, AfterCheck[pc[h]]) /\ UNCHANGED job
           /\ \/ /\ ~Taken(r, pc[h])
                 /\ excused' = IF Claimed(v) THEN excused \cup {v} ELSE excused
              \/ excused' = excused \cup {v}
  <2>1. excused \subseteq excused' /\ (v \in excused' \/ (Owners(v) = {} /\ ~Claimed(v)))
    BY <1>1, <1>3 DEF Taken
  <2> HIDE DEF v
  <2>2. v = (IF pc[h] = "checkEmail" THEN job[h].req.email ELSE job[h].req.username)
    BY DEF v
  <2> QED
    BY <1>1, <1>3, <2>1, <2>2, PassRace
<1> QED
  BY <1>2, <1>3 DEF Check

LEMMA WaitRace == ASSUME RaceInv, NEW h \in Handlers, Wait(h) PROVE OneClaim' /\ Mine'
<1>1. /\ pc[h] = "wait" /\ UNCHANGED <<users, broker, service, born, excused>>
  BY DEF Wait
<1>2. CASE Goto(h, "readBack") /\ UNCHANGED job
  <2>1. Moves(h) /\ pc'[h] = "readBack" /\ job'[h] = job[h]
    BY <1>2, GotoMoves DEF RaceInv, TypeInv, Steps
  <2>2. /\ \A v \in Values : ~Claims(v, pc'[h], job'[h])
        /\ Registering(pc'[h], job'[h]) => Registering(pc[h], job[h])
    BY <1>1, <2>1 DEF Claims, Registering
  <2> QED
    BY <1>1, <2>1, <2>2, QuietHandler
<1>3. CASE Answer(h, "timeout", NoUser)
  <2>1. Moves(h) /\ pc'[h] = "answered"
    BY <1>3, AnswerMoves DEF RaceInv, TypeInv, Answers
  <2> QED
    BY <1>1, <2>1, AnswerRace
<1> QED
  BY <1>2, <1>3 DEF Wait

\* A registration is only answered with a user that its own message inserted.
LEMMA ReadBackRace ==
  ASSUME RaceInv, NEW h \in Handlers, ReadBack(h)
  PROVE  /\ OneClaim' /\ Mine'
         /\ Moves(h) /\ pc'[h] = "answered"
         /\ job'[h].answer = "created" =>
              \/ job'[h].msg # 0 /\ job'[h].user \in born[job'[h].msg]
              \/ job'[h].req.email \in excused
<1>1. /\ pc[h] = "readBack" /\ job[h].req \in Request /\ job[h] \in Job
      /\ UNCHANGED <<users, broker, service, devicesUp, losses, born, excused>>
  BY DEF ReadBack, RaceInv, TypeInv, TypeOK, JobsFit, Fits
<1>2. PICK kind \in Answers, i \in UserIds \cup {NoUser} :
         /\ Answer(h, kind, i)
         /\ kind = "created" => job[h].req.op = "create" /\ i \in Owners(job[h].req.email)
  <2>1. \A i \in Found(job[h].req) : i \in UserIds
    BY <1>1, RequestKinds DEF Found, Owners
  <2>2. job[h].req.op = "create" => Found(job[h].req) = Owners(job[h].req.email)
    BY DEF Found
  <2>3. {"created", "ok", "error"} \subseteq Answers
    BY DEF Answers
  <2> QED
    BY <2>1, <2>2, <2>3 DEF ReadBack
<1>3. /\ Moves(h) /\ pc'[h] = "answered" /\ job'[h].req = job[h].req /\ job'[h].msg = job[h].msg
      /\ job'[h].answer = kind /\ job'[h].user = i
  BY <1>2, AnswerMoves DEF RaceInv, TypeInv
<1>4. OneClaim' /\ Mine'
  BY <1>1, <1>3, AnswerRace
<1>5. ASSUME kind = "created", job[h].req.email \notin excused
      PROVE  job[h].msg # 0 /\ i \in born[job[h].msg]
  <2>1. /\ Registering(pc[h], job[h]) /\ job[h].req.email \in Emails
        /\ job[h].msg \in MsgIds \cup {0} /\ i \in Owners(job[h].req.email)
    BY <1>1, <1>2, <1>5, RequestKinds, RegisterSets DEF Registering, Job
  <2>2. LeftTo(job[h].msg, job[h].req.email)
    BY <1>5, <2>1 DEF RaceInv, Mine
  <2> QED
    BY <2>1, <2>2 DEF LeftTo
<1> QED
  BY <1>3, <1>4, <1>5

LEMMA FinishRace == ASSUME RaceInv, NEW h \in Handlers, Finish(h) PROVE OneClaim' /\ Mine'
<1>1. NoJob \in Job /\ "idle" \in Steps
  BY DEF NoJob, Job, Answers, Steps
<1>2. Moves(h) /\ pc'[h] = "idle"
  BY <1>1 DEF Finish, Goto, Moves, RaceInv, TypeInv, TypeOK
<1> QED
  BY <1>2, AnswerRace DEF Finish

\* A registration that may claim a value and is published, or fails to be, leaves
\* its claim to its message.
LEMMA PublishRace == ASSUME RaceInv, NEW h \in Handlers, Publish(h) PROVE OneClaim' /\ Mine'
<1> DEFINE r == job[h].req
           n == sent + 1
<1>1. /\ pc[h] = "publish" /\ r \in Request /\ r.op \in Queues /\ job[h] \in Job
      /\ UNCHANGED <<users, service, severed, born>>
      /\ r # NoRequest
  <2>1. pc[h] = "publish" /\ UNCHANGED <<users, service, severed, born>>
    BY DEF Publish
  <2>2. r \in Request /\ job[h] \in Job
    BY <2>1 DEF RaceInv, TypeInv, TypeOK, JobsFit, Fits
  <2>3. r.op \in Queues /\ r # NoRequest
    BY <2>2, RequestKinds, GatewayAssumption DEF Queues
  <2> QED
    BY <2>1, <2>2, <2>3
<1>2. /\ AfterPublish[r.op] \in {"wait", "readBack"} /\ AfterPublish[r.op] \in Steps
  BY <1>1 DEF AfterPublish, Steps, Queues
<1>3. CASE Answer(h, "error", NoUser) /\ UNCHANGED <<queue, body, sent, excused>>
  <2>1. Moves(h) /\ pc'[h] = "answered"
    BY <1>3, AnswerMoves DEF RaceInv, TypeInv, Answers
  <2> QED
    BY <1>1, <1>3, <2>1, AnswerRace DEF broker
<1>4. ASSUME Moves(h), pc'[h] \in {"wait", "readBack"}, job'[h].req = r,
             excused \subseteq excused',
             \A v \in Values : Waiting(v)' \subseteq
                 Waiting(v) \cup (IF v \in Sets(r) THEN {job'[h].msg} ELSE {}),
             \A v \in Values : v \notin excused' /\ r.op # "create" =>
                 Waiting(v)' \subseteq Waiting(v)
      PROVE  OneClaim' /\ Mine'
  <2>1. \A g \in Handlers : g # h => pc'[g] = pc[g] /\ job'[g] = job[g]
    BY <1>4, Moved DEF RaceInv, TypeInv
  <2>2. \A v : Owners(v)' = Owners(v)
    BY <1>1, SameOwners
  <2>3. \A v \in Values : /\ Unpublished(v)' \subseteq Unpublished(v)
                          /\ h \notin Unpublished(v)'
    BY <1>4, <2>1 DEF Unpublished, Claims
  <2>4. ASSUME NEW v \in Values, v \notin excused', r.op = "create", v \in Sets(r)
        PROVE  /\ Owners(v) = {} /\ Waiting(v) = {} /\ Unpublished(v) \subseteq {h}
               /\ Waiting(v)' \subseteq {job'[h].msg}
    <3>1. h \in Unpublished(v)
      BY <1>1, <2>4 DEF Unpublished, Claims
    <3>2. AtMostOne(Owners(v), Unpublished(v), Waiting(v))
      BY <1>4, <2>4 DEF RaceInv, OneClaim
    <3>3. Owners(v) = {} /\ Waiting(v) = {} /\ Unpublished(v) \subseteq {h}
      BY <3>1, <3>2 DEF AtMostOne, Lone
    <3> QED
      BY <1>4, <3>3
  <2>5. ASSUME NEW v \in Values, v \notin excused', r.op # "create" \/ v \notin Sets(r)
        PROVE  Waiting(v)' \subseteq Waiting(v)
    BY <1>4, <2>5
  <2>6. OneClaim'
    <3> SUFFICES ASSUME NEW v \in Values, v \notin excused'
                 PROVE  AtMostOne(Owners(v)', Unpublished(v)', Waiting(v)')
      BY DEF OneClaim
    <3>1. CASE r.op = "create" /\ v \in Sets(r)
      <4>1. /\ Owners(v)' = {} /\ Unpublished(v)' = {} /\ Waiting(v)' \subseteq {job'[h].msg}
        BY <2>2, <2>3, <2>4, <3>1
      <4> QED
        BY <4>1 DEF AtMostOne, Lone
    <3>2. CASE ~(r.op = "create" /\ v \in Sets(r))
      <4>1. AtMostOne(Owners(v), Unpublished(v), Waiting(v))
        BY <1>4 DEF RaceInv, OneClaim
      <4>2. /\ Owners(v)' \subseteq Owners(v) /\ Unpublished(v)' \subseteq Unpublished(v)
            /\ Waiting(v)' \subseteq Waiting(v)
        BY <2>2, <2>3, <2>5, <3>2
      <4> QED
        BY <4>1, <4>2, FewerClaims
    <3> QED
      BY <3>1, <3>2
  <2>7. Mine'
    <3> SUFFICES ASSUME NEW g \in Handlers, NEW e \in Emails, NEW m \in MsgIds \cup {0},
                        Registering(pc'[g], job'[g]), e = job'[g].req.email, m = job'[g].msg,
                        e \notin excused'
                 PROVE  LeftTo(m, e)'
      BY DEF Mine
    <3>1. e \in Values
      BY DEF Values
    <3>2. CASE g = h
      <4>1. r.op = "create" /\ e \in Sets(r)
        BY <1>1, <1>4, <3>2, RequestKinds, RegisterSets DEF Registering
      <4>2. /\ Owners(e)' = {} /\ Unpublished(e)' = {} /\ Waiting(e)' \subseteq {m}
        BY <2>2, <2>3, <2>4, <3>1, <3>2, <4>1
      <4> QED
        BY <4>2 DEF LeftTo
    <3>3. CASE g # h
      <4>1. Registering(pc[g], job[g]) /\ e = job[g].req.email /\ m = job[g].msg /\ e \notin excused
        BY <1>4, <2>1, <3>3
      <4>2. LeftTo(m, e)
        BY <4>1 DEF RaceInv, Mine
      <4>3. ~(r.op = "create" /\ e \in Sets(r))
        <5> SUFFICES ASSUME r.op = "create", e \in Sets(r) PROVE FALSE
          OBVIOUS
        <5>1. h \in Unpublished(e)
          BY <1>1 DEF Unpublished, Claims
        <5> QED
          BY <4>2, <5>1 DEF LeftTo
      <4>4. /\ Owners(e)' = Owners(e) /\ Waiting(e)' \subseteq Waiting(e)
            /\ Unpublished(e)' \subseteq Unpublished(e)
        BY <2>2, <2>3, <2>5, <3>1, <4>3
      <4>5. born' = born
        BY <1>1
      <4> QED
        BY <4>2, <4>4, <4>5 DEF LeftTo
    <3> QED
      BY <3>2, <3>3
  <2> QED
    BY <2>6, <2>7
<1>5. CASE Goto(h, AfterPublish[r.op]) /\ UNCHANGED <<queue, body, sent, job, excused>>
  <2>1. Moves(h) /\ pc'[h] \in {"wait", "readBack"} /\ job'[h] = job[h]
    BY <1>2, <1>5, GotoMoves DEF RaceInv, TypeInv
  <2>2. \A v : Waiting(v)' = Waiting(v)
    BY <1>1, <1>5, SameWaiting DEF service
  <2> QED
    BY <1>4, <1>5, <2>1, <2>2
<1>6. CASE /\ sent' = n /\ body' = [body EXCEPT ![n] = r]
           /\ queue' = [queue EXCEPT ![r.op] = Append(@, n)]
           /\ job' = [job EXCEPT ![h].msg = n] /\ Goto(h, AfterPublish[r.op])
           /\ excused' = IF r.op = "update" THEN excused \cup Sets(r) ELSE excused
  <2> DEFINE j == [job[h] EXCEPT !.msg = n]
  <2>1. pc' = [pc EXCEPT ![h] = AfterPublish[r.op]] /\ job' = [job EXCEPT ![h] = j]
    BY <1>6 DEF Goto, RaceInv, TypeInv, TypeOK
  <2>2. n \in MsgIds /\ sent \in Nat
    <3>1. TypeOK'
      BY PublishTypes DEF RaceInv, TypeInv
    <3>2. n \in 0 .. MaxMessages /\ sent \in Nat /\ MaxMessages \in Nat
      BY <1>6, <3>1, GatewayAssumption DEF TypeOK, RaceInv, TypeInv
    <3> QED
      BY <3>2 DEF MsgIds
  <2>3. j \in Job /\ j.req = r /\ j.msg = n
    BY <1>1, <2>2 DEF Job
  <2> HIDE DEF j
  <2>4. /\ Moves(h) /\ pc'[h] \in {"wait", "readBack"} /\ job'[h].req = r /\ job'[h].msg = n
    BY <1>2, <2>1, <2>3 DEF Moves, RaceInv, TypeInv, TypeOK
  <2>5. ASSUME NEW m \in MsgIds, m # n, Unwritten(m)' PROVE Unwritten(m) /\ body'[m] = body[m]
    <3>1. PICK q \in Queues : m \in Elems(queue'[q]) \/ (m = held'[q] /\ q \notin written')
      BY <2>5 DEF Unwritten
    <3>2. held'[q] = held[q] /\ written' = written /\ queue[q] \in Seq(MsgIds)
      BY <1>1 DEF service, RaceInv, TypeInv, TypeOK
    <3>3. Elems(queue'[q]) \subseteq Elems(queue[q]) \cup {n}
      BY <1>6, <2>2, <3>2, AppendQueue DEF RaceInv, TypeInv, TypeOK
    <3>4. body'[m] = body[m]
      BY <1>6, <2>5 DEF RaceInv, TypeInv, TypeOK
    <3> QED
      BY <2>5, <3>1, <3>2, <3>3, <3>4 DEF Unwritten
  <2>6. body'[n] = r
    BY <1>6, <2>2 DEF RaceInv, TypeInv, TypeOK
  <2>7. \A v \in Values : Waiting(v)' \subseteq
                 Waiting(v) \cup (IF v \in Sets(r) THEN {n} ELSE {})
    BY <2>5, <2>6 DEF Waiting
  <2>8. excused \subseteq excused' /\ (r.op = "update" => Sets(r) \subseteq excused')
    BY <1>6
  <2>9. r.op # "create" => Sets(r) \subseteq excused'
    BY <1>1, <2>8 DEF Sets, Queues
  <2> QED
    BY <1>4, <2>4, <2>7, <2>8, <2>9
<1> QED
  BY <1>3, <1>5, <1>6 DEF Publish

\* A step of the consumers, with no user changed: fewer messages are waiting.
LEMMA QuietConsumer ==
  ASSUME RaceInv, UNCHANGED <<users, body, local, born>>, excused \subseteq excused',
         \A v \in Values : v \notin excused' => Waiting(v)' \subseteq Waiting(v)
  PROVE  OneClaim' /\ Mine'
<1>1. \A v \in Values : Owners(v)' = Owners(v) /\ Unpublished(v)' = Unpublished(v)
  BY SameOwners, SameUnpublished
<1>2. \A h \in Handlers : pc'[h] = pc[h] /\ job'[h] = job[h]
  BY DEF local
<1> QED
  BY <1>1, <1>2, QuietKeeps

\* The same, if a message is on a queue or held unwritten only if it was before.
LEMMA FewerMessages ==
  ASSUME RaceInv, UNCHANGED <<users, body, local, born>>, excused \subseteq excused',
         \A n \in MsgIds, q \in Queues :
           n \in Elems(queue'[q]) \/ (n = held'[q] /\ q \notin written') => Unwritten(n)
  PROVE  OneClaim' /\ Mine'
<1>1. \A n \in MsgIds : Unwritten(n)' => Unwritten(n)
  BY DEF Unwritten
<1>2. \A v \in Values : Waiting(v)' \subseteq Waiting(v)
  BY <1>1 DEF Waiting
<1> QED
  BY <1>2, QuietConsumer

LEMMA UsersTakeRace == ASSUME RaceInv, NEW q \in Queues, UsersTake(q) PROVE OneClaim' /\ Mine'
<1>1. /\ queue[q] # <<>> /\ queue[q] \in Seq(MsgIds)
      /\ held' = [held EXCEPT ![q] = Head(queue[q])]
      /\ queue' = [queue EXCEPT ![q] = Tail(queue[q])]
      /\ UNCHANGED <<users, body, written, local, born, excused>>
  BY DEF UsersTake, RaceInv, TypeInv, TypeOK
<1>2. /\ Head(queue[q]) \in Elems(queue[q])
      /\ Elems(queue[q]) = Elems(Tail(queue[q])) \cup {Head(queue[q])}
  BY <1>1, TakeQueue
<1>3. ASSUME NEW n \in MsgIds, NEW p \in Queues,
             n \in Elems(queue'[p]) \/ (n = held'[p] /\ p \notin written')
      PROVE  Unwritten(n)
  <2>1. CASE p = q
    BY <1>1, <1>2, <1>3, <2>1 DEF Unwritten, RaceInv, TypeInv, TypeOK
  <2>2. CASE p # q
    BY <1>1, <1>3, <2>2 DEF Unwritten, RaceInv, TypeInv, TypeOK
  <2> QED
    BY <2>1, <2>2
<1> QED
  BY <1>1, <1>3, FewerMessages

LEMMA DropRace ==
  ASSUME RaceInv, NEW q \in Queues, queue[q] # <<>>,
         queue' \in {queue, [queue EXCEPT ![q] = Tail(queue[q])]},
         UNCHANGED <<users, body, service, local, born, excused>>
  PROVE  OneClaim' /\ Mine'
<1>1. Elems(Tail(queue[q])) \subseteq Elems(queue[q])
  BY QueueFacts, TakeQueue DEF RaceInv
<1>2. ASSUME NEW n \in MsgIds, NEW p \in Queues,
             n \in Elems(queue'[p]) \/ (n = held'[p] /\ p \notin written')
      PROVE  Unwritten(n)
  <2>1. /\ held'[p] = held[p] /\ written' = written /\ queue'[p] \in {queue[p], Tail(queue[q])}
        /\ (p # q => queue'[p] = queue[p])
    BY DEF RaceInv, TypeInv, TypeOK, service
  <2> QED
    BY <1>1, <1>2, <2>1 DEF Unwritten
<1> QED
  BY <1>2, FewerMessages

LEMMA DevicesRace == ASSUME RaceInv, NEW q \in Queues, DevicesTake(q) PROVE OneClaim' /\ Mine'
<1>1. queue' \in {queue, [queue EXCEPT ![q] = Tail(queue[q])]}
  BY DEF DevicesTake
<1> QED
  BY <1>1, DropRace DEF DevicesTake

LEMMA SwallowRace == ASSUME RaceInv, NEW q \in Queues, Swallow(q) PROVE OneClaim' /\ Mine'
<1>1. queue' = [queue EXCEPT ![q] = Tail(queue[q])]
  BY DEF Swallow
<1> QED
  BY <1>1, DropRace DEF Swallow

\* The write of a registration is the end of its message's claim, and the
\* beginning of a user's.  An update only spreads values that are excused.
LEMMA UsersHandleRace ==
  ASSUME RaceInv, NEW q \in Queues, UsersHandle(q)
  PROVE  /\ OneClaim' /\ Mine'
         /\ \A m \in MsgIds : born[m] \subseteq born'[m]
<1> DEFINE n == held[q]
           r == body[n]
<1>1. /\ n # 0 /\ n \in MsgIds /\ r \in Request /\ r.op = q /\ q \notin written
      /\ q = "update" => Sets(r) \subseteq excused
      /\ n \notin Elems(queue[q])
      /\ UNCHANGED <<queue, body, local, excused>>
  BY QueueFacts DEF UsersHandle, RaceInv, broker
<1>2. /\ Write(n, r) \/ UNCHANGED <<users, born>>
      /\ \/ written' = written \cup {q} /\ UNCHANGED held
         \/ held' = [held EXCEPT ![q] = 0] /\ UNCHANGED written
  BY DEF UsersHandle
<1>3. \A p \in Queues : p # q => n \notin Elems(queue[p]) /\ n # held[p]
  BY <1>1, QueueFacts DEF RaceInv
<1>4. ASSUME NEW m \in MsgIds, Unwritten(m)' PROVE Unwritten(m) /\ m # n
  <2>1. PICK p \in Queues : m \in Elems(queue[p]) \/ (m = held'[p] /\ p \notin written')
    BY <1>1, <1>4 DEF Unwritten
  <2>2. CASE p # q
    BY <1>2, <1>3, <2>1, <2>2 DEF Unwritten, RaceInv, TypeInv, TypeOK
  <2>3. CASE p = q
    <3>1. m \in Elems(queue[q])
      BY <1>2, <2>1, <2>3, ZeroIsNoMessage DEF RaceInv, TypeInv, TypeOK
    <3> QED
      BY <1>1, <3>1 DEF Unwritten
  <2> QED
    BY <2>2, <2>3
<1>5. \A v \in Values : Waiting(v)' \subseteq Waiting(v) \ {n}
  BY <1>1, <1>4 DEF Waiting
<1>6. \A v \in Values : v \in Sets(r) => n \in Waiting(v)
  BY <1>1 DEF Waiting, Unwritten
<1> HIDE DEF n, r
<1>7. CASE UNCHANGED <<users, born>>
  <2>1. OneClaim' /\ Mine'
    BY <1>1, <1>5, <1>7, QuietConsumer
  <2> QED
    BY <1>7, <2>1
<1>8. \A v \in Values : Unpublished(v)' = Unpublished(v)
  BY <1>1, SameUnpublished
<1>9. \A h \in Handlers : pc'[h] = pc[h] /\ job'[h] = job[h]
  BY <1>1 DEF local
<1>10. CASE r.op = "update" /\ Write(n, r)
  <2>1. /\ r \in UpdateReq /\ users[r.id] # NoUser /\ r.id \in UserIds
        /\ users' = [users EXCEPT ![r.id] = Merge(users[r.id], r)] /\ born' = born
    BY <1>1, <1>10, RequestKinds, UpdateSets DEF Write, Changes
  <2>2. users[r.id] \in User
    BY <2>1 DEF RaceInv, TypeInv, TypeOK
  <2>3. ASSUME NEW v \in Values, v \notin excused, NEW i \in Owners(v)' PROVE i \in Owners(v)
    <3>1. i \in UserIds /\ users'[i] # NoUser /\ v \in {users'[i].email, users'[i].username}
      BY <2>3 DEF Owners
    <3>2. CASE i = r.id
      <4>1. users'[i] = Merge(users[i], r)
        BY <2>1, <3>2 DEF RaceInv, TypeInv, TypeOK
      <4>2. v \in {users[i].email, users[i].username} \cup Sets(r)
        BY <2>1, <2>2, <3>1, <3>2, <4>1, MergeUser
      <4>3. v \notin Sets(r)
        BY <1>1, <1>10, <2>3
      <4> QED
        BY <2>1, <3>1, <3>2, <4>2, <4>3 DEF Owners
    <3>3. CASE i # r.id
      BY <2>1, <3>1, <3>3 DEF Owners, RaceInv, TypeInv, TypeOK
    <3> QED
      BY <3>2, <3>3
  <2>4. OneClaim' /\ Mine'
    BY <1>1, <1>5, <1>8, <1>9, <2>1, <2>3, QuietKeeps
  <2> QED
    BY <2>1, <2>4
<1>11. CASE r.op = "create" /\ Write(n, r)
  <2>1. PICK i \in UserIds :
          /\ users[i] = NoUser
          /\ users' = [users EXCEPT ![i] = [email |-> r.email, username |-> r.username]]
          /\ born' = [born EXCEPT ![n] = @ \cup {i}]
    BY <1>11 DEF Write
  <2>2. r \in RegisterReq /\ Sets(r) = {r.email, r.username}
    BY <1>1, <1>11, RequestKinds, RegisterSets
  <2>3. /\ \A m \in MsgIds : born[m] \subseteq born'[m]
        /\ i \in born'[n]
    BY <1>1, <2>1 DEF RaceInv, TypeInv, TypeOK
  <2>4. \A v \in Values : Owners(v)' \subseteq Owners(v) \cup (IF v \in Sets(r) THEN {i} ELSE {})
    <3> SUFFICES ASSUME NEW v \in Values, NEW k \in Owners(v)'
                 PROVE  k \in Owners(v) \/ (k = i /\ v \in Sets(r))
      OBVIOUS
    <3>1. k \in UserIds /\ users'[k] # NoUser /\ v \in {users'[k].email, users'[k].username}
      BY DEF Owners
    <3>2. CASE k = i
      <4>1. users'[k] = [email |-> r.email, username |-> r.username]
        BY <2>1, <3>2 DEF RaceInv, TypeInv, TypeOK
      <4> QED
        BY <2>2, <3>1, <3>2, <4>1
    <3>3. CASE k # i
      BY <2>1, <3>1, <3>3 DEF Owners, RaceInv, TypeInv, TypeOK
    <3> QED
      BY <3>2, <3>3
  <2>5. ASSUME NEW v \in Values, v \notin excused, v \in Sets(r)
        PROVE  /\ Owners(v) = {} /\ Unpublished(v) = {} /\ Waiting(v) = {n}
               /\ Owners(v)' \subseteq {i} /\ Waiting(v)' = {}
    <3>1. AtMostOne(Owners(v), Unpublished(v), Waiting(v)) /\ n \in Waiting(v)
      BY <1>6, <2>5 DEF RaceInv, OneClaim
    <3>2. Owners(v) = {} /\ Unpublished(v) = {} /\ Waiting(v) = {n}
      BY <3>1 DEF AtMostOne, Lone
    <3> QED
      BY <1>5, <2>4, <2>5, <3>2
  <2>6. OneClaim'
    <3> SUFFICES ASSUME NEW v \in Values, v \notin excused
                 PROVE  AtMostOne(Owners(v)', Unpublished(v)', Waiting(v)')
      BY <1>1 DEF OneClaim
    <3>1. CASE v \in Sets(r)
      <4>1. Owners(v)' \subseteq {i} /\ Waiting(v)' = {} /\ Unpublished(v)' = {}
        BY <1>8, <2>5, <3>1
      <4> QED
        BY <4>1 DEF AtMostOne, Lone
    <3>2. CASE v \notin Sets(r)
      <4>1. AtMostOne(Owners(v), Unpublished(v), Waiting(v))
        BY DEF RaceInv, OneClaim
      <4> QED
        BY <1>5, <1>8, <2>4, <3>2, <4>1, FewerClaims
    <3> QED
      BY <3>1, <3>2
  <2>7. Mine'
    <3> SUFFICES ASSUME NEW g \in Handlers, NEW e \in Emails, NEW m \in MsgIds \cup {0},
                        Registering(pc'[g], job'[g]), e = job'[g].req.email, m = job'[g].msg,
                        e \notin excused
                 PROVE  LeftTo(m, e)'
      BY <1>1 DEF Mine
    <3>1. LeftTo(m, e) /\ e \in Values
      BY <1>9 DEF RaceInv, Mine, Values
    <3>2. Waiting(e)' \subseteq {m} /\ Unpublished(e)' = {}
      BY <1>5, <1>8, <3>1 DEF LeftTo
    <3>3. CASE e \in Sets(r)
      <4>1. m = n
        BY <1>6, <3>1, <3>3 DEF LeftTo
      <4> QED
        BY <1>1, <2>3, <2>5, <3>1, <3>2, <3>3, <4>1 DEF LeftTo
    <3>4. CASE e \notin Sets(r)
      <4>1. Owners(e)' \subseteq Owners(e)
        BY <2>4, <3>1, <3>4
      <4> QED
        BY <2>3, <3>1, <3>2, <4>1 DEF LeftTo
    <3> QED
      BY <3>3, <3>4
  <2> QED
    BY <2>3, <2>6, <2>7
<1> QED
  BY <1>2, <1>7, <1>10, <1>11 DEF Write

LEMMA UsersAckRace == ASSUME RaceInv, NEW q \in Queues, UsersAck(q) PROVE OneClaim' /\ Mine'
<1>1. /\ held' = [held EXCEPT ![q] = 0] /\ written' = written \ {q}
      /\ UNCHANGED <<users, queue, body, local, born, excused>>
  BY DEF UsersAck, broker
<1>2. ASSUME NEW n \in MsgIds, NEW p \in Queues,
             n \in Elems(queue'[p]) \/ (n = held'[p] /\ p \notin written')
      PROVE  Unwritten(n)
  <2>1. held'[p] = IF p = q THEN 0 ELSE held[p]
    BY <1>1 DEF RaceInv, TypeInv, TypeOK
  <2>2. p \notin written' => p \notin written \/ p = q
    BY <1>1
  <2> QED
    BY <1>1, <1>2, <2>1, <2>2, ZeroIsNoMessage DEF Unwritten
<1> QED
  BY <1>1, <1>2, FewerMessages

\* USERS handles a message once more after a crash only if the broker was not
\* restarted, and then the values of those it had written are excused.
LEMMA UsersCrashRace == ASSUME RaceInv, UsersCrash PROVE OneClaim' /\ Mine'
<1>1. /\ held' = [q \in Queues |-> 0] /\ written' = {} /\ excused \subseteq excused'
      /\ UNCHANGED <<users, body, local, born>>
  BY CrashExcuses DEF UsersCrash, RaceInv
<1>2. ASSUME NEW v \in Values, v \notin excused', NEW n \in Waiting(v)' PROVE n \in Waiting(v)
  <2>1. /\ n \in MsgIds /\ v \in Sets(body[n])
        /\ \E q \in Queues : n \in Elems(queue'[q]) \/ n = held'[q]
    BY <1>1, <1>2 DEF Waiting, Unwritten
  <2>2. PICK q \in Queues : n \in Elems(queue'[q])
    BY <1>1, <2>1, ZeroIsNoMessage
  <2>3. n \in Elems(queue[q]) \/ n = held[q]
    BY <2>2, CrashedQueue DEF RaceInv
  <2>4. CASE n = held[q] /\ q \in written /\ ~severed
    <3>1. Sets(body[n]) \subseteq excused'
      BY <2>4, CrashExcuses DEF RaceInv
    <3> QED
      BY <1>2, <2>1, <3>1
  <2>5. CASE severed
    BY <2>2, <2>5, EmptyQueue DEF UsersCrash
  <2> QED
    BY <2>1, <2>3, <2>4, <2>5 DEF Waiting, Unwritten, RaceInv, TypeInv, TypeOK
<1> QED
  BY <1>1, <1>2, QuietConsumer

LEMMA BrokerRestartRace == ASSUME RaceInv, BrokerRestart PROVE OneClaim' /\ Mine'
<1>1. /\ \A q \in Queues : queue'[q] \in Remains(queue[q])
      /\ UNCHANGED <<users, body, held, written, local, born, excused>>
  BY DEF BrokerRestart, service
<1>2. \A q \in Queues : Elems(queue'[q]) \subseteq Elems(queue[q])
  BY <1>1, QueueFacts, RemainsQueue DEF RaceInv
<1>3. \A n \in MsgIds, q \in Queues :
        n \in Elems(queue'[q]) \/ (n = held'[q] /\ q \notin written') => Unwritten(n)
  BY <1>1, <1>2 DEF Unwritten
<1> QED
  BY <1>1, <1>3, FewerMessages

-----------------------------------------------------------------------------
(* The properties *)

LEMMA InitRace == Init => RaceInv /\ CreatedIsOwn
<1> SUFFICES ASSUME Init PROVE OneClaim /\ Mine /\ CreatedIsOwn
  BY InitTypeInv DEF RaceInv
<1>1. \A h \in Handlers : pc[h] = "idle"
  BY DEF Init
<1>2. \A v \in Values : Unpublished(v) = {}
  BY <1>1 DEF Unpublished, Claims
<1>3. \A v \in Values : Waiting(v) = {}
  <2>1. \A n \in MsgIds : ~Unwritten(n)
    BY EmptyQueue, ZeroIsNoMessage DEF Init, Unwritten
  <2> QED
    BY <2>1 DEF Waiting
<1>4. \A v \in Values : Owners(v) \subseteq {1}
  BY DEF Init, Owners
<1>5. OneClaim
  BY <1>2, <1>3, <1>4 DEF OneClaim, AtMostOne, Lone
<1>6. Mine /\ CreatedIsOwn
  BY <1>1 DEF Mine, Registering, CreatedIsOwn
<1> QED
  BY <1>5, <1>6

\* Only ReadBack answers that a user was created; what was inserted for a message
\* and what is excused stay so.
LEMMA CreatedKept ==
  ASSUME TypeInv, CreatedIsOwn, NEW h \in Handlers, Moves(h), UNCHANGED born,
         excused \subseteq excused',
         pc'[h] = "answered" /\ job'[h].answer = "created" =>
           \/ job'[h].msg # 0 /\ job'[h].user \in born[job'[h].msg]
           \/ job'[h].req.email \in excused
  PROVE  CreatedIsOwn'
<1>1. \A g \in Handlers : g # h => pc'[g] = pc[g] /\ job'[g] = job[g]
  BY Moved DEF TypeInv
<1> QED
  BY <1>1 DEF CreatedIsOwn

LEMMA CreatedConsumed ==
  ASSUME TypeInv, CreatedIsOwn, UNCHANGED local, \A m \in MsgIds : born[m] \subseteq born'[m],
         excused \subseteq excused'
  PROVE  CreatedIsOwn'
<1> SUFFICES ASSUME NEW h \in Handlers, pc'[h] = "answered", job'[h].answer = "created"
             PROVE  \/ job'[h].msg # 0 /\ job'[h].user \in born'[job'[h].msg]
                    \/ job'[h].req.email \in excused'
  BY DEF CreatedIsOwn
<1>1. pc' = pc /\ job' = job
  BY DEF local
<1>2. job[h] \in Job
  BY DEF TypeInv, TypeOK
<1>3. job[h].msg \in MsgIds \cup {0}
  BY <1>2 DEF Job
<1> QED
  BY <1>1, <1>3 DEF CreatedIsOwn

LEMMA HandlerCreated ==
  ASSUME RaceInv, CreatedIsOwn, NEW h \in Handlers, Ask(h) \/ Refuse(h) \/ Serve(h)
  PROVE  CreatedIsOwn'
<1>1. TypeInv /\ TypeOK /\ NoUser \in UserIds \cup {NoUser}
  BY DEF RaceInv, TypeInv
<1>2. CASE ReadBack(h)
  BY <1>1, <1>2, ReadBackRace, CreatedKept DEF ReadBack
<1>3. ASSUME Moves(h), UNCHANGED born, excused \subseteq excused', pc'[h] # "answered"
      PROVE  CreatedIsOwn'
  BY <1>1, <1>3, CreatedKept
<1>4. ASSUME NEW kind \in Answers \ {"created"}, Answer(h, kind, NoUser), UNCHANGED born,
             excused \subseteq excused'
      PROVE  CreatedIsOwn'
  BY <1>1, <1>4, AnswerMoves, CreatedKept
<1>5. CASE Ask(h)
  <2>1. PICK r \in Requests : /\ Goto(h, Entry[r.op])
                              /\ job' = [job EXCEPT ![h] = [NoJob EXCEPT !.req = r]]
    BY <1>5 DEF Ask
  <2>2. r \in Request /\ r.op \in {"create", "update", "delete"}
    BY GatewayAssumption, RequestKinds
  <2>3. [NoJob EXCEPT !.req = r] \in Job
    BY <2>2 DEF NoJob, Job, Answers
  <2>4. Entry[r.op] \in Steps /\ Entry[r.op] # "answered"
    BY <2>2 DEF Entry, Steps
  <2>5. Moves(h) /\ pc'[h] = Entry[r.op]
    BY <1>1, <2>1, <2>3, <2>4 DEF Moves, Goto, TypeOK
  <2> QED
    BY <1>3, <1>5, <2>4, <2>5 DEF Ask
<1>6. CASE Check(h)
  <2>1. /\ AfterCheck[pc[h]] \in Steps /\ AfterCheck[pc[h]] # "answered"
        /\ UNCHANGED born /\ excused \subseteq excused'
    BY <1>6 DEF Check, AfterCheck, Steps
  <2>2. CASE Answer(h, "conflict", NoUser)
    BY <1>4, <2>1, <2>2 DEF Answers
  <2>3. CASE Goto(h, AfterCheck[pc[h]]) /\ UNCHANGED job
    BY <1>1, <1>3, <2>1, <2>3, GotoMoves
  <2> QED
    BY <1>6, <2>2, <2>3 DEF Check
<1>7. CASE Wait(h)
  <2>1. UNCHANGED <<born, excused>> /\ "readBack" \in Steps /\ "timeout" \in Answers
    BY <1>7 DEF Wait, Steps, Answers
  <2>2. CASE Goto(h, "readBack") /\ UNCHANGED job
    BY <1>1, <1>3, <2>1, <2>2, GotoMoves
  <2>3. CASE Answer(h, "timeout", NoUser)
    BY <1>4, <2>1, <2>3
  <2> QED
    BY <1>7, <2>2, <2>3 DEF Wait
<1>8. CASE Finish(h)
  <2>1. NoJob \in Job /\ "idle" \in Steps
    BY DEF NoJob, Job, Answers, Steps
  <2>2. Moves(h) /\ pc'[h] = "idle" /\ UNCHANGED <<born, excused>>
    BY <1>1, <1>8, <2>1 DEF Finish, Goto, Moves, TypeOK
  <2> QED
    BY <1>3, <2>2
<1>9. CASE Publish(h)
  <2> DEFINE step == AfterPublish[job[h].req.op]
  <2>1. /\ pc[h] = "publish" /\ job[h].req \in Request
        /\ UNCHANGED born /\ excused \subseteq excused'
    BY <1>1, <1>9 DEF Publish, TypeInv, JobsFit, Fits
  <2>2. step \in Steps /\ step # "answered"
    BY <2>1, RequestKinds DEF AfterPublish, Steps
  <2> HIDE DEF step
  <2>3. CASE Answer(h, "error", NoUser)
    BY <1>4, <2>1, <2>3 DEF Answers
  <2>4. CASE Goto(h, step) /\ UNCHANGED job
    BY <1>1, <1>3, <2>1, <2>2, <2>4, GotoMoves
  <2>5. CASE Goto(h, step) /\ job' = [job EXCEPT ![h].msg = sent + 1] /\ sent' = sent + 1
    <3> DEFINE j == [job[h] EXCEPT !.msg = sent + 1]
    <3>1. pc' = [pc EXCEPT ![h] = step] /\ job' = [job EXCEPT ![h] = j] /\ job'[h] = j
      BY <1>1, <2>5 DEF Goto, TypeOK
    <3>2. job'[h] \in Job
      BY <1>1, <1>9, PublishTypes DEF TypeInv, TypeOK
    <3> HIDE DEF j
    <3>3. Moves(h) /\ pc'[h] = step
      BY <1>1, <2>2, <3>1, <3>2 DEF Moves, TypeOK
    <3> QED
      BY <1>3, <2>1, <2>2, <3>3
  <2> QED
    BY <1>9, <2>3, <2>4, <2>5 DEF Publish, step
<1>10. CASE Refuse(h)
  BY <1>4, <1>10 DEF Refuse, Answers
<1> QED
  BY <1>2, <1>5, <1>6, <1>7, <1>8, <1>9, <1>10 DEF Serve

LEMMA NextRace == RaceInv /\ CreatedIsOwn /\ [Next]_vars => RaceInv' /\ CreatedIsOwn'
<1> SUFFICES ASSUME RaceInv, CreatedIsOwn, [Next]_vars
             PROVE  OneClaim' /\ Mine' /\ CreatedIsOwn'
  BY NextTypeInv DEF RaceInv
<1>1. TypeInv
  BY DEF RaceInv
<1>2. CASE UNCHANGED vars
  <2>1. /\ UNCHANGED <<users, body, local, born>> /\ excused \subseteq excused'
        /\ \A v \in Values : Waiting(v)' \subseteq Waiting(v)
        /\ \A m \in MsgIds : born[m] \subseteq born'[m]
    BY <1>2, SameWaiting DEF vars, broker, service
  <2> QED
    BY <1>1, <2>1, QuietConsumer, CreatedConsumed
<1>3. ASSUME NEW h \in Handlers, Ask(h) \/ Refuse(h) \/ Serve(h)
      PROVE  OneClaim' /\ Mine' /\ CreatedIsOwn'
  <2>1. OneClaim' /\ Mine'
    BY <1>3, AskRace, RefuseRace, CheckRace, PublishRace, WaitRace, ReadBackRace, FinishRace DEF Serve
  <2> QED
    BY <1>3, <2>1, HandlerCreated
<1>4. ASSUME NEW q \in Queues, UsersHandle(q) PROVE OneClaim' /\ Mine' /\ CreatedIsOwn'
  BY <1>1, <1>4, UsersHandleRace, CreatedConsumed DEF UsersHandle
<1>5. ASSUME OneClaim' /\ Mine', UNCHANGED <<local, born>>, excused \subseteq excused'
      PROVE  OneClaim' /\ Mine' /\ CreatedIsOwn'
  <2>1. \A m \in MsgIds : born[m] \subseteq born'[m]
    BY <1>5
  <2> QED
    BY <1>1, <1>5, <2>1, CreatedConsumed
<1>6. ASSUME NEW q \in Queues, UsersTake(q) \/ UsersAck(q) \/ DevicesTake(q) \/ Swallow(q)
      PROVE  OneClaim' /\ Mine' /\ CreatedIsOwn'
  <2>1. UNCHANGED <<local, born, excused>>
    BY <1>6 DEF UsersTake, UsersAck, DevicesTake, Swallow
  <2> QED
    BY <1>5, <1>6, <2>1, UsersTakeRace, UsersAckRace, DevicesRace, SwallowRace
<1>7. CASE UsersCrash
  <2>1. UNCHANGED <<local, born>> /\ excused \subseteq excused'
    BY <1>1, <1>7, CrashExcuses DEF UsersCrash
  <2> QED
    BY <1>5, <1>7, <2>1, UsersCrashRace
<1>8. CASE BrokerRestart
  BY <1>5, <1>8, BrokerRestartRace DEF BrokerRestart
<1>9. CASE DevicesRestart
  <2>1. /\ UNCHANGED <<users, queue, body, held, written, local, born, excused>>
    BY <1>9 DEF DevicesRestart, broker, service
  <2>2. \A v \in Values : Waiting(v)' \subseteq Waiting(v)
    BY <2>1, SameWaiting
  <2> QED
    BY <1>5, <2>1, <2>2, QuietConsumer
<1> QED
  BY <1>2, <1>3, <1>4, <1>6, <1>7, <1>8, <1>9 DEF Next, Consume

LEMMA RaceIsInvariant == Spec => [](RaceInv /\ CreatedIsOwn)
BY InitRace, NextRace, PTL DEF Spec

\* Two users share an e-mail or a username only after one of the four things that
\* excuse it: two registrations, or a registration and an update, on the way to
\* the same value; a check that failed; an update; a registration written twice.
THEOREM DuplicateCaused == Spec => []DuplicateHasCause
<1>1. OneClaim => DuplicateHasCause
  <2> SUFFICES ASSUME OneClaim, NEW v \in Emails \cup Usernames, v \notin excused
               PROVE  ~(Cardinality(Owners(v)) > 1)
    BY DEF DuplicateHasCause
  <2>1. Lone(Owners(v))
    BY DEF OneClaim, AtMostOne, Values
  <2>2. CASE Owners(v) = {}
    BY <2>2, FS_EmptySet
  <2>3. CASE Owners(v) # {}
    <3>1. PICK i : i \in Owners(v)
      BY <2>3
    <3>2. Owners(v) = {i}
      BY <2>1, <3>1 DEF Lone
    <3>3. Cardinality(Owners(v)) = 1
      BY <3>2, FS_Singleton
    <3> QED
      BY <3>3
  <2> QED
    BY <2>2, <2>3
<1> QED
  BY <1>1, RaceIsInvariant, PTL DEF RaceInv

\* A registration answered with a user is answered with one that its own message
\* inserted, unless one of those four things happened to its e-mail, although the
\* handler only looks the e-mail up again.
THEOREM CreatedOwn == Spec => []CreatedIsOwn
BY RaceIsInvariant, PTL

=============================================================================
