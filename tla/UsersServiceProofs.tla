------------------------- MODULE UsersServiceProofs -------------------------
(***************************************************************************)
(* Proofs about UsersService, for every value of its constants: any number *)
(* of users, gRPC clients, messages, failed calls and crashes.             *)
(***************************************************************************)
EXTENDS UsersService, FiniteSetTheorems, TLAPS

-----------------------------------------------------------------------------
(* What the steps of a handler know about its local variables. *)

\* The request a goroutine works on is one its current step can serve, and it
\* holds a user where the step needs one.
Fits(step, j) ==
  /\ step \in {"check", "insert"} => j.req \in CreateReq
  /\ step = "find" => j.req \in UpdateReq \cup DeleteReq \cup LoginReq \cup GetByIdReq
  /\ step = "cacheGet" => j.req \in GetByIdReq
  /\ step = "write" => /\ j.req \in UpdateReq \cup DeleteReq
                       /\ j.user \in User
                       /\ j.user.id = j.req.id
  /\ step = "cacheSet" => /\ j.req \in CreateReq \cup UpdateReq \cup LoginReq
                          /\ j.user \in User

\* The request is the one in the message that was taken.
Carries(j) == j.msg # 0 => j.req \in Request /\ body[j.msg] = j.req

JobsFit == \A p \in Procs : Fits(pc[p], job[p]) /\ Carries(job[p])

\* Only consumers stop, and only once they have been told to.
StoppedOK == \A p \in Procs : pc[p] = "stopped" => p \in Queues /\ cancelled

\* A document is stored under its own id.
KeyedOK == \A i \in UserIds : db[i] # NoUser => db[i].id = i

\* A message that has been published has a request in it.
BodyOK == \A n \in MsgIds : status[n] # "unsent" <=> body[n] # NoRequest

\* The WaitGroup counts the consumers that have not stopped.
Counts(q) == IF pc[q] = "stopped" THEN 0 ELSE 1
WaitOK == wg = Counts("create") + Counts("update") + Counts("delete")

TypeInv ==
  /\ TypeOK
  /\ JobsFit
  /\ StoppedOK
  /\ KeyedOK
  /\ BodyOK
  /\ WaitOK
  /\ \A n \in MsgIds : n \in buffered => status[n] # "unsent"

-----------------------------------------------------------------------------
(* Facts about the operators of the model. *)

\* A request is told apart by its op.
LEMMA RequestKinds ==
  ASSUME NEW r \in Request
  PROVE  /\ r.op \in {"create", "update", "delete", "login", "getById"}
         /\ r.op = "create"  <=> r \in CreateReq
         /\ r.op = "update"  <=> r \in UpdateReq
         /\ r.op = "delete"  <=> r \in DeleteReq
         /\ r.op = "login"   <=> r \in LoginReq
         /\ r.op = "getById" <=> r \in GetByIdReq
BY DEF Request, QueueReq, CreateReq, UpdateReq, DeleteReq, LoginReq, GetByIdReq

\* Requests about one user carry an id.
LEMMA RequestIds ==
  ASSUME NEW r \in UpdateReq \cup DeleteReq \cup GetByIdReq
  PROVE  r.id \in UserIds /\ r \in Request
BY DEF Request, QueueReq, UpdateReq, DeleteReq, GetByIdReq

\* CreateUser builds a user of the id it was given.
LEMMA NewUserType ==
  ASSUME NEW i \in UserIds, NEW r \in CreateReq
  PROVE  NewUser(i, r) \in User /\ NewUser(i, r).id = i
BY DEF NewUser, User, CreateReq

\* User.Update keeps the id and the deletion mark.
LEMMA MergeType ==
  ASSUME NEW u \in User, NEW r \in UpdateReq
  PROVE  /\ Merge(u, r) \in User
         /\ Merge(u, r).id = u.id
         /\ Merge(u, r).deleted = u.deleted
BY DEF Merge, User, UpdateReq

\* A user has an id.
LEMMA UserIdType == \A u \in User : u.id \in UserIds /\ u # NoUser
BY UsersAssumption DEF User

\* A goroutine that starts knows its message and its request and nothing else.
LEMMA StartType ==
  ASSUME NEW n \in MsgIds \cup {0}, NEW r \in Request
  PROVE  LET j == [NoJob EXCEPT !.msg = n, !.req = r]
         IN  j \in Job /\ j.msg = n /\ j.req = r /\ j.user = NoUser /\ j.err = "none"
BY DEF Job, NoJob, Errors

LEMMA NoJobType == NoJob \in Job
BY DEF Job, NoJob, Errors

\* Setting one local variable leaves the others.
LEMMA JobUpdates ==
  ASSUME NEW j \in Job, NEW e \in Errors, NEW u \in User
  PROVE  /\ [j EXCEPT !.err = e] \in Job
         /\ [j EXCEPT !.err = e].msg = j.msg
         /\ [j EXCEPT !.err = e].req = j.req
         /\ [j EXCEPT !.err = e].user = j.user
         /\ [j EXCEPT !.err = e].err = e
         /\ [j EXCEPT !.user = u] \in Job
         /\ [j EXCEPT !.user = u].msg = j.msg
         /\ [j EXCEPT !.user = u].req = j.req
         /\ [j EXCEPT !.user = u].user = u
         /\ [j EXCEPT !.user = u].err = j.err
BY DEF Job

-----------------------------------------------------------------------------
(* Type correctness. *)

LEMMA TypeInit == Init => TypeInv
<1> SUFFICES ASSUME Init PROVE TypeInv
  OBVIOUS
<1> USE UsersAssumption
<1>1. \A i \in UserIds : db[i] \in User \cup {NoUser} /\ (db[i] # NoUser => db[i].id = i)
  BY DEF Init
<1>2. \A n \in MsgIds : body[n] = NoRequest /\ status[n] = "unsent"
  BY DEF Init
<1>3. \A p \in Procs : pc[p] = "idle" /\ job[p] = NoJob
  BY DEF Init
<1>4. TypeOK
  <2>1. db \in [UserIds -> User \cup {NoUser}]
    BY <1>1 DEF Init
  <2>2. hist \in [UserIds -> SUBSET User]
    BY <1>1 DEF Init
  <2>3. job \in [Procs -> Job]
    BY NoJobType DEF Init
  <2>4. pc \in [Procs -> Steps] /\ applied \in [MsgIds -> SUBSET UserIds]
    BY DEF Init, Steps
  <2>5. body \in [MsgIds -> QueueReq \cup {NoRequest}] /\ status \in [MsgIds -> Status]
    BY DEF Init, Status
  <2>6. cache \in [UserIds -> User \cup {NoUser}]
    BY DEF Init
  <2>7. wg \in 0 .. NumberOfServices /\ faults \in 0 .. MaxFaults /\ losses \in 0 .. MaxLosses
    BY DEF Init, NumberOfServices
  <2> QED
    BY <2>1, <2>2, <2>3, <2>4, <2>5, <2>6, <2>7 DEF Init, TypeOK
<1>5. JobsFit /\ StoppedOK
  BY <1>3 DEF JobsFit, Fits, Carries, NoJob, StoppedOK
<1>6. KeyedOK
  BY <1>1 DEF KeyedOK
<1>7. WaitOK
  BY <1>3 DEF WaitOK, Counts, Init, NumberOfServices, Procs, Queues
<1> QED
  BY <1>2, <1>4, <1>5, <1>6, <1>7 DEF TypeInv, BodyOK, Init

\* A goroutine p goes to another step with other local variables.
LEMMA MoveType ==
  ASSUME TypeInv, NEW p \in Procs, NEW step \in Steps \ {"stopped"}, NEW j \in Job,
         pc[p] # "stopped", Fits(step, j), Carries(j),
         Goto(p, step), job' = [job EXCEPT ![p] = j],
         UNCHANGED <<body, cancelled, wg>>
  PROVE  /\ pc' \in [Procs -> Steps] /\ job' \in [Procs -> Job]
         /\ JobsFit' /\ StoppedOK' /\ WaitOK'
         /\ pc'[p] = step /\ job'[p] = j
         /\ \A o \in Procs \ {p} : pc'[o] = pc[o] /\ job'[o] = job[o]
<1>1. pc' \in [Procs -> Steps] /\ job' \in [Procs -> Job]
  BY DEF TypeInv, TypeOK, Goto
<1>2. pc'[p] = step /\ job'[p] = j
  BY DEF TypeInv, TypeOK, Goto
<1>3. \A o \in Procs \ {p} : pc'[o] = pc[o] /\ job'[o] = job[o]
  BY DEF TypeInv, TypeOK, Goto
<1>4. JobsFit'
  BY <1>2, <1>3 DEF TypeInv, JobsFit, Fits, Carries
<1>5. StoppedOK'
  BY <1>2, <1>3 DEF TypeInv, StoppedOK
<1>6. WaitOK'
  BY <1>2, <1>3 DEF TypeInv, WaitOK, Counts, Procs, Queues
<1> QED
  BY <1>1, <1>2, <1>3, <1>4, <1>5, <1>6

\* A goroutine goes on with the local variables it has.
LEMMA GotoType ==
  ASSUME TypeInv, NEW p \in Procs, NEW step \in Steps \ {"stopped"},
         pc[p] # "stopped", Fits(step, job[p]), Goto(p, step),
         UNCHANGED <<job, body, cancelled, wg>>
  PROVE  /\ pc' \in [Procs -> Steps] /\ job' \in [Procs -> Job]
         /\ JobsFit' /\ StoppedOK' /\ WaitOK'
<1>1. job[p] \in Job /\ job' = [job EXCEPT ![p] = job[p]] /\ Carries(job[p])
  BY DEF TypeInv, TypeOK, JobsFit
<1> QED
  BY <1>1, MoveType

\* A handler fails.
LEMMA FailType ==
  ASSUME TypeInv, NEW p \in Procs, NEW e \in Errors,
         pc[p] # "stopped", Fail(p, e), UNCHANGED <<body, cancelled, wg>>
  PROVE  /\ pc' \in [Procs -> Steps] /\ job' \in [Procs -> Job]
         /\ JobsFit' /\ StoppedOK' /\ WaitOK'
<1> DEFINE j == [job[p] EXCEPT !.err = e]
<1>1. job[p] \in Job /\ job' = [job EXCEPT ![p] = j]
  BY DEF TypeInv, TypeOK, Fail
<1>2. j \in Job
  BY <1>1 DEF Job
<1>3. Fits("end", j) /\ Carries(j)
  BY <1>1 DEF Fits, Carries, Job, TypeInv, JobsFit
<1>4. Goto(p, "end") /\ "end" \in Steps \ {"stopped"}
  BY DEF Fail, Steps
<1> QED
  BY <1>1, <1>2, <1>3, <1>4, MoveType

\* The error of a call is one of Errors.
LEMMA ErrorType ==
  \A p : ErrorOf(p, "mongo") \in Errors /\ ErrorOf(p, "redis") \in Errors
BY DEF ErrorOf, Errors

\* A failed call stays within the bound on faults.
LEMMA FaultsType ==
  ASSUME TypeInv, NEW p, CallFails(p)
  PROVE  faults' \in 0 .. MaxFaults
BY UsersAssumption DEF TypeInv, TypeOK, CallFails

\* A write to the collection keeps documents under their ids.
LEMMA RecordType ==
  ASSUME TypeInv, NEW p \in Procs, NEW i \in UserIds, NEW u \in User,
         u.id = i, Record(p, i, u)
  PROVE  /\ db' \in [UserIds -> User \cup {NoUser}]
         /\ hist' \in [UserIds -> SUBSET User]
         /\ applied' \in [MsgIds -> SUBSET UserIds]
         /\ KeyedOK'
<1>1. db' \in [UserIds -> User \cup {NoUser}] /\ KeyedOK'
  BY DEF TypeInv, TypeOK, Record, KeyedOK
<1>2. hist' \in [UserIds -> SUBSET User]
  BY DEF TypeInv, TypeOK, Record
<1>3. applied' \in [MsgIds -> SUBSET UserIds]
  BY DEF TypeInv, TypeOK, Record
<1> QED
  BY <1>1, <1>2, <1>3

\* Everything of TypeInv that a handler's move on its own leaves alone.
DataOK ==
  /\ db \in [UserIds -> User \cup {NoUser}]
  /\ cache \in [UserIds -> User \cup {NoUser}]
  /\ faults \in 0 .. MaxFaults
  /\ hist \in [UserIds -> SUBSET User]
  /\ applied \in [MsgIds -> SUBSET UserIds]
  /\ suspect \subseteq UserIds
  /\ KeyedOK

LEMMA DataOfTypeInv == TypeInv => DataOK
BY DEF TypeInv, TypeOK, DataOK

\* The steps of the handlers change the database, the cache and the history;
\* the broker and the process stay as they are.
LEMMA HandlerType ==
  ASSUME TypeInv, DataOK', UNCHANGED <<broker, life, losses>>,
         pc' \in [Procs -> Steps], job' \in [Procs -> Job],
         JobsFit', StoppedOK', WaitOK'
  PROVE  TypeInv'
<1>1. TypeOK'
  BY DEF TypeInv, TypeOK, DataOK, broker, life
<1>2. BodyOK'
  BY DEF TypeInv, BodyOK, broker
<1> QED
  BY <1>1, <1>2 DEF TypeInv, DataOK, broker

LEMMA DataUnchanged ==
  ASSUME DataOK, UNCHANGED <<db, cache, faults, hist, applied, suspect>>
  PROVE  DataOK'
BY DEF DataOK, KeyedOK

LEMMA CheckContextType == ASSUME TypeInv, NEW p \in Procs, CheckContext(p) PROVE TypeInv'
<1> USE DEF CheckContext, At
<1>1. DataOK'
  BY DataOfTypeInv, DataUnchanged DEF store, budget, ghosts
<1>2. CASE Cancelled(p)
  <2>1. Fail(p, "ctx") /\ "ctx" \in Errors
    BY <1>2 DEF Errors
  <2> QED
    BY <1>1, <2>1, FailType, HandlerType DEF broker, life, budget
<1>3. CASE ~Cancelled(p)
  <2>1. Goto(p, "insert") /\ UNCHANGED job /\ "insert" \in Steps \ {"stopped"}
    BY <1>3 DEF Steps
  <2>2. Fits("insert", job[p])
    BY DEF TypeInv, JobsFit, Fits
  <2> QED
    BY <1>1, <2>1, <2>2, GotoType, HandlerType DEF broker, life, budget
<1> QED
  BY <1>2, <1>3

LEMMA InsertOneType == ASSUME TypeInv, NEW p \in Procs, InsertOne(p) PROVE TypeInv'
<1> DEFINE r == job[p].req
<1>1. r \in CreateReq /\ job[p] \in Job /\ pc[p] # "stopped"
  BY DEF TypeInv, TypeOK, JobsFit, Fits, InsertOne, At
<1>2. PICK i \in UserIds :
        \/ /\ Record(p, i, NewUser(i, r))
           /\ job' = [job EXCEPT ![p].user = NewUser(i, r)]
           /\ Goto(p, "cacheSet")
           /\ UNCHANGED faults
        \/ /\ CallFails(p)
           /\ Fail(p, ErrorOf(p, "mongo"))
           /\ Record(p, i, NewUser(i, r)) \/ UNCHANGED <<db, hist, applied>>
  BY DEF InsertOne
<1> DEFINE u == NewUser(i, r)
           j == [job[p] EXCEPT !.user = u]
<1>3. u \in User /\ u.id = i
  BY <1>1, NewUserType
<1>4. DataOK'
  <2>1. Record(p, i, u) \/ UNCHANGED <<db, hist, applied>>
    BY <1>2
  <2>2. faults' \in 0 .. MaxFaults
    BY <1>2, FaultsType DEF TypeInv, TypeOK
  <2>3. cache' = cache /\ suspect' = suspect
    BY DEF InsertOne
  <2>4. CASE Record(p, i, u)
    BY <1>3, <2>2, <2>3, <2>4, RecordType, DataOfTypeInv DEF DataOK
  <2>5. CASE UNCHANGED <<db, hist, applied>>
    BY <2>2, <2>3, <2>5, DataOfTypeInv DEF DataOK, KeyedOK
  <2> QED
    BY <2>1, <2>4, <2>5
<1>5. UNCHANGED <<broker, life, losses>> /\ UNCHANGED <<body, cancelled, wg>>
  BY DEF InsertOne, life, broker
<1>6. CASE job' = [job EXCEPT ![p].user = u] /\ Goto(p, "cacheSet")
  <2>1. j \in Job /\ j.req = r /\ j.user = u /\ Carries(j)
    BY <1>1, <1>3 DEF Job, Carries, TypeInv, JobsFit
  <2>2. Fits("cacheSet", j)
    BY <1>1, <1>3, <2>1 DEF Fits
  <2>3. job' = [job EXCEPT ![p] = j] /\ "cacheSet" \in Steps \ {"stopped"}
    BY <1>6 DEF Steps
  <2> QED
    BY <1>1, <1>4, <1>5, <1>6, <2>1, <2>2, <2>3, MoveType, HandlerType
<1>7. CASE Fail(p, ErrorOf(p, "mongo"))
  BY <1>1, <1>4, <1>5, <1>7, ErrorType, FailType, HandlerType
<1> QED
  BY <1>2, <1>6, <1>7

LEMMA FindOneType == ASSUME TypeInv, NEW p \in Procs, FindOne(p) PROVE TypeInv'
<1> DEFINE r == job[p].req
           Found(i) == IF r.op = "update" THEN Merge(db[i], r) ELSE db[i]
<1>1. /\ r \in UpdateReq \cup DeleteReq \cup LoginReq \cup GetByIdReq
      /\ r \in Request
      /\ job[p] \in Job /\ pc[p] # "stopped"
  BY DEF TypeInv, TypeOK, JobsFit, Fits, FindOne, At, Request, QueueReq
<1>2. UNCHANGED <<broker, life, losses>> /\ UNCHANGED <<body, cancelled, wg>>
  BY DEF FindOne, life, broker
<1>3. DataOK'
  <2>1. faults' \in 0 .. MaxFaults
    BY FaultsType DEF FindOne, TypeInv, TypeOK
  <2> QED
    BY <2>1, DataOfTypeInv DEF FindOne, store, ghosts, DataOK, KeyedOK
<1>4. ASSUME NEW i \in Matches(r),
             job' = [job EXCEPT ![p].user = Found(i)], Goto(p, AfterFind[r.op])
      PROVE  TypeInv'
  <2> DEFINE j == [job[p] EXCEPT !.user = Found(i)]
  <2>1. i \in UserIds /\ db[i] \in User /\ db[i].id = i
    BY <1>1, RequestKinds DEF Matches, IsLive, TypeInv, TypeOK, KeyedOK
  <2>2. Found(i) \in User /\ Found(i).id = i
    BY <1>1, <2>1, RequestKinds, MergeType
  <2>3. j \in Job /\ j.req = r /\ j.user = Found(i) /\ Carries(j)
    BY <1>1, <2>2 DEF Job, Carries, TypeInv, JobsFit
  <2>4. r.op \in {"update", "delete"} => i = r.id
    BY <1>1 DEF Matches
  <2>5. AfterFind[r.op] \in Steps \ {"stopped"} /\ Fits(AfterFind[r.op], j)
    <3>1. CASE r.op \in {"update", "delete"}
      BY <1>1, <3>1, <2>2, <2>3, <2>4, RequestKinds DEF AfterFind, Steps, Fits
    <3>2. CASE r.op = "login"
      BY <1>1, <3>2, <2>2, <2>3, RequestKinds DEF AfterFind, Steps, Fits
    <3>3. CASE r.op = "getById"
      BY <3>3 DEF AfterFind, Steps, Fits
    <3>4. r.op # "create"
      BY <1>1, RequestKinds DEF UpdateReq, DeleteReq, LoginReq, GetByIdReq
    <3> QED
      BY <1>1, <3>1, <3>2, <3>3, <3>4, RequestKinds
  <2>6. job' = [job EXCEPT ![p] = j]
    BY <1>4
  <2> QED
    BY <1>1, <1>2, <1>3, <1>4, <2>3, <2>5, <2>6, MoveType, HandlerType
<1>5. ASSUME NEW e \in Errors, Fail(p, e) PROVE TypeInv'
  BY <1>1, <1>2, <1>3, <1>5, FailType, HandlerType
<1>6. \/ \E i \in Matches(r) : /\ job' = [job EXCEPT ![p].user = Found(i)]
                             /\ Goto(p, AfterFind[r.op])
      \/ Fail(p, "notFound")
      \/ Fail(p, "password")
      \/ Fail(p, ErrorOf(p, "mongo"))
  BY DEF FindOne
<1> QED
  BY <1>4, <1>5, <1>6, ErrorType DEF Errors

LEMMA UpdateOneType == ASSUME TypeInv, NEW p \in Procs, UpdateOne(p) PROVE TypeInv'
<1> DEFINE i == job[p].req.id
           u == job[p].user
<1>1. /\ job[p] \in Job /\ job[p].req \in UpdateReq
      /\ u \in User /\ u.id = i
      /\ i \in UserIds /\ pc[p] # "stopped"
  <2>1. job[p] \in Job /\ pc[p] = "write" /\ job[p].req.op = "update"
    BY DEF TypeInv, TypeOK, UpdateOne, At
  <2>2. job[p].req \in UpdateReq \cup DeleteReq /\ u \in User /\ u.id = i
    BY <2>1 DEF TypeInv, JobsFit, Fits
  <2> QED
    BY <2>1, <2>2, RequestIds, RequestKinds
<1>2. UNCHANGED <<broker, life, losses>> /\ UNCHANGED <<body, cancelled, wg>> /\ cache' = cache
  BY DEF UpdateOne, life, broker
<1>3. Record(p, i, u) \/ UNCHANGED <<db, hist, applied>>
  BY DEF UpdateOne
<1>4. suspect' \in {suspect, suspect \cup {i}}
  BY DEF UpdateOne
<1>5. DataOK'
  <2>1. faults' \in 0 .. MaxFaults
    BY FaultsType DEF UpdateOne, TypeInv, TypeOK
  <2>2. suspect' \subseteq UserIds
    BY <1>1, <1>4 DEF TypeInv, TypeOK
  <2>3. CASE Record(p, i, u)
    BY <1>1, <1>2, <2>1, <2>2, <2>3, RecordType, DataOfTypeInv DEF DataOK
  <2>4. CASE UNCHANGED <<db, hist, applied>>
    BY <1>2, <2>1, <2>2, <2>4, DataOfTypeInv DEF DataOK, KeyedOK
  <2> QED
    BY <1>3, <2>3, <2>4
<1>6. CASE Goto(p, AfterUpdate) /\ UNCHANGED job
  <2>1. AfterUpdate \in Steps \ {"stopped"} /\ Fits(AfterUpdate, job[p])
    BY <1>1 DEF AfterUpdate, Steps, Fits
  <2> QED
    BY <1>1, <1>2, <1>5, <1>6, <2>1, GotoType, HandlerType
<1>7. ASSUME NEW e \in Errors, Fail(p, e) PROVE TypeInv'
  BY <1>1, <1>2, <1>5, <1>7, FailType, HandlerType
<1>8. \/ Goto(p, AfterUpdate) /\ UNCHANGED job
      \/ Fail(p, "noRows") \/ Fail(p, ErrorOf(p, "mongo"))
  BY DEF UpdateOne
<1> QED
  BY <1>6, <1>7, <1>8, ErrorType DEF Errors

LEMMA DeleteOneType == ASSUME TypeInv, NEW p \in Procs, DeleteOne(p) PROVE TypeInv'
<1>1. pc[p] # "stopped" /\ Fail(p, "badUpdate") /\ "badUpdate" \in Errors
  BY DEF DeleteOne, At, Errors
<1>2. DataOK'
  BY DataOfTypeInv, DataUnchanged DEF DeleteOne, store, budget, ghosts
<1> QED
  BY <1>1, <1>2, FailType, HandlerType DEF DeleteOne, broker, life, budget

LEMMA CacheSetType == ASSUME TypeInv, NEW p \in Procs, CacheSet(p) PROVE TypeInv'
<1> DEFINE u == job[p].user
<1>1. u \in User /\ u.id \in UserIds /\ pc[p] # "stopped"
  BY UserIdType DEF TypeInv, JobsFit, Fits, CacheSet, At
<1>2. UNCHANGED <<broker, life, losses>> /\ UNCHANGED <<body, cancelled, wg, db, hist, applied>>
  BY DEF CacheSet, life, broker
<1>3. cache' \in {cache, [cache EXCEPT ![u.id] = u]} /\ suspect' \in {suspect, suspect \cup {u.id}}
  BY DEF CacheSet
<1>4. DataOK'
  <2>1. faults' \in 0 .. MaxFaults
    BY FaultsType DEF CacheSet, TypeInv, TypeOK
  <2> QED
    BY <1>1, <1>2, <1>3, <2>1, DataOfTypeInv DEF DataOK, KeyedOK
<1>5. CASE Goto(p, "end") /\ UNCHANGED job
  <2>1. "end" \in Steps \ {"stopped"} /\ Fits("end", job[p])
    BY DEF Steps, Fits
  <2> QED
    BY <1>1, <1>2, <1>4, <1>5, <2>1, GotoType, HandlerType
<1>6. CASE Fail(p, ErrorOf(p, "redis"))
  BY <1>1, <1>2, <1>4, <1>6, ErrorType, FailType, HandlerType
<1> QED
  BY <1>5, <1>6 DEF CacheSet

LEMMA CacheGetType == ASSUME TypeInv, NEW p \in Procs, CacheGet(p) PROVE TypeInv'
<1> DEFINE u == cache[job[p].req.id]
           j == [job[p] EXCEPT !.user = u]
<1>1. /\ job[p] \in Job /\ job[p].req \in GetByIdReq
      /\ u \in User \cup {NoUser} /\ pc[p] # "stopped"
  BY RequestIds DEF TypeInv, TypeOK, JobsFit, Fits, CacheGet, At
<1>2. UNCHANGED <<broker, life, losses>> /\ UNCHANGED <<body, cancelled, wg>>
  BY DEF CacheGet, life, broker
<1>3. DataOK'
  <2>1. faults' \in 0 .. MaxFaults
    BY FaultsType DEF CacheGet, TypeInv, TypeOK
  <2> QED
    BY <2>1, DataOfTypeInv DEF CacheGet, store, ghosts, DataOK, KeyedOK
<1>4. CASE job' = [job EXCEPT ![p].user = u] /\ Goto(p, "end")
  <2>1. j \in Job /\ Carries(j)
    BY <1>1 DEF Job, Carries, TypeInv, JobsFit
  <2>2. "end" \in Steps \ {"stopped"} /\ Fits("end", j) /\ job' = [job EXCEPT ![p] = j]
    BY <1>4 DEF Steps, Fits
  <2> QED
    BY <1>1, <1>2, <1>3, <1>4, <2>1, <2>2, MoveType, HandlerType
<1>5. CASE Goto(p, "find") /\ UNCHANGED job
  <2>1. "find" \in Steps \ {"stopped"} /\ Fits("find", job[p])
    BY <1>1 DEF Steps, Fits
  <2> QED
    BY <1>1, <1>2, <1>3, <1>5, <2>1, GotoType, HandlerType
<1> QED
  BY <1>4, <1>5 DEF CacheGet

LEMMA HandleType == ASSUME TypeInv, NEW p \in Procs, Handle(p) PROVE TypeInv'
BY CheckContextType, InsertOneType, FindOneType, UpdateOneType, DeleteOneType,
   CacheSetType, CacheGetType DEF Handle

\* A goroutine starts on a request.
LEMMA StartMoves ==
  ASSUME TypeInv, NEW p \in Procs, NEW n \in MsgIds \cup {0}, NEW r \in Request,
         n # 0 => body[n] = r, pc[p] # "stopped", Start(p, n, r), UNCHANGED <<body, cancelled, wg>>
  PROVE  /\ pc' \in [Procs -> Steps] /\ job' \in [Procs -> Job]
         /\ JobsFit' /\ StoppedOK' /\ WaitOK'
<1> DEFINE j == [NoJob EXCEPT !.msg = n, !.req = r]
<1>1. j \in Job /\ j.req = r /\ Carries(j)
  BY StartType DEF Carries
<1>2. Entry[r.op] \in Steps \ {"stopped"} /\ Fits(Entry[r.op], j)
  BY <1>1, RequestKinds DEF Entry, Steps, Fits
<1> QED
  BY <1>1, <1>2, MoveType DEF Start

\* A goroutine is done and waits for the next request.
LEMMA DoneMoves ==
  ASSUME TypeInv, NEW p \in Procs, pc[p] # "stopped",
         Goto(p, "idle"), job' = [job EXCEPT ![p] = NoJob], UNCHANGED <<body, cancelled, wg>>
  PROVE  /\ pc' \in [Procs -> Steps] /\ job' \in [Procs -> Job]
         /\ JobsFit' /\ StoppedOK' /\ WaitOK'
<1>1. "idle" \in Steps \ {"stopped"} /\ Fits("idle", NoJob) /\ Carries(NoJob)
  BY DEF Steps, Fits, Carries, NoJob
<1> QED
  BY <1>1, NoJobType, MoveType

\* What the broker holds, and what has come back from it.
BrokerOK ==
  /\ body \in [MsgIds -> QueueReq \cup {NoRequest}]
  /\ status \in [MsgIds -> Status]
  /\ buffered \subseteq MsgIds
  /\ BodyOK
  /\ \A n \in MsgIds : n \in buffered => status[n] # "unsent"

\* The steps of the consumers and of the gRPC server leave the data alone.
LEMMA ServerType ==
  ASSUME TypeInv, BrokerOK', UNCHANGED <<store, life, budget, ghosts>>,
         pc' \in [Procs -> Steps], job' \in [Procs -> Job],
         JobsFit', StoppedOK', WaitOK'
  PROVE  TypeInv'
<1>1. TypeOK'
  BY DEF TypeInv, TypeOK, BrokerOK, store, life, budget, ghosts
<1>2. KeyedOK'
  BY DEF TypeInv, KeyedOK, store
<1> QED
  BY <1>1, <1>2 DEF TypeInv, BrokerOK

LEMMA BrokerOfTypeInv ==
  TypeInv => BrokerOK /\ (UNCHANGED broker => BrokerOK')
BY DEF TypeInv, TypeOK, BrokerOK, BodyOK, broker

\* A published message has a request of a queue in it.
LEMMA PublishedBody ==
  ASSUME TypeInv, NEW n \in MsgIds, status[n] # "unsent"
  PROVE  body[n] \in QueueReq /\ body[n] \in Request
BY DEF TypeInv, TypeOK, BodyOK, Request

LEMMA TakeType == ASSUME TypeInv, NEW q \in Queues, Take(q) PROVE TypeInv'
<1>1. PICK n \in MsgIds :
        /\ status[n] = "ready"
        /\ status' = [status EXCEPT ![n] = "unacked"]
        /\ Start(q, n, body[n])
  BY DEF Take, IsHead
<1>2. q \in Procs /\ pc[q] # "stopped" /\ body[n] \in Request
  BY <1>1, PublishedBody DEF Take, At, Procs
<1>3. BrokerOK'
  BY <1>1, BrokerOfTypeInv DEF BrokerOK, BodyOK, Status, Take
<1> QED
  BY <1>1, <1>2, <1>3, StartMoves, ServerType DEF Take, life

LEMMA TakeBufferedType == ASSUME TypeInv, NEW q \in Queues, TakeBuffered(q) PROVE TypeInv'
<1>1. PICK n \in Buffered(q) : buffered' = buffered \ {n} /\ Start(q, n, body[n])
  BY DEF TakeBuffered
<1>2. n \in MsgIds /\ status[n] # "unsent"
  BY DEF Buffered, TypeInv, TypeOK
<1>3. q \in Procs /\ pc[q] # "stopped" /\ body[n] \in Request
  BY <1>2, PublishedBody DEF TakeBuffered, At, Procs
<1>4. BrokerOK'
  BY <1>1, BrokerOfTypeInv DEF BrokerOK, BodyOK, TakeBuffered
<1> QED
  BY <1>1, <1>2, <1>3, <1>4, StartMoves, ServerType DEF TakeBuffered, life

LEMMA TakeEmptyType == ASSUME TypeInv, NEW q \in Queues, TakeEmpty(q) PROVE TypeInv'
<1>1. q \in Procs /\ pc[q] # "stopped" /\ Fail(q, "decode") /\ "decode" \in Errors
  BY DEF TakeEmpty, At, Procs, Errors
<1>2. BrokerOK'
  BY BrokerOfTypeInv DEF BrokerOK, BodyOK, TakeEmpty
<1> QED
  BY <1>1, <1>2, FailType, ServerType DEF TakeEmpty, life

LEMMA SettleType == ASSUME TypeInv, NEW q \in Queues, Settle(q) PROVE TypeInv'
<1>1. q \in Procs /\ pc[q] # "stopped"
  BY DEF Settle, At, Procs
<1>2. job[q].msg \in MsgIds => status[job[q].msg] # "unsent"
  <2>1. job[q] \in Job /\ Carries(job[q])
    BY <1>1 DEF TypeInv, TypeOK, JobsFit
  <2> QED
    BY <2>1, UsersAssumption DEF Job, Carries, MsgIds, TypeInv, BodyOK
<1>3. BrokerOK'
  BY <1>2, BrokerOfTypeInv DEF BrokerOK, BodyOK, Settle, Answer, Status
<1> QED
  BY <1>1, <1>3, DoneMoves, ServerType DEF Settle, life

LEMMA StopType == ASSUME TypeInv, NEW q \in Queues, Stop(q) PROVE TypeInv'
<1>1. /\ pc[q] = "idle" /\ cancelled /\ pc' = [pc EXCEPT ![q] = "stopped"]
      /\ wg' = wg - 1 /\ job' = job /\ cancelled' = cancelled
  BY DEF Stop, At, Goto
<1>2. pc' \in [Procs -> Steps]
  BY <1>1 DEF TypeInv, TypeOK, Steps
<1>3. JobsFit' /\ StoppedOK'
  BY <1>1 DEF TypeInv, TypeOK, JobsFit, Fits, Carries, Stop, broker, StoppedOK, Procs
<1>4. WaitOK'
  BY <1>1 DEF TypeInv, TypeOK, WaitOK, Counts, Procs, Queues
<1>5. wg' \in 0 .. NumberOfServices
  BY <1>4 DEF WaitOK, Counts, NumberOfServices
<1>6. TypeOK'
  BY <1>1, <1>2, <1>5 DEF TypeInv, TypeOK, Stop, store, broker, budget, ghosts
<1> QED
  BY <1>3, <1>4, <1>6 DEF TypeInv, KeyedOK, BodyOK, Stop, store, broker

LEMMA CallType == ASSUME TypeInv, NEW c \in Clients, Call(c) PROVE TypeInv'
<1>1. PICK r \in Calls : Start(c, 0, r)
  BY DEF Call
<1>2. c \in Procs /\ pc[c] # "stopped" /\ r \in Request
  BY UsersAssumption DEF Call, At, Procs
<1>3. UNCHANGED <<body, cancelled, wg, broker>> /\ 0 \in MsgIds \cup {0}
  BY DEF Call, life, broker
<1>4. /\ pc' \in [Procs -> Steps] /\ job' \in [Procs -> Job]
      /\ JobsFit' /\ StoppedOK' /\ WaitOK'
  BY <1>1, <1>2, <1>3, StartMoves
<1> QED
  BY <1>3, <1>4, BrokerOfTypeInv, ServerType DEF Call

LEMMA ReplyType == ASSUME TypeInv, NEW c \in Clients, Reply(c) PROVE TypeInv'
<1>1. c \in Procs /\ pc[c] # "stopped"
  BY DEF Reply, At, Procs
<1> QED
  BY <1>1, BrokerOfTypeInv, DoneMoves, ServerType DEF Reply, life, broker

\* The end of the process, in whichever way.
LEMMA VanishType ==
  ASSUME TypeInv, Vanish, losses' \in 0 .. MaxLosses PROVE TypeInv'
<1>1. \A p \in Procs : pc'[p] = "idle" /\ job'[p] = NoJob
  BY DEF Vanish
<1>2. pc' \in [Procs -> Steps] /\ job' \in [Procs -> Job]
  BY NoJobType DEF Vanish, Steps
<1>3. JobsFit' /\ StoppedOK'
  BY <1>1 DEF JobsFit, Fits, Carries, NoJob, StoppedOK
<1>4. WaitOK' /\ wg' \in 0 .. NumberOfServices
  BY <1>1 DEF WaitOK, Counts, Vanish, NumberOfServices, Procs, Queues
<1>5. BrokerOK'
  BY BrokerOfTypeInv DEF BrokerOK, BodyOK, Vanish, Requeue, Status
<1>6. TypeOK'
  BY <1>2, <1>4, <1>5 DEF TypeInv, TypeOK, BrokerOK, Vanish, store
<1>7. KeyedOK'
  BY DEF TypeInv, KeyedOK, Vanish, store
<1> QED
  BY <1>3, <1>4, <1>5, <1>6, <1>7 DEF TypeInv, BrokerOK

LEMMA SignalType == ASSUME TypeInv, Signal PROVE TypeInv'
<1>1. TypeOK'
  BY DEF TypeInv, TypeOK, Signal, store, broker, local, budget, ghosts
<1> QED
  BY <1>1 DEF TypeInv, JobsFit, Fits, Carries, StoppedOK, KeyedOK, BodyOK, WaitOK, Counts,
              Signal, store, broker, local

LEMMA CrashType == ASSUME TypeInv, Crash PROVE TypeInv'
<1>1. losses' \in 0 .. MaxLosses
  BY UsersAssumption DEF TypeInv, TypeOK, Crash
<1> QED
  BY <1>1, VanishType DEF Crash

LEMMA ExitType == ASSUME TypeInv, Exit PROVE TypeInv'
<1>1. losses' \in 0 .. MaxLosses
  BY DEF TypeInv, TypeOK, Exit
<1> QED
  BY <1>1, VanishType DEF Exit

LEMMA DisconnectType == ASSUME TypeInv, Disconnect PROVE TypeInv'
<1>1. losses' \in 0 .. MaxLosses
  BY UsersAssumption DEF TypeInv, TypeOK, Disconnect
<1>2. BrokerOK'
  BY BrokerOfTypeInv DEF BrokerOK, BodyOK, Disconnect, Requeue, Status
<1>3. TypeOK'
  BY <1>1, <1>2 DEF TypeInv, TypeOK, BrokerOK, Disconnect, store, local, ghosts
<1> QED
  BY <1>2, <1>3 DEF TypeInv, BrokerOK, JobsFit, Fits, Carries, StoppedOK, KeyedOK, WaitOK,
                    Counts, Disconnect, store, local

LEMMA RestartType == ASSUME TypeInv, Restart PROVE TypeInv'
<1>1. TypeOK'
  BY DEF TypeInv, TypeOK, Restart, store, broker, local, budget, ghosts
<1> QED
  BY <1>1 DEF TypeInv, JobsFit, Fits, Carries, StoppedOK, KeyedOK, BodyOK, WaitOK, Counts,
              Restart, store, broker, local

LEMMA ExpireType == ASSUME TypeInv, NEW i \in UserIds, Expire(i) PROVE TypeInv'
<1>1. TypeOK'
  BY DEF TypeInv, TypeOK, Expire, broker, life, local, budget
<1> QED
  BY <1>1 DEF TypeInv, JobsFit, Fits, Carries, StoppedOK, KeyedOK, BodyOK, WaitOK, Counts,
              Expire, broker, life, local

LEMMA PublishType == ASSUME TypeInv, Publish PROVE TypeInv'
<1>1. PICK n \in MsgIds, r \in Published :
        /\ status[n] = "unsent"
        /\ status' = [status EXCEPT ![n] = "ready"]
        /\ body' = [body EXCEPT ![n] = r]
  BY DEF Publish
<1>2. r \in QueueReq /\ r # NoRequest
  BY UsersAssumption DEF Request
<1>3. BrokerOK'
  BY <1>1, <1>2, BrokerOfTypeInv DEF BrokerOK, BodyOK, Publish, Status
<1>4. TypeOK'
  BY <1>3 DEF TypeInv, TypeOK, BrokerOK, Publish, store, life, local, budget, ghosts
<1>5. JobsFit'
  <2>1. body[n] = NoRequest
    BY <1>1 DEF TypeInv, BodyOK
  <2> QED
    BY <1>1, <2>1, UsersAssumption
    DEF TypeInv, TypeOK, JobsFit, Fits, Carries, Publish, local
<1> QED
  BY <1>3, <1>4, <1>5 DEF TypeInv, BrokerOK, StoppedOK, KeyedOK, WaitOK, Counts,
                          Publish, store, life, local

LEMMA TypeStep == TypeInv /\ [Next]_vars => TypeInv'
<1> SUFFICES ASSUME TypeInv, [Next]_vars PROVE TypeInv'
  OBVIOUS
<1>1. ASSUME NEW q \in Queues, Consume(q) \/ Stop(q) PROVE TypeInv'
  <2>1. q \in Procs
    BY DEF Procs
  <2> QED
    BY <1>1, <2>1, TakeType, TakeBufferedType, TakeEmptyType, HandleType, SettleType,
       StopType DEF Consume
<1>2. ASSUME NEW c \in Clients, Call(c) \/ Serve(c) PROVE TypeInv'
  <2>1. c \in Procs
    BY DEF Procs
  <2> QED
    BY <1>2, <2>1, CallType, HandleType, ReplyType DEF Serve
<1>3. CASE \E i \in UserIds : Expire(i)
  BY <1>3, ExpireType
<1>4. CASE Publish \/ Signal \/ Exit \/ Crash \/ Disconnect \/ Restart
  BY <1>4, PublishType, SignalType, ExitType, CrashType, DisconnectType, RestartType
<1>5. CASE UNCHANGED vars
  BY <1>5 DEF TypeInv, TypeOK, JobsFit, Fits, Carries, StoppedOK, KeyedOK, BodyOK, WaitOK,
              Counts, vars, store, broker, life, local, budget, ghosts
<1> QED
  BY <1>1, <1>2, <1>3, <1>4, <1>5 DEF Next

\* Every variable keeps its type; in particular the WaitGroup's counter, which
\* Add(numberOfServices) sets and each consumer's deferred Done lowers, never
\* goes below zero (a negative counter makes Done panic).
THEOREM TypeCorrect == Spec => []TypeOK
<1>1. TypeInv => TypeOK
  BY DEF TypeInv
<1> QED
  BY <1>1, TypeInit, TypeStep, PTL DEF Spec

-----------------------------------------------------------------------------
(* The cache. *)

\* The history has every document there is, and none of an id never used.
HistOK == \A i \in UserIds : IF db[i] = NoUser THEN hist[i] = {} ELSE db[i] \in hist[i]

\* A user about to be put in Redis has been in the collection,
HeldCommitted ==
  \A p \in Procs : pc[p] = "cacheSet" => job[p].user \in hist[job[p].user.id]

\* and is there still, unless a race or a failure has been noted.
HeldFresh ==
  \A p \in Procs : pc[p] = "cacheSet" =>
    job[p].user.id \in suspect \/ job[p].user = db[job[p].user.id]

CacheInv ==
  /\ HistOK
  /\ HeldCommitted
  /\ HeldFresh
  /\ CacheHoldsCommitted
  /\ StaleHasCause

LEMMA CacheInit == Init => CacheInv
<1> SUFFICES ASSUME Init PROVE CacheInv
  OBVIOUS
<1>1. \A i \in UserIds : cache[i] = NoUser /\ hist[i] = {db[i]} \ {NoUser}
  BY DEF Init
<1>2. \A p \in Procs : pc[p] = "idle"
  BY DEF Init
<1> QED
  BY <1>1, <1>2 DEF CacheInv, HistOK, HeldCommitted, HeldFresh, CacheHoldsCommitted,
                    StaleHasCause

\* Steps that touch neither the data nor a goroutine about to fill the cache.
LEMMA CacheQuiet ==
  ASSUME CacheInv, UNCHANGED <<db, cache, hist, suspect>>,
         \A p \in Procs : pc[p] = "cacheSet" \/ pc'[p] = "cacheSet" =>
           pc'[p] = pc[p] /\ job'[p] = job[p]
  PROVE  CacheInv'
<1>1. HistOK' /\ CacheHoldsCommitted'
  BY DEF CacheInv, HistOK, CacheHoldsCommitted
<1>2. HeldCommitted' /\ HeldFresh'
  BY DEF CacheInv, HeldCommitted, HeldFresh
<1>3. \A i \in UserIds : Refreshers(i)' = Refreshers(i)
  BY DEF Refreshers, Holders
<1>4. StaleHasCause'
  BY <1>3 DEF CacheInv, StaleHasCause
<1> QED
  BY <1>1, <1>2, <1>4 DEF CacheInv

\* The same of a move of one goroutine that does not fill the cache.
LEMMA CacheQuietMove ==
  ASSUME TypeInv, CacheInv, UNCHANGED <<db, cache, hist, suspect>>,
         NEW p \in Procs, pc[p] # "cacheSet",
         NEW step \in Steps \ {"cacheSet"}, Goto(p, step),
         \A o \in Procs \ {p} : job'[o] = job[o]
  PROVE  CacheInv'
<1>1. pc'[p] = step /\ \A o \in Procs \ {p} : pc'[o] = pc[o]
  BY DEF TypeInv, TypeOK, Goto
<1> QED
  BY <1>1, CacheQuiet

LEMMA CacheQuietFail ==
  ASSUME TypeInv, CacheInv, UNCHANGED <<db, cache, hist, suspect>>,
         NEW p \in Procs, pc[p] # "cacheSet", NEW e, Fail(p, e)
  PROVE  CacheInv'
<1>1. Goto(p, "end") /\ \A o \in Procs \ {p} : job'[o] = job[o]
  BY DEF Fail, TypeInv, TypeOK
<1> QED
  BY <1>1, CacheQuietMove DEF Steps

\* The user just written is in the history with all the others.
LEMMA RecordHistory ==
  ASSUME TypeInv, NEW p \in Procs, NEW i \in UserIds, NEW u \in User, Record(p, i, u)
  PROVE  /\ db'[i] = u /\ u \in hist'[i] /\ hist[i] \subseteq hist'[i]
         /\ \A k \in UserIds \ {i} : db'[k] = db[k] /\ hist'[k] = hist[k]
BY DEF Record, TypeInv, TypeOK

LEMMA InsertOneCache ==
  ASSUME TypeInv, TypeInv', CacheInv, NEW p \in Procs, InsertOne(p) PROVE CacheInv'
<1> DEFINE r == job[p].req
<1>1. r \in CreateReq /\ pc[p] # "cacheSet"
  BY DEF TypeInv, JobsFit, Fits, InsertOne, At
<1>2. PICK i \in UserIds :
        /\ db[i] = NoUser
        /\ \/ /\ Record(p, i, NewUser(i, r))
              /\ job' = [job EXCEPT ![p].user = NewUser(i, r)]
              /\ Goto(p, "cacheSet")
           \/ /\ Fail(p, ErrorOf(p, "mongo"))
              /\ Record(p, i, NewUser(i, r)) \/ UNCHANGED <<db, hist, applied>>
  BY DEF InsertOne
<1> DEFINE u == NewUser(i, r)
<1>3. u \in User /\ u.id = i
  BY <1>1, NewUserType
<1>4. cache' = cache /\ suspect' = suspect
  BY DEF InsertOne
<1>5. cache[i] = NoUser /\ Holders(i) = {}
  BY <1>2 DEF CacheInv, HistOK, CacheHoldsCommitted, HeldCommitted, Holders
<1>6. \A o \in Procs \ {p} : pc'[o] = pc[o] /\ job'[o] = job[o]
  BY <1>2 DEF Goto, Fail, TypeInv, TypeOK
<1>7. CASE Record(p, i, u)
  <2>1. pc'[p] = "cacheSet" => job'[p].user = u
    BY <1>2 DEF Fail, Goto, TypeInv, TypeOK, Job
  <2>2. HistOK'
    BY <1>3, <1>7, RecordHistory, UserIdType DEF CacheInv, HistOK
  <2>3. \A o \in Procs : pc'[o] = "cacheSet" =>
          \/ job'[o].user = u
          \/ job'[o] = job[o] /\ pc[o] = "cacheSet" /\ job[o].user.id # i
    BY <1>5, <1>6, <2>1 DEF Holders
  <2>4. \A o \in Procs : pc'[o] = "cacheSet" => job'[o].user.id \in UserIds
    BY UserIdType DEF TypeInv, JobsFit, Fits
  <2>5. HeldCommitted'
    BY <1>3, <1>7, <2>3, <2>4, RecordHistory DEF CacheInv, HeldCommitted
  <2>6. HeldFresh'
    BY <1>3, <1>4, <1>7, <2>3, <2>4, RecordHistory DEF CacheInv, HeldFresh
  <2>7. CacheHoldsCommitted'
    BY <1>3, <1>4, <1>7, RecordHistory DEF CacheInv, CacheHoldsCommitted
  <2>8. StaleHasCause'
    <3>1. \A k \in UserIds : Refreshers(k) \subseteq Refreshers(k)'
      BY <1>1, <1>6 DEF Refreshers, Holders
    <3> QED
      BY <1>3, <1>4, <1>5, <1>7, <3>1, RecordHistory DEF CacheInv, StaleHasCause
  <2> QED
    BY <2>2, <2>5, <2>6, <2>7, <2>8 DEF CacheInv
<1>8. CASE UNCHANGED <<db, hist, applied>> /\ Fail(p, ErrorOf(p, "mongo"))
  BY <1>1, <1>4, <1>8, CacheQuietFail
<1> QED
  BY <1>2, <1>7, <1>8

LEMMA FindOneCache ==
  ASSUME TypeInv, CacheInv, NEW p \in Procs, FindOne(p) PROVE CacheInv'
<1> DEFINE r == job[p].req
           Found(i) == IF r.op = "update" THEN Merge(db[i], r) ELSE db[i]
<1>1. /\ r \in UpdateReq \cup DeleteReq \cup LoginReq \cup GetByIdReq
      /\ r \in Request
      /\ pc[p] # "cacheSet" /\ job[p] \in Job
  BY DEF TypeInv, TypeOK, JobsFit, Fits, FindOne, At, Request, QueueReq
<1>2. UNCHANGED <<db, cache, hist, suspect>>
  BY DEF FindOne, store, ghosts
<1>3. ASSUME NEW i \in Matches(r),
             job' = [job EXCEPT ![p].user = Found(i)], Goto(p, AfterFind[r.op])
      PROVE  CacheInv'
  <2>1. \A o \in Procs \ {p} : pc'[o] = pc[o] /\ job'[o] = job[o]
    BY <1>3 DEF Goto, TypeInv, TypeOK
  <2>2. CASE r.op = "login"
    <3>1. i \in UserIds /\ db[i] \in User /\ db[i].id = i
      BY <1>1, <2>2 DEF Matches, IsLive, TypeInv, TypeOK, KeyedOK
    <3>2. pc'[p] = "cacheSet" /\ job'[p].user = db[i] /\ job'[p].req = r
      BY <1>1, <1>3, <2>2 DEF Goto, TypeInv, TypeOK, AfterFind, Job
    <3>3. HeldCommitted' /\ HeldFresh'
      BY <1>2, <2>1, <3>1, <3>2, UserIdType
      DEF CacheInv, HistOK, HeldCommitted, HeldFresh, TypeInv, JobsFit, Fits
    <3>4. \A k \in UserIds : Refreshers(k)' = Refreshers(k)
      BY <1>1, <2>1, <2>2, <3>2 DEF Refreshers, Holders
    <3>5. HistOK' /\ CacheHoldsCommitted' /\ StaleHasCause'
      BY <1>2, <3>4 DEF CacheInv, HistOK, CacheHoldsCommitted, StaleHasCause
    <3> QED
      BY <3>3, <3>5 DEF CacheInv
  <2>3. CASE r.op # "login"
    <3>1. AfterFind[r.op] \in Steps \ {"cacheSet"}
      BY <1>1, <2>3, RequestKinds
      DEF AfterFind, Steps, UpdateReq, DeleteReq, LoginReq, GetByIdReq
    <3> QED
      BY <1>1, <1>2, <1>3, <2>1, <3>1, CacheQuietMove
  <2> QED
    BY <2>2, <2>3
<1>4. ASSUME NEW e, Fail(p, e) PROVE CacheInv'
  BY <1>1, <1>2, <1>4, CacheQuietFail
<1>5. \/ \E i \in Matches(r) : /\ job' = [job EXCEPT ![p].user = Found(i)]
                             /\ Goto(p, AfterFind[r.op])
      \/ Fail(p, "notFound")
      \/ Fail(p, "password")
      \/ Fail(p, ErrorOf(p, "mongo"))
  BY DEF FindOne
<1> QED
  BY <1>3, <1>4, <1>5

LEMMA UpdateOneCache ==
  ASSUME TypeInv, TypeInv', CacheInv, NEW p \in Procs, UpdateOne(p) PROVE CacheInv'
<1> DEFINE i == job[p].req.id
           u == job[p].user
<1>1. /\ pc[p] = "write" /\ job[p].req.op = "update"
      /\ u \in User /\ u.id = i /\ i \in UserIds
  <2>1. pc[p] = "write" /\ job[p].req.op = "update"
    BY DEF UpdateOne, At
  <2>2. job[p].req \in UpdateReq \cup DeleteReq /\ u \in User /\ u.id = i
    BY <2>1 DEF TypeInv, JobsFit, Fits
  <2> QED
    BY <2>1, <2>2, RequestIds
<1>2. cache' = cache
  BY DEF UpdateOne
<1>3. \A o \in Procs \ {p} : pc'[o] = pc[o] /\ job'[o] = job[o]
  BY DEF UpdateOne, Goto, Fail, TypeInv, TypeOK
<1>4. CASE Record(p, i, u)
  <2>1. CASE /\ suspect' = IF Holders(i) # {} THEN suspect \cup {i} ELSE suspect
             /\ Goto(p, AfterUpdate) /\ UNCHANGED job
    <3>1. pc'[p] = "cacheSet"
      BY <2>1 DEF Goto, AfterUpdate, TypeInv, TypeOK
    <3>2. p \in Refreshers(i)'
      BY <1>1, <2>1, <3>1 DEF Refreshers, Holders
    <3>3. \A o \in Procs \ {p} : pc'[o] = "cacheSet" =>
            /\ pc[o] = "cacheSet" /\ job[o].user.id \in UserIds
            /\ job[o].user.id = i => i \in suspect'
      BY <1>3, <2>1, UserIdType DEF Holders, TypeInv, JobsFit, Fits
    <3>4. HistOK' /\ CacheHoldsCommitted'
      BY <1>1, <1>2, <1>4, RecordHistory, UserIdType DEF CacheInv, HistOK, CacheHoldsCommitted
    <3>5. HeldCommitted'
      BY <1>1, <1>3, <1>4, <2>1, <3>3, RecordHistory DEF CacheInv, HeldCommitted
    <3>6. HeldFresh'
      BY <1>1, <1>3, <1>4, <2>1, <3>3, RecordHistory DEF CacheInv, HeldFresh
    <3>7. \A k \in UserIds : Refreshers(k) \subseteq Refreshers(k)'
      BY <1>1, <1>3, <3>1 DEF Refreshers, Holders
    <3>8. StaleHasCause'
      BY <1>1, <1>2, <1>4, <2>1, <3>2, <3>7, RecordHistory DEF CacheInv, StaleHasCause
    <3> QED
      BY <3>4, <3>5, <3>6, <3>8 DEF CacheInv
  <2>2. CASE suspect' = suspect \cup {i} /\ Fail(p, ErrorOf(p, "mongo"))
    <3>1. pc'[p] = "end"
      BY <2>2 DEF Fail, Goto, TypeInv, TypeOK
    <3>2. \A o \in Procs : pc'[o] = "cacheSet" =>
            /\ pc[o] = "cacheSet" /\ job'[o] = job[o] /\ job[o].user.id \in UserIds
      BY <1>3, <3>1, UserIdType DEF TypeInv, JobsFit, Fits
    <3>3. HistOK' /\ CacheHoldsCommitted'
      BY <1>1, <1>2, <1>4, RecordHistory, UserIdType DEF CacheInv, HistOK, CacheHoldsCommitted
    <3>4. HeldCommitted' /\ HeldFresh'
      BY <1>1, <1>4, <2>2, <3>2, RecordHistory DEF CacheInv, HeldCommitted, HeldFresh
    <3>5. \A k \in UserIds : Refreshers(k) \subseteq Refreshers(k)'
      BY <1>1, <1>3 DEF Refreshers, Holders
    <3>6. StaleHasCause'
      BY <1>1, <1>2, <1>4, <2>2, <3>5, RecordHistory DEF CacheInv, StaleHasCause
    <3> QED
      BY <3>3, <3>4, <3>6 DEF CacheInv
  <2>3. CASE UNCHANGED <<db, hist, applied, suspect>> /\ \E e : Fail(p, e)
    BY <1>1, <1>2, <2>3, CacheQuietFail
  <2> QED
    BY <2>1, <2>2, <2>3 DEF UpdateOne
<1>5. CASE UNCHANGED <<db, hist, applied, suspect>> /\ \E e : Fail(p, e)
  BY <1>1, <1>2, <1>5, CacheQuietFail
<1> QED
  BY <1>4, <1>5 DEF UpdateOne

LEMMA CacheSetCache ==
  ASSUME TypeInv, CacheInv, NEW p \in Procs, CacheSet(p) PROVE CacheInv'
<1>1. PICK u \in User, i \in UserIds : u = job[p].user /\ i = u.id
  BY UserIdType DEF TypeInv, JobsFit, Fits, CacheSet, At
<1>2. UNCHANGED <<db, hist>> /\ cache' \in {cache, [cache EXCEPT ![i] = u]}
  BY <1>1 DEF CacheSet
<1>3. /\ pc[p] = "cacheSet" /\ pc'[p] = "end"
      /\ \A o \in Procs \ {p} : pc'[o] = pc[o] /\ job'[o] = job[o]
  BY DEF CacheSet, At, Goto, Fail, TypeInv, TypeOK
<1>4. suspect \subseteq suspect'
  BY DEF CacheSet
<1>5. CASE cache' = [cache EXCEPT ![i] = u]
  <2>1. u = db[i] \/ i \in suspect
    BY <1>1, <1>3 DEF CacheInv, HeldFresh
  <2>2. u \in hist[i]
    BY <1>1, <1>3 DEF CacheInv, HeldCommitted
  <2>3. cache'[i] = u /\ \A k \in UserIds \ {i} : cache'[k] = cache[k]
    BY <1>5 DEF TypeInv, TypeOK
  <2>4. \A k \in UserIds \ {i} : Refreshers(k) \subseteq Refreshers(k)'
    BY <1>1, <1>3 DEF Refreshers, Holders
  <2>5. CacheHoldsCommitted'
    BY <1>2, <2>2, <2>3 DEF CacheInv, CacheHoldsCommitted
  <2>6. StaleHasCause'
    BY <1>2, <1>4, <2>1, <2>3, <2>4 DEF CacheInv, StaleHasCause
  <2>7. HistOK' /\ HeldCommitted' /\ HeldFresh'
    BY <1>2, <1>3, <1>4 DEF CacheInv, HistOK, HeldCommitted, HeldFresh
  <2> QED
    BY <2>5, <2>6, <2>7 DEF CacheInv
<1>6. CASE cache' = cache /\ (job[p].req.op = "update" => i \in suspect')
  <2>1. \A k \in UserIds : Refreshers(k) \ {p} \subseteq Refreshers(k)'
    BY <1>3 DEF Refreshers, Holders
  <2>2. \A k \in UserIds : p \in Refreshers(k) => k \in suspect'
    BY <1>1, <1>6 DEF Refreshers, Holders
  <2>3. CacheHoldsCommitted' /\ StaleHasCause'
    BY <1>2, <1>4, <1>6, <2>1, <2>2 DEF CacheInv, CacheHoldsCommitted, StaleHasCause
  <2>4. HistOK' /\ HeldCommitted' /\ HeldFresh'
    BY <1>2, <1>3, <1>4 DEF CacheInv, HistOK, HeldCommitted, HeldFresh
  <2> QED
    BY <2>3, <2>4 DEF CacheInv
<1> QED
  BY <1>1, <1>2, <1>5, <1>6 DEF CacheSet

LEMMA ExpireCache ==
  ASSUME TypeInv, CacheInv, NEW i \in UserIds, Expire(i) PROVE CacheInv'
<1>1. /\ UNCHANGED <<db, hist, pc, job>>
      /\ cache' = [cache EXCEPT ![i] = NoUser]
      /\ suspect' = IF Holders(i) = {} THEN suspect \ {i} ELSE suspect
  BY DEF Expire, local
<1>2. HistOK' /\ CacheHoldsCommitted' /\ HeldCommitted'
  BY <1>1 DEF CacheInv, HistOK, CacheHoldsCommitted, HeldCommitted, TypeInv, TypeOK
<1>3. HeldFresh'
  BY <1>1 DEF CacheInv, HeldFresh, Holders
<1>4. \A k \in UserIds : Refreshers(k)' = Refreshers(k)
  BY <1>1 DEF Refreshers, Holders
<1>5. StaleHasCause'
  BY <1>1, <1>4 DEF CacheInv, StaleHasCause, TypeInv, TypeOK
<1> QED
  BY <1>2, <1>3, <1>5 DEF CacheInv

LEMMA VanishCache == ASSUME CacheInv, Vanish PROVE CacheInv'
<1>1. /\ UNCHANGED <<db, cache, hist>>
      /\ suspect' = suspect \cup {i \in UserIds : Refreshers(i) # {}}
      /\ \A p \in Procs : pc'[p] = "idle"
  BY DEF Vanish, store
<1> QED
  BY <1>1 DEF CacheInv, HistOK, CacheHoldsCommitted, HeldCommitted, HeldFresh, StaleHasCause

LEMMA CacheStep == TypeInv /\ TypeInv' /\ CacheInv /\ [Next]_vars => CacheInv'
<1> SUFFICES ASSUME TypeInv, TypeInv', CacheInv, [Next]_vars PROVE CacheInv'
  OBVIOUS
<1>1. ASSUME NEW p \in Procs, Handle(p) PROVE CacheInv'
  <2>1. CASE CheckContext(p)
    <3>1. UNCHANGED <<db, cache, hist, suspect>> /\ pc[p] # "cacheSet"
      BY <2>1 DEF CheckContext, At, store, ghosts
    <3>2. Fail(p, "ctx") \/ (Goto(p, "insert") /\ UNCHANGED job)
      BY <2>1 DEF CheckContext
    <3> QED
      BY <3>1, <3>2, CacheQuietFail, CacheQuietMove DEF Steps
  <2>2. CASE DeleteOne(p)
    BY <2>2, CacheQuietFail DEF DeleteOne, At, store, ghosts
  <2>3. CASE CacheGet(p)
    <3>1. UNCHANGED <<db, cache, hist, suspect>> /\ pc[p] # "cacheSet"
      BY <2>3 DEF CacheGet, At, store, ghosts
    <3>2. /\ Goto(p, "end") \/ Goto(p, "find")
          /\ \A o \in Procs \ {p} : job'[o] = job[o]
      BY <2>3 DEF CacheGet, TypeInv, TypeOK
    <3> QED
      BY <3>1, <3>2, CacheQuietMove DEF Steps
  <2> QED
    BY <1>1, <2>1, <2>2, <2>3, InsertOneCache, FindOneCache, UpdateOneCache, CacheSetCache
    DEF Handle
\* A goroutine begins or ends a request.
<1>2. ASSUME NEW p \in Procs, NEW n, NEW r \in Request, Start(p, n, r), pc[p] = "idle",
             UNCHANGED <<store, ghosts>>
      PROVE  CacheInv'
  <2>1. Entry[r.op] \in Steps \ {"cacheSet"}
    BY RequestKinds DEF Entry, Steps
  <2> QED
    BY <1>2, <2>1, CacheQuietMove DEF Start, store, ghosts, TypeInv, TypeOK
<1>3. ASSUME NEW p \in Procs, Goto(p, "idle") \/ Goto(p, "stopped"), pc[p] # "cacheSet",
             \A o \in Procs \ {p} : job'[o] = job[o], UNCHANGED <<store, ghosts>>
      PROVE  CacheInv'
  BY <1>3, CacheQuietMove DEF Steps, store, ghosts
<1>4. ASSUME NEW q \in Queues, Consume(q) \/ Stop(q) PROVE CacheInv'
  <2>1. q \in Procs
    BY DEF Procs
  <2>2. CASE Take(q)
    <3>1. PICK n \in MsgIds : status[n] = "ready" /\ Start(q, n, body[n])
      BY <2>2 DEF Take, IsHead
    <3> QED
      BY <1>2, <2>1, <2>2, <3>1, PublishedBody DEF Take, At
  <2>3. CASE TakeBuffered(q)
    <3>1. PICK n \in Buffered(q) : Start(q, n, body[n])
      BY <2>3 DEF TakeBuffered
    <3>2. body[n] \in Request
      BY PublishedBody DEF Buffered, TypeInv, TypeOK
    <3> QED
      BY <1>2, <2>1, <2>3, <3>1, <3>2 DEF TakeBuffered, At
  <2>4. CASE TakeEmpty(q)
    BY <2>1, <2>4, CacheQuietFail DEF TakeEmpty, At, store, ghosts
  <2>5. CASE Settle(q)
    BY <1>3, <2>1, <2>5 DEF Settle, At, TypeInv, TypeOK
  <2>6. CASE Stop(q)
    BY <1>3, <2>1, <2>6 DEF Stop, At
  <2> QED
    BY <1>1, <1>4, <2>1, <2>2, <2>3, <2>4, <2>5, <2>6 DEF Consume
<1>5. ASSUME NEW c \in Clients, Call(c) \/ Serve(c) PROVE CacheInv'
  <2>1. c \in Procs
    BY DEF Procs
  <2>2. CASE Call(c)
    <3>1. PICK r \in Calls : Start(c, 0, r)
      BY <2>2 DEF Call
    <3> QED
      BY <1>2, <2>1, <2>2, <3>1, UsersAssumption DEF Call, At
  <2>3. CASE Reply(c)
    BY <1>3, <2>1, <2>3 DEF Reply, At, TypeInv, TypeOK
  <2> QED
    BY <1>1, <1>5, <2>1, <2>2, <2>3 DEF Serve
<1>6. CASE \E i \in UserIds : Expire(i)
  BY <1>6, ExpireCache
<1>7. CASE Exit \/ Crash
  BY <1>7, VanishCache DEF Exit, Crash
<1>8. CASE Publish \/ Signal \/ Disconnect \/ Restart \/ UNCHANGED vars
  <2>1. UNCHANGED <<db, cache, hist, suspect, pc, job>>
    BY <1>8 DEF Publish, Signal, Disconnect, Restart, vars, store, local, ghosts
  <2> QED
    BY <2>1, CacheQuiet
<1> QED
  BY <1>4, <1>5, <1>6, <1>7, <1>8 DEF Next

\* Whatever Redis holds for a user, Mongo has held: no interleaving of the
\* handlers and no failed call puts a made-up user before GetById.
THEOREM CacheCommitted == Spec => []CacheHoldsCommitted
<1>1. CacheInv => CacheHoldsCommitted
  BY DEF CacheInv
<1> QED
  BY <1>1, TypeInit, TypeStep, CacheInit, CacheStep, PTL DEF Spec

\* Redis is behind Mongo only while a refresh is under way or after one of the
\* races and failures StaleHasCause names; there is no other way.
THEOREM StaleCaused == Spec => []StaleHasCause
<1>1. CacheInv => StaleHasCause
  BY DEF CacheInv
<1> QED
  BY <1>1, TypeInit, TypeStep, CacheInit, CacheStep, PTL DEF Spec

-----------------------------------------------------------------------------
(* Deliveries and acknowledgements. *)

Working(q) == pc[q] \notin {"idle", "stopped"}
Busy(q)    == Working(q) /\ pc[q] # "end"

\* The steps of a consumer before its write.
BeforeWrite == {"check", "insert", "find", "write"}

\* How often the handling of a message has written.
Writes(n) == Cardinality(applied[n])

\* The message a consumer works on is one of its queue, and the broker waits for
\* its answer unless the connection it came by is lost.
HoldsOK ==
  \A q \in Queues : Working(q) /\ job[q].msg # 0 =>
    /\ job[q].req.op = q
    /\ status[job[q].msg] = "unacked" <=> connected
    /\ job[q].msg \notin buffered

BusyOK == \A q \in Queues : Busy(q) => job[q].msg # 0

IdleOK == \A q \in Queues : ~Working(q) => job[q].msg = 0

\* A delivery the broker waits for is with a consumer.
UnackedHeld ==
  \A n \in MsgIds : status[n] = "unacked" => \E q \in Queues : Working(q) /\ job[q].msg = n

LifeOK ==
  /\ connected => up /\ buffered = {}
  /\ ~up => buffered = {} /\ \A p \in Procs : pc[p] = "idle"

\* A message that may be delivered again has written no more often than
\* deliveries have been lost; one lost delivery is spent on a second copy.
CountOK ==
  \A n \in MsgIds :
    /\ IsFiniteSet(applied[n])
    /\ status[n] = "unsent" => applied[n] = {}
    /\ status[n] = "ready" => Writes(n) <= losses
    /\ n \in buffered => Writes(n) + 1 <= losses
    /\ Writes(n) <= losses + 1

BeforeOK ==
  \A q \in Queues : pc[q] \in BeforeWrite =>
    /\ Writes(job[q].msg) <= losses
    /\ ~connected => Writes(job[q].msg) + 1 <= losses

\* A handler without an error has written.
DoneOK ==
  \A q \in Queues : pc[q] \in {"cacheSet", "end"} /\ job[q].err = "none" =>
    job[q].msg # 0 /\ applied[job[q].msg] # {}

DeliveryInv ==
  /\ HoldsOK
  /\ BusyOK
  /\ IdleOK
  /\ UnackedHeld
  /\ LifeOK
  /\ CountOK
  /\ BeforeOK
  /\ DoneOK
  /\ AckMeansDone

\* One write more is at most one id more.
LEMMA AddOne ==
  ASSUME NEW S, IsFiniteSet(S), NEW x
  PROVE  /\ IsFiniteSet(S \cup {x})
         /\ Cardinality(S) \in Nat
         /\ Cardinality(S \cup {x}) \in Nat
         /\ Cardinality(S \cup {x}) <= Cardinality(S) + 1
<1>1. Cardinality(S) \in Nat
  BY FS_CardinalityType
<1>2. CASE x \in S
  <2>1. S \cup {x} = S
    BY <1>2
  <2>2. Cardinality(S \cup {x}) = Cardinality(S) /\ IsFiniteSet(S \cup {x})
    BY <2>1, Zenon
  <2> QED
    BY <1>1, <2>2
<1>3. CASE x \notin S
  BY <1>1, <1>3, FS_AddElement
<1> QED
  BY <1>2, <1>3

LEMMA DeliveryInit == Init => DeliveryInv
<1> SUFFICES ASSUME Init PROVE DeliveryInv
  OBVIOUS
<1>1. \A n \in MsgIds : status[n] = "unsent" /\ applied[n] = {}
  BY DEF Init
<1>2. \A p \in Procs : pc[p] = "idle"
  BY DEF Init
<1>3. CountOK
  BY <1>1, FS_EmptySet DEF Init, CountOK, Writes
<1>4. IdleOK
  BY DEF Init, IdleOK, Procs, NoJob
<1> QED
  BY <1>1, <1>2, <1>3, <1>4 DEF Init, DeliveryInv, HoldsOK, BusyOK, UnackedHeld, LifeOK, BeforeOK,
                          BeforeWrite, DoneOK, AckMeansDone, Working, Busy, Procs

\* A goroutine p that moves on within its request.
Moves(p) ==
  /\ pc'[p] \in Steps \ {"idle", "stopped"} /\ job'[p] \in Job
  /\ job'[p].msg = job[p].msg /\ job'[p].req = job[p].req
  /\ \A o \in Procs \ {p} : pc'[o] = pc[o] /\ job'[o] = job[o]

\* The write of a consumer's handler.
Writing(p) ==
  /\ pc[p] \in BeforeWrite /\ pc'[p] \in {"cacheSet", "end"}
  /\ \E i \in UserIds : applied' = [applied EXCEPT ![job[p].msg] = @ \cup {i}]

\* A step that does not write: it stays before the write, fails, or is past it.
NotWriting(p) ==
  /\ applied' = applied
  /\ pc'[p] \in BeforeWrite => pc[p] \in BeforeWrite
  /\ pc'[p] \in {"cacheSet", "end"} /\ job'[p].err = "none" =>
       pc[p] = "cacheSet" /\ job[p].err = "none"

LEMMA FailMoves ==
  ASSUME TypeInv, NEW p \in Procs, NEW e \in Errors \ {"none"}, Fail(p, e)
  PROVE  /\ Moves(p) /\ pc'[p] = "end"
         /\ applied' = applied => NotWriting(p)
<1>1. pc' = [pc EXCEPT ![p] = "end"] /\ job' = [job EXCEPT ![p].err = e]
  BY DEF Fail, Goto
<1>2. pc'[p] = "end" /\ job'[p] = [job[p] EXCEPT !.err = e] /\ job[p] \in Job
  BY <1>1 DEF TypeInv, TypeOK
<1>3. job'[p].msg = job[p].msg /\ job'[p].req = job[p].req /\ job'[p].err = e /\ job'[p] \in Job
  BY <1>2 DEF Job
<1>4. \A o \in Procs \ {p} : pc'[o] = pc[o] /\ job'[o] = job[o]
  BY <1>1 DEF TypeInv, TypeOK
<1> QED
  BY <1>2, <1>3, <1>4 DEF Moves, NotWriting, BeforeWrite, Steps

\* What a step of a handler means for the delivery it works on.
LEMMA HandleShape ==
  ASSUME TypeInv, DeliveryInv, NEW p \in Procs, Handle(p)
  PROVE  /\ UNCHANGED <<broker, life, losses>>
         /\ Moves(p)
         /\ p \notin Queues => applied' = applied
         /\ p \in Queues => Writing(p) \/ NotWriting(p)
<1>1. job[p] \in Job /\ up
  BY DEF Handle, CheckContext, InsertOne, FindOne, UpdateOne, DeleteOne, CacheSet, CacheGet,
         At, TypeInv, TypeOK
<1>2. CASE CheckContext(p)
  <2>1. applied' = applied /\ UNCHANGED <<broker, life, losses>> /\ pc[p] = "check"
    BY <1>2 DEF CheckContext, At, ghosts, budget
  <2>2. CASE Fail(p, "ctx")
    BY <2>1, <2>2, FailMoves DEF Errors
  <2>3. CASE Goto(p, "insert") /\ UNCHANGED job
    BY <1>1, <2>1, <2>3 DEF Goto, Moves, NotWriting, BeforeWrite, TypeInv, TypeOK, Steps
  <2> QED
    BY <1>2, <2>1, <2>2, <2>3 DEF CheckContext
<1>3. CASE DeleteOne(p)
  BY <1>3, FailMoves DEF DeleteOne, ghosts, budget, Errors
<1>4. p \in Queues => job[p].req.op = p
  <2>1. p \in Queues => Busy(p)
    BY DEF Handle, CheckContext, InsertOne, FindOne, UpdateOne, DeleteOne, CacheSet, CacheGet,
           At, Busy, Working
  <2> QED
    BY <2>1 DEF DeliveryInv, BusyOK, HoldsOK, Busy
<1>5. \A e \in {"mongo", "redis"} : ErrorOf(p, e) \in Errors \ {"none"}
  BY DEF ErrorOf, Errors
\* A goroutine takes a user it has found and goes on.
<1>6. ASSUME NEW u \in User \cup {NoUser}, NEW step \in Steps \ {"idle", "stopped"},
             job' = [job EXCEPT ![p].user = u], Goto(p, step)
      PROVE  Moves(p) /\ pc'[p] = step /\ job'[p].err = job[p].err
  <2>1. job'[p] = [job[p] EXCEPT !.user = u] /\ pc'[p] = step
    BY <1>6 DEF Goto, TypeInv, TypeOK
  <2>2. \A o \in Procs \ {p} : pc'[o] = pc[o] /\ job'[o] = job[o]
    BY <1>6 DEF Goto, TypeInv, TypeOK
  <2> QED
    BY <1>1, <2>1, <2>2 DEF Moves, Job
<1>7. ASSUME NEW step \in Steps \ {"idle", "stopped"}, UNCHANGED job, Goto(p, step)
      PROVE  Moves(p) /\ pc'[p] = step /\ job'[p] = job[p]
  BY <1>1, <1>7 DEF Goto, Moves, TypeInv, TypeOK
<1>8. CASE InsertOne(p)
  <2>1. pc[p] = "insert" /\ UNCHANGED <<broker, life, losses>>
    BY <1>8 DEF InsertOne, At
  <2>2. job[p].req \in CreateReq
    BY <2>1 DEF TypeInv, JobsFit, Fits
  <2>3. PICK i \in UserIds :
          \/ /\ Record(p, i, NewUser(i, job[p].req))
             /\ job' = [job EXCEPT ![p].user = NewUser(i, job[p].req)]
             /\ Goto(p, "cacheSet")
          \/ /\ Fail(p, ErrorOf(p, "mongo"))
             /\ \/ Record(p, i, NewUser(i, job[p].req))
                \/ UNCHANGED <<db, hist, applied>>
    BY <1>8 DEF InsertOne
  <2>4. NewUser(i, job[p].req) \in User
    BY <2>2, NewUserType
  <2>5. Moves(p) /\ pc'[p] \in {"cacheSet", "end"}
    BY <1>5, <1>6, <2>3, <2>4, FailMoves DEF Steps
  <2>6. CASE Record(p, i, NewUser(i, job[p].req))
    BY <2>1, <2>5, <2>6 DEF Record, Writing, BeforeWrite
  <2>7. CASE UNCHANGED <<db, hist, applied>> /\ Fail(p, ErrorOf(p, "mongo"))
    BY <1>5, <2>1, <2>5, <2>7, FailMoves
  <2> QED
    BY <2>3, <2>6, <2>7
<1>9. CASE FindOne(p)
  <2> DEFINE r == job[p].req
             Found(i) == IF r.op = "update" THEN Merge(db[i], r) ELSE db[i]
  <2>1. /\ pc[p] = "find" /\ UNCHANGED <<broker, life, losses>> /\ applied' = applied
        /\ r \in UpdateReq \cup DeleteReq \cup LoginReq \cup GetByIdReq /\ r \in Request
    BY <1>9 DEF FindOne, At, ghosts, TypeInv, JobsFit, Fits, Request, QueueReq
  <2>2. ASSUME NEW i \in Matches(r),
               job' = [job EXCEPT ![p].user = Found(i)], Goto(p, AfterFind[r.op])
        PROVE  Moves(p) /\ (p \in Queues => NotWriting(p))
    <3>1. Found(i) \in User
      BY <2>1, RequestKinds, MergeType DEF Matches, IsLive, TypeInv, TypeOK
    <3>2. r.op \in {"update", "delete", "login", "getById"}
      BY <2>1 DEF UpdateReq, DeleteReq, LoginReq, GetByIdReq
    <3>3. AfterFind[r.op] \in Steps \ {"idle", "stopped"}
      BY <3>2 DEF AfterFind, Steps
    <3>4. Moves(p) /\ pc'[p] = AfterFind[r.op]
      BY <1>6, <2>2, <3>1, <3>3
    <3>5. p \in Queues => AfterFind[r.op] = "write"
      BY <1>4, <3>2 DEF AfterFind, Queues
    <3> QED
      BY <2>1, <3>4, <3>5 DEF NotWriting, BeforeWrite
  <2>3. \/ \E i \in Matches(r) : /\ job' = [job EXCEPT ![p].user = Found(i)]
                               /\ Goto(p, AfterFind[r.op])
        \/ \E e \in Errors \ {"none"} : Fail(p, e)
    BY <1>5, <1>9 DEF FindOne, Errors
  <2> QED
    BY <2>1, <2>2, <2>3, FailMoves
<1>10. CASE UpdateOne(p)
  <2>1. pc[p] = "write" /\ UNCHANGED <<broker, life, losses>>
    BY <1>10 DEF UpdateOne, At
  <2>2. \/ Goto(p, AfterUpdate) /\ UNCHANGED job /\ Record(p, job[p].req.id, job[p].user)
        \/ /\ \E e \in Errors \ {"none"} : Fail(p, e)
           /\ Record(p, job[p].req.id, job[p].user) \/ UNCHANGED applied
    BY <1>5, <1>10 DEF UpdateOne, Errors
  <2>3. Moves(p) /\ pc'[p] \in {"cacheSet", "end"}
    BY <1>7, <2>2, FailMoves DEF AfterUpdate, Steps
  <2>4. job[p].req.id \in UserIds
    BY <2>1, RequestIds DEF TypeInv, JobsFit, Fits
  <2>5. CASE Record(p, job[p].req.id, job[p].user)
    BY <2>1, <2>3, <2>4, <2>5 DEF Record, Writing, BeforeWrite
  <2>6. CASE UNCHANGED applied /\ \E e \in Errors \ {"none"} : Fail(p, e)
    BY <2>1, <2>6, FailMoves
  <2> QED
    BY <2>2, <2>5, <2>6
<1>11. CASE CacheSet(p)
  <2>1. pc[p] = "cacheSet" /\ UNCHANGED <<broker, life, losses, applied>>
    BY <1>11 DEF CacheSet, At
  <2>2. (Goto(p, "end") /\ UNCHANGED job) \/ \E e \in Errors \ {"none"} : Fail(p, e)
    BY <1>5, <1>11 DEF CacheSet
  <2> QED
    BY <1>7, <2>1, <2>2, FailMoves DEF NotWriting, BeforeWrite, Steps
<1>12. CASE CacheGet(p)
  <2>1. /\ pc[p] = "cacheGet" /\ UNCHANGED <<broker, life, losses>> /\ applied' = applied
        /\ job[p].req \in GetByIdReq
    BY <1>12 DEF CacheGet, At, ghosts, TypeInv, JobsFit, Fits
  <2>2. p \notin Queues
    BY <1>4, <2>1 DEF GetByIdReq, Queues
  <2>3. cache[job[p].req.id] \in User \cup {NoUser}
    BY <2>1, RequestIds DEF TypeInv, TypeOK
  <2>4. Moves(p)
    BY <1>6, <1>7, <1>12, <2>3 DEF CacheGet, Steps
  <2> QED
    BY <2>1, <2>2, <2>4
<1> QED
  BY <1>2, <1>3, <1>8, <1>9, <1>10, <1>11, <1>12 DEF Handle

LEMMA HandleDelivery ==
  ASSUME TypeInv, TypeInv', DeliveryInv, NEW p \in Procs, Handle(p) PROVE DeliveryInv'
<1>1. /\ UNCHANGED <<status, body, buffered, up, connected, losses>> /\ up
      /\ pc[p] \notin {"idle", "stopped", "end"}
  BY HandleShape DEF broker, life, Handle, CheckContext, InsertOne, FindOne, UpdateOne,
     DeleteOne, CacheSet, CacheGet, At
<1>2. /\ pc'[p] \notin {"idle", "stopped"}
      /\ job'[p].msg = job[p].msg /\ job'[p].req = job[p].req
      /\ \A o \in Procs \ {p} : pc'[o] = pc[o] /\ job'[o] = job[o]
  BY HandleShape DEF Moves
<1>3. Queues \subseteq Procs
  BY DEF Procs
<1>4. HoldsOK'
  BY <1>1, <1>2, <1>3 DEF DeliveryInv, HoldsOK, Working
<1>5. BusyOK' /\ IdleOK'
  BY <1>1, <1>2, <1>3 DEF DeliveryInv, BusyOK, IdleOK, Busy, Working
<1>6. UnackedHeld'
  BY <1>1, <1>2, <1>3 DEF DeliveryInv, UnackedHeld, Working
<1>7. LifeOK'
  BY <1>1 DEF DeliveryInv, LifeOK
<1>8. losses \in Nat
  BY UsersAssumption DEF TypeInv, TypeOK
<1>9. CASE p \in Queues /\ Writing(p)
  <2> DEFINE n == job[p].msg
  <2>1. PICK i \in UserIds : applied' = [applied EXCEPT ![n] = @ \cup {i}]
    BY <1>9 DEF Writing
  <2>2. n \in MsgIds /\ job[p].req.op = p
    <3>1. n # 0 /\ job[p].req.op = p
      BY <1>1, <1>9 DEF DeliveryInv, BusyOK, HoldsOK, Busy, Working
    <3>2. n \in MsgIds \cup {0}
      BY DEF TypeInv, TypeOK, Job
    <3> QED
      BY <3>1, <3>2
  <2>3. /\ applied'[n] = applied[n] \cup {i}
        /\ \A m \in MsgIds \ {n} : applied'[m] = applied[m]
    BY <2>1, <2>2 DEF TypeInv, TypeOK
  <2>4. /\ IsFiniteSet(applied'[n]) /\ Writes(n) \in Nat /\ Cardinality(applied'[n]) \in Nat
        /\ Cardinality(applied'[n]) <= Writes(n) + 1
    <3>1. IsFiniteSet(applied[n])
      BY <2>2 DEF DeliveryInv, CountOK
    <3>2. /\ IsFiniteSet(applied[n] \cup {i})
          /\ Cardinality(applied[n]) \in Nat
          /\ Cardinality(applied[n] \cup {i}) \in Nat
          /\ Cardinality(applied[n] \cup {i}) <= Cardinality(applied[n]) + 1
      BY <3>1, AddOne, Zenon
    <3> QED
      BY <2>3, <3>2 DEF Writes
  <2>5. /\ Writes(n) <= losses /\ (~connected => Writes(n) + 1 <= losses)
        /\ status[n] = "unacked" <=> connected
        /\ n \notin buffered /\ status[n] # "unsent"
    <3>1. status[n] # "unsent"
      BY <2>2, UsersAssumption DEF TypeInv, JobsFit, Carries, BodyOK, MsgIds
    <3>2. Writes(n) <= losses /\ (~connected => Writes(n) + 1 <= losses)
      BY <1>9 DEF DeliveryInv, BeforeOK, Writing
    <3>3. Working(p) /\ job[p].msg # 0
      BY <1>1, <2>2, UsersAssumption DEF MsgIds, Working
    <3>4. (status[n] = "unacked" <=> connected) /\ n \notin buffered
      BY <1>9, <3>3 DEF DeliveryInv, HoldsOK
    <3> QED
      BY <3>1, <3>2, <3>4
  <2>6. CountOK'
    <3>1. ASSUME NEW m \in MsgIds \ {n}
          PROVE  /\ IsFiniteSet(applied'[m])
                 /\ status'[m] = "unsent" => applied'[m] = {}
                 /\ status'[m] = "ready" => Cardinality(applied'[m]) <= losses'
                 /\ m \in buffered' => Cardinality(applied'[m]) + 1 <= losses'
                 /\ Cardinality(applied'[m]) <= losses' + 1
      BY <1>1, <2>3 DEF DeliveryInv, CountOK, Writes
    <3>2. /\ IsFiniteSet(applied'[n])
          /\ status'[n] = "unsent" => applied'[n] = {}
          /\ status'[n] = "ready" => Cardinality(applied'[n]) <= losses'
          /\ n \in buffered' => Cardinality(applied'[n]) + 1 <= losses'
          /\ Cardinality(applied'[n]) <= losses' + 1
      BY <1>1, <1>8, <2>4, <2>5
    <3> QED
      BY <3>1, <3>2 DEF CountOK, Writes
  <2>7. BeforeOK'
    <3>1. ASSUME NEW q \in Queues \ {p}, pc[q] \in BeforeWrite
          PROVE  job[q].msg \in MsgIds \ {n}
      <4>1. job[q].msg # 0 /\ job[q].req.op = q
        BY <3>1 DEF DeliveryInv, BusyOK, HoldsOK, Busy, Working, BeforeWrite
      <4>2. job[q].msg \in MsgIds \cup {0} /\ body[job[q].msg] = job[q].req
        BY <1>3, <4>1 DEF TypeInv, TypeOK, Job, JobsFit, Carries
      <4>3. body[n] = job[p].req
        BY <2>2, UsersAssumption DEF TypeInv, JobsFit, Carries, MsgIds
      <4> QED
        BY <2>2, <4>1, <4>2, <4>3
    <3>2. pc'[p] \notin BeforeWrite
      BY <1>9 DEF Writing, BeforeWrite
    <3> QED
      BY <1>1, <1>2, <1>3, <2>3, <3>1, <3>2 DEF DeliveryInv, BeforeOK, Writes
  <2>8. \A m \in MsgIds : applied[m] \subseteq applied'[m]
    BY <2>3
  <2>9. DoneOK'
    <3>1. n # 0 /\ applied'[n] # {}
      BY <2>2, <2>3, UsersAssumption DEF MsgIds
    <3>2. \A q \in Queues : job[q].msg \in MsgIds \cup {0}
      BY <1>3 DEF TypeInv, TypeOK, Job
    <3> QED
      BY <1>2, <1>3, <2>8, <3>1, <3>2 DEF DeliveryInv, DoneOK
  <2>10. AckMeansDone'
    BY <1>1, <2>8 DEF DeliveryInv, AckMeansDone
  <2> QED
    BY <1>4, <1>5, <1>6, <1>7, <2>6, <2>7, <2>9, <2>10 DEF DeliveryInv
<1>10. CASE applied' = applied /\ (p \in Queues => NotWriting(p))
  <2>1. CountOK' /\ AckMeansDone'
    BY <1>1, <1>10 DEF DeliveryInv, CountOK, AckMeansDone, Writes
  <2>2. BeforeOK'
    BY <1>1, <1>2, <1>3, <1>10 DEF DeliveryInv, BeforeOK, Writes, NotWriting
  <2>3. DoneOK'
    BY <1>2, <1>3, <1>10 DEF DeliveryInv, DoneOK, NotWriting
  <2> QED
    BY <1>4, <1>5, <1>6, <1>7, <2>1, <2>2, <2>3 DEF DeliveryInv
<1> QED
  BY <1>9, <1>10, HandleShape DEF NotWriting

\* No two consumers hold the same message: each takes from its own queue.
LEMMA OneHolder ==
  ASSUME TypeInv, DeliveryInv, NEW q \in Queues, NEW o \in Queues,
         Working(q), Working(o), job[q].msg = job[o].msg, job[q].msg # 0
  PROVE  q = o
<1>1. job[q].req.op = q /\ job[o].req.op = o
  BY DEF DeliveryInv, HoldsOK
<1>2. job[q].req = job[o].req
  BY DEF TypeInv, JobsFit, Carries, Procs
<1> QED
  BY <1>1, <1>2

\* Without a connection the broker waits for no answer.
LEMMA NoneUnacked ==
  ASSUME TypeInv, DeliveryInv, ~connected PROVE \A n \in MsgIds : status[n] # "unacked"
<1> SUFFICES ASSUME NEW n \in MsgIds, status[n] = "unacked" PROVE FALSE
  OBVIOUS
<1>1. PICK q \in Queues : Working(q) /\ job[q].msg = n
  BY DEF DeliveryInv, UnackedHeld
<1>2. n # 0
  BY UsersAssumption DEF MsgIds
<1> QED
  BY <1>1, <1>2 DEF DeliveryInv, HoldsOK

\* A step that concerns neither the consumers nor the broker.
LEMMA QuietDelivery ==
  ASSUME DeliveryInv, UNCHANGED <<status, buffered, connected, up, losses, applied>>,
         \A q \in Queues : pc'[q] = pc[q] /\ job'[q] = job[q],
         ~up => pc' = pc
  PROVE  DeliveryInv'
<1>1. HoldsOK' /\ BusyOK' /\ IdleOK' /\ UnackedHeld'
  BY DEF DeliveryInv, HoldsOK, BusyOK, IdleOK, UnackedHeld, Busy, Working
<1>2. LifeOK'
  BY DEF DeliveryInv, LifeOK
<1>3. CountOK' /\ BeforeOK' /\ DoneOK' /\ AckMeansDone'
  BY DEF DeliveryInv, CountOK, BeforeOK, DoneOK, AckMeansDone, Writes
<1> QED
  BY <1>1, <1>2, <1>3 DEF DeliveryInv

\* What a consumer knows when it starts on a message.
LEMMA Started ==
  ASSUME TypeInv, NEW q \in Queues, NEW n \in MsgIds, body[n].op = q, status[n] # "unsent",
         Start(q, n, body[n])
  PROVE  /\ pc'[q] \in {"check", "find"}
         /\ job'[q].msg = n /\ job'[q].req = body[n] /\ job'[q].req.op = q
         /\ \A o \in Queues \ {q} : pc'[o] = pc[o] /\ job'[o] = job[o]
<1>1. body[n] \in Request
  BY PublishedBody
<1>2. job' = [job EXCEPT ![q] = [NoJob EXCEPT !.msg = n, !.req = body[n]]]
  BY DEF Start
<1>3. q \in Procs /\ job \in [Procs -> Job] /\ pc \in [Procs -> Steps]
  BY DEF Procs, TypeInv, TypeOK
<1>4. job'[q] = [NoJob EXCEPT !.msg = n, !.req = body[n]]
  BY <1>2, <1>3
<1>5. pc'[q] = Entry[q]
  BY <1>3 DEF Start, Goto
<1>6. Entry[q] \in {"check", "find"}
  BY DEF Entry, Queues
<1>7. job'[q].msg = n /\ job'[q].req = body[n]
  BY <1>4 DEF NoJob
<1>8. \A o \in Queues \ {q} : pc'[o] = pc[o] /\ job'[o] = job[o]
  BY <1>2, <1>3 DEF Start, Goto, Procs
<1> QED
  BY <1>5, <1>6, <1>7, <1>8

\* A consumer that starts on message n, which the broker then waits for if and
\* only if the connection is open.
LEMMA StartDelivery ==
  ASSUME TypeInv, DeliveryInv, up, UNCHANGED <<up, connected, losses, applied>>,
         NEW q \in Queues, pc[q] = "idle", NEW n \in MsgIds,
         body[n].op = q, status[n] # "unsent", Start(q, n, body[n]),
         status'[n] = "unacked" <=> connected, status'[n] # "unsent",
         status'[n] = "acked" => applied[n] # {},
         status'[n] = "ready" => Writes(n) <= losses,
         \A m \in MsgIds \ {n} : status'[m] = status[m],
         buffered' \subseteq buffered \ {n},
         \A o \in Queues : Working(o) => job[o].msg # n,
         Writes(n) <= losses, ~connected => Writes(n) + 1 <= losses
  PROVE  DeliveryInv'
<1>1. /\ pc'[q] \in {"check", "find"}
      /\ job'[q].msg = n /\ job'[q].req.op = q
      /\ \A o \in Queues \ {q} : pc'[o] = pc[o] /\ job'[o] = job[o]
  BY Started
<1>2. \A o \in Queues : job[o].msg \in MsgIds \cup {0}
  BY DEF TypeInv, TypeOK, Job, Procs
<1>3. n # 0
  BY UsersAssumption DEF MsgIds
<1>4. HoldsOK'
  <2>1. ASSUME NEW o \in Queues \ {q}, Working(o), job[o].msg # 0
        PROVE  /\ job'[o].req.op = o
               /\ status'[job'[o].msg] = "unacked" <=> connected'
               /\ job'[o].msg \notin buffered'
    <3>1. job[o].msg \in MsgIds \ {n}
      BY <1>2, <2>1
    <3>2. job[o].req.op = o /\ (status[job[o].msg] = "unacked" <=> connected)
          /\ job[o].msg \notin buffered
      BY <2>1 DEF DeliveryInv, HoldsOK
    <3> QED
      BY <1>1, <3>1, <3>2
  <2> QED
    BY <1>1, <2>1 DEF HoldsOK, Working
<1>5. BusyOK' /\ IdleOK'
  BY <1>1, <1>3 DEF DeliveryInv, BusyOK, IdleOK, Busy, Working
<1>6. UnackedHeld'
  <2>1. ASSUME NEW m \in MsgIds \ {n}, status'[m] = "unacked"
        PROVE  \E o \in Queues : Working(o)' /\ job'[o].msg = m
    <3>1. PICK o \in Queues : Working(o) /\ job[o].msg = m
      BY <2>1 DEF DeliveryInv, UnackedHeld
    <3>2. o # q
      BY <3>1 DEF Working
    <3> QED
      BY <1>1, <3>1, <3>2 DEF Working
  <2>2. Working(q)' /\ job'[q].msg = n
    BY <1>1 DEF Working
  <2> QED
    BY <2>1, <2>2 DEF UnackedHeld
<1>7. LifeOK'
  BY DEF DeliveryInv, LifeOK
<1>8. CountOK'
  <2>1. \A m \in MsgIds \ {n} : status'[m] = status[m] /\ (m \in buffered' => m \in buffered)
    OBVIOUS
  <2>2. n \notin buffered'
    OBVIOUS
  <2> QED
    BY <2>1, <2>2 DEF DeliveryInv, CountOK, Writes
<1>9. BeforeOK'
  BY <1>1 DEF DeliveryInv, BeforeOK, Writes
<1>10. DoneOK'
  BY <1>1 DEF DeliveryInv, DoneOK
<1>11. AckMeansDone'
  BY DEF DeliveryInv, AckMeansDone
<1> QED
  BY <1>4, <1>5, <1>6, <1>7, <1>8, <1>9, <1>10, <1>11 DEF DeliveryInv

LEMMA TakeDelivery ==
  ASSUME TypeInv, DeliveryInv, NEW q \in Queues, Take(q) PROVE DeliveryInv'
<1>1. PICK n \in MsgIds : IsHead(n, q) /\ status' = [status EXCEPT ![n] = "unacked"]
                         /\ Start(q, n, body[n])
  BY DEF Take
<1>2. /\ UNCHANGED <<up, connected, losses, applied, buffered>>
      /\ up /\ pc[q] = "idle" /\ connected /\ buffered = {}
  BY DEF Take, At, life, budget, ghosts, DeliveryInv, LifeOK
<1>3. body[n].op = q /\ status[n] = "ready"
  BY <1>1 DEF IsHead
<1>4. status'[n] = "unacked" /\ \A m \in MsgIds \ {n} : status'[m] = status[m]
  BY <1>1 DEF TypeInv, TypeOK
<1>5. \A o \in Queues : Working(o) => job[o].msg # n
  <2>1. n # 0
    BY UsersAssumption DEF MsgIds
  <2> QED
    BY <1>2, <1>3, <2>1 DEF DeliveryInv, HoldsOK
<1>6. Writes(n) <= losses
  BY <1>3 DEF DeliveryInv, CountOK
<1> QED
  BY <1>1, <1>2, <1>3, <1>4, <1>5, <1>6, StartDelivery

LEMMA TakeBufferedDelivery ==
  ASSUME TypeInv, DeliveryInv, NEW q \in Queues, TakeBuffered(q) PROVE DeliveryInv'
<1>1. PICK n \in Buffered(q) : buffered' = buffered \ {n} /\ Start(q, n, body[n])
  BY DEF TakeBuffered
<1>2. /\ UNCHANGED <<up, connected, losses, applied, status>>
      /\ up /\ pc[q] = "idle" /\ ~connected
  BY DEF TakeBuffered, At, life, budget, ghosts
<1>3. n \in MsgIds /\ n \in buffered /\ body[n].op = q /\ status[n] # "unsent"
  BY DEF Buffered, TypeInv, TypeOK
<1>4. status[n] # "unacked"
  BY <1>2, <1>3, NoneUnacked
<1>5. \A o \in Queues : Working(o) => job[o].msg # n
  <2>1. n # 0
    BY <1>3, UsersAssumption DEF MsgIds
  <2> QED
    BY <1>3, <2>1 DEF DeliveryInv, HoldsOK
<1>6. Writes(n) <= losses /\ Writes(n) + 1 <= losses
  <2>1. Writes(n) \in Nat
    BY <1>3, FS_CardinalityType DEF DeliveryInv, CountOK, Writes
  <2>2. losses \in Nat
    BY UsersAssumption DEF TypeInv, TypeOK
  <2> QED
    BY <1>3, <2>1, <2>2 DEF DeliveryInv, CountOK
<1>7. /\ status[n] = "ready" => Writes(n) <= losses
      /\ status[n] = "acked" => applied[n] # {}
  BY <1>3, <1>6 DEF DeliveryInv, AckMeansDone
<1> QED
  BY <1>1, <1>2, <1>3, <1>4, <1>5, <1>6, <1>7, StartDelivery

\* A consumer that fails on an empty delivery holds no message.
LEMMA TakeEmptyDelivery ==
  ASSUME TypeInv, DeliveryInv, NEW q \in Queues, TakeEmpty(q) PROVE DeliveryInv'
<1>1. /\ UNCHANGED <<up, connected, losses, applied, status>>
      /\ up /\ pc[q] = "idle" /\ ~connected /\ buffered' \subseteq buffered
  BY DEF TakeEmpty, At, life, budget, ghosts
<1>2. q \in Procs /\ Queues \subseteq Procs
  BY DEF Procs
<1>3. Moves(q) /\ pc'[q] = "end" /\ NotWriting(q)
  BY <1>1, <1>2, FailMoves DEF TakeEmpty, Errors
<1>4. /\ job'[q].msg = job[q].msg
      /\ \A o \in Queues \ {q} : pc'[o] = pc[o] /\ job'[o] = job[o]
  BY <1>2, <1>3 DEF Moves
<1>5. job[q].msg = 0
  BY <1>1 DEF DeliveryInv, IdleOK, Working
<1>6. HoldsOK' /\ BusyOK' /\ IdleOK'
  BY <1>1, <1>3, <1>4, <1>5 DEF DeliveryInv, HoldsOK, BusyOK, IdleOK, Busy, Working
<1>7. UnackedHeld' /\ AckMeansDone'
  BY <1>1, NoneUnacked DEF UnackedHeld, DeliveryInv, AckMeansDone
<1>8. LifeOK' /\ CountOK'
  BY <1>1 DEF DeliveryInv, LifeOK, CountOK, Writes
<1>9. BeforeOK' /\ DoneOK'
  BY <1>1, <1>3, <1>4 DEF DeliveryInv, BeforeOK, DoneOK, Writes, NotWriting, BeforeWrite
<1> QED
  BY <1>6, <1>7, <1>8, <1>9 DEF DeliveryInv

\* A consumer becomes idle or stops; the broker gets its answer or none.
LEMMA LeaveDelivery ==
  ASSUME TypeInv, DeliveryInv, NEW q \in Queues, NEW a \in {"acked", "dropped"},
         UNCHANGED <<up, connected, losses, applied, buffered>>, up,
         pc'[q] \in {"idle", "stopped"}, job'[q].msg = 0,
         \A o \in Queues \ {q} : pc'[o] = pc[o] /\ job'[o] = job[o],
         Working(q) => ~connected \/ status' = [status EXCEPT ![job[q].msg] = a],
         Working(q) /\ connected => (a = "acked" => job[q].err = "none") /\ pc[q] = "end",
         ~Working(q) \/ ~connected => status' = status
  PROVE  DeliveryInv'
<1> DEFINE n == job[q].msg
<1>1. \A o \in Queues : job[o].msg \in MsgIds \cup {0}
  BY DEF TypeInv, TypeOK, Job, Procs
<1>2. 0 \notin MsgIds
  BY UsersAssumption DEF MsgIds
<1>3. \A m \in MsgIds \ {n} : status'[m] = status[m]
  BY DEF TypeInv, TypeOK
<1>4. n \in MsgIds => status'[n] = status[n] \/ (Working(q) /\ connected /\ status'[n] = a)
  BY DEF TypeInv, TypeOK
<1>5. ASSUME NEW o \in Queues \ {q}, Working(o), job[o].msg # 0
      PROVE  status'[job[o].msg] = status[job[o].msg]
  <2>1. CASE Working(q)
    BY <1>1, <1>3, <1>5, <2>1, OneHolder
  <2>2. CASE ~Working(q)
    BY <2>2
  <2> QED
    BY <2>1, <2>2
<1>6. HoldsOK'
  BY <1>5 DEF DeliveryInv, HoldsOK, Working
<1>7. BusyOK' /\ IdleOK'
  BY DEF DeliveryInv, BusyOK, IdleOK, Busy, Working
<1>8. UnackedHeld'
  <2>1. ASSUME NEW m \in MsgIds, status'[m] = "unacked"
        PROVE  \E o \in Queues \ {q} : Working(o) /\ job[o].msg = m
    <3>1. status[m] = "unacked"
      BY <1>3, <1>4, <2>1
    <3>2. connected
      BY <3>1, NoneUnacked
    <3>3. PICK o \in Queues : Working(o) /\ job[o].msg = m
      BY <3>1 DEF DeliveryInv, UnackedHeld
    <3>4. o # q
      BY <2>1, <3>2, <3>3 DEF TypeInv, TypeOK
    <3> QED
      BY <3>3, <3>4
  <2> QED
    BY <2>1 DEF UnackedHeld, Working
<1>9. LifeOK'
  BY DEF DeliveryInv, LifeOK
<1>10. CountOK'
  BY <1>3, <1>4 DEF DeliveryInv, CountOK, Writes
<1>11. BeforeOK' /\ DoneOK'
  BY DEF DeliveryInv, BeforeOK, DoneOK, Writes, BeforeWrite
<1>12. AckMeansDone'
  <2>1. ASSUME Working(q), connected, a = "acked" PROVE applied[n] # {}
    BY <2>1 DEF DeliveryInv, DoneOK
  <2> QED
    BY <1>3, <1>4, <2>1 DEF DeliveryInv, AckMeansDone
<1> QED
  BY <1>6, <1>7, <1>8, <1>9, <1>10, <1>11, <1>12 DEF DeliveryInv

LEMMA SettleDelivery ==
  ASSUME TypeInv, DeliveryInv, NEW q \in Queues, Settle(q) PROVE DeliveryInv'
<1>1. /\ UNCHANGED <<up, connected, losses, applied, buffered>>
      /\ up /\ pc[q] = "end"
  BY DEF Settle, At, life, budget, ghosts
<1>2. /\ pc'[q] = "idle" /\ job'[q].msg = 0
      /\ \A o \in Queues \ {q} : pc'[o] = pc[o] /\ job'[o] = job[o]
  BY DEF Settle, Goto, TypeInv, TypeOK, Procs, NoJob
<1>3. Answer(job[q].err) \in {"acked", "dropped"}
      /\ (Answer(job[q].err) = "acked" => job[q].err = "none")
  BY DEF Answer
<1>4. status' = IF connected THEN [status EXCEPT ![job[q].msg] = Answer(job[q].err)] ELSE status
  BY DEF Settle
<1>5. Working(q)
  BY <1>1 DEF Working
<1> QED
  BY <1>1, <1>2, <1>3, <1>4, <1>5, LeaveDelivery

LEMMA StopDelivery ==
  ASSUME TypeInv, DeliveryInv, NEW q \in Queues, Stop(q) PROVE DeliveryInv'
<1>1. /\ UNCHANGED <<up, connected, losses, applied, buffered, status, job>>
      /\ up /\ pc[q] = "idle"
  BY DEF Stop, At, broker, budget, ghosts
<1>2. /\ pc'[q] = "stopped"
      /\ \A o \in Queues \ {q} : pc'[o] = pc[o] /\ job'[o] = job[o]
  BY <1>1 DEF Stop, Goto, TypeInv, TypeOK, Procs
<1>3. job'[q].msg = 0 /\ ~Working(q)
  BY <1>1 DEF DeliveryInv, IdleOK, Working
<1> QED
  BY <1>1, <1>2, <1>3, LeaveDelivery

\* When wg.Wait() has returned no delivery is left unanswered.
LEMMA ExitOrder ==
  ASSUME TypeInv, DeliveryInv, wg = 0
  PROVE  (\A q \in Queues : pc[q] = "stopped") /\ \A n \in MsgIds : status[n] # "unacked"
<1>1. \A q \in Queues : pc[q] = "stopped"
  BY DEF TypeInv, WaitOK, Counts, Queues
<1> QED
  BY <1>1 DEF DeliveryInv, UnackedHeld, Working

\* The broker takes its deliveries back: what was lost is counted, unless there
\* was nothing to lose.
LEMMA RequeueCount ==
  ASSUME TypeInv, DeliveryInv, Requeue, applied' = applied,
         \/ losses' = losses + 1
         \/ losses' = losses /\ \A n \in MsgIds : status[n] # "unacked",
         \A n \in MsgIds : n \in buffered' => status[n] = "ready" /\ losses' = losses + 1
  PROVE  /\ CountOK' /\ AckMeansDone'
         /\ \A n \in MsgIds : status'[n] # "unacked"
<1>1. \A n \in MsgIds : status'[n] = IF status[n] = "unacked" THEN "ready" ELSE status[n]
  BY DEF Requeue
<1>2. \A n \in MsgIds : Writes(n) \in Nat
  BY FS_CardinalityType DEF DeliveryInv, CountOK, Writes
<1>3. losses \in Nat
  BY UsersAssumption DEF TypeInv, TypeOK
<1>4. CountOK'
  <2> SUFFICES ASSUME NEW n \in MsgIds
               PROVE  /\ IsFiniteSet(applied'[n])
                      /\ status'[n] = "unsent" => applied'[n] = {}
                      /\ status'[n] = "ready" => Writes(n) <= losses'
                      /\ n \in buffered' => Writes(n) + 1 <= losses'
                      /\ Writes(n) <= losses' + 1
    BY DEF CountOK, Writes
  <2> QED
    BY <1>1, <1>2, <1>3 DEF DeliveryInv, CountOK
<1> QED
  BY <1>1, <1>4 DEF DeliveryInv, AckMeansDone

LEMMA VanishDelivery ==
  ASSUME TypeInv, TypeInv', DeliveryInv, Exit \/ Crash PROVE DeliveryInv'
<1>1. Vanish /\ (losses' = losses + 1 \/ (losses' = losses /\ wg = 0))
  BY DEF Exit, Crash
<1>2. /\ up' = FALSE /\ connected' = FALSE /\ buffered' = {} /\ applied' = applied /\ Requeue
      /\ \A p \in Procs : pc'[p] = "idle" /\ job'[p] = NoJob
  BY <1>1 DEF Vanish
<1>3. /\ CountOK' /\ AckMeansDone'
      /\ \A n \in MsgIds : status'[n] # "unacked"
  BY <1>1, <1>2, ExitOrder, RequeueCount
<1>4. \A q \in Queues : pc'[q] = "idle" /\ job'[q].msg = 0
  BY <1>2 DEF NoJob, Procs
<1>5. HoldsOK' /\ BusyOK' /\ IdleOK' /\ UnackedHeld'
  BY <1>3, <1>4 DEF HoldsOK, BusyOK, IdleOK, UnackedHeld, Busy, Working
<1>6. LifeOK' /\ BeforeOK' /\ DoneOK'
  BY <1>2, <1>4 DEF LifeOK, BeforeOK, DoneOK, BeforeWrite
<1> QED
  BY <1>3, <1>5, <1>6 DEF DeliveryInv

LEMMA DisconnectDelivery ==
  ASSUME TypeInv, DeliveryInv, Disconnect PROVE DeliveryInv'
<1>1. /\ up' = up /\ up /\ connected /\ connected' = FALSE /\ applied' = applied /\ Requeue
      /\ losses' = losses + 1 /\ buffered' = {n \in MsgIds : status[n] = "ready"}
      /\ pc' = pc /\ job' = job
  BY DEF Disconnect, local, ghosts
<1>2. /\ CountOK' /\ AckMeansDone'
      /\ \A n \in MsgIds : status'[n] # "unacked"
  BY <1>1, RequeueCount
<1>3. HoldsOK'
  <2>1. \A q \in Queues : job[q].msg \in MsgIds \cup {0}
    BY DEF TypeInv, TypeOK, Job, Procs
  <2> QED
    BY <1>1, <1>2, <2>1 DEF DeliveryInv, HoldsOK, Working
<1>4. BusyOK' /\ IdleOK' /\ UnackedHeld'
  BY <1>1, <1>2 DEF DeliveryInv, BusyOK, IdleOK, UnackedHeld, Busy, Working
<1>5. BeforeOK'
  <2>1. losses \in Nat
    BY UsersAssumption DEF TypeInv, TypeOK
  <2>2. ASSUME NEW q \in Queues, pc[q] \in BeforeWrite
        PROVE  Writes(job[q].msg) \in Nat /\ Writes(job[q].msg) <= losses
    <3>1. job[q].msg # 0
      BY <2>2 DEF DeliveryInv, BusyOK, Busy, Working, BeforeWrite
    <3>2. job[q].msg \in MsgIds
      BY <3>1 DEF TypeInv, TypeOK, Job, Procs
    <3> QED
      BY <2>2, <3>2, FS_CardinalityType DEF DeliveryInv, BeforeOK, CountOK, Writes
  <2>3. ASSUME NEW q \in Queues, pc[q] \in BeforeWrite
        PROVE  Writes(job[q].msg) <= losses' /\ Writes(job[q].msg) + 1 <= losses'
    BY <1>1, <2>1, <2>2, <2>3
  <2> QED
    BY <1>1, <2>3 DEF BeforeOK, Writes
<1>6. LifeOK' /\ DoneOK'
  BY <1>1 DEF DeliveryInv, LifeOK, DoneOK
<1> QED
  BY <1>2, <1>3, <1>4, <1>5, <1>6 DEF DeliveryInv

LEMMA RestartDelivery ==
  ASSUME TypeInv, DeliveryInv, Restart PROVE DeliveryInv'
<1>1. ~up /\ UNCHANGED <<status, buffered, losses, applied, pc, job>>
  BY DEF Restart, broker, local, budget, ghosts
<1>2. \A q \in Queues : pc[q] = "idle"
  BY <1>1 DEF DeliveryInv, LifeOK, Procs
<1>3. HoldsOK' /\ BusyOK' /\ IdleOK' /\ UnackedHeld'
  BY <1>1, <1>2 DEF DeliveryInv, HoldsOK, BusyOK, IdleOK, UnackedHeld, Busy, Working
<1>4. CountOK' /\ BeforeOK' /\ DoneOK' /\ AckMeansDone'
  BY <1>1, <1>2 DEF DeliveryInv, CountOK, BeforeOK, BeforeWrite, DoneOK, AckMeansDone, Writes
<1>5. LifeOK'
  BY <1>1 DEF Restart, DeliveryInv, LifeOK
<1> QED
  BY <1>3, <1>4, <1>5 DEF DeliveryInv

LEMMA PublishDelivery ==
  ASSUME TypeInv, DeliveryInv, Publish PROVE DeliveryInv'
<1>1. PICK n \in MsgIds : status[n] = "unsent" /\ status' = [status EXCEPT ![n] = "ready"]
  BY DEF Publish
<1>2. UNCHANGED <<up, connected, buffered, losses, applied, pc, job>>
  BY DEF Publish, life, local, budget, ghosts
<1>3. status'[n] = "ready" /\ \A m \in MsgIds \ {n} : status'[m] = status[m]
  BY <1>1 DEF TypeInv, TypeOK
<1>4. ASSUME NEW q \in Queues, job[q].msg # 0 PROVE job[q].msg \in MsgIds \ {n}
  <2>1. q \in Procs /\ job[q].msg \in MsgIds
    BY <1>4 DEF TypeInv, TypeOK, Job, Procs
  <2>2. body[job[q].msg] \in Request
    BY <1>4, <2>1 DEF TypeInv, JobsFit, Carries
  <2>3. body[n] = NoRequest
    BY <1>1 DEF TypeInv, BodyOK
  <2> QED
    BY <2>1, <2>2, <2>3, UsersAssumption
<1>5. HoldsOK'
  BY <1>2, <1>3, <1>4 DEF DeliveryInv, HoldsOK, Working
<1>6. BusyOK' /\ IdleOK' /\ LifeOK' /\ BeforeOK' /\ DoneOK'
  BY <1>2 DEF DeliveryInv, BusyOK, IdleOK, LifeOK, BeforeOK, DoneOK, Busy, Working, Writes
<1>7. UnackedHeld'
  BY <1>2, <1>3 DEF DeliveryInv, UnackedHeld, Working
<1>8. AckMeansDone'
  BY <1>2, <1>3 DEF DeliveryInv, AckMeansDone
<1>9. CountOK'
  <2>1. Cardinality(applied[n]) <= losses
    <3>1. losses \in Nat
      BY UsersAssumption DEF TypeInv, TypeOK
    <3>2. applied[n] = {}
      BY <1>1 DEF DeliveryInv, CountOK
    <3> QED
      BY <3>1, <3>2, FS_EmptySet
  <2> QED
    BY <1>2, <1>3, <2>1 DEF DeliveryInv, CountOK, Writes
<1> QED
  BY <1>5, <1>6, <1>7, <1>8, <1>9 DEF DeliveryInv

LEMMA DeliveryStep ==
  ASSUME TypeInv, TypeInv', DeliveryInv, [Next]_vars PROVE DeliveryInv'
<1>1. ASSUME NEW q \in Queues, Consume(q) \/ Stop(q) PROVE DeliveryInv'
  BY <1>1, TakeDelivery, TakeBufferedDelivery, TakeEmptyDelivery, HandleDelivery,
     SettleDelivery, StopDelivery DEF Consume, Procs
<1>2. ASSUME NEW c \in Clients, Call(c) \/ Serve(c) PROVE DeliveryInv'
  <2>1. c \in Procs /\ c \notin Queues
    BY UsersAssumption DEF Procs
  <2>2. CASE Handle(c)
    BY <2>1, <2>2, HandleDelivery
  <2>3. CASE Call(c) \/ Reply(c)
    <3>1. UNCHANGED <<status, buffered, connected, up, losses, applied>> /\ up
      BY <2>3 DEF Call, Reply, At, broker, life, budget, ghosts
    <3>2. \A q \in Queues : pc'[q] = pc[q] /\ job'[q] = job[q]
      BY <2>1, <2>3 DEF Call, Reply, Start, Goto, TypeInv, TypeOK, Procs
    <3> QED
      BY <3>1, <3>2, QuietDelivery
  <2> QED
    BY <1>2, <2>2, <2>3 DEF Serve
<1>3. CASE Signal \/ UNCHANGED vars \/ \E i \in UserIds : Expire(i)
  <2>1. UNCHANGED <<status, buffered, connected, up, losses, applied, pc, job>>
    BY <1>3 DEF Signal, Expire, vars, broker, life, local, budget, ghosts
  <2> QED
    BY <2>1, QuietDelivery
<1> QED
  BY <1>1, <1>2, <1>3, VanishDelivery, DisconnectDelivery, RestartDelivery, PublishDelivery
  DEF Next

\* The service never acknowledges a message it has not carried out: every path
\* of a handler that ends without an error has written before Ack(false).
THEOREM AckedAreDone == Spec => []AckMeansDone
<1>1. DeliveryInv => AckMeansDone
  BY DEF DeliveryInv
<1> QED
  BY <1>1, TypeInit, TypeStep, DeliveryInit, DeliveryStep, PTL DEF Spec

\* One message is written at most once, and once more for each crash or lost
\* connection: neither shutdowns nor failed calls repeat a registration.
THEOREM RepeatsAreLosses == Spec => []RepeatsBounded
<1>1. TypeInv /\ DeliveryInv => RepeatsBounded
  <2> SUFFICES ASSUME TypeInv, DeliveryInv, NEW n \in MsgIds
               PROVE  Cardinality(applied[n]) <= 1 + losses
    BY DEF RepeatsBounded
  <2>1. Cardinality(applied[n]) <= losses + 1
    BY DEF DeliveryInv, CountOK, Writes
  <2>2. losses \in Nat
    BY UsersAssumption DEF TypeInv, TypeOK
  <2> QED
    BY <2>1, <2>2
<1> QED
  BY <1>1, TypeInit, TypeStep, DeliveryInit, DeliveryStep, PTL DEF Spec

\* wg.Wait() in main returns only when every consumer has left its loop with
\* all the deliveries it took answered.
THEOREM ExitOrderly == Spec => ExitIsOrderly
<1>1. ASSUME TypeInv, DeliveryInv, [Next]_vars, up /\ ~up' /\ losses' = losses
      PROVE  /\ \A q \in Queues : pc[q] = "stopped"
             /\ \A n \in MsgIds : status[n] # "unacked"
  <2>1. losses \in Nat
    BY <1>1, UsersAssumption DEF TypeInv, TypeOK
  <2>2. Exit
    <3>1. CASE \E q \in Queues : Consume(q) \/ Stop(q)
      BY <1>1, <3>1, HandleShape
      DEF Consume, Stop, Take, TakeBuffered, TakeEmpty, Settle, life, Procs
    <3>2. CASE \E c \in Clients : Call(c) \/ Serve(c)
      BY <1>1, <3>2, HandleShape DEF Serve, Call, Reply, life, Procs
    <3>3. CASE \E i \in UserIds : Expire(i)
      BY <1>1, <3>3 DEF Expire, life
    <3>4. CASE Crash
      BY <1>1, <2>1, <3>4 DEF Crash
    <3>5. CASE Publish \/ Signal \/ Disconnect \/ Restart \/ UNCHANGED vars
      BY <1>1, <3>5 DEF Publish, Signal, Disconnect, Restart, vars, life
    <3> QED
      BY <1>1, <3>1, <3>2, <3>3, <3>4, <3>5 DEF Next
  <2> QED
    BY <1>1, <2>2, ExitOrder DEF Exit
<1>2. TypeInv /\ DeliveryInv /\ [Next]_vars =>
        [up /\ ~up' /\ losses' = losses =>
           /\ \A q \in Queues : pc[q] = "stopped"
           /\ \A n \in MsgIds : status[n] # "unacked"]_vars
  BY <1>1
<1> QED
  BY <1>2, TypeInit, TypeStep, DeliveryInit, DeliveryStep, PTL DEF Spec, ExitIsOrderly

-----------------------------------------------------------------------------
(* Writes to the collection. *)

\* A document appears by InsertOne and changes by the UpdateOne of UpdateUser,
\* which finds live documents only.
LEMMA WhoWrites ==
  ASSUME TypeInv, [Next]_vars, NEW i \in UserIds, db'[i] # db[i]
  PROVE  \E p \in Procs :
           \/ InsertOne(p) /\ db[i] = NoUser /\ db'[i] # NoUser
           \/ /\ UpdateOne(p) /\ pc[p] = "write" /\ job[p].req.op = "update"
              /\ job[p].req \in UpdateReq /\ job[p].req.id = i
              /\ IsLive(i) /\ db'[i] = job[p].user /\ db'[i] # NoUser
<1>1. PICK p \in Procs : InsertOne(p) \/ UpdateOne(p)
  <2>1. CASE \E q \in Queues : Consume(q) \/ Stop(q)
    BY <2>1 DEF Consume, Stop, Take, TakeBuffered, TakeEmpty, Settle, Handle, CheckContext,
       FindOne, DeleteOne, CacheSet, CacheGet, store, ghosts, Procs
  <2>2. CASE \E c \in Clients : Call(c) \/ Serve(c)
    BY <2>2 DEF Serve, Call, Reply, Handle, CheckContext,
       FindOne, DeleteOne, CacheSet, CacheGet, store, ghosts, Procs
  <2>3. CASE \/ \E j \in UserIds : Expire(j)
             \/ Publish \/ Signal \/ Exit \/ Crash \/ Disconnect \/ Restart \/ UNCHANGED vars
    BY <2>3 DEF Expire, Publish, Signal, Exit, Crash, Vanish, Disconnect, Restart, vars, store
  <2> QED
    BY <2>1, <2>2, <2>3 DEF Next
<1>2. CASE InsertOne(p)
  <2>1. job[p].req \in CreateReq
    BY <1>2 DEF InsertOne, At, TypeInv, JobsFit, Fits
  <2>2. PICK k \in UserIds : db[k] = NoUser /\ db' = [db EXCEPT ![k] = NewUser(k, job[p].req)]
    BY <1>2 DEF InsertOne, Record
  <2>3. i = k /\ db'[i] = NewUser(k, job[p].req)
    BY <2>2 DEF TypeInv, TypeOK
  <2>4. NewUser(k, job[p].req) # NoUser
    BY <2>1, NewUserType, UsersAssumption
  <2> QED
    BY <1>2, <2>2, <2>3, <2>4
<1>3. CASE UpdateOne(p)
  <2>1. pc[p] = "write" /\ job[p].req.op = "update"
    BY <1>3 DEF UpdateOne, At
  <2>2. /\ job[p].req \in UpdateReq \cup DeleteReq /\ job[p].user \in User
        /\ job[p].req.id \in UserIds
    BY <2>1, RequestIds DEF TypeInv, JobsFit, Fits
  <2>3. job[p].req \in UpdateReq
    BY <2>1, <2>2 DEF DeleteReq
  <2>4. /\ IsLive(job[p].req.id)
        /\ db' = [db EXCEPT ![job[p].req.id] = job[p].user]
    BY <1>3 DEF UpdateOne, Record
  <2>5. i = job[p].req.id /\ db'[i] = job[p].user
    BY <2>2, <2>4 DEF TypeInv, TypeOK
  <2> QED
    BY <1>3, <2>1, <2>2, <2>3, <2>4, <2>5, UsersAssumption
<1> QED
  BY <1>1, <1>2, <1>3

\* A user marked deleted stays as it is: the update that read it alive finds it
\* no more, because the second query of UpdateUser filters on the mark again.
THEOREM DeletedStaysFrozen == Spec => DeletedUserFrozen
<1>1. TypeInv /\ [Next]_vars =>
        [\A i \in UserIds : db[i] # NoUser =>
           /\ db'[i] # NoUser
           /\ db[i].deleted => db'[i] = db[i]]_vars
  BY WhoWrites DEF IsLive
<1> QED
  BY <1>1, TypeInit, TypeStep, PTL DEF Spec, DeletedUserFrozen

\* How the system is deployed: only the gateway's messages ask for updates.
OnlyQueueUpdates == \A r \in Calls : r.op # "update"

ClientsDoNotUpdate == \A c \in Clients : Working(c) => job[c].req.op # "update"

\* What the update consumer is about to write is the merge of its request with
\* the document as it is now.
MergedIsCurrent ==
  pc["update"] = "write" =>
    LET r == job["update"].req
    IN  IsLive(r.id) /\ job["update"].user = Merge(db[r.id], r)

MergeInv == ClientsDoNotUpdate /\ MergedIsCurrent

\* Nobody but the update consumer is about to update.
LEMMA OneWriter ==
  ASSUME DeliveryInv, ClientsDoNotUpdate, NEW p \in Procs,
         pc[p] = "write", job[p].req.op = "update"
  PROVE  p = "update"
<1>1. p \in Queues
  BY DEF ClientsDoNotUpdate, Working, Procs
<1> QED
  BY <1>1 DEF DeliveryInv, BusyOK, HoldsOK, Busy, Working

LEMMA ClientsStep ==
  ASSUME OnlyQueueUpdates, TypeInv, DeliveryInv, ClientsDoNotUpdate, [Next]_vars
  PROVE  ClientsDoNotUpdate'
<1> SUFFICES ASSUME NEW c \in Clients, Working(c)' PROVE job'[c].req.op # "update"
  BY DEF ClientsDoNotUpdate
<1>1. c \in Procs /\ c \notin Queues
  BY UsersAssumption DEF Procs
<1>2. CASE Working(c) /\ job'[c].req = job[c].req
  BY <1>2 DEF ClientsDoNotUpdate
<1>3. ASSUME NEW p \in Procs, Handle(p) PROVE job'[c].req.op # "update"
  <2>1. job'[c].req = job[c].req /\ Working(c)
    BY <1>1, <1>3, HandleShape DEF Moves, Working, Handle, CheckContext, InsertOne, FindOne,
       UpdateOne, DeleteOne, CacheSet, CacheGet, At
  <2> QED
    BY <1>2, <2>1
<1>4. CASE \E q \in Queues : Consume(q) \/ Stop(q)
  <2>1. PICK q \in Queues : Consume(q) \/ Stop(q)
    BY <1>4
  <2>2. q \in Procs /\ q # c
    BY <1>1 DEF Procs
  <2>3. CASE Take(q) \/ TakeBuffered(q) \/ TakeEmpty(q) \/ Settle(q) \/ Stop(q)
    <3>1. pc'[c] = pc[c] /\ job'[c] = job[c]
      BY <1>1, <2>2, <2>3 DEF Take, TakeBuffered, TakeEmpty, Settle, Stop, Start, Fail, Goto,
         TypeInv, TypeOK
    <3> QED
      BY <1>2, <3>1 DEF Working
  <2> QED
    BY <1>3, <2>1, <2>2, <2>3 DEF Consume
<1>5. CASE \E d \in Clients : Call(d) \/ Serve(d)
  <2>1. PICK d \in Clients : Call(d) \/ Serve(d)
    BY <1>5
  <2>2. d \in Procs
    BY DEF Procs
  <2>3. CASE Call(d)
    <3>1. PICK r \in Calls : Start(d, 0, r)
      BY <2>3 DEF Call
    <3>2. CASE d = c
      <4>1. job'[c] = [NoJob EXCEPT !.msg = 0, !.req = r]
        BY <1>1, <3>1, <3>2 DEF Start, TypeInv, TypeOK
      <4>2. job'[c].req = r
        BY <4>1 DEF NoJob
      <4> QED
        BY <4>2 DEF OnlyQueueUpdates
    <3>3. CASE d # c
      BY <1>1, <1>2, <3>1, <3>3 DEF Start, Goto, TypeInv, TypeOK, Working
    <3> QED
      BY <3>2, <3>3
  <2>4. CASE Reply(d)
    BY <1>1, <1>2, <2>2, <2>4 DEF Reply, Goto, TypeInv, TypeOK, Working
  <2> QED
    BY <1>3, <2>1, <2>2, <2>3, <2>4 DEF Serve
<1>6. CASE Exit \/ Crash
  BY <1>1, <1>6 DEF Exit, Crash, Vanish, Working
<1>7. CASE \/ \E i \in UserIds : Expire(i)
           \/ Publish \/ Signal \/ Disconnect \/ Restart \/ UNCHANGED vars
  <2>1. pc' = pc /\ job' = job
    BY <1>7 DEF Expire, Publish, Signal, Disconnect, Restart, vars, local
  <2> QED
    BY <1>2, <2>1 DEF Working
<1> QED
  BY <1>4, <1>5, <1>6, <1>7 DEF Next

LEMMA MergedStep ==
  ASSUME TypeInv, DeliveryInv, ClientsDoNotUpdate, MergedIsCurrent, [Next]_vars
  PROVE  MergedIsCurrent'
<1> SUFFICES ASSUME pc'["update"] = "write" PROVE MergedIsCurrent'
  BY DEF MergedIsCurrent
<1> DEFINE u == "update"
<1>1. u \in Queues /\ u \in Procs
  BY DEF Queues, Procs
\* A step of somebody else does not touch the document to be written.
<1>2. CASE pc[u] = "write" /\ job'[u] = job[u]
  <2> DEFINE i == job[u].req.id
  <2>1. i \in UserIds /\ db[i] # NoUser
    BY <1>1, <1>2, RequestIds DEF TypeInv, JobsFit, Fits, MergedIsCurrent, IsLive
  <2>2. db'[i] = db[i]
    <3> SUFFICES ASSUME db'[i] # db[i] PROVE FALSE
      OBVIOUS
    <3>1. PICK p \in Procs : UpdateOne(p) /\ pc[p] = "write" /\ job[p].req.op = "update"
      BY <2>1, WhoWrites
    <3>2. p = u
      BY <3>1, OneWriter
    <3>3. pc'[u] # "write"
      BY <1>1, <3>1, <3>2 DEF UpdateOne, Fail, Goto, AfterUpdate, TypeInv, TypeOK
    <3> QED
      BY <3>3
  <2> QED
    BY <1>2, <2>2 DEF MergedIsCurrent, IsLive
\* Its own FindOne brings the update consumer there.
<1>3. CASE FindOne(u)
  <2>1. job[u].req.op = "update"
    BY <1>1, <1>3 DEF FindOne, At, DeliveryInv, BusyOK, HoldsOK, Busy, Working
  <2>2. PICK i \in Matches(job[u].req) : job' = [job EXCEPT ![u].user = Merge(db[i], job[u].req)]
    BY <1>1, <1>3, <2>1 DEF FindOne, Fail, Goto, TypeInv, TypeOK
  <2>3. IsLive(i) /\ i = job[u].req.id
    BY <2>1, <2>2 DEF Matches
  <2>4. job'[u] = [job[u] EXCEPT !.user = Merge(db[i], job[u].req)] /\ job[u] \in Job
    BY <1>1, <2>2 DEF TypeInv, TypeOK
  <2>5. job'[u].req = job[u].req /\ job'[u].user = Merge(db[i], job[u].req)
    BY <2>4 DEF Job
  <2>6. db' = db
    BY <1>3 DEF FindOne, store
  <2> QED
    BY <2>3, <2>5, <2>6 DEF MergedIsCurrent, IsLive
<1>4. ASSUME NEW p \in Procs, Handle(p) PROVE MergedIsCurrent'
  <2>1. CASE p # u
    BY <1>1, <1>2, <1>4, <2>1, HandleShape DEF Moves
  <2>2. CASE p = u
    <3>1. FindOne(u)
      BY <1>1, <1>4, <2>2 DEF Handle, CheckContext, InsertOne, UpdateOne, DeleteOne, CacheSet,
         CacheGet, Fail, Goto, AfterUpdate, TypeInv, TypeOK
    <3> QED
      BY <1>3, <3>1
  <2> QED
    BY <2>1, <2>2
<1>5. CASE \E q \in Queues : Consume(q) \/ Stop(q)
  <2>1. PICK q \in Queues : Consume(q) \/ Stop(q)
    BY <1>5
  <2>2. CASE Take(q) \/ TakeBuffered(q)
    <3>1. PICK n \in MsgIds : body[n].op = q /\ Start(q, n, body[n])
      BY <2>2 DEF Take, IsHead, TakeBuffered, Buffered, TypeInv, TypeOK
    <3>2. q # u
      BY <1>1, <3>1 DEF Start, Goto, Entry, TypeInv, TypeOK
    <3> QED
      BY <1>1, <1>2, <3>1, <3>2 DEF Start, Goto, TypeInv, TypeOK
  <2>3. CASE TakeEmpty(q) \/ Settle(q) \/ Stop(q)
    <3>1. q # u
      BY <1>1, <2>3 DEF TakeEmpty, Settle, Stop, Fail, Goto, TypeInv, TypeOK
    <3> QED
      BY <1>1, <1>2, <2>3, <3>1 DEF TakeEmpty, Settle, Stop, Fail, Goto, TypeInv, TypeOK
  <2> QED
    BY <1>4, <2>1, <2>2, <2>3 DEF Consume, Procs
<1>6. CASE \E c \in Clients : Call(c) \/ Serve(c)
  <2>1. PICK c \in Clients : Call(c) \/ Serve(c)
    BY <1>6
  <2>2. c \in Procs /\ c # u
    BY <1>1, UsersAssumption DEF Procs
  <2>3. CASE Call(c) \/ Reply(c)
    BY <1>1, <1>2, <2>2, <2>3 DEF Call, Reply, Start, Goto, TypeInv, TypeOK
  <2> QED
    BY <1>4, <2>1, <2>2, <2>3 DEF Serve
<1>7. CASE Exit \/ Crash
  BY <1>1, <1>7 DEF Exit, Crash, Vanish
<1>8. CASE \/ \E i \in UserIds : Expire(i)
           \/ Publish \/ Signal \/ Disconnect \/ Restart \/ UNCHANGED vars
  <2>1. pc' = pc /\ job' = job
    BY <1>8 DEF Expire, Publish, Signal, Disconnect, Restart, vars, local
  <2> QED
    BY <1>2, <2>1
<1> QED
  BY <1>5, <1>6, <1>7, <1>8 DEF Next

\* With the gateway's messages as the only updates, the three calls of
\* UpdateUser (read, merge, write back) amount to one atomic merge.
THEOREM AtomicMerge ==
  ASSUME OnlyQueueUpdates
  PROVE  Spec => UpdateIsAtomicMerge
<1>1. Init => MergeInv
  BY DEF Init, MergeInv, ClientsDoNotUpdate, MergedIsCurrent, Working, Procs, Queues
<1>2. TypeInv /\ DeliveryInv /\ MergeInv /\ [Next]_vars => MergeInv'
  BY ClientsStep, MergedStep DEF MergeInv
<1>3. ASSUME TypeInv, DeliveryInv, MergeInv, [Next]_vars,
             NEW i \in UserIds, db[i] # NoUser, db'[i] # db[i]
      PROVE  \E p \in Procs : LET r == job[p].req IN
               /\ pc[p] = "write" /\ r.op = "update" /\ r.id = i
               /\ db'[i].email = IF r.email = Empty THEN db[i].email ELSE r.email
               /\ db'[i].name = IF r.name = Empty THEN db[i].name ELSE r.name
               /\ db'[i].deleted = db[i].deleted
  <2>1. PICK p \in Procs : /\ pc[p] = "write" /\ job[p].req.op = "update"
                           /\ job[p].req \in UpdateReq /\ job[p].req.id = i
                           /\ db'[i] = job[p].user
    BY <1>3, WhoWrites
  <2>2. p = "update"
    BY <1>3, <2>1, OneWriter DEF MergeInv
  <2>3. db'[i] = Merge(db[i], job[p].req) /\ db[i] \in User
    BY <1>3, <2>1, <2>2 DEF MergeInv, MergedIsCurrent, TypeInv, TypeOK
  <2>4. /\ db'[i].email = IF job[p].req.email = Empty THEN db[i].email ELSE job[p].req.email
        /\ db'[i].name = IF job[p].req.name = Empty THEN db[i].name ELSE job[p].req.name
        /\ db'[i].deleted = db[i].deleted
    BY <2>3 DEF Merge, User
  <2> QED
    BY <2>1, <2>4
<1>4. TypeInv /\ DeliveryInv /\ MergeInv /\ [Next]_vars =>
        [\A i \in UserIds : db[i] # NoUser /\ db'[i] # db[i] =>
           \E p \in Procs : LET r == job[p].req IN
             /\ pc[p] = "write" /\ r.op = "update" /\ r.id = i
             /\ db'[i].email = IF r.email = Empty THEN db[i].email ELSE r.email
             /\ db'[i].name = IF r.name = Empty THEN db[i].name ELSE r.name
             /\ db'[i].deleted = db[i].deleted]_vars
  BY <1>3
<1> QED
  BY <1>1, <1>2, <1>4, TypeInit, TypeStep, DeliveryInit, DeliveryStep, PTL
  DEF Spec, UpdateIsAtomicMerge

=============================================================================
