------------------------ MODULE DevicesServiceProofs ------------------------
(***************************************************************************)
(* Proofs about DevicesService, for any number of devices, clients, failed *)
(* calls and crashes.                                                      *)
(***************************************************************************)
EXTENDS DevicesService, FiniteSetTheorems, TLAPS

-----------------------------------------------------------------------------
\* Every string that spells an ObjectID spells one, and the string an ObjectID is
\* written as spells that one.
LEMMA Spelling ==
  /\ \A i \in Ids : ObjectIDFromHex(i) \in Oids
  /\ \A o \in Oids : Hex(o) \in Ids /\ ObjectIDFromHex(Hex(o)) = o
BY DevicesAssumption DEF Ids, ObjectIDFromHex, Hex

-----------------------------------------------------------------------------
(* What the steps of a handler know about its local variables. *)

Fits(step, j) ==
  /\ step # "idle" => j.req \in Request
  /\ step = "insert" => j.req \in CreateReq
  /\ step = "write" => j.req \in UpdateReq \cup DeleteReq
  /\ step = "cacheSet" => j.req \in CreateReq \cup UpdateReq /\ j.device \in Device
  /\ step = "cacheDel" => j.req \in DeleteReq /\ j.req.id \in Ids
  /\ step \in {"cacheGet", "find"} => j.req \in GetReq
  /\ step = "list" => j.req \in ListReq
  /\ step = "end" /\ j.err = "none" /\ j.req.op = "delete" => j.req.id \in Ids

JobsFit == \A c \in Clients : Fits(pc[c], job[c])

TypeInv == TypeOK /\ JobsFit

\* A request is told apart by its op.
LEMMA RequestKinds ==
  ASSUME NEW r \in Request
  PROVE  /\ r.op \in {"create", "update", "delete", "get", "list"}
         /\ r.op = "create" <=> r \in CreateReq
         /\ r.op = "update" <=> r \in UpdateReq
         /\ r.op = "delete" <=> r \in DeleteReq
         /\ r.op = "get"    <=> r \in GetReq
         /\ r.op = "list"   <=> r \in ListReq
BY DEF Request, CreateReq, UpdateReq, DeleteReq, GetReq, ListReq

\* All requests but the list name an id.
LEMMA RequestIds ==
  ASSUME NEW r \in CreateReq \cup UpdateReq \cup DeleteReq \cup GetReq
  PROVE  r \in Request /\ r.id \in Ids \cup {BadId}
BY DEF Request, CreateReq, UpdateReq, DeleteReq, GetReq

LEMMA NoJobType == NoJob \in Job /\ NoJob.device = NoDevice /\ NoJob.req = NoRequest
BY DEF Job, NoJob, Errors

\* Setting one local variable leaves the others.
LEMMA JobUpdates ==
  ASSUME NEW j \in Job, NEW e \in Errors, NEW d \in Device \cup {NoDevice}, NEW S \in SUBSET Oids
  PROVE  /\ [j EXCEPT !.err = e] \in Job
         /\ [j EXCEPT !.err = e].req = j.req
         /\ [j EXCEPT !.err = e].device = j.device
         /\ [j EXCEPT !.err = e].err = e
         /\ [j EXCEPT !.device = d] \in Job
         /\ [j EXCEPT !.device = d].req = j.req
         /\ [j EXCEPT !.device = d].device = d
         /\ [j EXCEPT !.device = d].err = j.err
         /\ [j EXCEPT !.listed = S] \in Job
         /\ [j EXCEPT !.listed = S].req = j.req
         /\ [j EXCEPT !.listed = S].device = j.device
         /\ [j EXCEPT !.listed = S].err = j.err
BY DEF Job

\* The store as a handler leaves it.
StoreOK ==
  /\ docs \in [Oids -> Doc \cup {NoDevice}]
  /\ cache \in [Ids -> Device \cup {NoDevice}]
  /\ issued \subseteq Oids /\ given \subseteq Oids
  /\ faults \in 0 .. MaxFaults /\ crashes \in 0 .. MaxCrashes
  /\ gone \subseteq Oids /\ suspect \subseteq Ids

\* One goroutine moves to another step with new local variables.
LEMMA MoveType ==
  ASSUME TypeInv, StoreOK', NEW c \in Clients, NEW step \in Steps, NEW j \in Job,
         pc' = [pc EXCEPT ![c] = step], job' = [job EXCEPT ![c] = j], Fits(step, j)
  PROVE  TypeInv'
<1>1. TypeOK'
  BY DEF TypeInv, TypeOK, StoreOK
<1>2. JobsFit'
  <2> SUFFICES ASSUME NEW o \in Clients PROVE Fits(pc'[o], job'[o])
    BY DEF JobsFit, Fits
  <2>1. CASE o = c
    BY <2>1 DEF TypeInv, TypeOK
  <2>2. CASE o # c
    BY <2>2 DEF TypeInv, TypeOK, JobsFit
  <2> QED
    BY <2>1, <2>2
<1> QED
  BY <1>1, <1>2 DEF TypeInv

LEMMA FailType ==
  ASSUME TypeInv, StoreOK', NEW c \in Clients, NEW e \in Errors \ {"none"}, Fail(c, e),
         pc[c] # "idle"
  PROVE  TypeInv'
<1> DEFINE j == [job[c] EXCEPT !.err = e]
<1>1. job[c] \in Job /\ job[c].req \in Request
  BY DEF TypeInv, TypeOK, JobsFit, Fits
<1>2. j \in Job /\ j.req = job[c].req /\ j.err = e
  BY <1>1 DEF Job
<1>3. pc' = [pc EXCEPT ![c] = "end"] /\ job' = [job EXCEPT ![c] = j]
  BY DEF Fail, Goto
<1>4. Fits("end", j)
  BY <1>1, <1>2 DEF Fits
<1> QED
  BY <1>2, <1>3, <1>4, MoveType DEF Steps

\* A goroutine goes on without new local variables.
LEMMA GotoType ==
  ASSUME TypeInv, StoreOK', NEW c \in Clients, NEW step \in Steps, Goto(c, step),
         job' = job, Fits(step, job[c])
  PROVE  TypeInv'
<1>1. job' = [job EXCEPT ![c] = job[c]] /\ job[c] \in Job
  BY DEF TypeInv, TypeOK
<1> QED
  BY <1>1, MoveType DEF Goto

LEMMA FaultsType ==
  ASSUME TypeInv, CallFails PROVE faults' \in 0 .. MaxFaults
BY DevicesAssumption DEF CallFails, TypeInv, TypeOK

LEMMA CallType ==
  ASSUME TypeInv, NEW c \in Clients, Call(c) PROVE TypeInv'
<1>1. PICK r \in Request : /\ Goto(c, Entry[r.op])
                           /\ job' = [job EXCEPT ![c] = [NoJob EXCEPT !.req = r]]
  BY DEF Call
<1> DEFINE j == [NoJob EXCEPT !.req = r]
<1>2. j \in Job /\ j.req = r
  BY DEF Job, NoJob, Errors
<1>3. Entry[r.op] \in Steps /\ Fits(Entry[r.op], j)
  BY <1>2, RequestKinds DEF Entry, Steps, Fits
<1>4. StoreOK'
  BY DEF Call, TypeInv, TypeOK, StoreOK, budget, ghosts
<1> QED
  BY <1>1, <1>2, <1>3, <1>4, MoveType DEF Goto

LEMMA InsertOneType ==
  ASSUME TypeInv, NEW c \in Clients, InsertOne(c) PROVE TypeInv'
<1> DEFINE r == job[c].req
<1>1. pc[c] = "insert" /\ r \in CreateReq /\ r.name \in Names /\ r \in Request
  BY DEF InsertOne, TypeInv, JobsFit, Fits, CreateReq, Request
<1>2. PICK i \in Oids \ issued, o \in Oids \ issued :
        LET d    == [id |-> NewId(r, i), name |-> r.name]
            with == [docs EXCEPT ![o] = [id |-> d.id, name |-> d.name, deleted |-> "absent"]]
        IN
        /\ issued' = issued \cup {i, o}
        /\ \/ /\ docs' = with
              /\ job' = [job EXCEPT ![c].device = d]
              /\ Goto(c, "cacheSet")
              /\ UNCHANGED faults
           \/ /\ CallFails
              /\ docs' \in {docs, with}
              /\ Fail(c, "mongo")
  BY DEF InsertOne
<1> DEFINE d == [id |-> Hex(i), name |-> r.name]
<1>3. d \in Device
  BY <1>1, Spelling DEF Device
<1>4. StoreOK'
  <2>1. [id |-> d.id, name |-> d.name, deleted |-> "absent"] \in Doc
    BY <1>1, Spelling DEF Doc
  <2>2. docs' \in [Oids -> Doc \cup {NoDevice}]
    BY <1>2, <2>1 DEF NewId, TypeInv, TypeOK
  <2>3. issued' \subseteq Oids /\ faults' \in 0 .. MaxFaults
    BY <1>2, FaultsType DEF TypeInv, TypeOK
  <2> QED
    BY <2>2, <2>3 DEF InsertOne, StoreOK, TypeInv, TypeOK, ghosts
<1>5. CASE job' = [job EXCEPT ![c].device = d] /\ Goto(c, "cacheSet")
  <2> DEFINE j == [job[c] EXCEPT !.device = d]
  <2>1. job[c] \in Job
    BY DEF TypeInv, TypeOK
  <2>2. j \in Job /\ j.device = d /\ j.req = r
    BY <1>3, <2>1 DEF Job
  <2>3. Fits("cacheSet", j)
    BY <1>1, <1>3, <2>2 DEF Fits
  <2> QED
    BY <1>4, <1>5, <2>2, <2>3, MoveType DEF Goto, Steps
<1>6. CASE Fail(c, "mongo")
  BY <1>1, <1>4, <1>6, FailType DEF Errors
<1> QED
  BY <1>2, <1>5, <1>6 DEF NewId

LEMMA UpdateOneType ==
  ASSUME TypeInv, NEW c \in Clients, UpdateOne(c) PROVE TypeInv'
<1> DEFINE r == job[c].req
           New(d)  == IF r.op = "update" THEN SetDevice(d, r) ELSE [d EXCEPT !.deleted = "true"]
           written == [o \in Oids |-> IF o \in Matches(r) THEN New(docs[o]) ELSE docs[o]]
<1>1. pc[c] = "write" /\ r \in UpdateReq \cup DeleteReq /\ r \in Request
      /\ r.id \in Ids \cup {BadId}
  BY RequestIds DEF UpdateOne, TypeInv, JobsFit, Fits
<1>2. r.op = "update" => r.name \in Names
  BY <1>1 DEF UpdateReq, DeleteReq
<1>3. r.id # BadId => written \in [Oids -> Doc \cup {NoDevice}]
  <2> SUFFICES ASSUME r.id # BadId, NEW o \in Matches(r) PROVE New(docs[o]) \in Doc
    BY DEF TypeInv, TypeOK
  <2>1. docs[o] \in Doc /\ r.id \in Ids
    BY <1>1 DEF Matches, TypeInv, TypeOK
  <2> QED
    BY <1>2, <2>1 DEF Doc, SetDevice
<1>4. StoreOK'
  <2>1. docs' \in [Oids -> Doc \cup {NoDevice}] /\ suspect' \subseteq Ids
    BY <1>1, <1>3 DEF UpdateOne, Outdated, TypeInv, TypeOK
  <2>2. faults' \in 0 .. MaxFaults
    BY FaultsType DEF UpdateOne, TypeInv, TypeOK
  <2> QED
    BY <2>1, <2>2 DEF UpdateOne, StoreOK, TypeInv, TypeOK
<1>5. CASE r.id = BadId /\ Fail(c, "badId")
  BY <1>1, <1>4, <1>5, FailType DEF Errors
<1>6. CASE r.id # BadId /\ Fail(c, "mongo")
  BY <1>1, <1>4, <1>6, FailType DEF Errors
<1>7. CASE /\ r.id # BadId /\ r.op = "update" /\ Goto(c, "cacheSet")
           /\ job' = [job EXCEPT ![c].device = [id |-> r.id, name |-> r.name]]
  <2> DEFINE d == [id |-> r.id, name |-> r.name]
             j == [job[c] EXCEPT !.device = d]
  <2>1. job[c] \in Job /\ d \in Device /\ r \in UpdateReq
    BY <1>1, <1>2, <1>7, RequestKinds DEF TypeInv, TypeOK, Device
  <2>2. j \in Job /\ j.device = d /\ j.req = r
    BY <2>1 DEF Job
  <2>3. Fits("cacheSet", j)
    BY <1>1, <2>1, <2>2 DEF Fits
  <2> QED
    BY <1>4, <1>7, <2>2, <2>3, MoveType DEF Goto, Steps
<1>8. CASE r.id # BadId /\ r.op = "delete" /\ Goto(c, "cacheDel") /\ job' = job
  <2>1. r \in DeleteReq /\ r.id \in Ids
    BY <1>1, <1>8, RequestKinds
  <2>2. Fits("cacheDel", job[c])
    BY <1>1, <2>1 DEF Fits
  <2> QED
    BY <1>4, <1>8, <2>2, GotoType DEF Steps
<1>9. r.op \in {"update", "delete"}
  BY <1>1 DEF UpdateReq, DeleteReq
<1> QED
  BY <1>5, <1>6, <1>7, <1>8, <1>9 DEF UpdateOne, AfterWrite

LEMMA CacheWriteType ==
  ASSUME TypeInv, NEW c \in Clients, CacheWrite(c) PROVE TypeInv'
<1> DEFINE i == IF pc[c] = "cacheSet" THEN job[c].device.id ELSE job[c].req.id
           new == [cache EXCEPT ![i] = IF pc[c] = "cacheSet" THEN job[c].device ELSE NoDevice]
<1>1. pc[c] \in {"cacheSet", "cacheDel"} /\ job[c].req \in Request
  BY DEF CacheWrite, TypeInv, JobsFit, Fits
<1>2. i \in Ids /\ new \in [Ids -> Device \cup {NoDevice}]
  BY <1>1 DEF TypeInv, TypeOK, JobsFit, Fits, Device
<1>3. StoreOK'
  <2>1. cache' \in [Ids -> Device \cup {NoDevice}] /\ suspect' \subseteq Ids
    BY <1>2 DEF CacheWrite, TypeInv, TypeOK
  <2>2. faults' \in 0 .. MaxFaults
    BY FaultsType DEF CacheWrite, TypeInv, TypeOK
  <2> QED
    BY <2>1, <2>2 DEF CacheWrite, StoreOK, TypeInv, TypeOK
<1>4. CASE Goto(c, "end") /\ UNCHANGED job
  <2>1. job[c].req.op = "delete" => job[c].req.id \in Ids
    BY <1>1 DEF TypeInv, JobsFit, Fits, CreateReq, UpdateReq
  <2>2. Fits("end", job[c])
    BY <1>1, <2>1 DEF Fits
  <2> QED
    BY <1>3, <1>4, <2>2, GotoType DEF Steps
<1>5. CASE Fail(c, "redis")
  BY <1>1, <1>3, <1>5, FailType DEF Errors
<1> QED
  BY <1>4, <1>5 DEF CacheWrite

LEMMA CacheGetType ==
  ASSUME TypeInv, NEW c \in Clients, CacheGet(c) PROVE TypeInv'
<1> DEFINE i == job[c].req.id
<1>1. pc[c] = "cacheGet" /\ job[c] \in Job /\ job[c].req \in GetReq /\ job[c].req \in Request
  BY DEF CacheGet, TypeInv, TypeOK, JobsFit, Fits, Request
<1>2. StoreOK'
  <2>1. faults' \in 0 .. MaxFaults
    BY FaultsType DEF CacheGet, TypeInv, TypeOK
  <2> QED
    BY <2>1 DEF CacheGet, StoreOK, TypeInv, TypeOK, ghosts
<1>3. CASE /\ i \in Ids /\ cache[i] # NoDevice
           /\ job' = [job EXCEPT ![c].device = cache[i]] /\ Goto(c, "end")
  <2> DEFINE j == [job[c] EXCEPT !.device = cache[i]]
  <2>1. cache[i] \in Device
    BY <1>3 DEF TypeInv, TypeOK
  <2>2. j \in Job /\ j.req = job[c].req
    BY <1>1, <2>1 DEF Job
  <2>3. Fits("end", j)
    BY <1>1, <2>2 DEF Fits, GetReq
  <2> QED
    BY <1>2, <1>3, <2>2, <2>3, MoveType DEF Goto, Steps
<1>4. CASE Goto(c, "find") /\ UNCHANGED job
  <2>1. Fits("find", job[c])
    BY <1>1 DEF Fits
  <2> QED
    BY <1>2, <1>4, <2>1, GotoType DEF Steps
<1> QED
  BY <1>3, <1>4 DEF CacheGet

LEMMA FindOneType ==
  ASSUME TypeInv, NEW c \in Clients, FindOne(c) PROVE TypeInv'
<1> DEFINE r == job[c].req
<1>1. pc[c] = "find" /\ job[c] \in Job /\ r \in GetReq /\ r \in Request
  BY DEF FindOne, TypeInv, TypeOK, JobsFit, Fits, Request
<1>2. StoreOK'
  <2>1. faults' \in 0 .. MaxFaults
    BY FaultsType DEF FindOne, TypeInv, TypeOK
  <2> QED
    BY <2>1 DEF FindOne, StoreOK, TypeInv, TypeOK, ghosts
<1>3. ASSUME NEW o \in Matches(r), job' = [job EXCEPT ![c].device = Shown(docs[o])],
             Goto(c, "end")
      PROVE  TypeInv'
  <2> DEFINE j == [job[c] EXCEPT !.device = Shown(docs[o])]
  <2>1. docs[o] \in Doc
    BY <1>3 DEF TypeInv, TypeOK, Matches
  <2>2. Shown(docs[o]) \in Device
    BY <2>1 DEF Shown, Doc, Device
  <2>3. j \in Job /\ j.req = r
    BY <1>1, <2>2 DEF Job
  <2>4. Fits("end", j)
    BY <1>1, <2>3 DEF Fits, GetReq
  <2> QED
    BY <1>2, <1>3, <2>3, <2>4, MoveType DEF Goto, Steps
<1>4. ASSUME NEW e \in Errors \ {"none"}, Fail(c, e) PROVE TypeInv'
  BY <1>1, <1>2, <1>4, FailType
<1> QED
  BY <1>3, <1>4 DEF FindOne, Errors

LEMMA ListType ==
  ASSUME TypeInv, NEW c \in Clients, List(c) PROVE TypeInv'
<1> DEFINE S == {o \in Oids : docs[o] # NoDevice /\ docs[o].deleted = "false"}
           j == [job[c] EXCEPT !.listed = S]
<1>1. pc[c] = "list" /\ job[c] \in Job /\ job[c].req \in Request
  BY DEF List, TypeInv, TypeOK, JobsFit, Fits
<1>2. StoreOK'
  <2>1. faults' \in 0 .. MaxFaults
    BY FaultsType DEF List, TypeInv, TypeOK
  <2> QED
    BY <2>1 DEF List, StoreOK, TypeInv, TypeOK, ghosts
<1>3. CASE job' = [job EXCEPT ![c].listed = S] /\ Goto(c, "end")
  <2>1. j \in Job /\ j.req = job[c].req
    BY <1>1 DEF Job
  <2>2. job[c].req \in ListReq
    BY <1>1 DEF TypeInv, JobsFit, Fits
  <2>3. Fits("end", j)
    BY <1>1, <2>1, <2>2 DEF Fits, ListReq
  <2> QED
    BY <1>2, <1>3, <2>1, <2>3, MoveType DEF Goto, Steps
<1>4. CASE Fail(c, "mongo")
  BY <1>1, <1>2, <1>4, FailType DEF Errors
<1> QED
  BY <1>3, <1>4 DEF List

LEMMA ReplyType ==
  ASSUME TypeInv, NEW c \in Clients, Reply(c) PROVE TypeInv'
<1>1. pc[c] = "end" /\ job[c] \in Job
  BY DEF Reply, TypeInv, TypeOK
<1>2. StoreOK'
  <2>1. given' \subseteq Oids
    BY <1>1, Spelling DEF Reply, TypeInv, TypeOK, Job, Device
  <2>2. gone' \subseteq Oids
    BY <1>1, Spelling DEF Reply, TypeInv, TypeOK, JobsFit, Fits
  <2> QED
    BY <2>1, <2>2 DEF Reply, StoreOK, TypeInv, TypeOK, budget
<1>3. Fits("idle", NoJob)
  BY DEF Fits
<1> QED
  BY <1>2, <1>3, NoJobType, MoveType DEF Reply, Goto, Steps

LEMMA CrashType ==
  ASSUME TypeInv, Crash PROVE TypeInv'
<1>1. TypeOK'
  <2>1. crashes' \in 0 .. MaxCrashes
    BY DevicesAssumption DEF Crash, TypeInv, TypeOK
  <2> QED
    BY <2>1, NoJobType DEF Crash, TypeInv, TypeOK, Steps
<1>2. JobsFit'
  BY DEF Crash, JobsFit, Fits
<1> QED
  BY <1>1, <1>2 DEF TypeInv

LEMMA ExpireType ==
  ASSUME TypeInv, NEW i \in Ids, Expire(i) PROVE TypeInv'
<1>1. TypeOK'
  BY DEF Expire, TypeInv, TypeOK, local, budget
<1>2. JobsFit'
  BY DEF Expire, TypeInv, JobsFit, local
<1> QED
  BY <1>1, <1>2 DEF TypeInv

LEMMA TypeStep ==
  ASSUME TypeInv, [Next]_vars PROVE TypeInv'
<1>1. ASSUME NEW c \in Clients, Call(c) \/ Handle(c) \/ Reply(c) PROVE TypeInv'
  BY <1>1, CallType, InsertOneType, UpdateOneType, CacheWriteType, CacheGetType,
     FindOneType, ListType, ReplyType DEF Handle
<1>2. CASE UNCHANGED vars
  BY <1>2 DEF vars, local, budget, ghosts, TypeInv, TypeOK, JobsFit
<1> QED
  BY <1>1, <1>2, CrashType, ExpireType DEF Next

LEMMA TypeInit == Init => TypeInv
<1> SUFFICES ASSUME Init PROVE TypeInv
  OBVIOUS
<1>1. TypeOK
  BY DevicesAssumption, NoJobType DEF Init, TypeOK, Steps
<1>2. JobsFit
  BY DEF Init, JobsFit, Fits
<1> QED
  BY <1>1, <1>2 DEF TypeInv

LEMMA AlwaysTyped == Spec => []TypeInv
BY TypeInit, TypeStep, PTL DEF Spec

\* Every variable keeps its type: no step leaves a goroutine with a device, a
\* request or an id that the handler it runs does not expect (service.go).
THEOREM TypeCorrect == Spec => []TypeOK
<1>1. TypeInv => TypeOK
  BY DEF TypeInv
<1> QED
  BY <1>1, AlwaysTyped, PTL

-----------------------------------------------------------------------------
(* The two ids of a device, when clients know those only that they were told. *)

\* A collection D holds a device with the ObjectID i in its field id.
Holds(D, i) == \E o \in Oids : D[o] # NoDevice /\ ObjectIDFromHex(D[o].id) = i

\* The two ids of every document have been issued, no document's id is the _id
\* of a document, and no two documents share an id.
DocsApart ==
  /\ \A o \in Oids : docs[o] # NoDevice =>
       o \in issued /\ ObjectIDFromHex(docs[o].id) \in issued
  /\ \A o, p \in Oids : docs[o] # NoDevice /\ docs[p] # NoDevice =>
       ObjectIDFromHex(docs[o].id) # p
  /\ \A o, p \in Oids :
       /\ docs[o] # NoDevice /\ docs[p] # NoDevice
       /\ ObjectIDFromHex(docs[o].id) = ObjectIDFromHex(docs[p].id)
       => o = p

GivenHeld == \A i \in given : Holds(docs, i)
CacheHeld ==
  \A i \in Ids : cache[i] # NoDevice => Holds(docs, ObjectIDFromHex(cache[i].id))

\* With the collection D and the told ids G, a goroutine's device is a stored
\* one and its request names an id that was told.
Uses(D, G, step, j) ==
  /\ j.device # NoDevice => Holds(D, ObjectIDFromHex(j.device.id))
  /\ step \in {"write", "cacheGet", "find"} /\ j.req.id # BadId =>
       ObjectIDFromHex(j.req.id) \in G

JobsHeld == \A c \in Clients : Uses(docs, given, pc[c], job[c])

IdsInv == DocsApart /\ GivenHeld /\ CacheHeld /\ JobsHeld

\* No query by a told id, however it is spelled, finds a document.
LEMMA NoMatch ==
  ASSUME TypeInv, IdsInv, NEW c \in Clients, pc[c] \in {"write", "find"},
         job[c].req.id # BadId
  PROVE  Matches(job[c].req) = {}
<1> DEFINE i == ObjectIDFromHex(job[c].req.id)
<1>1. i \in given
  BY DEF IdsInv, JobsHeld, Uses
<1>2. SUFFICES ASSUME NEW o \in Oids, docs[o] # NoDevice, o = i PROVE FALSE
  BY DEF Matches
<1>3. PICK p \in Oids : docs[p] # NoDevice /\ ObjectIDFromHex(docs[p].id) = i
  BY <1>1 DEF IdsInv, GivenHeld, Holds
<1> QED
  BY <1>2, <1>3 DEF IdsInv, DocsApart

\* One goroutine moves on, in a collection that lost no device.
LEMMA MoveIds ==
  ASSUME TypeInv, IdsInv, DocsApart', CacheHeld', GivenHeld', given \subseteq given',
         \A i \in Oids : Holds(docs, i) => Holds(docs', i),
         NEW c \in Clients, NEW step, NEW j,
         pc' = [pc EXCEPT ![c] = step], job' = [job EXCEPT ![c] = j],
         Uses(docs', given', step, j)
  PROVE  IdsInv'
<1> SUFFICES ASSUME NEW b \in Clients PROVE Uses(docs', given', pc'[b], job'[b])
  BY DEF IdsInv, JobsHeld
<1>1. CASE b = c
  BY <1>1 DEF TypeInv, TypeOK
<1>2. CASE b # c
  <2>1. pc'[b] = pc[b] /\ job'[b] = job[b] /\ Uses(docs, given, pc[b], job[b])
    BY <1>2 DEF TypeInv, TypeOK, IdsInv, JobsHeld
  <2>2. job[b].device # NoDevice => ObjectIDFromHex(job[b].device.id) \in Oids
    BY Spelling DEF TypeInv, TypeOK, Job, Device
  <2> QED
    BY <2>1, <2>2 DEF Uses
<1> QED
  BY <1>1, <1>2

\* The same when the collection does not change.
LEMMA StayIds ==
  ASSUME TypeInv, IdsInv, UNCHANGED <<docs, issued>>, CacheHeld', GivenHeld',
         given \subseteq given', NEW c \in Clients, NEW step, NEW j,
         pc' = [pc EXCEPT ![c] = step], job' = [job EXCEPT ![c] = j],
         Uses(docs, given', step, j)
  PROVE  IdsInv'
<1>1. DocsApart'
  BY DEF IdsInv, DocsApart
<1>2. docs' = docs
  OBVIOUS
<1> QED
  BY <1>1, <1>2, MoveIds

\* A handler that fails, or goes on with the device it had.
LEMMA SameIds ==
  ASSUME TypeInv, IdsInv, UNCHANGED <<docs, issued, given>>, CacheHeld', NEW c \in Clients,
         \/ \E e \in Errors : Fail(c, e)
         \/ /\ UNCHANGED job
            /\ \/ Goto(c, "end") \/ Goto(c, "cacheDel")
               \/ Goto(c, "find") /\ pc[c] = "cacheGet"
  PROVE  IdsInv'
<1>1. GivenHeld' /\ given \subseteq given'
  BY DEF IdsInv, GivenHeld
<1>2. job[c] \in Job /\ Uses(docs, given, pc[c], job[c])
  BY DEF TypeInv, TypeOK, IdsInv, JobsHeld
<1>3. ASSUME NEW e \in Errors, Fail(c, e) PROVE IdsInv'
  <2> DEFINE j == [job[c] EXCEPT !.err = e]
  <2>1. j.device = job[c].device
    BY <1>2 DEF Job
  <2>2. Uses(docs, given', "end", j)
    BY <1>2, <2>1 DEF Uses
  <2>3. pc' = [pc EXCEPT ![c] = "end"] /\ job' = [job EXCEPT ![c] = j]
    BY <1>3 DEF Fail, Goto
  <2> QED
    BY <1>1, <2>2, <2>3, StayIds
<1>4. ASSUME NEW step, pc' = [pc EXCEPT ![c] = step], UNCHANGED job,
             step \in {"end", "cacheDel"} \/ (step = "find" /\ pc[c] = "cacheGet")
      PROVE  IdsInv'
  <2>1. job' = [job EXCEPT ![c] = job[c]]
    BY <1>4 DEF TypeInv, TypeOK
  <2>2. Uses(docs, given', step, job[c])
    BY <1>2, <1>4 DEF Uses
  <2> QED
    BY <1>1, <1>4, <2>1, <2>2, StayIds
<1> QED
  BY <1>3, <1>4 DEF Goto

LEMMA CallIds ==
  ASSUME "collection" \notin IdsFrom, TypeInv, IdsInv, NEW c \in Clients, Call(c) PROVE IdsInv'
<1>1. PICK r \in Request : /\ r.op # "list" /\ r.id # BadId => ObjectIDFromHex(r.id) \in given
                           /\ Goto(c, Entry[r.op])
                           /\ job' = [job EXCEPT ![c] = [NoJob EXCEPT !.req = r]]
  BY DEF Call, Known
<1> DEFINE j == [NoJob EXCEPT !.req = r]
<1>2. j.req = r /\ j.device = NoDevice
  BY DEF NoJob
<1>3. r.op \in {"create", "update", "delete", "get", "list"}
  BY RequestKinds
<1>4. Uses(docs, given', Entry[r.op], j)
  BY <1>1, <1>2, <1>3 DEF Uses, Entry, Call
<1>5. GivenHeld' /\ CacheHeld' /\ given \subseteq given' /\ UNCHANGED <<docs, issued>>
  BY DEF Call, IdsInv, GivenHeld, CacheHeld
<1> QED
  BY <1>1, <1>4, <1>5, StayIds DEF Goto

\* A creation adds a document whose ids nobody had.
LEMMA InsertOneIds ==
  ASSUME TypeInv, IdsInv, NEW c \in Clients, InsertOne(c) PROVE IdsInv'
<1> DEFINE r == job[c].req
           new(i) == [id |-> Hex(i), name |-> r.name, deleted |-> "absent"]
<1>1. pc[c] = "insert" /\ job[c] \in Job /\ r \in CreateReq
      /\ UNCHANGED <<cache, given>>
  BY DEF InsertOne, TypeInv, TypeOK, JobsFit, Fits
<1>2. PICK i \in Oids \ issued, o \in Oids \ issued :
        /\ i # o
        /\ issued' = issued \cup {i, o}
        /\ \/ /\ docs' = [docs EXCEPT ![o] = new(i)]
              /\ job' = [job EXCEPT ![c].device = [id |-> Hex(i), name |-> r.name]]
              /\ Goto(c, "cacheSet")
           \/ /\ docs' \in {docs, [docs EXCEPT ![o] = new(i)]}
              /\ Fail(c, "mongo")
  BY DEF InsertOne, NewId
<1>3. docs[o] = NoDevice
  BY <1>2 DEF IdsInv, DocsApart
<1>4. new(i) \in Doc /\ new(i) # NoDevice /\ ObjectIDFromHex(new(i).id) = i
  BY <1>1, DevicesAssumption, Spelling DEF Doc, CreateReq
<1>5. CASE docs' = [docs EXCEPT ![o] = new(i)]
  <2>1. docs'[o] = new(i) /\ \A p \in Oids \ {o} : docs'[p] = docs[p]
    BY <1>5 DEF TypeInv, TypeOK
  <2>2. \A k \in Oids : Holds(docs, k) => Holds(docs', k)
    BY <1>3, <2>1 DEF Holds
  <2>3. Holds(docs', i)
    BY <1>4, <2>1 DEF Holds
  <2>4. DocsApart'
    <3>1. \A p \in Oids : docs[p] # NoDevice =>
            p \in issued /\ ObjectIDFromHex(docs[p].id) \in issued
      BY DEF IdsInv, DocsApart
    <3>2. \A p \in Oids : docs'[p] # NoDevice =>
            p \in issued' /\ ObjectIDFromHex(docs'[p].id) \in issued'
      BY <1>2, <1>4, <2>1, <3>1
    <3>3. \A p, q \in Oids : docs'[p] # NoDevice /\ docs'[q] # NoDevice =>
            ObjectIDFromHex(docs'[p].id) # q
      BY <1>2, <1>4, <2>1, <3>1 DEF IdsInv, DocsApart
    <3>4. \A p, q \in Oids : docs'[p] # NoDevice /\ docs'[q] # NoDevice
                               /\ ObjectIDFromHex(docs'[p].id) = ObjectIDFromHex(docs'[q].id)
                           => p = q
      BY <1>2, <1>4, <2>1, <3>1 DEF IdsInv, DocsApart
    <3> QED
      BY <3>2, <3>3, <3>4 DEF DocsApart
  <2>5. CacheHeld' /\ GivenHeld' /\ given \subseteq given'
    BY <1>1, <2>2, Spelling DEF IdsInv, CacheHeld, GivenHeld, TypeInv, TypeOK, Device
  <2>6. CASE /\ job' = [job EXCEPT ![c].device = [id |-> Hex(i), name |-> r.name]]
             /\ Goto(c, "cacheSet")
    <3> DEFINE j == [job[c] EXCEPT !.device = [id |-> Hex(i), name |-> r.name]]
    <3>1. j.device.id = Hex(i) /\ ObjectIDFromHex(Hex(i)) = i
      BY <1>1, Spelling DEF Job
    <3>2. Uses(docs', given', "cacheSet", j)
      BY <2>3, <3>1 DEF Uses
    <3>3. job' = [job EXCEPT ![c] = j] /\ pc' = [pc EXCEPT ![c] = "cacheSet"]
      BY <2>6 DEF Goto
    <3> QED
      BY <2>2, <2>4, <2>5, <3>2, <3>3, MoveIds
  <2>7. CASE Fail(c, "mongo")
    <3> DEFINE j == [job[c] EXCEPT !.err = "mongo"]
    <3>1. j.device = job[c].device /\ (j.device # NoDevice => ObjectIDFromHex(j.device.id) \in Oids)
      BY <1>1, Spelling DEF Job, Device
    <3>2. Uses(docs, given, pc[c], job[c])
      BY DEF IdsInv, JobsHeld
    <3>3. Uses(docs', given', "end", j)
      BY <2>2, <3>1, <3>2 DEF Uses
    <3>4. job' = [job EXCEPT ![c] = j] /\ pc' = [pc EXCEPT ![c] = "end"]
      BY <2>7 DEF Fail, Goto
    <3> QED
      BY <2>2, <2>4, <2>5, <3>3, <3>4, MoveIds
  <2> QED
    BY <1>2, <2>6, <2>7
<1>6. CASE docs' = docs /\ Fail(c, "mongo")
  <2>1. DocsApart'
    BY <1>2, <1>6 DEF IdsInv, DocsApart
  <2>2. CacheHeld' /\ GivenHeld' /\ given \subseteq given'
    BY <1>1, <1>6 DEF IdsInv, CacheHeld, GivenHeld
  <2> DEFINE j == [job[c] EXCEPT !.err = "mongo"]
  <2>3. j.device = job[c].device
    BY <1>1 DEF Job
  <2>4. Uses(docs', given', "end", j)
    BY <1>6, <2>3 DEF Uses, IdsInv, JobsHeld
  <2>5. job' = [job EXCEPT ![c] = j] /\ pc' = [pc EXCEPT ![c] = "end"]
    BY <1>6 DEF Fail, Goto
  <2>6. \A k \in Oids : Holds(docs, k) => Holds(docs', k)
    BY <1>6
  <2> QED
    BY <2>1, <2>2, <2>4, <2>5, <2>6, MoveIds
<1> QED
  BY <1>2, <1>5, <1>6

\* No update and no deletion changes a document.
LEMMA UpdateOneKeeps ==
  ASSUME TypeInv, IdsInv, NEW c \in Clients, UpdateOne(c) PROVE UNCHANGED docs
<1>1. job[c].req.id # BadId => Matches(job[c].req) = {}
  BY NoMatch DEF UpdateOne
<1>2. docs = [o \in Oids |-> docs[o]]
  BY DEF TypeInv, TypeOK
<1> QED
  BY <1>1, <1>2 DEF UpdateOne

LEMMA UpdateOneIds ==
  ASSUME TypeInv, IdsInv, NEW c \in Clients, UpdateOne(c) PROVE IdsInv'
<1> DEFINE r == job[c].req
<1>1. pc[c] = "write" /\ job[c] \in Job
      /\ (r.id # BadId => ObjectIDFromHex(r.id) \in given)
  BY DEF UpdateOne, TypeInv, TypeOK, IdsInv, JobsHeld, Uses
<1>2. CacheHeld' /\ GivenHeld' /\ given \subseteq given' /\ UNCHANGED <<docs, issued, given>>
  BY UpdateOneKeeps DEF UpdateOne, IdsInv, CacheHeld, GivenHeld
<1>3. CASE \E e \in Errors : Fail(c, e)
  BY <1>2, <1>3, SameIds
<1>4. CASE /\ r.id # BadId /\ Goto(c, "cacheSet")
           /\ job' = [job EXCEPT ![c].device = [id |-> r.id, name |-> r.name]]
  <2> DEFINE j == [job[c] EXCEPT !.device = [id |-> r.id, name |-> r.name]]
  <2>1. j.device.id = r.id
    BY <1>1 DEF Job
  <2>2. Uses(docs, given', "cacheSet", j)
    BY <1>1, <1>4, <2>1 DEF Uses, IdsInv, GivenHeld
  <2>3. job' = [job EXCEPT ![c] = j] /\ pc' = [pc EXCEPT ![c] = "cacheSet"]
    BY <1>4 DEF Goto
  <2> QED
    BY <1>2, <2>2, <2>3, StayIds
<1>5. CASE Goto(c, "cacheDel") /\ UNCHANGED job
  BY <1>2, <1>5, SameIds
<1>6. r.op \in {"update", "delete"}
  BY <1>1 DEF TypeInv, JobsFit, Fits, UpdateReq, DeleteReq
<1> QED
  BY <1>3, <1>4, <1>5, <1>6 DEF UpdateOne, AfterWrite, Errors

LEMMA CacheWriteIds ==
  ASSUME TypeInv, IdsInv, NEW c \in Clients, CacheWrite(c) PROVE IdsInv'
<1>1. UNCHANGED <<docs, issued, given>>
  BY DEF CacheWrite
<1>2. CacheHeld'
  <2> SUFFICES ASSUME NEW i \in Ids, cache'[i] # NoDevice
               PROVE  Holds(docs, ObjectIDFromHex(cache'[i].id))
    BY <1>1 DEF CacheHeld
  <2>1. cache'[i] = cache[i] \/ (cache'[i] = job[c].device)
    BY DEF CacheWrite, TypeInv, TypeOK
  <2> QED
    BY <2>1 DEF IdsInv, CacheHeld, JobsHeld, Uses
<1> QED
  BY <1>1, <1>2, SameIds DEF CacheWrite, Errors

LEMMA CacheGetIds ==
  ASSUME TypeInv, IdsInv, NEW c \in Clients, CacheGet(c) PROVE IdsInv'
<1> DEFINE i == job[c].req.id
<1>1. pc[c] = "cacheGet" /\ job[c] \in Job /\ UNCHANGED <<docs, cache, issued, given>>
  BY DEF CacheGet, TypeInv, TypeOK
<1>2. CacheHeld' /\ GivenHeld' /\ given \subseteq given'
  BY <1>1 DEF IdsInv, CacheHeld, GivenHeld
<1>3. CASE /\ i \in Ids /\ cache[i] # NoDevice
           /\ job' = [job EXCEPT ![c].device = cache[i]] /\ Goto(c, "end")
  <2> DEFINE j == [job[c] EXCEPT !.device = cache[i]]
  <2>1. j.device = cache[i]
    BY <1>1 DEF Job
  <2>2. Uses(docs, given', "end", j)
    BY <1>3, <2>1 DEF Uses, IdsInv, CacheHeld
  <2>3. job' = [job EXCEPT ![c] = j] /\ pc' = [pc EXCEPT ![c] = "end"]
    BY <1>3 DEF Goto
  <2> QED
    BY <1>1, <1>2, <2>2, <2>3, StayIds
<1>4. CASE Goto(c, "find") /\ UNCHANGED job
  BY <1>1, <1>2, <1>4, SameIds
<1> QED
  BY <1>3, <1>4 DEF CacheGet

LEMMA FindOneIds ==
  ASSUME TypeInv, IdsInv, NEW c \in Clients, FindOne(c) PROVE IdsInv'
<1>1. UNCHANGED <<docs, issued, given>> /\ CacheHeld'
  BY DEF FindOne, IdsInv, CacheHeld
<1>2. job[c].req.id # BadId => Matches(job[c].req) = {}
  BY NoMatch DEF FindOne
<1> QED
  BY <1>1, <1>2, SameIds DEF FindOne, Errors

LEMMA ListIds ==
  ASSUME TypeInv, IdsInv, NEW c \in Clients, List(c) PROVE IdsInv'
<1> DEFINE S == {o \in Oids : docs[o] # NoDevice /\ docs[o].deleted = "false"}
<1>1. job[c] \in Job /\ UNCHANGED <<docs, issued, given>>
  BY DEF List, TypeInv, TypeOK
<1>2. CacheHeld' /\ GivenHeld' /\ given \subseteq given'
  BY DEF List, IdsInv, CacheHeld, GivenHeld
<1>3. CASE job' = [job EXCEPT ![c].listed = S] /\ Goto(c, "end")
  <2> DEFINE j == [job[c] EXCEPT !.listed = S]
  <2>1. j.device = job[c].device
    BY <1>1 DEF Job
  <2>2. Uses(docs, given', "end", j)
    BY <2>1 DEF Uses, IdsInv, JobsHeld
  <2>3. job' = [job EXCEPT ![c] = j] /\ pc' = [pc EXCEPT ![c] = "end"]
    BY <1>3 DEF Goto
  <2> QED
    BY <1>1, <1>2, <2>2, <2>3, StayIds
<1>4. CASE Fail(c, "mongo")
  BY <1>1, <1>2, <1>4, SameIds DEF Errors
<1> QED
  BY <1>3, <1>4 DEF List

LEMMA ReplyIds ==
  ASSUME TypeInv, IdsInv, NEW c \in Clients, Reply(c) PROVE IdsInv'
<1>1. UNCHANGED <<docs, issued>> /\ CacheHeld'
  BY DEF Reply, IdsInv, CacheHeld
<1>2. given \subseteq given' /\ GivenHeld'
  BY DEF Reply, IdsInv, GivenHeld, JobsHeld, Uses
<1>3. Uses(docs, given', "idle", NoJob)
  BY NoJobType DEF Uses
<1> QED
  BY <1>1, <1>2, <1>3, StayIds DEF Reply, Goto

LEMMA IdsStep ==
  ASSUME "collection" \notin IdsFrom, TypeInv, IdsInv, [Next]_vars PROVE IdsInv'
<1>1. ASSUME NEW c \in Clients, Call(c) \/ Handle(c) \/ Reply(c) PROVE IdsInv'
  BY <1>1, CallIds, InsertOneIds, UpdateOneIds, CacheWriteIds, CacheGetIds, FindOneIds,
     ListIds, ReplyIds DEF Handle
<1>2. CASE Crash
  <2>1. DocsApart' /\ GivenHeld' /\ CacheHeld'
    BY <1>2 DEF Crash, IdsInv, DocsApart, GivenHeld, CacheHeld
  <2>2. JobsHeld'
    BY <1>2, NoJobType DEF Crash, JobsHeld, Uses
  <2> QED
    BY <2>1, <2>2 DEF IdsInv
<1>3. ASSUME NEW i \in Ids, Expire(i) PROVE IdsInv'
  <2>1. UNCHANGED <<docs, issued, given, pc, job>>
    BY <1>3 DEF Expire, local
  <2>2. CacheHeld'
    BY <1>3 DEF Expire, IdsInv, CacheHeld, TypeInv, TypeOK
  <2> QED
    BY <2>1, <2>2 DEF IdsInv, DocsApart, GivenHeld, JobsHeld
<1>4. CASE UNCHANGED vars
  BY <1>4 DEF vars, local, IdsInv, DocsApart, GivenHeld, CacheHeld, JobsHeld
<1> QED
  BY <1>1, <1>2, <1>3, <1>4 DEF Next

LEMMA IdsInit == Init => IdsInv
BY NoJobType DEF Init, IdsInv, DocsApart, GivenHeld, CacheHeld, JobsHeld, Uses

LEMMA AlwaysApart == ASSUME "collection" \notin IdsFrom PROVE Spec => [](TypeInv /\ IdsInv)
<1>1. Init => TypeInv /\ IdsInv
  BY TypeInit, IdsInit
<1>2. TypeInv /\ IdsInv /\ [Next]_vars => (TypeInv /\ IdsInv)'
  BY TypeStep, IdsStep
<1> QED
  BY <1>1, <1>2, PTL DEF Spec

\* When clients use the ids they were told, each id an answer named is in the
\* collection exactly once: CreateDevice (service.go:29-42) tells an id after
\* InsertOne only, and every id is drawn anew.
THEOREM ToldIsStored == ASSUME "collection" \notin IdsFrom PROVE Spec => []GivenIsStored
<1>1. ASSUME TypeInv, IdsInv, NEW i \in given
      PROVE  Cardinality({o \in Oids :
                docs[o] # NoDevice /\ ObjectIDFromHex(docs[o].id) = i}) = 1
  <2>1. PICK o \in Oids : docs[o] # NoDevice /\ ObjectIDFromHex(docs[o].id) = i
    BY <1>1 DEF IdsInv, GivenHeld, Holds
  <2>2. {p \in Oids : docs[p] # NoDevice /\ ObjectIDFromHex(docs[p].id) = i} = {o}
    BY <1>1, <2>1 DEF IdsInv, DocsApart
  <2> QED
    BY <2>2, FS_Singleton
<1>2. TypeInv /\ IdsInv => GivenIsStored
  BY <1>1 DEF GivenIsStored
<1> QED
  BY <1>2, AlwaysApart, PTL

\* And no update and no deletion by such a client changes the collection: the
\* query looks for an _id (storage.go:35, storage.go:79), and no told id is one.
THEOREM CallsMissCollection == ASSUME "collection" \notin IdsFrom PROVE Spec => ApiLeavesCollection
<1>1. ASSUME TypeInv, IdsInv, [Next]_vars, NEW o \in Oids, docs[o] # NoDevice
      PROVE  docs'[o] = docs[o]
  <2>1. ASSUME NEW c \in Clients, InsertOne(c) PROVE docs'[o] = docs[o]
    <3>1. o \in issued
      BY <1>1 DEF IdsInv, DocsApart
    <3> QED
      BY <1>1, <2>1, <3>1 DEF InsertOne, TypeInv, TypeOK
  <2>2. ASSUME NEW c \in Clients, Call(c) \/ Handle(c) \/ Reply(c), ~InsertOne(c)
        PROVE  docs' = docs
    BY <1>1, <2>2, UpdateOneKeeps DEF Handle, Call, CacheWrite, CacheGet, FindOne, List, Reply
  <2>3. CASE Crash \/ (\E i \in Ids : Expire(i)) \/ UNCHANGED vars
    BY <2>3 DEF Crash, Expire, vars
  <2> QED
    BY <1>1, <2>1, <2>2, <2>3 DEF Next
<1>2. TypeInv /\ IdsInv /\ [Next]_vars
        => [\A o \in Oids : docs[o] # NoDevice => docs'[o] = docs[o]]_vars
  BY <1>1
<1> QED
  BY <1>2, AlwaysApart, PTL DEF Spec, ApiLeavesCollection

=============================================================================
