-------------------------- MODULE DevicesRaceProofs --------------------------
(***************************************************************************)
(* Proofs about the races of DevicesService: between the collection and    *)
(* Redis, and between deletions, updates and creations.                    *)
(***************************************************************************)
EXTENDS DevicesServiceProofs

-----------------------------------------------------------------------------
(* No id is used before it has been issued. *)

\* The ObjectID that the id of a device, a document or a request spells.
Oid(x) == ObjectIDFromHex(x.id)

\* What a goroutine holds, with the ids I issued.
Knows(I, step, j) ==
  /\ j.device # NoDevice => Oid(j.device) \in I
  /\ step # "idle" /\ j.req.op # "list" /\ j.req.id # BadId => Oid(j.req) \in I
  /\ step = "cacheSet" /\ j.req.op = "update" => j.device.id = j.req.id

DocsIssued  == \A o \in Oids : docs[o] # NoDevice => o \in issued /\ Oid(docs[o]) \in issued
CacheIssued ==
  \A i \in Ids : cache[i] # NoDevice => ObjectIDFromHex(i) \in issued /\ cache[i].id = i
JobsKnow    == \A c \in Clients : Knows(issued, pc[c], job[c])

IssuedInv == TypeInv /\ DocsIssued /\ CacheIssued /\ given \subseteq issued /\ JobsKnow

\* One goroutine moves to another step with new local variables.
LEMMA MoveIssued ==
  ASSUME IssuedInv, TypeInv', DocsIssued', CacheIssued', given' \subseteq issued',
         issued \subseteq issued', NEW c \in Clients, NEW step, NEW j,
         pc' = [pc EXCEPT ![c] = step], job' = [job EXCEPT ![c] = j],
         Knows(issued', step, j)
  PROVE  IssuedInv'
<1> SUFFICES ASSUME NEW b \in Clients PROVE Knows(issued', pc'[b], job'[b])
  BY DEF IssuedInv, JobsKnow
<1>1. CASE b = c
  BY <1>1 DEF IssuedInv, TypeInv, TypeOK
<1>2. CASE b # c
  <2>1. pc'[b] = pc[b] /\ job'[b] = job[b] /\ Knows(issued, pc[b], job[b])
    BY <1>2 DEF IssuedInv, TypeInv, TypeOK, JobsKnow
  <2> QED
    BY <2>1 DEF Knows
<1> QED
  BY <1>1, <1>2

\* A handler that fails, or goes on with the device it had, issuing nothing.
LEMMA SameIssued ==
  ASSUME IssuedInv, TypeInv', DocsIssued', CacheIssued', UNCHANGED <<issued, given>>,
         NEW c \in Clients, pc[c] # "idle",
         \/ \E e \in Errors : Fail(c, e)
         \/ UNCHANGED job /\ \E step \in {"end", "cacheDel", "find"} : Goto(c, step)
  PROVE  IssuedInv'
<1>1. job[c] \in Job /\ Knows(issued, pc[c], job[c]) /\ given' \subseteq issued'
  BY DEF IssuedInv, TypeInv, TypeOK, JobsKnow
<1>2. ASSUME NEW e \in Errors, Fail(c, e) PROVE IssuedInv'
  <2> DEFINE j == [job[c] EXCEPT !.err = e]
  <2>1. j.device = job[c].device /\ j.req = job[c].req
    BY <1>1 DEF Job
  <2>2. Knows(issued', "end", j)
    BY <1>1, <2>1 DEF Knows
  <2>3. pc' = [pc EXCEPT ![c] = "end"] /\ job' = [job EXCEPT ![c] = j]
    BY <1>2 DEF Fail, Goto
  <2> QED
    BY <1>1, <2>2, <2>3, MoveIssued
<1>3. ASSUME UNCHANGED job, NEW step \in {"end", "cacheDel", "find"}, Goto(c, step)
      PROVE  IssuedInv'
  <2>1. job' = [job EXCEPT ![c] = job[c]] /\ pc' = [pc EXCEPT ![c] = step]
    BY <1>3 DEF IssuedInv, TypeInv, TypeOK, Goto
  <2>2. Knows(issued', step, job[c])
    BY <1>1, <1>3 DEF Knows
  <2> QED
    BY <1>1, <2>1, <2>2, MoveIssued
<1> QED
  BY <1>2, <1>3

LEMMA CallIssued ==
  ASSUME IssuedInv, TypeInv', NEW c \in Clients, Call(c) PROVE IssuedInv'
<1>1. PICK r \in Request : /\ r.op # "list" => r.id \in Known
                           /\ Goto(c, Entry[r.op])
                           /\ job' = [job EXCEPT ![c] = [NoJob EXCEPT !.req = r]]
  BY DEF Call
<1> DEFINE j == [NoJob EXCEPT !.req = r]
<1>2. j.req = r /\ j.device = NoDevice
  BY DEF NoJob
<1>3. r.op \in {"create", "update", "delete", "get", "list"}
  BY RequestKinds
<1>4. \A i \in Known : i # BadId => ObjectIDFromHex(i) \in issued
  BY Spelling DEF Known, IssuedInv, DocsIssued
<1>5. Knows(issued', Entry[r.op], j)
  BY <1>1, <1>2, <1>3, <1>4 DEF Knows, Entry, Call, Oid
<1>6. DocsIssued' /\ CacheIssued' /\ given' \subseteq issued' /\ issued' = issued
  BY DEF Call, IssuedInv, DocsIssued, CacheIssued
<1> QED
  BY <1>1, <1>5, <1>6, MoveIssued DEF Goto

LEMMA InsertOneIssued ==
  ASSUME IssuedInv, TypeInv', NEW c \in Clients, InsertOne(c) PROVE IssuedInv'
<1> DEFINE r == job[c].req
           new(i) == [id |-> Hex(i), name |-> r.name, deleted |-> "absent"]
<1>1. pc[c] = "insert" /\ job[c] \in Job /\ r \in CreateReq /\ UNCHANGED <<cache, given>>
      /\ Knows(issued, pc[c], job[c])
  BY DEF InsertOne, IssuedInv, TypeInv, TypeOK, JobsFit, JobsKnow, Fits
<1>2. PICK i \in Oids \ issued, o \in Oids \ issued :
        /\ issued' = issued \cup {i, o}
        /\ docs' \in {docs, [docs EXCEPT ![o] = new(i)]}
        /\ \/ job' = [job EXCEPT ![c].device = [id |-> Hex(i), name |-> r.name]] /\ Goto(c, "cacheSet")
           \/ Fail(c, "mongo")
  BY DEF InsertOne, NewId
<1>3. DocsIssued'
  <2> SUFFICES ASSUME NEW p \in Oids, docs'[p] # NoDevice
               PROVE  p \in issued' /\ Oid(docs'[p]) \in issued'
    BY DEF DocsIssued
  <2>1. docs'[p] = docs[p] \/ (p = o /\ docs'[p] = new(i))
    BY <1>2 DEF IssuedInv, TypeInv, TypeOK
  <2> QED
    BY <1>2, <2>1, Spelling DEF IssuedInv, DocsIssued, Oid
<1>4. CacheIssued' /\ given' \subseteq issued' /\ issued \subseteq issued'
  BY <1>1, <1>2 DEF IssuedInv, CacheIssued
<1>5. CASE job' = [job EXCEPT ![c].device = [id |-> Hex(i), name |-> r.name]] /\ Goto(c, "cacheSet")
  <2> DEFINE j == [job[c] EXCEPT !.device = [id |-> Hex(i), name |-> r.name]]
  <2>1. Oid(j.device) = i /\ j.req = r
    BY <1>1, Spelling DEF Job, Oid
  <2>2. Knows(issued', "cacheSet", j)
    BY <1>1, <1>2, <2>1 DEF Knows, CreateReq
  <2> QED
    BY <1>3, <1>4, <1>5, <2>2, MoveIssued DEF Goto
<1>6. CASE Fail(c, "mongo")
  <2> DEFINE j == [job[c] EXCEPT !.err = "mongo"]
  <2>1. j.device = job[c].device /\ j.req = r
    BY <1>1 DEF Job
  <2>2. Knows(issued', "end", j)
    BY <1>1, <1>2, <2>1 DEF Knows
  <2> QED
    BY <1>3, <1>4, <1>6, <2>2, MoveIssued DEF Fail, Goto
<1> QED
  BY <1>2, <1>5, <1>6

LEMMA UpdateOneIssued ==
  ASSUME IssuedInv, TypeInv', NEW c \in Clients, UpdateOne(c) PROVE IssuedInv'
<1> DEFINE r == job[c].req
           New(d)  == IF r.op = "update" THEN SetDevice(d, r) ELSE [d EXCEPT !.deleted = "true"]
           written == [o \in Oids |-> IF o \in Matches(r) THEN New(docs[o]) ELSE docs[o]]
<1>1. pc[c] = "write" /\ job[c] \in Job /\ r \in UpdateReq \cup DeleteReq
      /\ UNCHANGED <<cache, issued, given>> /\ Knows(issued, pc[c], job[c])
  BY DEF UpdateOne, IssuedInv, TypeInv, TypeOK, JobsFit, JobsKnow, Fits
<1>2. DocsIssued'
  <2> SUFFICES ASSUME NEW o \in Oids, docs'[o] # NoDevice
               PROVE  o \in issued' /\ Oid(docs'[o]) \in issued'
    BY DEF DocsIssued
  <2>1. CASE docs'[o] = docs[o]
    BY <1>1, <2>1 DEF IssuedInv, DocsIssued
  <2>2. CASE o \in Matches(r) /\ docs'[o] = New(docs[o])
    <3>1. docs[o] \in Doc /\ docs[o] # NoDevice /\ o = Oid(r)
      BY <2>2 DEF Matches, IssuedInv, TypeInv, TypeOK, Oid
    <3>2. docs'[o].id \in {docs[o].id, r.id}
      BY <2>2, <3>1 DEF Doc, SetDevice
    <3> QED
      BY <1>1, <3>1, <3>2 DEF IssuedInv, DocsIssued, Oid
  <2>3. docs' = written \/ docs' = docs
    BY DEF UpdateOne
  <2> QED
    BY <2>1, <2>2, <2>3
<1>3. CacheIssued' /\ given' \subseteq issued'
  BY <1>1 DEF IssuedInv, CacheIssued
<1>4. CASE r.id # BadId /\ Goto(c, "cacheSet")
           /\ job' = [job EXCEPT ![c].device = [id |-> r.id, name |-> r.name]]
  <2> DEFINE j == [job[c] EXCEPT !.device = [id |-> r.id, name |-> r.name]]
  <2>1. j.device.id = r.id /\ j.req = r
    BY <1>1 DEF Job
  <2>2. r.op # "list"
    BY <1>1 DEF UpdateReq, DeleteReq
  <2>3. Knows(issued', "cacheSet", j)
    BY <1>1, <1>4, <2>1, <2>2 DEF Knows, Oid
  <2> QED
    BY <1>1, <1>2, <1>3, <1>4, <2>3, MoveIssued DEF Goto
<1>5. CASE \/ \E e \in Errors : Fail(c, e)
           \/ UNCHANGED job /\ Goto(c, "cacheDel")
  BY <1>1, <1>2, <1>3, <1>5, SameIssued
<1>6. r.op \in {"update", "delete"}
  BY <1>1 DEF UpdateReq, DeleteReq
<1> QED
  BY <1>4, <1>5, <1>6 DEF UpdateOne, AfterWrite, Errors

LEMMA CacheWriteIssued ==
  ASSUME IssuedInv, TypeInv', NEW c \in Clients, CacheWrite(c) PROVE IssuedInv'
<1>1. UNCHANGED <<docs, issued, given>> /\ pc[c] \in {"cacheSet", "cacheDel"}
  BY DEF CacheWrite
<1>2. DocsIssued'
  BY <1>1 DEF IssuedInv, DocsIssued
<1>3. CacheIssued'
  <2> SUFFICES ASSUME NEW i \in Ids, cache'[i] # NoDevice
               PROVE  ObjectIDFromHex(i) \in issued /\ cache'[i].id = i
    BY <1>1 DEF CacheIssued
  <2>1. CASE cache'[i] = cache[i]
    BY <2>1 DEF IssuedInv, CacheIssued
  <2>2. CASE pc[c] = "cacheSet" /\ i = job[c].device.id /\ cache'[i] = job[c].device
    BY <2>2 DEF IssuedInv, JobsKnow, Knows, Oid
  <2> QED
    BY <2>1, <2>2 DEF CacheWrite, IssuedInv, TypeInv, TypeOK
<1> QED
  BY <1>1, <1>2, <1>3, SameIssued DEF CacheWrite, Errors

LEMMA CacheGetIssued ==
  ASSUME IssuedInv, TypeInv', NEW c \in Clients, CacheGet(c) PROVE IssuedInv'
<1> DEFINE i == job[c].req.id
<1>1. pc[c] = "cacheGet" /\ job[c] \in Job /\ UNCHANGED <<docs, cache, issued, given>>
      /\ Knows(issued, pc[c], job[c])
  BY DEF CacheGet, IssuedInv, TypeInv, TypeOK, JobsKnow
<1>2. DocsIssued' /\ CacheIssued' /\ given' \subseteq issued'
  BY <1>1 DEF IssuedInv, DocsIssued, CacheIssued
<1>3. CASE /\ i \in Ids /\ cache[i] # NoDevice
           /\ job' = [job EXCEPT ![c].device = cache[i]] /\ Goto(c, "end")
  <2> DEFINE j == [job[c] EXCEPT !.device = cache[i]]
  <2>1. j.device = cache[i] /\ j.req = job[c].req
    BY <1>1 DEF Job
  <2>2. Knows(issued', "end", j)
    BY <1>1, <1>3, <2>1 DEF Knows, IssuedInv, CacheIssued, Oid
  <2> QED
    BY <1>1, <1>2, <1>3, <2>2, MoveIssued DEF Goto
<1>4. CASE Goto(c, "find") /\ UNCHANGED job
  BY <1>1, <1>2, <1>4, SameIssued
<1> QED
  BY <1>3, <1>4 DEF CacheGet

LEMMA FindOneIssued ==
  ASSUME IssuedInv, TypeInv', NEW c \in Clients, FindOne(c) PROVE IssuedInv'
<1> DEFINE r == job[c].req
<1>1. pc[c] = "find" /\ job[c] \in Job /\ UNCHANGED <<docs, cache, issued, given>>
      /\ Knows(issued, pc[c], job[c])
  BY DEF FindOne, IssuedInv, TypeInv, TypeOK, JobsKnow
<1>2. DocsIssued' /\ CacheIssued' /\ given' \subseteq issued'
  BY <1>1 DEF IssuedInv, DocsIssued, CacheIssued
<1>3. ASSUME NEW o \in Matches(r), Goto(c, "end"),
             job' = [job EXCEPT ![c].device = Shown(docs[o])]
      PROVE  IssuedInv'
  <2> DEFINE j == [job[c] EXCEPT !.device = Shown(docs[o])]
  <2>1. Oid(j.device) = Oid(docs[o]) /\ j.req = r
    BY <1>1 DEF Job, Shown, Oid
  <2>2. Oid(docs[o]) \in issued
    BY <1>3 DEF Matches, IssuedInv, DocsIssued
  <2>3. Knows(issued', "end", j)
    BY <1>1, <2>1, <2>2 DEF Knows
  <2> QED
    BY <1>1, <1>2, <1>3, <2>3, MoveIssued DEF Goto
<1>4. ASSUME NEW e \in Errors, Fail(c, e) PROVE IssuedInv'
  BY <1>1, <1>2, <1>4, SameIssued
<1> QED
  BY <1>3, <1>4 DEF FindOne, Errors

LEMMA ListIssued ==
  ASSUME IssuedInv, TypeInv', NEW c \in Clients, List(c) PROVE IssuedInv'
<1> DEFINE S == {o \in Oids : docs[o] # NoDevice /\ docs[o].deleted = "false"}
<1>1. pc[c] = "list" /\ job[c] \in Job /\ UNCHANGED <<docs, cache, issued, given>>
      /\ Knows(issued, pc[c], job[c])
  BY DEF List, IssuedInv, TypeInv, TypeOK, JobsKnow
<1>2. DocsIssued' /\ CacheIssued' /\ given' \subseteq issued'
  BY <1>1 DEF IssuedInv, DocsIssued, CacheIssued
<1>3. CASE job' = [job EXCEPT ![c].listed = S] /\ Goto(c, "end")
  <2> DEFINE j == [job[c] EXCEPT !.listed = S]
  <2>1. j.device = job[c].device /\ j.req = job[c].req
    BY <1>1 DEF Job
  <2>2. Knows(issued', "end", j)
    BY <1>1, <2>1 DEF Knows
  <2> QED
    BY <1>1, <1>2, <1>3, <2>2, MoveIssued DEF Goto
<1>4. CASE Fail(c, "mongo")
  BY <1>1, <1>2, <1>4, SameIssued DEF Errors
<1> QED
  BY <1>3, <1>4 DEF List

LEMMA ReplyIssued ==
  ASSUME IssuedInv, TypeInv', NEW c \in Clients, Reply(c) PROVE IssuedInv'
<1>1. UNCHANGED <<docs, cache, issued>>
  BY DEF Reply
<1>2. DocsIssued' /\ CacheIssued'
  BY <1>1 DEF IssuedInv, DocsIssued, CacheIssued
<1>3. given' \subseteq issued'
  BY <1>1 DEF Reply, IssuedInv, JobsKnow, Knows, Oid
<1>4. Knows(issued', "idle", NoJob)
  BY NoJobType DEF Knows
<1> QED
  BY <1>1, <1>2, <1>3, <1>4, MoveIssued DEF Reply, Goto

LEMMA IssuedStep == ASSUME IssuedInv, [Next]_vars PROVE IssuedInv'
<1>1. TypeInv'
  BY TypeStep DEF IssuedInv
<1>2. ASSUME NEW c \in Clients, Call(c) \/ Handle(c) \/ Reply(c) PROVE IssuedInv'
  BY <1>1, <1>2, CallIssued, InsertOneIssued, UpdateOneIssued, CacheWriteIssued,
     CacheGetIssued, FindOneIssued, ListIssued, ReplyIssued DEF Handle
<1>3. CASE Crash
  <2>1. DocsIssued' /\ CacheIssued' /\ given' \subseteq issued'
    BY <1>3 DEF Crash, IssuedInv, DocsIssued, CacheIssued
  <2>2. JobsKnow'
    BY <1>3, NoJobType DEF Crash, JobsKnow, Knows
  <2> QED
    BY <1>1, <2>1, <2>2 DEF IssuedInv
<1>4. ASSUME NEW i \in Ids, Expire(i) PROVE IssuedInv'
  <2>1. UNCHANGED <<docs, issued, given, pc, job>>
    BY <1>4 DEF Expire, local
  <2>2. CacheIssued'
    BY <1>4, <2>1 DEF Expire, IssuedInv, CacheIssued, TypeInv, TypeOK
  <2> QED
    BY <1>1, <2>1, <2>2 DEF IssuedInv, DocsIssued, JobsKnow
<1>5. CASE UNCHANGED vars
  BY <1>1, <1>5 DEF vars, local, IssuedInv, DocsIssued, CacheIssued, JobsKnow
<1> QED
  BY <1>2, <1>3, <1>4, <1>5 DEF Next

LEMMA IssuedInit == Init => IssuedInv
<1> SUFFICES ASSUME Init PROVE IssuedInv
  OBVIOUS
<1>1. TypeInv
  BY TypeInit
<1>2. DocsIssued /\ CacheIssued /\ given \subseteq issued
  BY DEF Init, DocsIssued, CacheIssued
<1>3. JobsKnow
  BY NoJobType DEF Init, JobsKnow, Knows
<1> QED
  BY <1>1, <1>2, <1>3 DEF IssuedInv

LEMMA AlwaysIssued == Spec => []IssuedInv
BY IssuedInit, IssuedStep, PTL DEF Spec

-----------------------------------------------------------------------------
(* The mark of a deletion *)

\* A document marked deleted stays marked: an update that races with the deletion
\* sets the device's fields, of which the mark is none (storage.go:33-50), and no
\* creation is given its _id.
THEOREM MarkSticks == Spec => DeletionSticks
<1>1. ASSUME IssuedInv, [Next]_vars, NEW o \in Oids, docs[o] # NoDevice, docs[o].deleted = "true"
      PROVE  docs'[o] # NoDevice /\ docs'[o].deleted = "true"
  <2>1. ASSUME NEW c \in Clients, InsertOne(c) PROVE docs'[o] = docs[o]
    <3>1. o \in issued
      BY <1>1 DEF IssuedInv, DocsIssued
    <3> QED
      BY <1>1, <2>1, <3>1 DEF InsertOne, IssuedInv, TypeInv, TypeOK
  <2>2. ASSUME NEW c \in Clients, UpdateOne(c)
        PROVE  docs'[o] # NoDevice /\ docs'[o].deleted = "true"
    <3>1. docs[o] \in Doc /\ TypeInv'
      BY <1>1, TypeStep DEF IssuedInv, TypeInv, TypeOK
    <3>2. /\ SetDevice(docs[o], job[c].req).deleted = "true"
          /\ [docs[o] EXCEPT !.deleted = "true"].deleted = "true"
      BY <1>1, <3>1 DEF Doc, SetDevice
    <3>3. \/ docs'[o] = docs[o]
          \/ /\ o \in Matches(job[c].req)
             /\ docs'[o] \in {SetDevice(docs[o], job[c].req), [docs[o] EXCEPT !.deleted = "true"]}
      BY <2>2 DEF UpdateOne
    <3>4. docs'[o] # NoDevice
      <4>1. job[c].req \in Request /\ job[c].req.id \in Ids \cup {BadId}
        BY <1>1, <2>2, RequestIds DEF UpdateOne, IssuedInv, TypeInv, JobsFit, Fits
      <4>2. CASE docs'[o] = docs[o]
        BY <1>1, <4>2
      <4>3. CASE /\ o \in Matches(job[c].req)
                 /\ docs'[o] = SetDevice(docs[o], job[c].req)
                 /\ job[c].req.op = "update" /\ job[c].req.id # BadId
        <5>1. job[c].req.id \in Ids /\ job[c].req.name \in Names
          BY <4>1, <4>3, RequestKinds DEF Matches, UpdateReq
        <5> QED
          BY <3>1, <4>3, <5>1, DevicesAssumption DEF Doc, SetDevice
      <4>4. CASE docs'[o] = [docs[o] EXCEPT !.deleted = "true"]
        BY <3>1, <4>4, DevicesAssumption DEF Doc
      <4>5. \/ docs'[o] = docs[o]
            \/ /\ o \in Matches(job[c].req)
               /\ docs'[o] = SetDevice(docs[o], job[c].req)
               /\ job[c].req.op = "update" /\ job[c].req.id # BadId
            \/ docs'[o] = [docs[o] EXCEPT !.deleted = "true"]
        BY <2>2 DEF UpdateOne
      <4> QED
        BY <4>2, <4>3, <4>4, <4>5
    <3> QED
      BY <1>1, <3>2, <3>3, <3>4
  <2>3. ASSUME NEW c \in Clients, Call(c) \/ Handle(c) \/ Reply(c), ~InsertOne(c), ~UpdateOne(c)
        PROVE  docs' = docs
    BY <2>3 DEF Handle, Call, CacheWrite, CacheGet, FindOne, List, Reply
  <2>4. CASE Crash \/ (\E i \in Ids : Expire(i)) \/ UNCHANGED vars
    BY <1>1, <2>4 DEF Crash, Expire, vars
  <2> QED
    BY <1>1, <2>1, <2>2, <2>3, <2>4 DEF Next
<1>2. IssuedInv /\ [Next]_vars =>
        [\A o \in Oids : docs[o] # NoDevice /\ docs[o].deleted = "true" =>
           docs'[o] # NoDevice /\ docs'[o].deleted = "true"]_vars
  BY <1>1
<1> QED
  BY <1>2, AlwaysIssued, PTL DEF Spec, DeletionSticks

-----------------------------------------------------------------------------
(* Redis and the collection *)

\* A copy d that may be in Redis under i: if the collection D has the document that
\* i spells, it is not marked and looks like that.
Agrees(D, i, d) ==
  LET e == D[ObjectIDFromHex(i)] IN
  e # NoDevice => d = Shown(e) /\ e.deleted # "true"

\* Whoever is about to store a copy has one that agrees, or its id is suspect.
SettersAgree ==
  \A c \in Clients : pc[c] = "cacheSet" =>
    Agrees(docs, job[c].device.id, job[c].device) \/ job[c].device.id \in suspect

\* What is in Redis agrees, or is suspect, or is about to be overwritten.
CacheAgrees ==
  \A i \in Ids : cache[i] # NoDevice =>
    Agrees(docs, i, cache[i]) \/ i \in suspect \/ Pending(i) # {}

StaleInv == SettersAgree /\ CacheAgrees

\* Steps that neither come from nor lead to a write of Redis.
LEMMA StaleMove ==
  ASSUME IssuedInv, StaleInv, UNCHANGED <<docs, cache, suspect>>, NEW c \in Clients,
         NEW step, NEW j, {pc[c], step} \cap {"cacheSet", "cacheDel"} = {},
         pc' = [pc EXCEPT ![c] = step], job' = [job EXCEPT ![c] = j]
  PROVE  StaleInv'
<1>1. \A b \in Clients : pc'[b] \in {"cacheSet", "cacheDel"} \/ pc[b] \in {"cacheSet", "cacheDel"}
                           => pc'[b] = pc[b] /\ job'[b] = job[b]
  BY DEF IssuedInv, TypeInv, TypeOK
<1>2. SettersAgree'
  BY <1>1 DEF StaleInv, SettersAgree, Agrees
<1>3. \A i \in Ids : Pending(i)' = Pending(i)
  BY <1>1 DEF Pending
<1>4. CacheAgrees'
  BY <1>3 DEF StaleInv, CacheAgrees, Agrees
<1> QED
  BY <1>2, <1>4 DEF StaleInv

LEMMA CallStale ==
  ASSUME IssuedInv, StaleInv, NEW c \in Clients, Call(c) PROVE StaleInv'
<1>1. PICK r \in Request : /\ Goto(c, Entry[r.op])
                           /\ job' = [job EXCEPT ![c] = [NoJob EXCEPT !.req = r]]
  BY DEF Call
<1>2. Entry[r.op] \notin {"cacheSet", "cacheDel"}
  BY RequestKinds DEF Entry
<1>3. pc[c] = "idle" /\ UNCHANGED <<docs, cache, suspect>>
  BY DEF Call, ghosts
<1> QED
  BY <1>1, <1>2, <1>3, StaleMove DEF Goto

\* The ids of a creation are new: nobody is about to store a copy under them, and
\* its own copy is of an id that is no _id.
LEMMA InsertOneStale ==
  ASSUME IssuedInv, StaleInv, NEW c \in Clients, InsertOne(c) PROVE StaleInv'
<1> DEFINE r == job[c].req
           new(i) == [id |-> Hex(i), name |-> r.name, deleted |-> "absent"]
<1>1. pc[c] = "insert" /\ UNCHANGED <<cache, suspect>> /\ job[c] \in Job
  BY DEF InsertOne, IssuedInv, TypeInv, TypeOK, ghosts
<1>2. PICK i \in Oids \ issued, o \in Oids \ issued :
        /\ i # o
        /\ docs' \in {docs, [docs EXCEPT ![o] = new(i)]}
        /\ \/ job' = [job EXCEPT ![c].device = [id |-> Hex(i), name |-> r.name]] /\ Goto(c, "cacheSet")
           \/ Fail(c, "mongo")
  BY DEF InsertOne, NewId
<1>3. \A p \in Oids : p # o => docs'[p] = docs[p]
  BY <1>2 DEF IssuedInv, TypeInv, TypeOK
<1>4. docs[i] = NoDevice /\ \A k \in Ids : ObjectIDFromHex(k) = o => cache[k] = NoDevice
  BY <1>2 DEF IssuedInv, DocsIssued, CacheIssued
<1>5. \A b \in Clients : b # c => pc'[b] = pc[b] /\ job'[b] = job[b]
  BY <1>2 DEF IssuedInv, TypeInv, TypeOK, Goto, Fail
<1>6. SettersAgree'
  <2> SUFFICES ASSUME NEW b \in Clients, pc'[b] = "cacheSet"
               PROVE  Agrees(docs', job'[b].device.id, job'[b].device) \/ job'[b].device.id \in suspect'
    BY DEF SettersAgree
  <2>1. CASE b = c
    <3>1. Oid(job'[c].device) = i
      BY <1>1, <1>2, <2>1, Spelling DEF IssuedInv, TypeInv, TypeOK, Job, Fail, Goto, Oid
    <3> QED
      BY <1>2, <1>3, <1>4, <2>1, <3>1 DEF Agrees, Oid
  <2>2. CASE b # c
    <3>1. pc[b] = "cacheSet" /\ job'[b] = job[b] /\ job[b].device \in Device
      BY <1>5, <2>2 DEF IssuedInv, TypeInv, JobsFit, Fits
    <3>2. Oid(job[b].device) \in Oids /\ Oid(job[b].device) \in issued
      BY <3>1, DevicesAssumption, Spelling DEF IssuedInv, JobsKnow, Knows, Device, Oid
    <3> QED
      BY <1>1, <1>2, <1>3, <3>1, <3>2 DEF StaleInv, SettersAgree, Agrees, Oid
  <2> QED
    BY <2>1, <2>2
<1>7. CacheAgrees'
  <2> SUFFICES ASSUME NEW k \in Ids, cache[k] # NoDevice
               PROVE  Agrees(docs', k, cache[k]) \/ k \in suspect \/ Pending(k)' # {}
    BY <1>1 DEF CacheAgrees
  <2>1. docs'[ObjectIDFromHex(k)] = docs[ObjectIDFromHex(k)]
    BY <1>3, <1>4, Spelling
  <2>2. Pending(k) \subseteq Pending(k)'
    BY <1>1, <1>5 DEF Pending
  <2> QED
    BY <1>1, <2>1, <2>2 DEF StaleInv, CacheAgrees, Agrees
<1> QED
  BY <1>6, <1>7 DEF StaleInv

\* A write of the collection makes every other copy that is on its way suspect,
\* and its own handler goes on to Redis.
LEMMA UpdateOneStale ==
  ASSUME IssuedInv, StaleInv, NEW c \in Clients, UpdateOne(c) PROVE StaleInv'
<1> DEFINE r == job[c].req
           New(d)  == IF r.op = "update" THEN SetDevice(d, r) ELSE [d EXCEPT !.deleted = "true"]
           written == [o \in Oids |-> IF o \in Matches(r) THEN New(docs[o]) ELSE docs[o]]
<1>1. pc[c] = "write" /\ job[c] \in Job /\ r \in UpdateReq \cup DeleteReq
      /\ cache' = cache /\ r.op \in {"update", "delete"}
  BY DEF UpdateOne, IssuedInv, TypeInv, TypeOK, JobsFit, Fits, UpdateReq, DeleteReq
<1>2. CASE r.id = BadId /\ Fail(c, "badId") /\ UNCHANGED <<docs, suspect>>
  <2> DEFINE j == [job[c] EXCEPT !.err = "badId"]
  <2>1. pc' = [pc EXCEPT ![c] = "end"] /\ job' = [job EXCEPT ![c] = j]
    BY <1>2 DEF Fail, Goto
  <2> QED
    BY <1>1, <1>2, <2>1, StaleMove
<1>3. CASE Fail(c, "mongo") /\ UNCHANGED <<docs, suspect>>
  <2> DEFINE j == [job[c] EXCEPT !.err = "mongo"]
  <2>1. pc' = [pc EXCEPT ![c] = "end"] /\ job' = [job EXCEPT ![c] = j]
    BY <1>3 DEF Fail, Goto
  <2> QED
    BY <1>1, <1>3, <2>1, StaleMove
<1>4. ASSUME r.id \in Ids, docs' = written, suspect \subseteq suspect',
             \A b \in Clients : b # c => pc'[b] = pc[b] /\ job'[b] = job[b],
             pc'[c] = "cacheSet" => Agrees(docs', r.id, job'[c].device) \/ r.id \in suspect',
             pc'[c] = "cacheSet" => job'[c].device.id = r.id,
             \A k \in Ids : ObjectIDFromHex(k) \in Matches(r) =>
               \/ k \in suspect'
               \/ Setters(k) = {} /\ (cache[k] = NoDevice \/ c \in Pending(k)')
      PROVE  StaleInv'
  <2>1. \A k \in Ids : \/ docs'[ObjectIDFromHex(k)] = docs[ObjectIDFromHex(k)]
                      \/ ObjectIDFromHex(k) \in Matches(r)
    BY <1>4, Spelling
  <2>2. SettersAgree'
    <3> SUFFICES ASSUME NEW b \in Clients, pc'[b] = "cacheSet"
                 PROVE  Agrees(docs', job'[b].device.id, job'[b].device) \/ job'[b].device.id \in suspect'
      BY DEF SettersAgree
    <3>1. CASE b = c
      BY <1>4, <3>1
    <3>2. CASE b # c
      <4>1. pc[b] = "cacheSet" /\ job'[b] = job[b] /\ job[b].device \in Device
        BY <1>4, <3>2 DEF IssuedInv, TypeInv, JobsFit, Fits
      <4>2. job[b].device.id \in Ids
        BY <4>1 DEF Device
      <4>3. b \in Setters(job[b].device.id)
        BY <4>1 DEF Setters, Pending
      <4>4. Agrees(docs, job[b].device.id, job[b].device) \/ job[b].device.id \in suspect
        BY <4>1 DEF StaleInv, SettersAgree
      <4>5. \/ docs'[ObjectIDFromHex(job[b].device.id)] = docs[ObjectIDFromHex(job[b].device.id)]
            \/ job[b].device.id \in suspect'
        BY <1>4, <2>1, <4>2, <4>3
      <4> QED
        BY <1>4, <4>1, <4>4, <4>5 DEF Agrees
    <3> QED
      BY <3>1, <3>2
  <2>3. CacheAgrees'
    <3> SUFFICES ASSUME NEW k \in Ids, cache[k] # NoDevice
                 PROVE  Agrees(docs', k, cache'[k]) \/ k \in suspect' \/ Pending(k)' # {}
      BY <1>1 DEF CacheAgrees
    <3>1. Pending(k) \subseteq Pending(k)'
      BY <1>1, <1>4 DEF Pending
    <3>2. Agrees(docs, k, cache[k]) \/ k \in suspect \/ Pending(k) # {}
      BY DEF StaleInv, CacheAgrees
    <3>3. \/ docs'[ObjectIDFromHex(k)] = docs[ObjectIDFromHex(k)]
          \/ k \in suspect' \/ Pending(k)' # {}
      BY <1>4, <2>1
    <3>4. cache'[k] = cache[k] /\ suspect \subseteq suspect'
      BY <1>1, <1>4
    <3>5. CASE docs'[ObjectIDFromHex(k)] = docs[ObjectIDFromHex(k)]
      BY <3>1, <3>2, <3>4, <3>5 DEF Agrees
    <3> QED
      BY <3>3, <3>5
  <2> QED
    BY <2>2, <2>3 DEF StaleInv
<1>5. r.id # BadId => r.id \in Ids
  BY <1>1, RequestIds
<1>6. \A k \in Ids : ObjectIDFromHex(k) \in Matches(r) =>
        \/ k \in Outdated(r)
        \/ Setters(k) = {} /\ (cache[k] = NoDevice \/ k = r.id)
  BY DEF Outdated
<1>7. CASE /\ r.id # BadId /\ r.op = "update" /\ docs' = written
           /\ suspect' = suspect \cup Outdated(r)
           /\ Goto(c, "cacheSet")
           /\ job' = [job EXCEPT ![c].device = [id |-> r.id, name |-> r.name]]
  <2> DEFINE d == [id |-> r.id, name |-> r.name]
             o == ObjectIDFromHex(r.id)
  <2>1. pc'[c] = "cacheSet" /\ job'[c].device = d /\ d.id = r.id
        /\ \A b \in Clients : b # c => pc'[b] = pc[b] /\ job'[b] = job[b]
    BY <1>1, <1>7 DEF IssuedInv, TypeInv, TypeOK, Job, Goto
  <2>2. Agrees(docs', r.id, d) \/ r.id \in suspect'
    <3> SUFFICES ASSUME docs'[o] # NoDevice, r.id \notin suspect'
                 PROVE  d = Shown(docs'[o]) /\ docs'[o].deleted # "true"
      BY DEF Agrees
    <3>1. o \in Oids /\ docs[o] # NoDevice /\ o \in Matches(r)
      BY <1>5, <1>7, Spelling DEF Matches
    <3>2. docs'[o] = SetDevice(docs[o], r) /\ docs[o] \in Doc
      BY <1>7, <3>1 DEF IssuedInv, TypeInv, TypeOK
    <3>3. docs[o].deleted # "true"
      BY <1>5, <1>7, <3>1 DEF Outdated
    <3> QED
      BY <3>2, <3>3 DEF SetDevice, Doc, Shown
  <2>3. \A k : k = r.id => c \in Pending(k)'
    BY <2>1 DEF Pending
  <2> QED
    BY <1>4, <1>5, <1>6, <1>7, <2>1, <2>2, <2>3
<1>8. CASE /\ r.id # BadId /\ r.op = "delete" /\ docs' = written
           /\ suspect' = suspect \cup Outdated(r)
           /\ Goto(c, "cacheDel") /\ job' = job
  <2>1. pc'[c] = "cacheDel" /\ job'[c].req.id = r.id
        /\ \A b \in Clients : b # c => pc'[b] = pc[b] /\ job'[b] = job[b]
    BY <1>8 DEF IssuedInv, TypeInv, TypeOK, Goto
  <2>2. \A k : k = r.id => c \in Pending(k)'
    BY <2>1 DEF Pending
  <2> QED
    BY <1>4, <1>5, <1>6, <1>8, <2>1, <2>2
<1>9. CASE /\ r.id # BadId /\ Fail(c, "mongo")
           /\ docs' = written /\ suspect' = suspect \cup Outdated(r) \cup {r.id}
  <2>1. pc'[c] = "end" /\ \A b \in Clients : b # c => pc'[b] = pc[b] /\ job'[b] = job[b]
    BY <1>9 DEF IssuedInv, TypeInv, TypeOK, Fail, Goto
  <2> QED
    BY <1>4, <1>5, <1>6, <1>9, <2>1
<1> QED
  BY <1>1, <1>2, <1>3, <1>7, <1>8, <1>9 DEF UpdateOne, AfterWrite

\* What is stored agrees unless its id is suspect; a failed write makes it so.
LEMMA CacheWriteStale ==
  ASSUME IssuedInv, StaleInv, NEW c \in Clients, CacheWrite(c) PROVE StaleInv'
<1> DEFINE i == IF pc[c] = "cacheSet" THEN job[c].device.id ELSE job[c].req.id
           d == IF pc[c] = "cacheSet" THEN job[c].device ELSE NoDevice
<1>1. pc[c] \in {"cacheSet", "cacheDel"} /\ docs' = docs /\ i \in Ids
  BY DEF CacheWrite, IssuedInv, TypeInv, JobsFit, Fits, Device
<1>2. pc'[c] = "end" /\ suspect \subseteq suspect'
      /\ \A b \in Clients : b # c => pc'[b] = pc[b] /\ job'[b] = job[b]
  BY DEF CacheWrite, IssuedInv, TypeInv, TypeOK, Fail, Goto
<1>3. \A k \in Ids : k # i => cache'[k] = cache[k] /\ Pending(k)' = Pending(k)
  <2>1. \A k \in Ids : k # i => cache'[k] = cache[k]
    BY DEF CacheWrite, IssuedInv, TypeInv, TypeOK
  <2>2. \A k \in Ids : k # i => c \notin Pending(k) /\ c \notin Pending(k)'
    BY <1>1, <1>2 DEF Pending
  <2>3. \A k \in Ids : \A b \in Clients : b # c => (b \in Pending(k)' <=> b \in Pending(k))
    BY <1>2 DEF Pending
  <2>4. \A k \in Ids : Pending(k) \subseteq Clients /\ Pending(k)' \subseteq Clients
    BY DEF Pending
  <2> QED
    BY <2>1, <2>2, <2>3, <2>4
<1>4. cache'[i] = d \/ i \in suspect'
  BY <1>1 DEF CacheWrite, IssuedInv, TypeInv, TypeOK
<1>5. SettersAgree'
  BY <1>1, <1>2 DEF StaleInv, SettersAgree, Agrees
<1>6. CacheAgrees'
  <2> SUFFICES ASSUME NEW k \in Ids, cache'[k] # NoDevice
               PROVE  Agrees(docs', k, cache'[k]) \/ k \in suspect' \/ Pending(k)' # {}
    BY DEF CacheAgrees
  <2>1. CASE k # i
    BY <1>1, <1>2, <1>3, <2>1 DEF StaleInv, CacheAgrees, Agrees
  <2>2. CASE k = i /\ cache'[i] = d
    BY <1>1, <1>2, <2>2 DEF StaleInv, SettersAgree, Agrees
  <2> QED
    BY <1>4, <2>1, <2>2
<1> QED
  BY <1>5, <1>6 DEF StaleInv

LEMMA ReadStale ==
  ASSUME IssuedInv, StaleInv, NEW c \in Clients,
         CacheGet(c) \/ FindOne(c) \/ List(c) \/ Reply(c)
  PROVE  StaleInv'
<1>1. UNCHANGED <<docs, cache, suspect>>
  BY DEF CacheGet, FindOne, List, Reply, ghosts
<1>2. pc[c] \in {"cacheGet", "find", "list", "end"}
      /\ \E step \in {"end", "find", "idle"} : pc' = [pc EXCEPT ![c] = step]
  BY DEF CacheGet, FindOne, List, Reply, Goto, Fail
<1>3. \E j : job' = [job EXCEPT ![c] = j]
  <2>1. job = [job EXCEPT ![c] = job[c]]
    BY DEF IssuedInv, TypeInv, TypeOK
  <2>2. CASE job' = job
    BY <2>1, <2>2
  <2>3. ASSUME NEW e, job' = [job EXCEPT ![c].err = e] PROVE \E j : job' = [job EXCEPT ![c] = j]
    BY <2>3
  <2>4. ASSUME NEW x, job' = [job EXCEPT ![c].device = x] PROVE \E j : job' = [job EXCEPT ![c] = j]
    BY <2>4
  <2>5. ASSUME NEW x, job' = [job EXCEPT ![c].listed = x] PROVE \E j : job' = [job EXCEPT ![c] = j]
    BY <2>5
  <2> QED
    BY <2>2, <2>3, <2>4, <2>5 DEF CacheGet, FindOne, List, Reply, Fail
<1> QED
  BY <1>1, <1>2, <1>3, StaleMove

LEMMA StaleStep == ASSUME IssuedInv, StaleInv, [Next]_vars PROVE StaleInv'
<1>1. ASSUME NEW c \in Clients, Call(c) \/ Handle(c) \/ Reply(c) PROVE StaleInv'
  BY <1>1, CallStale, InsertOneStale, UpdateOneStale, CacheWriteStale, ReadStale DEF Handle
<1>2. CASE Crash
  <2>1. SettersAgree'
    BY <1>2 DEF Crash, SettersAgree
  <2>2. CacheAgrees'
    BY <1>2 DEF Crash, StaleInv, CacheAgrees, Agrees
  <2> QED
    BY <2>1, <2>2 DEF StaleInv
<1>3. ASSUME NEW i \in Ids, Expire(i) PROVE StaleInv'
  <2>1. UNCHANGED <<docs, pc, job>>
    BY <1>3 DEF Expire, local
  <2>2. cache'[i] = NoDevice /\ \A k \in Ids : k # i => cache'[k] = cache[k]
    BY <1>3 DEF Expire, IssuedInv, TypeInv, TypeOK
  <2>3. \A k \in suspect : k \in suspect' \/ (k = i /\ Setters(i) = {})
    BY <1>3 DEF Expire
  <2>4. SettersAgree'
    <3> SUFFICES ASSUME NEW b \in Clients, pc[b] = "cacheSet"
                 PROVE  Agrees(docs, job[b].device.id, job[b].device) \/ job[b].device.id \in suspect'
      BY <2>1 DEF SettersAgree, Agrees
    <3>1. b \in Setters(job[b].device.id)
      BY DEF Setters, Pending
    <3> QED
      BY <2>3, <3>1 DEF StaleInv, SettersAgree
  <2>5. CacheAgrees'
    <3>1. \A k \in Ids : Pending(k)' = Pending(k)
      BY <2>1 DEF Pending
    <3> QED
      BY <2>1, <2>2, <2>3, <3>1 DEF StaleInv, CacheAgrees, Agrees
  <2> QED
    BY <2>4, <2>5 DEF StaleInv
<1>4. CASE UNCHANGED vars
  BY <1>4 DEF vars, local, ghosts, StaleInv, SettersAgree, CacheAgrees, Agrees, Pending
<1> QED
  BY <1>1, <1>2, <1>3, <1>4 DEF Next

LEMMA StaleInit == Init => StaleInv
BY DEF Init, StaleInv, SettersAgree, CacheAgrees

\* Redis disagrees with a document, or has one that is marked deleted, only while
\* the handler that wrote the document is about to write Redis, or after one of
\* one of the six races, spellings and failures (service.go:44-86, redis.go:27-66).
THEOREM StaleCaused == Spec => []StaleHasCause
<1>1. IssuedInv /\ StaleInv /\ [Next]_vars => (IssuedInv /\ StaleInv)'
  BY IssuedStep, StaleStep
<1>2. IssuedInv /\ StaleInv => StaleHasCause
  BY DEF StaleInv, CacheAgrees, Agrees, StaleHasCause
<1> QED
  BY <1>1, <1>2, IssuedInit, StaleInit, PTL DEF Spec

-----------------------------------------------------------------------------
(* Deleted devices in Redis, when clients know those ids only that they were told. *)

\* About to store the copy of a device that it has created.
Creating(step, j) == step = "cacheSet" /\ j.req.op = "create"

\* The id of such a device is known to nobody else.
CreatorsAlone ==
  \A c \in Clients : Creating(pc[c], job[c]) =>
    /\ Oid(job[c].device) \notin given
    /\ \A b \in Clients \ {c} :
         job[b].device # NoDevice => Oid(job[b].device) # Oid(job[c].device)

\* With the told ids G, a goroutine's request names one of them.
Asks(G, step, j) == step # "idle" /\ j.req.op # "list" /\ j.req.id # BadId => Oid(j.req) \in G

AloneInv ==
  /\ CreatorsAlone
  /\ \A c \in Clients : Asks(given, pc[c], job[c])
  /\ gone \subseteq given

\* One goroutine moves to another step with new local variables.
LEMMA MoveAlone ==
  ASSUME TypeInv, AloneInv, given \subseteq given', gone' \subseteq given',
         NEW c \in Clients, NEW step, NEW j, Asks(given', step, j),
         \A b \in Clients \ {c} : Creating(pc[b], job[b]) =>
           /\ Oid(job[b].device) \notin given'
           /\ j.device # NoDevice => Oid(j.device) # Oid(job[b].device),
         Creating(step, j) =>
           /\ Oid(j.device) \notin given'
           /\ \A b \in Clients \ {c} : job[b].device # NoDevice => Oid(job[b].device) # Oid(j.device),
         pc' = [pc EXCEPT ![c] = step], job' = [job EXCEPT ![c] = j]
  PROVE  AloneInv'
<1>1. pc'[c] = step /\ job'[c] = j
      /\ \A b \in Clients \ {c} : pc'[b] = pc[b] /\ job'[b] = job[b]
  BY DEF TypeInv, TypeOK
<1>2. CreatorsAlone'
  <2> SUFFICES ASSUME NEW b \in Clients, Creating(pc'[b], job'[b])
               PROVE  /\ Oid(job'[b].device) \notin given'
                      /\ \A d \in Clients \ {b} :
                           job'[d].device # NoDevice => Oid(job'[d].device) # Oid(job'[b].device)
    BY DEF CreatorsAlone, Creating
  <2>1. CASE b = c
    BY <1>1, <2>1
  <2>2. CASE b # c
    BY <1>1, <2>2 DEF AloneInv, CreatorsAlone
  <2> QED
    BY <2>1, <2>2
<1>3. ASSUME NEW b \in Clients PROVE Asks(given', pc'[b], job'[b])
  BY <1>1 DEF AloneInv, Asks
<1> QED
  BY <1>2, <1>3 DEF AloneInv, Asks

\* A step that neither tells an id nor gives its goroutine a new device.
LEMMA QuietAlone ==
  ASSUME TypeInv, AloneInv, UNCHANGED <<given, gone>>, NEW c \in Clients, NEW step, NEW j,
         step # "cacheSet", Asks(given, step, j), j.device \in {NoDevice, job[c].device},
         pc' = [pc EXCEPT ![c] = step], job' = [job EXCEPT ![c] = j]
  PROVE  AloneInv'
<1>1. \A b \in Clients \ {c} : Creating(pc[b], job[b]) =>
        /\ Oid(job[b].device) \notin given'
        /\ j.device # NoDevice => Oid(j.device) # Oid(job[b].device)
  BY DEF AloneInv, CreatorsAlone
<1>2. ~Creating(step, j) /\ gone' \subseteq given' /\ given' = given
  BY DEF Creating, AloneInv
<1> QED
  BY <1>1, <1>2, MoveAlone

\* A handler that fails, or goes on with the device it had.
LEMMA SameAlone ==
  ASSUME TypeInv, AloneInv, UNCHANGED <<given, gone>>, NEW c \in Clients, pc[c] # "idle",
         \/ \E e \in Errors : Fail(c, e)
         \/ UNCHANGED job /\ \E step \in {"end", "cacheDel", "find"} : Goto(c, step)
  PROVE  AloneInv'
<1>1. job[c] \in Job /\ Asks(given, pc[c], job[c])
  BY DEF TypeInv, TypeOK, AloneInv
<1>2. ASSUME NEW e \in Errors, Fail(c, e) PROVE AloneInv'
  <2> DEFINE j == [job[c] EXCEPT !.err = e]
  <2>1. j.device = job[c].device /\ j.req = job[c].req
    BY <1>1 DEF Job
  <2>2. Asks(given, "end", j)
    BY <1>1, <2>1 DEF Asks
  <2> QED
    BY <1>2, <2>1, <2>2, QuietAlone DEF Fail, Goto
<1>3. ASSUME UNCHANGED job, NEW step \in {"end", "cacheDel", "find"}, Goto(c, step)
      PROVE  AloneInv'
  <2>1. job' = [job EXCEPT ![c] = job[c]] /\ Asks(given, step, job[c])
    BY <1>1, <1>3 DEF TypeInv, TypeOK, Asks
  <2> QED
    BY <1>3, <2>1, QuietAlone DEF Goto
<1> QED
  BY <1>2, <1>3

LEMMA CallAlone ==
  ASSUME "collection" \notin IdsFrom, TypeInv, AloneInv, NEW c \in Clients, Call(c) PROVE AloneInv'
<1>1. PICK r \in Request : /\ r.op # "list" /\ r.id # BadId => Oid(r) \in given
                           /\ Goto(c, Entry[r.op])
                           /\ job' = [job EXCEPT ![c] = [NoJob EXCEPT !.req = r]]
  BY DEF Call, Known, Oid
<1> DEFINE j == [NoJob EXCEPT !.req = r]
<1>2. j.req = r /\ j.device = NoDevice
  BY DEF NoJob
<1>3. Entry[r.op] # "cacheSet"
  BY RequestKinds DEF Entry
<1>4. Asks(given, Entry[r.op], j) /\ UNCHANGED <<given, gone>>
  BY <1>1, <1>2 DEF Asks, Call, ghosts
<1> QED
  BY <1>1, <1>2, <1>3, <1>4, QuietAlone DEF Goto

\* The id of a new device is drawn anew, so nobody has it.
LEMMA InsertOneAlone ==
  ASSUME IssuedInv, AloneInv, NEW c \in Clients, InsertOne(c) PROVE AloneInv'
<1> DEFINE r == job[c].req
<1>1. pc[c] = "insert" /\ job[c] \in Job /\ UNCHANGED <<given, gone>> /\ TypeInv
      /\ Asks(given, pc[c], job[c]) /\ r \in CreateReq
  BY DEF InsertOne, IssuedInv, TypeInv, TypeOK, JobsFit, Fits, ghosts, AloneInv
<1>2. PICK i \in Oids \ issued :
        \/ job' = [job EXCEPT ![c].device = [id |-> Hex(i), name |-> r.name]] /\ Goto(c, "cacheSet")
        \/ Fail(c, "mongo")
  BY DEF InsertOne, NewId
<1>3. CASE job' = [job EXCEPT ![c].device = [id |-> Hex(i), name |-> r.name]] /\ Goto(c, "cacheSet")
  <2> DEFINE j == [job[c] EXCEPT !.device = [id |-> Hex(i), name |-> r.name]]
  <2>1. Oid(j.device) = i /\ j.req = r
    BY <1>1, Spelling DEF Job, Oid
  <2>2. Asks(given', "cacheSet", j)
    BY <1>1, <2>1 DEF Asks, CreateReq
  <2>3. i \notin given'
    BY <1>1, <1>2 DEF IssuedInv
  <2>4. \A b \in Clients : job[b].device # NoDevice => Oid(job[b].device) # i
    BY <1>2 DEF IssuedInv, JobsKnow, Knows
  <2>5. \A b \in Clients : Creating(pc[b], job[b]) =>
          job[b].device # NoDevice /\ Oid(job[b].device) \notin given
    BY DevicesAssumption DEF Creating, IssuedInv, TypeInv, JobsFit, Fits, AloneInv, CreatorsAlone
  <2>6. gone' \subseteq given' /\ given' = given
    BY <1>1 DEF AloneInv
  <2> QED
    BY <1>1, <1>3, <2>1, <2>2, <2>3, <2>4, <2>5, <2>6, MoveAlone DEF Goto
<1>4. CASE Fail(c, "mongo")
  BY <1>1, <1>4, SameAlone DEF Errors
<1> QED
  BY <1>2, <1>3, <1>4

\* A goroutine takes a device whose id was told.
LEMMA TakesTold ==
  ASSUME TypeInv, AloneInv, UNCHANGED <<given, gone>>, NEW c \in Clients, NEW step, NEW d,
         Oid(d) \in given, pc[c] # "idle", ~Creating(step, job[c]),
         pc' = [pc EXCEPT ![c] = step], job' = [job EXCEPT ![c].device = d]
  PROVE  AloneInv'
<1> DEFINE j == [job[c] EXCEPT !.device = d]
<1>1. j.device = d /\ j.req = job[c].req
  BY DEF TypeInv, TypeOK, Job
<1>2. Asks(given', step, j) /\ ~Creating(step, j)
  BY <1>1 DEF AloneInv, Asks, Creating
<1>3. \A b \in Clients : Creating(pc[b], job[b]) => Oid(job[b].device) \notin given
  BY DEF AloneInv, CreatorsAlone
<1>4. gone' \subseteq given' /\ given' = given
  BY DEF AloneInv
<1> QED
  BY <1>1, <1>2, <1>3, <1>4, MoveAlone

LEMMA UpdateOneAlone ==
  ASSUME TypeInv, AloneInv, NEW c \in Clients, UpdateOne(c) PROVE AloneInv'
<1> DEFINE r == job[c].req
<1>1. pc[c] = "write" /\ r \in UpdateReq \cup DeleteReq /\ UNCHANGED <<given, gone>>
      /\ r.op \in {"update", "delete"} /\ (r.id # BadId => Oid(r) \in given)
  BY DEF UpdateOne, TypeInv, JobsFit, Fits, UpdateReq, DeleteReq, AloneInv, Asks
<1>2. CASE /\ r.id # BadId /\ Goto(c, "cacheSet") /\ r.op = "update"
           /\ job' = [job EXCEPT ![c].device = [id |-> r.id, name |-> r.name]]
  <2> DEFINE d == [id |-> r.id, name |-> r.name]
  <2>1. ~Creating("cacheSet", job[c])
    BY <1>2 DEF Creating
  <2>2. Oid(d) \in given /\ pc' = [pc EXCEPT ![c] = "cacheSet"]
        /\ job' = [job EXCEPT ![c].device = d]
    BY <1>1, <1>2 DEF Goto, Oid
  <2> HIDE DEF d
  <2> QED
    BY <1>1, <2>1, <2>2, TakesTold
<1>3. CASE \/ \E e \in Errors : Fail(c, e)
           \/ UNCHANGED job /\ Goto(c, "cacheDel")
  BY <1>1, <1>3, SameAlone
<1> QED
  BY <1>1, <1>2, <1>3 DEF UpdateOne, AfterWrite, Errors

LEMMA CacheGetAlone ==
  ASSUME IssuedInv, AloneInv, NEW c \in Clients, CacheGet(c) PROVE AloneInv'
<1> DEFINE i == job[c].req.id
<1>1. pc[c] = "cacheGet" /\ UNCHANGED <<given, gone>> /\ TypeInv
      /\ job[c].req \in GetReq /\ (i # BadId => ObjectIDFromHex(i) \in given)
  BY DEF CacheGet, IssuedInv, TypeInv, JobsFit, Fits, ghosts, GetReq, AloneInv, Asks, Oid
<1>2. CASE /\ i \in Ids /\ cache[i] # NoDevice
           /\ job' = [job EXCEPT ![c].device = cache[i]] /\ Goto(c, "end")
  <2>1. Oid(cache[i]) \in given
    BY <1>1, <1>2, DevicesAssumption DEF IssuedInv, CacheIssued, Oid
  <2>2. ~Creating("end", job[c])
    BY DEF Creating
  <2> QED
    BY <1>1, <1>2, <2>1, <2>2, TakesTold DEF Goto
<1>3. CASE Goto(c, "find") /\ UNCHANGED job
  BY <1>1, <1>3, SameAlone
<1> QED
  BY <1>2, <1>3 DEF CacheGet

LEMMA ListAlone ==
  ASSUME TypeInv, AloneInv, NEW c \in Clients, List(c) PROVE AloneInv'
<1> DEFINE S == {o \in Oids : docs[o] # NoDevice /\ docs[o].deleted = "false"}
           j == [job[c] EXCEPT !.listed = S]
<1>1. pc[c] = "list" /\ job[c] \in Job /\ UNCHANGED <<given, gone>> /\ Asks(given, pc[c], job[c])
  BY DEF List, TypeInv, TypeOK, ghosts, AloneInv
<1>2. CASE job' = [job EXCEPT ![c].listed = S] /\ Goto(c, "end")
  <2>1. j.device = job[c].device /\ j.req = job[c].req
    BY <1>1 DEF Job
  <2>2. Asks(given, "end", j)
    BY <1>1, <2>1 DEF Asks
  <2> QED
    BY <1>1, <1>2, <2>1, <2>2, QuietAlone DEF Goto
<1>3. CASE Fail(c, "mongo")
  BY <1>1, <1>3, SameAlone DEF Errors
<1> QED
  BY <1>2, <1>3 DEF List

LEMMA ReplyAlone ==
  ASSUME TypeInv, AloneInv, NEW c \in Clients, Reply(c) PROVE AloneInv'
<1>1. pc[c] = "end" /\ Asks(given, pc[c], job[c]) /\ Fits(pc[c], job[c])
      /\ given \subseteq given' /\ pc' = [pc EXCEPT ![c] = "idle"]
      /\ job' = [job EXCEPT ![c] = NoJob]
  BY DEF Reply, TypeInv, JobsFit, AloneInv, Goto
<1>2. gone' \subseteq given'
  <2>1. job[c].err = "none" /\ job[c].req.op = "delete" => Oid(job[c].req) \in given
    BY <1>1, DevicesAssumption DEF Fits, Asks
  <2> QED
    BY <1>1, <2>1 DEF Reply, AloneInv, Oid
<1>3. \A b \in Clients \ {c} : Creating(pc[b], job[b]) => Oid(job[b].device) \notin given'
  BY DEF Reply, AloneInv, CreatorsAlone, Oid
<1>4. Asks(given', "idle", NoJob) /\ ~Creating("idle", NoJob)
  BY DEF Asks, Creating
<1> QED
  BY <1>1, <1>2, <1>3, <1>4, NoJobType, MoveAlone

LEMMA AloneStep ==
  ASSUME "collection" \notin IdsFrom, IssuedInv, IdsInv, AloneInv, [Next]_vars PROVE AloneInv'
<1>1. TypeInv
  BY DEF IssuedInv
<1>2. ASSUME NEW c \in Clients, CacheWrite(c) PROVE AloneInv'
  BY <1>1, <1>2, SameAlone DEF CacheWrite, Errors
<1>3. ASSUME NEW c \in Clients, FindOne(c) PROVE AloneInv'
  <2>1. job[c].req.id # BadId => Matches(job[c].req) = {}
    BY <1>1, <1>3, NoMatch DEF FindOne
  <2> QED
    BY <1>1, <1>3, <2>1, SameAlone DEF FindOne, Errors, ghosts
<1>4. ASSUME NEW c \in Clients, Call(c) \/ Handle(c) \/ Reply(c) PROVE AloneInv'
  BY <1>1, <1>2, <1>3, <1>4, CallAlone, InsertOneAlone, UpdateOneAlone, CacheGetAlone,
     ListAlone, ReplyAlone DEF Handle
<1>5. CASE Crash
  BY <1>5 DEF Crash, AloneInv, CreatorsAlone, Creating, Asks
<1>6. CASE (\E i \in Ids : Expire(i)) \/ UNCHANGED vars
  <2>1. UNCHANGED <<pc, job, given, gone>>
    BY <1>6 DEF Expire, vars, local, ghosts
  <2> QED
    BY <2>1 DEF AloneInv, CreatorsAlone, Creating, Asks
<1> QED
  BY <1>4, <1>5, <1>6 DEF Next

LEMMA AloneInit == Init => AloneInv
BY DEF Init, AloneInv, CreatorsAlone, Creating, Asks

\* When clients use the ids they were told, a device whose deletion was answered
\* comes back to Redis by an UpdateDevice only (service.go:44-58): a creation stores
\* its copy before anyone is told the id that a deletion would need.
THEOREM UpdatesRevive == ASSUME "collection" \notin IdsFrom PROVE Spec => OnlyUpdatesRevive
<1>1. ASSUME IssuedInv, AloneInv, [Next]_vars, NEW i \in Ids,
             ObjectIDFromHex(i) \in gone, cache[i] = NoDevice, cache'[i] # NoDevice
      PROVE  \E c \in Clients : /\ pc[c] = "cacheSet"
                                /\ job[c].req.op = "update" /\ job[c].req.id = i
  <2>1. ASSUME cache' = cache PROVE FALSE
    BY <1>1, <2>1
  <2>2. ASSUME NEW k \in Ids, Expire(k) PROVE FALSE
    BY <1>1, <2>2 DEF Expire, IssuedInv, TypeInv, TypeOK
  <2>3. PICK c \in Clients : CacheWrite(c)
    <3>1. (\E c \in Clients : CacheWrite(c)) \/ cache' = cache \/ \E k \in Ids : Expire(k)
      BY <1>1 DEF Next, Handle, Call, InsertOne, UpdateOne, CacheGet, FindOne, List, Reply,
                  Crash, vars
    <3> QED
      BY <2>1, <2>2, <3>1
  <2>4. pc[c] = "cacheSet" /\ job[c].device.id = i
    BY <1>1, <2>3 DEF CacheWrite, IssuedInv, TypeInv, TypeOK
  <2>5. ~Creating(pc[c], job[c])
    BY <1>1, <2>4 DEF AloneInv, CreatorsAlone, Oid
  <2>6. job[c].req \in UpdateReq /\ job[c].req.op = "update"
    <3>1. job[c].req \in CreateReq \cup UpdateReq
      BY <1>1, <2>4 DEF IssuedInv, TypeInv, JobsFit, Fits
    <3> QED
      BY <2>4, <2>5, <3>1 DEF Creating, CreateReq, UpdateReq
  <2>7. job[c].req.id = i
    BY <1>1, <2>4, <2>6 DEF IssuedInv, JobsKnow, Knows
  <2> QED
    BY <2>4, <2>6, <2>7
<1>2. IssuedInv /\ AloneInv /\ [Next]_vars =>
        [\A i \in Ids :
           ObjectIDFromHex(i) \in gone /\ cache[i] = NoDevice /\ cache'[i] # NoDevice =>
           \E c \in Clients : /\ pc[c] = "cacheSet"
                              /\ job[c].req.op = "update" /\ job[c].req.id = i]_vars
  BY <1>1
<1>3. IssuedInv /\ TypeInv /\ IdsInv /\ AloneInv /\ [Next]_vars => AloneInv'
  BY AloneStep
<1> QED
  BY <1>2, <1>3, AloneInit, AlwaysIssued, AlwaysApart, PTL DEF Spec, OnlyUpdatesRevive

=============================================================================
