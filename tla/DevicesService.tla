---------------------------- MODULE DevicesService ----------------------------
(***************************************************************************)
(* The DEVICES service: the handlers that gRPC clients (and, with a request *)
(* that names no device, the queue consumers) call, the Mongo collection    *)
(* they write and the Redis cache in front of it.                           *)
(*                                                                          *)
(* A device has two ids.  CreateDevice gives it one in the field "id" and   *)
(* tells the client that one; the Mongo driver adds another, "_id", by      *)
(* which every later query looks the document up.                           *)
(*                                                                          *)
(* An id of a request is a string.  Mongo is asked for the ObjectID that it *)
(* spells, in upper case, lower case or both; Redis is asked for the string *)
(* itself.                                                                  *)
(*                                                                          *)
(* One step is one call of a handler to Mongo or Redis.                     *)
(***************************************************************************)
EXTENDS Naturals, FiniteSets

CONSTANTS
  Oids,       \* ObjectIDs; bounds how many devices are ever created
  Cases,      \* the ways to spell an ObjectID, "lower" among them
  BadId,      \* a string that is no ObjectID, the empty one among others
  Names,      \* contents of a device: name, type, status and location
  NoDevice,   \* no document, no cache entry, no local value
  NoRequest,  \* no request
  Clients,    \* gRPC handler goroutines
  Ops,        \* the operations that clients call
  IdsFrom,    \* where clients have ids from: the answers, the collection's _ids, or both
  MaxFaults,  \* bound: Mongo or Redis calls that fail
  MaxCrashes  \* bound: crashes of the process

\* The strings that spell an ObjectID.
Ids == Oids \X Cases

\* The ObjectID that a string spells, whatever the case of its letters.
ObjectIDFromHex(i) == i[1]

\* The string that an ObjectID is written as.
Hex(o) == <<o, "lower">>

Device == [id : Ids, name : Names]

\* A stored device; "deleted" is a field that CreateDevice does not write.
Doc == [id : Ids, name : Names, deleted : {"absent", "true", "false"}]

CreateReq == [op : {"create"}, id : Ids \cup {BadId}, name : Names]
UpdateReq == [op : {"update"}, id : Ids \cup {BadId}, name : Names]
DeleteReq == [op : {"delete"}, id : Ids \cup {BadId}]
GetReq    == [op : {"get"}, id : Ids \cup {BadId}]
ListReq   == [op : {"list"}]
Request   == CreateReq \cup UpdateReq \cup DeleteReq \cup GetReq \cup ListReq

ASSUME DevicesAssumption ==
  /\ "lower" \in Cases
  /\ BadId \notin Ids
  /\ NoDevice \notin Device /\ NoDevice \notin Doc
  /\ NoRequest \notin Request
  /\ Ops \subseteq {"create", "update", "delete", "get", "list"}
  /\ IdsFrom \subseteq {"answers", "collection"}
  /\ MaxFaults \in Nat /\ MaxCrashes \in Nat

VARIABLES
  docs,     \* the collection: _id -> document
  cache,    \* Redis: string -> device
  issued,   \* ObjectIDs generated so far
  given,    \* ObjectIDs that an answer has told a client
  pc,       \* goroutine -> the call it makes next
  job,      \* goroutine -> its local variables
  faults,   \* failed calls so far
  crashes,  \* crashes so far
  \* History, read by no guard:
  gone,     \* ObjectIDs whose deletion has been answered without an error
  suspect   \* strings whose cache entry a named race or failure may have left stale

local  == <<pc, job>>
budget == <<faults, crashes>>
ghosts == <<gone, suspect>>
vars   == <<docs, cache, issued, given, local, budget, ghosts>>

-----------------------------------------------------------------------------
Steps  == {"idle", "insert", "write", "cacheSet", "cacheDel", "cacheGet", "find",
           "list", "end"}
Errors == {"none", "badId", "mongo", "redis", "notFound"}

Job   == [req : Request \cup {NoRequest}, device : Device \cup {NoDevice},
          listed : SUBSET Oids, err : Errors]
NoJob == [req |-> NoRequest, device |-> NoDevice, listed |-> {}, err |-> "none"]

TypeOK ==
  /\ docs \in [Oids -> Doc \cup {NoDevice}]
  /\ cache \in [Ids -> Device \cup {NoDevice}]
  /\ issued \subseteq Oids /\ given \subseteq Oids
  /\ pc \in [Clients -> Steps]
  /\ job \in [Clients -> Job]
  /\ faults \in 0 .. MaxFaults /\ crashes \in 0 .. MaxCrashes
  /\ gone \subseteq Oids /\ suspect \subseteq Ids

Init ==
  /\ docs = [o \in Oids |-> NoDevice]
  /\ cache = [i \in Ids |-> NoDevice]
  /\ issued = {} /\ given = {}
  /\ pc = [c \in Clients |-> "idle"]
  /\ job = [c \in Clients |-> NoJob]
  /\ faults = 0 /\ crashes = 0
  /\ gone = {} /\ suspect = {}

-----------------------------------------------------------------------------
(* Helpers *)

Goto(c, step) == pc' = [pc EXCEPT ![c] = step]

\* The handler returns an error.
Fail(c, e) ==
  /\ Goto(c, "end")
  /\ job' = [job EXCEPT ![c].err = e]

CallFails ==
  /\ faults < MaxFaults
  /\ faults' = faults + 1

\* The id of the request is kept where it should be replaced, or none is set.
KeepId(r, i) == IF r.id # BadId THEN r.id ELSE Hex(i)
ForgetId(r, i) == BadId

\* The id of a new device: a new ObjectID, whatever the request says.
NewId(r, i) == Hex(i)

\* The lookup by the field "id" that the clients' ids would need.
ById(r) == {o \in Oids : docs[o] # NoDevice /\ docs[o].id = r.id}

\* The documents the filter {"_id": id} finds, id being what the request's string
\* spells.
Matches(r) == {o \in Oids : docs[o] # NoDevice /\ o = ObjectIDFromHex(r.id)}

\* An update that carries the model's "deleted" with it.
SetAll(d, r) == [id |-> r.id, name |-> r.name, deleted |-> "false"]

\* {"$set": device}: every field of the request's device, "deleted" is none of them.
SetDevice(d, r) == [d EXCEPT !.id = r.id, !.name = r.name]

\* What a document looks like to a client.
Shown(d) == [id |-> d.id, name |-> d.name]

\* Goroutines about to change what Redis holds under id i.
Pending(i) ==
  {c \in Clients : \/ pc[c] = "cacheSet" /\ job[c].device.id = i
                   \/ pc[c] = "cacheDel" /\ job[c].req.id = i}

Setters(i) == {c \in Pending(i) : pc[c] = "cacheSet"}

-----------------------------------------------------------------------------
(* The handlers *)

Entry == [create |-> "insert", update |-> "write", delete |-> "write",
          get |-> "cacheGet", list |-> "list"]

\* Bound: two ObjectIDs are left for every creation under way and one more.
Room == Cardinality(Oids \ issued) >= 2 + 2 * Cardinality({c \in Clients : pc[c] = "insert"})

\* The strings a client may name: every spelling of an id it was told or reads in
\* the collection.
Known ==
  {BadId} \cup {i \in Ids :
    \/ "answers" \in IdsFrom /\ ObjectIDFromHex(i) \in given
    \/ "collection" \in IdsFrom /\ docs[ObjectIDFromHex(i)] # NoDevice}

Call(c) ==
  /\ pc[c] = "idle"
  /\ \E r \in Request :
       /\ r.op \in Ops
       /\ r.op # "list" => r.id \in Known
       /\ r.op = "create" => Room
       /\ Goto(c, Entry[r.op])
       /\ job' = [job EXCEPT ![c] = [NoJob EXCEPT !.req = r]]
  /\ UNCHANGED <<docs, cache, issued, given, budget, ghosts>>

\* CreateDevice: the service draws the device's id, the driver the _id.
InsertOne(c) ==
  LET r == job[c].req IN
  /\ pc[c] = "insert"
  /\ \E i, o \in Oids \ issued :
       LET d    == [id |-> NewId(r, i), name |-> r.name]
           with == [docs EXCEPT ![o] = [id |-> d.id, name |-> d.name, deleted |-> "absent"]]
       IN
       /\ i # o
       /\ issued' = issued \cup {i, o}
       /\ \/ /\ docs' = with
             /\ job' = [job EXCEPT ![c].device = d]
             /\ Goto(c, "cacheSet")
             /\ UNCHANGED faults
          \/ /\ CallFails
             /\ docs' \in {docs, with}
             /\ Fail(c, "mongo")
  /\ UNCHANGED <<cache, given, crashes, ghosts>>

\* The strings under which Redis may be left with something else than what a
\* write stores: another handler is about to store its own copy there, or there
\* is a copy under another spelling, or the document updated is marked deleted.
Outdated(r) ==
  {i \in Ids :
     /\ ObjectIDFromHex(i) \in Matches(r)
     /\ \/ Setters(i) # {}
        \/ i # r.id /\ cache[i] # NoDevice
        \/ i = r.id /\ r.op = "update" /\ docs[ObjectIDFromHex(i)].deleted = "true"}

\* DeleteDevice leaves Redis to its expiry.
SkipDelete == [update |-> "cacheSet", delete |-> "end"]

\* UpdateDevice refreshes Redis, DeleteDevice clears it.
AfterWrite == [update |-> "cacheSet", delete |-> "cacheDel"]

\* UpdateOne of UpdateDevice and of DeleteDevice; that it modified nothing is
\* only logged.
UpdateOne(c) ==
  LET r       == job[c].req
      New(d)  == IF r.op = "update" THEN SetDevice(d, r) ELSE [d EXCEPT !.deleted = "true"]
      written == [o \in Oids |-> IF o \in Matches(r) THEN New(docs[o]) ELSE docs[o]]
  IN
  /\ pc[c] = "write"
  /\ \/ /\ r.id = BadId
        /\ Fail(c, "badId")
        /\ UNCHANGED <<docs, faults, suspect>>
     \/ /\ r.id # BadId
        /\ docs' = written
        /\ suspect' = suspect \cup Outdated(r)
        /\ Goto(c, AfterWrite[r.op])
        /\ job' = IF r.op = "update"
                  THEN [job EXCEPT ![c].device = [id |-> r.id, name |-> r.name]] ELSE job
        /\ UNCHANGED faults
     \/ /\ r.id # BadId
        /\ CallFails
        /\ Fail(c, "mongo")
        /\ \/ docs' = written /\ suspect' = suspect \cup Outdated(r) \cup {r.id}
           \/ UNCHANGED <<docs, suspect>>
  /\ UNCHANGED <<cache, issued, given, crashes, gone>>

\* StoreDeviceInRedis and DeleteDeviceFromRedis.
CacheWrite(c) ==
  LET i   == IF pc[c] = "cacheSet" THEN job[c].device.id ELSE job[c].req.id
      new == [cache EXCEPT ![i] = IF pc[c] = "cacheSet" THEN job[c].device ELSE NoDevice]
  IN
  /\ pc[c] \in {"cacheSet", "cacheDel"}
  /\ \/ /\ cache' = new
        /\ Goto(c, "end")
        /\ UNCHANGED <<job, faults, suspect>>
     \/ /\ CallFails
        /\ cache' \in {cache, new}
        /\ Fail(c, "redis")
        /\ suspect' = suspect \cup {i}
  /\ UNCHANGED <<docs, issued, given, crashes, gone>>

\* GetDevice asks Redis first and falls through to Mongo on a miss or an error.
CacheGet(c) ==
  LET i   == job[c].req.id
      hit == i \in Ids /\ cache[i] # NoDevice
  IN
  /\ pc[c] = "cacheGet"
  /\ \/ hit /\ job' = [job EXCEPT ![c].device = cache[i]] /\ Goto(c, "end") /\ UNCHANGED faults
     \/ ~hit /\ Goto(c, "find") /\ UNCHANGED <<job, faults>>
     \/ CallFails /\ Goto(c, "find") /\ UNCHANGED job
  /\ UNCHANGED <<docs, cache, issued, given, crashes, ghosts>>

\* GetDevice: FindOne by _id, whether or not the document is marked deleted.
FindOne(c) ==
  LET r == job[c].req IN
  /\ pc[c] = "find"
  /\ \/ r.id = BadId /\ Fail(c, "badId") /\ UNCHANGED faults
     \/ /\ r.id # BadId
        /\ \E o \in Matches(r) : job' = [job EXCEPT ![c].device = Shown(docs[o])]
        /\ Goto(c, "end")
        /\ UNCHANGED faults
     \/ /\ r.id # BadId /\ Matches(r) = {}
        /\ Fail(c, "notFound")
        /\ UNCHANGED faults
     \/ r.id # BadId /\ CallFails /\ Fail(c, "mongo")
  /\ UNCHANGED <<docs, cache, issued, given, crashes, ghosts>>

\* GetAllDevices: Find with the filter {"deleted": false}, which a document
\* without the field does not pass.
List(c) ==
  /\ pc[c] = "list"
  /\ \/ /\ job' = [job EXCEPT ![c].listed =
                     {o \in Oids : docs[o] # NoDevice /\ docs[o].deleted = "false"}]
        /\ Goto(c, "end")
        /\ UNCHANGED faults
     \/ CallFails /\ Fail(c, "mongo")
  /\ UNCHANGED <<docs, cache, issued, given, crashes, ghosts>>

\* The answer; with an error it carries no device.
Reply(c) ==
  LET j == job[c] IN
  /\ pc[c] = "end"
  /\ given' = IF j.err = "none" /\ j.device # NoDevice
              THEN given \cup {ObjectIDFromHex(j.device.id)} ELSE given
  /\ gone' = IF j.err = "none" /\ j.req.op = "delete"
             THEN gone \cup {ObjectIDFromHex(j.req.id)} ELSE gone
  /\ Goto(c, "idle")
  /\ job' = [job EXCEPT ![c] = NoJob]
  /\ UNCHANGED <<docs, cache, issued, budget, suspect>>

-----------------------------------------------------------------------------
\* The process ends, for one because the deletion consumer panics, and starts
\* again.
Crash ==
  /\ crashes < MaxCrashes
  /\ crashes' = crashes + 1
  /\ pc' = [c \in Clients |-> "idle"]
  /\ job' = [c \in Clients |-> NoJob]
  /\ suspect' = suspect \cup {i \in Ids : Pending(i) # {}}
  /\ UNCHANGED <<docs, cache, issued, given, faults, gone>>

\* A cached device lives 24 hours.
Expire(i) ==
  /\ cache[i] # NoDevice
  /\ cache' = [cache EXCEPT ![i] = NoDevice]
  /\ suspect' = IF Setters(i) = {} THEN suspect \ {i} ELSE suspect
  /\ UNCHANGED <<docs, issued, given, local, budget, gone>>

Handle(c) ==
  \/ InsertOne(c) \/ UpdateOne(c) \/ CacheWrite(c) \/ CacheGet(c) \/ FindOne(c) \/ List(c)

Next ==
  \/ \E c \in Clients : Call(c) \/ Handle(c) \/ Reply(c)
  \/ \E i \in Ids : Expire(i)
  \/ Crash

Spec == Init /\ [][Next]_vars

-----------------------------------------------------------------------------
(* Properties *)

\* Every device a client has been told of is in the collection, exactly once:
\* CreateDevice answers after InsertOne only, and with an id nobody else has,
\* across failed calls and crashes.
GivenIsStored ==
  \A i \in given :
    Cardinality({o \in Oids : docs[o] # NoDevice /\ ObjectIDFromHex(docs[o].id) = i}) = 1

\* Clients that use the ids they were told never change the collection once a
\* device is in it: UpdateDevice and DeleteDevice look for another id, and what
\* they do is seen in Redis only, for as long as it is kept there.
ApiLeavesCollection ==
  [][\A o \in Oids : docs[o] # NoDevice => docs'[o] = docs[o]]_vars

\* A device whose deletion was answered comes to Redis again, under any spelling
\* of its id, by an UpdateDevice only, one that was under way or one made later:
\* it is no error there that the device does not exist.
OnlyUpdatesRevive ==
  [][\A i \in Ids :
       ObjectIDFromHex(i) \in gone /\ cache[i] = NoDevice /\ cache'[i] # NoDevice =>
         \E c \in Clients : /\ pc[c] = "cacheSet"
                            /\ job[c].req.op = "update" /\ job[c].req.id = i]_vars

\* A document marked deleted stays so: an update that races with the deletion
\* writes all fields but that one.
DeletionSticks ==
  [][\A o \in Oids : docs[o] # NoDevice /\ docs[o].deleted = "true" =>
       docs'[o] # NoDevice /\ docs'[o].deleted = "true"]_vars

\* Redis disagrees with the document of that _id, or holds a device whose
\* document is marked deleted, only while the handler that wrote the document is
\* about to write Redis, or after one of six things: a write that committed while
\* another handler was about to store its copy, a write of the device under
\* another spelling of its id, a write of Redis that failed, an UpdateOne that was
\* applied and reported an error, a process that ended before it wrote Redis, an
\* update of a device already deleted.
StaleHasCause ==
  \A i \in Ids :
    LET d == docs[ObjectIDFromHex(i)] IN
    /\ d # NoDevice /\ cache[i] # NoDevice
    /\ cache[i] # Shown(d) \/ d.deleted = "true"
    => i \in suspect \/ Pending(i) # {}

(* What the documentation of the API says. *)

\* "Update an existing device": the update that is answered without an error
\* concerns a device that exists.
UpdateFindsDevice ==
  \A c \in Clients :
    pc[c] = "end" /\ job[c].err = "none" /\ job[c].req # NoRequest /\ job[c].req.op = "update"
      => \E o \in Oids :
           /\ docs[o] # NoDevice /\ docs[o].name = job[c].req.name
           /\ ObjectIDFromHex(docs[o].id) = ObjectIDFromHex(job[c].req.id)

=============================================================================
