------------------------------- MODULE Calls -------------------------------
(***************************************************************************)
(* The synchronous half of the system: HTTP requests pass the gateway's    *)
(* middleware and handlers and become gRPC calls to USERS and DEVICES,     *)
(* which programs with the gateway's stubs may also call directly.  The    *)
(* gateway encodes with its copy of the protocol and the services decode   *)
(* with theirs; connections break and services die in the middle of calls; *)
(* tokens come from LoginUser and expire.                                  *)
(*                                                                         *)
(* What the handlers of the services do to their data is in UsersService   *)
(* and DevicesService.  The routes that publish messages are in Gateway.   *)
(***************************************************************************)
EXTENDS Wire

G == INSTANCE GatewayProtos
S == INSTANCE ServiceProtos

CONSTANTS
  Web,       \* HTTP clients
  Programs,  \* programs that call by gRPC
  Called,    \* bound: the methods that they call
  Tokens,    \* bound: the tokens that USERS ever issues
  NoToken,
  NotUtf8    \* a string that is not UTF-8

ASSUME CallsAssumption ==
  /\ Web \cap Programs = {}
  /\ NoToken \notin Tokens
  /\ Called \subseteq DOMAIN G!UsersServiceClient \cup DOMAIN G!DeviceServiceClient

VARIABLES
  job,      \* for each client: its request or call, as far as it has come
  up,       \* for each service: it is running, and the gateway is connected
  issued,   \* the tokens that LoginUser has generated
  expired,  \* those more than 24 hours old
  held      \* for each HTTP client: the token of its last login

vars == <<job, up, issued, expired, held>>

Clients  == Web \cup Programs
Services == {"users", "devices"}

-----------------------------------------------------------------------------
(* Both copies of the protocol *)

\* Those of USERS and those of DEVICES.
Both(f, g) == [x \in DOMAIN f \cup DOMAIN g |-> IF x \in DOMAIN f THEN f[x] ELSE g[x]]

Client        == Both(G!UsersServiceClient, G!DeviceServiceClient)
FullNames     == Both(G!UsersService_FullMethodNames, G!DeviceService_FullMethodNames)
ClientSchema  == Both(G!UsersTypes, G!DevicesTypes)
Description   == Both(S!UsersService_ServiceDesc, S!DeviceService_ServiceDesc)
Handlers      == Both(S!UsersServiceHandlers, S!DeviceServiceHandlers)
Server        == Both(S!UsersServiceServer, S!DeviceServiceServer)
ServerSchema  == Both(S!UsersTypes, S!DevicesTypes)

\* The connection that a stub was made with.
Service(m) == IF m \in DOMAIN G!UsersServiceClient THEN "users" ELSE "devices"

\* The methods that the services describe, and the handler of each.
Described == {m \in DOMAIN Client : FullNames[m] \in DOMAIN Description}
Handler(m) == Description[FullNames[m]]

\* What becomes of the fields of a request between the client's copy and the
\* service's, and of those of a response on the way back.
RequestCarry ==
  [m \in Described |->
     Carry(ClientSchema, Client[m].in, ServerSchema, Handlers[Handler(m)])]
ResponseCarry ==
  [m \in Described |->
     Carry(ServerSchema, Server[Handler(m)], ClientSchema, Client[m].out)]

\* The messages that clients may send, and those that methods return; lists may be
\* empty, and a deletion may find nothing.
Requests == [m \in DOMAIN Client |-> Variants(ClientSchema, Client[m].in)]
Responses ==
  [m \in DOMAIN Client |->
     {Full(ServerSchema, Server[m])} \cup
       IF m \in {"GetAllUsers", "GetUsersByAddress", "DeleteDevice", "GetAllDevices"}
       THEN {{}} ELSE {}]

Readable(msg) == \A l \in msg : l.value # NotUtf8

-----------------------------------------------------------------------------
(* The routes of the gateway that call once and answer *)

Routes == {"LoginUser", "GetAllUsers", "CreateDevice", "UpdateDevice",
           "GetDevice", "DeleteDevice", "GetAllDevices"}

\* Those behind AuthMiddleware.
Guarded == Routes \ {"LoginUser"}

\* Those that read a JSON body, and a query.
Binding == {"LoginUser", "CreateDevice", "UpdateDevice"}
Querying == {"GetAllDevices"}

IdPath(r) == IF r = "UpdateDevice" THEN <<"device", "id">> ELSE <<"id">>

\* The message that the handler makes of the body or the query and the path.
Message(r, body, id) ==
  IF r \in {"UpdateDevice", "GetDevice", "DeleteDevice"}
  THEN {l \in body : l.path # IdPath(r)} \cup {[path |-> IdPath(r), value |-> id]}
  ELSE body

\* A body that is not JSON.
Malformed == {Leaf(<<>>)}

Bodies(r) ==
  IF r \in Binding THEN Requests[r] \cup {Malformed}
  ELSE IF r \in Querying THEN Requests[r] ELSE {{}}

Headers(c) == {"none", "noBearer", "forged", held[c]}

\* A middleware that does not look at the expiry.
AcceptsAnyAge(h) == h \in issued

\* The header is there, it begins with "Bearer ", and ValidateToken finds the
\* signature of the common key and an expiry that is still to come.
Accepts(h) == h \in issued \ expired

-----------------------------------------------------------------------------
Idle ==
  [pc |-> "idle", method |-> "none", header |-> "none", late |-> FALSE,
   id |-> <<>>, msg |-> {}, got |-> {}, ran |-> 0, outcome |-> "none",
   reply |-> {}, seen |-> {}, status |-> "none"]

Init ==
  /\ job = [c \in Clients |-> Idle]
  /\ up \in [Services -> BOOLEAN]
  /\ issued = {} /\ expired = {}
  /\ held = [c \in Web |-> NoToken]

PCs == {"idle", "auth", "handle", "invoke", "wire", "running", "reply", "answered"}
Statuses == {"none", "ok", "error", "unauthorized", "badRequest", "recovered"}

\* The types of the variables; a job has a status if and only if it is answered.
TypeOK ==
  /\ \A c \in Clients :
       /\ job[c].pc \in PCs /\ job[c].status \in Statuses
       /\ (job[c].status = "none") <=> (job[c].pc # "answered")
       /\ job[c].method \in DOMAIN Client \cup {"none"}
       /\ job[c].late \in BOOLEAN /\ job[c].ran \in Nat
       /\ job[c].outcome \in {"none", "ok", "error"}
  /\ up \in [Services -> BOOLEAN]
  /\ expired \subseteq issued /\ issued \subseteq Tokens
  /\ held \in [Web -> Tokens \cup {NoToken}]

Set(c, j) == job' = [job EXCEPT ![c] = j]
At(c, pc) == job[c].pc = pc
Answered(j, status) == [j EXCEPT !.pc = "answered", !.status = status]

\* A middleware that forgets to abort.
AfterRefusalGoesOn == "handle"

\* c.Abort
AfterRefusal == "answered"

-----------------------------------------------------------------------------
(* Requests *)

\* A request to one of the routes.  GET and DELETE have their id in the path.
Http(c) ==
  /\ At(c, "idle")
  /\ \E r \in Routes, h \in Headers(c) :
     \E body \in Bodies(r), id \in {IdPath(r), NotUtf8} :
       /\ r = "LoginUser" => h = "none"
       /\ id = NotUtf8 => r \in {"GetDevice", "DeleteDevice", "UpdateDevice"}
       /\ Set(c, [Idle EXCEPT !.pc = "auth", !.method = r, !.header = h,
                              !.late = h \in expired, !.id = id, !.msg = body])
  /\ UNCHANGED <<up, issued, expired, held>>

\* A program calls a method of the stubs.  Neither service asks who calls.
Direct(c) ==
  /\ At(c, "idle")
  /\ \E m \in Called : \E msg \in Requests[m] :
       Set(c, [Idle EXCEPT !.pc = "invoke", !.method = m, !.msg = msg])
  /\ UNCHANGED <<up, issued, expired, held>>

\* AuthMiddleware, on the guarded routes.
Authorize(c) ==
  /\ At(c, "auth")
  /\ IF job[c].method \in Guarded => Accepts(job[c].header)
     THEN Set(c, [job[c] EXCEPT !.pc = "handle"])
     ELSE Set(c, [job[c] EXCEPT !.pc = AfterRefusal, !.status = "unauthorized"])
  /\ UNCHANGED <<up, issued, expired, held>>

\* The handler makes its message.  UpdateDevice sets the id of a device that
\* the body may not have; gin recovers from the panic and answers.
Handle(c) ==
  LET j == job[c] IN
  /\ At(c, "handle")
  /\ Set(c, IF j.msg = Malformed THEN Answered(j, "badRequest")
            ELSE IF j.method = "UpdateDevice" /\ <<"device">> \notin {l.path : l \in j.msg}
            THEN Answered(j, "recovered")
            ELSE [j EXCEPT !.pc = "invoke", !.msg = Message(j.method, j.msg, j.id)])
  /\ UNCHANGED <<up, issued, expired, held>>

-----------------------------------------------------------------------------
(* gRPC *)

\* A client with WaitForReady.
NeverFails(s) == FALSE

\* No call waits for a connection.
FailsFast(s) == ~up[s]

\* Invoke: a message that cannot be encoded, or a service that is not there, is
\* an error at once.
Invoke(c) ==
  LET j == job[c] IN
  /\ At(c, "invoke")
  /\ \/ (~Readable(j.msg) \/ FailsFast(Service(j.method)))
        /\ Set(c, Answered(j, "error"))
     \/ Readable(j.msg) /\ up[Service(j.method)]
        /\ Set(c, [j EXCEPT !.pc = "wire"])
  /\ UNCHANGED <<up, issued, expired, held>>

\* The server finds the method by its name, decodes, and calls the handler; a
\* method that the service does not describe is an error.
Dispatch(c) ==
  LET j == job[c] IN
  /\ At(c, "wire")
  /\ Set(c, IF j.method \in Described
            THEN [j EXCEPT !.pc = "running", !.ran = @ + 1,
                           !.got = Received(RequestCarry[j.method], j.msg)]
            ELSE [j EXCEPT !.pc = "reply", !.outcome = "error"])
  /\ UNCHANGED <<up, issued, expired, held>>

InFlight(s) == {c \in Clients : /\ job[c].pc \in {"wire", "running", "reply"}
                                /\ Service(job[c].method) = s}

\* A client that sends the call again.
LostRetried(j) == [j EXCEPT !.pc = "wire"]

\* What becomes of a call whose connection breaks.
Lost(j) == Answered(j, "error")

\* The calls in flight fail, but for replies that have already arrived.
Break(s) ==
  \E kept \in SUBSET {c \in InFlight(s) : At(c, "reply")} :
    job' = [c \in Clients |-> IF c \in InFlight(s) \ kept THEN Lost(job[c]) ELSE job[c]]

Has(msg, path) == path = <<>> \/ path \in {l.path : l \in msg}

\* The nested messages whose fields a handler reads without asking for them.
Needs(m) ==
  CASE m = "RegisterUser" -> <<"profile">>
    [] m \in {"CreateDevice", "UpdateDevice"} -> <<"device">>
    [] OTHER -> <<>>

\* UpdateUser asks for the user and its id, and looks that up.
NamesUser(m, msg) == m = "UpdateUser" => Has(msg, <<"user", "user_id">>)

\* The profile of a user that was found it reads without asking.
ReadsProfile(m, msg) == m = "UpdateUser" => Has(msg, <<"user", "profile">>)

\* No interceptor recovers: the panic of one handler ends the process.
Panic(c) ==
  LET j == job[c] IN
  /\ At(c, "running")
  /\ \/ ~Has(j.got, Needs(j.method))
     \/ NamesUser(j.method, j.got) /\ ~ReadsProfile(j.method, j.got)
  /\ up' = [up EXCEPT ![Service(j.method)] = FALSE]
  /\ Break(Service(j.method))
  /\ UNCHANGED <<issued, expired, held>>

\* The handler returns an error, for one that its request names no user.
RunFails(c) ==
  LET j == job[c] IN
  /\ At(c, "running") /\ Has(j.got, Needs(j.method))
  /\ Set(c, [j EXCEPT !.pc = "reply", !.outcome = "error"])
  /\ UNCHANGED <<up, issued, expired, held>>

TokenPath == <<"token", "stringToken">>

\* The handler returns its response; that of LoginUser has a new token.
RunSucceeds(c) ==
  LET j == job[c] IN
  /\ At(c, "running") /\ Has(j.got, Needs(j.method))
  /\ NamesUser(j.method, j.got) /\ ReadsProfile(j.method, j.got)
  /\ \E r \in Responses[j.method] :
       IF j.method = "LoginUser"
       THEN \E t \in Tokens \ issued :
              /\ issued' = issued \cup {t}
              /\ Set(c, [j EXCEPT !.pc = "reply", !.outcome = "ok",
                   !.reply = {l \in r : l.path # TokenPath}
                             \cup {[path |-> TokenPath, value |-> t]}])
       ELSE /\ Set(c, [j EXCEPT !.pc = "reply", !.outcome = "ok", !.reply = r])
            /\ UNCHANGED issued
  /\ UNCHANGED <<up, expired, held>>

\* The stub returns the response or the error, and the route answers with it.
Receive(c) ==
  LET j == job[c] IN
  /\ At(c, "reply")
  /\ Set(c, [Answered(j, j.outcome) EXCEPT
              !.seen = IF j.outcome = "ok"
                       THEN Received(ResponseCarry[j.method], j.reply) ELSE {}])
  /\ UNCHANGED <<up, issued, expired, held>>

TokenOf(msg) == (CHOOSE l \in msg : l.path = TokenPath).value

\* The client has its answer; a login gives it a token.
Done(c) ==
  /\ At(c, "answered")
  /\ Set(c, Idle)
  /\ held' = IF c \in Web /\ job[c].method = "LoginUser" /\ job[c].status = "ok"
             THEN [held EXCEPT ![c] = TokenOf(job[c].seen)] ELSE held
  /\ UNCHANGED <<up, issued, expired>>

-----------------------------------------------------------------------------
(* Failures and time *)

\* A service dies, by whatever cause.
Crash(s) ==
  /\ up[s]
  /\ up' = [up EXCEPT ![s] = FALSE]
  /\ Break(s)
  /\ UNCHANGED <<issued, expired, held>>

\* A connection breaks and is made again; what the handlers still do then is no
\* longer seen by anyone.
Reset(s) ==
  /\ up[s] /\ InFlight(s) # {}
  /\ Break(s)
  /\ UNCHANGED <<up, issued, expired, held>>

\* A service is started, and the gateway connects.
Connect(s) ==
  /\ ~up[s]
  /\ up' = [up EXCEPT ![s] = TRUE]
  /\ UNCHANGED <<job, issued, expired, held>>

\* 24 hours pass.
Expire(t) ==
  /\ t \in issued \ expired
  /\ expired' = expired \cup {t}
  /\ UNCHANGED <<job, up, issued, held>>

-----------------------------------------------------------------------------
Proceed(c) ==
  \/ Authorize(c) \/ Handle(c) \/ Invoke(c) \/ Dispatch(c)
  \/ Panic(c) \/ RunFails(c) \/ RunSucceeds(c)
  \/ Receive(c)

Next ==
  \/ \E c \in Web : Http(c)
  \/ \E c \in Programs : Direct(c)
  \/ \E c \in Clients : Proceed(c) \/ Done(c)
  \/ \E s \in Services : Crash(s) \/ Reset(s) \/ Connect(s)
  \/ \E t \in Tokens : Expire(t)

\* The gateway, gRPC and the handlers go on by themselves.  For the handlers this
\* is a condition on MongoDB and Redis: no call of the gateway has a deadline.
\* Clients need not ask, services need not come back.
Fairness == \A c \in Clients : WF_vars(Proceed(c))

Spec == Init /\ [][Next]_vars /\ Fairness

-----------------------------------------------------------------------------
(* Properties *)

\* The two copies of the protocol agree: what a handler gets is what the client's
\* stub was given, in the handler that the client named, and the response that the
\* client sees is the one that the handler returned.
DeliveredIntact ==
  \A c \in Clients :
    /\ job[c].ran > 0 => job[c].got = job[c].msg
    /\ job[c].status = "ok" => job[c].seen = job[c].reply

\* However services die and connections break, no request runs a handler twice;
\* one that is answered with success has run it once, and one that the gateway
\* itself refuses has not.  Between the two, an error may mean either.
SuccessRanOnce ==
  \A c \in Clients :
    /\ job[c].ran <= 1
    /\ job[c].status = "ok" => job[c].ran = 1 /\ job[c].outcome = "ok"
    /\ job[c].status \in {"unauthorized", "badRequest", "recovered"} => job[c].ran = 0

\* What a guarded route runs in a service it runs for someone who has logged in,
\* less than 24 hours before the request: the tokens of USERS carry their age
\* through the client to the gateway.
GuardedHasLogin ==
  \A c \in Web :
    job[c].ran > 0 /\ job[c].method \in Guarded =>
      job[c].header \in issued /\ ~job[c].late

\* Every request and every call is answered, though services die at any moment and
\* need never come back, and though no call has a deadline.
EveryCallAnswered ==
  \A c \in Clients : (job[c].pc # "idle") ~> (job[c].pc = "answered")

=============================================================================
