---------------------------- MODULE CallsProofs ----------------------------
(***************************************************************************)
(* Theorems about Calls, for any number of clients, programs, methods and  *)
(* tokens: what a request has run, and for whom; and that messages arrive  *)
(* as they were sent, because the two copies of the protocol agree.        *)
(***************************************************************************)
EXTENDS Calls, TLAPS, SequenceTheorems

-----------------------------------------------------------------------------
(* The invariant *)

Fields == {"pc", "method", "header", "late", "id", "msg", "got", "ran", "outcome",
           "reply", "seen", "status"}

\* A job is a record with these fields, whatever is in them.
Shaped(j) == DOMAIN j = Fields /\ j.ran \in Nat

\* How often a request has run its handler, by where it is.
RanFits(j) ==
  /\ j.pc \in {"idle", "auth", "handle", "invoke", "wire"} => j.ran = 0
  /\ j.pc \in {"running", "reply"} => j.ran <= 1
  /\ j.pc = "running" => j.ran = 1
  /\ j.pc = "reply" => j.outcome \in {"ok", "error"}
  /\ j.pc = "reply" /\ j.outcome = "ok" => j.ran = 1
  /\ j.pc # "answered" => j.status = "none"
  /\ j.pc \in PCs

\* What is true of one that is answered, by its status.
StatusFits(j) ==
  j.pc = "answered" =>
    /\ j.ran <= 1
    /\ j.status = "ok" => j.ran = 1 /\ j.outcome = "ok"
    /\ j.status \in {"unauthorized", "badRequest", "recovered"} => j.ran = 0

\* A request to a guarded route that has passed the middleware came with a token
\* that was young when it came.
LoggedIn(j) ==
  j.method \in Guarded /\ j.pc # "idle" =>
    /\ j.late => j.header \in expired
    /\ j.pc # "auth" /\ j.status # "unauthorized" => j.header \in issued /\ ~j.late

Good(j) == Shaped(j) /\ RanFits(j) /\ StatusFits(j)

Inv ==
  /\ DOMAIN job = Clients
  /\ \A c \in Clients : Good(job[c])
  /\ \A c \in Web : LoggedIn(job[c])

-----------------------------------------------------------------------------
(* It holds at the start, and every action keeps it. *)

LEMMA IdleIsGood == Good(Idle) /\ LoggedIn(Idle)
BY DEF Good, Idle, Shaped, Fields, RanFits, StatusFits, LoggedIn, PCs

LEMMA InvInit == Init => Inv
BY IdleIsGood DEF Init, Inv, Good, Clients

\* An action that changes one job, and at most adds a token.
LEMMA SetKeeps ==
  ASSUME Inv, NEW c \in Clients, NEW j, Set(c, j), Good(j), c \in Web => LoggedIn(j),
         issued \subseteq issued', expired' = expired
  PROVE  Inv'
<1>1. /\ DOMAIN job' = Clients /\ job'[c] = j
      /\ \A d \in Clients : d # c => job'[d] = job[d]
  BY DEF Set, Inv
<1>2. \A d \in Clients : Good(job'[d])
  BY <1>1 DEF Inv, Good
<1>3. \A d \in Web : LoggedIn(job'[d])
  BY <1>1 DEF Inv, Clients
<1>4. \A d \in Web : LoggedIn(job[d])'
  BY <1>3 DEF LoggedIn
<1> QED
  BY <1>1, <1>2, <1>4 DEF Inv, Good, Shaped, RanFits, StatusFits

\* One lemma for each action.
LEMMA HttpKeeps == ASSUME Inv, NEW c \in Web, Http(c) PROVE Inv'
<1>1. PICK r, h, id, body :
        Set(c, [Idle EXCEPT !.pc = "auth", !.method = r, !.header = h,
                            !.late = h \in expired, !.id = id, !.msg = body])
  BY DEF Http
<1> DEFINE j == [Idle EXCEPT !.pc = "auth", !.method = r, !.header = h,
                             !.late = h \in expired, !.id = id, !.msg = body]
<1>2. Good(j)
  BY DEF Good, Idle, Shaped, Fields, RanFits, StatusFits, PCs
<1>3. LoggedIn(j)
  BY DEF Idle, LoggedIn
<1> QED
  BY <1>1, <1>2, <1>3, SetKeeps DEF Http, Clients

LEMMA DirectKeeps == ASSUME Inv, NEW c \in Programs, Direct(c) PROVE Inv'
<1>1. PICK m, g : Set(c, [Idle EXCEPT !.pc = "invoke", !.method = m, !.msg = g])
  BY DEF Direct
<1>2. Good([Idle EXCEPT !.pc = "invoke", !.method = m, !.msg = g])
  BY DEF Good, Idle, Shaped, Fields, RanFits, StatusFits, PCs
<1>3. c \notin Web
  BY CallsAssumption
<1> QED
  BY <1>1, <1>2, <1>3, SetKeeps DEF Direct, Clients

LEMMA AuthorizeKeeps == ASSUME Inv, NEW c \in Clients, Authorize(c) PROVE Inv'
<1>1. Good(job[c]) /\ job[c].pc = "auth" /\ (c \in Web => LoggedIn(job[c]))
  BY DEF Inv, Good, Authorize, At
<1>2. UNCHANGED <<issued, expired>>
  BY DEF Authorize
<1>3. CASE job[c].method \in Guarded => Accepts(job[c].header)
  <2> DEFINE j == [job[c] EXCEPT !.pc = "handle"]
  <2>1. Set(c, j)
    BY <1>3 DEF Authorize
  <2>2. Good(j)
    BY <1>1 DEF Good, Shaped, Fields, RanFits, StatusFits, PCs
  <2>3. c \in Web => LoggedIn(j)
    BY <1>1, <1>3 DEF Good, Shaped, Fields, LoggedIn, Accepts
  <2> QED
    BY <1>2, <2>1, <2>2, <2>3, SetKeeps
<1>4. CASE ~(job[c].method \in Guarded => Accepts(job[c].header))
  <2> DEFINE j == [job[c] EXCEPT !.pc = AfterRefusal, !.status = "unauthorized"]
  <2>1. Set(c, j)
    BY <1>4 DEF Authorize
  <2>2. Good(j)
    BY <1>1 DEF Good, Shaped, Fields, RanFits, StatusFits, PCs, AfterRefusal
  <2>3. c \in Web => LoggedIn(j)
    BY <1>1 DEF Good, Shaped, Fields, LoggedIn, AfterRefusal
  <2> QED
    BY <1>2, <2>1, <2>2, <2>3, SetKeeps
<1> QED
  BY <1>3, <1>4

\* A job that is answered without having run.
LEMMA AnsweredIsGood ==
  ASSUME Inv, NEW c \in Clients, job[c].pc \in {"handle", "invoke", "wire", "running", "reply"},
         NEW s, s # "unauthorized", s \in {"badRequest", "recovered"} => job[c].ran = 0,
         s = "ok" => job[c].ran = 1 /\ job[c].outcome = "ok"
  PROVE  Good(Answered(job[c], s)) /\ (c \in Web => LoggedIn(Answered(job[c], s)))
<1>1. Good(job[c]) /\ (c \in Web => LoggedIn(job[c]))
  BY DEF Inv, Good
<1>2. Good(Answered(job[c], s))
  BY <1>1 DEF Answered, Good, Shaped, Fields, RanFits, StatusFits, PCs
<1>3. c \in Web => LoggedIn(Answered(job[c], s))
  BY <1>1 DEF Answered, Good, Shaped, Fields, RanFits, LoggedIn
<1> QED
  BY <1>2, <1>3

LEMMA HandleKeeps == ASSUME Inv, NEW c \in Clients, Handle(c) PROVE Inv'
<1>1. Good(job[c]) /\ job[c].pc = "handle" /\ (c \in Web => LoggedIn(job[c]))
  BY DEF Inv, Good, Handle, At
<1>2. UNCHANGED <<issued, expired>>
  BY DEF Handle
<1>3. PICK g : \/ \E s \in {"badRequest", "recovered"} : Set(c, Answered(job[c], s))
               \/ Set(c, [job[c] EXCEPT !.pc = "invoke", !.msg = g])
  BY DEF Handle
<1>4. ASSUME NEW s \in {"badRequest", "recovered"}, Set(c, Answered(job[c], s)) PROVE Inv'
  <2>1. job[c].ran = 0
    BY <1>1 DEF Good, RanFits
  <2> QED
    BY <1>1, <1>2, <1>4, <2>1, AnsweredIsGood, SetKeeps
<1>5. CASE Set(c, [job[c] EXCEPT !.pc = "invoke", !.msg = g])
  <2>1. Good([job[c] EXCEPT !.pc = "invoke", !.msg = g])
    BY <1>1 DEF Good, Shaped, Fields, RanFits, StatusFits, PCs
  <2>2. c \in Web => LoggedIn([job[c] EXCEPT !.pc = "invoke", !.msg = g])
    BY <1>1 DEF Good, Shaped, Fields, LoggedIn
  <2> QED
    BY <1>2, <1>5, <2>1, <2>2, SetKeeps
<1> QED
  BY <1>3, <1>4, <1>5

LEMMA InvokeKeeps == ASSUME Inv, NEW c \in Clients, Invoke(c) PROVE Inv'
<1>1. Good(job[c]) /\ job[c].pc = "invoke" /\ (c \in Web => LoggedIn(job[c]))
  BY DEF Inv, Good, Invoke, At
<1>2. UNCHANGED <<issued, expired>>
  BY DEF Invoke
<1>3. CASE Set(c, Answered(job[c], "error"))
  BY <1>1, <1>2, <1>3, AnsweredIsGood, SetKeeps
<1>4. CASE Set(c, [job[c] EXCEPT !.pc = "wire"])
  <2>1. Good([job[c] EXCEPT !.pc = "wire"])
    BY <1>1 DEF Good, Shaped, Fields, RanFits, StatusFits, PCs
  <2>2. c \in Web => LoggedIn([job[c] EXCEPT !.pc = "wire"])
    BY <1>1 DEF Good, Shaped, Fields, LoggedIn
  <2> QED
    BY <1>2, <1>4, <2>1, <2>2, SetKeeps
<1> QED
  BY <1>3, <1>4 DEF Invoke

LEMMA DispatchKeeps == ASSUME Inv, NEW c \in Clients, Dispatch(c) PROVE Inv'
<1>1. Good(job[c]) /\ job[c].pc = "wire" /\ (c \in Web => LoggedIn(job[c]))
  BY DEF Inv, Good, Dispatch, At
<1>2. UNCHANGED <<issued, expired>>
  BY DEF Dispatch
<1>3. PICK g : \/ Set(c, [job[c] EXCEPT !.pc = "running", !.ran = @ + 1, !.got = g])
               \/ Set(c, [job[c] EXCEPT !.pc = "reply", !.outcome = "error"])
  BY DEF Dispatch
<1>4. CASE Set(c, [job[c] EXCEPT !.pc = "running", !.ran = @ + 1, !.got = g])
  <2>1. Good([job[c] EXCEPT !.pc = "running", !.ran = @ + 1, !.got = g])
    BY <1>1 DEF Good, Shaped, Fields, RanFits, StatusFits, PCs
  <2>2. c \in Web => LoggedIn([job[c] EXCEPT !.pc = "running", !.ran = @ + 1, !.got = g])
    BY <1>1 DEF Good, Shaped, Fields, LoggedIn
  <2> QED
    BY <1>2, <1>4, <2>1, <2>2, SetKeeps
<1>5. CASE Set(c, [job[c] EXCEPT !.pc = "reply", !.outcome = "error"])
  <2>1. Good([job[c] EXCEPT !.pc = "reply", !.outcome = "error"])
    BY <1>1 DEF Good, Shaped, Fields, RanFits, StatusFits, PCs
  <2>2. c \in Web => LoggedIn([job[c] EXCEPT !.pc = "reply", !.outcome = "error"])
    BY <1>1 DEF Good, Shaped, Fields, LoggedIn
  <2> QED
    BY <1>2, <1>5, <2>1, <2>2, SetKeeps
<1> QED
  BY <1>3, <1>4, <1>5

LEMMA BreakKeeps ==
  ASSUME Inv, NEW s \in Services, Break(s), UNCHANGED <<issued, expired>> PROVE Inv'
<1>1. PICK lost \in SUBSET InFlight(s) :
        job' = [c \in Clients |-> IF c \in lost THEN Answered(job[c], "error") ELSE job[c]]
  <2>1. PICK kept : job' = [c \in Clients |-> IF c \in InFlight(s) \ kept
                                              THEN Lost(job[c]) ELSE job[c]]
    BY DEF Break
  <2>2. InFlight(s) \ kept \in SUBSET InFlight(s)
    OBVIOUS
  <2> QED
    BY <2>1, <2>2 DEF Lost
<1>2. \A c \in lost : c \in Clients /\ job[c].pc \in {"wire", "running", "reply"}
  BY DEF InFlight
<1>3. \A c \in Clients : Good(job'[c]) /\ (c \in Web => LoggedIn(job'[c]))
  <2>1. ASSUME NEW c \in Clients, c \in lost
        PROVE  Good(job'[c]) /\ (c \in Web => LoggedIn(job'[c]))
    BY <1>1, <1>2, <2>1, AnsweredIsGood
  <2>2. ASSUME NEW c \in Clients, c \notin lost
        PROVE  Good(job'[c]) /\ (c \in Web => LoggedIn(job'[c]))
    BY <1>1, <2>2 DEF Inv, Good
  <2> QED
    BY <2>1, <2>2
<1>4. \A c \in Web : LoggedIn(job[c])'
  BY <1>3 DEF LoggedIn, Clients
<1> QED
  BY <1>1, <1>3, <1>4 DEF Inv, Good, Shaped, RanFits, StatusFits

LEMMA RunFailsKeeps == ASSUME Inv, NEW c \in Clients, RunFails(c) PROVE Inv'
<1>1. Good(job[c]) /\ job[c].pc = "running" /\ (c \in Web => LoggedIn(job[c]))
  BY DEF Inv, Good, RunFails, At
<1>2. UNCHANGED <<issued, expired>> /\ Set(c, [job[c] EXCEPT !.pc = "reply", !.outcome = "error"])
  BY DEF RunFails
<1>3. Good([job[c] EXCEPT !.pc = "reply", !.outcome = "error"])
  BY <1>1 DEF Good, Shaped, Fields, RanFits, StatusFits, PCs
<1>4. c \in Web => LoggedIn([job[c] EXCEPT !.pc = "reply", !.outcome = "error"])
  BY <1>1 DEF Good, Shaped, Fields, LoggedIn
<1> QED
  BY <1>2, <1>3, <1>4, SetKeeps

LEMMA RunSucceedsKeeps == ASSUME Inv, NEW c \in Clients, RunSucceeds(c) PROVE Inv'
<1>1. Good(job[c]) /\ job[c].pc = "running" /\ (c \in Web => LoggedIn(job[c]))
  BY DEF Inv, Good, RunSucceeds, At
<1>2. PICK r : Set(c, [job[c] EXCEPT !.pc = "reply", !.outcome = "ok", !.reply = r])
  BY DEF RunSucceeds
<1>3. issued \subseteq issued' /\ expired' = expired
  BY DEF RunSucceeds
<1>4. Good([job[c] EXCEPT !.pc = "reply", !.outcome = "ok", !.reply = r])
  BY <1>1 DEF Good, Shaped, Fields, RanFits, StatusFits, PCs
<1>5. c \in Web => LoggedIn([job[c] EXCEPT !.pc = "reply", !.outcome = "ok", !.reply = r])
  BY <1>1 DEF Good, Shaped, Fields, LoggedIn
<1> QED
  BY <1>2, <1>3, <1>4, <1>5, SetKeeps

LEMMA ReceiveKeeps == ASSUME Inv, NEW c \in Clients, Receive(c) PROVE Inv'
<1>1. Good(job[c]) /\ job[c].pc = "reply" /\ (c \in Web => LoggedIn(job[c]))
  BY DEF Inv, Good, Receive, At
<1>2. UNCHANGED <<issued, expired>>
  BY DEF Receive
<1>3. PICK g : Set(c, [Answered(job[c], job[c].outcome) EXCEPT !.seen = g])
  BY DEF Receive
<1> DEFINE j == [Answered(job[c], job[c].outcome) EXCEPT !.seen = g]
<1>4. Good(j)
  BY <1>1 DEF Answered, Good, Shaped, Fields, RanFits, StatusFits, PCs
<1>5. c \in Web => LoggedIn(j)
  BY <1>1 DEF Answered, Good, Shaped, Fields, RanFits, LoggedIn
<1> QED
  BY <1>2, <1>3, <1>4, <1>5, SetKeeps

LEMMA ExpireKeeps == ASSUME Inv, NEW t \in Tokens, Expire(t) PROVE Inv'
<1>1. UNCHANGED <<job, issued>> /\ expired \subseteq expired'
  BY DEF Expire
<1>2. \A c \in Web : LoggedIn(job[c])'
  BY <1>1 DEF Inv, LoggedIn
<1> QED
  BY <1>1, <1>2 DEF Inv, Good, Shaped, RanFits, StatusFits

LEMMA InvStep == Inv /\ [Next]_vars => Inv'
<1> SUFFICES ASSUME Inv, [Next]_vars PROVE Inv'
  OBVIOUS
<1>1. CASE UNCHANGED <<job, issued, expired>>
  BY <1>1 DEF Inv, Good, Shaped, RanFits, StatusFits, LoggedIn
<1>2. ASSUME NEW c \in Web, Http(c) PROVE Inv'
  BY <1>2, HttpKeeps
<1>3. ASSUME NEW c \in Programs, Direct(c) PROVE Inv'
  BY <1>3, DirectKeeps
<1>4. ASSUME NEW c \in Clients, Panic(c) PROVE Inv'
  <2>1. Service(job[c].method) \in Services
    BY DEF Service, Services
  <2> QED
    BY <1>4, <2>1, BreakKeeps DEF Panic
<1>5. ASSUME NEW c \in Clients, Proceed(c), ~Panic(c) PROVE Inv'
  BY <1>5, AuthorizeKeeps, HandleKeeps, InvokeKeeps, DispatchKeeps, RunFailsKeeps,
     RunSucceedsKeeps, ReceiveKeeps DEF Proceed
<1>6. ASSUME NEW c \in Clients, Done(c) PROVE Inv'
  BY <1>6, IdleIsGood, SetKeeps DEF Done
<1>7. ASSUME NEW s \in Services, Crash(s) \/ Reset(s) PROVE Inv'
  BY <1>7, BreakKeeps DEF Crash, Reset
<1>8. ASSUME NEW s \in Services, Connect(s) PROVE UNCHANGED <<job, issued, expired>>
  BY <1>8 DEF Connect
<1>9. ASSUME NEW t \in Tokens, Expire(t) PROVE Inv'
  BY <1>9, ExpireKeeps
<1>10. UNCHANGED vars => UNCHANGED <<job, issued, expired>>
  BY DEF vars
<1> QED
  BY <1>1, <1>2, <1>3, <1>4, <1>5, <1>6, <1>7, <1>8, <1>9, <1>10 DEF Next

LEMMA AlwaysInv == Spec => []Inv
BY InvInit, InvStep, PTL DEF Spec

-----------------------------------------------------------------------------
(* The theorems *)

\* A request runs its handler once at most, once if it is answered with success,
\* and not at all if the gateway refuses it, whatever dies meanwhile.
THEOREM SuccessRan == Spec => []SuccessRanOnce
<1>1. ASSUME Inv PROVE SuccessRanOnce
  BY <1>1 DEF Inv, Good, Shaped, RanFits, StatusFits, SuccessRanOnce, PCs
<1> QED
  BY <1>1, AlwaysInv, PTL

\* No guarded route runs anything for a request whose token USERS did not issue, or
\* whose token was too old when it came.
THEOREM GuardedLoggedIn == Spec => []GuardedHasLogin
<1>1. ASSUME Inv PROVE GuardedHasLogin
  BY <1>1 DEF Inv, Good, Shaped, RanFits, StatusFits, LoggedIn, GuardedHasLogin, PCs, Clients
<1> QED
  BY <1>1, AlwaysInv, PTL

-----------------------------------------------------------------------------
(* The wire: with one schema on both sides a message arrives as it was sent. *)

Det(X) == \A x, y \in X : x.tags = y.tags => x = y

TagSet(schema) == (UNION {DOMAIN schema[t] : t \in DOMAIN schema}) \X {"varint", "bytes"}

Level(schema, X, k) == \A x \in X : x.tags \in Seq(TagSet(schema)) /\ Len(x.tags) = k

LEMMA AppendTwice ==
  ASSUME NEW A, NEW s \in Seq(A), NEW t \in Seq(A), NEW a \in A, NEW b \in A,
         Append(s, a) = Append(t, b)
  PROVE  s = t /\ a = b
<1>1. /\ Len(s) \in Nat /\ Len(t) \in Nat
      /\ Len(Append(s, a)) = Len(s) + 1 /\ Len(Append(t, b)) = Len(t) + 1
      /\ Append(s, a)[Len(s) + 1] = a /\ Append(t, b)[Len(t) + 1] = b
  OBVIOUS
<1>2. Len(s) = Len(t) /\ a = b
  BY <1>1
<1>3. \A k \in 1 .. Len(s) : s[k] = Append(s, a)[k] /\ t[k] = Append(t, b)[k]
  BY <1>2
<1> QED
  BY <1>2, <1>3, SeqEqual

LEMMA InsideDet ==
  ASSUME NEW schema, NEW X, NEW k \in Nat, Level(schema, X, k), Det(X)
  PROVE  Level(schema, Inside(schema, X), k + 1) /\ Det(Inside(schema, X))
<1>1. \A u \in Inside(schema, X) : \E x \in X : \E n \in DOMAIN schema[x.type] :
        x.type \in DOMAIN schema /\ u = Inner(schema, x, n)
  BY DEF Inside
<1>2. ASSUME NEW x \in X, x.type \in DOMAIN schema, NEW n \in DOMAIN schema[x.type]
      PROVE  LET w == WireType(schema[x.type][n].type) IN
             /\ Inner(schema, x, n).tags = Append(x.tags, <<n, w>>)
             /\ <<n, w>> \in TagSet(schema)
  BY <1>2 DEF Inner, WireType, TagSet
<1>3. Level(schema, Inside(schema, X), k + 1)
  <2> SUFFICES ASSUME NEW u \in Inside(schema, X)
               PROVE  u.tags \in Seq(TagSet(schema)) /\ Len(u.tags) = k + 1
    BY DEF Level
  <2>1. PICK x \in X : \E n \in DOMAIN schema[x.type] :
          x.type \in DOMAIN schema /\ u = Inner(schema, x, n)
    BY <1>1
  <2>2. PICK n \in DOMAIN schema[x.type] : x.type \in DOMAIN schema /\ u = Inner(schema, x, n)
    BY <2>1
  <2>3. PICK g \in TagSet(schema) : u.tags = Append(x.tags, g)
    BY <1>2, <2>2
  <2>4. x.tags \in Seq(TagSet(schema)) /\ Len(x.tags) = k
    BY DEF Level
  <2> QED
    BY <2>3, <2>4
<1>4. Det(Inside(schema, X))
  <2> SUFFICES ASSUME NEW u \in Inside(schema, X), NEW v \in Inside(schema, X), u.tags = v.tags
               PROVE  u = v
    BY DEF Det
  <2>1a. PICK x \in X : \E n \in DOMAIN schema[x.type] :
          x.type \in DOMAIN schema /\ u = Inner(schema, x, n)
    BY <1>1
  <2>1. PICK n \in DOMAIN schema[x.type] :
          x.type \in DOMAIN schema /\ u = Inner(schema, x, n)
    BY <2>1a
  <2>2a. PICK y \in X : \E m \in DOMAIN schema[y.type] :
          y.type \in DOMAIN schema /\ v = Inner(schema, y, m)
    BY <1>1
  <2>2. PICK m \in DOMAIN schema[y.type] :
          y.type \in DOMAIN schema /\ v = Inner(schema, y, m)
    BY <2>2a
  <2> DEFINE a == <<n, WireType(schema[x.type][n].type)>>
             b == <<m, WireType(schema[y.type][m].type)>>
  <2>3. /\ u.tags = Append(x.tags, a) /\ a \in TagSet(schema) /\ a[1] = n
        /\ v.tags = Append(y.tags, b) /\ b \in TagSet(schema) /\ b[1] = m
    BY <1>2, <2>1, <2>2
  <2>4. x.tags \in Seq(TagSet(schema)) /\ y.tags \in Seq(TagSet(schema))
    BY DEF Level
  <2> HIDE DEF a, b
  <2>5. Append(x.tags, a) = Append(y.tags, b)
    BY <2>3
  <2>6. x.tags = y.tags /\ a = b
    <3> DEFINE s == x.tags
               t == y.tags
    <3>1. /\ s \in Seq(TagSet(schema)) /\ t \in Seq(TagSet(schema))
          /\ Append(s, a) = Append(t, b)
      BY <2>4, <2>5
    <3> HIDE DEF s, t
    <3>2. s = t /\ a = b
      BY <2>3, <3>1, AppendTwice
    <3> QED
      BY <3>2 DEF s, t
  <2>7. x = y /\ n = m
    BY <2>3, <2>6 DEF Det
  <2> QED
    BY <2>1, <2>2, <2>7
<1> QED
  BY <1>3, <1>4

\* The tags of a place tell it from all others of the message.
LEMMA PlacesDet == ASSUME NEW schema, NEW type PROVE Det(Places(schema, type))
<1> DEFINE zero == {Root(type)}
           one == Inside(schema, zero)
           two == Inside(schema, one)
           three == Inside(schema, two)
<1>1. Level(schema, zero, 0) /\ Det(zero)
  BY DEF Level, Det, Root
<1>2. Level(schema, one, 1) /\ Det(one)
  BY <1>1, InsideDet, 0 + 1 = 1
<1>3. Level(schema, two, 2) /\ Det(two)
  <2> HIDE DEF one
  <2> QED
    BY <1>2, InsideDet, 1 + 1 = 2
<1>4. Level(schema, three, 3) /\ Det(three)
  <2> HIDE DEF two
  <2> QED
    BY <1>3, InsideDet, 2 + 1 = 3
<1>5. Places(schema, type) = one \cup two \cup three
  BY DEF Places
<1> HIDE DEF one, two, three
<1> QED
  BY <1>2, <1>3, <1>4, <1>5 DEF Level, Det

LEMMA CarryIsIdentity ==
  ASSUME NEW schema, NEW type
  PROVE  Carry(schema, type, schema, type) = {<<p, p>> : p \in Paths(schema, type)}
<1> DEFINE P == Places(schema, type)
<1>1. ASSUME NEW c \in Carry(schema, type, schema, type)
      PROVE  \E p \in Paths(schema, type) : c = <<p, p>>
  <2>1. PICK z \in P \X P : z[1].tags = z[2].tags /\ c = <<z[1].path, z[2].path>>
    BY <1>1 DEF Carry
  <2>2. z[1] \in P /\ z[1] = z[2]
    BY <2>1, PlacesDet DEF Det
  <2> QED
    BY <2>1, <2>2 DEF Paths
<1>2. ASSUME NEW p \in Paths(schema, type) PROVE <<p, p>> \in Carry(schema, type, schema, type)
  <2>1. PICK x \in P : p = x.path
    BY DEF Paths
  <2>2. <<x, x>> \in P \X P /\ <<x, x>>[1] = x /\ <<x, x>>[2] = x
    OBVIOUS
  <2> HIDE DEF P
  <2>3. <<<<x, x>>[1].path, <<x, x>>[2].path>> = <<p, p>> /\ <<x, x>>[1].tags = <<x, x>>[2].tags
    BY <2>1
  <2> QED
    BY <2>2, <2>3 DEF Carry, P
<1> QED
  BY <1>1, <1>2

\* A message of the type: its leaves are at places of the type.
MessageOf(msg, schema, type) ==
  \A l \in msg : l = [path |-> l.path, value |-> l.value] /\ l.path \in Paths(schema, type)

LEMMA ReceivedAsSent ==
  ASSUME NEW schema, NEW type, NEW msg, MessageOf(msg, schema, type)
  PROVE  Received(Carry(schema, type, schema, type), msg) = msg
<1> DEFINE carry == Carry(schema, type, schema, type)
           Moved(l) == {[path |-> z[2], value |-> l.value] : z \in {y \in carry : y[1] = l.path}}
<1>1. ASSUME NEW l \in msg PROVE Moved(l) = {l}
  <2>1. \A z \in carry : z[1] = l.path => z[2] = l.path
    BY CarryIsIdentity
  <2>2. <<l.path, l.path>> \in carry
    BY <1>1, CarryIsIdentity DEF MessageOf
  <2>3. l = [path |-> l.path, value |-> l.value]
    BY <1>1 DEF MessageOf
  <2> HIDE DEF carry
  <2>4. \A x \in Moved(l) : x = l
    BY <2>1, <2>3
  <2>5. l \in Moved(l)
    BY <2>2, <2>3
  <2> QED
    BY <2>4, <2>5
<1>2. Received(carry, msg) = UNION {Moved(l) : l \in msg}
  BY DEF Received
<1> HIDE DEF Moved
<1> QED
  BY <1>1, <1>2

-----------------------------------------------------------------------------
(* The two copies of the protocol agree. *)

LEMMA SameSchema == ClientSchema = ServerSchema
<1>1. G!UsersTypes = S!UsersTypes
  BY DEF G!UsersTypes, G!Token, G!RegisterUserResponse, G!User, G!GetAllUsersResponse,
         G!GetByFieldRequest, G!LoginRequest, G!CreateUserReuest, G!UpdateUserReuqest, G!Profile,
         G!GetUsersByAddressRequest, G!GetAllUsersRequest, G!Response, G!Field,
         S!UsersTypes, S!Token, S!RegisterUserResponse, S!User, S!GetAllUsersResponse,
         S!GetByFieldRequest, S!LoginRequest, S!CreateUserReuest, S!UpdateUserReuqest, S!Profile,
         S!GetUsersByAddressRequest, S!GetAllUsersRequest, S!Response, S!Field
<1>2. G!DevicesTypes = S!DevicesTypes
  BY DEF G!DevicesTypes, G!Device, G!CreateDeviceRequest, G!CreateDeviceResponse,
         G!UpdateDeviceRequest, G!UpdateDeviceResponse, G!GetDeviceRequest, G!GetDeviceResponse,
         G!DeleteDeviceRequest, G!DeleteDeviceResponse, G!GetAllDevicesRequest,
         G!GetAllDevicesResponse, G!Field,
         S!DevicesTypes, S!Device, S!CreateDeviceRequest, S!CreateDeviceResponse,
         S!UpdateDeviceRequest, S!UpdateDeviceResponse, S!GetDeviceRequest, S!GetDeviceResponse,
         S!DeleteDeviceRequest, S!DeleteDeviceResponse, S!GetAllDevicesRequest,
         S!GetAllDevicesResponse, S!Field
<1> QED
  BY <1>1, <1>2 DEF ClientSchema, ServerSchema

UserMethods == {"RegisterUser", "LoginUser", "GetById", "GetByUsername", "GetByEmail",
                "UpdateUser", "GetAllUsers", "DeleteUserById", "GetUsersByAddress"}
DeviceMethods == {"CreateDevice", "UpdateDevice", "GetDevice", "DeleteDevice", "GetAllDevices"}

LEMMA UserMethodsAgree ==
  /\ DOMAIN G!UsersServiceClient = UserMethods
  /\ DOMAIN S!UsersServiceHandlers = UserMethods
  /\ DOMAIN S!UsersServiceServer = UserMethods
  /\ \A m \in UserMethods :
       /\ S!UsersServiceHandlers[m] = G!UsersServiceClient[m].in
       /\ S!UsersServiceServer[m] = G!UsersServiceClient[m].out
       /\ G!UsersService_FullMethodNames[m] = <<"UsersService", m>>
       /\ <<"UsersService", m>> \in DOMAIN S!UsersService_ServiceDesc
       /\ S!UsersService_ServiceDesc[<<"UsersService", m>>] = m
<1>1. /\ DOMAIN G!UsersServiceClient = UserMethods
      /\ DOMAIN S!UsersServiceHandlers = UserMethods
      /\ DOMAIN S!UsersServiceServer = UserMethods
  BY DEF G!UsersServiceClient, S!UsersServiceHandlers, S!UsersServiceServer, UserMethods
<1>2. \A m \in UserMethods :
        /\ S!UsersServiceHandlers[m] = G!UsersServiceClient[m].in
        /\ S!UsersServiceServer[m] = G!UsersServiceClient[m].out
  BY DEF G!UsersServiceClient, S!UsersServiceHandlers, S!UsersServiceServer, UserMethods
<1>3. \A m \in UserMethods : G!UsersService_FullMethodNames[m] = <<"UsersService", m>>
  BY <1>1 DEF G!UsersService_FullMethodNames
<1>4. ASSUME NEW m \in UserMethods
      PROVE  /\ <<"UsersService", m>> \in DOMAIN S!UsersService_ServiceDesc
             /\ S!UsersService_ServiceDesc[<<"UsersService", m>>] = m
  BY <1>1 DEF S!UsersService_ServiceDesc
<1> QED
  BY <1>1, <1>2, <1>3, <1>4

LEMMA DeviceMethodsAgree ==
  /\ DOMAIN G!DeviceServiceClient = DeviceMethods
  /\ DOMAIN S!DeviceServiceHandlers = DeviceMethods
  /\ DOMAIN S!DeviceServiceServer = DeviceMethods
  /\ \A m \in DeviceMethods :
       /\ S!DeviceServiceHandlers[m] = G!DeviceServiceClient[m].in
       /\ S!DeviceServiceServer[m] = G!DeviceServiceClient[m].out
       /\ G!DeviceService_FullMethodNames[m] = <<"devices.DeviceService", m>>
       /\ <<"devices.DeviceService", m>> \in DOMAIN S!DeviceService_ServiceDesc
       /\ S!DeviceService_ServiceDesc[<<"devices.DeviceService", m>>] = m
       /\ <<"devices.DeviceService", m>> \notin DOMAIN S!UsersService_ServiceDesc
<1>1. /\ DOMAIN G!DeviceServiceClient = DeviceMethods
      /\ DOMAIN S!DeviceServiceHandlers = DeviceMethods
      /\ DOMAIN S!DeviceServiceServer = DeviceMethods
  BY DEF G!DeviceServiceClient, S!DeviceServiceHandlers, S!DeviceServiceServer, DeviceMethods
<1>2. \A m \in DeviceMethods :
        /\ S!DeviceServiceHandlers[m] = G!DeviceServiceClient[m].in
        /\ S!DeviceServiceServer[m] = G!DeviceServiceClient[m].out
  BY DEF G!DeviceServiceClient, S!DeviceServiceHandlers, S!DeviceServiceServer, DeviceMethods
<1>3. \A m \in DeviceMethods : G!DeviceService_FullMethodNames[m] = <<"devices.DeviceService", m>>
  BY <1>1 DEF G!DeviceService_FullMethodNames
<1>4. ASSUME NEW m \in DeviceMethods
      PROVE  /\ <<"devices.DeviceService", m>> \in DOMAIN S!DeviceService_ServiceDesc
             /\ S!DeviceService_ServiceDesc[<<"devices.DeviceService", m>>] = m
             /\ <<"devices.DeviceService", m>> \notin DOMAIN S!UsersService_ServiceDesc
  BY <1>1 DEF S!DeviceService_ServiceDesc, S!UsersService_ServiceDesc
<1> QED
  BY <1>1, <1>2, <1>3, <1>4

\* Every method of the stubs is dispatched to the handler of its name, with the
\* types that the stub has.
LEMMA MethodsAgree ==
  /\ DOMAIN Client = UserMethods \cup DeviceMethods
  /\ \A m \in DOMAIN Client :
       /\ m \in Described /\ Handler(m) = m
       /\ Handlers[m] = Client[m].in /\ Server[m] = Client[m].out
<1>1. DOMAIN Client = UserMethods \cup DeviceMethods
  BY UserMethodsAgree, DeviceMethodsAgree DEF Both, Client
<1>2. ASSUME NEW m \in UserMethods
      PROVE  /\ FullNames[m] = <<"UsersService", m>>
             /\ FullNames[m] \in DOMAIN Description /\ Description[FullNames[m]] = m
             /\ Handlers[m] = Client[m].in /\ Server[m] = Client[m].out
  <2>1. FullNames[m] = <<"UsersService", m>>
    BY UserMethodsAgree DEF Both, FullNames, G!UsersService_FullMethodNames
  <2>2. FullNames[m] \in DOMAIN Description /\ Description[FullNames[m]] = m
    BY <2>1, UserMethodsAgree DEF Both, Description
  <2>3. Handlers[m] = Client[m].in /\ Server[m] = Client[m].out
    BY UserMethodsAgree DEF Both, Handlers, Server, Client
  <2> QED
    BY <2>1, <2>2, <2>3
<1>3. ASSUME NEW m \in DeviceMethods
      PROVE  /\ FullNames[m] = <<"devices.DeviceService", m>>
             /\ FullNames[m] \in DOMAIN Description /\ Description[FullNames[m]] = m
             /\ Handlers[m] = Client[m].in /\ Server[m] = Client[m].out
  <2>1. m \notin UserMethods
    BY DEF UserMethods, DeviceMethods
  <2>2. DOMAIN G!UsersService_FullMethodNames = UserMethods
        /\ DOMAIN G!DeviceService_FullMethodNames = DeviceMethods
    BY UserMethodsAgree, DeviceMethodsAgree
       DEF G!UsersService_FullMethodNames, G!DeviceService_FullMethodNames
  <2>3. FullNames[m] = <<"devices.DeviceService", m>>
    BY <2>1, <2>2, DeviceMethodsAgree DEF Both, FullNames
  <2>4. FullNames[m] \in DOMAIN Description /\ Description[FullNames[m]] = m
    BY <2>3, DeviceMethodsAgree DEF Both, Description
  <2>5. Handlers[m] = Client[m].in /\ Server[m] = Client[m].out
    BY <2>1, UserMethodsAgree, DeviceMethodsAgree DEF Both, Handlers, Server, Client
  <2> QED
    BY <2>3, <2>4, <2>5
<1> QED
  BY <1>1, <1>2, <1>3 DEF Described, Handler

\* So what a handler gets is what was sent, and what comes back what it returned.
LEMMA CarriedIntact ==
  ASSUME NEW m \in DOMAIN Client, NEW msg
  PROVE  /\ MessageOf(msg, ClientSchema, Client[m].in) => Received(RequestCarry[m], msg) = msg
         /\ MessageOf(msg, ServerSchema, Server[m]) => Received(ResponseCarry[m], msg) = msg
<1>1. /\ m \in Described /\ Handler(m) = m
      /\ Handlers[m] = Client[m].in /\ Server[m] = Client[m].out
  BY MethodsAgree
<1>2. /\ RequestCarry[m] = Carry(ClientSchema, Client[m].in, ClientSchema, Client[m].in)
      /\ ResponseCarry[m] = Carry(ServerSchema, Server[m], ServerSchema, Server[m])
  BY <1>1, SameSchema DEF RequestCarry, ResponseCarry
<1> QED
  BY <1>2, ReceivedAsSent

LEMMA OneDeep ==
  ASSUME NEW schema, NEW type \in DOMAIN schema, NEW n \in DOMAIN schema[type]
  PROVE  <<schema[type][n].name>> \in Paths(schema, type)
<1> DEFINE x == Inner(schema, Root(type), n)
<1>1. Root(type).type = type /\ x.path = <<schema[type][n].name>>
  BY DEF Root, Inner
<1>2. x \in Inside(schema, {Root(type)})
  BY <1>1 DEF Inside
<1>3. x \in Places(schema, type)
  BY <1>2 DEF Places
<1> QED
  BY <1>1, <1>3 DEF Paths

LEMMA AppendOne == ASSUME NEW a, NEW b PROVE Append(<<a>>, b) = <<a, b>>
<1>1. <<a>> \in Seq({a, b}) /\ <<a, b>> \in Seq({a, b}) /\ Append(<<a>>, b) \in Seq({a, b})
  OBVIOUS
<1>2. Len(<<a>>) = 1 /\ Len(<<a, b>>) = 2 /\ Len(Append(<<a>>, b)) = 2
  OBVIOUS
<1>3. \A k \in 1 .. 2 : Append(<<a>>, b)[k] = <<a, b>>[k]
  OBVIOUS
<1> QED
  BY <1>1, <1>2, <1>3, SeqEqual

LEMMA TwoDeep ==
  ASSUME NEW schema, NEW type \in DOMAIN schema, NEW n \in DOMAIN schema[type],
         schema[type][n].type \in DOMAIN schema, NEW k \in DOMAIN schema[schema[type][n].type]
  PROVE  <<schema[type][n].name, schema[schema[type][n].type][k].name>> \in Paths(schema, type)
<1> DEFINE x == Inner(schema, Root(type), n)
           outer == schema[type][n].name
           inner == schema[schema[type][n].type][k].name
<1>1. Root(type).type = type /\ x.type = schema[type][n].type /\ x.path = <<outer>>
  BY DEF Root, Inner
<1>2. x \in Inside(schema, {Root(type)})
  BY <1>1 DEF Inside
<1>3. x.type \in DOMAIN schema /\ k \in DOMAIN schema[x.type]
      /\ schema[x.type][k].name = inner
  <2> HIDE DEF x
  <2> QED
    BY <1>1
<1>4. PICK y \in Inside(schema, Inside(schema, {Root(type)})) : y.path = Append(x.path, inner)
  <2> DEFINE y == Inner(schema, x, k)
  <2>1. y \in Inside(schema, Inside(schema, {Root(type)}))
    <3> HIDE DEF x
    <3> QED
      BY <1>2, <1>3 DEF Inside
  <2>2. y.path = Append(x.path, inner)
    <3> HIDE DEF x, inner
    <3> QED
      BY <1>3 DEF Inner
  <2> QED
    BY <2>1, <2>2
<1> HIDE DEF x, outer, inner
<1>5. y.path = <<outer, inner>>
  <2>1. Append(<<outer>>, inner) = <<outer, inner>>
    BY AppendOne
  <2>2. x.path = <<outer>>
    BY <1>1
  <2>3. y.path = Append(<<outer>>, inner)
    BY <1>4, <2>2, Zenon
  <2> QED
    BY <2>1, <2>3, Zenon
<1>6. y \in Places(schema, type)
  BY <1>4 DEF Places
<1> QED
  BY <1>5, <1>6 DEF Paths, outer, inner

-----------------------------------------------------------------------------
(* What clients send and methods return *)

\* The types of the messages are types of the schema.
LEMMA MessageTypes ==
  \A m \in DOMAIN Client :
    Client[m].in \in DOMAIN ClientSchema /\ Client[m].out \in DOMAIN ClientSchema
<1>1. \A m \in UserMethods : /\ G!UsersServiceClient[m].in \in DOMAIN G!UsersTypes
                             /\ G!UsersServiceClient[m].out \in DOMAIN G!UsersTypes
  BY DEF UserMethods, G!UsersServiceClient, G!UsersTypes
<1>2. \A m \in DeviceMethods : /\ G!DeviceServiceClient[m].in \in DOMAIN G!DevicesTypes
                               /\ G!DeviceServiceClient[m].out \in DOMAIN G!DevicesTypes
  BY DEF DeviceMethods, G!DeviceServiceClient, G!DevicesTypes
<1> QED
  BY <1>1, <1>2, UserMethodsAgree, DeviceMethodsAgree DEF Both, Client, ClientSchema

\* The fields that handlers set have their places.
LEMMA IdHasPlace ==
  \A r \in {"UpdateDevice", "GetDevice", "DeleteDevice"} :
    IdPath(r) \in Paths(ClientSchema, Client[r].in)
<1>1. /\ Client["UpdateDevice"].in = "UpdateDeviceRequest"
      /\ Client["GetDevice"].in = "GetDeviceRequest"
      /\ Client["DeleteDevice"].in = "DeleteDeviceRequest"
  BY DEF Both, Client, G!UsersServiceClient, G!DeviceServiceClient
<1>2. /\ {"UpdateDeviceRequest", "GetDeviceRequest", "DeleteDeviceRequest", "Device"}
           \subseteq DOMAIN ClientSchema
      /\ ClientSchema["UpdateDeviceRequest"] = <<G!Field("device", "Device")>>
      /\ ClientSchema["GetDeviceRequest"] = <<G!Field("id", "string")>>
      /\ ClientSchema["DeleteDeviceRequest"] = <<G!Field("id", "string")>>
      /\ ClientSchema["Device"] = G!Device
  BY DEF Both, ClientSchema, G!UsersTypes, G!DevicesTypes, G!UpdateDeviceRequest,
         G!GetDeviceRequest, G!DeleteDeviceRequest
<1>3. /\ 1 \in DOMAIN ClientSchema["GetDeviceRequest"]
      /\ ClientSchema["GetDeviceRequest"][1].name = "id"
      /\ 1 \in DOMAIN ClientSchema["DeleteDeviceRequest"]
      /\ ClientSchema["DeleteDeviceRequest"][1].name = "id"
      /\ 1 \in DOMAIN ClientSchema["UpdateDeviceRequest"]
      /\ ClientSchema["UpdateDeviceRequest"][1].name = "device"
      /\ ClientSchema["UpdateDeviceRequest"][1].type = "Device"
      /\ 1 \in DOMAIN ClientSchema["Device"]
      /\ ClientSchema["Device"][1].name = "id"
  BY <1>2 DEF G!Field, G!Device
<1>4. <<"id">> \in Paths(ClientSchema, "GetDeviceRequest")
  BY <1>2, <1>3, OneDeep
<1>5. <<"id">> \in Paths(ClientSchema, "DeleteDeviceRequest")
  BY <1>2, <1>3, OneDeep
<1>6. <<"device", "id">> \in Paths(ClientSchema, "UpdateDeviceRequest")
  BY <1>2, <1>3, TwoDeep
<1> QED
  BY <1>1, <1>4, <1>5, <1>6 DEF IdPath

LEMMA TokenHasPlace == TokenPath \in Paths(ServerSchema, Server["LoginUser"])
<1>1. Server["LoginUser"] = "RegisterUserResponse"
  BY DEF Both, Server, S!UsersServiceServer
<1>2. /\ {"RegisterUserResponse", "Token"} \subseteq DOMAIN ServerSchema
      /\ ServerSchema["RegisterUserResponse"] = S!RegisterUserResponse
      /\ ServerSchema["Token"] = S!Token
  BY DEF Both, ServerSchema, S!UsersTypes, S!DevicesTypes
<1>3. /\ 2 \in DOMAIN ServerSchema["RegisterUserResponse"]
      /\ ServerSchema["RegisterUserResponse"][2].name = "token"
      /\ ServerSchema["RegisterUserResponse"][2].type = "Token"
      /\ 1 \in DOMAIN ServerSchema["Token"]
      /\ ServerSchema["Token"][1].name = "stringToken"
  BY <1>2 DEF S!RegisterUserResponse, S!Token, S!Field
<1>4. <<"token", "stringToken">> \in Paths(ServerSchema, "RegisterUserResponse")
  BY <1>2, <1>3, TwoDeep
<1> QED
  BY <1>1, <1>4 DEF TokenPath

\* What clients send and methods return are messages of their types.
LEMMA FullFits == ASSUME NEW schema, NEW type PROVE MessageOf(Full(schema, type), schema, type)
BY DEF Full, Leaf, MessageOf

LEMMA VariantsFit ==
  ASSUME NEW schema, NEW type \in DOMAIN schema, NEW msg \in Variants(schema, type)
  PROVE  MessageOf(msg, schema, type)
<1>1. CASE msg = Sparse(schema, type)
  BY <1>1, OneDeep DEF Sparse, Leaf, MessageOf
<1>2. CASE msg = Shallow(schema, type)
  <2> DEFINE one == Inside(schema, {Root(type)})
             two == Inside(schema, one)
  <2>1. one \cup two \subseteq Places(schema, type)
    BY DEF Places
  <2>2. ASSUME NEW x \in one \cup two PROVE x.path \in Paths(schema, type)
    BY <2>1 DEF Paths
  <2>3. \A l \in msg : \E x \in one \cup two : l = Leaf(x.path)
    BY <1>2 DEF Shallow
  <2> HIDE DEF one, two
  <2> QED
    BY <2>2, <2>3 DEF Leaf, MessageOf
<1> QED
  BY <1>1, <1>2, FullFits DEF Variants, MessageOf

LEMMA RequestsFit ==
  ASSUME NEW m \in DOMAIN Client, NEW msg \in Requests[m]
  PROVE  MessageOf(msg, ClientSchema, Client[m].in)
BY MessageTypes, VariantsFit DEF Requests

LEMMA ResponsesFit ==
  ASSUME NEW m \in DOMAIN Client, NEW msg \in Responses[m]
  PROVE  MessageOf(msg, ServerSchema, Server[m])
BY FullFits DEF Responses, MessageOf

LEMMA RoutesAreMethods == Routes \subseteq DOMAIN Client
BY MethodsAgree DEF Routes, UserMethods, DeviceMethods

LEMMA MessageFits ==
  ASSUME NEW r \in Routes, NEW body, MessageOf(body, ClientSchema, Client[r].in), NEW id
  PROVE  MessageOf(Message(r, body, id), ClientSchema, Client[r].in)
BY IdHasPlace DEF Message, MessageOf

-----------------------------------------------------------------------------
(* The messages of a job *)

RequestOf(j) == MessageOf(j.msg, ClientSchema, Client[j.method].in)
ReplyOf(j) == MessageOf(j.reply, ServerSchema, Server[j.method])

\* A response of LoginUser has one token, which is one of USERS.
Grants(msg) ==
  \E t \in Tokens : {l \in msg : l.path = TokenPath} = {[path |-> TokenPath, value |-> t]}

\* The values of the fields that have no invariant of their own.
Typed(j) ==
  /\ j.pc = "idle" \/ j.method \in DOMAIN Client
  /\ j.method \in DOMAIN Client \cup {"none"}
  /\ j.pc = "answered" => j.status \in Statuses \ {"none"}
  /\ j.late \in BOOLEAN /\ j.outcome \in {"none", "ok", "error"}

\* What a client has sent is a message of the type that the method takes, what has
\* arrived is what was sent, and what was returned is of the type that it returns.
Intact(j) ==
  /\ j.pc \in {"auth", "handle"} =>
       j.method \in Routes /\ (j.msg = Malformed \/ RequestOf(j))
  /\ j.pc \in {"invoke", "wire"} => RequestOf(j)
  /\ j.ran > 0 => j.got = j.msg
  /\ j.pc = "reply" /\ j.outcome = "ok" => ReplyOf(j)
  /\ j.status = "ok" => j.seen = j.reply
  /\ j.method = "LoginUser" /\ ((j.pc = "reply" /\ j.outcome = "ok") \/ j.status = "ok") =>
       Grants(j.reply)

Sound(j) == Typed(j) /\ Intact(j)

AllSound == \A c \in Clients : Sound(job[c])

LEMMA IdleIsSound == Sound(Idle)
BY DEF Sound, Idle, Typed, Intact

LEMMA SetSound ==
  ASSUME Inv, AllSound, NEW c \in Clients, NEW j, Set(c, j), Sound(j)
  PROVE  AllSound'
<1>1. /\ DOMAIN job' = Clients /\ job'[c] = j
      /\ \A d \in Clients : d # c => job'[d] = job[d]
  BY DEF Set, Inv
<1>2. \A d \in Clients : Sound(job'[d])
  BY <1>1 DEF AllSound
<1> QED
  BY <1>2 DEF AllSound, Sound, Typed, Intact, RequestOf, ReplyOf

LEMMA HttpSound == ASSUME Inv, AllSound, NEW c \in Web, Http(c) PROVE AllSound'
<1>1. PICK r \in Routes, h \in Headers(c) : \E body \in Bodies(r), id \in {IdPath(r), NotUtf8} :
        Set(c, [Idle EXCEPT !.pc = "auth", !.method = r, !.header = h,
                            !.late = h \in expired, !.id = id, !.msg = body])
  BY DEF Http
<1>2. PICK body \in Bodies(r), id \in {IdPath(r), NotUtf8} :
        Set(c, [Idle EXCEPT !.pc = "auth", !.method = r, !.header = h,
                            !.late = h \in expired, !.id = id, !.msg = body])
  BY <1>1
<1> DEFINE j == [Idle EXCEPT !.pc = "auth", !.method = r, !.header = h,
                             !.late = h \in expired, !.id = id, !.msg = body]
<1>3. r \in DOMAIN Client
  BY RoutesAreMethods
<1>4. body = Malformed \/ MessageOf(body, ClientSchema, Client[r].in)
  BY <1>3, RequestsFit DEF Bodies, MessageOf
<1>5. Sound(j)
  BY <1>3, <1>4 DEF Sound, Idle, Typed, Intact, RequestOf
<1> QED
  BY <1>2, <1>5, SetSound DEF Clients

LEMMA DirectSound == ASSUME Inv, AllSound, NEW c \in Programs, Direct(c) PROVE AllSound'
<1>1. PICK m \in Called : \E msg \in Requests[m] :
        Set(c, [Idle EXCEPT !.pc = "invoke", !.method = m, !.msg = msg])
  BY DEF Direct
<1>2. PICK msg \in Requests[m] : Set(c, [Idle EXCEPT !.pc = "invoke", !.method = m, !.msg = msg])
  BY <1>1
<1>3. m \in DOMAIN Client
  BY CallsAssumption DEF Both, Client
<1>4. MessageOf(msg, ClientSchema, Client[m].in)
  BY <1>3, RequestsFit
<1>5. Sound([Idle EXCEPT !.pc = "invoke", !.method = m, !.msg = msg])
  BY <1>3, <1>4 DEF Sound, Idle, Typed, Intact, RequestOf
<1> QED
  BY <1>2, <1>5, SetSound DEF Clients

LEMMA AuthorizeSound == ASSUME Inv, AllSound, NEW c \in Clients, Authorize(c) PROVE AllSound'
<1>1. Good(job[c]) /\ Sound(job[c]) /\ job[c].pc = "auth"
  BY DEF Inv, AllSound, Good, Authorize, At
<1>2. Sound([job[c] EXCEPT !.pc = "handle"])
  BY <1>1 DEF Good, Shaped, Fields, RanFits, PCs, Sound, Typed, Intact, RequestOf
<1>3. Sound([job[c] EXCEPT !.pc = AfterRefusal, !.status = "unauthorized"])
  BY <1>1 DEF Good, Shaped, Fields, RanFits, PCs, Sound, Typed, Intact, RequestOf,
              AfterRefusal, Statuses
<1> QED
  BY <1>2, <1>3, SetSound DEF Authorize

\* A job that is answered without success.
LEMMA AnsweredIsSound ==
  ASSUME Inv, AllSound, NEW c \in Clients,
         job[c].pc \in {"handle", "invoke", "wire", "running", "reply"},
         NEW s \in {"error", "badRequest", "recovered"}
  PROVE  Sound(Answered(job[c], s))
<1>1. Good(job[c]) /\ Sound(job[c])
  BY DEF Inv, AllSound, Good
<1> QED
  BY <1>1 DEF Answered, Good, Shaped, Fields, RanFits, PCs, Sound, Typed, Intact, Statuses

LEMMA HandleSound == ASSUME Inv, AllSound, NEW c \in Clients, Handle(c) PROVE AllSound'
<1>1. Good(job[c]) /\ Sound(job[c]) /\ job[c].pc = "handle"
  BY DEF Inv, AllSound, Good, Handle, At
<1> DEFINE g == Message(job[c].method, job[c].msg, job[c].id)
           j == [job[c] EXCEPT !.pc = "invoke", !.msg = g]
<1>2. \/ \E s \in {"badRequest", "recovered"} : Set(c, Answered(job[c], s))
      \/ job[c].msg # Malformed /\ Set(c, j)
  BY DEF Handle
<1>3. ASSUME job[c].msg # Malformed PROVE Sound(j)
  <2>1. MessageOf(g, ClientSchema, Client[job[c].method].in)
    BY <1>1, <1>3, MessageFits DEF Sound, Intact, RequestOf
  <2> HIDE DEF g
  <2> QED
    BY <1>1, <2>1 DEF Good, Shaped, Fields, RanFits, PCs, Sound, Typed, Intact, RequestOf
<1> QED
  BY <1>1, <1>2, <1>3, AnsweredIsSound, SetSound

LEMMA InvokeSound == ASSUME Inv, AllSound, NEW c \in Clients, Invoke(c) PROVE AllSound'
<1>1. Good(job[c]) /\ Sound(job[c]) /\ job[c].pc = "invoke"
  BY DEF Inv, AllSound, Good, Invoke, At
<1>2. Sound([job[c] EXCEPT !.pc = "wire"])
  BY <1>1 DEF Good, Shaped, Fields, RanFits, PCs, Sound, Typed, Intact, RequestOf
<1> QED
  BY <1>1, <1>2, AnsweredIsSound, SetSound DEF Invoke

\* The request arrives as it was sent, because the two copies of the protocol agree.
LEMMA DispatchSound == ASSUME Inv, AllSound, NEW c \in Clients, Dispatch(c) PROVE AllSound'
<1>1. Good(job[c]) /\ Sound(job[c]) /\ job[c].pc = "wire"
  BY DEF Inv, AllSound, Good, Dispatch, At
<1> DEFINE got == Received(RequestCarry[job[c].method], job[c].msg)
           j == [job[c] EXCEPT !.pc = "running", !.ran = @ + 1, !.got = got]
           k == [job[c] EXCEPT !.pc = "reply", !.outcome = "error"]
<1>2. Set(c, j) \/ Set(c, k)
  BY DEF Dispatch
<1>3. got = job[c].msg
  BY <1>1, CarriedIntact DEF Sound, Typed, Intact, RequestOf
<1> HIDE DEF got
<1>4. Sound(j)
  BY <1>1, <1>3 DEF Good, Shaped, Fields, RanFits, PCs, Sound, Typed, Intact
<1>5. Sound(k)
  BY <1>1 DEF Good, Shaped, Fields, RanFits, PCs, Sound, Typed, Intact
<1> QED
  BY <1>2, <1>4, <1>5, SetSound

LEMMA BreakSound == ASSUME Inv, AllSound, NEW s \in Services, Break(s) PROVE AllSound'
<1>1. PICK kept : job' = [c \in Clients |-> IF c \in InFlight(s) \ kept
                                            THEN Lost(job[c]) ELSE job[c]]
  BY DEF Break
<1>2. \A c \in InFlight(s) \ kept : Sound(Lost(job[c]))
  BY AnsweredIsSound DEF InFlight, Lost
<1>3. \A c \in Clients : Sound(job'[c])
  BY <1>1, <1>2 DEF AllSound
<1> QED
  BY <1>3 DEF AllSound, Sound, Typed, Intact, RequestOf, ReplyOf

LEMMA RunFailsSound == ASSUME Inv, AllSound, NEW c \in Clients, RunFails(c) PROVE AllSound'
<1>1. Good(job[c]) /\ Sound(job[c]) /\ job[c].pc = "running"
  BY DEF Inv, AllSound, Good, RunFails, At
<1>2. Sound([job[c] EXCEPT !.pc = "reply", !.outcome = "error"])
  BY <1>1 DEF Good, Shaped, Fields, RanFits, PCs, Sound, Typed, Intact
<1> QED
  BY <1>2, SetSound DEF RunFails

LEMMA RunSucceedsSound ==
  ASSUME Inv, AllSound, NEW c \in Clients, RunSucceeds(c)
  PROVE  AllSound' /\ issued' \in SUBSET (issued \cup Tokens) /\ issued \subseteq issued'
<1>1. Good(job[c]) /\ Sound(job[c]) /\ job[c].pc = "running"
  BY DEF Inv, AllSound, Good, RunSucceeds, At
<1>2. PICK r \in Responses[job[c].method] :
        IF job[c].method = "LoginUser"
        THEN \E t \in Tokens \ issued :
               /\ issued' = issued \cup {t}
               /\ Set(c, [job[c] EXCEPT !.pc = "reply", !.outcome = "ok",
                    !.reply = {l \in r : l.path # TokenPath}
                              \cup {[path |-> TokenPath, value |-> t]}])
        ELSE /\ Set(c, [job[c] EXCEPT !.pc = "reply", !.outcome = "ok", !.reply = r])
             /\ UNCHANGED issued
  BY DEF RunSucceeds
<1>3. MessageOf(r, ServerSchema, Server[job[c].method])
  BY <1>1, ResponsesFit DEF Sound, Typed
<1>4. CASE job[c].method # "LoginUser"
  <2>1. Sound([job[c] EXCEPT !.pc = "reply", !.outcome = "ok", !.reply = r])
    BY <1>1, <1>3, <1>4 DEF Good, Shaped, Fields, RanFits, PCs, Sound, Typed, Intact, ReplyOf
  <2> QED
    BY <1>2, <1>4, <2>1, SetSound
<1>5. CASE job[c].method = "LoginUser"
  <2>1. PICK t \in Tokens \ issued :
          /\ issued' = issued \cup {t}
          /\ Set(c, [job[c] EXCEPT !.pc = "reply", !.outcome = "ok",
               !.reply = {l \in r : l.path # TokenPath}
                         \cup {[path |-> TokenPath, value |-> t]}])
    BY <1>2, <1>5
  <2> DEFINE g == {l \in r : l.path # TokenPath} \cup {[path |-> TokenPath, value |-> t]}
  <2>2. MessageOf(g, ServerSchema, Server[job[c].method])
    BY <1>3, <1>5, TokenHasPlace DEF MessageOf
  <2>3. Grants(g)
    BY DEF Grants
  <2> HIDE DEF g
  <2>4. Sound([job[c] EXCEPT !.pc = "reply", !.outcome = "ok", !.reply = g])
    BY <1>1, <2>2, <2>3 DEF Good, Shaped, Fields, RanFits, PCs, Sound, Typed, Intact, ReplyOf
  <2> QED
    BY <2>1, <2>4, SetSound DEF g
<1> QED
  BY <1>4, <1>5

\* And the response is seen as it was returned.
LEMMA ReceiveSound == ASSUME Inv, AllSound, NEW c \in Clients, Receive(c) PROVE AllSound'
<1>1. Good(job[c]) /\ Sound(job[c]) /\ job[c].pc = "reply" /\ job[c].outcome \in {"ok", "error"}
  BY DEF Inv, AllSound, Good, RanFits, Receive, At
<1> DEFINE got == Received(ResponseCarry[job[c].method], job[c].reply)
           j == [Answered(job[c], job[c].outcome) EXCEPT
                  !.seen = IF job[c].outcome = "ok" THEN got ELSE {}]
<1>2. Set(c, j)
  BY DEF Receive
<1>3. job[c].outcome = "ok" => got = job[c].reply
  BY <1>1, CarriedIntact DEF Sound, Typed, Intact, ReplyOf
<1> HIDE DEF got
<1>4. Sound(j)
  BY <1>1, <1>3 DEF Answered, Good, Shaped, Fields, RanFits, PCs, Sound, Typed, Intact, Statuses
<1> QED
  BY <1>2, <1>4, SetSound

\* The token that a client takes from a response is one of USERS.
LEMMA TokenIsIssued == ASSUME NEW msg, Grants(msg) PROVE TokenOf(msg) \in Tokens
<1>1. PICK t \in Tokens :
        {l \in msg : l.path = TokenPath} = {[path |-> TokenPath, value |-> t]}
  BY DEF Grants
<1> DEFINE g == CHOOSE l \in msg : l.path = TokenPath
<1>2. \E l \in msg : l.path = TokenPath
  BY <1>1
<1>3. g \in msg /\ g.path = TokenPath
  BY <1>2
<1>4. TokenOf(msg) = g.value
  BY DEF TokenOf
<1> HIDE DEF g
<1>5. g = [path |-> TokenPath, value |-> t]
  BY <1>1, <1>3
<1> QED
  BY <1>4, <1>5

-----------------------------------------------------------------------------
(* All together *)

VariablesFit ==
  /\ up \in [Services -> BOOLEAN]
  /\ expired \subseteq issued /\ issued \subseteq Tokens
  /\ held \in [Web -> Tokens \cup {NoToken}]

CallsInv == Inv /\ AllSound /\ VariablesFit

LEMMA CallsInvInit == Init => CallsInv
BY InvInit, IdleIsSound DEF Init, CallsInv, AllSound, VariablesFit

LEMMA SoundStep == Inv /\ AllSound /\ [Next]_vars => AllSound'
<1> SUFFICES ASSUME Inv, AllSound, [Next]_vars PROVE AllSound'
  OBVIOUS
<1>1. CASE UNCHANGED job
  BY <1>1 DEF AllSound, Sound, Typed, Intact, RequestOf, ReplyOf
<1>2. ASSUME NEW c \in Web, Http(c) PROVE AllSound'
  BY <1>2, HttpSound
<1>3. ASSUME NEW c \in Programs, Direct(c) PROVE AllSound'
  BY <1>3, DirectSound
<1>4. ASSUME NEW c \in Clients, Panic(c) PROVE AllSound'
  <2>1. Service(job[c].method) \in Services
    BY DEF Service, Services
  <2> QED
    BY <1>4, <2>1, BreakSound DEF Panic
<1>5. ASSUME NEW c \in Clients, Proceed(c), ~Panic(c) PROVE AllSound'
  BY <1>5, AuthorizeSound, HandleSound, InvokeSound, DispatchSound, RunFailsSound,
     RunSucceedsSound, ReceiveSound DEF Proceed
<1>6. ASSUME NEW c \in Clients, Done(c) PROVE AllSound'
  BY <1>6, IdleIsSound, SetSound DEF Done
<1>7. ASSUME NEW s \in Services, Crash(s) \/ Reset(s) PROVE AllSound'
  BY <1>7, BreakSound DEF Crash, Reset
<1>8. ASSUME NEW s \in Services, Connect(s) PROVE UNCHANGED job
  BY <1>8 DEF Connect
<1>9. ASSUME NEW t \in Tokens, Expire(t) PROVE UNCHANGED job
  BY <1>9 DEF Expire
<1>10. UNCHANGED vars => UNCHANGED job
  BY DEF vars
<1> QED
  BY <1>1, <1>2, <1>3, <1>4, <1>5, <1>6, <1>7, <1>8, <1>9, <1>10 DEF Next

LEMMA VariablesStep == CallsInv /\ [Next]_vars => VariablesFit'
<1> SUFFICES ASSUME CallsInv, [Next]_vars PROVE VariablesFit'
  OBVIOUS
<1>1. CASE UNCHANGED <<up, issued, expired, held>>
  BY <1>1 DEF CallsInv, VariablesFit
<1>2. ASSUME NEW c \in Clients, Panic(c) PROVE VariablesFit'
  BY <1>2 DEF Panic, CallsInv, VariablesFit
<1>3. ASSUME NEW c \in Clients, RunSucceeds(c) PROVE VariablesFit'
  BY <1>3, RunSucceedsSound DEF RunSucceeds, CallsInv, VariablesFit
<1>4. ASSUME NEW c \in Clients, Done(c) PROVE VariablesFit'
  <2>1. c \in Web /\ job[c].method = "LoginUser" /\ job[c].status = "ok"
          => TokenOf(job[c].seen) \in Tokens
    BY TokenIsIssued DEF CallsInv, AllSound, Sound, Intact
  <2> QED
    BY <1>4, <2>1 DEF Done, CallsInv, VariablesFit
<1>5. ASSUME NEW s \in Services, Crash(s) \/ Reset(s) \/ Connect(s) PROVE VariablesFit'
  BY <1>5 DEF Crash, Reset, Connect, CallsInv, VariablesFit
<1>6. ASSUME NEW t \in Tokens, Expire(t) PROVE VariablesFit'
  BY <1>6 DEF Expire, CallsInv, VariablesFit
<1> QED
  BY <1>1, <1>2, <1>3, <1>4, <1>5, <1>6
     DEF Next, vars, Http, Direct, Proceed, Authorize, Handle, Invoke, Dispatch, RunFails, Receive

LEMMA AlwaysCallsInv == Spec => []CallsInv
<1>1. CallsInv /\ [Next]_vars => CallsInv'
  BY InvStep, SoundStep, VariablesStep DEF CallsInv
<1> QED
  BY <1>1, CallsInvInit, PTL DEF Spec

\* The variables keep their types.
THEOREM TypeCorrect == Spec => []TypeOK
<1>1. ASSUME CallsInv PROVE TypeOK
  BY <1>1 DEF CallsInv, AllSound, Sound, Typed, VariablesFit, Inv, Good, Shaped, RanFits,
              TypeOK, Statuses, PCs
<1> QED
  BY <1>1, AlwaysCallsInv, PTL

\* With the two copies of the protocol as they are, every handler gets what the
\* client's stub was given, and every client sees what the handler returned.
THEOREM MessagesIntact == Spec => []DeliveredIntact
<1>1. ASSUME CallsInv PROVE DeliveredIntact
  BY <1>1 DEF CallsInv, AllSound, Sound, Intact, DeliveredIntact
<1> QED
  BY <1>1, AlwaysCallsInv, PTL

=============================================================================
