----------------------------- MODULE Pagination -----------------------------
(***************************************************************************)
(* The lists of USERS and DEVICES: a page and a limit, as an HTTP or gRPC  *)
(* client writes them, become 32-bit integers, then the skip and the limit *)
(* of a MongoDB query, whose cursor the handler drains batch by batch      *)
(* while documents are inserted.  A client asks for one page, or walks     *)
(* from page to page until one comes back short; or it asks for the users  *)
(* of an address, which updates change while the cursor is drained.        *)
(*                                                                         *)
(* Documents come in the order of their insertion (the natural order).     *)
(* One that {"deleted": false} matches goes on matching it: no handler of  *)
(* USERS ever marks a document (DeletedUserFrozen, and doc_delete).        *)
(***************************************************************************)
EXTENDS Integers, Sequences, SequencesExt

CONSTANTS
  Half,      \* the int32 are -Half .. Half - 1; 2^31 in the code
  Numbers,   \* what clients write for a page or a limit, none beyond 64 bits
  NaN,       \* a query parameter that is no number
  Limits,    \* the limits with which clients walk
  Batch,     \* documents in one batch of a cursor
  MaxDocs    \* bound: documents in the collection

ASSUME PaginationAssumption ==
  /\ Half \in Nat \ {0, 1} /\ Batch \in Nat \ {0} /\ MaxDocs \in Nat
  /\ Numbers \subseteq Int /\ NaN \notin Int
  /\ Limits \subseteq 1 .. Half - 1

VARIABLES
  docs,    \* the collection: for each document, does {"deleted": false} match it
  here,    \* the documents with the address that clients ask for
  pc,      \* where the request stands
  ask,     \* the page and the limit the client means
  walking, \* the client walks from page to page
  sent,    \* the page and the limit that reach the service
  pos,     \* how many documents the cursor has passed; by address, the last of them
  page,    \* the documents in the response so far
  failed,  \* the response is an error
  \* History of the client:
  seen,    \* what the walk has brought so far
  before,  \* how many documents there were when it, or the one request, began
  moved    \* documents whose address has changed since a request by address began

vars == <<docs, here, pc, ask, walking, sent, pos, page, failed, seen, before, moved>>

-----------------------------------------------------------------------------
(* Integers of 32 bits *)

Int32 == -Half .. Half - 1

Wrap(x) == ((x + Half) % (2 * Half)) - Half

\* Pages that count from 0.
SkipFromZero(p, l) == Wrap(p * l)

\* skip := (req.Page - 1) * req.Limit, in int32.
Skip(p, l) == Wrap(Wrap(p - 1) * l)

\* The same without the conversion.
ParseWide(x) == IF x = NaN THEN 0 ELSE x

\* strconv.Atoi, its error discarded, and the conversion to int32.
Parse(x) == IF x = NaN THEN 0 ELSE Wrap(x)

-----------------------------------------------------------------------------
(* MongoDB *)

\* The filter dropped from the query.
Everything(d) == [k \in 1 .. Len(d) |-> k]

\* What MongoDB finds: the documents that match, in natural order.
Find(d) ==
  LET found[k \in 0 .. Len(d)] ==
        IF k = 0 THEN <<>> ELSE IF d[k] THEN Append(found[k - 1], k) ELSE found[k - 1]
  IN found[Len(d)]

\* A negative limit counts as its absolute value, and 0 as none.
Bounded(l) == l # 0
Abs(l) == IF l < 0 THEN -l ELSE l

\* The documents of the next batch, after the first k that match.
NextBatch(k, l) ==
  LET room == IF Bounded(l) THEN Min({Batch, Abs(l) - Len(page)}) ELSE Batch
      m    == Find(docs)
  IN SubSeq(m, k + 1, Min({k + room, Len(m)}))

\* {"profile.address": .., "deleted": false} matches the document.
Lives(k) == docs[k] /\ k \in here

\* Those that it matches after the one with number p.
Addressed(p) == [k \in 1 .. Len(docs) |-> Lives(k) /\ p < k]

\* The next batch from a cursor that counts the documents it has passed.
CountAddressed ==
  LET m == Find(Addressed(0))
      n == Len(page)
  IN SubSeq(m, n + 1, Min({n + Batch, Len(m)}))

\* The next batch, from a cursor that knows the place it has reached.
NextAddressed ==
  LET m == Find(Addressed(pos)) IN SubSeq(m, 1, Min({Batch, Len(m)}))

-----------------------------------------------------------------------------
ByAddress == {"findByAddress", "moreByAddress", "listed"}

Requested == [page : Numbers \cup {NaN} \cup Int32,
              limit : Numbers \cup {NaN} \cup Int32]

TypeOK ==
  /\ docs \in Seq(BOOLEAN) /\ Len(docs) <= MaxDocs
  /\ here \subseteq 1 .. MaxDocs /\ moved \subseteq 1 .. MaxDocs
  /\ pc \in {"idle", "find", "more", "answered"} \cup ByAddress
  /\ ask \in Requested
  /\ sent \in [page : Int32, limit : Int32]
  /\ walking \in BOOLEAN /\ failed \in BOOLEAN
  /\ pos \in 0 .. MaxDocs + Half
  /\ page \in Seq(1 .. MaxDocs) /\ seen \in Seq(1 .. MaxDocs)
  /\ before \in 0 .. MaxDocs

Nothing == [page |-> 0, limit |-> 0]

Init ==
  /\ docs = <<>> /\ here = {} /\ pc = "idle"
  /\ ask = Nothing /\ sent = Nothing
  /\ walking = FALSE /\ failed = FALSE
  /\ pos = 0 /\ page = <<>> /\ seen = <<>> /\ before = 0 /\ moved = {}

\* A document is inserted, perhaps one that {"deleted": false} does not match, and
\* perhaps with the address.
Insert ==
  /\ Len(docs) < MaxDocs
  /\ \E matches \in BOOLEAN :
       /\ docs' = Append(docs, matches)
       /\ \/ UNCHANGED here
          \/ matches /\ here' = here \cup {Len(docs) + 1}
  /\ UNCHANGED <<pc, ask, walking, sent, pos, page, failed, seen, before, moved>>

\* UpdateUser gives a user the address, or another one.
Move(k) ==
  /\ docs[k]
  /\ here' = IF k \in here THEN here \ {k} ELSE here \cup {k}
  /\ moved' = IF pc \in ByAddress THEN moved \cup {k} ELSE moved
  /\ UNCHANGED <<docs, pc, ask, walking, sent, pos, page, failed, seen, before>>

Request(a, s) ==
  /\ ask' = a /\ sent' = s
  /\ pc' = "find"
  /\ page' = <<>> /\ pos' = 0 /\ failed' = FALSE
  /\ UNCHANGED <<docs, here, moved>>

\* The gateway's GetAllDevices, from the query parameters.
AskDevices ==
  /\ pc = "idle"
  /\ \E p, l \in Numbers \cup {NaN} :
       Request([page |-> p, limit |-> l], [page |-> Parse(p), limit |-> Parse(l)])
  /\ walking' = FALSE /\ seen' = <<>> /\ before' = Len(docs)

\* The gateway's GetAllUsers sends an empty request: page 0 of limit 0.
AskAll ==
  /\ pc = "idle"
  /\ Request([page |-> 0, limit |-> 0], [page |-> 0, limit |-> 0])
  /\ walking' = FALSE /\ seen' = <<>> /\ before' = Len(docs)

\* GetUsersByAddress asks for neither a page nor a limit.
AskByAddress ==
  /\ pc = "idle"
  /\ pc' = "findByAddress"
  /\ page' = <<>> /\ pos' = 0 /\ failed' = FALSE
  /\ walking' = FALSE /\ seen' = <<>> /\ before' = Len(docs) /\ moved' = {}
  /\ UNCHANGED <<docs, here, ask, sent>>

\* A gRPC client starts to walk.
StartWalk ==
  /\ pc = "idle"
  /\ \E l \in Limits :
       LET a == [page |-> 1, limit |-> l] IN Request(a, a)
  /\ walking' = TRUE /\ seen' = <<>> /\ before' = Len(docs)

-----------------------------------------------------------------------------
(* The handler *)

Respond(p, ok) ==
  /\ page' = p
  /\ failed' = ~ok
  /\ pc' = "answered"
  /\ UNCHANGED <<docs, here, ask, walking, sent, pos, seen, before, moved>>

\* A batch that is not full, or that fills the limit, closes the cursor; with a
\* negative limit the first one does.
Receive(k) ==
  LET b == NextBatch(k, sent.limit) IN
  /\ page' = page \o b
  /\ pos' = k + Len(b)
  /\ pc' = IF Len(b) < Batch \/ sent.limit < 0
              \/ (Bounded(sent.limit) /\ Len(page') = Abs(sent.limit))
           THEN "answered" ELSE "more"
  /\ UNCHANGED <<docs, here, ask, walking, sent, failed, seen, before, moved>>

\* MongoDB refuses a negative skip, and otherwise answers with the first
\* batch.
First ==
  LET skip == Skip(sent.page, sent.limit) IN
  /\ pc = "find"
  /\ \/ skip < 0 /\ Respond(<<>>, FALSE)
     \/ skip >= 0 /\ Receive(skip)
     \/ Respond(<<>>, FALSE)

\* cursor.Next fetches another batch.  If that fails, cursor.Err makes an error
\* of the whole response.
More ==
  /\ pc = "more"
  /\ Receive(pos) \/ Respond(<<>>, FALSE)

\* GetUserByAddress drains its cursor in the same way.  A document keeps its place
\* when it is updated, and the cursor goes on from the place that it has reached.
Collect ==
  LET b == NextAddressed IN
  /\ page' = page \o b
  /\ pos' = IF b = <<>> THEN pos ELSE Last(b)
  /\ pc' = IF Len(b) < Batch THEN "listed" ELSE "moreByAddress"
  /\ UNCHANGED failed

FindByAddress ==
  /\ pc \in {"findByAddress", "moreByAddress"}
  /\ \/ Collect
     \/ page' = <<>> /\ failed' = TRUE /\ pc' = "listed" /\ UNCHANGED pos
  /\ UNCHANGED <<docs, here, ask, walking, sent, seen, before, moved>>

-----------------------------------------------------------------------------
(* The client *)

\* Nothing is kept of a request that has been answered.
Leave ==
  /\ pc' = "idle"
  /\ ask' = Nothing /\ sent' = Nothing
  /\ walking' = FALSE /\ failed' = FALSE
  /\ pos' = 0 /\ page' = <<>> /\ seen' = <<>> /\ before' = 0 /\ moved' = {}
  /\ UNCHANGED <<docs, here>>

\* The client of one page or of an address has its answer; a walk ends with a short
\* page.
Done ==
  /\ \/ pc = "listed"
     \/ /\ pc = "answered"
        /\ ~walking \/ (~failed /\ Len(page) < sent.limit)
  /\ Leave

\* The next page, or the same once more after an error.
Continue ==
  LET a == [ask EXCEPT !.page = IF failed THEN @ ELSE @ + 1] IN
  /\ pc = "answered" /\ walking
  /\ failed \/ Len(page) = sent.limit
  /\ a.page \in Int32
  /\ Request(a, a)
  /\ seen' = IF failed THEN seen ELSE seen \o page
  /\ UNCHANGED <<walking, before>>

Next ==
  \/ Insert \/ \E k \in DOMAIN docs : Move(k)
  \/ AskDevices \/ AskAll \/ AskByAddress \/ StartWalk
  \/ First \/ More \/ FindByAddress
  \/ Done \/ Continue

Spec == Init /\ [][Next]_vars

-----------------------------------------------------------------------------
(* Properties *)

\* The documents a reader may expect, written down independently of Find: the
\* i-th of them is the one with i of them up to it.
UpTo(d, k) == Cardinality({j \in 1 .. k : d[j]})

Listed(d) ==
  [i \in 1 .. UpTo(d, Len(d)) |-> CHOOSE k \in 1 .. Len(d) : d[k] /\ UpTo(d, k) = i]

\* The p-th block of l among the documents d, all of them if l is 0.
Block(d, p, l) ==
  LET m == Listed(d) IN
  IF l = 0 THEN m ELSE SubSeq(m, (p - 1) * l + 1, Min({p * l, Len(m)}))

\* The request fits the integers it is computed with.
Fits(a) ==
  /\ a.page \in Int32 /\ a.limit \in Int32
  /\ a.limit = 0 \/ (a.page >= 1 /\ a.limit >= 1 /\ (a.page - 1) * a.limit < Half)

\* A page that is answered is the block its number names, of the documents at the
\* time: it has all of the block that was there when the request began, and only
\* what is there when it ends.  The only exceptions are requests whose numbers do
\* not fit: the answer may then be any other block of the list.
PageIsBlock ==
  pc = "answered" /\ ~failed /\ Fits(ask) =>
    /\ IsPrefix(Block(SubSeq(docs, 1, before), ask.page, ask.limit), page)
    /\ IsPrefix(page, Block(docs, ask.page, ask.limit))

\* The users of an address, while users move between the batches: the answer has
\* every user who had the address all the time, each once and in order, and nobody
\* who never had it.  Only for those who moved meanwhile does it say nothing; it need
\* not be what the filter matched at any one time.
AddressListed ==
  pc = "listed" /\ ~failed =>
    LET match == {k \in DOMAIN docs : Lives(k)} IN
    /\ \A i, j \in DOMAIN page : i < j => page[i] < page[j]
    /\ (match \cap 1 .. before) \ moved \subseteq Range(page)
    /\ Range(page) \ moved \subseteq match

\* A client that walks to the end while documents are inserted, and asks again
\* for every page that failed, sees each document that was there when it began
\* exactly once, and those inserted later without a gap.
WalkSeesAll ==
  pc = "answered" /\ walking /\ ~failed =>
    LET all == seen \o page IN
    /\ IsPrefix(all, Listed(docs))
    /\ Len(page) < sent.limit => IsPrefix(Listed(SubSeq(docs, 1, before)), all)

=============================================================================
