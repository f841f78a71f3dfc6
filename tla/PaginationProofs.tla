--------------------------- MODULE PaginationProofs ---------------------------
(***************************************************************************)
(* Theorems about Pagination, for every width of the integers, every set   *)
(* of requests, batch and number of documents: types, one page, and a walk *)
(* from page to page.                                                      *)
(***************************************************************************)
EXTENDS Pagination, FiniteSetTheorems, SequenceTheorems, WellFoundedInduction, TLAPS

-----------------------------------------------------------------------------
(* Integers *)

\* A nonempty set of natural numbers has a least element.
LEMMA SmallestIn ==
  ASSUME NEW T \in SUBSET Nat, T # {}
  PROVE  \E x \in T : \A y \in T : x <= y
<1> DEFINE up(n) == 1 .. n
           U == {up(n) : n \in T}
           R == StrictSubsetOrdering(Nat)
<1>1. U \subseteq FiniteSubsetsOf(Nat) /\ U # {}
  <2>1. \A n \in Nat : up(n) \subseteq Nat /\ IsFiniteSet(up(n))
    BY FS_Interval
  <2> HIDE DEF up
  <2> QED
    BY <2>1 DEF FiniteSubsetsOf
<1>2. PICK u \in U : \A w \in U : <<w, u>> \notin R
  <2> HIDE DEF U, R
  <2>1. IsWellFoundedOn(StrictSubsetOrdering(Nat), FiniteSubsetsOf(Nat))
    BY FS_StrictSubsetOrderingWellFounded
  <2> QED
    BY <1>1, <2>1, WFMin DEF R
<1>3. PICK x \in T : u = up(x)
  OBVIOUS
<1>4. ASSUME NEW y \in T, y < x PROVE FALSE
  <2>1. up(y) \subseteq up(x) /\ up(y) # up(x) /\ up(x) \subseteq Nat /\ up(y) \subseteq Nat
    <3>1. x \in up(x) /\ x \notin up(y)
      BY <1>4
    <3> QED
      BY <1>4, <3>1
  <2>2. up(y) \in U
    OBVIOUS
  <2> HIDE DEF up, U
  <2>3. <<up(y), u>> \in R
    BY <1>3, <2>1 DEF StrictSubsetOrdering
  <2> HIDE DEF R
  <2> QED
    BY <1>2, <2>2, <2>3
<1> QED
  BY <1>4

\* What holds of 0, and of each number after one that it holds of, holds of all:
\* stated of the set of numbers that it holds of.
LEMMA EveryNumber ==
  ASSUME NEW S \in SUBSET Nat, 0 \in S, \A n \in S : n + 1 \in S
  PROVE  S = Nat
<1> SUFFICES ASSUME S # Nat PROVE FALSE
  OBVIOUS
<1>1. PICK x \in Nat \ S : \A y \in Nat \ S : x <= y
  <2>1. Nat \ S # {} /\ Nat \ S \in SUBSET Nat
    OBVIOUS
  <2> QED
    BY <2>1, SmallestIn
<1>2. x # 0 /\ x - 1 \in Nat /\ x = (x - 1) + 1
  BY <1>1
<1>3. x - 1 \in S
  BY <1>1, <1>2
<1> QED
  BY <1>1, <1>2, <1>3

\* The smaller of two numbers.
LEMMA MinOfTwo ==
  ASSUME NEW a \in Int, NEW b \in Int
  PROVE  Min({a, b}) = IF a <= b THEN a ELSE b
<1>1. \E x \in {a, b} : \A y \in {a, b} : x <= y
  OBVIOUS
<1>2. Min({a, b}) \in {a, b} /\ \A y \in {a, b} : Min({a, b}) <= y
  BY <1>1 DEF Min
<1> QED
  BY <1>2

\* Wrapping yields an integer of the width,
LEMMA WrapFits ==
  ASSUME NEW x \in Int
  PROVE  Wrap(x) \in Int32
<1>1. 2 * Half \in Nat /\ 2 * Half > 0 /\ x + Half \in Int
  BY PaginationAssumption
<1>2. (x + Half) % (2 * Half) \in 0 .. 2 * Half - 1
  BY <1>1
<1> QED
  BY <1>2, PaginationAssumption DEF Wrap, Int32

\* changes none that has it,
LEMMA WrapKeeps ==
  ASSUME NEW x \in Int32
  PROVE  Wrap(x) = x
<1> DEFINE a == x + Half
           b == 2 * Half
<1>1. a \in Nat /\ b \in Nat /\ 0 < b /\ a < b
  BY PaginationAssumption DEF Int32
<1>2. a % b = a
  <2> HIDE DEF a, b
  <2> QED
    BY <1>1
<1>3. a - Half = x
  BY PaginationAssumption DEF Int32
<1> QED
  BY <1>2, <1>3 DEF Wrap

\* and makes one negative that is too large by less than Half.
LEMMA WrapTurns ==
  ASSUME NEW x \in Half .. 2 * Half - 1
  PROVE  Wrap(x) < 0
<1> DEFINE a == x + Half
           b == 2 * Half
<1>1. a \in Nat /\ b \in Nat /\ 0 < b /\ b <= a /\ a < b + b
  BY PaginationAssumption
<1>2. a % b = a - b
  <2> HIDE DEF a, b
  <2>1. a = b * 1 + (a - b) /\ a - b \in 0 .. b - 1
    BY <1>1
  <2> QED
    BY <1>1, <2>1
<1>3. (a - b) - Half < 0
  BY PaginationAssumption
<1> QED
  BY <1>2, <1>3 DEF Wrap

-----------------------------------------------------------------------------
(* What MongoDB finds *)

\* One step of the recursion of Find.
Body(d, f, k) ==
  IF k = 0 THEN <<>> ELSE IF d[k] THEN Append(f[k - 1], k) ELSE f[k - 1]

\* The recursion has a solution, and Find is its last value.
LEMMA FindSolves ==
  ASSUME NEW d \in Seq(BOOLEAN)
  PROVE  \E f : f = [k \in 0 .. Len(d) |-> Body(d, f, k)] /\ Find(d) = f[Len(d)]
<1> DEFINE Solved == {n \in Nat : \E f : f = [k \in 0 .. n |-> Body(d, f, k)]}
<1>1. 0 \in Solved
  <2> DEFINE f == [k \in 0 .. 0 |-> <<>>]
  <2>1. f = [k \in 0 .. 0 |-> Body(d, f, k)]
    BY DEF Body
  <2> QED
    BY <2>1
<1>2. \A n \in Solved : n + 1 \in Solved
  <2> SUFFICES ASSUME NEW n \in Nat, NEW f, f = [k \in 0 .. n |-> Body(d, f, k)]
               PROVE  \E g : g = [k \in 0 .. n + 1 |-> Body(d, g, k)]
    OBVIOUS
  <2> DEFINE g == [k \in 0 .. n + 1 |-> Body(d, f, k)]
  <2>1. \A k \in 0 .. n : g[k] = f[k]
    <3>1. \A k \in 0 .. n : f[k] = Body(d, f, k)
      <4> DEFINE h == [k \in 0 .. n |-> Body(d, f, k)]
      <4>1. \A k \in 0 .. n : h[k] = Body(d, f, k)
        OBVIOUS
      <4>2. f = h
        OBVIOUS
      <4> QED
        BY <4>1, <4>2
    <3> QED
      BY <3>1
  <2>2. ASSUME NEW k \in 0 .. n + 1 PROVE Body(d, f, k) = Body(d, g, k)
    <3>1. k = 0 \/ k - 1 \in 0 .. n
      OBVIOUS
    <3> HIDE DEF g
    <3> QED
      BY <2>1, <3>1 DEF Body
  <2>3. g = [k \in 0 .. n + 1 |-> Body(d, g, k)]
    BY <2>2
  <2> QED
    BY <2>3
<1>3. Solved = Nat
  <2>1. Solved \in SUBSET Nat
    OBVIOUS
  <2> HIDE DEF Solved
  <2> QED
    BY <1>1, <1>2, <2>1, EveryNumber
<1>4. Len(d) \in Solved
  BY <1>3
<1> DEFINE found == CHOOSE f : f = [k \in 0 .. Len(d) |-> Body(d, f, k)]
<1>5. found = [k \in 0 .. Len(d) |-> Body(d, found, k)]
  BY <1>4
<1>6. Find(d) = found[Len(d)]
  BY DEF Find, Body
<1> QED
  BY <1>5, <1>6

\* How many documents match among the first: none among none,
LEMMA UpToZero ==
  ASSUME NEW d
  PROVE  UpTo(d, 0) = 0
<1>1. {j \in 1 .. 0 : d[j]} = {}
  OBVIOUS
<1> QED
  BY <1>1, FS_EmptySet DEF UpTo

\* and one more after each one that does.
LEMMA UpToNext ==
  ASSUME NEW d \in Seq(BOOLEAN), NEW k \in Nat, k + 1 <= Len(d)
  PROVE  /\ UpTo(d, k) \in Nat
         /\ UpTo(d, k + 1) = UpTo(d, k) + (IF d[k + 1] THEN 1 ELSE 0)
<1> DEFINE A == {j \in 1 .. k : d[j]}
           B == {j \in 1 .. k + 1 : d[j]}
<1>1. IsFiniteSet(A) /\ k + 1 \notin A
  <2>1. IsFiniteSet(1 .. k)
    BY FS_Interval
  <2> QED
    BY <2>1, FS_Subset
<1>2. Cardinality(A) \in Nat
  BY <1>1, FS_CardinalityType
<1>3. CASE d[k + 1]
  <2>1. B = A \cup {k + 1}
    BY <1>3
  <2> HIDE DEF A, B
  <2>2. Cardinality(B) = Cardinality(A) + 1
    BY <1>1, <2>1, FS_AddElement
  <2> QED
    BY <1>2, <1>3, <2>2 DEF UpTo, A, B
<1>4. CASE ~d[k + 1]
  <2>1. B = A
    BY <1>4
  <2> HIDE DEF A, B
  <2>2. Cardinality(B) = Cardinality(A)
    BY <2>1
  <2> QED
    BY <1>2, <1>4, <2>2 DEF UpTo, A, B
<1> QED
  BY <1>3, <1>4

\* The sequence lists the matching ones among the first n documents, each at its
\* place.
Lists(s, d, n) ==
  /\ s \in Seq(1 .. n) /\ Len(s) = UpTo(d, n)
  /\ \A k \in 1 .. n : d[k] => UpTo(d, k) \in 1 .. Len(s) /\ s[UpTo(d, k)] = k
  /\ \A i \in 1 .. Len(s) : d[s[i]] /\ UpTo(d, s[i]) = i

LEMMA FindLists ==
  ASSUME NEW d \in Seq(BOOLEAN)
  PROVE  Lists(Find(d), d, Len(d))
<1>1. PICK f : f = [k \in 0 .. Len(d) |-> Body(d, f, k)] /\ Find(d) = f[Len(d)]
  BY FindSolves
<1>2. \A k \in 0 .. Len(d) : f[k] = Body(d, f, k)
  <2> DEFINE h == [k \in 0 .. Len(d) |-> Body(d, f, k)]
  <2>1. \A k \in 0 .. Len(d) : h[k] = Body(d, f, k)
    OBVIOUS
  <2>2. f = h
    BY <1>1
  <2> QED
    BY <2>1, <2>2
<1> DEFINE S == {n \in Nat : n <= Len(d) => Lists(f[n], d, n)}
<1>3. 0 \in S
  <2>1. f[0] = <<>>
    BY <1>2 DEF Body
  <2>2. Lists(<<>>, d, 0)
    BY UpToZero DEF Lists
  <2> QED
    BY <2>1, <2>2
<1>4. \A n \in S : n + 1 \in S
  <2> SUFFICES ASSUME NEW n \in Nat, n + 1 <= Len(d), Lists(f[n], d, n)
               PROVE  Lists(f[n + 1], d, n + 1)
    OBVIOUS
  <2> DEFINE s == f[n]
  <2>1. f[n + 1] = IF d[n + 1] THEN Append(s, n + 1) ELSE s
    BY <1>2 DEF Body
  <2>2. /\ UpTo(d, n) \in Nat
        /\ UpTo(d, n + 1) = UpTo(d, n) + (IF d[n + 1] THEN 1 ELSE 0)
    BY UpToNext
  <2> HIDE DEF s
  <2>3. /\ s \in Seq(1 .. n) /\ Len(s) = UpTo(d, n)
        /\ \A k \in 1 .. n : d[k] => UpTo(d, k) \in 1 .. Len(s) /\ s[UpTo(d, k)] = k
        /\ \A i \in 1 .. Len(s) : d[s[i]] /\ UpTo(d, s[i]) = i
    BY DEF Lists, s
  <2>4. CASE d[n + 1]
    <3> DEFINE t == Append(s, n + 1)
    <3>1. /\ t \in Seq(1 .. n + 1) /\ Len(t) = Len(s) + 1 /\ t[Len(s) + 1] = n + 1
          /\ \A i \in 1 .. Len(s) : t[i] = s[i]
      BY <2>3
    <3> HIDE DEF t
    <3>2. UpTo(d, n + 1) = Len(t)
      BY <2>2, <2>3, <2>4, <3>1
    <3>3. \A k \in 1 .. n + 1 : d[k] => UpTo(d, k) \in 1 .. Len(t) /\ t[UpTo(d, k)] = k
      <4> SUFFICES ASSUME NEW k \in 1 .. n + 1, d[k]
                   PROVE  UpTo(d, k) \in 1 .. Len(t) /\ t[UpTo(d, k)] = k
        OBVIOUS
      <4>1. CASE k = n + 1
        BY <2>3, <3>1, <3>2, <4>1
      <4>2. CASE k \in 1 .. n
        <5>1. UpTo(d, k) \in 1 .. Len(s) /\ s[UpTo(d, k)] = k
          BY <2>3, <4>2
        <5> QED
          BY <2>3, <3>1, <5>1
      <4> QED
        BY <4>1, <4>2
    <3>4. \A i \in 1 .. Len(t) : d[t[i]] /\ UpTo(d, t[i]) = i
      <4> SUFFICES ASSUME NEW i \in 1 .. Len(t) PROVE d[t[i]] /\ UpTo(d, t[i]) = i
        OBVIOUS
      <4>1. i \in 1 .. Len(s) \/ i = Len(s) + 1
        BY <2>3, <3>1
      <4> QED
        BY <2>3, <2>4, <3>1, <3>2, <4>1
    <3>5. Lists(t, d, n + 1)
      BY <3>1, <3>2, <3>3, <3>4 DEF Lists
    <3> QED
      BY <2>1, <2>4, <3>5 DEF t
  <2>5. CASE ~d[n + 1]
    <3>1. s \in Seq(1 .. n + 1)
      BY <2>3
    <3>2. Len(s) = UpTo(d, n + 1)
      BY <2>2, <2>3, <2>5
    <3>3. \A k \in 1 .. n + 1 : d[k] => k \in 1 .. n
      BY <2>5
    <3>4. Lists(s, d, n + 1)
      BY <2>3, <3>1, <3>2, <3>3 DEF Lists
    <3> QED
      BY <2>1, <2>5, <3>4
  <2> QED
    BY <2>4, <2>5
<1>5. S = Nat
  <2>1. S \in SUBSET Nat
    OBVIOUS
  <2> HIDE DEF S
  <2> QED
    BY <1>3, <1>4, <2>1, EveryNumber
<1>6. Len(d) \in S
  BY <1>5
<1> QED
  BY <1>1, <1>6

\* What MongoDB finds is what a reader may expect.
LEMMA FindIsListed ==
  ASSUME NEW d \in Seq(BOOLEAN)
  PROVE  Find(d) = Listed(d)
<1> DEFINE F == Find(d)
           at(i) == CHOOSE k \in 1 .. Len(d) : d[k] /\ UpTo(d, k) = i
<1>1. Lists(F, d, Len(d))
  BY FindLists
<1> HIDE DEF F
<1>2. /\ F \in Seq(1 .. Len(d)) /\ Len(F) = UpTo(d, Len(d))
      /\ \A k \in 1 .. Len(d) : d[k] => F[UpTo(d, k)] = k
      /\ \A i \in 1 .. Len(F) : d[F[i]] /\ UpTo(d, F[i]) = i
  BY <1>1 DEF Lists
<1>3. \A i \in 1 .. Len(F) : F[i] = at(i)
  <2> SUFFICES ASSUME NEW i \in 1 .. Len(F) PROVE F[i] = at(i)
    OBVIOUS
  <2>1. F[i] \in 1 .. Len(d) /\ d[F[i]] /\ UpTo(d, F[i]) = i
    BY <1>2
  <2>2. at(i) \in 1 .. Len(d) /\ d[at(i)] /\ UpTo(d, at(i)) = i
    BY <2>1
  <2> HIDE DEF at
  <2> QED
    BY <1>2, <2>2
<1>4. F = [i \in 1 .. Len(F) |-> F[i]]
  BY <1>2
<1>5. F = [i \in 1 .. UpTo(d, Len(d)) |-> at(i)]
  <2> HIDE DEF at
  <2> QED
    BY <1>2, <1>3, <1>4
<1> QED
  BY <1>5 DEF F, Listed

\* It finds the same, and perhaps more, when there are more documents.
LEMMA FindGrows ==
  ASSUME NEW d \in Seq(BOOLEAN), NEW e \in Seq(BOOLEAN),
         Len(d) <= Len(e), \A k \in 1 .. Len(d) : e[k] = d[k]
  PROVE  /\ Find(d) \in Seq(1 .. Len(d)) /\ Find(e) \in Seq(1 .. Len(e))
         /\ Len(Find(d)) <= Len(Find(e))
         /\ \A i \in 1 .. Len(Find(d)) : Find(e)[i] = Find(d)[i]
<1> DEFINE F == Find(d)
           G == Find(e)
<1>1. Lists(F, d, Len(d)) /\ Lists(G, e, Len(e))
  BY FindLists
<1> HIDE DEF F, G
<1>2. /\ F \in Seq(1 .. Len(d))
      /\ \A i \in 1 .. Len(F) : d[F[i]] /\ UpTo(d, F[i]) = i
  BY <1>1 DEF Lists
<1>3. /\ G \in Seq(1 .. Len(e))
      /\ \A k \in 1 .. Len(e) : e[k] => UpTo(e, k) \in 1 .. Len(G) /\ G[UpTo(e, k)] = k
  BY <1>1 DEF Lists
<1>4. ASSUME NEW i \in 1 .. Len(F) PROVE i \in 1 .. Len(G) /\ G[i] = F[i]
  <2>1. F[i] \in 1 .. Len(d) /\ d[F[i]] /\ UpTo(d, F[i]) = i
    BY <1>2
  <2>2. UpTo(e, F[i]) = UpTo(d, F[i])
    <3>1. {j \in 1 .. F[i] : e[j]} = {j \in 1 .. F[i] : d[j]}
      BY <2>1
    <3> QED
      BY <3>1 DEF UpTo
  <2> QED
    BY <1>3, <2>1, <2>2
<1>5. Len(F) <= Len(G)
  <2>1. CASE Len(F) = 0
    BY <1>3, <2>1
  <2>2. CASE Len(F) # 0
    <3>1. Len(F) \in 1 .. Len(F)
      BY <1>2, <2>2
    <3> QED
      BY <1>2, <1>3, <1>4, <3>1
  <2> QED
    BY <2>1, <2>2
<1> QED
  BY <1>2, <1>3, <1>4, <1>5 DEF F, G

\* No more match than there are.
LEMMA UpToBound ==
  ASSUME NEW d, NEW n \in Nat
  PROVE  UpTo(d, n) \in Nat /\ UpTo(d, n) <= n
<1>1. IsFiniteSet(1 .. n) /\ Cardinality(1 .. n) = n
  BY FS_Interval
<1>2. {j \in 1 .. n : d[j]} \subseteq 1 .. n
  OBVIOUS
<1> QED
  BY <1>1, <1>2, FS_Subset, FS_CardinalityType DEF UpTo

\* The first n documents are documents, and what is found of them is found of all.
LEMMA FindOfPart ==
  ASSUME NEW d \in Seq(BOOLEAN), NEW n \in Nat, n <= Len(d)
  PROVE  LET e == SubSeq(d, 1, n) IN
         /\ e \in Seq(BOOLEAN) /\ Find(e) \in Seq(1 .. n) /\ Len(Find(e)) \in Nat
         /\ Len(Find(e)) <= Len(Find(d))
         /\ \A i \in 1 .. Len(Find(e)) : Find(e)[i] = Find(d)[i]
<1> DEFINE e == SubSeq(d, 1, n)
<1>1. /\ e \in Seq(BOOLEAN) /\ Len(e) = n
      /\ \A k \in 1 .. n : d[k] = e[k]
  BY SubSeqProperties
<1> HIDE DEF e
<1>2. /\ Find(e) \in Seq(1 .. Len(e)) /\ Len(Find(e)) <= Len(Find(d))
      /\ \A i \in 1 .. Len(Find(e)) : Find(d)[i] = Find(e)[i]
  BY <1>1, FindGrows
<1>3. Len(Find(e)) \in Nat
  BY <1>2
<1> QED
  BY <1>1, <1>2, <1>3 DEF e

-----------------------------------------------------------------------------
(* The invariant *)

\* Where the page that is asked for begins.
Start == Skip(sent.page, sent.limit)

\* The service gets the numbers the client means, if they fit.
NumbersKept ==
  Fits(ask) => sent.page = ask.page /\ sent.limit = ask.limit

\* What the handler has is a part of the list that begins there.
PageFound ==
  pc \in {"more", "answered"} /\ ~failed =>
    /\ Start >= 0
    /\ \A i \in 1 .. Len(page) :
         Start + i <= Len(Find(docs)) /\ page[i] = Find(docs)[Start + i]

\* While it asks for more, the cursor stands after that part, and the limit is not
\* reached.
CursorStands ==
  /\ pc \in {"find", "more"} => ~failed
  /\ pc = "find" => page = <<>>
  /\ pc = "more" =>
       /\ sent.limit >= 0 /\ page # <<>> /\ pos = Start + Len(page)
       /\ sent.limit # 0 => Len(page) < sent.limit

\* A page ends at its limit or at the end of the list, which had all documents that
\* were there when the request began.
PageEnds ==
  pc = "answered" /\ ~failed /\ sent.limit >= 0 =>
    /\ sent.limit # 0 => Len(page) <= sent.limit
    /\ \/ sent.limit # 0 /\ Len(page) = sent.limit
       \/ Start + Len(page) >= Len(Find(SubSeq(docs, 1, before)))

\* A walk has seen the pages before the one it asks for, which begin the list.  That
\* they are fewer than 2 * Half is what makes the skip of the next page right, or else
\* negative, and so refused.
WalkStands ==
  walking =>
    /\ ask = sent /\ sent.limit \in Limits /\ sent.page >= 1
    /\ Len(seen) = (sent.page - 1) * sent.limit
    /\ Len(seen) <= 2 * Half - 2
    /\ \A i \in 1 .. Len(seen) : i <= Len(Find(docs)) /\ seen[i] = Find(docs)[i]

PageInv ==
  /\ TypeOK /\ before <= Len(docs)
  /\ NumbersKept /\ PageFound /\ CursorStands /\ PageEnds /\ WalkStands

\* The skip is an integer of the width.
LEMMA StartFits ==
  ASSUME TypeOK
  PROVE  Start \in Int32 /\ Start \in Int /\ sent.limit \in Int /\ sent.page \in Int
<1>1. sent.page \in Int32 /\ sent.limit \in Int32
  BY DEF TypeOK
<1>2. \A x \in Int32 : x \in Int
  BY DEF Int32
<1>3. sent.page - 1 \in Int /\ sent.limit \in Int
  BY <1>1, <1>2
<1>4. Wrap(sent.page - 1) \in Int
  BY <1>2, <1>3, WrapFits
<1>5. Wrap(sent.page - 1) * sent.limit \in Int
  BY <1>3, <1>4
<1>6. Start \in Int32
  BY <1>5, WrapFits DEF Start, Skip
<1> QED
  BY <1>1, <1>2, <1>6

\* A walk's next page begins where it stands, or the skip wraps and is negative.
LEMMA WalkStart ==
  ASSUME TypeOK, WalkStands, walking
  PROVE  Start = Len(seen) \/ Start < 0
<1>1. /\ sent.page \in Int32 /\ sent.page >= 1 /\ sent.limit \in 1 .. Half - 1
      /\ Len(seen) = (sent.page - 1) * sent.limit
      /\ Len(seen) \in Nat /\ Len(seen) <= 2 * Half - 2
  <2>1. sent.page \in Int32 /\ seen \in Seq(1 .. MaxDocs)
    BY DEF TypeOK
  <2>2. sent.limit \in 1 .. Half - 1
    BY PaginationAssumption DEF WalkStands
  <2>3. Len(seen) \in Nat
    BY <2>1
  <2> QED
    BY <2>1, <2>2, <2>3 DEF WalkStands
<1>2. sent.page - 1 \in Int32
  BY <1>1, PaginationAssumption DEF Int32
<1>3. Start = Wrap(Len(seen))
  BY <1>1, <1>2, WrapKeeps DEF Start, Skip
<1>4. CASE Len(seen) < Half
  <2>1. Len(seen) \in Int32
    BY <1>1, <1>4, PaginationAssumption DEF Int32
  <2> QED
    BY <1>3, <2>1, WrapKeeps
<1>5. CASE ~(Len(seen) < Half)
  <2>1. Len(seen) \in Half .. 2 * Half - 1
    BY <1>1, <1>5, PaginationAssumption
  <2> QED
    BY <1>3, <2>1, WrapTurns
<1> QED
  BY <1>4, <1>5

\* A batch: what the list has after the first k, up to the limit and to the size of a
\* batch.
LEMMA BatchTaken ==
  ASSUME docs \in Seq(BOOLEAN), Len(page) \in Nat, NEW k \in Nat, NEW l \in Int,
         l # 0 => Len(page) < Abs(l)
  PROVE  LET b == NextBatch(k, l)
             m == Find(docs)
         IN  /\ b \in Seq(1 .. Len(docs)) /\ Len(b) \in 0 .. Batch
             /\ \A i \in 1 .. Len(b) : k + i <= Len(m) /\ b[i] = m[k + i]
             /\ l # 0 => Len(page) + Len(b) <= Abs(l)
             /\ Len(b) < Batch => \/ l # 0 /\ Len(page) + Len(b) = Abs(l)
                                  \/ k + Len(b) >= Len(m)
<1> DEFINE m == Find(docs)
           room == IF Bounded(l) THEN Min({Batch, Abs(l) - Len(page)}) ELSE Batch
           end == Min({k + room, Len(m)})
           b == SubSeq(m, k + 1, end)
<1>1. m \in Seq(1 .. Len(docs)) /\ Len(m) \in Nat
  BY FindGrows
<1>2. Batch \in Nat /\ Batch >= 1
  BY PaginationAssumption
<1>3. /\ room \in 1 .. Batch
      /\ l # 0 => Len(page) + room <= Abs(l)
      /\ room < Batch => l # 0 /\ Len(page) + room = Abs(l)
  <2>1. Abs(l) - Len(page) \in Int /\ Abs(l) \in Int
    BY DEF Abs
  <2>2. Min({Batch, Abs(l) - Len(page)})
          = IF Batch <= Abs(l) - Len(page) THEN Batch ELSE Abs(l) - Len(page)
    BY <1>2, <2>1, MinOfTwo
  <2> QED
    BY <1>2, <2>1, <2>2 DEF Bounded
<1> HIDE DEF m, room
<1>4. end = IF k + room <= Len(m) THEN k + room ELSE Len(m)
  BY <1>1, <1>3, MinOfTwo
<1>5. /\ b \in Seq(1 .. Len(docs))
      /\ Len(b) = IF k + 1 <= end THEN end - k ELSE 0
      /\ \A i \in 1 .. Len(b) : b[i] = m[k + i]
  <2>1. end \in Nat /\ end <= Len(m)
    BY <1>1, <1>3, <1>4
  <2> HIDE DEF end
  <2>2. \A i \in k + 1 .. end : m[i] \in 1 .. Len(docs)
    BY <1>1, <2>1
  <2>3. /\ b \in Seq(1 .. Len(docs))
        /\ Len(b) = IF k + 1 <= end THEN end - (k + 1) + 1 ELSE 0
        /\ \A i \in 1 .. end - (k + 1) + 1 : b[i] = m[k + 1 + i - 1]
    BY <2>1, <2>2, SubSeqProperties
  <2> HIDE DEF b
  <2>4. Len(b) = IF k + 1 <= end THEN end - k ELSE 0
    BY <2>1, <2>3
  <2>5. ASSUME NEW i \in 1 .. Len(b) PROVE b[i] = m[k + i]
    <3>1. i \in 1 .. end - (k + 1) + 1 /\ k + 1 + i - 1 = k + i
      BY <2>1, <2>4
    <3> QED
      BY <2>3, <3>1
  <2> QED
    BY <2>3, <2>4, <2>5
<1> HIDE DEF b, end
<1>6. /\ Len(b) \in 0 .. Batch
      /\ \A i \in 1 .. Len(b) : k + i <= Len(m)
      /\ Len(b) <= room
      /\ Len(b) < room => k + Len(b) >= Len(m)
  <2>1. Len(b) = IF k + 1 <= end THEN end - k ELSE 0
    BY <1>5
  <2>2. room \in 1 .. Batch /\ Len(m) \in Nat
    BY <1>1, <1>3
  <2>3. CASE k + 1 <= end
    BY <1>2, <1>4, <2>1, <2>2, <2>3
  <2>4. CASE ~(k + 1 <= end)
    BY <1>2, <1>4, <2>1, <2>2, <2>4
  <2> QED
    BY <2>3, <2>4
<1>7. l # 0 => Len(page) + Len(b) <= Abs(l)
  BY <1>3, <1>6 DEF Abs
<1>8. Len(b) < Batch => \/ l # 0 /\ Len(page) + Len(b) = Abs(l)
                        \/ k + Len(b) >= Len(m)
  BY <1>2, <1>3, <1>6
<1>9. b = NextBatch(k, l)
  BY DEF b, end, room, m, NextBatch
<1> QED
  BY <1>5, <1>6, <1>7, <1>8, <1>9 DEF m

-----------------------------------------------------------------------------
(* The steps *)

LEMMA InitInv == Init => PageInv
<1> SUFFICES ASSUME Init PROVE PageInv
  OBVIOUS
<1>1. 0 \in Int32
  BY PaginationAssumption DEF Int32
<1>2. TypeOK
  <2>1. /\ <<>> \in Seq(BOOLEAN) /\ <<>> \in Seq(1 .. MaxDocs) /\ Len(<<>>) <= MaxDocs
        /\ 0 \in 0 .. MaxDocs /\ 0 \in 0 .. MaxDocs + Half
    BY PaginationAssumption
  <2>2. sent \in [page : Int32, limit : Int32] /\ ask \in Requested
    BY <1>1 DEF Requested, Init, Nothing
  <2> QED
    BY <2>1, <2>2 DEF TypeOK, Init
<1>3. NumbersKept
  BY DEF NumbersKept, Init, Nothing
<1>4. PageFound /\ CursorStands /\ PageEnds /\ WalkStands
  BY DEF PageFound, CursorStands, PageEnds, WalkStands, Init
<1>5. before <= Len(docs)
  BY DEF Init
<1> QED
  BY <1>2, <1>3, <1>4, <1>5 DEF PageInv

\* A document is inserted: what was found stays where it is.
LEMMA InsertInv == PageInv /\ Insert => PageInv'
<1> SUFFICES ASSUME PageInv, Insert PROVE PageInv'
  OBVIOUS
<1>1. /\ docs \in Seq(BOOLEAN) /\ Len(docs) \in Nat /\ page \in Seq(1 .. MaxDocs)
      /\ seen \in Seq(1 .. MaxDocs) /\ before \in Nat /\ before <= Len(docs)
  BY DEF PageInv, TypeOK
<1>2. /\ docs' \in Seq(BOOLEAN) /\ Len(docs') = Len(docs) + 1
      /\ \A k \in 1 .. Len(docs) : docs'[k] = docs[k]
      /\ Len(docs') <= MaxDocs
  <2>1. PICK b \in BOOLEAN : docs' = Append(docs, b)
    BY DEF Insert
  <2>2. Len(docs) < MaxDocs
    BY DEF Insert
  <2> QED
    BY <1>1, <2>1, <2>2, PaginationAssumption
<1>3. UNCHANGED <<pc, ask, walking, sent, pos, page, failed, seen, before, moved>>
  BY DEF Insert
<1>4. TypeOK'
  <2>1. here' \subseteq 1 .. MaxDocs
    <3>1. here' \subseteq here \cup {Len(docs) + 1}
      BY DEF Insert
    <3>2. here \subseteq 1 .. MaxDocs /\ Len(docs) + 1 \in 1 .. MaxDocs
      BY <1>1, <1>2, PaginationAssumption DEF PageInv, TypeOK
    <3> QED
      BY <3>1, <3>2
  <2> QED
    BY <1>2, <1>3, <2>1 DEF PageInv, TypeOK, Requested
<1>5. /\ Len(Find(docs)) \in Nat /\ Len(Find(docs')) \in Nat
      /\ Len(Find(docs)) <= Len(Find(docs'))
      /\ \A i \in 1 .. Len(Find(docs)) : Find(docs')[i] = Find(docs)[i]
  <2>1. /\ Find(docs) \in Seq(1 .. Len(docs)) /\ Find(docs') \in Seq(1 .. Len(docs'))
        /\ Len(Find(docs)) <= Len(Find(docs'))
        /\ \A i \in 1 .. Len(Find(docs)) : Find(docs')[i] = Find(docs)[i]
    BY <1>1, <1>2, FindGrows
  <2> QED
    BY <2>1
<1>6. SubSeq(docs', 1, before) = SubSeq(docs, 1, before)
  BY <1>1, <1>2
<1>7. Start' = Start /\ Start \in Int
  BY <1>3, StartFits DEF Start, Skip, PageInv
<1>8. NumbersKept' /\ CursorStands'
  BY <1>3, <1>7 DEF PageInv, NumbersKept, CursorStands, Fits, Int32
<1>9. PageFound'
  <2> SUFFICES ASSUME pc \in {"more", "answered"}, ~failed
               PROVE  /\ Start >= 0
                      /\ \A i \in 1 .. Len(page) :
                           /\ Start + i <= Len(Find(docs'))
                           /\ page[i] = Find(docs')[Start + i]
    BY <1>3, <1>7 DEF PageFound
  <2>1. /\ Start >= 0
        /\ \A i \in 1 .. Len(page) :
             Start + i <= Len(Find(docs)) /\ page[i] = Find(docs)[Start + i]
    BY DEF PageInv, PageFound
  <2>2. \A i \in 1 .. Len(page) : Start + i \in 1 .. Len(Find(docs))
    BY <1>1, <1>5, <1>7, <2>1
  <2> QED
    BY <1>1, <1>5, <1>7, <2>1, <2>2
<1>10. PageEnds'
  BY <1>3, <1>6, <1>7 DEF PageInv, PageEnds
<1>11. WalkStands'
  <2> SUFFICES ASSUME walking
               PROVE  \A i \in 1 .. Len(seen) :
                        i <= Len(Find(docs')) /\ seen[i] = Find(docs')[i]
    BY <1>3 DEF PageInv, WalkStands
  <2>1. \A i \in 1 .. Len(seen) : i <= Len(Find(docs)) /\ seen[i] = Find(docs)[i]
    BY DEF PageInv, WalkStands
  <2>2. \A i \in 1 .. Len(seen) : i \in 1 .. Len(Find(docs))
    BY <1>1, <1>5, <2>1
  <2> QED
    BY <1>1, <1>5, <2>1, <2>2
<1> QED
  BY <1>1, <1>2, <1>3, <1>4, <1>8, <1>9, <1>10, <1>11 DEF PageInv

\* A user moves: nothing of a page depends on it.
LEMMA MoveInv ==
  ASSUME PageInv, NEW k \in DOMAIN docs, Move(k)
  PROVE  PageInv'
<1>1. UNCHANGED <<docs, pc, ask, walking, sent, pos, page, failed, seen, before>>
  BY DEF Move
<1>2. TypeOK'
  <2>1. k \in 1 .. MaxDocs
    <3>1. docs \in Seq(BOOLEAN) /\ Len(docs) \in Nat /\ Len(docs) <= MaxDocs
      BY DEF PageInv, TypeOK
    <3>2. k \in 1 .. Len(docs)
      BY <3>1
    <3> QED
      BY <3>1, <3>2, PaginationAssumption
  <2>2. here' \subseteq 1 .. MaxDocs /\ moved' \subseteq 1 .. MaxDocs
    BY <2>1 DEF PageInv, TypeOK, Move
  <2> QED
    BY <1>1, <2>2 DEF PageInv, TypeOK, Requested
<1>3. NumbersKept' /\ PageFound' /\ CursorStands' /\ PageEnds' /\ WalkStands'
  BY <1>1 DEF PageInv, NumbersKept, PageFound, CursorStands, PageEnds, WalkStands, Start
<1> QED
  BY <1>1, <1>2, <1>3 DEF PageInv

\* A request is sent, with the numbers the client means if they fit.
LEMMA RequestInv ==
  ASSUME PageInv, NEW a \in Requested, NEW s \in [page : Int32, limit : Int32],
         Request(a, s), Fits(a) => s.page = a.page /\ s.limit = a.limit,
         walking' \in BOOLEAN, seen' \in Seq(1 .. MaxDocs), before' \in Nat,
         before' <= Len(docs)
  PROVE  WalkStands' => PageInv'
<1> SUFFICES ASSUME WalkStands' PROVE PageInv'
  OBVIOUS
<1>1. /\ ask' = a /\ sent' = s /\ pc' = "find" /\ page' = <<>> /\ pos' = 0
      /\ failed' = FALSE /\ docs' = docs /\ UNCHANGED <<here, moved>>
  BY DEF Request
<1>2. TypeOK'
  <2>1. 0 \in 0 .. MaxDocs + Half /\ before' \in 0 .. MaxDocs
    BY PaginationAssumption DEF PageInv, TypeOK
  <2>2. <<>> \in Seq(1 .. MaxDocs)
    OBVIOUS
  <2> QED
    BY <1>1, <2>1, <2>2 DEF PageInv, TypeOK, Requested
<1>3. NumbersKept'
  BY <1>1 DEF NumbersKept, Fits, Int32
<1>4. PageFound' /\ CursorStands' /\ PageEnds'
  BY <1>1 DEF PageFound, CursorStands, PageEnds
<1> QED
  BY <1>1, <1>2, <1>3, <1>4 DEF PageInv

\* The requests of one page.
LEMMA OneRequestInv ==
  ASSUME PageInv, AskDevices \/ AskAll
  PROVE  PageInv'
<1>1. /\ walking' = FALSE /\ seen' = <<>> /\ before' = Len(docs)
      /\ Len(docs) \in Nat
  BY DEF PageInv, TypeOK, AskDevices, AskAll
<1>2. WalkStands' /\ walking' \in BOOLEAN /\ seen' \in Seq(1 .. MaxDocs)
  <2>1. WalkStands'
    BY <1>1 DEF WalkStands
  <2>2. <<>> \in Seq(1 .. MaxDocs)
    OBVIOUS
  <2> QED
    BY <1>1, <2>1, <2>2
<1>3. 0 \in Int32 /\ NaN \notin Int32
  <2>1. 0 \in Int32 /\ \A x \in Int32 : x \in Int
    BY PaginationAssumption DEF Int32
  <2> QED
    BY <2>1, PaginationAssumption
<1>4. CASE AskDevices
  <2>1. PICK p \in Numbers \cup {NaN}, l \in Numbers \cup {NaN} :
          Request([page |-> p, limit |-> l], [page |-> Parse(p), limit |-> Parse(l)])
    BY <1>4 DEF AskDevices
  <2>2. \A x \in Numbers \cup {NaN} : Parse(x) \in Int32 /\ (x \in Int32 => Parse(x) = x)
    <3> SUFFICES ASSUME NEW x \in Numbers \cup {NaN}
                 PROVE  Parse(x) \in Int32 /\ (x \in Int32 => Parse(x) = x)
      OBVIOUS
    <3>1. CASE x = NaN
      BY <1>3, <3>1 DEF Parse
    <3>2. CASE x # NaN
      <4>1. x \in Int
        BY <3>2, PaginationAssumption
      <4> QED
        BY <3>2, <4>1, WrapFits, WrapKeeps DEF Parse
    <3> QED
      BY <3>1, <3>2
  <2> DEFINE a == [page |-> p, limit |-> l]
             s == [page |-> Parse(p), limit |-> Parse(l)]
  <2>3. a \in Requested /\ s \in [page : Int32, limit : Int32]
    BY <2>2 DEF Requested
  <2>4. Fits(a) => s.page = a.page /\ s.limit = a.limit
    BY <2>2 DEF Fits
  <2>5. Request(a, s)
    BY <2>1
  <2> HIDE DEF a, s
  <2> QED
    BY <1>1, <1>2, <2>3, <2>4, <2>5, RequestInv
<1>5. CASE AskAll
  <2> DEFINE a == [page |-> 0, limit |-> 0]
  <2>1. a \in Requested /\ a \in [page : Int32, limit : Int32] /\ Request(a, a)
    BY <1>3, <1>5 DEF AskAll, Requested
  <2> HIDE DEF a
  <2> QED
    BY <1>1, <1>2, <2>1, RequestInv
<1> QED
  BY <1>4, <1>5

\* A client starts to walk.
LEMMA StartWalkInv == PageInv /\ StartWalk => PageInv'
<1> SUFFICES ASSUME PageInv, StartWalk PROVE PageInv'
  OBVIOUS
<1>1. PICK l \in Limits : Request([page |-> 1, limit |-> l], [page |-> 1, limit |-> l])
  BY DEF StartWalk
<1> DEFINE a == [page |-> 1, limit |-> l]
<1>2. /\ walking' = TRUE /\ seen' = <<>> /\ before' = Len(docs)
      /\ Len(docs) \in Nat
  BY DEF PageInv, TypeOK, StartWalk
<1>3. l \in Int32 /\ l \in Nat /\ 1 \in Int32
  BY PaginationAssumption DEF Int32
<1>4. a \in Requested /\ a \in [page : Int32, limit : Int32]
  BY <1>3 DEF Requested
<1>5. WalkStands'
  <2>1. ask' = a /\ sent' = a
    BY <1>1 DEF Request
  <2>2. a.limit \in Limits /\ a.page = 1 /\ (a.page - 1) * a.limit = 0
    BY <1>3
  <2> HIDE DEF a
  <2>3. Len(seen') = 0 /\ 0 <= 2 * Half - 2
    BY <1>2, PaginationAssumption
  <2> QED
    BY <1>2, <2>1, <2>2, <2>3 DEF WalkStands
<1>6. Request(a, a)
  BY <1>1
<1>7. seen' \in Seq(1 .. MaxDocs) /\ walking' \in BOOLEAN
  BY <1>2
<1> HIDE DEF a
<1> QED
  BY <1>2, <1>4, <1>5, <1>6, <1>7, RequestInv

\* The next page of a walk, or the same once more.
LEMMA ContinueInv == PageInv /\ Continue => PageInv'
<1> SUFFICES ASSUME PageInv, Continue PROVE PageInv'
  OBVIOUS
<1> DEFINE a == [ask EXCEPT !.page = IF failed THEN @ ELSE @ + 1]
<1>1. /\ pc = "answered" /\ walking
      /\ failed \/ Len(page) = sent.limit
      /\ a.page \in Int32 /\ Request(a, a)
      /\ seen' = IF failed THEN seen ELSE seen \o page
      /\ walking' = walking /\ before' = before
  BY DEF Continue
<1>2. /\ ask = sent /\ sent.limit \in Limits /\ sent.page >= 1
      /\ Len(seen) = (sent.page - 1) * sent.limit
      /\ Len(seen) <= 2 * Half - 2
      /\ \A i \in 1 .. Len(seen) : i <= Len(Find(docs)) /\ seen[i] = Find(docs)[i]
  BY <1>1 DEF PageInv, WalkStands
<1>3. /\ sent \in [page : Int32, limit : Int32] /\ before \in Nat /\ before <= Len(docs)
      /\ sent.page \in Int /\ sent.limit \in Int
  BY StartFits DEF PageInv, TypeOK
<1>4. /\ seen \in Seq(1 .. MaxDocs) /\ Len(seen) \in Nat
      /\ page \in Seq(1 .. MaxDocs) /\ Len(page) \in Nat
  <2>1. seen \in Seq(1 .. MaxDocs) /\ page \in Seq(1 .. MaxDocs)
    BY DEF PageInv, TypeOK
  <2> QED
    BY <2>1
<1>5. /\ seen \o page \in Seq(1 .. MaxDocs)
       /\ Len(seen \o page) = Len(seen) + Len(page)
       /\ \A i \in 1 .. Len(seen) + Len(page) :
            (seen \o page)[i] = IF i <= Len(seen) THEN seen[i] ELSE page[i - Len(seen)]
  BY <1>4, ConcatProperties
<1>6. /\ a \in [page : Int32, limit : Int32] /\ a.limit = sent.limit
      /\ a.page = IF failed THEN sent.page ELSE sent.page + 1
  BY <1>1, <1>2, <1>3
<1>7. a \in Requested
  BY <1>6 DEF Requested
<1>8. docs' = docs /\ ask' = a /\ sent' = a
  BY <1>1 DEF Request
<1> HIDE DEF a
<1>9. seen' \in Seq(1 .. MaxDocs)
  BY <1>1, <1>4, <1>5
<1>10. WalkStands'
  <2>1. CASE failed
    <3>1. a.page = sent.page /\ seen' = seen
      BY <1>1, <1>6, <2>1
    <3> QED
      BY <1>2, <1>6, <1>8, <3>1 DEF WalkStands
  <2>2. CASE ~failed
    <3>1. Start >= 0 /\ Start \in Int /\ Start < Half
      <4>1. Start \in Int32 /\ Start \in Int
        BY StartFits DEF PageInv
      <4>2. Start >= 0
        BY <1>1, <2>2 DEF PageInv, PageFound
      <4> QED
        BY <4>1, <4>2, PaginationAssumption DEF Int32
    <3>2. \A i \in 1 .. Len(page) :
            Start + i <= Len(Find(docs)) /\ page[i] = Find(docs)[Start + i]
      BY <1>1, <2>2 DEF PageInv, PageFound
    <3>3. Len(seen) = Start
      BY <3>1, WalkStart, <1>1 DEF PageInv
    <3>4. /\ seen' = seen \o page /\ a.page = sent.page + 1 /\ Len(page) = sent.limit
          /\ a.page \in Int
      BY <1>1, <1>3, <1>6, <2>2
    <3>5. Len(seen') = Len(seen) + Len(page)
      BY <1>5, <3>4
    <3>6. Len(seen') = (a.page - 1) * a.limit
      <4>1. (a.page - 1) * a.limit = (sent.page - 1) * sent.limit + sent.limit
        BY <1>3, <1>6, <3>4
      <4> QED
        BY <1>2, <3>4, <3>5, <4>1
    <3>7. Len(seen') <= 2 * Half - 2
      <4>1. sent.limit \in 1 .. Half - 1
        BY <1>2, PaginationAssumption
      <4> QED
        BY <1>4, <3>1, <3>3, <3>4, <3>5, <4>1, PaginationAssumption
    <3>8. \A i \in 1 .. Len(seen') : i <= Len(Find(docs)) /\ seen'[i] = Find(docs)[i]
      <4> SUFFICES ASSUME NEW i \in 1 .. Len(seen')
                   PROVE  i <= Len(Find(docs)) /\ seen'[i] = Find(docs)[i]
        OBVIOUS
      <4>1. CASE i \in 1 .. Len(seen)
        <5>1. seen'[i] = seen[i]
          BY <1>4, <1>5, <3>4, <4>1
        <5> QED
          BY <1>2, <4>1, <5>1
      <4>2. CASE i \notin 1 .. Len(seen)
        <5>1. i - Len(seen) \in 1 .. Len(page) /\ Start + (i - Len(seen)) = i
          BY <1>4, <3>3, <3>5, <4>2
        <5>2. seen'[i] = page[i - Len(seen)]
          BY <1>4, <1>5, <3>4, <3>5, <4>2
        <5> QED
          BY <3>2, <5>1, <5>2
      <4> QED
        BY <4>1, <4>2
    <3>9. a.page >= 1
      BY <1>2, <1>3, <3>4
    <3> QED
      BY <1>2, <1>6, <1>8, <3>6, <3>7, <3>8, <3>9 DEF WalkStands
  <2> QED
    BY <2>1, <2>2
<1> QED
  BY <1>1, <1>3, <1>6, <1>7, <1>9, <1>10, RequestInv

\* A batch arrives.
LEMMA ReceiveInv ==
  ASSUME PageInv, pc \in {"find", "more"}, Start >= 0,
         \A i \in 1 .. Len(page) :
           Start + i <= Len(Find(docs)) /\ page[i] = Find(docs)[Start + i],
         sent.limit # 0 => Len(page) < Abs(sent.limit),
         Receive(Start + Len(page))
  PROVE  PageInv'
<1> DEFINE k == Start + Len(page)
           l == sent.limit
           b == NextBatch(k, l)
           m == Find(docs)
<1>1. /\ docs \in Seq(BOOLEAN) /\ Len(docs) \in Nat /\ Len(docs) <= MaxDocs
      /\ before \in Nat /\ before <= Len(docs)
  BY DEF PageInv, TypeOK
<1>2. page \in Seq(1 .. MaxDocs) /\ Len(page) \in Nat
  <2>1. page \in Seq(1 .. MaxDocs)
    BY DEF PageInv, TypeOK
  <2> QED
    BY <2>1
<1>3. /\ Start \in Nat /\ Start < Half /\ k \in Nat /\ l \in Int
  <2>1. Start \in Int32 /\ Start \in Int /\ l \in Int
    BY StartFits DEF PageInv
  <2>2. Start \in Nat /\ Start < Half
    BY <2>1, PaginationAssumption DEF Int32
  <2> QED
    BY <1>2, <2>1, <2>2
<1>4. /\ page' = page \o b /\ pos' = k + Len(b)
      /\ pc' = IF Len(b) < Batch \/ l < 0 \/ (l # 0 /\ Len(page') = Abs(l))
               THEN "answered" ELSE "more"
      /\ UNCHANGED <<docs, here, ask, walking, sent, failed, seen, before, moved>>
  BY DEF Receive, Bounded
<1>5. ~failed /\ ~failed'
  BY <1>4 DEF PageInv, CursorStands
<1> HIDE DEF k
<1>6. /\ b \in Seq(1 .. Len(docs)) /\ Len(b) \in 0 .. Batch
      /\ \A i \in 1 .. Len(b) : k + i <= Len(m) /\ b[i] = m[k + i]
      /\ l # 0 => Len(page) + Len(b) <= Abs(l)
      /\ Len(b) < Batch => \/ l # 0 /\ Len(page) + Len(b) = Abs(l)
                           \/ k + Len(b) >= Len(m)
  BY <1>1, <1>2, <1>3, BatchTaken
<1>7. m \in Seq(1 .. Len(docs)) /\ Len(m) \in Nat /\ Len(m) <= Len(docs)
  <2>1. m \in Seq(1 .. Len(docs))
    BY <1>1, FindGrows
  <2>2. Len(m) = UpTo(docs, Len(docs))
    BY <1>1, FindLists DEF Lists
  <2>3. UpTo(docs, Len(docs)) <= Len(docs)
    BY <1>1, UpToBound
  <2> HIDE DEF m
  <2> QED
    BY <2>1, <2>2, <2>3
<1> HIDE DEF b, l, m
<1>8. b \in Seq(1 .. MaxDocs) /\ Len(b) \in Nat
  <2>1. 1 .. Len(docs) \subseteq 1 .. MaxDocs
    BY <1>1, PaginationAssumption
  <2>2. Len(b) \in Nat
    BY <1>6
  <2> QED
    BY <1>6, <2>1, <2>2, SeqMonotonic
<1>9. /\ page' \in Seq(1 .. MaxDocs)
      /\ Len(page') = Len(page) + Len(b)
      /\ \A i \in 1 .. Len(page) + Len(b) :
           page'[i] = IF i <= Len(page) THEN page[i] ELSE b[i - Len(page)]
  BY <1>2, <1>4, <1>8, ConcatProperties
<1>10. Start' = Start
  BY <1>4 DEF Start
<1>11. TypeOK'
  <2>1. pos' \in 0 .. MaxDocs + Half
    <3>1. CASE Len(page') = 0
      BY <1>1, <1>2, <1>3, <1>4, <1>8, <1>9, <3>1, PaginationAssumption DEF k
    <3>2. CASE Len(b) # 0
      <4>1. k + Len(b) <= Len(m)
        BY <1>6, <1>8, <3>2
      <4> QED
        BY <1>1, <1>3, <1>4, <1>7, <1>8, <4>1, PaginationAssumption
    <3>3. CASE Len(page) # 0 /\ Len(b) = 0
      <4>1. Start + Len(page) <= Len(m)
        BY <1>2, <3>3 DEF m
      <4> QED
        BY <1>1, <1>2, <1>3, <1>4, <1>7, <3>3, <4>1, PaginationAssumption DEF k
    <3> QED
      BY <1>2, <1>8, <1>9, <3>1, <3>2, <3>3
  <2>2. pc' \in {"more", "answered"}
    BY <1>4
  <2> QED
    BY <1>4, <1>9, <2>1, <2>2 DEF PageInv, TypeOK, Requested
<1>12. NumbersKept' /\ WalkStands'
  BY <1>4 DEF PageInv, NumbersKept, WalkStands
<1>13. \A i \in 1 .. Len(page') :
         Start + i <= Len(m) /\ page'[i] = m[Start + i]
  <2> SUFFICES ASSUME NEW i \in 1 .. Len(page')
               PROVE  Start + i <= Len(m) /\ page'[i] = m[Start + i]
    OBVIOUS
  <2>1. CASE i <= Len(page)
    <3>1. i \in 1 .. Len(page) /\ page'[i] = page[i]
      BY <1>2, <1>8, <1>9, <2>1
    <3> QED
      BY <3>1 DEF m
  <2>2. CASE ~(i <= Len(page))
    <3>1. /\ i - Len(page) \in 1 .. Len(b) /\ page'[i] = b[i - Len(page)]
          /\ k + (i - Len(page)) = Start + i
      BY <1>2, <1>3, <1>8, <1>9, <2>2 DEF k
    <3> QED
      BY <1>6, <3>1
  <2> QED
    BY <2>1, <2>2
<1>14. PageFound'
  BY <1>3, <1>4, <1>10, <1>13 DEF PageFound, m
<1>15. CursorStands'
  <2>1. pc' # "find" /\ ~failed'
    BY <1>4, <1>5
  <2> SUFFICES ASSUME pc' = "more"
               PROVE  /\ l >= 0 /\ page' # <<>> /\ pos' = Start + Len(page')
                      /\ l # 0 => Len(page') < l
    BY <1>4, <1>10, <2>1 DEF CursorStands, l
  <2>2. ~(Len(b) < Batch) /\ ~(l < 0) /\ (l # 0 => Len(page') # Abs(l))
    BY <1>4
  <2>3. Len(page') # 0
    BY <1>2, <1>8, <1>9, <2>2, PaginationAssumption
  <2>4. l # 0 => Len(page') < l
    BY <1>2, <1>3, <1>6, <1>8, <1>9, <2>2 DEF Abs
  <2> QED
    BY <1>2, <1>3, <1>4, <1>8, <1>9, <2>2, <2>3, <2>4 DEF k
<1>16. PageEnds'
  <2> SUFFICES ASSUME pc' = "answered", l >= 0
               PROVE  /\ l # 0 => Len(page') <= l
                      /\ \/ l # 0 /\ Len(page') = l
                         \/ Start + Len(page') >= Len(Find(SubSeq(docs, 1, before)))
    BY <1>4, <1>10 DEF PageEnds, l
  <2>1. /\ Len(Find(SubSeq(docs, 1, before))) \in Nat
        /\ Len(Find(SubSeq(docs, 1, before))) <= Len(m)
    <3>1. /\ Len(Find(SubSeq(docs, 1, before))) \in Nat
          /\ Len(Find(SubSeq(docs, 1, before))) <= Len(Find(docs))
      BY <1>1, FindOfPart
    <3> QED
      BY <3>1 DEF m
  <2>2. Abs(l) = l
    BY <1>3 DEF Abs
  <2>3. l # 0 => Len(page') <= l
    BY <1>6, <1>9, <2>2
  <2>4. Len(b) < Batch \/ (l # 0 /\ Len(page') = l)
    BY <1>3, <1>4, <2>2
  <2>5. (l # 0 /\ Len(page') = l) \/ k + Len(b) >= Len(m)
    BY <1>6, <1>9, <2>2, <2>4
  <2>6. k + Len(b) = Start + Len(page')
    BY <1>2, <1>3, <1>8, <1>9 DEF k
  <2> QED
    BY <1>2, <1>3, <1>7, <1>8, <1>9, <2>1, <2>3, <2>5, <2>6
<1> QED
  BY <1>1, <1>4, <1>11, <1>12, <1>14, <1>15, <1>16 DEF PageInv

\* The handler gives up.
LEMMA RespondInv ==
  ASSUME PageInv, pc \in {"find", "more"}, Respond(<<>>, FALSE)
  PROVE  PageInv'
<1>1. /\ page' = <<>> /\ failed' = TRUE /\ pc' = "answered"
      /\ UNCHANGED <<docs, here, ask, walking, sent, pos, seen, before, moved>>
  BY DEF Respond
<1>2. TypeOK'
  <2>1. <<>> \in Seq(1 .. MaxDocs)
    OBVIOUS
  <2> QED
    BY <1>1, <2>1 DEF PageInv, TypeOK, Requested
<1>3. NumbersKept' /\ WalkStands'
  BY <1>1 DEF PageInv, NumbersKept, WalkStands
<1>4. PageFound' /\ CursorStands' /\ PageEnds'
  BY <1>1 DEF PageFound, CursorStands, PageEnds
<1> QED
  BY <1>1, <1>2, <1>3, <1>4 DEF PageInv

LEMMA FirstInv == PageInv /\ First => PageInv'
<1> SUFFICES ASSUME PageInv, First PROVE PageInv'
  OBVIOUS
<1>1. pc = "find" /\ page = <<>>
  BY DEF First, PageInv, CursorStands
<1>2. CASE Start >= 0 /\ Receive(Start)
  <2>1. Start \in Int /\ sent.limit \in Int
    BY StartFits DEF PageInv
  <2>2. Len(page) = 0 /\ Start + Len(page) = Start
    BY <1>1, <2>1
  <2>3. sent.limit # 0 => Len(page) < Abs(sent.limit)
    BY <2>1, <2>2 DEF Abs
  <2>4. \A i \in 1 .. Len(page) :
          Start + i <= Len(Find(docs)) /\ page[i] = Find(docs)[Start + i]
    BY <2>2
  <2> QED
    BY <1>1, <1>2, <2>2, <2>3, <2>4, ReceiveInv
<1>3. CASE Respond(<<>>, FALSE)
  BY <1>1, <1>3, RespondInv
<1> QED
  BY <1>2, <1>3 DEF First, Start

LEMMA MoreInv == PageInv /\ More => PageInv'
<1> SUFFICES ASSUME PageInv, More PROVE PageInv'
  OBVIOUS
<1>1. /\ pc = "more" /\ ~failed
      /\ sent.limit >= 0 /\ pos = Start + Len(page)
      /\ sent.limit # 0 => Len(page) < sent.limit
  BY DEF More, PageInv, CursorStands
<1>2. CASE Receive(pos)
  <2>1. /\ Start >= 0
        /\ \A i \in 1 .. Len(page) :
             Start + i <= Len(Find(docs)) /\ page[i] = Find(docs)[Start + i]
    BY <1>1 DEF PageInv, PageFound
  <2>2. sent.limit # 0 => Len(page) < Abs(sent.limit)
    BY <1>1, StartFits DEF Abs, PageInv
  <2> QED
    BY <1>1, <1>2, <2>1, <2>2, ReceiveInv
<1>3. CASE Respond(<<>>, FALSE)
  BY <1>1, <1>3, RespondInv
<1> QED
  BY <1>2, <1>3 DEF More

LEMMA DoneInv == PageInv /\ Done => PageInv'
<1> SUFFICES ASSUME PageInv, Done PROVE PageInv'
  OBVIOUS
<1>1. /\ pc' = "idle" /\ ask' = Nothing /\ sent' = Nothing
      /\ walking' = FALSE /\ failed' = FALSE
      /\ pos' = 0 /\ page' = <<>> /\ seen' = <<>> /\ before' = 0 /\ moved' = {}
      /\ UNCHANGED <<docs, here>>
  BY DEF Done, Leave
<1>2. TypeOK'
  <2>1. 0 \in Int32 /\ <<>> \in Seq(1 .. MaxDocs) /\ 0 \in 0 .. MaxDocs
        /\ 0 \in 0 .. MaxDocs + Half
    BY PaginationAssumption DEF Int32
  <2>2. Nothing \in [page : Int32, limit : Int32] /\ Nothing \in Requested
    BY <2>1 DEF Nothing, Requested
  <2> QED
    BY <1>1, <2>1, <2>2 DEF PageInv, TypeOK, Requested
<1>3. NumbersKept'
  BY <1>1 DEF NumbersKept
<1>4. PageFound' /\ CursorStands' /\ PageEnds' /\ WalkStands'
  BY <1>1 DEF PageFound, CursorStands, PageEnds, WalkStands
<1>5. before' <= Len(docs')
  <2>1. Len(docs) \in Nat
    BY DEF PageInv, TypeOK
  <2> QED
    BY <1>1, <2>1
<1> QED
  BY <1>2, <1>3, <1>4, <1>5 DEF PageInv

\* The request of an address has no page and no walk.
LEMMA AskByAddressInv == PageInv /\ AskByAddress => PageInv'
<1> SUFFICES ASSUME PageInv, AskByAddress PROVE PageInv'
  OBVIOUS
<1>1. /\ pc' = "findByAddress" /\ page' = <<>> /\ pos' = 0 /\ failed' = FALSE
      /\ walking' = FALSE /\ seen' = <<>> /\ before' = Len(docs) /\ moved' = {}
      /\ UNCHANGED <<docs, here, ask, sent>>
  BY DEF AskByAddress
<1>2. Len(docs) \in Nat /\ Len(docs) <= MaxDocs
  BY DEF PageInv, TypeOK
<1>3. TypeOK'
  <2>1. <<>> \in Seq(1 .. MaxDocs) /\ 0 \in 0 .. MaxDocs + Half /\ Len(docs) \in 0 .. MaxDocs
    BY <1>2, PaginationAssumption
  <2> QED
    BY <1>1, <2>1 DEF PageInv, TypeOK, Requested, ByAddress
<1>4. NumbersKept' /\ PageFound' /\ CursorStands' /\ PageEnds' /\ WalkStands'
  BY <1>1 DEF PageInv, NumbersKept, PageFound, CursorStands, PageEnds, WalkStands
<1> QED
  BY <1>1, <1>2, <1>3, <1>4 DEF PageInv

\* Of two documents the earlier one has fewer up to it.
LEMMA UpToRises ==
  ASSUME NEW d, NEW a \in Nat, NEW b \in Nat, a <= b
  PROVE  UpTo(d, a) <= UpTo(d, b)
<1>1. IsFiniteSet({j \in 1 .. b : d[j]})
  <2>1. IsFiniteSet(1 .. b)
    BY FS_Interval
  <2> QED
    BY <2>1, FS_Subset
<1>2. {j \in 1 .. a : d[j]} \subseteq {j \in 1 .. b : d[j]}
  OBVIOUS
<1> QED
  BY <1>1, <1>2, FS_Subset DEF UpTo

\* A batch by address: documents after the cursor that match, in order, each once; and
\* every one of them up to the last, or to the end if the batch is not full.
LEMMA BatchAddressed ==
  ASSUME docs \in Seq(BOOLEAN), pos \in Nat
  PROVE  LET b == NextAddressed IN
         /\ b \in Seq(1 .. Len(docs)) /\ Len(b) \in Nat
         /\ \A i \in 1 .. Len(b) : Lives(b[i]) /\ pos < b[i]
         /\ \A i, j \in 1 .. Len(b) : i < j => b[i] < b[j]
         /\ \A k \in 1 .. Len(docs) :
              Lives(k) /\ pos < k /\ (Len(b) < Batch \/ k <= b[Len(b)])
                => \E i \in 1 .. Len(b) : b[i] = k
<1> DEFINE d == Addressed(pos)
           m == Find(d)
           end == Min({Batch, Len(m)})
           b == SubSeq(m, 1, end)
<1>1. /\ d \in Seq(BOOLEAN) /\ Len(d) = Len(docs) /\ Len(docs) \in Nat
      /\ \A k \in 1 .. Len(docs) : d[k] <=> Lives(k) /\ pos < k
  <2>1. Len(docs) \in Nat
    OBVIOUS
  <2>2. d = [k \in 1 .. Len(docs) |-> Lives(k) /\ pos < k]
    BY DEF Addressed
  <2> HIDE DEF d
  <2>3. \A k \in 1 .. Len(docs) : d[k] = (Lives(k) /\ pos < k)
    BY <2>2, Zenon
  <2>4. \A k \in 1 .. Len(docs) : (Lives(k) /\ pos < k) \in BOOLEAN
    OBVIOUS
  <2>5. d \in [1 .. Len(docs) -> BOOLEAN]
    BY <2>2, <2>4, Zenon
  <2>6. d \in Seq(BOOLEAN) /\ Len(d) = Len(docs)
    BY <2>1, <2>5
  <2> QED
    BY <2>1, <2>3, <2>6
<1> HIDE DEF d
<1>2. Lists(m, d, Len(d))
  BY <1>1, FindLists
<1> HIDE DEF m
<1>3. /\ m \in Seq(1 .. Len(docs)) /\ Len(m) \in Nat
      /\ \A k \in 1 .. Len(docs) : d[k] => UpTo(d, k) \in 1 .. Len(m) /\ m[UpTo(d, k)] = k
      /\ \A i \in 1 .. Len(m) : d[m[i]] /\ UpTo(d, m[i]) = i
  BY <1>1, <1>2 DEF Lists
<1>4. /\ end = IF Batch <= Len(m) THEN Batch ELSE Len(m)
      /\ end \in Nat /\ end <= Len(m) /\ Batch \in Nat
  <2>1. Batch \in Nat /\ Batch \in Int /\ Len(m) \in Int
    BY <1>3, PaginationAssumption
  <2>2. end = IF Batch <= Len(m) THEN Batch ELSE Len(m)
    BY <2>1, MinOfTwo
  <2> HIDE DEF end
  <2> QED
    BY <1>3, <2>1, <2>2
<1> HIDE DEF end
<1>5. /\ b \in Seq(1 .. Len(docs)) /\ Len(b) = end
      /\ \A i \in 1 .. end : b[i] = m[i]
  <2>1. \A i \in 1 .. end : m[i] \in 1 .. Len(docs)
    BY <1>3, <1>4
  <2>2. /\ b \in Seq(1 .. Len(docs))
        /\ Len(b) = IF 1 <= end THEN end - 1 + 1 ELSE 0
        /\ \A i \in 1 .. end - 1 + 1 : b[i] = m[1 + i - 1]
    BY <1>4, <2>1, SubSeqProperties
  <2> HIDE DEF b
  <2>3. \A i \in 1 .. end : i \in 1 .. end - 1 + 1 /\ 1 + i - 1 = i
    BY <1>4
  <2> QED
    BY <1>4, <2>2, <2>3
<1>6. b = NextAddressed
  BY DEF b, end, m, d, NextAddressed
<1> HIDE DEF b
<1>7. \A i \in 1 .. Len(b) :
        b[i] \in 1 .. Len(docs) /\ d[b[i]] /\ UpTo(d, b[i]) = i /\ b[i] = m[i]
  BY <1>3, <1>4, <1>5
<1>8. \A i \in 1 .. Len(b) : Lives(b[i]) /\ pos < b[i]
  BY <1>1, <1>7
<1>9. ASSUME NEW i \in 1 .. Len(b), NEW j \in 1 .. Len(b), i < j
      PROVE  b[i] < b[j]
  <2> SUFFICES ASSUME b[j] <= b[i] PROVE FALSE
    BY <1>1, <1>7
  <2>1. UpTo(d, b[j]) <= UpTo(d, b[i])
    BY <1>1, <1>7, UpToRises
  <2> QED
    BY <1>4, <1>5, <1>7, <1>9, <2>1
<1>10. ASSUME NEW k \in 1 .. Len(docs), Lives(k), pos < k,
              Len(b) < Batch \/ k <= b[Len(b)]
       PROVE  \E i \in 1 .. Len(b) : b[i] = k
  <2>1. d[k] /\ UpTo(d, k) \in 1 .. Len(m) /\ m[UpTo(d, k)] = k
    BY <1>1, <1>3, <1>10
  <2>2. UpTo(d, k) <= Len(b)
    <3>1. CASE Len(b) < Batch
      BY <1>3, <1>4, <1>5, <2>1, <3>1
    <3>2. CASE ~(Len(b) < Batch)
      <4>1. Len(b) = Batch /\ Len(b) \in 1 .. Len(b) /\ k <= b[Len(b)]
        BY <1>4, <1>5, <1>10, <3>2, PaginationAssumption
      <4>2. b[Len(b)] \in 1 .. Len(docs) /\ UpTo(d, b[Len(b)]) = Len(b)
        BY <1>7, <4>1
      <4>3. UpTo(d, k) <= UpTo(d, b[Len(b)])
        BY <1>1, <4>1, <4>2, UpToRises
      <4> QED
        BY <4>2, <4>3
    <3> QED
      BY <3>1, <3>2
  <2> QED
    BY <1>3, <1>4, <1>5, <1>7, <2>1, <2>2
<1> QED
  BY <1>4, <1>5, <1>6, <1>8, <1>9, <1>10

LEMMA FindByAddressInv == PageInv /\ FindByAddress => PageInv'
<1> SUFFICES ASSUME PageInv, FindByAddress PROVE PageInv'
  OBVIOUS
<1>1. UNCHANGED <<docs, here, ask, walking, sent, seen, before, moved>>
  BY DEF FindByAddress
<1>2. /\ docs \in Seq(BOOLEAN) /\ Len(docs) \in Nat /\ Len(docs) <= MaxDocs
      /\ pos \in Nat /\ pos \in 0 .. MaxDocs + Half /\ page \in Seq(1 .. MaxDocs)
  BY DEF PageInv, TypeOK
<1>3. /\ pc' \in {"listed", "moreByAddress"} /\ failed' \in BOOLEAN
      /\ page' \in Seq(1 .. MaxDocs) /\ pos' \in 0 .. MaxDocs + Half
  <2>1. CASE Collect
    <3> DEFINE b == NextAddressed
    <3>1. b \in Seq(1 .. Len(docs)) /\ Len(b) \in Nat
      BY <1>2, BatchAddressed
    <3>2. /\ page' = page \o b
          /\ pos' = IF b = <<>> THEN pos ELSE Last(b)
          /\ pc' = IF Len(b) < Batch THEN "listed" ELSE "moreByAddress"
          /\ failed' = failed
      BY <2>1 DEF Collect
    <3> HIDE DEF b
    <3>3. b \in Seq(1 .. MaxDocs)
      <4>1. 1 .. Len(docs) \subseteq 1 .. MaxDocs
        BY <1>2, PaginationAssumption
      <4> QED
        BY <3>1, <4>1, SeqMonotonic
    <3>4. pos' \in 0 .. MaxDocs + Half
      <4>1. CASE b = <<>>
        BY <1>2, <3>2, <4>1
      <4>2. CASE b # <<>>
        <5>1. Len(b) \in 1 .. Len(b)
          BY <3>1, <4>2
        <5>2. b[Len(b)] \in 1 .. MaxDocs
          BY <3>1, <3>3, <5>1, ElementOfSeq
        <5> QED
          BY <3>2, <4>2, <5>2, PaginationAssumption DEF Last
      <4> QED
        BY <4>1, <4>2
    <3> QED
      BY <1>2, <3>2, <3>3, <3>4 DEF PageInv, TypeOK
  <2>2. CASE page' = <<>> /\ failed' = TRUE /\ pc' = "listed" /\ UNCHANGED pos
    <3>1. <<>> \in Seq(1 .. MaxDocs)
      OBVIOUS
    <3> QED
      BY <1>2, <2>2, <3>1
  <2> QED
    BY <2>1, <2>2 DEF FindByAddress
<1>4. TypeOK'
  BY <1>1, <1>3 DEF PageInv, TypeOK, Requested, ByAddress
<1>5. NumbersKept' /\ PageFound' /\ CursorStands' /\ PageEnds' /\ WalkStands'
  BY <1>1, <1>3 DEF PageInv, NumbersKept, PageFound, CursorStands, PageEnds, WalkStands
<1> QED
  BY <1>1, <1>4, <1>5 DEF PageInv

LEMMA Invariance == Spec => []PageInv
<1>1. PageInv /\ [Next]_vars => PageInv'
  <2> SUFFICES ASSUME PageInv, [Next]_vars PROVE PageInv'
    OBVIOUS
  <2>1. CASE UNCHANGED vars
    BY <2>1 DEF vars, PageInv, TypeOK, Requested, NumbersKept, PageFound, CursorStands,
                PageEnds, WalkStands, Start
  <2>2. CASE Next
    BY <2>2, InsertInv, MoveInv, OneRequestInv, AskByAddressInv, StartWalkInv, FirstInv,
       MoreInv, FindByAddressInv, DoneInv, ContinueInv DEF Next
  <2> QED
    BY <2>1, <2>2
<1> QED
  BY InitInv, <1>1, PTL DEF Spec

-----------------------------------------------------------------------------
(* The theorems *)

\* The numbers that reach the service have 32 bits, the cursor passes no more than a
\* skip and all documents, and pages hold places in the collection.
THEOREM TypeCorrect == Spec => []TypeOK
<1>1. PageInv => TypeOK
  BY DEF PageInv
<1> QED
  BY <1>1, Invariance, PTL

\* A sequence is a prefix of another if it is not longer and agrees with it.
LEMMA PrefixOf ==
  ASSUME NEW s \in Seq(Nat), NEW t \in Seq(Nat), Len(s) <= Len(t),
         \A i \in 1 .. Len(s) : s[i] = t[i]
  PROVE  IsPrefix(s, t)
<1>1. Len(s) \in Nat /\ Len(t) \in Nat
  OBVIOUS
<1>2. SubSeq(s, 1, Len(s)) = s
  OBVIOUS
<1>3. /\ SubSeq(t, 1, Len(s)) \in Seq(Nat)
      /\ Len(SubSeq(t, 1, Len(s))) = Len(s)
      /\ \A i \in 1 .. Len(s) : SubSeq(t, 1, Len(s))[i] = t[i]
  <2>1. \A i \in 1 .. Len(s) : t[i] \in Nat
    BY <1>1
  <2>2. /\ SubSeq(t, 1, Len(s)) \in Seq(Nat)
        /\ Len(SubSeq(t, 1, Len(s))) = IF 1 <= Len(s) THEN Len(s) - 1 + 1 ELSE 0
        /\ \A i \in 1 .. Len(s) - 1 + 1 : SubSeq(t, 1, Len(s))[i] = t[1 + i - 1]
    BY <1>1, <2>1, SubSeqProperties
  <2>3. \A i \in 1 .. Len(s) : i \in 1 .. Len(s) - 1 + 1 /\ 1 + i - 1 = i
    BY <1>1
  <2>4. (IF 1 <= Len(s) THEN Len(s) - 1 + 1 ELSE 0) = Len(s)
    BY <1>1
  <2> QED
    BY <2>2, <2>3, <2>4
<1>4. SubSeq(t, 1, Len(s)) = s
  BY <1>3, SeqEqual
<1> QED
  BY <1>2, <1>4 DEF IsPrefix

\* A block of the list: what begins after the first (p - 1) * l, up to l of it.
LEMMA BlockIs ==
  ASSUME NEW d \in Seq(BOOLEAN), NEW p \in Int, p >= 1, NEW l \in Int, l >= 1
  PROVE  LET B == Block(d, p, l)
             s == (p - 1) * l
         IN  /\ B \in Seq(Nat) /\ Len(B) \in Nat /\ Len(B) <= l
             /\ \A i \in 1 .. Len(B) : s + i <= Len(Find(d)) /\ B[i] = Find(d)[s + i]
             /\ \A i \in 1 .. l : s + i <= Len(Find(d)) => i <= Len(B)
<1> DEFINE s == (p - 1) * l
           m == Find(d)
           end == Min({s + l, Len(m)})
           B == SubSeq(m, s + 1, end)
<1>1. s \in Nat /\ p * l = s + l
  OBVIOUS
<1>2. m \in Seq(Nat) /\ Len(m) \in Nat
  <2>1. m \in Seq(1 .. Len(d)) /\ 1 .. Len(d) \subseteq Nat
    BY FindGrows
  <2>2. m \in Seq(Nat)
    BY <2>1, SeqMonotonic
  <2> HIDE DEF m
  <2> QED
    BY <2>2
<1>3. B = Block(d, p, l)
  <2>1. Listed(d) = m
    BY FindIsListed
  <2>2. Block(d, p, l) = SubSeq(m, s + 1, Min({p * l, Len(m)}))
    <3>1. l # 0
      OBVIOUS
    <3> HIDE DEF m, end, B
    <3> QED
      BY <2>1, <3>1, Zenon DEF Block
  <2> HIDE DEF m, s
  <2> QED
    BY <1>1, <2>2
<1> HIDE DEF s, m
<1>4. end = IF s + l <= Len(m) THEN s + l ELSE Len(m)
  BY <1>1, <1>2, MinOfTwo
<1> HIDE DEF end
<1>5. end \in Nat /\ end <= Len(m) /\ end <= s + l
  BY <1>1, <1>2, <1>4
<1>6. /\ B \in Seq(Nat)
      /\ Len(B) = IF s + 1 <= end THEN end - s ELSE 0
      /\ \A i \in 1 .. Len(B) : B[i] = m[s + i]
  <2>1. \A i \in s + 1 .. end : m[i] \in Nat
    BY <1>1, <1>2, <1>5
  <2>2. /\ B \in Seq(Nat)
        /\ Len(B) = IF s + 1 <= end THEN end - (s + 1) + 1 ELSE 0
        /\ \A i \in 1 .. end - (s + 1) + 1 : B[i] = m[s + 1 + i - 1]
    BY <1>1, <1>5, <2>1, SubSeqProperties
  <2> HIDE DEF B
  <2>3. Len(B) = IF s + 1 <= end THEN end - s ELSE 0
    BY <1>1, <1>5, <2>2
  <2>4. ASSUME NEW i \in 1 .. Len(B) PROVE B[i] = m[s + i]
    <3>1. i \in 1 .. end - (s + 1) + 1 /\ s + 1 + i - 1 = s + i
      BY <1>1, <1>5, <2>3
    <3> QED
      BY <2>2, <3>1
  <2> QED
    BY <2>2, <2>3, <2>4
<1> HIDE DEF B
<1>7. Len(B) \in Nat /\ Len(B) <= l
  BY <1>1, <1>5, <1>6
<1>8. \A i \in 1 .. Len(B) : s + i <= Len(m)
  BY <1>1, <1>2, <1>5, <1>6
<1>9. \A i \in 1 .. l : s + i <= Len(m) => i <= Len(B)
  BY <1>1, <1>2, <1>4, <1>6
<1> QED
  BY <1>3, <1>6, <1>7, <1>8, <1>9 DEF s, m

\* The skip of a request that fits is the one its numbers mean.
LEMMA StartMeant ==
  ASSUME TypeOK, NumbersKept, Fits(ask)
  PROVE  Start = IF ask.limit = 0 THEN 0 ELSE (ask.page - 1) * ask.limit
<1>1. sent.page = ask.page /\ sent.limit = ask.limit
  BY DEF NumbersKept
<1>2. ask.page \in Int /\ ask.limit \in Int
  BY DEF Fits, Int32
<1>3. CASE ask.limit = 0
  <2>1. Wrap(ask.page - 1) \in Int
    BY <1>2, WrapFits DEF Int32
  <2>2. Wrap(ask.page - 1) * 0 = 0 /\ 0 \in Int32
    BY <2>1, PaginationAssumption DEF Int32
  <2> QED
    BY <1>1, <1>3, <2>2, WrapKeeps DEF Start, Skip
<1>4. CASE ask.limit # 0
  <2>1. ask.page >= 1 /\ ask.limit >= 1 /\ (ask.page - 1) * ask.limit < Half
    BY <1>4 DEF Fits
  <2>2. ask.page - 1 \in Int32
    BY <2>1, PaginationAssumption DEF Fits, Int32
  <2>3. (ask.page - 1) * ask.limit \in Int32
    <3>1. (ask.page - 1) * ask.limit \in Nat
      BY <1>2, <2>1
    <3> QED
      BY <2>1, <3>1, PaginationAssumption DEF Int32
  <2> QED
    BY <1>1, <1>4, <2>2, <2>3, WrapKeeps DEF Start, Skip
<1> QED
  BY <1>3, <1>4

\* A page that is answered is the block its number names: all of what was there when
\* the request began, and nothing that is not there when it ends.
THEOREM BlockAnswered == Spec => []PageIsBlock
<1>1. PageInv => PageIsBlock
  <2> SUFFICES ASSUME PageInv, pc = "answered", ~failed, Fits(ask)
               PROVE  /\ IsPrefix(Block(SubSeq(docs, 1, before), ask.page, ask.limit), page)
                      /\ IsPrefix(page, Block(docs, ask.page, ask.limit))
    BY DEF PageIsBlock
  <2> DEFINE part == SubSeq(docs, 1, before)
             m == Find(docs)
             n == Find(part)
             l == ask.limit
  <2>1. docs \in Seq(BOOLEAN) /\ before \in Nat /\ before <= Len(docs)
    BY DEF PageInv, TypeOK
  <2>2. /\ part \in Seq(BOOLEAN) /\ n \in Seq(1 .. before) /\ Len(n) \in Nat
        /\ Len(n) <= Len(m) /\ \A i \in 1 .. Len(n) : n[i] = m[i]
    BY <2>1, FindOfPart
  <2>3. page \in Seq(Nat) /\ Len(page) \in Nat
    <3>1. page \in Seq(1 .. MaxDocs) /\ 1 .. MaxDocs \subseteq Nat
      BY DEF PageInv, TypeOK
    <3>2. page \in Seq(Nat)
      BY <3>1, SeqMonotonic
    <3> QED
      BY <3>2
  <2>4. m \in Seq(Nat) /\ Len(m) \in Nat /\ n \in Seq(Nat)
    <3>1. m \in Seq(1 .. Len(docs)) /\ 1 .. Len(docs) \subseteq Nat /\ 1 .. before \subseteq Nat
      BY <2>1, FindGrows
    <3>2. m \in Seq(Nat) /\ n \in Seq(Nat)
      BY <2>2, <3>1, SeqMonotonic
    <3> HIDE DEF m, n
    <3> QED
      BY <3>2
  <2>5. l \in Int /\ ask.page \in Int /\ sent.limit = l /\ l >= 0
        /\ (l # 0 => ask.page >= 1 /\ l >= 1)
    BY DEF Fits, Int32, PageInv, NumbersKept
  <2>6. Start = IF l = 0 THEN 0 ELSE (ask.page - 1) * l
    BY StartMeant DEF PageInv
  <2>7. \A i \in 1 .. Len(page) : Start + i <= Len(m) /\ page[i] = m[Start + i]
    BY DEF PageInv, PageFound
  <2>8. /\ l # 0 => Len(page) <= l
        /\ (l # 0 /\ Len(page) = l) \/ Start + Len(page) >= Len(n)
    BY <2>5 DEF PageInv, PageEnds
  <2> HIDE DEF part, m, n, l
  <2>9. CASE l = 0
    <3>1. Start = 0 /\ \A i \in 1 .. Len(page) : i <= Len(m) /\ page[i] = m[i]
      BY <2>3, <2>6, <2>7, <2>9
    <3>2. Len(page) <= Len(m)
      <4>1. Len(page) = 0 \/ Len(page) \in 1 .. Len(page)
        BY <2>3
      <4> QED
        BY <2>4, <3>1, <4>1
    <3>3. Len(n) <= Len(page)
      BY <2>2, <2>3, <2>8, <2>9, <3>1
    <3>4. \A i \in 1 .. Len(n) : n[i] = page[i]
      BY <2>2, <2>3, <3>1, <3>3
    <3>5. IsPrefix(n, page) /\ IsPrefix(page, m)
      BY <2>3, <2>4, <3>1, <3>2, <3>3, <3>4, PrefixOf
    <3>6. Block(part, ask.page, l) = n /\ Block(docs, ask.page, l) = m
      BY <2>1, <2>2, <2>9, FindIsListed DEF Block, m, n
    <3> QED
      BY <3>5, <3>6 DEF l, part
  <2>10. CASE l # 0
    <3> DEFINE A == Block(part, ask.page, l)
               B == Block(docs, ask.page, l)
    <3>1. Start = (ask.page - 1) * l /\ Start \in Nat
      <4>1. (ask.page - 1) * l \in Nat
        BY <2>5, <2>10
      <4> QED
        BY <2>6, <2>10, <4>1
    <3>2. /\ A \in Seq(Nat) /\ Len(A) \in Nat /\ Len(A) <= l
          /\ \A i \in 1 .. Len(A) : Start + i <= Len(n) /\ A[i] = n[Start + i]
      BY <2>2, <2>5, <2>10, <3>1, BlockIs DEF n
    <3>3. /\ B \in Seq(Nat) /\ Len(B) \in Nat
          /\ \A i \in 1 .. Len(B) : B[i] = m[Start + i]
          /\ \A i \in 1 .. l : Start + i <= Len(m) => i <= Len(B)
      BY <2>1, <2>5, <2>10, <3>1, BlockIs DEF m
    <3> HIDE DEF A, B
    <3>4. IsPrefix(A, page)
      <4>1. Len(A) <= Len(page)
        <5>1. Len(A) = 0 \/ Len(A) \in 1 .. Len(A)
          BY <3>2
        <5>2. Len(A) = 0 \/ Start + Len(A) <= Len(n)
          BY <3>2, <5>1
        <5> QED
          BY <2>2, <2>3, <2>8, <3>1, <3>2, <5>2
      <4>2. \A i \in 1 .. Len(A) : A[i] = page[i]
        <5> SUFFICES ASSUME NEW i \in 1 .. Len(A) PROVE A[i] = page[i]
          OBVIOUS
        <5>1. i \in 1 .. Len(page) /\ Start + i \in 1 .. Len(n)
          <6>1. Start + i <= Len(n) /\ Start + i >= 1
            BY <3>1, <3>2
          <6> QED
            BY <2>2, <2>3, <3>1, <3>2, <4>1, <6>1
        <5> QED
          BY <2>2, <2>7, <3>2, <5>1
      <4> QED
        BY <2>3, <3>2, <4>1, <4>2, PrefixOf
    <3>5. IsPrefix(page, B)
      <4>1. ASSUME NEW i \in 1 .. Len(page) PROVE i <= Len(B)
        <5>1. Start + i <= Len(m)
          BY <2>7
        <5>2. i \in 1 .. l
          BY <2>3, <2>5, <2>8, <2>10
        <5> QED
          BY <3>3, <5>1, <5>2
      <4>2. Len(page) <= Len(B)
        <5>1. Len(page) = 0 \/ Len(page) \in 1 .. Len(page)
          BY <2>3
        <5> QED
          BY <3>3, <4>1, <5>1
      <4>3. \A i \in 1 .. Len(page) : page[i] = B[i]
        BY <2>3, <2>7, <3>3, <4>2
      <4> QED
        BY <2>3, <3>3, <4>2, <4>3, PrefixOf
    <3> QED
      BY <3>4, <3>5 DEF A, B, l, part
  <2> QED
    BY <2>9, <2>10
<1> QED
  BY <1>1, Invariance, PTL

\* A walk sees a beginning of the list, without a gap and nothing twice, and, when it
\* ends, every document that was there when it began.
THEOREM WalkComplete == Spec => []WalkSeesAll
<1>1. PageInv => WalkSeesAll
  <2> SUFFICES ASSUME PageInv, pc = "answered", walking, ~failed
               PROVE  /\ IsPrefix(seen \o page, Listed(docs))
                      /\ Len(page) < sent.limit =>
                           IsPrefix(Listed(SubSeq(docs, 1, before)), seen \o page)
    BY DEF WalkSeesAll
  <2> DEFINE part == SubSeq(docs, 1, before)
             m == Find(docs)
             n == Find(part)
             all == seen \o page
  <2>1. docs \in Seq(BOOLEAN) /\ before \in Nat /\ before <= Len(docs)
    BY DEF PageInv, TypeOK
  <2>2. /\ part \in Seq(BOOLEAN) /\ n \in Seq(1 .. before) /\ Len(n) \in Nat
        /\ Len(n) <= Len(m) /\ \A i \in 1 .. Len(n) : n[i] = m[i]
    BY <2>1, FindOfPart
  <2>3. m \in Seq(Nat) /\ Len(m) \in Nat /\ n \in Seq(Nat)
    <3>1. m \in Seq(1 .. Len(docs)) /\ 1 .. Len(docs) \subseteq Nat /\ 1 .. before \subseteq Nat
      BY <2>1, FindGrows
    <3>2. m \in Seq(Nat) /\ n \in Seq(Nat)
      BY <2>2, <3>1, SeqMonotonic
    <3> HIDE DEF m, n
    <3> QED
      BY <3>2
  <2>4. /\ page \in Seq(Nat) /\ Len(page) \in Nat
        /\ seen \in Seq(Nat) /\ Len(seen) \in Nat
    <3>1. /\ page \in Seq(1 .. MaxDocs) /\ seen \in Seq(1 .. MaxDocs)
          /\ 1 .. MaxDocs \subseteq Nat
      BY DEF PageInv, TypeOK
    <3>2. page \in Seq(Nat) /\ seen \in Seq(Nat)
      BY <3>1, SeqMonotonic
    <3> QED
      BY <3>2
  <2>5. Start = Len(seen)
    <3>1. Start >= 0 /\ Start \in Int
      BY StartFits DEF PageInv, PageFound
    <3>2. Start = Len(seen) \/ Start < 0
      BY WalkStart DEF PageInv
    <3> QED
      BY <3>1, <3>2
  <2>6. \A i \in 1 .. Len(page) : Start + i <= Len(m) /\ page[i] = m[Start + i]
    BY DEF PageInv, PageFound
  <2>7. /\ \A i \in 1 .. Len(seen) : i <= Len(m) /\ seen[i] = m[i]
        /\ sent.limit >= 1 /\ sent.limit \in Int
    <3>1. \A i \in 1 .. Len(seen) : i <= Len(m) /\ seen[i] = m[i]
      BY DEF PageInv, WalkStands
    <3>2. sent.limit \in 1 .. Half - 1
      BY PaginationAssumption DEF PageInv, WalkStands
    <3> QED
      BY <3>1, <3>2, PaginationAssumption
  <2>8. Len(page) < sent.limit => Start + Len(page) >= Len(n)
    BY <2>4, <2>7 DEF PageInv, PageEnds
  <2>9. /\ all \in Seq(Nat) /\ Len(all) = Len(seen) + Len(page)
        /\ \A i \in 1 .. Len(seen) + Len(page) :
             all[i] = IF i <= Len(seen) THEN seen[i] ELSE page[i - Len(seen)]
    BY <2>4, ConcatProperties
  <2> HIDE DEF part, m, n, all
  <2>10. \A i \in 1 .. Len(all) : i <= Len(m) /\ all[i] = m[i]
    <3> SUFFICES ASSUME NEW i \in 1 .. Len(all) PROVE i <= Len(m) /\ all[i] = m[i]
      OBVIOUS
    <3>1. CASE i <= Len(seen)
      <4>1. i \in 1 .. Len(seen) /\ i \in 1 .. Len(seen) + Len(page)
        BY <2>4, <2>9, <3>1
      <4>2. all[i] = seen[i]
        BY <2>9, <3>1, <4>1
      <4> QED
        BY <2>7, <4>1, <4>2
    <3>2. CASE ~(i <= Len(seen))
      <4>1. i - Len(seen) \in 1 .. Len(page) /\ Start + (i - Len(seen)) = i
        BY <2>4, <2>5, <2>9, <3>2
      <4> QED
        BY <2>6, <2>9, <3>2, <4>1
    <3> QED
      BY <3>1, <3>2
  <2>11. Len(all) \in Nat /\ Len(all) <= Len(m)
    <3>1. Len(all) = 0 \/ Len(all) \in 1 .. Len(all)
      BY <2>4, <2>9
    <3> QED
      BY <2>3, <2>4, <2>9, <2>10, <3>1
  <2>12. IsPrefix(all, m)
    BY <2>3, <2>9, <2>10, <2>11, PrefixOf
  <2>13. Len(page) < sent.limit => IsPrefix(n, all)
    <3> SUFFICES ASSUME Len(page) < sent.limit PROVE IsPrefix(n, all)
      OBVIOUS
    <3>1. Len(n) <= Len(all)
      BY <2>4, <2>5, <2>8, <2>9
    <3>2. \A i \in 1 .. Len(n) : n[i] = all[i]
      BY <2>2, <2>10, <2>11, <3>1
    <3> QED
      BY <2>3, <2>9, <3>1, <3>2, PrefixOf
  <2>14. Listed(docs) = m /\ Listed(part) = n
    BY <2>1, <2>2, FindIsListed DEF m, n
  <2> QED
    BY <2>12, <2>13, <2>14 DEF all, part
<1> QED
  BY <1>1, Invariance, PTL

-----------------------------------------------------------------------------
(* The users of an address *)

\* What an answer by address owes: the users that the cursor has come to, or, once it is
\* closed, all that were there when the request began.
Owed(k) == Lives(k) /\ k \notin moved /\ (k <= pos \/ (pc = "listed" /\ k <= before))

\* The page has them all, in order, and nobody else but those who moved.
AddressInv ==
  pc \in ByAddress /\ ~failed =>
    /\ pos \in 0 .. Len(docs)
    /\ \A i \in 1 .. Len(page) :
         /\ page[i] \in 1 .. Len(docs) /\ page[i] <= pos
         /\ page[i] \in moved \/ Lives(page[i])
    /\ \A i, j \in 1 .. Len(page) : i < j => page[i] < page[j]
    /\ \A k \in 1 .. Len(docs) : Owed(k) => \E i \in 1 .. Len(page) : page[i] = k

\* An insertion comes after the cursor and after all that is owed.
LEMMA InsertAddress == PageInv /\ AddressInv /\ Insert => AddressInv'
<1> SUFFICES ASSUME PageInv, AddressInv, Insert, pc \in ByAddress, ~failed PROVE AddressInv'
  BY DEF Insert, AddressInv
<1>1. UNCHANGED <<pc, pos, page, failed, before, moved>>
  BY DEF Insert
<1>2. docs \in Seq(BOOLEAN) /\ Len(docs) \in Nat /\ before \in Nat /\ before <= Len(docs)
  BY DEF PageInv, TypeOK
<1>3. /\ Len(docs') = Len(docs) + 1
      /\ \A k \in 1 .. Len(docs) : docs'[k] = docs[k] /\ (k \in here' <=> k \in here)
  <2>1. PICK b \in BOOLEAN : docs' = Append(docs, b)
    BY DEF Insert
  <2>2. here' = here \/ here' = here \cup {Len(docs) + 1}
    BY DEF Insert
  <2> QED
    BY <1>2, <2>1, <2>2
<1>4. \A k \in 1 .. Len(docs) : Lives(k)' <=> Lives(k)
  BY <1>3 DEF Lives
<1>5. /\ pos \in 0 .. Len(docs)
      /\ \A i \in 1 .. Len(page) :
           /\ page[i] \in 1 .. Len(docs) /\ page[i] <= pos
           /\ page[i] \in moved \/ Lives(page[i])
      /\ \A i, j \in 1 .. Len(page) : i < j => page[i] < page[j]
      /\ \A k \in 1 .. Len(docs) : Owed(k) => \E i \in 1 .. Len(page) : page[i] = k
  BY DEF AddressInv
<1>6. \A i \in 1 .. Len(page) :
        /\ page[i] \in 1 .. Len(docs') /\ page[i] <= pos
        /\ page[i] \in moved \/ Lives(page[i])'
  <2> SUFFICES ASSUME NEW i \in 1 .. Len(page)
               PROVE  /\ page[i] \in 1 .. Len(docs') /\ page[i] <= pos
                      /\ page[i] \in moved \/ (docs'[page[i]] /\ page[i] \in here')
    BY <1>1 DEF Lives
  <2> QED
    BY <1>2, <1>3, <1>5 DEF Lives
<1>7. \A k \in 1 .. Len(docs') : Owed(k)' => \E i \in 1 .. Len(page) : page[i] = k
  <2> SUFFICES ASSUME NEW k \in 1 .. Len(docs'), Owed(k)'
               PROVE  \E i \in 1 .. Len(page) : page[i] = k
    OBVIOUS
  <2>1. k \in 1 .. Len(docs)
    BY <1>1, <1>2, <1>3, <1>5 DEF Owed
  <2> QED
    BY <1>1, <1>4, <1>5, <2>1 DEF Owed
<1> QED
  BY <1>1, <1>2, <1>3, <1>5, <1>6, <1>7 DEF AddressInv

\* Who moves is no longer owed, and may be listed.
LEMMA MoveAddress ==
  ASSUME AddressInv, NEW n \in DOMAIN docs, Move(n)
  PROVE  AddressInv'
<1> SUFFICES ASSUME pc \in ByAddress, ~failed PROVE AddressInv'
  BY DEF Move, AddressInv
<1>1. UNCHANGED <<docs, pc, pos, page, failed, before>> /\ moved' = moved \cup {n}
  BY DEF Move
<1>2. \A k : k # n => (k \in here' <=> k \in here)
  BY DEF Move
<1>3. \A k : k \notin moved' => (docs'[k] /\ k \in here' <=> Lives(k))
  BY <1>1, <1>2 DEF Lives
<1>4. \A i \in 1 .. Len(page) :
        page[i] \in moved' \/ (docs'[page[i]] /\ page[i] \in here')
  BY <1>1, <1>3 DEF AddressInv
<1>5. \A k \in 1 .. Len(docs) : Owed(k)' => Owed(k)
  BY <1>1, <1>3 DEF Owed, Lives
<1> QED
  BY <1>1, <1>4, <1>5 DEF AddressInv, Lives

\* A batch brings what is owed from the cursor to where it stops.
LEMMA CollectAddress ==
  PageInv /\ AddressInv /\ FindByAddress => AddressInv'
<1> SUFFICES ASSUME PageInv, AddressInv, FindByAddress, ~failed' PROVE AddressInv'
  BY DEF AddressInv
<1> DEFINE b == NextAddressed
           L == Len(page)
<1>1. /\ page' = page \o b
      /\ pos' = IF b = <<>> THEN pos ELSE Last(b)
      /\ pc' = IF Len(b) < Batch THEN "listed" ELSE "moreByAddress"
      /\ failed' = failed
      /\ UNCHANGED <<docs, here, before, moved>>
      /\ pc \in {"findByAddress", "moreByAddress"}
  BY DEF FindByAddress, Collect
<1>2. /\ docs \in Seq(BOOLEAN) /\ Len(docs) \in Nat /\ before \in Nat
      /\ before <= Len(docs) /\ pos \in Nat /\ page \in Seq(1 .. MaxDocs)
  BY DEF PageInv, TypeOK
<1>3. /\ pos \in 0 .. Len(docs)
      /\ \A i \in 1 .. L :
           /\ page[i] \in 1 .. Len(docs) /\ page[i] <= pos
           /\ page[i] \in moved \/ Lives(page[i])
      /\ \A i, j \in 1 .. L : i < j => page[i] < page[j]
      /\ \A k \in 1 .. Len(docs) : Owed(k) => \E i \in 1 .. L : page[i] = k
  BY <1>1 DEF AddressInv, ByAddress
<1>4. /\ b \in Seq(1 .. Len(docs)) /\ Len(b) \in Nat
      /\ \A i \in 1 .. Len(b) : Lives(b[i]) /\ pos < b[i]
      /\ \A i, j \in 1 .. Len(b) : i < j => b[i] < b[j]
      /\ \A k \in 1 .. Len(docs) :
           Lives(k) /\ pos < k /\ (Len(b) < Batch \/ k <= b[Len(b)])
             => \E i \in 1 .. Len(b) : b[i] = k
  BY <1>2, BatchAddressed
<1> HIDE DEF b
<1>5. \A i \in 1 .. Len(b) : b[i] \in 1 .. Len(docs)
  BY <1>4, ElementOfSeq
<1>6. L \in Nat /\ Len(page') = L + Len(b)
      /\ \A i \in 1 .. L + Len(b) : page'[i] = IF i <= L THEN page[i] ELSE b[i - L]
  <2>1. 1 .. MaxDocs \subseteq Nat /\ 1 .. Len(docs) \subseteq Nat
    BY <1>2, PaginationAssumption
  <2>2. page \in Seq(Nat)
    BY <1>2, <2>1, SeqMonotonic
  <2>3. b \in Seq(Nat)
    BY <1>4, <2>1, SeqMonotonic
  <2>4. L \in Nat
    BY <2>2
  <2> QED
    BY <1>1, <2>2, <2>3, <2>4, ConcatProperties
<1> HIDE DEF L
<1>7. /\ pos' \in 0 .. Len(docs) /\ pos <= pos'
      /\ \A i \in 1 .. Len(b) : b[i] <= pos'
      /\ b # <<>> => Len(b) \in 1 .. Len(b) /\ pos' = b[Len(b)]
      /\ b = <<>> => Len(b) = 0 /\ pos' = pos
  <2>1. CASE b = <<>>
    BY <1>1, <1>3, <2>1
  <2>2. CASE b # <<>>
    <3>1. Len(b) \in 1 .. Len(b) /\ pos' = b[Len(b)]
      BY <1>1, <1>4, <2>2 DEF Last
    <3>2. \A i \in 1 .. Len(b) : b[i] <= b[Len(b)]
      <4> SUFFICES ASSUME NEW i \in 1 .. Len(b) PROVE b[i] <= b[Len(b)]
        OBVIOUS
      <4>1. i = Len(b) \/ i < Len(b)
        BY <1>4
      <4>2. b[i] \in Nat /\ b[Len(b)] \in Nat
        BY <1>5, <3>1
      <4> QED
        BY <1>4, <3>1, <4>1, <4>2
    <3> QED
      BY <1>2, <1>4, <1>5, <2>2, <3>1, <3>2
  <2> QED
    BY <2>1, <2>2
\* Each place of the new page is one of the old page or of the batch.
<1>8. \A i \in 1 .. Len(page') :
        \/ i \in 1 .. L /\ page'[i] = page[i]
        \/ i - L \in 1 .. Len(b) /\ page'[i] = b[i - L] /\ i > L
  BY <1>4, <1>6
<1>9. \A i \in 1 .. Len(page') :
        /\ page'[i] \in 1 .. Len(docs) /\ page'[i] <= pos'
        /\ page'[i] \in moved \/ Lives(page'[i])
  <2> SUFFICES ASSUME NEW i \in 1 .. Len(page')
               PROVE  /\ page'[i] \in 1 .. Len(docs) /\ page'[i] <= pos'
                      /\ page'[i] \in moved \/ Lives(page'[i])
    OBVIOUS
  <2>1. CASE i \in 1 .. L /\ page'[i] = page[i]
    <3>1. /\ page[i] \in 1 .. Len(docs) /\ page[i] <= pos
          /\ page[i] \in moved \/ Lives(page[i])
      BY <1>3, <2>1
    <3>2. page[i] <= pos'
      BY <1>2, <1>7, <3>1
    <3> QED
      BY <2>1, <3>1, <3>2
  <2>2. CASE i - L \in 1 .. Len(b) /\ page'[i] = b[i - L]
    BY <1>4, <1>5, <1>7, <2>2
  <2> QED
    BY <1>8, <2>1, <2>2
<1>10. ASSUME NEW i \in 1 .. Len(page'), NEW j \in 1 .. Len(page'), i < j
       PROVE  page'[i] < page'[j]
  <2>1. i \in Int /\ j \in Int /\ L \in Nat
    BY <1>6
  <2>2. CASE j \in 1 .. L /\ page'[j] = page[j]
    <3>1. i \in 1 .. L /\ page'[i] = page[i]
      BY <1>8, <1>10, <2>1, <2>2
    <3> QED
      BY <1>3, <1>10, <2>2, <3>1
  <2>3. CASE j - L \in 1 .. Len(b) /\ page'[j] = b[j - L]
    <3>1. b[j - L] \in 1 .. Len(docs) /\ pos < b[j - L]
      BY <1>4, <1>5, <2>3
    <3>2. CASE i \in 1 .. L /\ page'[i] = page[i]
      <4>1. page[i] \in 1 .. Len(docs) /\ page[i] <= pos
        BY <1>3, <3>2
      <4> QED
        BY <1>2, <2>3, <3>1, <3>2, <4>1
    <3>3. CASE i - L \in 1 .. Len(b) /\ page'[i] = b[i - L]
      <4>1. i - L < j - L
        BY <1>10, <2>1
      <4> QED
        BY <1>4, <2>3, <3>3, <4>1
    <3> QED
      BY <1>8, <3>2, <3>3
  <2> QED
    BY <1>8, <2>2, <2>3
<1>11. ASSUME NEW k \in 1 .. Len(docs), Owed(k)'
       PROVE  \E i \in 1 .. Len(page') : page'[i] = k
  <2>1. Lives(k) /\ k \notin moved /\ (k <= pos' \/ (pc' = "listed" /\ k <= before))
    BY <1>1, <1>11 DEF Owed, Lives
  <2>2. CASE k <= pos
    <3>1. PICK i \in 1 .. L : page[i] = k
      BY <1>3, <2>1, <2>2 DEF Owed
    <3>2. i \in 1 .. Len(page') /\ page'[i] = page[i]
      BY <1>4, <1>6
    <3> QED
      BY <3>1, <3>2
  <2>3. CASE ~(k <= pos)
    <3>1. Len(b) < Batch \/ k <= b[Len(b)]
      <4>1. CASE pc' = "listed"
        <5>1. Len(b) < Batch
          BY <1>1, <4>1
        <5> QED
          BY <5>1
      <4>2. CASE pc' # "listed"
        BY <1>7, <2>1, <2>3, <4>2
      <4> QED
        BY <4>1, <4>2
    <3>2. pos < k
      BY <1>2, <2>3
    <3>3. PICK i \in 1 .. Len(b) : b[i] = k
      BY <1>4, <2>1, <3>1, <3>2
    <3>4. i + L \in 1 .. Len(page') /\ page'[i + L] = b[i]
      <4>1. i + L \in 1 .. L + Len(b) /\ ~(i + L <= L) /\ i + L - L = i
        BY <1>4, <1>6
      <4> QED
        BY <1>6, <4>1
    <3> QED
      BY <3>3, <3>4
  <2> QED
    BY <2>2, <2>3
<1>12. UNCHANGED <<docs, moved>> /\ \A k : Lives(k)' <=> Lives(k)
  BY <1>1 DEF Lives
<1> QED
  BY <1>1, <1>7, <1>9, <1>10, <1>11, <1>12 DEF AddressInv, Lives

\* The users of an address: all who had it all the time are listed, each once and in order,
\* and nobody who never had it.
THEOREM AddressAnswered == Spec => []AddressListed
<1>1. Init => AddressInv
  BY DEF Init, AddressInv, ByAddress
<1>2. PageInv /\ AddressInv /\ [Next]_vars => AddressInv'
  <2> SUFFICES ASSUME PageInv, AddressInv, [Next]_vars PROVE AddressInv'
    OBVIOUS
  <2>1. CASE UNCHANGED vars
    BY <2>1 DEF vars, AddressInv, Owed, Lives
  <2>2. CASE Insert
    BY <2>2, InsertAddress
  <2>3. CASE \E k \in DOMAIN docs : Move(k)
    BY <2>3, MoveAddress
  <2>4. CASE AskByAddress
    <3>1. /\ pos' = 0 /\ page' = <<>> /\ pc' = "findByAddress" /\ docs' = docs
          /\ Len(docs) \in Nat
      BY <2>4 DEF AskByAddress, PageInv, TypeOK
    <3>2. \A k \in 1 .. Len(docs) : ~Owed(k)'
      BY <3>1 DEF Owed
    <3> QED
      BY <3>1, <3>2 DEF AddressInv
  <2>5. CASE FindByAddress
    BY <2>5, CollectAddress
  <2>6. CASE AskDevices \/ AskAll \/ StartWalk \/ Continue \/ Done \/ First \/ More
    <3>1. pc' \notin ByAddress
      BY <2>6 DEF AskDevices, AskAll, StartWalk, Continue, Done, First, More, Request, Respond,
                  Receive, Leave, ByAddress
    <3> QED
      BY <3>1 DEF AddressInv
  <2> QED
    BY <2>1, <2>2, <2>3, <2>4, <2>5, <2>6 DEF Next
<1>3. PageInv /\ AddressInv => AddressListed
  <2> SUFFICES ASSUME PageInv, AddressInv, pc = "listed", ~failed PROVE AddressListed
    BY DEF AddressListed
  <2>1. page \in Seq(1 .. MaxDocs) /\ docs \in Seq(BOOLEAN) /\ before <= Len(docs)
        /\ DOMAIN page = 1 .. Len(page) /\ DOMAIN docs = 1 .. Len(docs)
    BY DEF PageInv, TypeOK
  <2>2. /\ \A i \in DOMAIN page :
             page[i] \in DOMAIN docs /\ (page[i] \in moved \/ Lives(page[i]))
        /\ \A i, j \in DOMAIN page : i < j => page[i] < page[j]
        /\ \A k \in DOMAIN docs : Owed(k) => \E i \in DOMAIN page : page[i] = k
    BY <2>1 DEF AddressInv, ByAddress
  <2>3. \A k \in DOMAIN docs : Lives(k) /\ k \in 1 .. before /\ k \notin moved => Owed(k)
    BY DEF Owed
  <2> QED
    BY <2>2, <2>3 DEF AddressListed, Range
<1> QED
  BY <1>1, <1>2, <1>3, Invariance, PTL DEF Spec

=============================================================================
