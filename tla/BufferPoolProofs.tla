-------------------------- MODULE BufferPoolProofs --------------------------
(***************************************************************************)
(* Proofs about BufferPool for pools, buffers and sets of requests of      *)
(* every size: every operation of the pool keeps its books.                *)
(*                                                                         *)
(* Books(p, t) says of a pool p and tickets t that the counters of p are   *)
(* the sums over t, that the bytes p holds are those of its blocks and     *)
(* lists, and that every claimed ticket finds its own memory marked used,  *)
(* apart from that of every other. The lemmas named ...Books show that     *)
(* reserving, forcing, claiming, giving back, trimming and adding a list   *)
(* keep it; Resumes shows it of a release that serves the reservations     *)
(* pending behind it. PutPrepareProofs builds on them.                     *)
(***************************************************************************)
EXTENDS BufferPool, FiniteSetTheorems, WellFoundedInduction, TLAPS

Block == [id : Nat, used : SUBSET Nat]
Slot == [id : Nat, used : BOOLEAN]
Lists == UNION {[D -> SUBSET Slot] : D \in SUBSET Nat}
Tallies == [Area -> Nat]
PoolType ==
    [blocks : Seq(Block), special : Lists, reserved : Tallies, used : Tallies,
     primary_allocated : Int, special_allocated : Int, forced_used : Nat]

Place == [block : Nat, chunk : Nat]
TicketType ==
    [state : {"reserved"}, from : Area, forced : BOOLEAN]
      \cup [state : {"claimed"}, from : Area, forced : BOOLEAN, place : Place]
Tickets == [Request -> TicketType \cup {NoTicket}]

ReservedTicket(a, forced) == [state |-> "reserved", from |-> a, forced |-> forced]

\* The tickets t once r has the ticket v, and changes of a tally.
Given(t, r, v) == [t EXCEPT ![r] = v]
Plus(f, a, n) == [f EXCEPT ![a] = @ + n]
Minus(f, a, n) == [f EXCEPT ![a] = @ - n]
Moved(f, a, n, forced) == [f EXCEPT ![a] = IF forced THEN @ ELSE @ - n]

\* How a ticket v is counted.
IsReserved(v, a) == v.state = "reserved" /\ v.from = a /\ ~v.forced
IsClaimed(v, a) == v.state = "claimed" /\ v.from = a
IsForcedClaim(v) == v.state = "claimed" /\ v.forced = TRUE
IsUnforced(v) == v.state \in {"reserved", "claimed"} /\ ~v.forced

Reserved(t, a) == {r \in Request : IsReserved(t[r], a)}
Claimed(t, a) == {r \in Request : IsClaimed(t[r], a)}
ForcedClaims(t) == {r \in Request : IsForcedClaim(t[r])}
Unforced(t) == {r \in Request : IsUnforced(t[r])}

\* The counters of the pool are those of the tickets t, and unforced tickets
\* stay within the limit.
Counted(used, reserved, forced, t) ==
    /\ \A a \in Area : used[a] = Total(Claimed(t, a)) /\ reserved[a] = Total(Reserved(t, a))
    /\ forced = Total(ForcedClaims(t))
    /\ Sum(used) + Sum(reserved) = Total(Unforced(t)) + forced
    /\ Total(Unforced(t)) <= MemLimit
-----------------------------------------------------------------------------
(***************************************************************************)
(* Induction over numbers and over the size of finite sets, and sums.      *)
(* SumFunction of the library folds in an order its definition leaves      *)
(* open.                                                                   *)
(***************************************************************************)
LEMMA Least ==
    ASSUME NEW T \in SUBSET Nat, T # {}
    PROVE  \E x \in T : \A y \in T : x <= y
<1> DEFINE R == {ss \in Nat \X Nat : ss[1] < ss[2]}
<1>1. IsWellFoundedOn(R, Nat)
  BY NatLessThanWellFounded DEF OpToRel
<1>2. PICK x \in T : \A y \in T : <<y, x>> \notin R
  BY <1>1, WFMin, Zenon
<1>3. \A y \in T : ~(y < x)
  BY <1>2, Zenon
<1> QED
  BY <1>3

LEMMA SetInduction ==
    ASSUME NEW T \in SUBSET Nat, 0 \in T, \A n \in T : n + 1 \in T
    PROVE  T = Nat
<1> DEFINE U == Nat \ T
<1> SUFFICES ASSUME U # {}
             PROVE  FALSE
  BY Zenon
<1>1. PICK x \in U : \A y \in U : x <= y
  BY Least, Zenon DEF U
<1>2. x - 1 \in T
  BY <1>1
<1> QED
  BY <1>2

Pick(s) == CHOOSE x \in s : TRUE

\* A sum over the subsets of S, as the fold of the library unrolls it.
Unrolls(f, g, S) ==
    \A s \in SUBSET S : f[s] = IF s = {} THEN 0 ELSE g[Pick(s)] + f[s \ {Pick(s)}]
IsSum(f, g, S) == f \in [SUBSET S -> Nat] /\ Unrolls(f, g, S)

LEMMA SubsetSize ==
    ASSUME NEW S, IsFiniteSet(S), NEW s \in SUBSET S
    PROVE  /\ IsFiniteSet(s) /\ Cardinality(s) \in Nat
           /\ Cardinality(s) = 0 <=> s = {}
BY FS_Subset, FS_EmptySet, FS_CardinalityType

LEMMA SmallerSet ==
    ASSUME NEW S, IsFiniteSet(S), NEW s \in SUBSET S, s # {}, NEW x \in s
    PROVE  /\ s \ {x} \in SUBSET S
           /\ Cardinality(s) \in Nat /\ Cardinality(s \ {x}) \in Nat
           /\ Cardinality(s) = Cardinality(s \ {x}) + 1
BY FS_Subset, FS_RemoveElement, FS_CardinalityType

LEMMA SumExists ==
    ASSUME NEW S, IsFiniteSet(S), NEW g \in [S -> Nat]
    PROVE  \E f : IsSum(f, g, S)
<1> DEFINE Upto(n) == {s \in SUBSET S : Cardinality(s) <= n}
           Partial(f, n) ==
             /\ f \in [Upto(n) -> Nat]
             /\ \A s \in Upto(n) : f[s] = IF s = {} THEN 0 ELSE g[Pick(s)] + f[s \ {Pick(s)}]
           T == {n \in Nat : \E f : Partial(f, n)}
<1>1. ASSUME NEW s \in SUBSET S, s # {}
      PROVE  /\ Pick(s) \in s /\ g[Pick(s)] \in Nat /\ s \ {Pick(s)} \in SUBSET S
             /\ Cardinality(s) \in Nat /\ Cardinality(s \ {Pick(s)}) \in Nat
             /\ Cardinality(s) = Cardinality(s \ {Pick(s)}) + 1
  <2>1. Pick(s) \in s
    BY <1>1 DEF Pick
  <2> QED
    BY SMTT(20), <2>1, SmallerSet
<1>2. Cardinality({}) = 0
  BY FS_EmptySet
<1>3. 0 \in T
  <2> DEFINE f == [s \in Upto(0) |-> 0]
  <2>1. \A s \in Upto(0) : s = {}
    BY SubsetSize
  <2>2. Partial(f, 0)
    BY <2>1
  <2> HIDE DEF f, Partial
  <2> QED
    BY <2>2
<1>4. ASSUME NEW n \in T
      PROVE  n + 1 \in T
  <2>1. n \in Nat
    OBVIOUS
  <2>2. PICK f : Partial(f, n)
    BY Zenon
  <2> DEFINE h == [s \in Upto(n + 1) |->
                     IF s = {} THEN 0 ELSE g[Pick(s)] + f[s \ {Pick(s)}]]
  <2>3. \A s \in Upto(n + 1) : s # {} => s \ {Pick(s)} \in Upto(n)
    BY <1>1, <2>1
  <2>4. ASSUME NEW s \in Upto(n)
        PROVE  s \in Upto(n + 1) /\ h[s] = f[s]
    BY SubsetSize, <2>1, <2>2
  <2>5. h \in [Upto(n + 1) -> Nat]
    BY <2>2, <1>1, <2>3
  <2>6. \A s \in Upto(n + 1) : h[s] = IF s = {} THEN 0 ELSE g[Pick(s)] + h[s \ {Pick(s)}]
    BY <2>3, <2>4, Zenon
  <2>7. Partial(h, n + 1)
    BY <2>5, <2>6, Zenon
  <2> HIDE DEF h, Partial
  <2> QED
    BY <2>7
<1>5. T = Nat
  BY <1>3, <1>4, SetInduction, Zenon DEF T
<1> DEFINE N == Cardinality(S)
<1>6. N \in Nat /\ \A s \in SUBSET S : Cardinality(s) <= N
  BY FS_CardinalityType, FS_Subset
<1>7. Upto(N) = SUBSET S
  BY <1>6
<1>8. PICK f : Partial(f, N)
  BY <1>5, <1>6, Zenon
<1>9. IsSum(f, g, S)
  BY <1>7, <1>8 DEF IsSum, Unrolls
<1> QED
  BY <1>9

\* Two such sums agree where their summands do.
LEMMA SumUnique ==
    ASSUME NEW S, IsFiniteSet(S), NEW A, NEW B, S \subseteq A, S \subseteq B,
           NEW e, NEW f, NEW g, NEW h, Unrolls(e, g, A), Unrolls(f, h, B),
           \A x \in S : g[x] = h[x]
    PROVE  e[S] = f[S]
<1> DEFINE T == {n \in Nat : \A s \in SUBSET S : Cardinality(s) = n => e[s] = f[s]}
<1>1. ASSUME NEW s \in SUBSET S, s # {}
      PROVE  /\ Pick(s) \in s /\ s \ {Pick(s)} \in SUBSET S
             /\ Cardinality(s) \in Nat /\ Cardinality(s \ {Pick(s)}) \in Nat
             /\ Cardinality(s) = Cardinality(s \ {Pick(s)}) + 1
  <2>1. Pick(s) \in s
    BY <1>1 DEF Pick
  <2> QED
    BY <1>1, <2>1, SmallerSet
<1>2. \A s \in SUBSET S : s \in SUBSET A /\ s \in SUBSET B
  OBVIOUS
<1>3. 0 \in T
  BY SubsetSize, <1>2, Zenon DEF Unrolls
<1>4. ASSUME NEW n \in T
      PROVE  n + 1 \in T
  <2> SUFFICES ASSUME NEW s \in SUBSET S, Cardinality(s) = n + 1
               PROVE  e[s] = f[s]
    OBVIOUS
  <2>1. s # {}
    BY SubsetSize
  <2> DEFINE x == Pick(s)
  <2>2. x \in S /\ s \ {x} \in SUBSET S /\ Cardinality(s \ {x}) = n
    BY <1>1, <2>1
  <2>3. e[s \ {x}] = f[s \ {x}]
    BY <2>2
  <2>4. e[s] = g[x] + e[s \ {x}] /\ f[s] = h[x] + f[s \ {x}]
    BY <2>1, Zenon DEF Unrolls
  <2> QED
    BY <2>3, <2>4, Zenon
<1>5. T = Nat
  BY <1>3, <1>4, SetInduction, Zenon DEF T
<1>6. Cardinality(S) \in Nat
  BY FS_CardinalityType
<1> QED
  BY <1>5, <1>6

LEMMA SumIsFold ==
    ASSUME NEW S, IsFiniteSet(S), NEW g \in [S -> Nat]
    PROVE  \E f : IsSum(f, g, S) /\ SumFunctionOnSet(g, S) = f[S]
<1> DEFINE F(f) == [s \in SUBSET S |-> IF s = {} THEN 0 ELSE g[Pick(s)] + f[s \ {Pick(s)}]]
           iter == CHOOSE f : f = F(f)
<1>1. SumFunctionOnSet(g, S) = iter[S]
  BY DEF SumFunctionOnSet, FoldFunctionOnSet, MapThenFoldSet, Pick
<1>2. PICK f : IsSum(f, g, S)
  BY SumExists
<1>3. f = F(f)
  BY <1>2, Zenon DEF IsSum, Unrolls
<1>4. iter = F(iter)
  BY <1>3, Zenon
<1>5. Unrolls(iter, g, S)
  BY <1>4, Zenon DEF Unrolls
<1>6. ASSUME NEW s \in SUBSET S
      PROVE  iter[s] = f[s]
  BY FS_Subset, <1>2, <1>5, SumUnique DEF IsSum
<1>7. iter \in [SUBSET S -> Nat]
  BY <1>2, <1>6, <1>4, Zenon DEF IsSum
<1> QED
  BY <1>1, <1>5, <1>7, Zenon DEF IsSum

\* The sum does not depend on the order in which the library folds.
LEMMA SumAnyOrder ==
    ASSUME NEW S, IsFiniteSet(S), NEW g \in [S -> Nat], NEW f, IsSum(f, g, S), NEW x \in S
    PROVE  f[S] = g[x] + f[S \ {x}]
<1> DEFINE T == {n \in Nat : \A s \in SUBSET S : Cardinality(s) = n =>
                                \A y \in s : f[s] = g[y] + f[s \ {y}]}
<1>1. 0 \in T
  BY SubsetSize
<1>2. ASSUME NEW n \in T
      PROVE  n + 1 \in T
  <2> SUFFICES ASSUME NEW s \in SUBSET S, Cardinality(s) = n + 1, NEW y \in s
               PROVE  f[s] = g[y] + f[s \ {y}]
    OBVIOUS
  <2> DEFINE p == Pick(s)
             rest == (s \ {y}) \ {p}
  <2>1. p \in s
    BY DEF Pick
  <2>2. f[s] = g[p] + f[s \ {p}]
    BY DEF IsSum, Unrolls
  <2>3. CASE p = y
    BY <2>2, <2>3
  <2>4. CASE p # y
    <3>1. Cardinality(s \ {p}) = n /\ Cardinality(s \ {y}) = n
      BY <2>1, SmallerSet
    <3>2. rest = (s \ {p}) \ {y} /\ y \in s \ {p} /\ p \in s \ {y}
      BY <2>1, <2>4
    <3>3. f[s \ {p}] = g[y] + f[rest]
      BY <3>1, <3>2
    <3>4. f[s \ {y}] = g[p] + f[rest]
      BY <3>1, <3>2
    <3>5. g[y] \in Nat /\ g[p] \in Nat /\ f[rest] \in Nat
      BY <2>1 DEF IsSum
    <3> QED
      BY <2>2, <3>3, <3>4, <3>5
  <2> QED
    BY <2>3, <2>4
<1>3. T = Nat
  BY <1>1, <1>2, SetInduction, Zenon DEF T
<1>4. Cardinality(S) \in Nat
  BY FS_CardinalityType
<1> QED
  BY <1>3, <1>4

\* What a sum of the library is, without the order of its fold.
LEMMA SumNone ==
    ASSUME NEW g \in [{} -> Nat]
    PROVE  SumFunction(g) = 0
BY SumIsFold, FS_EmptySet, Zenon DEF IsSum, Unrolls, SumFunction

LEMMA SumType ==
    ASSUME NEW S, IsFiniteSet(S), NEW g \in [S -> Nat]
    PROVE  SumFunction(g) \in Nat
<1>1. PICK f : IsSum(f, g, S) /\ SumFunctionOnSet(g, S) = f[S]
  BY SumIsFold
<1> QED
  BY <1>1 DEF SumFunction, IsSum

LEMMA SumOneMore ==
    ASSUME NEW S, IsFiniteSet(S), NEW x, x \notin S,
           NEW g \in [S -> Nat], NEW h \in [S \cup {x} -> Nat],
           \A y \in S : h[y] = g[y]
    PROVE  SumFunction(h) = SumFunction(g) + h[x]
<1>1. IsFiniteSet(S \cup {x})
  BY FS_AddElement
<1>2. PICK f : IsSum(f, h, S \cup {x}) /\ SumFunctionOnSet(h, S \cup {x}) = f[S \cup {x}]
  BY <1>1, SumIsFold
<1>3. PICK e : IsSum(e, g, S) /\ SumFunctionOnSet(g, S) = e[S]
  BY SumIsFold
<1>4. f[S \cup {x}] = h[x] + f[(S \cup {x}) \ {x}]
  BY <1>1, <1>2, SumAnyOrder
<1>5. (S \cup {x}) \ {x} = S
  OBVIOUS
<1>6. f[S] = e[S]
  BY <1>2, <1>3, SumUnique DEF IsSum
<1>7. f[S] \in Nat /\ h[x] \in Nat
  BY <1>2 DEF IsSum
<1>8. SumFunction(h) = f[S \cup {x}] /\ SumFunction(g) = e[S]
  BY <1>2, <1>3 DEF SumFunction
<1>9. f[(S \cup {x}) \ {x}] = e[S]
  BY <1>5, <1>6
<1> QED
  BY <1>4, <1>6, <1>7, <1>8, <1>9

LEMMA UpTo ==
    ASSUME NEW T, NEW n \in Nat, 0 \in T, \A i \in 0..n : i < n /\ i \in T => i + 1 \in T
    PROVE  \A i \in 0..n : i \in T
<1> DEFINE U == {i \in 0..n : i \notin T}
           R == {ss \in Nat \X Nat : ss[1] < ss[2]}
<1> SUFFICES ASSUME U # {}
             PROVE  FALSE
  BY Zenon
<1>1. IsWellFoundedOn(R, Nat)
  BY NatLessThanWellFounded DEF OpToRel
<1>2. U \subseteq Nat
  OBVIOUS
<1>3. PICK x \in U : \A y \in U : <<y, x>> \notin R
  BY <1>1, <1>2, WFMin, Zenon
<1>4. x \in 0..n /\ x # 0 /\ x \notin T
  BY <1>3
<1>5. x - 1 \notin U
  <2>1. x - 1 \in Nat /\ x \in Nat /\ x - 1 < x
    BY <1>4
  <2>2. <<x - 1, x>> \in R
    BY <2>1
  <2> HIDE DEF R, U
  <2> QED
    BY <1>3, <2>2, Zenon
<1>6. x - 1 \in T /\ x - 1 \in 0..n /\ x - 1 < n
  BY <1>4, <1>5
<1>7. (x - 1) + 1 \in T
  BY <1>6
<1> QED
  BY <1>4, <1>7
-----------------------------------------------------------------------------
(***************************************************************************)
(* The counters of the pool.                                               *)
(***************************************************************************)
LEMMA SizeType == \A r \in Request : r.size \in Nat /\ r.size > 0
BY PoolAssumption

LEMMA LimitType == MemLimit \in Nat
BY PoolAssumption

LEMMA TotalType ==
    ASSUME NEW A \in SUBSET Request
    PROVE  Total(A) \in Nat
BY PoolAssumption, FS_Subset, SizeType, SumType DEF Total

LEMMA TotalOneMore ==
    ASSUME NEW A \in SUBSET Request, NEW r \in Request, r \notin A
    PROVE  Total(A \cup {r}) = Total(A) + r.size
<1> DEFINE g == [x \in A |-> x.size]
           h == [x \in A \cup {r} |-> x.size]
<1>1. IsFiniteSet(A)
  BY PoolAssumption, FS_Subset
<1>2. g \in [A -> Nat] /\ h \in [A \cup {r} -> Nat] /\ h[r] = r.size /\ \A y \in A : h[y] = g[y]
  BY SizeType
<1> HIDE DEF g, h
<1>3. SumFunction(h) = SumFunction(g) + h[r]
  BY <1>1, <1>2, SumOneMore
<1> QED
  BY <1>2, <1>3 DEF Total, g, h

\* What a set of requests holds in all, as one of them joins or leaves.
LEMMA Totals ==
    ASSUME NEW A \in SUBSET Request, NEW B \in SUBSET Request, NEW r \in Request
    PROVE  /\ Total(A) \in Nat /\ Total(B) \in Nat /\ r.size \in Nat
           /\ B = A \cup {r} /\ r \notin A => Total(B) = Total(A) + r.size
           /\ B = A \ {r} /\ r \in A => Total(A) = Total(B) + r.size
           /\ r \in A => r.size <= Total(A)
<1>1. Total(A) \in Nat /\ Total(B) \in Nat /\ r.size \in Nat
  BY TotalType, SizeType
<1>2. B = A \cup {r} /\ r \notin A => Total(B) = Total(A) + r.size
  BY TotalOneMore
<1>3. ASSUME r \in A
      PROVE  Total(A) = Total(A \ {r}) + r.size /\ Total(A \ {r}) \in Nat
  BY <1>3, TotalOneMore, TotalType
<1> QED
  BY <1>1, <1>2, <1>3

LEMMA TotalNone == Total({}) = 0
BY SumNone, Zenon DEF Total

\* The size of r, when it counts.
Share(r, counts) == IF counts THEN r.size ELSE 0

LEMMA TotalChange ==
    ASSUME NEW A \in SUBSET Request, NEW B \in SUBSET Request, NEW r \in Request,
           NEW was \in BOOLEAN, NEW is \in BOOLEAN, was <=> r \in A, is <=> r \in B,
           \A x \in Request : x # r => (x \in A <=> x \in B)
    PROVE  Total(B) = Total(A) - Share(r, was) + Share(r, is)
<1> DEFINE C == A \ {r}
<1>1. C \in SUBSET Request /\ (was => A = C \cup {r}) /\ (~was => A = C)
      /\ (is => B = C \cup {r}) /\ (~is => B = C) /\ r \notin C
  OBVIOUS
<1> HIDE DEF C
<1>2. Total(C \cup {r}) = Total(C) + r.size /\ Total(C) \in Nat /\ r.size \in Nat
  BY <1>1, TotalOneMore, TotalType, SizeType
<1>3. /\ was => Total(A) = Total(C) + r.size /\ Share(r, was) = r.size
      /\ ~was => Total(A) = Total(C) /\ Share(r, was) = 0
      /\ is => Total(B) = Total(C) + r.size /\ Share(r, is) = r.size
      /\ ~is => Total(B) = Total(C) /\ Share(r, is) = 0
  BY <1>1, <1>2, Zenon DEF Share
<1>4. Total(A) = Total(C) + Share(r, was) /\ Total(B) = Total(C) + Share(r, is)
  BY <1>2, <1>3
<1>5. Share(r, was) \in Nat /\ Share(r, is) \in Nat
  BY <1>2 DEF Share
<1> QED
  BY <1>2, <1>4, <1>5

LEMMA TicketSubsets ==
    ASSUME NEW t, NEW a
    PROVE  /\ Reserved(t, a) \in SUBSET Request /\ Claimed(t, a) \in SUBSET Request
           /\ ForcedClaims(t) \in SUBSET Request /\ Unforced(t) \in SUBSET Request
BY DEF Reserved, Claimed, ForcedClaims, Unforced

\* What is counted after the ticket of r has changed.
Recounted(t, u, r) ==
    /\ \A a : /\ Total(Reserved(u, a)) = Total(Reserved(t, a)) - Share(r, IsReserved(t[r], a))
                                             + Share(r, IsReserved(u[r], a))
             /\ Total(Claimed(u, a)) = Total(Claimed(t, a)) - Share(r, IsClaimed(t[r], a))
                                            + Share(r, IsClaimed(u[r], a))
    /\ Total(ForcedClaims(u)) = Total(ForcedClaims(t)) - Share(r, IsForcedClaim(t[r]))
                                   + Share(r, IsForcedClaim(u[r]))
    /\ Total(Unforced(u)) = Total(Unforced(t)) - Share(r, IsUnforced(t[r]))
                               + Share(r, IsUnforced(u[r]))

LEMMA TicketChanges ==
    ASSUME NEW t \in Tickets, NEW r \in Request, NEW v
    PROVE  Recounted(t, [t EXCEPT ![r] = v], r) /\ [t EXCEPT ![r] = v][r] = v
<1> DEFINE u == [t EXCEPT ![r] = v]
<1>1. u[r] = v /\ \A x \in Request \ {r} : u[x] = t[x]
  BY DEF Tickets
<1> HIDE DEF u
<1>2. ASSUME NEW a
      PROVE  /\ Total(Reserved(u, a)) = Total(Reserved(t, a)) - Share(r, IsReserved(t[r], a))
                                             + Share(r, IsReserved(u[r], a))
             /\ Total(Claimed(u, a)) = Total(Claimed(t, a)) - Share(r, IsClaimed(t[r], a))
                                            + Share(r, IsClaimed(u[r], a))
  <2>1. /\ IsReserved(t[r], a) \in BOOLEAN /\ IsReserved(u[r], a) \in BOOLEAN
        /\ IsClaimed(t[r], a) \in BOOLEAN /\ IsClaimed(u[r], a) \in BOOLEAN
    BY DEF IsReserved, IsClaimed
  <2>2. Total(Reserved(u, a)) = Total(Reserved(t, a)) - Share(r, IsReserved(t[r], a))
                                  + Share(r, IsReserved(u[r], a))
    BY <1>1, <2>1, TicketSubsets, TotalChange DEF Reserved
  <2>3. Total(Claimed(u, a)) = Total(Claimed(t, a)) - Share(r, IsClaimed(t[r], a))
                                 + Share(r, IsClaimed(u[r], a))
    BY <1>1, <2>1, TicketSubsets, TotalChange DEF Claimed
  <2> QED
    BY <2>2, <2>3
<1>3. Total(ForcedClaims(u)) = Total(ForcedClaims(t)) - Share(r, IsForcedClaim(t[r]))
                                 + Share(r, IsForcedClaim(u[r]))
  <2>1. IsForcedClaim(t[r]) \in BOOLEAN /\ IsForcedClaim(u[r]) \in BOOLEAN
    BY DEF IsForcedClaim
  <2>2. /\ IsForcedClaim(t[r]) <=> r \in ForcedClaims(t)
        /\ IsForcedClaim(u[r]) <=> r \in ForcedClaims(u)
        /\ \A x \in Request : x # r => (x \in ForcedClaims(t) <=> x \in ForcedClaims(u))
    BY <1>1, Zenon DEF ForcedClaims
  <2> QED
    BY <2>1, <2>2, TicketSubsets, TotalChange, ZenonT(40)
<1>4. Total(Unforced(u)) = Total(Unforced(t)) - Share(r, IsUnforced(t[r]))
                             + Share(r, IsUnforced(u[r]))
  <2>1. IsUnforced(t[r]) \in BOOLEAN /\ IsUnforced(u[r]) \in BOOLEAN
    BY DEF IsUnforced
  <2>2. /\ IsUnforced(t[r]) <=> r \in Unforced(t)
        /\ IsUnforced(u[r]) <=> r \in Unforced(u)
        /\ \A x \in Request : x # r => (x \in Unforced(t) <=> x \in Unforced(u))
    BY <1>1, Zenon DEF Unforced
  <2> QED
    BY <2>1, <2>2, TicketSubsets, TotalChange, ZenonT(40)
<1> QED
  BY <1>1, <1>2, <1>3, <1>4, Zenon DEF Recounted, u

LEMMA SumChange ==
    ASSUME NEW f \in Tallies, NEW a \in Area, NEW v \in Int
    PROVE  /\ Sum([f EXCEPT ![a] = v]) = Sum(f) - f[a] + v /\ Sum(f) \in Nat
           /\ f[a] \in Nat
<1>1. f["primary"] \in Nat /\ f["secondary"] \in Nat /\ f["special"] \in Nat
  BY DEF Tallies, Area
<1>2. CASE a = "primary"
  BY <1>1, <1>2 DEF Sum, Tallies, Area
<1>3. CASE a = "secondary"
  BY <1>1, <1>3 DEF Sum, Tallies, Area
<1>4. CASE a = "special"
  BY <1>1, <1>4 DEF Sum, Tallies, Area
<1> QED
  BY <1>2, <1>3, <1>4 DEF Area

\* s_try_reserve_synced grants a reservation.
LEMMA CountReserve ==
    ASSUME NEW us \in Tallies, NEW rs \in Tallies, NEW f \in Nat, NEW t \in Tickets,
           Counted(us, rs, f, t), NEW r \in Request, t[r] = NoTicket, NEW a \in Area,
           r.size + Total(Unforced(t)) <= MemLimit
    PROVE  Counted(us, Plus(rs, a, r.size), f, Given(t, r, ReservedTicket(a, FALSE)))
<1> DEFINE v == [state |-> "reserved", from |-> a, forced |-> FALSE]
           u == [t EXCEPT ![r] = v]
           gs == [rs EXCEPT ![a] = @ + r.size]
<1> SUFFICES Counted(us, gs, f, u)
  BY DEF Plus, Given, ReservedTicket
<1>1. Recounted(t, u, r) /\ u[r] = v
  BY TicketChanges, Zenon
<1>2. /\ \A b : /\ Share(r, IsReserved(t[r], b)) = 0 /\ Share(r, IsClaimed(t[r], b)) = 0
                /\ Share(r, IsClaimed(v, b)) = 0
                /\ Share(r, IsReserved(v, b)) = IF b = a THEN r.size ELSE 0
      /\ Share(r, IsForcedClaim(t[r])) = 0 /\ Share(r, IsUnforced(t[r])) = 0
      /\ Share(r, IsForcedClaim(v)) = 0 /\ Share(r, IsUnforced(v)) = r.size
  BY DEF Share, IsReserved, IsClaimed, IsForcedClaim, IsUnforced, NoTicket
<1>3. /\ Total(Unforced(t)) \in Nat /\ r.size \in Nat /\ Total(ForcedClaims(t)) \in Nat
      /\ \A b : Total(Reserved(t, b)) \in Nat /\ Total(Claimed(t, b)) \in Nat
  BY TicketSubsets, TotalType, SizeType
<1> HIDE DEF v, u
<1>4. /\ Total(Unforced(u)) = Total(Unforced(t)) + r.size
      /\ Total(ForcedClaims(u)) = Total(ForcedClaims(t))
      /\ \A b : /\ Total(Claimed(u, b)) = Total(Claimed(t, b))
                /\ Total(Reserved(u, b)) = Total(Reserved(t, b)) + (IF b = a THEN r.size ELSE 0)
  BY <1>1, <1>2, <1>3 DEF Recounted
<1>5. Sum(gs) = Sum(rs) + r.size /\ Sum(us) \in Nat /\ Sum(rs) \in Nat
  <2>1. rs[a] \in Nat /\ rs[a] + r.size \in Int
    BY <1>3 DEF Tallies
  <2>2. Sum(gs) = Sum(rs) - rs[a] + (rs[a] + r.size)
    BY <2>1, SumChange
  <2>3. Sum(us) \in Nat /\ Sum(rs) \in Nat
    BY <2>1, SumChange, Zenon
  <2> QED
    BY <1>3, <2>1, <2>2, <2>3
<1>6. \A b \in Area : gs[b] = rs[b] + (IF b = a THEN r.size ELSE 0)
  BY <1>3 DEF Tallies
<1> HIDE DEF gs
<1>7. \A b \in Area : us[b] = Total(Claimed(u, b)) /\ gs[b] = Total(Reserved(u, b))
  BY <1>4, <1>6, Zenon DEF Counted
<1>8. f = Total(ForcedClaims(u)) /\ Sum(us) + Sum(gs) = Total(Unforced(u)) + f
      /\ Total(Unforced(u)) <= MemLimit
  BY <1>3, <1>4, <1>5, LimitType DEF Counted
<1> QED
  BY <1>7, <1>8 DEF Counted

\* A forced ticket is not counted before it is claimed.
LEMMA CountForced ==
    ASSUME NEW us, NEW rs, NEW f, NEW t \in Tickets,
           Counted(us, rs, f, t), NEW r \in Request, t[r] = NoTicket, NEW a
    PROVE  Counted(us, rs, f, Given(t, r, ReservedTicket(a, TRUE)))
<1> DEFINE v == [state |-> "reserved", from |-> a, forced |-> TRUE]
           u == [t EXCEPT ![r] = v]
<1> SUFFICES Counted(us, rs, f, u)
  BY DEF Given, ReservedTicket
<1>1. Recounted(t, u, r) /\ u[r] = v
  BY TicketChanges, Zenon
<1>2. /\ \A b : /\ Share(r, IsReserved(t[r], b)) = 0 /\ Share(r, IsClaimed(t[r], b)) = 0
                /\ Share(r, IsClaimed(v, b)) = 0 /\ Share(r, IsReserved(v, b)) = 0
      /\ Share(r, IsForcedClaim(t[r])) = 0 /\ Share(r, IsUnforced(t[r])) = 0
      /\ Share(r, IsForcedClaim(v)) = 0 /\ Share(r, IsUnforced(v)) = 0
  BY DEF Share, IsReserved, IsClaimed, IsForcedClaim, IsUnforced, NoTicket
<1>3. /\ Total(Unforced(t)) \in Nat /\ Total(ForcedClaims(t)) \in Nat
      /\ \A b : Total(Reserved(t, b)) \in Nat /\ Total(Claimed(t, b)) \in Nat
  BY TicketSubsets, TotalType
<1> HIDE DEF v, u
<1>4. /\ Total(Unforced(u)) = Total(Unforced(t)) /\ Total(ForcedClaims(u)) = Total(ForcedClaims(t))
      /\ \A b : /\ Total(Claimed(u, b)) = Total(Claimed(t, b))
                /\ Total(Reserved(u, b)) = Total(Reserved(t, b))
  BY <1>1, <1>2, <1>3 DEF Recounted
<1> QED
  BY <1>4 DEF Counted

\* aws_s3_default_buffer_pool_acquire_buffer moves the size of a reserved
\* ticket from reserved to used; a forced one is counted only now.
LEMMA CountClaim ==
    ASSUME NEW us \in Tallies, NEW rs \in Tallies, NEW f \in Nat, NEW t \in Tickets,
           Counted(us, rs, f, t), NEW r \in Request, NEW a \in Area, NEW forced \in BOOLEAN, NEW v,
           t[r].state = "reserved", t[r].from = a, t[r].forced = forced,
           v.state = "claimed", v.from = a, v.forced = forced
    PROVE  /\ Counted(Plus(us, a, r.size), Moved(rs, a, r.size, forced),
                      IF forced THEN f + r.size ELSE f, Given(t, r, v))
           /\ Plus(us, a, r.size) \in Tallies /\ Moved(rs, a, r.size, forced) \in Tallies
<1> DEFINE u == [t EXCEPT ![r] = v]
           hs == [us EXCEPT ![a] = @ + r.size]
           gs == [rs EXCEPT ![a] = IF forced THEN @ ELSE @ - r.size]
           e == IF forced THEN f + r.size ELSE f
<1> SUFFICES Counted(hs, gs, e, u) /\ hs \in Tallies /\ gs \in Tallies
  BY DEF Plus, Moved, Given
<1>1. Recounted(t, u, r) /\ u[r] = v
  BY TicketChanges, Zenon
<1>2. /\ \A b : /\ Share(r, IsReserved(t[r], b)) = IF b = a /\ ~forced THEN r.size ELSE 0
                /\ Share(r, IsClaimed(t[r], b)) = 0
                /\ Share(r, IsReserved(v, b)) = 0
                /\ Share(r, IsClaimed(v, b)) = IF b = a THEN r.size ELSE 0
      /\ Share(r, IsForcedClaim(t[r])) = 0
      /\ Share(r, IsForcedClaim(v)) = IF forced THEN r.size ELSE 0
      /\ Share(r, IsUnforced(t[r])) = Share(r, IsUnforced(v))
      /\ Share(r, IsUnforced(v)) = IF forced THEN 0 ELSE r.size
  BY DEF Share, IsReserved, IsClaimed, IsForcedClaim, IsUnforced
<1>3. /\ Total(Unforced(t)) \in Nat /\ r.size \in Nat /\ Total(ForcedClaims(t)) \in Nat
      /\ \A b : Total(Reserved(t, b)) \in Nat /\ Total(Claimed(t, b)) \in Nat
  BY TicketSubsets, TotalType, SizeType
<1> HIDE DEF u
<1>4. /\ Total(Unforced(u)) = Total(Unforced(t))
      /\ Total(ForcedClaims(u)) = Total(ForcedClaims(t)) + (IF forced THEN r.size ELSE 0)
      /\ \A b : /\ Total(Claimed(u, b)) = Total(Claimed(t, b)) + (IF b = a THEN r.size ELSE 0)
                /\ Total(Reserved(u, b)) = Total(Reserved(t, b)) - (IF b = a /\ ~forced THEN r.size ELSE 0)
  BY <1>1, <1>2, <1>3 DEF Recounted
<1>5. ~forced => rs[a] >= r.size
  <2>1. ASSUME ~forced
        PROVE  r \in Reserved(t, a)
    BY <2>1 DEF Reserved, IsReserved
  <2>2. ~forced => r.size <= Total(Reserved(t, a))
    BY <2>1, TicketSubsets, Totals, Zenon
  <2> QED
    BY <2>2 DEF Counted
<1>6. rs[a] \in Nat /\ us[a] \in Nat
  BY DEF Tallies
<1>7. hs \in Tallies /\ gs \in Tallies
  BY <1>3, <1>5, <1>6 DEF Tallies
<1>8. /\ Sum(hs) = Sum(us) + r.size /\ Sum(us) \in Nat /\ Sum(rs) \in Nat
      /\ Sum(gs) = IF forced THEN Sum(rs) ELSE Sum(rs) - r.size
  <2> DEFINE x == IF forced THEN rs[a] ELSE rs[a] - r.size
  <2>1. x \in Int /\ us[a] + r.size \in Int
    BY <1>3, <1>6
  <2>2. Sum(hs) = Sum(us) - us[a] + (us[a] + r.size) /\ Sum(us) \in Nat
    BY <2>1, SumChange
  <2>3. Sum(gs) = Sum(rs) - rs[a] + x /\ Sum(rs) \in Nat
    BY <2>1, SumChange, Zenon
  <2> QED
    BY <1>3, <1>6, <2>2, <2>3
<1>9. \A b \in Area : /\ hs[b] = us[b] + (IF b = a THEN r.size ELSE 0)
                      /\ gs[b] = rs[b] - (IF b = a /\ ~forced THEN r.size ELSE 0)
                      /\ us[b] \in Nat /\ rs[b] \in Nat
  BY <1>3 DEF Tallies
<1> HIDE DEF gs, hs
<1>10. \A b \in Area : hs[b] = Total(Claimed(u, b)) /\ gs[b] = Total(Reserved(u, b))
  BY <1>4, <1>9 DEF Counted
<1>11. e = Total(ForcedClaims(u)) /\ Sum(hs) + Sum(gs) = Total(Unforced(u)) + e
      /\ Total(Unforced(u)) <= MemLimit
  <2>1. /\ f = Total(ForcedClaims(t)) /\ Sum(us) + Sum(rs) = Total(Unforced(t)) + f
        /\ Total(Unforced(t)) <= MemLimit
    BY Zenon DEF Counted
  <2> QED
    BY <1>3, <1>4, <1>8, <2>1, LimitType
<1> QED
  BY <1>7, <1>10, <1>11 DEF Counted

\* s_aws_ticket_wrapper_destroy of a ticket that was not claimed.
LEMMA CountUnreserve ==
    ASSUME NEW us \in Tallies, NEW rs \in Tallies, NEW f \in Nat, NEW t \in Tickets,
           Counted(us, rs, f, t), NEW r \in Request, NEW a \in Area, IsReserved(t[r], a)
    PROVE  /\ Minus(rs, a, r.size) \in Tallies
           /\ Counted(us, Minus(rs, a, r.size), f, Given(t, r, NoTicket))
<1> DEFINE u == [t EXCEPT ![r] = NoTicket]
           gs == [rs EXCEPT ![a] = @ - r.size]
<1> SUFFICES gs \in Tallies /\ Counted(us, gs, f, u)
  BY DEF Minus, Given
<1>1. Recounted(t, u, r) /\ u[r] = NoTicket
  BY TicketChanges, Zenon
<1>2. /\ \A b : /\ Share(r, IsReserved(t[r], b)) = IF b = a THEN r.size ELSE 0
                /\ Share(r, IsClaimed(t[r], b)) = 0
                /\ Share(r, IsReserved(NoTicket, b)) = 0 /\ Share(r, IsClaimed(NoTicket, b)) = 0
      /\ Share(r, IsForcedClaim(t[r])) = 0 /\ Share(r, IsForcedClaim(NoTicket)) = 0
      /\ Share(r, IsUnforced(t[r])) = r.size /\ Share(r, IsUnforced(NoTicket)) = 0
  BY DEF Share, IsReserved, IsClaimed, IsForcedClaim, IsUnforced, NoTicket
<1>3. /\ Total(Unforced(t)) \in Nat /\ r.size \in Nat /\ Total(ForcedClaims(t)) \in Nat
      /\ \A b : Total(Reserved(t, b)) \in Nat /\ Total(Claimed(t, b)) \in Nat
  BY TicketSubsets, TotalType, SizeType
<1> HIDE DEF u
<1>4. /\ Total(Unforced(u)) = Total(Unforced(t)) - r.size
      /\ Total(ForcedClaims(u)) = Total(ForcedClaims(t))
      /\ \A b : /\ Total(Claimed(u, b)) = Total(Claimed(t, b))
                /\ Total(Reserved(u, b)) = Total(Reserved(t, b)) - (IF b = a THEN r.size ELSE 0)
  BY <1>1, <1>2, <1>3 DEF Recounted
<1>5. rs[a] >= r.size
  <2>1. r \in Reserved(t, a)
    BY DEF Reserved
  <2>2. r.size <= Total(Reserved(t, a))
    BY <2>1, TicketSubsets, Totals, Zenon
  <2> QED
    BY <2>2 DEF Counted
<1>6. rs[a] \in Nat
  BY DEF Tallies
<1>7. gs \in Tallies
  BY <1>3, <1>5, <1>6 DEF Tallies
<1>8. Sum(gs) = Sum(rs) - r.size /\ Sum(us) \in Nat /\ Sum(rs) \in Nat
  <2>1. rs[a] - r.size \in Int
    BY <1>3, <1>6
  <2>2. Sum(gs) = Sum(rs) - rs[a] + (rs[a] - r.size) /\ Sum(rs) \in Nat /\ Sum(us) \in Nat
    BY <2>1, SumChange, Zenon
  <2> QED
    BY <1>3, <1>6, <2>2
<1>9. \A b \in Area : gs[b] = rs[b] - (IF b = a THEN r.size ELSE 0) /\ rs[b] \in Nat
  BY <1>3 DEF Tallies
<1> HIDE DEF gs
<1>10. \A b \in Area : us[b] = Total(Claimed(u, b)) /\ gs[b] = Total(Reserved(u, b))
  BY <1>4, <1>9, Zenon DEF Counted
<1>11. f = Total(ForcedClaims(u)) /\ Sum(us) + Sum(gs) = Total(Unforced(u)) + f
      /\ Total(Unforced(u)) <= MemLimit
  <2>1. /\ f = Total(ForcedClaims(t)) /\ Sum(us) + Sum(rs) = Total(Unforced(t)) + f
        /\ Total(Unforced(t)) <= MemLimit
    BY Zenon DEF Counted
  <2> QED
    BY <1>3, <1>4, <1>8, <2>1, LimitType
<1> QED
  BY <1>7, <1>10, <1>11 DEF Counted

\* s_aws_ticket_wrapper_destroy of a ticket that was claimed.
LEMMA CountUnclaim ==
    ASSUME NEW us \in Tallies, NEW rs \in Tallies, NEW f \in Nat, NEW t \in Tickets,
           Counted(us, rs, f, t), NEW r \in Request, NEW a \in Area, NEW forced \in BOOLEAN,
           IsClaimed(t[r], a), t[r].forced = forced
    PROVE  LET e == IF forced THEN f - r.size ELSE f
           IN  /\ Minus(us, a, r.size) \in Tallies /\ e \in Nat
               /\ Counted(Minus(us, a, r.size), rs, e, Given(t, r, NoTicket))
<1> DEFINE u == [t EXCEPT ![r] = NoTicket]
           gs == [us EXCEPT ![a] = @ - r.size]
           e == IF forced THEN f - r.size ELSE f
<1> SUFFICES gs \in Tallies /\ e \in Nat /\ Counted(gs, rs, e, u)
  BY DEF Minus, Given
<1>1. Recounted(t, u, r) /\ u[r] = NoTicket
  BY TicketChanges, Zenon
<1>2. /\ \A b : /\ Share(r, IsClaimed(t[r], b)) = IF b = a THEN r.size ELSE 0
                /\ Share(r, IsReserved(t[r], b)) = 0
                /\ Share(r, IsReserved(NoTicket, b)) = 0 /\ Share(r, IsClaimed(NoTicket, b)) = 0
      /\ Share(r, IsForcedClaim(t[r])) = IF forced THEN r.size ELSE 0
      /\ Share(r, IsForcedClaim(NoTicket)) = 0
      /\ Share(r, IsUnforced(t[r])) = IF forced THEN 0 ELSE r.size
      /\ Share(r, IsUnforced(NoTicket)) = 0
  BY DEF Share, IsReserved, IsClaimed, IsForcedClaim, IsUnforced, NoTicket
<1>3. /\ Total(Unforced(t)) \in Nat /\ r.size \in Nat /\ Total(ForcedClaims(t)) \in Nat
      /\ \A b : Total(Reserved(t, b)) \in Nat /\ Total(Claimed(t, b)) \in Nat
  BY TicketSubsets, TotalType, SizeType
<1> HIDE DEF u
<1>4. /\ Total(Unforced(u)) = Total(Unforced(t)) - (IF forced THEN 0 ELSE r.size)
      /\ Total(ForcedClaims(u)) = Total(ForcedClaims(t)) - (IF forced THEN r.size ELSE 0)
      /\ \A b : /\ Total(Reserved(u, b)) = Total(Reserved(t, b))
                /\ Total(Claimed(u, b)) = Total(Claimed(t, b)) - (IF b = a THEN r.size ELSE 0)
  BY <1>1, <1>2, <1>3 DEF Recounted
<1>5. us[a] >= r.size /\ (forced => f >= r.size)
  <2>1. r \in Claimed(t, a) /\ (forced => r \in ForcedClaims(t))
    BY DEF Claimed, ForcedClaims, IsClaimed, IsForcedClaim
  <2>2. r.size <= Total(Claimed(t, a)) /\ (forced => r.size <= Total(ForcedClaims(t)))
    BY <2>1, TicketSubsets, Totals, Zenon
  <2> QED
    BY <2>2 DEF Counted
<1>6. us[a] \in Nat
  BY DEF Tallies
<1>7. gs \in Tallies /\ e \in Nat
  BY <1>3, <1>5, <1>6 DEF Tallies
<1>8. Sum(gs) = Sum(us) - r.size /\ Sum(us) \in Nat /\ Sum(rs) \in Nat
  <2>1. us[a] - r.size \in Int
    BY <1>3, <1>6
  <2>2. Sum(gs) = Sum(us) - us[a] + (us[a] - r.size) /\ Sum(rs) \in Nat /\ Sum(us) \in Nat
    BY <2>1, SumChange, Zenon
  <2> QED
    BY <1>3, <1>6, <2>2
<1>9. \A b \in Area : gs[b] = us[b] - (IF b = a THEN r.size ELSE 0) /\ us[b] \in Nat
  BY <1>3 DEF Tallies
<1> HIDE DEF gs
<1>10. \A b \in Area : gs[b] = Total(Claimed(u, b)) /\ rs[b] = Total(Reserved(u, b))
  BY <1>4, <1>9, Zenon DEF Counted
<1>11. e = Total(ForcedClaims(u)) /\ Sum(gs) + Sum(rs) = Total(Unforced(u)) + e
      /\ Total(Unforced(u)) <= MemLimit
  <2>1. /\ f = Total(ForcedClaims(t)) /\ Sum(us) + Sum(rs) = Total(Unforced(t)) + f
        /\ Total(Unforced(t)) <= MemLimit
    BY Zenon DEF Counted
  <2> QED
    BY <1>3, <1>4, <1>8, <2>1, LimitType
<1> QED
  BY <1>7, <1>10, <1>11 DEF Counted
-----------------------------------------------------------------------------
(***************************************************************************)
(* Lists.                                                                  *)
(***************************************************************************)
LEMMA AppendOne ==
    ASSUME NEW S, NEW s \in Seq(S), NEW x \in S, x \notin Range(s), IsInjective(s)
    PROVE  /\ Append(s, x) \in Seq(S) /\ IsInjective(Append(s, x))
           /\ Range(Append(s, x)) = Range(s) \cup {x}
<1> DEFINE w == Append(s, x)
           n == Len(s)
<1>1. /\ n \in Nat /\ DOMAIN s = 1..n /\ w \in Seq(S) /\ Len(w) = n + 1 /\ DOMAIN w = 1..(n + 1)
      /\ w[n + 1] = x /\ \A i \in 1..n : w[i] = s[i]
  OBVIOUS
<1> HIDE DEF w, n
<1>2. \A i \in 1..n : s[i] # x
  BY <1>1 DEF Range
<1>3. \A i, j \in 1..n : s[i] = s[j] => i = j
  BY <1>1 DEF IsInjective
<1>4. IsInjective(w)
  BY <1>1, <1>2, <1>3 DEF IsInjective
<1>5. Range(w) = Range(s) \cup {x}
  BY <1>1 DEF Range
<1> QED
  BY <1>1, <1>4, <1>5 DEF w

LEMMA KeptIsAWalk ==
    ASSUME NEW T, NEW list \in Seq(T), NEW S
    PROVE  \E kept :
             /\ kept = [i \in 0..Len(list) |->
                          IF i = 0 THEN << >>
                          ELSE IF list[i] \in S THEN Append(kept[i - 1], list[i]) ELSE kept[i - 1]]
             /\ KeepIn(list, S) = kept[Len(list)]
<1> DEFINE n == Len(list)
           Turn(s, i) == IF list[i] \in S THEN Append(s, list[i]) ELSE s
           Walks(g, m) == g = [i \in 0..m |-> IF i = 0 THEN << >> ELSE Turn(g[i - 1], i)]
           U == {m \in Nat : \E g : Walks(g, m)}
<1>1. n \in Nat
  OBVIOUS
<1>2. 0 \in U
  <2> DEFINE g == [i \in 0..0 |-> << >>]
  <2> HIDE DEF Turn
  <2>1. Walks(g, 0)
    OBVIOUS
  <2> QED
    BY <2>1, Zenon
<1>3. ASSUME NEW m \in U
      PROVE  m + 1 \in U
  <2> HIDE DEF Turn
  <2>1. m \in Nat
    OBVIOUS
  <2>2. PICK g : Walks(g, m)
    OBVIOUS
  <2> DEFINE last == Turn(g[m], m + 1)
             h == [i \in 0..(m + 1) |-> IF i = m + 1 THEN last ELSE g[i]]
  <2>3. h[m] = g[m] /\ \A i \in 1..m : h[i - 1] = g[i - 1]
    BY <2>1
  <2>4. \A i \in 0..(m + 1) : h[i] = IF i = 0 THEN << >> ELSE Turn(h[i - 1], i)
    <3> SUFFICES ASSUME NEW i \in 0..(m + 1)
                 PROVE  h[i] = IF i = 0 THEN << >> ELSE Turn(h[i - 1], i)
      BY Zenon
    <3>1. CASE i = m + 1
      <4>1. h[i] = last /\ i # 0 /\ h[i - 1] = g[m]
        BY <2>1, <2>3, <3>1
      <4> QED
        BY <3>1, <4>1
    <3>2. CASE i # m + 1
      <4>1. i \in 0..m /\ h[i] = g[i]
        BY <2>1, <3>2
      <4>2. g[i] = IF i = 0 THEN << >> ELSE Turn(g[i - 1], i)
        BY <2>2, <4>1, Zenon
      <4>3. i # 0 => h[i - 1] = g[i - 1]
        BY <2>1, <2>3, <4>1
      <4> HIDE DEF h
      <4> QED
        BY <4>1, <4>2, <4>3, Zenon
    <3> QED
      BY <3>1, <3>2
  <2>5. h = [i \in 0..(m + 1) |-> h[i]]
    <3> HIDE DEF last
    <3> QED
      OBVIOUS
  <2> HIDE DEF h
  <2>6. Walks(h, m + 1)
    BY <2>4, <2>5, Zenon
  <2>7. m + 1 \in Nat
    BY <2>1
  <2> QED
    BY <2>6, <2>7, Zenon
<1>4. n \in U
  <2> HIDE DEF U
  <2>1. \A i \in 0..n : i \in U
    BY <1>1, <1>2, <1>3, UpTo, Zenon
  <2>2. n \in 0..n
    BY <1>1
  <2> QED
    BY <2>1, <2>2, Zenon
<1> DEFINE kept == CHOOSE g : Walks(g, n)
<1>5. Walks(kept, n)
  BY <1>4, Zenon
<1>6. KeepIn(list, S) = kept[n]
  BY Zenon DEF KeepIn
<1> HIDE DEF kept
<1> QED
  BY <1>5, <1>6, Zenon

\* Keeping the entries of a list without repetitions that lie in S.
LEMMA KeepEffect ==
    ASSUME NEW T, NEW list \in Seq(T), IsInjective(list), NEW S
    PROVE  /\ KeepIn(list, S) \in Seq(T) /\ IsInjective(KeepIn(list, S))
           /\ Range(KeepIn(list, S)) = Range(list) \cap S
<1> DEFINE n == Len(list)
           First(i) == {list[j] : j \in 1..i}
<1>1. PICK kept :
        /\ kept = [i \in 0..n |-> IF i = 0 THEN << >>
                     ELSE IF list[i] \in S THEN Append(kept[i - 1], list[i]) ELSE kept[i - 1]]
        /\ KeepIn(list, S) = kept[n]
  BY KeptIsAWalk, Zenon
<1> DEFINE Kept(s, i) == s \in Seq(T) /\ IsInjective(s) /\ Range(s) = First(i) \cap S
           U == {i \in 0..n : Kept(kept[i], i)}
<1>2. n \in Nat /\ DOMAIN list = 1..n /\ \A i \in 1..n : list[i] \in T
  OBVIOUS
<1>3. 0 \in U
  <2>1. kept[0] = << >>
    BY <1>1, <1>2
  <2>2. First(0) = {} /\ Range(<< >>) = {} /\ IsInjective(<< >>) /\ << >> \in Seq(T)
    BY DEF Range, IsInjective
  <2>3. First(0) \cap S = {}
    BY <2>2, Zenon
  <2>4. 0 \in 0..n
    BY <1>2
  <2> HIDE DEF First
  <2> QED
    BY <2>1, <2>2, <2>3, <2>4, Zenon
<1>4. ASSUME NEW i \in 0..n, i < n /\ i \in U
      PROVE  i + 1 \in U
  <2>1. i + 1 \in 1..n /\ i + 1 \in 0..n /\ i \in Nat
    BY <1>2, <1>4
  <2>2. kept[i + 1] = IF list[i + 1] \in S THEN Append(kept[i], list[i + 1]) ELSE kept[i]
    <3>1. kept[i + 1] = IF list[i + 1] \in S THEN Append(kept[(i + 1) - 1], list[i + 1])
                        ELSE kept[(i + 1) - 1]
      <4>1. i + 1 # 0
        BY <2>1
      <4> QED
        BY <1>1, <2>1, <4>1, Zenon
    <3>2. (i + 1) - 1 = i
      BY <2>1
    <3> QED
      BY <3>1, <3>2, Zenon
  <2>3. First(i + 1) = First(i) \cup {list[i + 1]}
    <3>1. 1..(i + 1) = (1..i) \cup {i + 1}
      BY <2>1
    <3> QED
      BY <3>1, Zenon
  <2>4. list[i + 1] \notin First(i) /\ list[i + 1] \in T
    <3>1. \A j \in 1..i : j \in 1..n /\ j # i + 1
      BY <2>1, <1>2
    <3> QED
      BY <1>2, <2>1, <3>1, Zenon DEF IsInjective
  <2>5. Kept(kept[i], i)
    BY <1>4, Zenon
  <2> HIDE DEF First
  <2>6. CASE list[i + 1] \in S
    <3>1. kept[i + 1] = Append(kept[i], list[i + 1]) /\ list[i + 1] \notin Range(kept[i])
      BY <2>2, <2>4, <2>5, <2>6, Zenon
    <3>a. kept[i] \in Seq(T) /\ IsInjective(kept[i]) /\ list[i + 1] \in T
      BY <2>4, <2>5, Zenon
    <3> HIDE DEF Kept, U
    <3>2. /\ kept[i + 1] \in Seq(T) /\ IsInjective(kept[i + 1])
          /\ Range(kept[i + 1]) = Range(kept[i]) \cup {list[i + 1]}
      BY <3>a, <3>1, AppendOne
    <3> USE DEF Kept, U
    <3>3. Range(kept[i + 1]) = First(i + 1) \cap S
      BY <2>3, <2>5, <2>6, <3>2, Zenon
    <3> QED
      BY <2>1, <3>2, <3>3, Zenon
  <2>7. CASE list[i + 1] \notin S
    <3>1. kept[i + 1] = kept[i]
      BY <2>2, <2>7, Zenon
    <3>2. First(i + 1) \cap S = First(i) \cap S
      BY <2>3, <2>7, Zenon
    <3> QED
      BY <2>1, <2>5, <3>1, <3>2, Zenon
  <2> QED
    BY <2>6, <2>7, Zenon
<1>5. Kept(kept[n], n)
  <2> HIDE DEF U
  <2>1. \A i \in 0..n : i \in U
    BY <1>2, <1>3, <1>4, UpTo, Zenon
  <2>2. n \in 0..n
    BY <1>2
  <2> QED
    BY <2>1, <2>2, Zenon DEF U
<1>6. First(n) = Range(list)
  BY <1>2, Zenon DEF Range
<1> QED
  BY <1>1, <1>5, <1>6, Zenon

(***************************************************************************)
(* The memory of the special-sized lists.                                  *)
(***************************************************************************)
Over(f, s) == [x \in s |-> f[x]]

LEMMA SumStep ==
    ASSUME NEW S, IsFiniteSet(S), NEW f \in [S -> Nat], NEW s \in SUBSET S, NEW x \in s
    PROVE  /\ SumFunction(Over(f, s)) = SumFunction(Over(f, s \ {x})) + f[x]
           /\ SumFunction(Over(f, s \ {x})) \in Nat /\ f[x] \in Nat
<1> DEFINE r == s \ {x}
           g == Over(f, r)
           h == Over(f, s)
<1>1. IsFiniteSet(r) /\ x \notin r
  BY FS_Subset
<1>a. s = r \cup {x}
  OBVIOUS
<1>2. g \in [r -> Nat] /\ h \in [s -> Nat] /\ h[x] = f[x] /\ \A y \in r : h[y] = g[y]
  BY DEF Over
<1> HIDE DEF r, g, h
<1>3. h \in [r \cup {x} -> Nat]
  BY <1>a, <1>2, Zenon
<1>4. SumFunction(h) = SumFunction(g) + h[x]
  <2>1. g \in [r -> Nat] /\ \A y \in r : h[y] = g[y]
    BY <1>2, Zenon
  <2> QED
    BY <1>1, <1>3, <2>1, SumOneMore
<1>5. SumFunction(g) \in Nat
  BY <1>1, <1>2, SumType
<1> QED
  BY <1>2, <1>4, <1>5 DEF g, h, r

LEMMA SumSplit ==
    ASSUME NEW S, IsFiniteSet(S), NEW L \in SUBSET S,
           NEW g \in [S -> Nat], NEW d \in [S -> Nat], NEW k \in [L -> Nat],
           \A x \in L : g[x] = d[x] + k[x], \A x \in S \ L : g[x] = d[x]
    PROVE  /\ SumFunction(g) = SumFunction(d) + SumFunction(k)
           /\ SumFunction(d) \in Nat /\ SumFunction(k) \in Nat
<1> DEFINE Splits(s) == SumFunction(Over(g, s)) = SumFunction(Over(d, s)) + SumFunction(Over(k, s \cap L))
           T == {n \in Nat : \A s \in SUBSET S : Cardinality(s) = n => Splits(s)}
<1>0. IsFiniteSet(L)
  BY FS_Subset
<1>1. 0 \in T
  <2> SUFFICES ASSUME NEW s \in SUBSET S, Cardinality(s) = 0
               PROVE  Splits(s)
    BY Zenon
  <2>1. s = {} /\ s \cap L = {}
    BY SubsetSize
  <2>2. \A f : Over(f, {}) \in [{} -> Nat]
    BY DEF Over
  <2>3. \A f : SumFunction(Over(f, {})) = 0
    <3> TAKE f
    <3> DEFINE o == Over(f, {})
    <3>1. o \in [{} -> Nat]
      BY <2>2, Zenon
    <3> HIDE DEF o
    <3>2. SumFunction(o) = 0
      BY <3>1, SumNone, Zenon
    <3> QED
      BY <3>2 DEF o
  <2>4. Over(k, s \cap L) = Over(k, {}) /\ Over(g, s) = Over(g, {}) /\ Over(d, s) = Over(d, {})
    BY <2>1, Zenon
  <2> QED
    BY <2>3, <2>4
<1>2. ASSUME NEW n \in T
      PROVE  n + 1 \in T
  <2>0. n \in Nat /\ n + 1 \in Nat
    OBVIOUS
  <2> SUFFICES ASSUME NEW s \in SUBSET S, Cardinality(s) = n + 1
               PROVE  Splits(s)
    BY <2>0, Zenon
  <2>1. s # {}
    BY SubsetSize
  <2>2. PICK x \in s : TRUE
    BY <2>1, Zenon
  <2> DEFINE r == s \ {x}
  <2>3. r \in SUBSET S /\ Cardinality(r) = n
    BY <2>1, SmallerSet
  <2>4. Splits(r)
    BY <2>3, Zenon
  <2>5. /\ SumFunction(Over(g, s)) = SumFunction(Over(g, r)) + g[x]
        /\ SumFunction(Over(d, s)) = SumFunction(Over(d, r)) + d[x]
        /\ SumFunction(Over(g, r)) \in Nat /\ g[x] \in Nat
        /\ SumFunction(Over(d, r)) \in Nat /\ d[x] \in Nat
    BY SumStep, SMTT(30)
  <2>6. CASE x \in L
    <3>1. x \in s \cap L /\ s \cap L \in SUBSET L /\ (s \cap L) \ {x} = r \cap L
      BY <2>6
    <3>2. /\ SumFunction(Over(k, s \cap L)) = SumFunction(Over(k, (s \cap L) \ {x})) + k[x]
          /\ SumFunction(Over(k, (s \cap L) \ {x})) \in Nat /\ k[x] \in Nat
      <4> DEFINE sl == s \cap L
      <4> HIDE DEF sl
      <4>1. sl \in SUBSET L /\ x \in sl
        BY <3>1 DEF sl
      <4>2. /\ SumFunction(Over(k, sl)) = SumFunction(Over(k, sl \ {x})) + k[x]
            /\ SumFunction(Over(k, sl \ {x})) \in Nat /\ k[x] \in Nat
        BY <1>0, <4>1, SumStep
      <4> QED
        BY <4>2 DEF sl
    <3>3. SumFunction(Over(k, (s \cap L) \ {x})) = SumFunction(Over(k, r \cap L))
      BY <3>1, Zenon
    <3>4. g[x] = d[x] + k[x]
      BY <2>6
    <3> HIDE DEF r
    <3> QED
      BY <2>4, <2>5, <3>2, <3>3, <3>4
  <2>7. CASE x \notin L
    <3>1. s \cap L = r \cap L /\ g[x] = d[x]
      BY <2>7
    <3>2. SumFunction(Over(k, s \cap L)) = SumFunction(Over(k, r \cap L))
      BY <3>1, Zenon
    <3>3. SumFunction(Over(k, r \cap L)) \in Nat
      <4>1. IsFiniteSet(r \cap L)
        BY <1>0, FS_Subset
      <4>2. Over(k, r \cap L) \in [r \cap L -> Nat]
        BY DEF Over
      <4> QED
        BY <4>1, <4>2, SumType, Zenon
    <3>4. g[x] = d[x]
      BY <3>1, Zenon
    <3> HIDE DEF r
    <3> QED
      BY <2>4, <2>5, <3>2, <3>3, <3>4
  <2> QED
    BY <2>6, <2>7, Zenon
<1>3. T = Nat
  <2> HIDE DEF T
  <2>1. T \in SUBSET Nat
    BY DEF T
  <2> QED
    BY <1>1, <1>2, <2>1, SetInduction
<1>4. Splits(S)
  <2>1. Cardinality(S) \in Nat /\ S \in SUBSET S
    BY FS_CardinalityType
  <2> QED
    BY <1>3, <2>1, Zenon
<1>5. Over(g, S) = g /\ Over(d, S) = d /\ Over(k, S \cap L) = k
  BY DEF Over
<1>6. SumFunction(d) \in Nat /\ SumFunction(k) \in Nat
  BY <1>0, SumType, Zenon
<1> QED
  BY <1>4, <1>5, <1>6

LEMMA SumPoint ==
    ASSUME NEW S, IsFiniteSet(S), NEW g \in [S -> Nat], NEW h \in [S -> Nat], NEW x \in S,
           \A y \in S : y # x => g[y] = h[y]
    PROVE  SumFunction(h) = SumFunction(g) - g[x] + h[x]
<1> DEFINE r == S \ {x}
<1>1. /\ SumFunction(Over(g, S)) = SumFunction(Over(g, r)) + g[x]
      /\ SumFunction(Over(h, S)) = SumFunction(Over(h, r)) + h[x]
      /\ SumFunction(Over(g, r)) \in Nat /\ g[x] \in Nat /\ h[x] \in Nat
  BY SumStep
<1>2. Over(g, r) = Over(h, r) /\ Over(g, S) = g /\ Over(h, S) = h
  BY DEF Over
<1> HIDE DEF r
<1> QED
  BY <1>1, <1>2

\* A list of special-sized blocks: no two have the same number.
Serial(list) ==
    /\ IsFiniteSet(list) /\ list \in SUBSET Slot
    /\ \A b, c \in list : b.id = c.id => b = c
Shelves(lists) ==
    /\ lists \in Lists /\ IsFiniteSet(DOMAIN lists)
    /\ \A n \in DOMAIN lists : Serial(lists[n])
Bytes(lists) == [n \in DOMAIN lists |-> n * Cardinality(lists[n])]

LEMMA SerialType ==
    ASSUME NEW list, Serial(list)
    PROVE  Cardinality(list) \in Nat /\ IsFiniteSet(list)
BY FS_CardinalityType DEF Serial

LEMMA Product == \A a, b \in Nat : a * b \in Nat
OBVIOUS

LEMMA ListsType ==
    ASSUME NEW lists \in Lists
    PROVE  /\ DOMAIN lists \in SUBSET Nat /\ lists \in [DOMAIN lists -> SUBSET Slot]
           /\ \A n \in DOMAIN lists : n \in Nat /\ lists[n] \in SUBSET Slot
BY Zenon DEF Lists

LEMMA IntoLists ==
    ASSUME NEW D \in SUBSET Nat, NEW lists \in [D -> SUBSET Slot]
    PROVE  lists \in Lists /\ DOMAIN lists = D
BY Zenon DEF Lists

LEMMA BytesType ==
    ASSUME NEW lists, Shelves(lists)
    PROVE  /\ Bytes(lists) \in [DOMAIN lists -> Nat]
           /\ SpecialBytes(lists) = SumFunction(Bytes(lists)) /\ SpecialBytes(lists) \in Nat
           /\ \A n \in DOMAIN lists : /\ Bytes(lists)[n] = n * Cardinality(lists[n])
                                      /\ n \in Nat /\ Cardinality(lists[n]) \in Nat
<1>1. \A n \in DOMAIN lists : n \in Nat /\ Cardinality(lists[n]) \in Nat
  BY ListsType, SerialType, Zenon DEF Shelves
<1>2. \A n \in DOMAIN lists : n * Cardinality(lists[n]) \in Nat
  BY <1>1, Product, Zenon
<1>3. Bytes(lists) \in [DOMAIN lists -> Nat]
  BY <1>2, Zenon DEF Bytes
<1>4. SpecialBytes(lists) = SumFunction(Bytes(lists))
  BY Zenon DEF SpecialBytes, Bytes
<1>5. SumFunction(Bytes(lists)) \in Nat
  BY <1>3, SumType, Zenon DEF Shelves
<1>6. \A n \in DOMAIN lists : Bytes(lists)[n] = n * Cardinality(lists[n])
  BY Zenon DEF Bytes
<1> QED
  BY <1>1, <1>3, <1>4, <1>5, <1>6, Zenon

\* A block of a list is replaced, or one is added.
LEMMA Swap ==
    ASSUME NEW list, Serial(list), NEW c \in Slot, NEW e \in Slot, e.id = c.id,
           c \in list \/ \A b \in list : b.id # c.id
    PROVE  LET new == (list \ {c}) \cup {e}
           IN  /\ Serial(new) /\ Cardinality(list) \in Nat
               /\ Cardinality(new) = Cardinality(list) + (IF c \in list THEN 0 ELSE 1)
<1> DEFINE rest == list \ {c}
           new == rest \cup {e}
<1>1. IsFiniteSet(list) /\ IsFiniteSet(rest) /\ Cardinality(list) \in Nat /\ Cardinality(rest) \in Nat
  BY FS_Subset, FS_CardinalityType DEF Serial
<1>2. \A b \in rest : b.id # c.id /\ b \in list
  BY Zenon DEF Serial
<1>3. e \notin rest
  BY <1>2, Zenon
<1>4. IsFiniteSet(new) /\ Cardinality(new) = Cardinality(rest) + 1
  <2> HIDE DEF rest
  <2> QED
    BY <1>1, <1>3, FS_AddElement
<1>5. Cardinality(rest) = IF c \in list THEN Cardinality(list) - 1 ELSE Cardinality(list)
  <2>1. c \notin list => rest = list
    OBVIOUS
  <2>2. c \in list => Cardinality(rest) = Cardinality(list) - 1
    BY <1>1, FS_RemoveElement
  <2> HIDE DEF rest
  <2> QED
    BY <2>1, <2>2
<1>6. \A b, d \in new : b.id = d.id => b = d
  <2> SUFFICES ASSUME NEW b \in new, NEW d \in new, b.id = d.id
               PROVE  b = d
    BY Zenon
  <2>1. (b \in rest \/ b = e) /\ (d \in rest \/ d = e)
    BY Zenon
  <2> QED
    BY <1>2, <2>1, Zenon DEF Serial
<1>7. new \in SUBSET Slot
  BY Zenon DEF Serial
<1>8. Serial(new)
  BY <1>4, <1>6, <1>7, Zenon DEF Serial
<1> HIDE DEF rest
<1>9. Cardinality(new) = Cardinality(list) + (IF c \in list THEN 0 ELSE 1)
  <2> HIDE DEF new
  <2> QED
    BY <1>1, <1>4, <1>5
<1> QED
  BY <1>1, <1>8, <1>9 DEF rest

LEMMA BytesSwap ==
    ASSUME NEW lists, Shelves(lists), NEW n \in DOMAIN lists, NEW new, Serial(new)
    PROVE  LET l == [lists EXCEPT ![n] = new]
           IN  /\ Shelves(l) /\ DOMAIN l = DOMAIN lists
               /\ SpecialBytes(l) = SpecialBytes(lists) - n * Cardinality(lists[n]) + n * Cardinality(new)
<1> DEFINE l == [lists EXCEPT ![n] = new]
<1>1. DOMAIN l = DOMAIN lists /\ l[n] = new /\ \A k \in DOMAIN lists : k # n => l[k] = lists[k]
  OBVIOUS
<1>2. lists \in [DOMAIN lists -> SUBSET Slot] /\ new \in SUBSET Slot /\ DOMAIN lists \in SUBSET Nat
  BY ListsType, Zenon DEF Shelves, Serial
<1>3. l \in [DOMAIN lists -> SUBSET Slot]
  BY <1>2, Zenon
<1> HIDE DEF l
<1>4. l \in Lists
  BY <1>2, <1>3, IntoLists, Zenon
<1>5. Shelves(l)
  BY <1>1, <1>4, Zenon DEF Shelves
<1>6. /\ Bytes(l) \in [DOMAIN lists -> Nat] /\ Bytes(lists) \in [DOMAIN lists -> Nat]
      /\ \A k \in DOMAIN lists : Bytes(l)[k] = k * Cardinality(l[k])
      /\ \A k \in DOMAIN lists : Bytes(lists)[k] = k * Cardinality(lists[k])
      /\ SpecialBytes(l) = SumFunction(Bytes(l)) /\ SpecialBytes(lists) = SumFunction(Bytes(lists))
  BY <1>1, <1>5, BytesType, Zenon
<1>7. \A k \in DOMAIN lists : k # n => Bytes(lists)[k] = Bytes(l)[k]
  BY <1>1, <1>6, Zenon
<1>8. SumFunction(Bytes(l)) = SumFunction(Bytes(lists)) - Bytes(lists)[n] + Bytes(l)[n]
  <2>1. IsFiniteSet(DOMAIN lists)
    BY Zenon DEF Shelves
  <2> QED
    BY <1>6, <1>7, <2>1, SumPoint, Zenon
<1>9. Bytes(lists)[n] = n * Cardinality(lists[n]) /\ Bytes(l)[n] = n * Cardinality(new)
  BY <1>1, <1>6, Zenon
<1> QED
  BY <1>1, <1>5, <1>6, <1>8, <1>9, Zenon DEF l

\* s_default_pool_add_special_size: the new list is empty.
LEMMA BytesAdd ==
    ASSUME NEW lists, Shelves(lists), NEW n \in Nat, n \notin DOMAIN lists
    PROVE  LET l == [k \in DOMAIN lists \cup {n} |-> IF k = n THEN {} ELSE lists[k]]
           IN  Shelves(l) /\ SpecialBytes(l) = SpecialBytes(lists)
<1> DEFINE D == DOMAIN lists
           l == [k \in D \cup {n} |-> IF k = n THEN {} ELSE lists[k]]
<1>1. DOMAIN l = D \cup {n} /\ l[n] = {} /\ \A k \in D : l[k] = lists[k]
  BY Zenon
<1>2. lists \in [D -> SUBSET Slot] /\ D \in SUBSET Nat /\ D \cup {n} \in SUBSET Nat /\ IsFiniteSet(D)
  BY ListsType, Zenon DEF Shelves
<1>3. l \in [D \cup {n} -> SUBSET Slot]
  BY <1>2, Zenon
<1> HIDE DEF l
<1>4. l \in Lists /\ IsFiniteSet(D \cup {n})
  BY <1>2, <1>3, IntoLists, FS_AddElement, Zenon
<1>5. Serial({}) /\ Cardinality({}) = 0
  BY FS_EmptySet DEF Serial
<1>6. Shelves(l)
  BY <1>1, <1>4, <1>5, Zenon DEF Shelves
<1>7. /\ Bytes(l) \in [D \cup {n} -> Nat] /\ Bytes(lists) \in [D -> Nat]
      /\ \A k \in D : Bytes(l)[k] = k * Cardinality(l[k])
      /\ \A k \in D : Bytes(lists)[k] = k * Cardinality(lists[k])
      /\ Bytes(l)[n] = n * 0
      /\ SpecialBytes(l) = SumFunction(Bytes(l)) /\ SpecialBytes(lists) = SumFunction(Bytes(lists))
      /\ SumFunction(Bytes(lists)) \in Nat
  BY <1>1, <1>5, <1>6, BytesType, ZenonT(30)
<1>8. \A k \in D : Bytes(l)[k] = Bytes(lists)[k]
  BY <1>1, <1>7, Zenon
<1>9. SumFunction(Bytes(l)) = SumFunction(Bytes(lists)) + Bytes(l)[n]
  <2> DEFINE g == Bytes(lists)
             h == Bytes(l)
  <2>1. n \notin D /\ IsFiniteSet(D)
    BY <1>2, Zenon
  <2> HIDE DEF D, g, h
  <2>2. g \in [D -> Nat] /\ h \in [D \cup {n} -> Nat] /\ \A k \in D : h[k] = g[k]
    BY <1>7, <1>8 DEF g, h
  <2>3. SumFunction(h) = SumFunction(g) + h[n]
    BY <2>1, <2>2, SumOneMore
  <2> QED
    BY <2>3 DEF g, h
<1>10. SumFunction(Bytes(l)) = SumFunction(Bytes(lists))
  BY <1>7, <1>9
<1> QED
  BY <1>6, <1>7, <1>10, Zenon DEF l

\* s_buffer_pool_trim_special_blocks_synced: the lists `trimmed' that are left
\* hold the used blocks, and a list goes only when it is empty.
Used(list) == {b \in list : b.used}
Unused(lists) == [n \in DOMAIN lists |-> lists[n] \ Used(lists[n])]

LEMMA BytesTrim ==
    ASSUME NEW lists, Shelves(lists), NEW L \in SUBSET DOMAIN lists,
           \A n \in DOMAIN lists \ L : Used(lists[n]) = {}
    PROVE  LET l == [n \in L |-> Used(lists[n])]
           IN  Shelves(l) /\ SpecialBytes(l) = SpecialBytes(lists) - SpecialBytes(Unused(lists))
<1> DEFINE D == DOMAIN lists
           l == [n \in L |-> Used(lists[n])]
           d == Unused(lists)
<1>1. /\ lists \in [D -> SUBSET Slot] /\ D \in SUBSET Nat /\ IsFiniteSet(D)
      /\ \A n \in D : Serial(lists[n])
  BY ListsType, Zenon DEF Shelves
<1>2. \A list : Serial(list) => Serial(Used(list)) /\ Serial(list \ Used(list))
  <2> SUFFICES ASSUME NEW list, Serial(list), NEW part, part \subseteq list
               PROVE  Serial(part)
    BY Zenon DEF Used
  <2> QED
    BY FS_Subset DEF Serial
<1>3. \A list : Serial(list) =>
         Cardinality(list) = Cardinality(list \ Used(list)) + Cardinality(Used(list))
  <2> SUFFICES ASSUME NEW list, Serial(list)
               PROVE  Cardinality(list) = Cardinality(list \ Used(list)) + Cardinality(Used(list))
    BY Zenon
  <2> DEFINE a == list \ Used(list)
             b == Used(list)
  <2>1. Serial(a) /\ Serial(b)
    BY <1>2, Zenon
  <2>2. list = a \cup b /\ a \cap b = {}
    BY DEF Used
  <2>3. /\ IsFiniteSet(a) /\ IsFiniteSet(b)
        /\ Cardinality(a) \in Nat /\ Cardinality(b) \in Nat
    BY <2>1, SerialType, Zenon
  <2> HIDE DEF a, b
  <2>4. Cardinality(a \cup b) = Cardinality(a) + Cardinality(b) - Cardinality(a \cap b)
    BY <2>3, FS_Union
  <2>5. Cardinality(a \cap b) = 0
    BY <2>2, FS_EmptySet
  <2>6. Cardinality(list) = Cardinality(a) + Cardinality(b)
    BY <2>2, <2>3, <2>4, <2>5
  <2> QED
    BY <2>6 DEF a, b
<1>4. /\ DOMAIN l = L /\ \A n \in L : l[n] = Used(lists[n])
      /\ DOMAIN d = D /\ \A n \in D : d[n] = lists[n] \ Used(lists[n])
  BY Zenon DEF Unused
<1>5. Shelves(l)
  <2>1. l \in [L -> SUBSET Slot]
    BY <1>1, Zenon DEF Used
  <2>2. L \in SUBSET Nat /\ IsFiniteSet(L)
    BY <1>1, FS_Subset, Zenon
  <2>3. l \in Lists
    <3> HIDE DEF l
    <3> QED
      BY <2>1, <2>2, IntoLists, Zenon
  <2>4. \A n \in DOMAIN l : Serial(l[n])
    <3>1. \A n \in L : n \in D /\ Serial(Used(lists[n]))
      BY <1>1, <1>2, Zenon
    <3> QED
      BY <1>4, <3>1, Zenon
  <2> HIDE DEF l
  <2> QED
    BY <1>4, <2>2, <2>3, <2>4, Zenon DEF Shelves
<1>6. Shelves(d)
  <2>1. d \in [D -> SUBSET Slot]
    BY <1>1, Zenon DEF Unused
  <2> HIDE DEF d
  <2>2. d \in Lists
    BY <1>1, <2>1, IntoLists, Zenon
  <2> QED
    BY <1>1, <1>2, <1>4, <2>2, Zenon DEF Shelves
<1> HIDE DEF l, d
<1>7. /\ Bytes(l) \in [L -> Nat] /\ Bytes(lists) \in [D -> Nat] /\ Bytes(d) \in [D -> Nat]
      /\ \A n \in L : Bytes(l)[n] = n * Cardinality(l[n]) /\ Cardinality(l[n]) \in Nat
      /\ \A n \in D : Bytes(d)[n] = n * Cardinality(d[n]) /\ Cardinality(d[n]) \in Nat /\ n \in Nat
      /\ \A n \in D : Bytes(lists)[n] = n * Cardinality(lists[n]) /\ Cardinality(lists[n]) \in Nat
      /\ SpecialBytes(l) = SumFunction(Bytes(l)) /\ SpecialBytes(lists) = SumFunction(Bytes(lists))
      /\ SpecialBytes(d) = SumFunction(Bytes(d))
  BY <1>4, <1>5, <1>6, BytesType, ZenonT(30)
<1>8. \A n \in L : Bytes(lists)[n] = Bytes(d)[n] + Bytes(l)[n]
  <2> TAKE n \in L
  <2>1. /\ n \in D /\ Cardinality(lists[n]) = Cardinality(d[n]) + Cardinality(l[n])
    BY <1>1, <1>3, <1>4, Zenon
  <2>2. \A x, y, z \in Nat : x * (y + z) = x * y + x * z
    OBVIOUS
  <2>3. n \in Nat /\ Cardinality(d[n]) \in Nat /\ Cardinality(l[n]) \in Nat
    BY <1>7, <2>1, Zenon
  <2>4. n * (Cardinality(d[n]) + Cardinality(l[n])) = n * Cardinality(d[n]) + n * Cardinality(l[n])
    BY <2>2, <2>3, Zenon
  <2> QED
    BY <1>7, <2>1, <2>4, Zenon
<1>9. \A n \in D \ L : Bytes(lists)[n] = Bytes(d)[n]
  <2> TAKE n \in D \ L
  <2>1. d[n] = lists[n]
    BY <1>4
  <2> QED
    BY <1>7, <2>1, Zenon
<1>10. /\ SumFunction(Bytes(lists)) = SumFunction(Bytes(d)) + SumFunction(Bytes(l))
       /\ SumFunction(Bytes(d)) \in Nat /\ SumFunction(Bytes(l)) \in Nat
  <2>1. IsFiniteSet(D) /\ L \in SUBSET D
    BY <1>1, Zenon
  <2> DEFINE g == Bytes(lists)
             e == Bytes(d)
             k == Bytes(l)
  <2>2. /\ g \in [D -> Nat] /\ e \in [D -> Nat] /\ k \in [L -> Nat]
        /\ \A n \in L : g[n] = e[n] + k[n]
        /\ \A n \in D \ L : g[n] = e[n]
    BY <1>7, <1>8, <1>9, Zenon
  <2> HIDE DEF D, g, e, k
  <2>3. /\ SumFunction(g) = SumFunction(e) + SumFunction(k)
        /\ SumFunction(e) \in Nat /\ SumFunction(k) \in Nat
    BY <2>1, <2>2, SumSplit
  <2> QED
    BY <2>3, Zenon DEF g, e, k
<1>11. SpecialBytes(l) = SpecialBytes(lists) - SpecialBytes(d)
  BY <1>7, <1>10
<1> QED
  BY <1>5, <1>11, Zenon DEF l, d
-----------------------------------------------------------------------------
(***************************************************************************)
(* The books of the pool: its counters are those of the tickets, its       *)
(* memory is that of its blocks, and every ticket finds its own memory.    *)
(***************************************************************************)
Span(r, v) == v.place.chunk..v.place.chunk + Chunks(r.size) - 1

Numbered(blocks) ==
    /\ blocks \in Seq(Block) /\ IsInjective(blocks)
    /\ \A b, c \in Range(blocks) : b.id = c.id => b = c

InBlocks(blocks, t) ==
    /\ \A r \in Claimed(t, "primary") :
          \E b \in Range(blocks) : b.id = t[r].place.block /\ Span(r, t[r]) \subseteq b.used
    /\ \A r, q \in Claimed(t, "primary") :
          r # q /\ t[r].place.block = t[q].place.block => Span(r, t[r]) \cap Span(q, t[q]) = {}

InLists(lists, t) ==
    /\ \A r \in Claimed(t, "special") :
          r.size \in DOMAIN lists /\ \E b \in Used(lists[r.size]) : b.id = t[r].place.block
    /\ \A r, q \in Claimed(t, "special") :
          r # q /\ r.size = q.size => t[r].place.block # t[q].place.block
    /\ \A r \in Reserved(t, "special") : r.size \in DOMAIN lists

\* Where tickets come from.
Sane(t) ==
    \A r \in Request : t[r].state \in {"reserved", "claimed"} =>
        (t[r].from = "primary" => r.size <= Cutoff) /\ (t[r].from = "special" => ~t[r].forced)

Books(p, t) ==
    /\ p \in PoolType /\ t \in Tickets
    /\ Counted(p.used, p.reserved, p.forced_used, t)
    /\ p.primary_allocated = BlockSize * Len(p.blocks)
    /\ p.special_allocated = SpecialBytes(p.special)
    /\ Numbered(p.blocks) /\ InBlocks(p.blocks, t)
    /\ Shelves(p.special) /\ InLists(p.special, t)
    /\ Sane(t)

LEMMA BlockType ==
    /\ ChunkSize \in Nat /\ ChunksPerBlock \in Nat /\ BlockSize \in Nat /\ Cutoff \in Nat
    /\ CutoffChunks \in Nat
<1>1. CutoffChunks \in Nat
  BY PoolAssumption
<1>2. ChunkSize \in Nat
  BY PoolAssumption
<1>4. ChunksPerBlock \in Nat
  BY PoolAssumption
<1> QED
  BY <1>1, <1>2, <1>4, Product DEF BlockSize, Cutoff

LEMMA PoolFields ==
    ASSUME NEW p \in PoolType
    PROVE  /\ p.blocks \in Seq(Block) /\ p.special \in Lists
           /\ p.reserved \in Tallies /\ p.used \in Tallies /\ p.forced_used \in Nat
           /\ p.primary_allocated \in Int /\ p.special_allocated \in Int
BY DEF PoolType

\* A primary buffer takes at least one chunk, and its chunks hold it.
LEMMA ChunksHold ==
    ASSUME NEW n \in Nat, n > 0, n <= Cutoff
    PROVE  /\ ChunkSize > 0 /\ Chunks(n) \in Nat /\ Chunks(n) >= 1
           /\ n <= ChunkSize * Chunks(n)
<1>1. ChunkSize \in Nat /\ CutoffChunks \in Nat
  BY BlockType
<1>2. ChunkSize > 0
  <2>1. ASSUME ChunkSize = 0
        PROVE  FALSE
    <3>1. Cutoff = 0 * CutoffChunks
      BY <2>1 DEF Cutoff
    <3> QED
      BY <1>1, <3>1
  <2> QED
    BY <1>1, <2>1
<1> DEFINE k == Chunks(n)
           x == n + ChunkSize - 1
<1>3. x \in Nat /\ k = x \div ChunkSize
  BY <1>1, <1>2 DEF Chunks
<1>4. k \in Int /\ ChunkSize * k <= x /\ x < ChunkSize * k + ChunkSize
  BY <1>1, <1>2, <1>3
<1>5. n <= ChunkSize * k
  BY <1>1, <1>4
<1>6. k >= 1
  BY <1>1, <1>4, <1>5
<1> QED
  BY <1>2, <1>4, <1>5, <1>6 

\* The claimed buffer r has chunks of its own.
LEMMA SpanType ==
    ASSUME NEW t \in Tickets, Sane(t), NEW r \in Claimed(t, "primary")
    PROVE  /\ r \in Request /\ t[r].place.chunk \in Nat /\ Chunks(r.size) \in Nat
           /\ Chunks(r.size) >= 1 /\ r.size <= ChunkSize * Chunks(r.size) /\ r.size \in Nat
           /\ ChunkSize \in Nat /\ t[r].place.chunk \in Span(r, t[r])
<1>1. r \in Request /\ t[r].state = "claimed" /\ t[r].from = "primary"
  BY Zenon DEF Claimed, IsClaimed
<1>2. t[r].place.chunk \in Nat
  BY <1>1 DEF Tickets, TicketType, NoTicket, Place
<1>3. r.size \in Nat /\ r.size > 0 /\ r.size <= Cutoff
  BY <1>1, SizeType, Zenon DEF Sane
<1>4. Chunks(r.size) \in Nat /\ Chunks(r.size) >= 1 /\ r.size <= ChunkSize * Chunks(r.size)
  BY <1>3, ChunksHold, Zenon
<1>5. t[r].place.chunk \in Span(r, t[r])
  BY <1>2, <1>4 DEF Span
<1> QED
  BY <1>1, <1>2, <1>3, <1>4, <1>5, BlockType, Zenon

WithLists(p, lists, bytes) == [p EXCEPT !.special = lists, !.special_allocated = bytes]
WithBlocks(p, blocks, bytes) == [p EXCEPT !.blocks = blocks, !.primary_allocated = bytes]

LEMMA TrimmedSpecial ==
    ASSUME NEW p \in PoolType, NEW lists \in Lists, NEW bytes \in Int,
           NEW q, q = WithLists(p, lists, bytes)
    PROVE  /\ q \in PoolType /\ q.special = lists /\ q.special_allocated = bytes
           /\ q.blocks = p.blocks /\ q.primary_allocated = p.primary_allocated
           /\ q.used = p.used /\ q.reserved = p.reserved /\ q.forced_used = p.forced_used
BY Zenon DEF PoolType, WithLists

LEMMA TrimmedBlocks ==
    ASSUME NEW p \in PoolType, NEW blocks \in Seq(Block), NEW bytes \in Int,
           NEW q, q = WithBlocks(p, blocks, bytes)
    PROVE  /\ q \in PoolType /\ q.blocks = blocks /\ q.primary_allocated = bytes
           /\ q.special = p.special /\ q.special_allocated = p.special_allocated
           /\ q.used = p.used /\ q.reserved = p.reserved /\ q.forced_used = p.forced_used
BY Zenon DEF PoolType, WithBlocks

\* Trimming keeps the blocks that are used, and the lists that are counted on.
LEMMA TrimSpecialBooks ==
    ASSUME NEW p, NEW t, Books(p, t)
    PROVE  Books(TrimSpecial(p), t)
<1> DEFINE lists == p.special
           kept == [n \in DOMAIN lists |-> {b \in lists[n] : b.used}]
           dropped == [n \in DOMAIN lists |-> lists[n] \ kept[n]]
           L == {n \in DOMAIN kept : kept[n] # {} \/ p.reserved["special"] # 0}
           l == [n \in L |-> kept[n]]
           q == TrimSpecial(p)
<1>1. p \in PoolType /\ Shelves(lists) /\ InLists(lists, t) /\ Sane(t)
      /\ p.special_allocated = SpecialBytes(lists) /\ t \in Tickets
  BY Zenon DEF Books
<1>2. \A n \in DOMAIN lists : kept[n] = Used(lists[n])
  BY Zenon DEF Used
<1>3. /\ L \in SUBSET DOMAIN lists /\ \A n \in DOMAIN lists \ L : Used(lists[n]) = {}
      /\ \A n \in DOMAIN lists : Used(lists[n]) # {} \/ p.reserved["special"] # 0 => n \in L
      /\ DOMAIN l = L
  BY <1>2, Zenon
<1>4. l = [n \in L |-> Used(lists[n])] /\ dropped = Unused(lists)
  BY <1>2, Zenon DEF Unused
<1>5. Shelves(l) /\ SpecialBytes(l) = SpecialBytes(lists) - SpecialBytes(dropped)
  <2> HIDE DEF l, dropped, L, kept
  <2>1. L \in SUBSET DOMAIN lists /\ \A n \in DOMAIN lists \ L : Used(lists[n]) = {}
    BY <1>3, Zenon
  <2>2. LET m == [n \in L |-> Used(lists[n])]
        IN  Shelves(m) /\ SpecialBytes(m) = SpecialBytes(lists) - SpecialBytes(Unused(lists))
    BY <1>1, <2>1, BytesTrim, Zenon
  <2> QED
    BY <1>4, <2>2
<1>6. q = [p EXCEPT !.special = l, !.special_allocated = p.special_allocated - SpecialBytes(dropped)]
  BY Zenon DEF TrimSpecial
<1> HIDE DEF kept, dropped, L, l, q
<1>7. l \in Lists /\ p.special_allocated - SpecialBytes(dropped) = SpecialBytes(l) /\ SpecialBytes(l) \in Int
  BY <1>5, BytesType, <1>1 DEF Shelves
<1>8. /\ q \in PoolType /\ q.special = l /\ q.special_allocated = SpecialBytes(l)
      /\ q.blocks = p.blocks /\ q.primary_allocated = p.primary_allocated
      /\ q.used = p.used /\ q.reserved = p.reserved /\ q.forced_used = p.forced_used
  <2>1. q = WithLists(p, l, SpecialBytes(l))
    BY <1>6, <1>7, Zenon DEF WithLists
  <2>2. p \in PoolType /\ l \in Lists /\ SpecialBytes(l) \in Int
    BY <1>1, <1>7, Zenon
  <2> QED
    BY <2>1, <2>2, TrimmedSpecial
<1>9. InLists(l, t)
  <2>1. \A r \in Claimed(t, "special") :
          r.size \in DOMAIN lists /\ \E b \in Used(lists[r.size]) : b.id = t[r].place.block
    BY <1>1, Zenon DEF InLists
  <2>2. \A list : Used(Used(list)) = Used(list)
    BY DEF Used
  <2>3. ASSUME NEW r \in Claimed(t, "special")
        PROVE  r.size \in DOMAIN l /\ \E b \in Used(l[r.size]) : b.id = t[r].place.block
    BY <1>3, <2>1, <1>4, <2>2, Zenon
  <2>4. ASSUME NEW r \in Reserved(t, "special")
        PROVE  r.size \in DOMAIN l
    <3>1. r \in Request /\ r.size \in DOMAIN lists
      BY <1>1, Zenon DEF InLists, Reserved
    <3>2. r.size <= Total(Reserved(t, "special")) /\ r.size > 0 /\ r.size \in Nat
      BY TicketSubsets, Totals, SizeType, Zenon
    <3>3. p.reserved["special"] = Total(Reserved(t, "special"))
      BY Zenon DEF Books, Counted, Area
    <3>4. p.reserved["special"] # 0
      BY <3>2, <3>3
    <3> QED
      BY <1>3, <3>1, <3>4, Zenon
  <2>5. \A r, s \in Claimed(t, "special") :
          r # s /\ r.size = s.size => t[r].place.block # t[s].place.block
    BY <1>1, Zenon DEF InLists
  <2> QED
    BY <2>3, <2>4, <2>5, Zenon DEF InLists
<1>10. Books(q, t)
  BY <1>5, <1>8, <1>9, Zenon DEF Books
<1> QED
  BY <1>10 DEF q

LEMMA TrimAllBooks ==
    ASSUME NEW p, NEW t, Books(p, t)
    PROVE  Books(TrimAll(p), t)
<1> DEFINE S == {b \in Range(p.blocks) : b.used # {}}
           blocks == KeepIn(p.blocks, S)
           bytes == p.primary_allocated - BlockSize * (Len(p.blocks) - Len(blocks))
           q == [p EXCEPT !.blocks = blocks, !.primary_allocated = bytes]
<1>1. TrimAll(p) = TrimSpecial(q)
  BY Zenon DEF TrimAll
<1>2. /\ p \in PoolType /\ t \in Tickets /\ Sane(t) /\ Numbered(p.blocks) /\ InBlocks(p.blocks, t)
      /\ p.primary_allocated = BlockSize * Len(p.blocks)
  BY Zenon DEF Books
<1>3. /\ blocks \in Seq(Block) /\ IsInjective(blocks) /\ Range(blocks) = Range(p.blocks) \cap S
      /\ p.blocks \in Seq(Block)
  <2> HIDE DEF S
  <2> QED
    BY <1>2, KeepEffect, Zenon DEF Numbered
<1>4. \A b : b \in Range(blocks) <=> b \in Range(p.blocks) /\ b.used # {}
  BY <1>3, Zenon
<1> HIDE DEF S, blocks
<1>5. Numbered(blocks)
  BY <1>2, <1>3, <1>4, Zenon DEF Numbered
<1>6. InBlocks(blocks, t)
  <2>1. ASSUME NEW r \in Claimed(t, "primary")
        PROVE  \E b \in Range(blocks) : b.id = t[r].place.block /\ Span(r, t[r]) \subseteq b.used
    <3>1. PICK b \in Range(p.blocks) : b.id = t[r].place.block /\ Span(r, t[r]) \subseteq b.used
      BY <1>2, Zenon DEF InBlocks
    <3>2. t[r].place.chunk \in Span(r, t[r])
      BY <1>2, SpanType, Zenon
    <3> QED
      BY <1>4, <3>1, <3>2, Zenon
  <2> QED
    BY <1>2, <2>1, Zenon DEF InBlocks
<1>7. bytes = BlockSize * Len(blocks) /\ BlockSize * Len(blocks) \in Int
  <2>1. BlockSize \in Nat /\ Len(blocks) \in Nat /\ Len(p.blocks) \in Nat
    BY BlockType
  <2>2. \A x, y, z \in Nat : x * y - x * (y - z) = x * z /\ x * z \in Int
    OBVIOUS
  <2>3. bytes = BlockSize * Len(p.blocks) - BlockSize * (Len(p.blocks) - Len(blocks))
    BY <1>2, Zenon
  <2> QED
    BY <2>1, <2>2, <2>3, Zenon
<1>8. /\ q \in PoolType /\ q.blocks = blocks /\ q.primary_allocated = BlockSize * Len(blocks)
      /\ q.special = p.special /\ q.special_allocated = p.special_allocated
      /\ q.used = p.used /\ q.reserved = p.reserved /\ q.forced_used = p.forced_used
  <2>1. q = WithBlocks(p, blocks, BlockSize * Len(blocks))
    BY <1>7, Zenon DEF WithBlocks
  <2>2. p \in PoolType /\ blocks \in Seq(Block) /\ BlockSize * Len(blocks) \in Int
    BY <1>2, <1>3, <1>7, Zenon
  <2> HIDE DEF q
  <2> QED
    BY <2>1, <2>2, TrimmedBlocks
<1> HIDE DEF q
<1>9. Books(q, t)
  BY <1>5, <1>6, <1>8, Zenon DEF Books
<1> QED
  BY <1>1, <1>9, TrimSpecialBooks, Zenon

\* The comparison with mem_limit leaves room for the unforced tickets.
LEMMA FitsLimit ==
    ASSUME NEW p, NEW t, Books(p, t), NEW n \in Nat, Fits(p, n)
    PROVE  n + Total(Unforced(t)) <= MemLimit
<1>1. /\ p.used \in Tallies /\ p.reserved \in Tallies /\ p.forced_used \in Nat
  BY PoolFields, Zenon DEF Books
<1>2. Sum(p.used) + Sum(p.reserved) = Total(Unforced(t)) + p.forced_used
  BY Zenon DEF Books, Counted
<1>3. Total(Unforced(t)) \in Nat
  BY TicketSubsets, TotalType, Zenon
<1>4. ForcedImpact \in Nat
  BY LimitType DEF ForcedImpact
<1>5. n + CountedTaken(p) <= MemLimit
  BY DEF Fits
<1> QED
  BY <1>1, <1>2, <1>3, <1>4, <1>5, LimitType DEF CountedTaken, Taken

WithReserved(p, tally) == [p EXCEPT !.reserved = tally]

LEMMA MoreReserved ==
    ASSUME NEW p \in PoolType, NEW tally \in Tallies, NEW q, q = WithReserved(p, tally)
    PROVE  /\ q \in PoolType /\ q.reserved = tally /\ q.used = p.used /\ q.forced_used = p.forced_used
           /\ q.blocks = p.blocks /\ q.primary_allocated = p.primary_allocated
           /\ q.special = p.special /\ q.special_allocated = p.special_allocated
BY Zenon DEF PoolType, WithReserved

\* Where the memory of claimed tickets is does not depend on the other tickets.
SameClaims(t, u, a) == \A r \in Claimed(u, a) : r \in Claimed(t, a) /\ u[r] = t[r]

LEMMA SameBlocks ==
    ASSUME NEW t, NEW u, SameClaims(t, u, "primary"), NEW blocks, InBlocks(blocks, t)
    PROVE  InBlocks(blocks, u)
<1>1. \A r \in Claimed(u, "primary") : r \in Claimed(t, "primary") /\ u[r] = t[r]
  BY Zenon DEF SameClaims
<1>2. ASSUME NEW r \in Claimed(u, "primary")
      PROVE  \E b \in Range(blocks) : b.id = u[r].place.block /\ Span(r, u[r]) \subseteq b.used
  BY <1>1, Zenon DEF InBlocks
<1>3. ASSUME NEW r \in Claimed(u, "primary"), NEW q \in Claimed(u, "primary"),
             r # q, u[r].place.block = u[q].place.block
      PROVE  Span(r, u[r]) \cap Span(q, u[q]) = {}
  BY <1>1, <1>3 DEF InBlocks
<1> QED
  BY <1>2, <1>3, Zenon DEF InBlocks

LEMMA SameLists ==
    ASSUME NEW t, NEW u, SameClaims(t, u, "special"), NEW lists, InLists(lists, t),
           \A r \in Reserved(u, "special") : r.size \in DOMAIN lists
    PROVE  InLists(lists, u)
<1>1. \A r \in Claimed(u, "special") : r \in Claimed(t, "special") /\ u[r] = t[r]
  BY Zenon DEF SameClaims
<1>2. ASSUME NEW r \in Claimed(u, "special")
      PROVE  r.size \in DOMAIN lists /\ \E b \in Used(lists[r.size]) : b.id = u[r].place.block
  BY <1>1, Zenon DEF InLists
<1>3. ASSUME NEW r \in Claimed(u, "special"), NEW q \in Claimed(u, "special"), r # q, r.size = q.size
      PROVE  u[r].place.block # u[q].place.block
  BY <1>1, <1>3 DEF InLists
<1> QED
  BY <1>2, <1>3, Zenon DEF InLists

LEMMA NewTicket ==
    ASSUME NEW t \in Tickets, NEW r \in Request, NEW v \in TicketType \cup {NoTicket}
    PROVE  /\ Given(t, r, v) \in Tickets /\ Given(t, r, v)[r] = v
           /\ \A x \in Request : x # r => Given(t, r, v)[x] = t[x]
BY DEF Tickets, Given

LEMMA ReservedType ==
    ASSUME NEW a \in Area, NEW forced \in BOOLEAN
    PROVE  /\ ReservedTicket(a, forced) \in TicketType /\ ReservedTicket(a, forced) # NoTicket
           /\ ReservedTicket(a, forced).state = "reserved" /\ ReservedTicket(a, forced).from = a
           /\ ReservedTicket(a, forced).forced = forced
BY DEF ReservedTicket, TicketType, NoTicket

\* A ticket that r may get before it claims its buffer.
Fitting(v, r, lists) ==
    /\ v \in TicketType /\ v.state = "reserved"
    /\ v.from = "primary" => r.size <= Cutoff
    /\ v.from = "special" => ~v.forced /\ r.size \in DOMAIN lists

\* A reservation: nothing is placed yet.
LEMMA ReservedPlaces ==
    ASSUME NEW t \in Tickets, Sane(t), NEW r \in Request, NEW v, NEW blocks, NEW lists,
           InBlocks(blocks, t), InLists(lists, t), Fitting(v, r, lists)
    PROVE  LET u == Given(t, r, v)
           IN  u \in Tickets /\ Sane(u) /\ InBlocks(blocks, u) /\ InLists(lists, u)
<1> DEFINE u == Given(t, r, v)
<1>1. v \in TicketType /\ v.state = "reserved"
  BY Zenon DEF Fitting
<1>2. u \in Tickets /\ u[r] = v /\ \A x \in Request : x # r => u[x] = t[x]
  BY <1>1, NewTicket
<1> HIDE DEF u
<1>3. \A a : SameClaims(t, u, a)
  BY <1>1, <1>2 DEF SameClaims, Claimed, IsClaimed
<1>4. \A x \in Reserved(u, "special") : x.size \in DOMAIN lists
  BY <1>2, <1>1, Zenon DEF Reserved, IsReserved, InLists, Fitting
<1>5. Sane(u)
  <2>1. ASSUME NEW x \in Request, u[x].state \in {"reserved", "claimed"}
        PROVE  (u[x].from = "primary" => x.size <= Cutoff) /\ (u[x].from = "special" => ~u[x].forced)
    BY <1>2, <2>1 DEF Fitting, Sane
  <2> QED
    BY <2>1, Zenon DEF Sane
<1> QED
  BY <1>2, <1>3, <1>4, <1>5, SameBlocks, SameLists, Zenon DEF u

\* An attempt to reserve for r keeps the books, whether it grants or not.
Attempted(attempt, t, r) ==
    /\ Books(attempt.pool, Given(t, r, attempt.ticket))
    /\ attempt.ok \in BOOLEAN
    /\ ~attempt.ok => attempt.ticket = NoTicket /\ Books(attempt.pool, t)
    /\ attempt.ok => \E a \in Area : attempt.ticket = ReservedTicket(a, FALSE)

\* s_try_reserve_synced
LEMMA TryReserveBooks ==
    ASSUME NEW p, NEW t, Books(p, t), NEW r \in Request, t[r] = NoTicket,
           NEW attempt, attempt = TryReserve(p, r.size)
    PROVE  Attempted(attempt, t, r)
<1> DEFINE q == IF ShouldTrim(p, r.size) THEN TrimAll(p) ELSE p
           a == AreaFor(q, r.size)
           tally == Plus(q.reserved, a, r.size)
<1>1. Books(q, t)
  BY TrimAllBooks, Zenon
<1>2. attempt = IF Fits(q, r.size)
                THEN [ok |-> TRUE, pool |-> [q EXCEPT !.reserved[a] = @ + r.size],
                      ticket |-> [state |-> "reserved", from |-> a, forced |-> FALSE]]
                ELSE [ok |-> FALSE, pool |-> q, ticket |-> NoTicket]
  BY Zenon DEF TryReserve
<1> HIDE DEF q
<1>3. /\ a \in Area
      /\ a = "special" => r.size \in DOMAIN q.special
      /\ a = "primary" => r.size <= Cutoff
  BY SizeType, BlockType DEF AreaFor, Area
<1> HIDE DEF a
<1>4. CASE ~Fits(q, r.size)
  <2>1. attempt.ok = FALSE /\ attempt.pool = q /\ attempt.ticket = NoTicket
    BY <1>2, <1>4
  <2>2. Given(t, r, NoTicket) = t
    BY <1>1 DEF Books, Tickets, Given
  <2> QED
    BY <1>1, <2>1, <2>2, Zenon DEF Attempted
<1>5. CASE Fits(q, r.size)
  <2> DEFINE m == WithReserved(q, tally)
             v == ReservedTicket(a, FALSE)
             u == Given(t, r, v)
  <2>1. q \in PoolType /\ t \in Tickets /\ q.reserved \in Tallies /\ q.used \in Tallies
        /\ q.forced_used \in Nat /\ r.size \in Nat
    BY <1>1, PoolFields, SizeType, Zenon DEF Books
  <2>2. [q EXCEPT !.reserved[a] = @ + r.size] = m
    BY <2>1 DEF PoolType, WithReserved, Plus
  <2>3. attempt.ok = TRUE /\ attempt.pool = m /\ attempt.ticket = v
    BY <1>2, <1>5, <2>2 DEF ReservedTicket
  <2>4. tally \in Tallies
    BY <1>3, <2>1 DEF Tallies, Plus
  <2>5. Counted(q.used, tally, q.forced_used, u)
    BY <1>1, <1>5, <2>1, FitsLimit, <1>3, CountReserve, Zenon DEF Books
  <2> HIDE DEF tally
  <2>6. /\ m \in PoolType /\ m.reserved = tally /\ m.used = q.used /\ m.forced_used = q.forced_used
        /\ m.blocks = q.blocks /\ m.primary_allocated = q.primary_allocated
        /\ m.special = q.special /\ m.special_allocated = q.special_allocated
    BY <2>1, <2>4, MoreReserved DEF m
  <2>7. u \in Tickets /\ Sane(u) /\ InBlocks(q.blocks, u) /\ InLists(q.special, u)
    <3>1. Sane(t) /\ InBlocks(q.blocks, t) /\ InLists(q.special, t)
      BY <1>1, Zenon DEF Books
    <3>2. Fitting(v, r, q.special)
      BY <1>3, ReservedType, Zenon DEF Fitting
    <3>3. t \in Tickets
      BY <2>1, Zenon
    <3> HIDE DEF v
    <3> QED
      BY <3>1, <3>2, <3>3, ReservedPlaces, Zenon
  <2> HIDE DEF m, u, v
  <2>8. Books(m, u)
    BY <1>1, <2>5, <2>6, <2>7, Zenon DEF Books
  <2> QED
    BY <1>3, <2>3, <2>8, Zenon DEF u, v, Attempted
<1> QED
  BY <1>4, <1>5, Zenon

\* A forced ticket takes no memory before it is claimed.
LEMMA ForcedBooks ==
    ASSUME NEW p, NEW t, Books(p, t), NEW r \in Request, t[r] = NoTicket, NEW a \in Area,
           a = "primary" => r.size <= Cutoff, a # "special"
    PROVE  Books(p, Given(t, r, ReservedTicket(a, TRUE)))
<1> DEFINE v == ReservedTicket(a, TRUE)
           u == Given(t, r, v)
<1>1. /\ t \in Tickets /\ Sane(t) /\ InBlocks(p.blocks, t) /\ InLists(p.special, t)
      /\ Counted(p.used, p.reserved, p.forced_used, t)
  BY Zenon DEF Books
<1>2. u \in Tickets /\ Sane(u) /\ InBlocks(p.blocks, u) /\ InLists(p.special, u)
  <2>1. Fitting(v, r, p.special)
    BY ReservedType, Zenon DEF Fitting
  <2> HIDE DEF v
  <2> QED
    BY <1>1, <2>1, ReservedPlaces, Zenon
<1>3. Counted(p.used, p.reserved, p.forced_used, u)
  BY <1>1, CountForced, Zenon
<1> HIDE DEF u
<1>4. Books(p, u)
  BY <1>2, <1>3, Zenon DEF Books
<1> QED
  BY <1>4, Zenon DEF u
-----------------------------------------------------------------------------
(***************************************************************************)
(* Claiming a buffer.                                                      *)
(***************************************************************************)
LEMMA MinIn ==
    ASSUME NEW S \in SUBSET Nat, S # {}
    PROVE  Min(S) \in S
BY Least, Zenon DEF Min

\* A number that no block has.
LEMMA FreeIdFree ==
    ASSUME NEW ids, IsFiniteSet(ids)
    PROVE  FreeId(ids) \in Nat /\ FreeId(ids) \notin ids
<1> DEFINE n == Cardinality(ids)
<1>1. n \in Nat
  BY FS_CardinalityType
<1>2. \E i \in 1..n + 1 : i \notin ids
  <2> SUFFICES ASSUME 1..n + 1 \in SUBSET ids
               PROVE  FALSE
    BY Zenon
  <2>1. Cardinality(1..n + 1) <= n
    BY FS_Subset, Zenon
  <2>2. Cardinality(1..n + 1) = n + 1
    BY <1>1, FS_Interval
  <2> HIDE DEF n
  <2> QED
    BY <1>1, <2>1, <2>2
<1>3. FreeId(ids) \in 1..n + 1 /\ FreeId(ids) \notin ids
  BY <1>2, Zenon DEF FreeId
<1> HIDE DEF n
<1> QED
  BY <1>1, <1>3

LEMMA IdsFinite ==
    ASSUME NEW S, IsFiniteSet(S)
    PROVE  IsFiniteSet({b.id : b \in S})
<1> DEFINE T == {b.id : b \in S}
           f == [b \in S |-> b.id]
<1>1. f \in Surjection(S, T)
  BY DEF Surjection
<1> HIDE DEF f, T
<1>2. IsFiniteSet(T)
  BY <1>1, FS_Surjection
<1> QED
  BY <1>2 DEF T

LEMMA RangeFinite ==
    ASSUME NEW T, NEW s \in Seq(T)
    PROVE  IsFiniteSet(Range(s))
<1> DEFINE n == Len(s)
<1>1. n \in Nat /\ DOMAIN s = 1..n /\ s \in [1..n -> T]
  OBVIOUS
<1>2. s \in Surjection(1..n, Range(s))
  BY <1>1 DEF Range, Surjection
<1>3. IsFiniteSet(1..n)
  BY <1>1, FS_Interval
<1> QED
  BY <1>2, <1>3, FS_Surjection, Zenon

LEMMA BlockSwap ==
    ASSUME NEW blocks, Numbered(blocks), NEW i \in DOMAIN blocks, NEW e \in Block, e.id = blocks[i].id,
           NEW new, new = Given(blocks, i, e)
    PROVE  /\ Numbered(new) /\ Len(new) = Len(blocks)
           /\ \A b : b \in Range(new) <=> b = e \/ (b \in Range(blocks) /\ b # blocks[i])
<1> DEFINE n == Len(blocks)
<1>1. blocks \in Seq(Block) /\ IsInjective(blocks)
      /\ \A b, c \in Range(blocks) : b.id = c.id => b = c
  BY Zenon DEF Numbered
<1>2. /\ n \in Nat /\ DOMAIN blocks = 1..n /\ new \in Seq(Block) /\ Len(new) = n /\ DOMAIN new = 1..n
      /\ new[i] = e /\ \A j \in 1..n : j # i => new[j] = blocks[j]
  BY <1>1 DEF Given
<1> HIDE DEF n
<1>3. \A j, k \in 1..n : blocks[j].id = blocks[k].id => j = k
  <2> TAKE j, k \in 1..n
  <2>1. blocks[j] \in Range(blocks) /\ blocks[k] \in Range(blocks)
    BY <1>2, Zenon DEF Range
  <2> QED
    BY <1>1, <1>2, <2>1, Zenon DEF IsInjective
<1>4. \A j \in 1..n : new[j].id = blocks[j].id
  BY <1>2, Zenon
<1>5. \A b : b \in Range(new) <=> b = e \/ (b \in Range(blocks) /\ b # blocks[i])
  BY <1>2, <1>3 DEF Range
<1>6. IsInjective(new) /\ \A b, c \in Range(new) : b.id = c.id => b = c
  <2>1. \A j, k \in 1..n : new[j].id = new[k].id => j = k
    BY <1>3, <1>4, Zenon
  <2>2. \A b \in Range(new) : \E j \in 1..n : b = new[j]
    BY <1>2, Zenon DEF Range
  <2>3. IsInjective(new)
    BY <1>2, <2>1, Zenon DEF IsInjective
  <2>4. ASSUME NEW b \in Range(new), NEW c \in Range(new), b.id = c.id
        PROVE  b = c
    BY <2>2, <2>1, <2>4
  <2> QED
    BY <2>3, <2>4, Zenon
<1> QED
  BY <1>2, <1>5, <1>6, Zenon DEF Numbered, n

LEMMA BlockNew ==
    ASSUME NEW blocks, Numbered(blocks), NEW e \in Block, \A b \in Range(blocks) : b.id # e.id
    PROVE  /\ Numbered(Append(blocks, e)) /\ Len(Append(blocks, e)) = Len(blocks) + 1
           /\ \A b : b \in Range(Append(blocks, e)) <=> b = e \/ b \in Range(blocks)
<1> DEFINE new == Append(blocks, e)
<1>1. blocks \in Seq(Block) /\ IsInjective(blocks) /\ e \notin Range(blocks)
      /\ \A b, c \in Range(blocks) : b.id = c.id => b = c
  BY Zenon DEF Numbered
<1>2. new \in Seq(Block) /\ IsInjective(new) /\ Range(new) = Range(blocks) \cup {e}
  BY <1>1, AppendOne, Zenon
<1>3. Len(new) = Len(blocks) + 1
  BY <1>1
<1> HIDE DEF new
<1>4. \A b : b \in Range(new) <=> b = e \/ b \in Range(blocks)
  BY <1>2, Zenon
<1>5. Numbered(new)
  BY <1>1, <1>2, <1>4, Zenon DEF Numbered
<1> QED
  BY <1>3, <1>4, <1>5, Zenon DEF new

\* What s_primary_acquire_synced takes: chunks that were free in a block that
\* was there before, or in a new one. The other blocks keep what they have.
Grown(old, new) == \A b \in Range(old) : \E c \in Range(new) : c.id = b.id /\ b.used \subseteq c.used
Taking(old, new, id, S) ==
    /\ \E b \in Range(new) : b.id = id /\ S \subseteq b.used
    /\ \A b \in Range(old) : b.id = id => b.used \cap S = {}

LEMMA PrimaryAcquired ==
    ASSUME NEW p \in PoolType, Numbered(p.blocks), p.primary_allocated = BlockSize * Len(p.blocks),
           NEW size, Chunks(size) \in Nat, NEW got, got = PrimaryAcquire(p, size)
    PROVE  \E blocks, id, c :
             /\ got.pool = WithBlocks(p, blocks, BlockSize * Len(blocks))
             /\ got.place = [block |-> id, chunk |-> c] /\ id \in Nat /\ c \in Nat
             /\ Numbered(blocks) /\ Grown(p.blocks, blocks)
             /\ Taking(p.blocks, blocks, id, c..c + Chunks(size) - 1)
<1> DEFINE n == Chunks(size)
           Free(b) == {c \in 0..ChunksPerBlock - n : b.used \cap (c..c + n - 1) = {}}
           with == {i \in DOMAIN p.blocks : Free(p.blocks[i]) # {}}
<1>0. /\ p.blocks \in Seq(Block) /\ Len(p.blocks) \in Nat /\ DOMAIN p.blocks = 1..Len(p.blocks)
      /\ \A i \in DOMAIN p.blocks : p.blocks[i] \in Block /\ p.blocks[i] \in Range(p.blocks)
  BY DEF Numbered, Range
<1>1. CASE with # {}
  <2> DEFINE i == Min(with)
             c == Min(Free(p.blocks[i]))
             S == c..c + n - 1
             b == p.blocks[i]
             e == [b EXCEPT !.used = @ \cup S]
             blocks == Given(p.blocks, i, e)
  <2>1. i \in with
    <3>1. with \in SUBSET Nat
      BY <1>0
    <3> HIDE DEF with
    <3> QED
      BY <1>1, <3>1, MinIn, Zenon
  <2>2. i \in DOMAIN p.blocks /\ Free(b) # {} /\ b \in Block /\ b \in Range(p.blocks)
    BY <1>0, <2>1, Zenon
  <2>3. c \in Nat /\ b.used \cap S = {}
    <3>1. Free(b) \in SUBSET Nat
      BY BlockType
    <3>2. c \in Free(b)
      BY <2>2, <3>1, MinIn, Zenon DEF b
    <3> QED
      BY <3>1, <3>2, Zenon
  <2>4. /\ got.pool = [p EXCEPT !.blocks[i].used = @ \cup S]
        /\ got.place = [block |-> b.id, chunk |-> c]
    BY <1>1, Zenon DEF PrimaryAcquire
  <2>5. e \in Block /\ e.id = b.id /\ e.used = b.used \cup S /\ b.id \in Nat
    <3>1. S \in SUBSET Nat
      <4>1. c \in Nat
        BY <2>3, Zenon
      <4> HIDE DEF c
      <4> QED
        BY <4>1
    <3>2. b \in Block
      BY <2>2, Zenon
    <3> HIDE DEF S, b
    <3> QED
      BY <3>1, <3>2, Zenon DEF Block
  <2>6. [p EXCEPT !.blocks[i].used = @ \cup S] = WithBlocks(p, blocks, p.primary_allocated)
    BY <2>2, Zenon DEF PoolType, WithBlocks, Given, Block
  <2> HIDE DEF i, c, S, e, blocks
  <2>7. /\ Numbered(blocks) /\ Len(blocks) = Len(p.blocks)
        /\ \A x : x \in Range(blocks) <=> x = e \/ (x \in Range(p.blocks) /\ x # b)
    BY <2>2, <2>5, BlockSwap DEF blocks
  <2> HIDE DEF b
  <2>8. Grown(p.blocks, blocks)
    BY <2>5, <2>7, Zenon DEF Grown
  <2>9. Taking(p.blocks, blocks, b.id, S)
    <3>1. \A x \in Range(p.blocks) : x.id = b.id => x = b
      BY <2>2, Zenon DEF Numbered
    <3> QED
      BY <2>3, <2>5, <2>7, <3>1, Zenon DEF Taking
  <2>10. got.pool = WithBlocks(p, blocks, BlockSize * Len(blocks))
    BY <2>4, <2>6, <2>7, Zenon
  <2> QED
    BY <2>3, <2>4, <2>5, <2>7, <2>8, <2>9, <2>10, Zenon DEF S
<1>2. CASE with = {}
  <2> DEFINE ids == {b.id : b \in Range(p.blocks)}
             id == FreeId(ids)
             S == 0..n - 1
             e == [id |-> id, used |-> S]
             blocks == Append(p.blocks, e)
  <2>1. id \in Nat /\ id \notin ids
    BY <1>0, RangeFinite, IdsFinite, FreeIdFree, Zenon
  <2>2. /\ got.pool = [p EXCEPT !.blocks = blocks, !.primary_allocated = @ + BlockSize]
        /\ got.place = [block |-> id, chunk |-> 0]
    BY <1>2, Zenon DEF PrimaryAcquire
  <2> HIDE DEF id
  <2>3. e \in Block /\ e.id = id /\ e.used = S /\ \A b \in Range(p.blocks) : b.id # id
    BY <2>1 DEF Block
  <2> HIDE DEF e
  <2>4. /\ Numbered(blocks) /\ Len(blocks) = Len(p.blocks) + 1
        /\ \A b : b \in Range(blocks) <=> b = e \/ b \in Range(p.blocks)
    BY <2>3, BlockNew, Zenon
  <2>5. [p EXCEPT !.blocks = blocks, !.primary_allocated = @ + BlockSize]
          = WithBlocks(p, blocks, p.primary_allocated + BlockSize)
    BY Zenon DEF PoolType, WithBlocks
  <2> HIDE DEF blocks
  <2>6. p.primary_allocated + BlockSize = BlockSize * Len(blocks)
    <3>1. \A x, y \in Nat : x * y + x = x * (y + 1)
      OBVIOUS
    <3> QED
      BY <1>0, <2>4, <3>1, BlockType, Zenon
  <2>7. Grown(p.blocks, blocks)
    BY <2>4, Zenon DEF Grown
  <2>8. Taking(p.blocks, blocks, id, S)
    BY <2>3, <2>4, Zenon DEF Taking
  <2>9. S = 0..0 + n - 1
    OBVIOUS
  <2>10. got.pool = WithBlocks(p, blocks, BlockSize * Len(blocks))
    BY <2>2, <2>5, <2>6, Zenon
  <2> HIDE DEF S
  <2>11. 0 \in Nat
    OBVIOUS
  <2> QED
    BY <2>1, <2>2, <2>4, <2>7, <2>8, <2>9, <2>10, <2>11, Zenon
<1> QED
  BY <1>1, <1>2, Zenon

\* What the special-sized branch of s_acquire_buffer_synced takes: a block of
\* the list that was not used, or a new one.
Shelved(old, new, n, id) ==
    /\ DOMAIN new = DOMAIN old
    /\ \E b \in Used(new[n]) : b.id = id
    /\ \A b \in Used(old[n]) : b.id # id
    /\ \A k \in DOMAIN old : Used(old[k]) \subseteq Used(new[k])

LEMMA SpecialAcquired ==
    ASSUME NEW p \in PoolType, Shelves(p.special), p.special_allocated = SpecialBytes(p.special),
           NEW size \in DOMAIN p.special, NEW got, got = SpecialAcquire(p, size)
    PROVE  \E lists, id :
             /\ got.pool = WithLists(p, lists, SpecialBytes(lists))
             /\ got.place = [block |-> id, chunk |-> 0] /\ id \in Nat
             /\ Shelves(lists) /\ Shelved(p.special, lists, size, id)
<1> DEFINE list == p.special[size]
           free == {x \in list : ~x.used}
           ids == {x.id : x \in list}
           b == IF free # {} THEN CHOOSE x \in free : TRUE ELSE [id |-> FreeId(ids), used |-> FALSE]
           e == [b EXCEPT !.used = TRUE]
           new == (list \ {b}) \cup {e}
           more == IF free # {} THEN 0 ELSE size
           lists == Given(p.special, size, new)
<1>1. Serial(list) /\ list \in SUBSET Slot /\ IsFiniteSet(list)
  BY Zenon DEF Shelves, Serial
<1>2. /\ b \in Slot /\ b.used = FALSE
      /\ b \in list \/ \A x \in list : x.id # b.id
      /\ free # {} <=> b \in list
  <2>1. CASE free # {}
    <3>1. b \in free
      BY <2>1, Zenon
    <3>2. b \in list /\ ~b.used /\ b \in Slot
      BY <1>1, <3>1, Zenon
    <3>3. \A x \in Slot : x.used \in BOOLEAN
      BY Zenon DEF Slot
    <3> HIDE DEF b
    <3> QED
      BY <2>1, <3>2, <3>3, Zenon
  <2>2. CASE free = {}
    <3>1. b = [id |-> FreeId(ids), used |-> FALSE]
      BY <2>2, Zenon
    <3>2. FreeId(ids) \in Nat /\ FreeId(ids) \notin ids
      <4>1. IsFiniteSet(ids)
        BY <1>1, IdsFinite, Zenon
      <4> HIDE DEF ids
      <4> QED
        BY <4>1, FreeIdFree, Zenon
    <3>3. \A x \in list : x.id # FreeId(ids)
      BY <3>2, Zenon
    <3> HIDE DEF b, ids, free, list
    <3>4. b \in Slot /\ b.used = FALSE /\ b.id = FreeId(ids)
      BY <3>1, <3>2 DEF Slot
    <3>5. b \notin list
      BY <3>3, <3>4, Zenon
    <3> QED
      BY <2>2, <3>3, <3>4, <3>5, Zenon
  <2> QED
    BY <2>1, <2>2, Zenon
<1>3. /\ got.pool = [p EXCEPT !.special[size] = (@ \ {b}) \cup {e}, !.special_allocated = @ + more]
      /\ got.place = [block |-> b.id, chunk |-> 0]
  <2> DEFINE q == [p EXCEPT !.special[size] = (@ \ {b}) \cup {e}, !.special_allocated = @ + more]
             place == [block |-> b.id, chunk |-> 0]
  <2>1. got = [pool |-> q, place |-> place]
    BY Zenon DEF SpecialAcquire
  <2> HIDE DEF q, place
  <2>2. got.pool = q /\ got.place = place
    BY <2>1
  <2> QED
    BY <2>2, Zenon DEF q, place
<1>4. /\ more = IF b \in list THEN 0 ELSE size
  BY <1>2, Zenon
<1> HIDE DEF b, more, free, ids
<1>5. e \in Slot /\ e.id = b.id /\ e.used = TRUE /\ b.id \in Nat
  BY <1>2, Zenon DEF Slot
<1> HIDE DEF e
<1>6. [p EXCEPT !.special[size] = (@ \ {b}) \cup {e}, !.special_allocated = @ + more]
        = WithLists(p, lists, p.special_allocated + more)
  BY Zenon DEF PoolType, WithLists, Given
<1>7. /\ Serial(new) /\ Cardinality(list) \in Nat
      /\ Cardinality(new) = Cardinality(list) + (IF b \in list THEN 0 ELSE 1)
  <2> HIDE DEF list
  <2>1. Serial(list) /\ b \in Slot /\ e \in Slot /\ e.id = b.id
    BY <1>1, <1>2, <1>5, Zenon
  <2>2. b \in list \/ \A x \in list : x.id # b.id
    BY <1>2, Zenon
  <2> QED
    BY <2>1, <2>2, Swap
<1>8. \A x : x \in new <=> x = e \/ (x \in list /\ x # b)
  BY Zenon
<1> HIDE DEF new
<1>9. /\ Shelves(lists) /\ DOMAIN lists = DOMAIN p.special
      /\ SpecialBytes(lists) = SpecialBytes(p.special) - size * Cardinality(list) + size * Cardinality(new)
  BY <1>7, BytesSwap, ZenonT(30) DEF Given
<1>10. SpecialBytes(lists) = p.special_allocated + more
  <2>1. size \in Nat /\ SpecialBytes(p.special) \in Nat
    BY BytesType, Zenon
  <2>2. \A x, y \in Nat : x * (y + 1) = x * y + x /\ x * (y + 0) = x * y /\ x * y \in Nat
    OBVIOUS
  <2>3. CASE b \in list
    <3>1. size * Cardinality(new) = size * Cardinality(list) /\ size * Cardinality(list) \in Nat /\ more = 0
      BY <1>4, <1>7, <2>1, <2>2, <2>3, ZenonT(40)
    <3> HIDE DEF lists, list
    <3> QED
      BY <1>9, <2>1, <3>1
  <2>4. CASE b \notin list
    <3>1. /\ size * Cardinality(new) = size * Cardinality(list) + size
          /\ size * Cardinality(list) \in Nat /\ more = size
      BY <1>4, <1>7, <2>1, <2>2, <2>4, Zenon
    <3> HIDE DEF lists, list
    <3> QED
      BY <1>9, <2>1, <3>1
  <2> QED
    BY <2>3, <2>4, Zenon
<1>11. lists[size] = new /\ \A k \in DOMAIN p.special : k # size => lists[k] = p.special[k]
  BY DEF Given
<1> HIDE DEF lists
<1>12. Shelved(p.special, lists, size, b.id)
  <2>1. e \in Used(new)
    BY <1>5, <1>8, Zenon DEF Used
  <2>2. \A x \in Used(list) : x \in list /\ x # b
    BY <1>2, Zenon DEF Used
  <2>3. \A x \in Used(list) : x.id # b.id
    BY <1>1, <1>2, <2>2, Zenon DEF Serial
  <2>4. Used(list) \subseteq Used(new)
    BY <1>8, <2>2, Zenon DEF Used
  <2>5. \A k \in DOMAIN p.special : Used(p.special[k]) \subseteq Used(lists[k])
    BY <1>11, <2>4, Zenon
  <2> QED
    BY <1>5, <1>9, <1>11, <2>1, <2>3, <2>5, Zenon DEF Shelved
<1>13. got.pool = WithLists(p, lists, SpecialBytes(lists))
  BY <1>3, <1>6, <1>10, Zenon
<1> QED
  BY <1>3, <1>5, <1>9, <1>12, <1>13, Zenon

ClaimedTicket(a, forced, place) ==
    [state |-> "claimed", from |-> a, forced |-> forced, place |-> place]
WithCounts(p, us, rs, f) == [p EXCEPT !.used = us, !.reserved = rs, !.forced_used = f]

LEMMA NewCounts ==
    ASSUME NEW p \in PoolType, NEW us \in Tallies, NEW rs \in Tallies, NEW f \in Nat,
           NEW q, q = WithCounts(p, us, rs, f)
    PROVE  /\ q \in PoolType /\ q.reserved = rs /\ q.used = us /\ q.forced_used = f
           /\ q.blocks = p.blocks /\ q.primary_allocated = p.primary_allocated
           /\ q.special = p.special /\ q.special_allocated = p.special_allocated
BY Zenon DEF PoolType, WithCounts

LEMMA TicketParts ==
    ASSUME NEW t \in Tickets, NEW r \in Request
    PROVE  /\ t[r].state = "reserved" => t[r] = ReservedTicket(t[r].from, t[r].forced)
           /\ t[r].state = "claimed" => t[r] = ClaimedTicket(t[r].from, t[r].forced, t[r].place)
                                          /\ t[r].place \in Place
           /\ t[r].state \in {"reserved", "claimed"} => t[r].from \in Area /\ t[r].forced \in BOOLEAN
           /\ t[r] = NoTicket \/ t[r].state \in {"reserved", "claimed"}
           /\ t[r] = NoTicket => t[r].state = "none"
<1>1. t[r] \in TicketType \cup {NoTicket}
  BY Zenon DEF Tickets
<1>2. CASE t[r] = NoTicket
  BY <1>2 DEF NoTicket
<1>3. CASE t[r] \in [state : {"reserved"}, from : Area, forced : BOOLEAN]
  BY <1>3 DEF ReservedTicket, NoTicket
<1>4. CASE t[r] \in [state : {"claimed"}, from : Area, forced : BOOLEAN, place : Place]
  BY <1>4 DEF ClaimedTicket, NoTicket
<1> QED
  BY <1>1, <1>2, <1>3, <1>4, Zenon DEF TicketType

LEMMA ClaimedParts ==
    ASSUME NEW a \in Area, NEW forced \in BOOLEAN, NEW place \in Place, NEW v,
           v = ClaimedTicket(a, forced, place)
    PROVE  /\ v \in TicketType /\ v.state = "claimed" /\ v.from = a /\ v.forced = forced
           /\ v.place = place
BY DEF ClaimedTicket, TicketType

\* The pool m is p with the memory of the tickets u, not yet counted.
Holding(m, p, u) ==
    /\ m \in PoolType
    /\ m.used = p.used /\ m.reserved = p.reserved /\ m.forced_used = p.forced_used
    /\ m.primary_allocated = BlockSize * Len(m.blocks)
    /\ m.special_allocated = SpecialBytes(m.special)
    /\ Numbered(m.blocks) /\ InBlocks(m.blocks, u) /\ Shelves(m.special) /\ InLists(m.special, u)

AfterClaim(m, a, forced, n) ==
    [m EXCEPT !.used[a] = @ + n, !.reserved[a] = IF forced THEN @ ELSE @ - n,
              !.forced_used = IF forced THEN @ + n ELSE @]

\* The books once r has claimed its buffer at v.place, when m has the memory.
LEMMA ClaimCounts ==
    ASSUME NEW p, NEW t, Books(p, t), NEW r \in Request, t[r].state = "reserved", NEW place \in Place,
           NEW v, v = ClaimedTicket(t[r].from, t[r].forced, place), NEW u, u = Given(t, r, v),
           NEW m, Holding(m, p, u)
    PROVE  Books(AfterClaim(m, t[r].from, t[r].forced, r.size), u)
<1> DEFINE a == t[r].from
           f == t[r].forced
           us == Plus(m.used, a, r.size)
           rs == Moved(m.reserved, a, r.size, f)
           e == IF f THEN m.forced_used + r.size ELSE m.forced_used
           q == WithCounts(m, us, rs, e)
<1>0. /\ m \in PoolType
      /\ m.used = p.used /\ m.reserved = p.reserved /\ m.forced_used = p.forced_used
      /\ m.primary_allocated = BlockSize * Len(m.blocks)
      /\ m.special_allocated = SpecialBytes(m.special)
      /\ Numbered(m.blocks) /\ InBlocks(m.blocks, u) /\ Shelves(m.special) /\ InLists(m.special, u)
  BY Zenon DEF Holding
<1>1. t \in Tickets /\ a \in Area /\ f \in BOOLEAN /\ r.size \in Nat /\ Sane(t)
  <2>1. t \in Tickets /\ Sane(t)
    BY Zenon DEF Books
  <2>2. a \in Area /\ f \in BOOLEAN
    BY <2>1, TicketParts, Zenon
  <2> QED
    BY <2>1, <2>2, SizeType, Zenon
<1>2. /\ v \in TicketType /\ v.state = "claimed" /\ v.from = a /\ v.forced = f
  <2> HIDE DEF a, f
  <2>1. v = ClaimedTicket(a, f, place)
    BY Zenon DEF a, f
  <2>2. a \in Area /\ f \in BOOLEAN
    BY <1>1, Zenon
  <2> QED
    BY <2>1, <2>2, ClaimedParts
<1>3. u \in Tickets /\ u[r] = v /\ \A x \in Request : x # r => u[x] = t[x]
  <2>1. t \in Tickets /\ v \in TicketType \cup {NoTicket}
    BY <1>1, <1>2, Zenon
  <2> QED
    BY <2>1, NewTicket
<1>4. /\ m.used \in Tallies /\ m.reserved \in Tallies /\ m.forced_used \in Nat
      /\ Counted(m.used, m.reserved, m.forced_used, t)
  BY <1>0, PoolFields, Zenon DEF Books
<1>5. Counted(us, rs, e, u) /\ us \in Tallies /\ rs \in Tallies
  <2> HIDE DEF a, f
  <2>1. t[r].state = "reserved" /\ t[r].from = a /\ t[r].forced = f
    BY DEF a, f
  <2>2. a \in Area /\ f \in BOOLEAN /\ v.state = "claimed" /\ v.from = a /\ v.forced = f /\ t \in Tickets
    BY <1>1, <1>2, Zenon
  <2>3. Counted(us, rs, e, Given(t, r, v)) /\ us \in Tallies /\ rs \in Tallies
    BY <1>4, <2>1, <2>2, CountClaim
  <2> QED
    BY <2>3, Zenon
<1>6. e \in Nat
  BY <1>1, <1>4
<1>7. AfterClaim(m, a, f, r.size) = q
  BY <1>0, Zenon DEF PoolType, WithCounts, Plus, Moved, AfterClaim
<1>8. Sane(u)
  <2>1. ASSUME NEW x \in Request, u[x].state \in {"reserved", "claimed"}
        PROVE  (u[x].from = "primary" => x.size <= Cutoff) /\ (u[x].from = "special" => ~u[x].forced)
    <3>1. CASE x = r
      BY <1>1, <1>2, <1>3, <3>1, Zenon DEF Sane
    <3>2. CASE x # r
      BY <1>1, <1>3, <2>1, <3>2, Zenon DEF Sane
    <3> QED
      BY <3>1, <3>2
  <2> QED
    BY <2>1, Zenon DEF Sane
<1> HIDE DEF us, rs, e
<1>9. /\ q \in PoolType /\ q.reserved = rs /\ q.used = us /\ q.forced_used = e
      /\ q.blocks = m.blocks /\ q.primary_allocated = m.primary_allocated
      /\ q.special = m.special /\ q.special_allocated = m.special_allocated
  <2> HIDE DEF q
  <2>1. q = WithCounts(m, us, rs, e)
    BY DEF q
  <2>2. us \in Tallies /\ rs \in Tallies /\ e \in Nat
    BY <1>5, <1>6, Zenon
  <2> QED
    BY <1>0, <2>1, <2>2, NewCounts, SMTT(20)
<1> HIDE DEF q
<1>10. Books(q, u)
  BY <1>0, <1>3, <1>5, <1>8, <1>9, Zenon DEF Books
<1> QED
  BY <1>7, <1>10, Zenon

\* The tickets other than that of r are the same.
Others(t, u, r) == \A x \in Request : x # r => u[x] = t[x]

LEMMA ClaimInBlocks ==
    ASSUME NEW t, NEW u, NEW r \in Request, Others(t, u, r), r \notin Claimed(t, "primary"),
           NEW old, NEW new, InBlocks(old, t), Grown(old, new),
           Taking(old, new, u[r].place.block, Span(r, u[r]))
    PROVE  InBlocks(new, u)
<1>1. \A x \in Claimed(u, "primary") : x # r => x \in Claimed(t, "primary") /\ u[x] = t[x]
  BY Zenon DEF Claimed, Others
<1>2. ASSUME NEW x \in Claimed(u, "primary"), x # r
      PROVE  \E b \in Range(old) : b.id = u[x].place.block /\ Span(x, u[x]) \subseteq b.used
  BY <1>1, <1>2, Zenon DEF InBlocks
<1>3. ASSUME NEW x \in Claimed(u, "primary")
      PROVE  \E b \in Range(new) : b.id = u[x].place.block /\ Span(x, u[x]) \subseteq b.used
  <2>1. CASE x = r
    BY <2>1, Zenon DEF Taking
  <2>2. CASE x # r
    <3>1. PICK b \in Range(old) : b.id = u[x].place.block /\ Span(x, u[x]) \subseteq b.used
      BY <1>2, <2>2, Zenon
    <3>2. PICK c \in Range(new) : c.id = b.id /\ b.used \subseteq c.used
      BY Zenon DEF Grown
    <3> QED
      BY <3>1, <3>2, Zenon
  <2> QED
    BY <2>1, <2>2
<1>4. ASSUME NEW x \in Claimed(u, "primary"), x # r, u[x].place.block = u[r].place.block
      PROVE  Span(x, u[x]) \cap Span(r, u[r]) = {}
  BY <1>2, <1>4, Zenon DEF Taking
<1>5. ASSUME NEW x \in Claimed(u, "primary"), NEW y \in Claimed(u, "primary"),
             x # y, u[x].place.block = u[y].place.block
      PROVE  Span(x, u[x]) \cap Span(y, u[y]) = {}
  BY <1>1, <1>5, <1>4, Zenon DEF InBlocks
<1> QED
  BY <1>3, <1>5, Zenon DEF InBlocks

LEMMA ClaimInLists ==
    ASSUME NEW t, NEW u, NEW r \in Request, Others(t, u, r), r \notin Claimed(t, "special"),
           u[r].state = "claimed", NEW old, NEW new, InLists(old, t), r.size \in DOMAIN old,
           Shelved(old, new, r.size, u[r].place.block)
    PROVE  InLists(new, u)
<1>1. \A x \in Claimed(u, "special") : x # r => x \in Claimed(t, "special") /\ u[x] = t[x]
  BY Zenon DEF Claimed, Others
<1>2. ASSUME NEW x \in Claimed(u, "special"), x # r
      PROVE  x.size \in DOMAIN old /\ \E b \in Used(old[x.size]) : b.id = u[x].place.block
  BY <1>1, <1>2, Zenon DEF InLists
<1>3. ASSUME NEW x \in Claimed(u, "special")
      PROVE  x.size \in DOMAIN new /\ \E b \in Used(new[x.size]) : b.id = u[x].place.block
  <2>1. CASE x = r
    BY <2>1, Zenon DEF Shelved
  <2>2. CASE x # r
    BY <1>2, <2>2, Zenon DEF Shelved
  <2> QED
    BY <2>1, <2>2
<1>4. ASSUME NEW x \in Claimed(u, "special"), x # r, x.size = r.size
      PROVE  u[x].place.block # u[r].place.block
  BY <1>2, <1>4, Zenon DEF Shelved
<1>5. ASSUME NEW x \in Claimed(u, "special"), NEW y \in Claimed(u, "special"), x # y, x.size = y.size
      PROVE  u[x].place.block # u[y].place.block
  <2>1. CASE x # r /\ y # r
    <3>1. u[x] = t[x] /\ u[y] = t[y] /\ x \in Claimed(t, "special") /\ y \in Claimed(t, "special")
      BY <1>1, <2>1, Zenon
    <3>2. t[x].place.block # t[y].place.block
      BY <1>5, <3>1, Zenon DEF InLists
    <3> QED
      BY <3>1, <3>2, Zenon
  <2>2. CASE x = r
    BY <1>4, <1>5, <2>2
  <2>3. CASE y = r
    BY <1>4, <1>5, <2>3
  <2> QED
    BY <2>1, <2>2, <2>3
<1>6. \A x \in Reserved(u, "special") : x.size \in DOMAIN new
  <2>1. \A x \in Reserved(u, "special") : x # r /\ x \in Request
    BY DEF Reserved, IsReserved
  <2>2. \A x \in Reserved(u, "special") : x \in Reserved(t, "special")
    BY <2>1, Zenon DEF Reserved, Others
  <2> QED
    BY <2>2, Zenon DEF InLists, Shelved
<1> QED
  BY <1>3, <1>5, <1>6, Zenon DEF InLists

LEMMA NotClaimed ==
    ASSUME NEW t, NEW r, t[r].state # "claimed", NEW a
    PROVE  r \notin Claimed(t, a)
BY DEF Claimed, IsClaimed

\* aws_s3_default_buffer_pool_acquire_buffer keeps the books.
LEMMA ClaimBooks ==
    ASSUME NEW p, NEW t, Books(p, t), NEW r \in Request, t[r].state = "reserved", NEW got,
           got = CASE t[r].from = "primary" -> PrimaryAcquire(p, r.size)
                   [] t[r].from = "special" -> SpecialAcquire(p, r.size)
                   [] OTHER -> [pool |-> p, place |-> [block |-> 0, chunk |-> 0]]
    PROVE  Books(AfterClaim(got.pool, t[r].from, t[r].forced, r.size),
                 Given(t, r, ClaimedTicket(t[r].from, t[r].forced, got.place)))
<1> DEFINE v == ClaimedTicket(t[r].from, t[r].forced, got.place)
           u == Given(t, r, v)
           m == got.pool
<1>1. /\ p \in PoolType /\ t \in Tickets /\ Sane(t) /\ Numbered(p.blocks) /\ InBlocks(p.blocks, t)
      /\ Shelves(p.special) /\ InLists(p.special, t)
      /\ p.primary_allocated = BlockSize * Len(p.blocks) /\ p.special_allocated = SpecialBytes(p.special)
  BY Zenon DEF Books
<1>2. t[r].from \in Area /\ t[r].forced \in BOOLEAN
  BY <1>1, TicketParts, Zenon
<1>3. \A a : r \notin Claimed(t, a)
  BY NotClaimed
<1>4. ASSUME got.place \in Place
      PROVE  /\ v \in TicketType /\ v.state = "claimed" /\ v.from = t[r].from /\ v.place = got.place
             /\ u \in Tickets /\ u[r] = v /\ Others(t, u, r)
  <2>1. /\ v \in TicketType /\ v.state = "claimed" /\ v.from = t[r].from /\ v.place = got.place
    <3> DEFINE a == t[r].from
               f == t[r].forced
    <3>1. a \in Area /\ f \in BOOLEAN
      BY <1>2, Zenon
    <3>2. v = ClaimedTicket(a, f, got.place)
      BY Zenon
    <3> HIDE DEF a, f, v
    <3>3. /\ v \in TicketType /\ v.state = "claimed" /\ v.from = a /\ v.place = got.place
      BY <1>4, <3>1, <3>2, ClaimedParts
    <3> QED
      BY <3>3 DEF a
  <2> HIDE DEF v
  <2>2. t \in Tickets /\ v \in TicketType \cup {NoTicket}
    BY <1>1, <2>1, Zenon
  <2>3. u \in Tickets /\ u[r] = v /\ Others(t, u, r)
    BY <2>2, NewTicket DEF Others
  <2> QED
    BY <2>1, <2>3, Zenon
<1>5. ASSUME NEW a \in Area, a # t[r].from, got.place \in Place
      PROVE  SameClaims(t, u, a)
  <2>1. ASSUME NEW x \in Claimed(u, a)
        PROVE  x \in Claimed(t, a) /\ u[x] = t[x]
    <3> HIDE DEF u, v
    <3>1. u[r] = v /\ v.from # a /\ Others(t, u, r)
      BY <1>4, <1>5, Zenon
    <3>2. x \in Request /\ x # r
      BY <3>1, Zenon DEF Claimed, IsClaimed
    <3> QED
      BY <3>1, <3>2, Zenon DEF Others, Claimed
  <2> QED
    BY <2>1, Zenon DEF SameClaims
<1>6. ASSUME got.place \in Place
      PROVE  \A x \in Reserved(u, "special") : x \in Reserved(t, "special")
  <2> HIDE DEF u, v
  <2>1. u[r].state = "claimed" /\ Others(t, u, r)
    BY <1>4, <1>6, Zenon
  <2>2. \A x \in Reserved(u, "special") : x # r /\ x \in Request
    BY <2>1 DEF Reserved, IsReserved
  <2> QED
    BY <2>1, <2>2, Zenon DEF Reserved, Others
<1>7. ASSUME got.place \in Place, Holding(m, p, u)
      PROVE  Books(AfterClaim(m, t[r].from, t[r].forced, r.size), u)
  <2> HIDE DEF u, v, m
  <2>1. v = ClaimedTicket(t[r].from, t[r].forced, got.place)
    BY DEF v
  <2>2. u = Given(t, r, v)
    BY DEF u
  <2> QED
    BY <1>7, <2>1, <2>2, ClaimCounts, Zenon
<1> HIDE DEF v, u, m
<1>8. CASE t[r].from = "primary"
  <2>1. Chunks(r.size) \in Nat
    <3>1. r.size \in Nat /\ r.size > 0 /\ r.size <= Cutoff
      BY <1>1, <1>8, SizeType, Zenon DEF Sane
    <3> QED
      BY <3>1, ChunksHold, Zenon
  <2>2. got = PrimaryAcquire(p, r.size)
    BY <1>8
  <2>3. PICK blocks, id, c :
             /\ got.pool = WithBlocks(p, blocks, BlockSize * Len(blocks))
             /\ got.place = [block |-> id, chunk |-> c] /\ id \in Nat /\ c \in Nat
             /\ Numbered(blocks) /\ Grown(p.blocks, blocks)
             /\ Taking(p.blocks, blocks, id, c..c + Chunks(r.size) - 1)
    BY <1>1, <2>1, <2>2, PrimaryAcquired, Zenon
  <2>4. got.place \in Place /\ got.place.block = id /\ got.place.chunk = c
    BY <2>3 DEF Place
  <2>5. /\ m \in PoolType /\ m.blocks = blocks /\ m.primary_allocated = BlockSize * Len(blocks)
        /\ m.special = p.special /\ m.special_allocated = p.special_allocated
        /\ m.used = p.used /\ m.reserved = p.reserved /\ m.forced_used = p.forced_used
    <3>1. m = WithBlocks(p, blocks, BlockSize * Len(blocks))
      BY <2>3, Zenon DEF m
    <3>2. blocks \in Seq(Block)
      BY <2>3, Zenon DEF Numbered
    <3>3. BlockSize * Len(blocks) \in Int
      BY <3>2, BlockType
    <3>4. p \in PoolType
      BY <1>1, Zenon
    <3> QED
      BY <3>1, <3>2, <3>3, <3>4, TrimmedBlocks, SMTT(20)
  <2>6. u[r].place.block = id /\ Span(r, u[r]) = c..c + Chunks(r.size) - 1 /\ Others(t, u, r)
    BY <1>4, <2>4, Zenon DEF Span
  <2>7. InBlocks(blocks, u)
    BY <1>1, <1>3, <2>3, <2>6, ClaimInBlocks, Zenon
  <2>8. InLists(p.special, u)
    <3>1. SameClaims(t, u, "special")
      BY <1>5, <1>8, <2>4 DEF Area
    <3>2. \A x \in Reserved(u, "special") : x.size \in DOMAIN p.special
      BY <1>1, <1>6, <2>4, Zenon DEF InLists
    <3> QED
      BY <1>1, <3>1, <3>2, SameLists, Zenon
  <2>9. Holding(m, p, u)
    BY <1>1, <2>3, <2>5, <2>7, <2>8, Zenon DEF Holding
  <2> QED
    BY <1>7, <2>4, <2>9, Zenon DEF m, u, v
<1>9. CASE t[r].from = "special"
  <2>1. r.size \in DOMAIN p.special
    <3>1. r \in Reserved(t, "special")
      BY <1>1, <1>9, Zenon DEF Reserved, IsReserved, Sane
    <3> QED
      BY <1>1, <3>1, Zenon DEF InLists
  <2>2. got = SpecialAcquire(p, r.size)
    BY <1>9
  <2>3. PICK lists, id :
             /\ got.pool = WithLists(p, lists, SpecialBytes(lists))
             /\ got.place = [block |-> id, chunk |-> 0] /\ id \in Nat
             /\ Shelves(lists) /\ Shelved(p.special, lists, r.size, id)
    BY <1>1, <2>1, <2>2, SpecialAcquired, Zenon
  <2>4. got.place \in Place /\ got.place.block = id
    BY <2>3 DEF Place
  <2>5. /\ m \in PoolType /\ m.special = lists /\ m.special_allocated = SpecialBytes(lists)
        /\ m.blocks = p.blocks /\ m.primary_allocated = p.primary_allocated
        /\ m.used = p.used /\ m.reserved = p.reserved /\ m.forced_used = p.forced_used
    <3>1. m = WithLists(p, lists, SpecialBytes(lists))
      BY <2>3, Zenon DEF m
    <3>2. lists \in Lists
      BY <2>3, Zenon DEF Shelves
    <3>3. SpecialBytes(lists) \in Int
      BY <2>3, BytesType
    <3>4. p \in PoolType
      BY <1>1, Zenon
    <3> QED
      BY <3>1, <3>2, <3>3, <3>4, TrimmedSpecial, SMTT(20)
  <2>6. u[r].place.block = id /\ u[r].state = "claimed" /\ Others(t, u, r)
    BY <1>4, <2>4, Zenon
  <2>7. InLists(lists, u)
    BY <1>1, <1>3, <2>1, <2>3, <2>6, ClaimInLists, Zenon
  <2>8. InBlocks(p.blocks, u)
    <3>1. SameClaims(t, u, "primary")
      BY <1>5, <1>9, <2>4 DEF Area
    <3> QED
      BY <1>1, <3>1, SameBlocks, Zenon
  <2>9. Holding(m, p, u)
    BY <1>1, <2>3, <2>5, <2>7, <2>8, Zenon DEF Holding
  <2> QED
    BY <1>7, <2>4, <2>9, Zenon DEF m, u, v
<1>10. CASE t[r].from = "secondary"
  <2>1. got = [pool |-> p, place |-> [block |-> 0, chunk |-> 0]]
    BY <1>10
  <2>2. got.place \in Place /\ m = p
    BY <2>1 DEF Place, m
  <2>3. InBlocks(p.blocks, u)
    <3>1. SameClaims(t, u, "primary")
      BY <1>5, <1>10, <2>2 DEF Area
    <3> QED
      BY <1>1, <3>1, SameBlocks, Zenon
  <2>4. InLists(p.special, u)
    <3>1. SameClaims(t, u, "special")
      BY <1>5, <1>10, <2>2 DEF Area
    <3>2. \A x \in Reserved(u, "special") : x.size \in DOMAIN p.special
      BY <1>1, <1>6, <2>2, Zenon DEF InLists
    <3> QED
      BY <1>1, <3>1, <3>2, SameLists, Zenon
  <2>5. Holding(m, p, u)
    BY <1>1, <2>2, <2>3, <2>4, Zenon DEF Holding
  <2> QED
    BY <1>7, <2>2, <2>5, Zenon DEF m, u, v
<1> QED
  BY <1>2, <1>8, <1>9, <1>10 DEF Area
-----------------------------------------------------------------------------
(***************************************************************************)
(* Giving memory back.                                                     *)
(***************************************************************************)
Cleared(list, id) == {IF b.id = id THEN [b EXCEPT !.used = FALSE] ELSE b : b \in list}

LEMMA ListCleared ==
    ASSUME NEW list, Serial(list), NEW c \in list
    PROVE  /\ Serial(Cleared(list, c.id)) /\ Cardinality(Cleared(list, c.id)) = Cardinality(list)
           /\ \A b \in Used(list) : b.id # c.id => b \in Used(Cleared(list, c.id))
<1> DEFINE e == [c EXCEPT !.used = FALSE]
           new == (list \ {c}) \cup {e}
<1>1. list \in SUBSET Slot /\ \A b, d \in list : b.id = d.id => b = d
  BY Zenon DEF Serial
<1>2. c \in Slot
  BY <1>1, Zenon
<1>3. e \in Slot /\ e.id = c.id
  BY <1>2, Zenon DEF Slot
<1>4. Serial(new) /\ Cardinality(list) \in Nat
      /\ Cardinality(new) = Cardinality(list) + (IF c \in list THEN 0 ELSE 1)
  BY <1>2, <1>3, Swap, Zenon
<1>5. Cleared(list, c.id) = new
  <2>1. \A b \in list : (IF b.id = c.id THEN [b EXCEPT !.used = FALSE] ELSE b) = IF b = c THEN e ELSE b
    BY <1>1, Zenon
  <2> HIDE DEF e
  <2>2. Cleared(list, c.id) = {IF b = c THEN e ELSE b : b \in list}
    BY <2>1, Zenon DEF Cleared
  <2>3. \A x : x \in {IF b = c THEN e ELSE b : b \in list} <=> x \in new
    BY Zenon
  <2> QED
    BY <2>2, <2>3, Zenon
<1> HIDE DEF e
<1>6. \A b \in Used(list) : b.id # c.id => b \in Used(new)
  BY Zenon DEF Used
<1> HIDE DEF new
<1>7. Cardinality(new) = Cardinality(list)
  BY <1>4
<1> QED
  BY <1>4, <1>5, <1>6, <1>7, Zenon

\* A special-sized block is free again.
LEMMA ListGivenBack ==
    ASSUME NEW t, NEW u, NEW r \in Request, Others(t, u, r), u[r].state = "none",
           r \in Claimed(t, "special"), NEW lists, Shelves(lists), InLists(lists, t)
    PROVE  LET l == Given(lists, r.size, Cleared(lists[r.size], t[r].place.block))
           IN  /\ Shelves(l) /\ InLists(l, u) /\ SpecialBytes(l) = SpecialBytes(lists)
               /\ r.size \in DOMAIN lists
<1> DEFINE list == lists[r.size]
           new == Cleared(list, t[r].place.block)
           l == Given(lists, r.size, new)
<1>1. r.size \in DOMAIN lists /\ \E b \in Used(list) : b.id = t[r].place.block
  BY Zenon DEF InLists
<1>2. PICK c \in list : c.id = t[r].place.block
  BY <1>1, Zenon DEF Used
<1>3. Serial(list)
  BY <1>1, Zenon DEF Shelves
<1>4. /\ Serial(new) /\ Cardinality(new) = Cardinality(list)
      /\ \A b \in Used(list) : b.id # t[r].place.block => b \in Used(new)
  <2> HIDE DEF list
  <2> QED
    BY <1>2, <1>3, ListCleared, Zenon
<1>5. /\ Shelves(l) /\ DOMAIN l = DOMAIN lists
      /\ SpecialBytes(l) = SpecialBytes(lists) - r.size * Cardinality(list) + r.size * Cardinality(new)
  BY <1>1, <1>4, BytesSwap DEF Given
<1>6. SpecialBytes(l) = SpecialBytes(lists)
  <2>1. /\ SpecialBytes(lists) \in Nat /\ r.size \in Nat /\ Cardinality(list) \in Nat
    BY <1>1, BytesType, Zenon
  <2>2. \A x, y, z \in Nat : x - y * z + y * z = x
    OBVIOUS
  <2>3. SpecialBytes(l) = SpecialBytes(lists) - r.size * Cardinality(list) + r.size * Cardinality(list)
    BY <1>4, <1>5, Zenon
  <2> QED
    BY <2>1, <2>2, <2>3, Zenon
<1>7. l[r.size] = new /\ \A n \in DOMAIN lists : n # r.size => l[n] = lists[n]
  BY <1>1, Zenon DEF Given
<1> HIDE DEF l, new
<1>8. InLists(l, u)
  <2>1. \A x \in Claimed(u, "special") : x # r /\ x \in Claimed(t, "special") /\ u[x] = t[x]
    BY Zenon DEF Claimed, IsClaimed, Others
  <2>2. ASSUME NEW x \in Claimed(u, "special")
        PROVE  x.size \in DOMAIN l /\ \E b \in Used(l[x.size]) : b.id = u[x].place.block
    <3>1. x.size \in DOMAIN lists
      BY <2>1, Zenon DEF InLists
    <3>2. PICK b \in Used(lists[x.size]) : b.id = t[x].place.block
      BY <2>1, Zenon DEF InLists
    <3>3. CASE x.size = r.size
      <4>1. b.id # t[r].place.block
        BY <2>1, <3>2, <3>3, Zenon DEF InLists
      <4>2. b \in Used(new)
        BY <1>4, <3>3, <4>1, Zenon
      <4> QED
        BY <1>5, <1>7, <2>1, <3>1, <3>2, <3>3, <4>2, Zenon
    <3>4. CASE x.size # r.size
      BY <1>5, <1>7, <2>1, <3>1, <3>2, <3>4, Zenon
    <3> QED
      BY <3>3, <3>4, Zenon
  <2>3. ASSUME NEW x \in Claimed(u, "special"), NEW y \in Claimed(u, "special"), x # y, x.size = y.size
        PROVE  u[x].place.block # u[y].place.block
    <3>1. u[x] = t[x] /\ u[y] = t[y] /\ x \in Claimed(t, "special") /\ y \in Claimed(t, "special")
      BY <2>1, Zenon
    <3>2. t[x].place.block # t[y].place.block
      BY <2>3, <3>1, Zenon DEF InLists
    <3> QED
      BY <3>1, <3>2, Zenon
  <2>4. \A x \in Reserved(u, "special") : x.size \in DOMAIN l
    BY <1>5 DEF Reserved, IsReserved, Others, InLists
  <2> QED
    BY <2>2, <2>3, <2>4, Zenon DEF InLists
<1> QED
  BY <1>1, <1>5, <1>6, <1>8, Zenon DEF l, new

\* The blocks once the chunks S of block id are free.
Vacated(blocks, id, S) ==
    [i \in DOMAIN blocks |-> IF blocks[i].id = id THEN [blocks[i] EXCEPT !.used = @ \ S] ELSE blocks[i]]

LEMMA BlockVacated ==
    ASSUME NEW blocks, Numbered(blocks), NEW i \in DOMAIN blocks, NEW S, NEW id, id = blocks[i].id
    PROVE  LET e == [blocks[i] EXCEPT !.used = @ \ S]
           IN  /\ Vacated(blocks, id, S) = Given(blocks, i, e)
               /\ e \in Block /\ e.id = id /\ e.used = blocks[i].used \ S
<1> DEFINE e == [blocks[i] EXCEPT !.used = @ \ S]
           n == Len(blocks)
<1>1. /\ blocks \in Seq(Block) /\ IsInjective(blocks)
      /\ \A b, c \in Range(blocks) : b.id = c.id => b = c
  BY Zenon DEF Numbered
<1>2. n \in Nat /\ DOMAIN blocks = 1..n /\ blocks \in [1..n -> Block]
  BY <1>1
<1> HIDE DEF n
<1>3. \A j \in 1..n : blocks[j].id = id => j = i
  <2> TAKE j \in 1..n
  <2>1. blocks[j] \in Range(blocks) /\ blocks[i] \in Range(blocks)
    BY <1>2, Zenon DEF Range
  <2> QED
    BY <1>1, <1>2, <2>1, Zenon DEF IsInjective
<1>4. e \in Block /\ e.id = id /\ e.used = blocks[i].used \ S
  <2>1. blocks[i] \in Block
    BY <1>2, Zenon
  <2> QED
    BY <2>1 DEF Block
<1>5. Vacated(blocks, id, S) = Given(blocks, i, e)
  BY <1>3, <1>2, Zenon DEF Given, Vacated
<1> QED
  BY <1>4, <1>5, Zenon DEF e

\* The chunks of a primary block are free again.
LEMMA BlockGivenBack ==
    ASSUME NEW t, NEW u, NEW r \in Request, Others(t, u, r), u[r].state = "none",
           r \in Claimed(t, "primary"), NEW blocks, Numbered(blocks), InBlocks(blocks, t),
           NEW new, new = Vacated(blocks, t[r].place.block, Span(r, t[r]))
    PROVE  Numbered(new) /\ InBlocks(new, u) /\ Len(new) = Len(blocks)
<1> DEFINE id == t[r].place.block
           S == Span(r, t[r])
<1>1. PICK b \in Range(blocks) : b.id = id
  BY Zenon DEF InBlocks
<1>2. PICK i \in DOMAIN blocks : blocks[i] = b
  BY Zenon DEF Range
<1> DEFINE e == [blocks[i] EXCEPT !.used = @ \ S]
<1>3. new = Given(blocks, i, e) /\ e \in Block /\ e.id = id /\ e.used = blocks[i].used \ S
  <2> HIDE DEF id, S
  <2>1. new = Vacated(blocks, id, S) /\ id = blocks[i].id
    BY <1>1, <1>2, Zenon DEF id, S
  <2> QED
    BY <2>1, BlockVacated
<1> HIDE DEF e
<1>4. /\ Numbered(new) /\ Len(new) = Len(blocks)
      /\ \A d : d \in Range(new) <=> d = e \/ (d \in Range(blocks) /\ d # blocks[i])
  <2>1. e \in Block /\ e.id = blocks[i].id /\ new = Given(blocks, i, e)
    BY <1>1, <1>2, <1>3, Zenon
  <2> QED
    BY <2>1, BlockSwap, SMTT(20)
<1>5. InBlocks(new, u)
  <2>1. \A x \in Claimed(u, "primary") : x # r /\ x \in Claimed(t, "primary") /\ u[x] = t[x]
    BY Zenon DEF Claimed, IsClaimed, Others
  <2>2. ASSUME NEW x \in Claimed(u, "primary")
        PROVE  \E d \in Range(new) : d.id = u[x].place.block /\ Span(x, u[x]) \subseteq d.used
    <3>1. PICK d \in Range(blocks) : d.id = t[x].place.block /\ Span(x, t[x]) \subseteq d.used
      BY <2>1, Zenon DEF InBlocks
    <3>2. CASE d = blocks[i]
      <4>1. t[x].place.block = t[r].place.block
        BY <1>1, <1>2, <3>1, <3>2, Zenon
      <4>2. Span(x, t[x]) \cap S = {}
        BY <2>1, <4>1 DEF InBlocks
      <4>3. Span(x, t[x]) \subseteq e.used
        BY <1>3, <3>1, <3>2, <4>2, Zenon
      <4> QED
        BY <1>3, <1>4, <2>1, <4>1, <4>3, Zenon
    <3>3. CASE d # blocks[i]
      BY <1>4, <2>1, <3>1, <3>3, Zenon
    <3> QED
      BY <3>2, <3>3, Zenon
  <2>3. ASSUME NEW x \in Claimed(u, "primary"), NEW y \in Claimed(u, "primary"),
               x # y, u[x].place.block = u[y].place.block
        PROVE  Span(x, u[x]) \cap Span(y, u[y]) = {}
    <3>1. /\ u[x] = t[x] /\ u[y] = t[y] /\ x \in Claimed(t, "primary") /\ y \in Claimed(t, "primary")
          /\ t[x].place.block = t[y].place.block
      BY <2>1, <2>3, Zenon
    <3>2. Span(x, t[x]) \cap Span(y, t[y]) = {}
      BY <2>3, <3>1 DEF InBlocks
    <3> QED
      BY <3>1, <3>2, Zenon
  <2> QED
    BY <2>2, <2>3, Zenon DEF InBlocks
<1> QED
  BY <1>4, <1>5, Zenon

AfterRelease(m, a, forced, n) ==
    [m EXCEPT !.used[a] = @ - n, !.forced_used = IF forced THEN @ - n ELSE @]

LEMMA NoTicketState == NoTicket.state = "none" /\ NoTicket \in TicketType \cup {NoTicket}
BY DEF NoTicket

\* The tickets once r has none.
LEMMA Without ==
    ASSUME NEW t \in Tickets, Sane(t), NEW r \in Request, NEW u, u = Given(t, r, NoTicket)
    PROVE  /\ u \in Tickets /\ u[r].state = "none" /\ Others(t, u, r) /\ Sane(u)
           /\ \A a : SameClaims(t, u, a)
           /\ \A x \in Reserved(u, "special") : x \in Reserved(t, "special")
<1>1. u \in Tickets /\ u[r] = NoTicket /\ \A x \in Request : x # r => u[x] = t[x]
  BY NoTicketState, NewTicket
<1>2. u[r].state = "none" /\ Others(t, u, r)
  BY <1>1, NoTicketState, Zenon DEF Others
<1>3. Sane(u)
  <2>1. ASSUME NEW x \in Request, u[x].state \in {"reserved", "claimed"}
        PROVE  (u[x].from = "primary" => x.size <= Cutoff) /\ (u[x].from = "special" => ~u[x].forced)
    <3>1. x # r
      BY <1>2, <2>1
    <3> QED
      BY <1>1, <2>1, <3>1, Zenon DEF Sane
  <2> QED
    BY <2>1, Zenon DEF Sane
<1>4. \A a : SameClaims(t, u, a)
  BY <1>2, <1>1 DEF SameClaims, Claimed, IsClaimed
<1>5. \A x \in Reserved(u, "special") : x \in Reserved(t, "special")
  BY <1>2, <1>1 DEF Reserved, IsReserved
<1> QED
  BY <1>1, <1>2, <1>3, <1>4, <1>5, Zenon

LEMMA ReleaseCounts ==
    ASSUME NEW p, NEW t, Books(p, t), NEW r \in Request, t[r].state = "claimed",
           NEW u, u = Given(t, r, NoTicket), NEW m, Holding(m, p, u)
    PROVE  Books(AfterRelease(m, t[r].from, t[r].forced, r.size), u)
<1> DEFINE a == t[r].from
           f == t[r].forced
           us == Minus(m.used, a, r.size)
           e == IF f THEN m.forced_used - r.size ELSE m.forced_used
           q == WithCounts(m, us, m.reserved, e)
<1>0. /\ m \in PoolType
      /\ m.used = p.used /\ m.reserved = p.reserved /\ m.forced_used = p.forced_used
      /\ m.primary_allocated = BlockSize * Len(m.blocks)
      /\ m.special_allocated = SpecialBytes(m.special)
      /\ Numbered(m.blocks) /\ InBlocks(m.blocks, u) /\ Shelves(m.special) /\ InLists(m.special, u)
  BY Zenon DEF Holding
<1>1. t \in Tickets /\ a \in Area /\ f \in BOOLEAN /\ r.size \in Nat /\ Sane(t)
  <2>1. t \in Tickets /\ Sane(t)
    BY Zenon DEF Books
  <2>2. a \in Area /\ f \in BOOLEAN
    BY <2>1, TicketParts, Zenon
  <2> QED
    BY <2>1, <2>2, SizeType, Zenon
<1>2. u \in Tickets /\ Sane(u)
  BY <1>1, Without
<1>3. /\ m.used \in Tallies /\ m.reserved \in Tallies /\ m.forced_used \in Nat
      /\ Counted(m.used, m.reserved, m.forced_used, t)
  BY <1>0, PoolFields, Zenon DEF Books
<1>4. Counted(us, m.reserved, e, u) /\ us \in Tallies /\ e \in Nat
  BY <1>1, <1>3, CountUnclaim DEF a, f, IsClaimed
<1>5. AfterRelease(m, a, f, r.size) = q
  BY Zenon DEF PoolType, WithCounts, Minus, AfterRelease
<1> HIDE DEF us, e
<1>6. /\ q \in PoolType /\ q.reserved = m.reserved /\ q.used = us /\ q.forced_used = e
      /\ q.blocks = m.blocks /\ q.primary_allocated = m.primary_allocated
      /\ q.special = m.special /\ q.special_allocated = m.special_allocated
  <2> HIDE DEF q
  <2>1. q = WithCounts(m, us, m.reserved, e)
    BY DEF q
  <2>2. us \in Tallies /\ m.reserved \in Tallies /\ e \in Nat /\ m \in PoolType
    BY <1>0, <1>3, <1>4, Zenon
  <2> QED
    BY <2>1, <2>2, NewCounts, SMTT(20)
<1> HIDE DEF q
<1>7. Books(q, u)
  BY <1>0, <1>2, <1>4, <1>6, Zenon DEF Books
<1> QED
  BY <1>5, <1>7, Zenon

\* The first half of s_aws_ticket_wrapper_destroy keeps the books. A forced
\* ticket is claimed before it is destroyed.
LEMMA GiveBackBooks ==
    ASSUME NEW p, Books(p, ticket), NEW r \in Request, ticket[r].state \in {"reserved", "claimed"},
           ticket[r].state = "reserved" => ~ticket[r].forced
    PROVE  Books(GiveBack(p, r), Given(ticket, r, NoTicket))
<1> DEFINE t == ticket
           a == t[r].from
           f == t[r].forced
           u == Given(t, r, NoTicket)
<1>1. /\ p \in PoolType /\ t \in Tickets /\ Sane(t) /\ Numbered(p.blocks) /\ InBlocks(p.blocks, t)
      /\ Shelves(p.special) /\ InLists(p.special, t)
      /\ p.primary_allocated = BlockSize * Len(p.blocks) /\ p.special_allocated = SpecialBytes(p.special)
      /\ Counted(p.used, p.reserved, p.forced_used, t)
  BY Zenon DEF Books
<1>2. a \in Area /\ f \in BOOLEAN
  BY <1>1, TicketParts, ZenonT(40)
<1>3. /\ u \in Tickets /\ u[r].state = "none" /\ Others(t, u, r) /\ Sane(u)
      /\ \A b : SameClaims(t, u, b)
      /\ \A x \in Reserved(u, "special") : x \in Reserved(t, "special")
  BY <1>1, Without
<1> HIDE DEF u
<1>4. InBlocks(p.blocks, u) /\ InLists(p.special, u)
  <2>1. \A x \in Reserved(u, "special") : x.size \in DOMAIN p.special
    BY <1>1, <1>3, Zenon DEF InLists
  <2> QED
    BY <1>1, <1>3, <2>1, SameBlocks, SameLists, Zenon
<1>5. CASE t[r].state = "reserved"
  <2> DEFINE tally == Minus(p.reserved, a, r.size)
             q == WithReserved(p, tally)
  <2>1. GiveBack(p, r) = q
    BY <1>5, <1>1 DEF GiveBack, PoolType, WithReserved, Minus
  <2>2. IsReserved(t[r], a)
    BY <1>5 DEF IsReserved
  <2>3. tally \in Tallies /\ Counted(p.used, tally, p.forced_used, u)
    BY <1>1, PoolFields, <1>2, <2>2, CountUnreserve, Zenon DEF u
  <2> HIDE DEF tally
  <2>4. /\ q \in PoolType /\ q.reserved = tally /\ q.used = p.used /\ q.forced_used = p.forced_used
        /\ q.blocks = p.blocks /\ q.primary_allocated = p.primary_allocated
        /\ q.special = p.special /\ q.special_allocated = p.special_allocated
    BY <1>1, <2>3, MoreReserved, SMTT(30) DEF q
  <2> HIDE DEF q
  <2>5. Books(q, u)
    BY <1>3, <1>4, <2>3, <2>4, Zenon DEF Books
  <2> QED
    BY <2>1, <2>5, Zenon DEF u
<1>6. ASSUME t[r].state = "claimed", NEW m, Holding(m, p, u), GiveBack(p, r) = AfterRelease(m, a, f, r.size)
      PROVE  Books(GiveBack(p, r), Given(ticket, r, NoTicket))
  BY <1>6, ReleaseCounts DEF u
<1>7. CASE t[r].state = "claimed" /\ a = "secondary"
  BY <1>1, <1>4, <1>7, <1>6, Zenon DEF Holding, GiveBack, AfterRelease
<1>8. CASE t[r].state = "claimed" /\ a = "special"
  <2> DEFINE new == Cleared(p.special[r.size], t[r].place.block)
             l == Given(p.special, r.size, new)
             m == WithLists(p, l, p.special_allocated)
  <2>1. r \in Claimed(t, "special")
    BY <1>8 DEF Claimed, IsClaimed
  <2>2. /\ Shelves(l) /\ InLists(l, u) /\ SpecialBytes(l) = SpecialBytes(p.special)
        /\ r.size \in DOMAIN p.special
    BY <1>1, <1>3, <2>1, ListGivenBack, Zenon
  <2>3. GiveBack(p, r) = AfterRelease(m, a, f, r.size)
    <3> DEFINE freed == AfterRelease(p, a, f, r.size)
    <3>1. GiveBack(p, r) = [freed EXCEPT !.special[r.size] =
                   {IF b.id = t[r].place.block THEN [b EXCEPT !.used = FALSE] ELSE b : b \in @}]
      BY <1>8 DEF GiveBack, AfterRelease
    <3>2. freed.special = p.special
      BY <1>1, Zenon DEF AfterRelease, PoolType
    <3>3. GiveBack(p, r) = [freed EXCEPT !.special[r.size] = new]
      BY <3>1, <3>2 DEF Cleared
    <3>4. [freed EXCEPT !.special[r.size] = new] = AfterRelease(m, a, f, r.size)
      <4> HIDE DEF new
      <4> QED
        BY <1>1, Zenon DEF AfterRelease, PoolType, WithLists, Given
    <3> QED
      BY <3>3, <3>4, Zenon
  <2> HIDE DEF l
  <2>4. /\ m \in PoolType /\ m.special = l /\ m.special_allocated = p.special_allocated
        /\ m.blocks = p.blocks /\ m.primary_allocated = p.primary_allocated
        /\ m.used = p.used /\ m.reserved = p.reserved /\ m.forced_used = p.forced_used
    <3> DEFINE bytes == p.special_allocated
    <3>1. m = WithLists(p, l, bytes) /\ p \in PoolType
      BY <1>1, Zenon
    <3>2. l \in Lists /\ bytes \in Int
      BY <1>1, <2>2, PoolFields, Zenon DEF Shelves
    <3> HIDE DEF m, bytes
    <3>3. /\ m \in PoolType /\ m.special = l /\ m.special_allocated = bytes
          /\ m.blocks = p.blocks /\ m.primary_allocated = p.primary_allocated
          /\ m.used = p.used /\ m.reserved = p.reserved /\ m.forced_used = p.forced_used
      BY <3>1, <3>2, TrimmedSpecial, SMTT(20)
    <3> QED
      BY <3>3, Zenon DEF bytes
  <2> HIDE DEF m
  <2>5. Holding(m, p, u)
    BY <1>1, <1>4, <2>2, <2>4, Zenon DEF Holding
  <2> QED
    BY <1>6, <1>8, <2>3, <2>5, Zenon
<1>9. CASE t[r].state = "claimed" /\ a = "primary"
  <2> DEFINE new == Vacated(p.blocks, t[r].place.block, Span(r, t[r]))
             m == WithBlocks(p, new, p.primary_allocated)
  <2>1. r \in Claimed(t, "primary")
    BY <1>9, SMTT(30) DEF Claimed, IsClaimed
  <2>2. Numbered(new) /\ InBlocks(new, u) /\ Len(new) = Len(p.blocks)
    <3> HIDE DEF new
    <3>1. new = Vacated(p.blocks, t[r].place.block, Span(r, t[r]))
      BY DEF new
    <3> QED
      BY <1>1, <1>3, <2>1, <3>1, BlockGivenBack, SMTT(30)
  <2>3. GiveBack(p, r) = AfterRelease(m, a, f, r.size)
    <3> DEFINE freed == AfterRelease(p, a, f, r.size)
               S == Span(r, t[r])
    <3>1. GiveBack(p, r) = [freed EXCEPT !.blocks = [i \in DOMAIN p.blocks |->
                   IF p.blocks[i].id = t[r].place.block
                   THEN [p.blocks[i] EXCEPT !.used = @ \ S] ELSE p.blocks[i]]]
      BY <1>9 DEF GiveBack, AfterRelease, Span
    <3>2. GiveBack(p, r) = [freed EXCEPT !.blocks = new]
      BY <3>1 DEF S, Vacated
    <3>3. [freed EXCEPT !.blocks = new] = AfterRelease(m, a, f, r.size)
      BY <1>1, Zenon DEF AfterRelease, PoolType, WithBlocks
    <3> QED
      BY <3>2, <3>3, Zenon
  <2> HIDE DEF new
  <2>4. /\ m \in PoolType /\ m.blocks = new /\ m.primary_allocated = p.primary_allocated
        /\ m.special = p.special /\ m.special_allocated = p.special_allocated
        /\ m.used = p.used /\ m.reserved = p.reserved /\ m.forced_used = p.forced_used
    <3> DEFINE bytes == p.primary_allocated
    <3>1. m = WithBlocks(p, new, bytes) /\ p \in PoolType
      BY <1>1, Zenon
    <3>2. new \in Seq(Block) /\ bytes \in Int
      BY <1>1, <2>2, PoolFields, Zenon DEF Numbered
    <3> HIDE DEF m, bytes
    <3>3. /\ m \in PoolType /\ m.blocks = new /\ m.primary_allocated = bytes
          /\ m.special = p.special /\ m.special_allocated = p.special_allocated
          /\ m.used = p.used /\ m.reserved = p.reserved /\ m.forced_used = p.forced_used
      BY <3>1, <3>2, TrimmedBlocks, SMTT(20)
    <3> QED
      BY <3>3, Zenon DEF bytes
  <2> HIDE DEF m
  <2>5. Holding(m, p, u)
    BY <1>1, <1>4, <2>2, <2>4, Zenon DEF Holding
  <2> QED
    BY <1>6, <1>9, <2>3, <2>5, Zenon
<1> QED
  BY <1>2, <1>5, <1>7, <1>8, <1>9 DEF Area

\* s_default_pool_add_special_size keeps the books.
LEMMA AddSpecialBooks ==
    ASSUME NEW p, NEW t, Books(p, t), NEW n \in Nat, n \notin DOMAIN p.special
    PROVE  Books([p EXCEPT !.special = [k \in DOMAIN @ \cup {n} |-> IF k = n THEN {} ELSE @[k]]], t)
<1> DEFINE lists == p.special
           l == [k \in DOMAIN lists \cup {n} |-> IF k = n THEN {} ELSE lists[k]]
           q == [p EXCEPT !.special = [k \in DOMAIN @ \cup {n} |-> IF k = n THEN {} ELSE @[k]]]
           bytes == p.special_allocated
<1>1. /\ p \in PoolType /\ Shelves(lists) /\ InLists(lists, t) /\ bytes = SpecialBytes(lists)
  BY Zenon DEF Books
<1>2. Shelves(l) /\ SpecialBytes(l) = SpecialBytes(lists)
  BY <1>1, BytesAdd
<1>3. DOMAIN l = DOMAIN lists \cup {n} /\ \A k \in DOMAIN lists : l[k] = lists[k]
  BY Zenon
<1>4. q = WithLists(p, l, bytes)
  BY Zenon DEF PoolType, WithLists
<1> HIDE DEF l, q
<1>5. InLists(l, t)
  BY <1>1, <1>3, Zenon DEF InLists
<1>6. /\ q \in PoolType /\ q.special = l /\ q.special_allocated = bytes
      /\ q.blocks = p.blocks /\ q.primary_allocated = p.primary_allocated
      /\ q.used = p.used /\ q.reserved = p.reserved /\ q.forced_used = p.forced_used
  <2>1. p \in PoolType /\ l \in Lists /\ bytes \in Int
    BY <1>1, <1>2, PoolFields, Zenon DEF Shelves
  <2> HIDE DEF bytes
  <2> QED
    BY <1>4, <2>1, TrimmedSpecial
<1>7. Books(q, t)
  BY <1>2, <1>5, <1>6, Zenon DEF Books
<1> QED
  BY <1>7 DEF q
-----------------------------------------------------------------------------
(***************************************************************************)
(* Serving the pending reservations.                                       *)
(***************************************************************************)
TurnOf(pl, tk, n, stuck) == [pool |-> pl, ticket |-> tk, served |-> n, stuck |-> stuck]

Serves(turn, p, t, queue) ==
    turn = [i \in 0..Len(queue) |->
              IF i = 0 THEN TurnOf(p, t, 0, FALSE) ELSE ServeNext(turn[i - 1], queue[i])]

LEMMA ServedIsAWalk ==
    ASSUME NEW p, NEW t, NEW queue \in Seq(Request)
    PROVE  \E turn : Serves(turn, p, t, queue) /\ ServePending(p, t, queue) = turn[Len(queue)]
<1> DEFINE n == Len(queue)
           start == [pool |-> p, ticket |-> t, served |-> 0, stuck |-> FALSE]
           Turn(s, i) == CHOOSE next \in {ServeNext(acc, queue[i]) : acc \in {s}} : TRUE
           Walks(g, m) == g = [i \in 0..m |-> IF i = 0 THEN start ELSE Turn(g[i - 1], i)]
           U == {m \in Nat : \E g : Walks(g, m)}
<1>1. n \in Nat
  OBVIOUS
<1>2. 0 \in U
  <2> DEFINE g == [i \in 0..0 |-> start]
  <2> HIDE DEF Turn, start
  <2>1. Walks(g, 0)
    OBVIOUS
  <2> QED
    BY <2>1, Zenon
<1>3. ASSUME NEW m \in U
      PROVE  m + 1 \in U
  <2> HIDE DEF Turn, start
  <2>1. m \in Nat
    OBVIOUS
  <2>2. PICK g : Walks(g, m)
    OBVIOUS
  <2> DEFINE last == Turn(g[m], m + 1)
             h == [i \in 0..(m + 1) |-> IF i = m + 1 THEN last ELSE g[i]]
  <2>3. h[m] = g[m] /\ \A i \in 1..m : h[i - 1] = g[i - 1]
    <3> HIDE DEF last
    <3> QED
      OBVIOUS
  <2>4. \A i \in 0..(m + 1) : h[i] = IF i = 0 THEN start ELSE Turn(h[i - 1], i)
    <3> SUFFICES ASSUME NEW i \in 0..(m + 1)
                 PROVE  h[i] = IF i = 0 THEN start ELSE Turn(h[i - 1], i)
      BY Zenon
    <3>1. CASE i = m + 1
      <4>1. h[i] = last /\ i # 0 /\ h[i - 1] = g[m]
        <5> HIDE DEF last
        <5> QED
          BY <2>3, <3>1
      <4> QED
        BY <3>1, <4>1
    <3>2. CASE i # m + 1
      <4>1. i \in 0..m /\ h[i] = g[i]
        <5> HIDE DEF last
        <5> QED
          BY <3>2
      <4>2. g[i] = IF i = 0 THEN start ELSE Turn(g[i - 1], i)
        BY <2>2, <4>1, Zenon
      <4>3. i # 0 => h[i - 1] = g[i - 1]
        BY <2>1, <2>3, <4>1
      <4> HIDE DEF h
      <4> QED
        BY <4>1, <4>2, <4>3, Zenon
    <3> QED
      BY <3>1, <3>2
  <2>5. h = [i \in 0..(m + 1) |-> h[i]]
    <3> HIDE DEF last
    <3> QED
      OBVIOUS
  <2> HIDE DEF h
  <2>6. Walks(h, m + 1)
    BY <2>4, <2>5, Zenon
  <2>7. m + 1 \in Nat
    BY SMTT(30)
  <2> QED
    BY <2>6, <2>7, Zenon
<1>4. n \in U
  <2> HIDE DEF U
  <2>1. \A i \in 0..n : i \in U
    BY <1>1, <1>2, <1>3, UpTo, Zenon
  <2>2. n \in 0..n
    OBVIOUS
  <2> QED
    BY <2>1, <2>2, Zenon
<1> DEFINE turn == CHOOSE g : Walks(g, n)
<1>5. Walks(turn, n)
  BY <1>4, Zenon
<1>6. ServePending(p, t, queue) = turn[n]
  BY Zenon DEF ServePending
<1>7. \A s, i : Turn(s, i) = ServeNext(s, queue[i])
  BY Zenon
<1> HIDE DEF turn, Turn
<1>8. turn = [i \in 0..n |-> IF i = 0 THEN start ELSE ServeNext(turn[i - 1], queue[i])]
  BY <1>5, <1>7, Zenon
<1> QED
  BY <1>6, <1>8, Zenon DEF TurnOf, Serves

\* The turn s has served the first s.served of the i reservations it has seen.
ServedTo(s, t, queue, i) ==
    /\ s = TurnOf(s.pool, s.ticket, s.served, s.stuck)
    /\ Books(s.pool, s.ticket) /\ s.stuck \in BOOLEAN /\ s.served \in 0..i
    /\ ~s.stuck => s.served = i
    /\ \A j \in 1..s.served : \E a \in Area : s.ticket[queue[j]] = ReservedTicket(a, FALSE)
    /\ \A x \in Request : (\A j \in 1..s.served : queue[j] # x) => s.ticket[x] = t[x]

LEMMA ServeOne ==
    ASSUME NEW t, NEW queue \in Seq(Request), IsInjective(queue), NEW i \in 1..Len(queue),
           t[queue[i]] = NoTicket, NEW s, ServedTo(s, t, queue, i - 1)
    PROVE  ServedTo(ServeNext(s, queue[i]), t, queue, i)
<1> DEFINE x == queue[i]
           attempt == TryReserve(s.pool, x.size)
           z == ServeNext(s, x)
           tk == Given(s.ticket, x, attempt.ticket)
<1>1. /\ s = TurnOf(s.pool, s.ticket, s.served, s.stuck)
      /\ Books(s.pool, s.ticket) /\ s.stuck \in BOOLEAN /\ s.served \in 0..(i - 1)
      /\ ~s.stuck => s.served = i - 1
      /\ \A j \in 1..s.served : \E a \in Area : s.ticket[queue[j]] = ReservedTicket(a, FALSE)
      /\ \A y \in Request : (\A j \in 1..s.served : queue[j] # y) => s.ticket[y] = t[y]
  BY Zenon DEF ServedTo
<1>2. Len(queue) \in Nat /\ i \in Int /\ x \in Request /\ DOMAIN queue = 1..Len(queue)
  OBVIOUS
<1>3. CASE s.stuck
  <2>1. z = s
    BY <1>3 DEF ServeNext
  <2>2. s.served \in 0..i
    BY <1>1, <1>2
  <2> HIDE DEF z
  <2>3. ServedTo(z, t, queue, i)
    BY <1>3, <2>1, <2>2, ZenonT(40) DEF ServedTo
  <2> QED
    BY <2>3 DEF z
<1>4. CASE ~s.stuck
  <2>1. \A j \in 1..(i - 1) : j \in 1..Len(queue) /\ j # i
    BY <1>2
  <2>2. \A j \in 1..(i - 1) : queue[j] # x
    BY <1>2, <2>1, Zenon DEF IsInjective
  <2>3. s.served = i - 1 /\ s.ticket[x] = NoTicket
    BY <1>1, <1>2, <1>4, <2>2, Zenon
  <2>4. /\ Books(attempt.pool, tk)
        /\ attempt.ok \in BOOLEAN
        /\ ~attempt.ok => attempt.ticket = NoTicket /\ Books(attempt.pool, s.ticket)
        /\ attempt.ok => \E a \in Area : attempt.ticket = ReservedTicket(a, FALSE)
    <3> DEFINE sp == s.pool
               st == s.ticket
    <3> HIDE DEF attempt, x
    <3>1. attempt = TryReserve(sp, x.size) /\ Books(sp, st) /\ x \in Request /\ st[x] = NoTicket
      BY <1>1, <1>2, <2>3, Zenon DEF attempt
    <3> HIDE DEF sp, st
    <3>2. Attempted(attempt, st, x)
      BY <3>1, TryReserveBooks, Zenon
    <3> QED
      BY <3>2, Zenon DEF st, Attempted
  <2> DEFINE pl == s.pool
             ot == s.ticket
             n == s.served
  <2>5. s = TurnOf(pl, ot, n, FALSE)
    BY <1>1, <1>4, Zenon
  <2>6. CASE ~attempt.ok
    <3> HIDE DEF attempt, pl, ot, n, x
    <3>1. z = TurnOf(attempt.pool, ot, n, TRUE)
      <4>1. z = [s EXCEPT !.pool = attempt.pool, !.stuck = TRUE]
        BY <1>4, <2>6, Zenon DEF attempt, ServeNext, pl
      <4> HIDE DEF z
      <4> QED
        BY <2>5, <4>1, Zenon DEF TurnOf
    <3> HIDE DEF z
    <3>2. z.pool = attempt.pool /\ z.ticket = ot /\ z.served = n /\ z.stuck = TRUE
          /\ z = TurnOf(z.pool, z.ticket, z.served, z.stuck)
      BY <3>1 DEF TurnOf
    <3>3. n \in 0..i
      BY <1>1, <1>2 DEF n
    <3>4. ServedTo(z, t, queue, i)
      BY <1>1, <2>4, <2>6, <3>2, <3>3, Zenon DEF ServedTo, ot, n
    <3> QED
      BY <3>4 DEF z, x
  <2>7. CASE attempt.ok
    <3> HIDE DEF attempt, pl, ot, n, x, tk
    <3>1. z = TurnOf(attempt.pool, tk, n + 1, FALSE)
      <4>1. z = [s EXCEPT !.pool = attempt.pool, !.ticket[x] = attempt.ticket, !.served = @ + 1]
        BY <1>4, <2>4, <2>7, Zenon DEF attempt, ServeNext, pl
      <4> HIDE DEF z
      <4>2. z = TurnOf(attempt.pool, Given(ot, x, attempt.ticket), n + 1, FALSE)
        BY <2>5, <4>1, Zenon DEF TurnOf, Given
      <4> QED
        BY <4>2, Zenon DEF tk, ot
    <3> HIDE DEF z
    <3>2. z.pool = attempt.pool /\ z.ticket = tk /\ z.served = n + 1 /\ z.stuck = FALSE
          /\ z = TurnOf(z.pool, z.ticket, z.served, z.stuck)
      BY <3>1 DEF TurnOf
    <3>3. n = i - 1 /\ n + 1 \in 0..i /\ n + 1 = i /\ \A j \in 1..i : j = i \/ j \in 1..(i - 1)
      BY <1>2, <2>3 DEF n
    <3>4. PICK a \in Area : attempt.ticket = ReservedTicket(a, FALSE)
      BY <2>4, <2>7, Zenon
    <3>5. tk[x] = attempt.ticket /\ \A y \in Request : y # x => tk[y] = ot[y]
      BY <1>1, <1>2, Zenon DEF Books, tk, Given, Tickets, ot
    <3>6. ASSUME NEW j \in 1..i
          PROVE  \E b \in Area : tk[queue[j]] = ReservedTicket(b, FALSE)
      <4>1. CASE j = i
        BY <3>4, <3>5, <4>1, Zenon DEF x
      <4>2. CASE j # i
        <5>1. j \in 1..(i - 1) /\ queue[j] # x
          BY <2>2, <3>3, <4>2, Zenon
        <5>2. queue[j] \in Request
          BY <1>2, <2>1, <5>1
        <5>3. \E b \in Area : ot[queue[j]] = ReservedTicket(b, FALSE)
          BY <1>1, <2>3, <5>1, Zenon DEF ot
        <5> QED
          BY <3>5, <5>1, <5>2, <5>3, Zenon
      <4> QED
        BY <4>1, <4>2, Zenon
    <3>7. ASSUME NEW y \in Request, \A j \in 1..i : queue[j] # y
          PROVE  tk[y] = t[y]
      <4>1. y # x /\ \A j \in 1..(i - 1) : queue[j] # y
        <5>1. i \in 1..i /\ \A j \in 1..(i - 1) : j \in 1..i
          BY <1>2
        <5> QED
          BY <3>7, <5>1, Zenon DEF x
      <4> QED
        BY <1>1, <2>3, <3>5, <4>1, Zenon DEF ot
    <3>8. ServedTo(z, t, queue, i)
      BY <2>4, <3>2, <3>3, <3>6, <3>7, Zenon DEF ServedTo
    <3> QED
      BY <3>8 DEF z, x
  <2> QED
    BY <2>4, <2>6, <2>7
<1> QED
  BY <1>3, <1>4

\* The second half of s_aws_ticket_wrapper_destroy: a prefix of the queue gets
\* tickets, nobody else's ticket changes.
LEMMA ServePendingBooks ==
    ASSUME NEW p, NEW t, Books(p, t), NEW queue \in Seq(Request), IsInjective(queue),
           \A i \in 1..Len(queue) : t[queue[i]] = NoTicket
    PROVE  ServedTo(ServePending(p, t, queue), t, queue, Len(queue))
<1> DEFINE n == Len(queue)
           start == TurnOf(p, t, 0, FALSE)
<1>0. PICK turn : Serves(turn, p, t, queue) /\ ServePending(p, t, queue) = turn[Len(queue)]
  BY ServedIsAWalk, Zenon
<1>1. /\ turn = [i \in 0..n |-> IF i = 0 THEN start ELSE ServeNext(turn[i - 1], queue[i])]
      /\ ServePending(p, t, queue) = turn[n]
  BY <1>0, Zenon DEF Serves
<1> DEFINE U == {i \in 0..n : ServedTo(turn[i], t, queue, i)}
<1>2. n \in Nat
  OBVIOUS
<1> HIDE DEF n, start
<1>3. 0 \in U
  <2>1. turn[0] = start /\ 0 \in 0..n
    BY <1>1, <1>2
  <2>2. start.pool = p /\ start.ticket = t /\ start.served = 0 /\ start.stuck = FALSE
        /\ start = TurnOf(start.pool, start.ticket, start.served, start.stuck)
    BY DEF start, TurnOf
  <2>3. 0 \in 0..0 /\ \A j \in 1..0 : FALSE
    OBVIOUS
  <2>4. ServedTo(start, t, queue, 0)
    BY <2>2, <2>3, Zenon DEF ServedTo
  <2> QED
    BY <2>1, <2>4, Zenon
<1>4. ASSUME NEW i \in 0..n, i < n /\ i \in U
      PROVE  i + 1 \in U
  <2>1. i + 1 \in 1..n /\ i + 1 \in 0..n /\ i \in Nat /\ (i + 1) - 1 = i /\ i + 1 # 0
    BY <1>2, <1>4
  <2>2. turn[i + 1] = ServeNext(turn[i], queue[i + 1])
    BY <1>1, <2>1, Zenon
  <2>3. ServedTo(turn[i], t, queue, (i + 1) - 1) /\ t[queue[i + 1]] = NoTicket /\ i + 1 \in 1..Len(queue)
    BY <1>4, <2>1, Zenon DEF n
  <2>4. ServedTo(ServeNext(turn[i], queue[i + 1]), t, queue, i + 1)
    BY <2>3, ServeOne, Zenon
  <2> QED
    BY <2>1, <2>2, <2>4, Zenon
<1>5. ServedTo(turn[n], t, queue, n)
  <2> HIDE DEF U
  <2>1. \A i \in 0..n : i \in U
    BY <1>2, <1>3, <1>4, UpTo, Zenon
  <2>2. n \in 0..n
    BY <1>2
  <2> QED
    BY <2>1, <2>2, Zenon DEF U
<1> QED
  BY <1>1, <1>5, Zenon DEF n

\* A queue is served up to its k-th entry.
Splits(s, k, d, e, S) ==
    /\ d \in Seq(S) /\ e \in Seq(S) /\ IsInjective(d) /\ IsInjective(e)
    /\ \A x : x \in Range(d) <=> \E j \in 1..k : s[j] = x
    /\ \A x \in Range(e) : x \in Range(s) /\ x \notin Range(d)
    /\ \A x \in Range(d) : x \in Range(s)
    /\ d = << >> <=> k = 0

LEMMA SplitSeq ==
    ASSUME NEW S, NEW s \in Seq(S), IsInjective(s), NEW k \in 0..Len(s)
    PROVE  Splits(s, k, SubSeq(s, 1, k), SubSeq(s, k + 1, Len(s)), S)
<1> DEFINE n == Len(s)
           d == SubSeq(s, 1, k)
           e == SubSeq(s, k + 1, Len(s))
<1>1. n \in Nat /\ DOMAIN s = 1..n /\ k \in Nat /\ k <= n
  OBVIOUS
<1>2. d \in Seq(S) /\ Len(d) = k /\ DOMAIN d = 1..k /\ \A i \in 1..k : d[i] = s[i]
  OBVIOUS
<1>3. e \in Seq(S) /\ Len(e) = n - k /\ DOMAIN e = 1..(n - k) /\ \A i \in 1..(n - k) : e[i] = s[k + i]
  OBVIOUS
<1> HIDE DEF n, d, e
<1>4. /\ \A i \in 1..k : i \in 1..n
      /\ \A i \in 1..(n - k) : k + i \in 1..n
      /\ \A i \in 1..k : \A j \in 1..(n - k) : i # k + j
      /\ \A i, j \in 1..(n - k) : k + i = k + j => i = j
  BY <1>1
<1>5. \A i, j \in 1..n : s[i] = s[j] => i = j
  BY <1>1, Zenon DEF IsInjective
<1>6. IsInjective(d)
  BY <1>2, <1>4, <1>5, Zenon DEF IsInjective
<1>7. IsInjective(e)
  BY <1>3, <1>4, <1>5, ZenonT(40) DEF IsInjective
<1>8. \A x : x \in Range(d) <=> \E j \in 1..k : s[j] = x
  BY <1>2, Zenon DEF Range
<1>9. \A x \in Range(d) : x \in Range(s)
  BY <1>1, <1>4, <1>8, Zenon DEF Range
<1>10. ASSUME NEW x \in Range(e)
       PROVE  x \in Range(s) /\ x \notin Range(d)
  <2>1. PICK i \in 1..(n - k) : x = s[k + i]
    BY <1>3, Zenon DEF Range
  <2>2. k + i \in 1..n /\ \A j \in 1..k : j \in 1..n /\ j # k + i
    BY <1>4, Zenon
  <2>3. x \in Range(s)
    BY <1>1, <2>1, <2>2, Zenon DEF Range
  <2>4. \A j \in 1..k : s[j] # s[k + i]
    BY <1>5, <2>2, Zenon
  <2> QED
    BY <1>8, <2>1, <2>3, <2>4, Zenon
<1>11. d = << >> <=> k = 0
  BY <1>1, <1>2
<1> QED
  BY <1>2, <1>3, <1>6, <1>7, <1>8, <1>9, <1>10, <1>11, Zenon DEF Splits, d, e

IsWaiting(v) == v.state = "reserved" /\ ~v.forced

\* What the destruction of r's ticket leaves: the reservations d have tickets,
\* and their futures are yet to be completed; the queue is what comes after.
Resumed(r, others, d) ==
    /\ d \in Seq(Request) /\ IsInjective(d)
    /\ pending_reserves' \in Seq(Request) /\ IsInjective(pending_reserves')
    /\ \A x \in Range(d) : /\ x \in Request /\ x \in Range(pending_reserves) /\ future[x] # "failed"
                           /\ IsWaiting(ticket'[x]) /\ x \notin Range(pending_reserves')
    /\ \A x \in Range(pending_reserves') : x \in Range(pending_reserves)
    /\ captured' = others \cup (IF d = << >> THEN {} ELSE {d})
    /\ ticket'[r] = NoTicket
    /\ \A x \in Request : x # r /\ x \notin Range(d) => ticket'[x] = ticket[x]

LEMMA Resumes ==
    ASSUME Books(pool, ticket), pending_reserves \in Seq(Request), IsInjective(pending_reserves),
           \A x \in Range(pending_reserves) : ticket[x] = NoTicket,
           NEW r \in Request, ticket[r].state \in {"reserved", "claimed"},
           ticket[r].state = "reserved" => ~ticket[r].forced,
           NEW others, DestroyAndResume(r, others)
    PROVE  Books(pool', ticket') /\ \E d : Resumed(r, others, d)
<1> DEFINE S == {x \in Request : future[x] # "failed"}
           live == KeepIn(pending_reserves, S)
           t == Given(ticket, r, NoTicket)
           p == GiveBack(pool, r)
           s == ServePending(p, t, live)
           d == SubSeq(live, 1, s.served)
           e == SubSeq(live, s.served + 1, Len(live))
<1>1. /\ pool' = s.pool /\ ticket' = s.ticket /\ pending_reserves' = e
      /\ captured' = others \cup (IF s.served = 0 THEN {} ELSE {d})
  <2> HIDE DEF S
  <2>1. \E result \in {ServePending(q, t, live) : q \in {p}} :
          /\ pool' = result.pool /\ ticket' = result.ticket
          /\ pending_reserves' = SubSeq(live, result.served + 1, Len(live))
          /\ captured' = others \cup (IF result.served = 0 THEN {} ELSE {SubSeq(live, 1, result.served)})
    BY Zenon DEF DestroyAndResume, Given, S
  <2> HIDE DEF p, t, live
  <2> QED
    BY <2>1, Zenon
<1>2. /\ live \in Seq(Request) /\ IsInjective(live)
      /\ \A x : x \in Range(live) <=> x \in Range(pending_reserves) /\ x \in S
  <2> HIDE DEF S
  <2>1. Range(live) = Range(pending_reserves) \cap S
    BY KeepEffect, Zenon
  <2>2. live \in Seq(Request) /\ IsInjective(live)
    BY KeepEffect, Zenon
  <2> QED
    BY <2>1, <2>2, Zenon
<1>3. Books(p, t)
  BY GiveBackBooks, Zenon
<1>4. t[r] = NoTicket /\ \A x \in Request : x # r => t[x] = ticket[x]
  <2>1. ticket \in Tickets
    BY Zenon DEF Books
  <2> QED
    BY <2>1 DEF Tickets, Given
<1> HIDE DEF p, t, live
<1>5. \A i \in 1..Len(live) : t[live[i]] = NoTicket
  <2> TAKE i \in 1..Len(live)
  <2>1. live[i] \in Range(live) /\ live[i] \in Request
    BY <1>2 DEF Range
  <2>2. ticket[live[i]] = NoTicket
    BY <1>2, <2>1, Zenon
  <2> QED
    BY <1>4, <2>1, <2>2, Zenon
<1>6. ServedTo(s, t, live, Len(live))
  BY <1>2, <1>3, <1>5, ServePendingBooks, Zenon
<1> HIDE DEF s
<1>7. /\ Books(s.pool, s.ticket) /\ s.served \in 0..Len(live)
      /\ \A j \in 1..s.served : \E a \in Area : s.ticket[live[j]] = ReservedTicket(a, FALSE)
      /\ \A x \in Request : (\A j \in 1..s.served : live[j] # x) => s.ticket[x] = t[x]
  BY <1>6, Zenon DEF ServedTo
<1>8. /\ d \in Seq(Request) /\ e \in Seq(Request) /\ IsInjective(d) /\ IsInjective(e)
      /\ \A x : x \in Range(d) <=> \E j \in 1..s.served : live[j] = x
      /\ \A x \in Range(e) : x \in Range(live) /\ x \notin Range(d)
      /\ \A x \in Range(d) : x \in Range(live)
      /\ d = << >> <=> s.served = 0
  <2> DEFINE k == s.served
  <2>1. live \in Seq(Request) /\ IsInjective(live) /\ k \in 0..Len(live)
    BY <1>2, <1>7, Zenon
  <2> HIDE DEF k
  <2>2. Splits(live, k, SubSeq(live, 1, k), SubSeq(live, k + 1, Len(live)), Request)
    BY <2>1, SplitSeq, Zenon
  <2> QED
    BY <2>2, Zenon DEF k, Splits
<1> HIDE DEF d, e
<1>9. \A x \in Range(d) : IsWaiting(s.ticket[x])
  <2> TAKE x \in Range(d)
  <2>1. PICK j \in 1..s.served : live[j] = x
    BY <1>8, Zenon
  <2>2. PICK a \in Area : s.ticket[live[j]] = ReservedTicket(a, FALSE)
    BY <1>7, Zenon
  <2> QED
    BY <2>1, <2>2 DEF ReservedTicket, IsWaiting
<1>10. r \notin Range(d)
  <2>1. ticket[r] # NoTicket
    BY DEF NoTicket
  <2> QED
    BY <1>2, <1>8, <2>1, Zenon
<1>11. /\ s.ticket[r] = NoTicket
       /\ \A x \in Request : x # r /\ x \notin Range(d) => s.ticket[x] = ticket[x]
  BY <1>4, <1>7, <1>8, <1>10, Zenon
<1>12. captured' = others \cup (IF d = << >> THEN {} ELSE {d})
  BY <1>1, <1>8, Zenon
<1>13. \A x \in Range(d) : x \in Request /\ x \in Range(pending_reserves) /\ future[x] # "failed"
                           /\ x \notin Range(e)
  BY <1>2, <1>8, Zenon
<1>14. Resumed(r, others, d)
  BY <1>1, <1>2, <1>8, <1>9, <1>11, <1>12, <1>13, Zenon DEF Resumed
<1> QED
  BY <1>1, <1>7, <1>14, Zenon
=============================================================================
