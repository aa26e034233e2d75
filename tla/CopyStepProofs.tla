--------------------------- MODULE CopyStepProofs ---------------------------
(***************************************************************************)
(* The inductive invariant of CopyObject and what a step of a request, or  *)
(* of s_s3_copy_object_update, does to it; CopyObjectProofs composes these *)
(* steps.                                                                  *)
(*                                                                         *)
(* StopInv: after a stop there is a result, so that no stream opens.       *)
(* QuietInv: the flags and the two part counters of the copy agree with    *)
(* the requests in flight. FlightInv, MessageInv: how far each request is, *)
(* and that its message is the one prepared for it. PlanInv: the flags,    *)
(* the upload id, the ETags and the split into parts agree. ServiceInv:    *)
(* what the service holds is what was asked of it. ProgressInv: the        *)
(* progress reported and still queued is that of the parts copied; sums    *)
(* are reasoned about by induction. CleanInv: a copy that met no failure   *)
(* is on its way to success.                                               *)
(***************************************************************************)
EXTENDS CopyObject, FiniteSetTheorems, WellFoundedInduction, TLAPS

RequestType ==
    [type : {"head", "copy", "create", "part", "complete", "abort"}, always_send : BOOLEAN,
     stage : Stages, prepared : Int, retries : Int, connection : BOOLEAN, told : BOOLEAN,
     code : Errors \cup {"ok"}]

\* The requests in flight are records of their type, and a stop has set a
\* result: send_request finds it under the lock.
StopInv ==
    /\ req \in [DOMAIN req -> RequestType]
    /\ stop_called \in BOOLEAN
    /\ stop_called => HasResult
    /\ StoppedStreamsTold

CopyType ==
    [head : {"none", "sent", "done"}, bypass : {"none", "sent", "done"},
     create : {"none", "sent", "done"}, complete : {"none", "sent", "done"},
     abort : {"none", "sent", "done"}, complete_error : Errors \cup {"ok"},
     upload_id : BOOLEAN, content_length : Nat, part_size : Nat, total_num_parts : Nat,
     num_parts_sent : Nat, num_parts_completed : Nat, etags : SUBSET Nat]

\* The parts among the requests in D, of those handed out.
PartsIn(D, sent) == {n \in 1..sent : PartReq(n) \in D}

\* What is in flight was handed out, and not finished since.
FlagsInv ==
    /\ DOMAIN req \subseteq {Req(tag) : tag \in Tags}
                            \cup {PartReq(n) : n \in 1..copy.num_parts_sent}
    /\ Req("head") \in DOMAIN req => copy.head = "sent"
    /\ Req("bypass") \in DOMAIN req => copy.bypass = "sent"
    /\ Req("create") \in DOMAIN req => copy.create = "sent"
    /\ Req("complete") \in DOMAIN req => copy.complete = "sent"
    /\ Req("abort") \in DOMAIN req => copy.abort = "sent"

\* num_parts_completed counts the parts that came back, whatever their end.
PartsInv ==
    copy.num_parts_completed + Cardinality(PartsIn(DOMAIN req, copy.num_parts_sent))
        = copy.num_parts_sent

\* The order in which update() hands the requests out.
OrderInv ==
    /\ copy.bypass # "none" => copy.head = "done" /\ Small
    /\ copy.create # "none" => copy.head = "done" /\ ~Small
    /\ copy.num_parts_sent <= copy.total_num_parts
    /\ copy.num_parts_sent > 0 => copy.create = "done"
    /\ copy.complete # "none" => /\ copy.create = "done" /\ ~PartsLeft
                                /\ copy.num_parts_completed = copy.num_parts_sent
    /\ copy.abort # "none" => HasResult /\ WoundDown /\ ~CompleteSucceeded /\ copy.upload_id

QuietInv ==
    /\ copy \in CopyType /\ source \in Nat /\ meta_finished \in BOOLEAN
    /\ FlagsInv /\ PartsInv /\ OrderInv
    /\ meta_finished => HasResult
    /\ FinishIsQuiet

\* The fields of the copy but for one flag, which becomes "sent".
Sent(tag) ==
    /\ copy' \in CopyType
    /\ copy'.head = IF tag = "head" THEN "sent" ELSE copy.head
    /\ copy'.bypass = IF tag = "bypass" THEN "sent" ELSE copy.bypass
    /\ copy'.create = IF tag = "create" THEN "sent" ELSE copy.create
    /\ copy'.complete = IF tag = "complete" THEN "sent" ELSE copy.complete
    /\ copy'.abort = IF tag = "abort" THEN "sent" ELSE copy.abort
    /\ copy'.complete_error = copy.complete_error /\ copy'.upload_id = copy.upload_id
    /\ copy'.content_length = copy.content_length /\ copy'.part_size = copy.part_size
    /\ copy'.total_num_parts = copy.total_num_parts /\ copy'.etags = copy.etags
    /\ copy'.num_parts_sent = copy.num_parts_sent
    /\ copy'.num_parts_completed = copy.num_parts_completed
-----------------------------------------------------------------------------
LEMMA PartsInFinite ==
    ASSUME NEW D, NEW sent \in Nat
    PROVE  /\ IsFiniteSet(PartsIn(D, sent))
           /\ Cardinality(PartsIn(D, sent)) \in Nat
           /\ Cardinality(PartsIn(D, sent)) = 0 <=> PartsIn(D, sent) = {}
<1>1. IsFiniteSet(1..sent)
  BY FS_Interval
<1>2. PartsIn(D, sent) \subseteq 1..sent
  BY DEF PartsIn
<1>3. IsFiniteSet(PartsIn(D, sent))
  BY <1>1, <1>2, FS_Subset
<1> QED
  BY <1>3, FS_CardinalityType, FS_EmptySet

\* With every part back there is none in flight.
LEMMA NoPartInFlight ==
    ASSUME QuietInv, copy.num_parts_completed >= copy.num_parts_sent
    PROVE  \A n \in 1..copy.num_parts_sent : PartReq(n) \notin DOMAIN req
<1> DEFINE P == PartsIn(DOMAIN req, copy.num_parts_sent)
<1>1. copy.num_parts_sent \in Nat /\ copy.num_parts_completed \in Nat
  BY DEF QuietInv, CopyType
<1>2. Cardinality(P) \in Nat /\ (Cardinality(P) = 0 <=> P = {})
  BY <1>1, PartsInFinite
<1>3. copy.num_parts_completed + Cardinality(P) = copy.num_parts_sent
  BY DEF QuietInv, PartsInv
<1> HIDE DEF P
<1>4. P = {}
  BY <1>1, <1>2, <1>3
<1> QED
  BY <1>4 DEF P, PartsIn

\* aws_s3_calculate_optimal_mpu_part_size_and_num_parts
LEMMA CeilDivType ==
    ASSUME NEW a \in Nat, NEW b \in Nat \ {0}
    PROVE  CeilDiv(a, b) \in Nat
BY DEF CeilDiv

LEMMA PartSizeType ==
    ASSUME copy.content_length \in Nat
    PROVE  PartSize \in Nat /\ NumCopyParts \in Nat
<1> DEFINE length == copy.content_length
           needed == CeilDiv(length, MaxParts)
<1>1. MinPartSize \in Nat \ {0} /\ MaxParts \in Nat \ {0}
  BY CopyAssumption
<1>2. needed \in Nat
  BY <1>1, CeilDivType
<1>3. PartSize = IF length = 0 THEN 0
                 ELSE AtMost(length, IF needed < MinPartSize THEN MinPartSize ELSE needed)
  BY DEF PartSize, MpuPartSize
<1> HIDE DEF needed
<1>4. PartSize \in Nat /\ (length # 0 => PartSize # 0)
  BY <1>1, <1>2, <1>3 DEF AtMost
<1>5. NumCopyParts = IF length = 0 THEN 0 ELSE CeilDiv(length, PartSize)
  BY DEF NumCopyParts, MpuNumParts, PartSize
<1> QED
  BY <1>4, <1>5, CeilDivType

\* The no_work_remaining branch of s_s3_copy_object_update finds nothing of
\* the multipart copy in flight.
LEMMA QuietFinish ==
    ASSUME QuietInv, UpdateFinish
    PROVE  QuietInv'
<1>1. UNCHANGED <<req, copy, source>> /\ meta_finished' = TRUE /\ HasResult'
  BY DEF UpdateFinish, SetResult, HasResult
<1>2. copy \in CopyType
  BY DEF QuietInv
<1>3. copy.create # "sent" /\ copy.complete # "sent" /\ copy.abort # "sent"
  <2>1. CASE ~HasResult
    BY <1>2, <2>1 DEF QuietInv, OrderInv, UpdateFinish, NoWorkRemaining, CopyType
  <2>2. CASE HasResult
    BY <1>2, <2>2 DEF QuietInv, OrderInv, UpdateFinish, NoWorkRemaining, WoundDown, CopyType
  <2> QED
    BY <2>1, <2>2
<1>4. copy.num_parts_completed >= copy.num_parts_sent
  <2>1. copy.num_parts_sent \in Nat /\ copy.num_parts_completed \in Nat
    BY <1>2 DEF CopyType
  <2>2. CASE ~HasResult
    BY <2>1, <2>2 DEF QuietInv, OrderInv, UpdateFinish, NoWorkRemaining
  <2>3. CASE HasResult
    BY <2>1, <2>3 DEF QuietInv, OrderInv, UpdateFinish, NoWorkRemaining, WoundDown
  <2> QED
    BY <2>2, <2>3
<1>5. \A m \in 1..copy.num_parts_sent : PartReq(m) \notin DOMAIN req
  BY <1>4, NoPartInFlight
<1>6. DOMAIN req \subseteq {Req("head"), Req("bypass")}
  BY <1>3, <1>5 DEF QuietInv, FlagsInv, Tags
<1>7. FlagsInv' /\ PartsInv'
  BY <1>1 DEF QuietInv, FlagsInv, PartsInv
<1>8. OrderInv'
  BY <1>1 DEF QuietInv, OrderInv, Small, PartsLeft, WoundDown, CompleteSucceeded
<1> QED
  BY <1>1, <1>6, <1>7, <1>8 DEF QuietInv, FinishIsQuiet

\* The abort is handed out with everything else back, and FlagsInv and PartsInv
\* turn that into requests.
LEMMA QuietAbort ==
    ASSUME QuietInv
    PROVE  AbortIsAlone
<1> SUFFICES ASSUME Req("abort") \in DOMAIN req
             PROVE  DOMAIN req = {Req("abort")}
  BY DEF AbortIsAlone
<1>1. copy.abort = "sent" /\ WoundDown
  BY DEF QuietInv, FlagsInv, OrderInv
<1>2. copy.head = "done" /\ copy.bypass = "none" /\ copy.create = "done" /\ copy.complete # "sent"
  BY <1>1 DEF QuietInv, OrderInv, WoundDown
<1>3. \A n \in 1..copy.num_parts_sent : PartReq(n) \notin DOMAIN req
  BY <1>1, NoPartInFlight DEF WoundDown
<1> QED
  BY <1>2, <1>3 DEF QuietInv, FlagsInv, Tags
-----------------------------------------------------------------------------
(***************************************************************************)
(* Sums over finite sets, by induction over their size.  SumFunction of    *)
(* the library folds in an order the definition leaves open.               *)
(***************************************************************************)
LEMMA Least ==
    ASSUME NEW T \in SUBSET Nat, T # {}
    PROVE  \E x \in T : \A y \in T : x <= y
<1> DEFINE R == {ss \in Nat \X Nat : ss[1] < ss[2]}
<1>1. IsWellFoundedOn(R, Nat)
  BY NatLessThanWellFounded DEF OpToRel
<1>2. PICK x \in T : \A y \in T : <<y, x>> \notin R
  <2> HIDE DEF R
  <2> QED
    BY <1>1, WFMin, Zenon
<1>3. \A y \in T : ~(y < x)
  BY <1>2, Zenon
<1> QED
  BY <1>3

LEMMA SetInduction ==
    ASSUME NEW T \in SUBSET Nat, 0 \in T, \A n \in T : n + 1 \in T
    PROVE  T = Nat
<1> DEFINE U == Nat \ T
<1> SUFFICES ASSUME U # {}
             PROVE  FALSE
  BY Zenon
<1>1. PICK x \in U : \A y \in U : x <= y
  <2> HIDE DEF U
  <2>1. U \in SUBSET Nat
    BY DEF U
  <2> QED
    BY <2>1, Least
<1>2. x - 1 \in T
  BY <1>1
<1> QED
  BY <1>2

Pick(s) == CHOOSE x \in s : TRUE

\* A sum over the subsets of S, as the fold of the library unrolls it.
Unrolls(f, g, S) ==
    \A s \in SUBSET S : f[s] = IF s = {} THEN 0 ELSE g[Pick(s)] + f[s \ {Pick(s)}]
IsSum(f, g, S) == f \in [SUBSET S -> Nat] /\ Unrolls(f, g, S)

LEMMA SubsetSize ==
    ASSUME NEW S, IsFiniteSet(S), NEW s \in SUBSET S
    PROVE  /\ IsFiniteSet(s) /\ Cardinality(s) \in Nat
           /\ Cardinality(s) = 0 <=> s = {}
<1>1. IsFiniteSet(s)
  BY FS_Subset
<1> QED
  BY <1>1, FS_EmptySet, FS_CardinalityType

LEMMA SmallerSet ==
    ASSUME NEW S, IsFiniteSet(S), NEW s \in SUBSET S, s # {}, NEW x \in s
    PROVE  /\ s \ {x} \in SUBSET S
           /\ Cardinality(s) \in Nat /\ Cardinality(s \ {x}) \in Nat
           /\ Cardinality(s) = Cardinality(s \ {x}) + 1
<1>1. IsFiniteSet(s)
  BY FS_Subset
<1>2. Cardinality(s) \in Nat /\ Cardinality(s \ {x}) = Cardinality(s) - 1 /\ IsFiniteSet(s \ {x})
  BY <1>1, FS_RemoveElement, FS_CardinalityType
<1> QED
  BY <1>2, FS_CardinalityType

LEMMA SumExists ==
    ASSUME NEW S, IsFiniteSet(S), NEW g \in [S -> Nat]
    PROVE  \E f : IsSum(f, g, S)
<1> DEFINE Upto(n) == {s \in SUBSET S : Cardinality(s) <= n}
           Partial(f, n) ==
             /\ f \in [Upto(n) -> Nat]
             /\ \A s \in Upto(n) : f[s] = IF s = {} THEN 0 ELSE g[Pick(s)] + f[s \ {Pick(s)}]
           T == {n \in Nat : \E f : Partial(f, n)}
<1>1. ASSUME NEW s \in SUBSET S, s # {}
      PROVE  /\ Pick(s) \in s /\ g[Pick(s)] \in Nat /\ s \ {Pick(s)} \in SUBSET S
             /\ Cardinality(s) \in Nat /\ Cardinality(s \ {Pick(s)}) \in Nat
             /\ Cardinality(s) = Cardinality(s \ {Pick(s)}) + 1
  <2>1. Pick(s) \in s
    BY <1>1 DEF Pick
  <2> QED
    BY SMTT(20), <1>1, <2>1, SmallerSet
<1>2. Cardinality({}) = 0
  BY FS_EmptySet
<1>3. 0 \in T
  <2> DEFINE f == [s \in Upto(0) |-> 0]
  <2>1. \A s \in Upto(0) : s = {}
    <3> TAKE s \in Upto(0)
    <3> QED
      BY SubsetSize
  <2>2. Partial(f, 0)
    BY <2>1
  <2> HIDE DEF f, Partial
  <2> QED
    BY <2>2
<1>4. ASSUME NEW n \in T
      PROVE  n + 1 \in T
  <2>1. n \in Nat
    OBVIOUS
  <2>2. PICK f : Partial(f, n)
    BY Zenon
  <2> DEFINE h == [s \in Upto(n + 1) |->
                     IF s = {} THEN 0 ELSE g[Pick(s)] + f[s \ {Pick(s)}]]
  <2>3. \A s \in Upto(n + 1) : s # {} => s \ {Pick(s)} \in Upto(n)
    BY <1>1, <2>1
  <2>4. ASSUME NEW s \in Upto(n)
        PROVE  s \in Upto(n + 1) /\ h[s] = f[s]
    <3>1. s \in Upto(n + 1)
      <4>1. s \in SUBSET S /\ Cardinality(s) \in Nat /\ Cardinality(s) <= n
        BY SubsetSize
      <4> QED
        BY <2>1, <4>1
    <3> QED
      BY <2>2, <3>1
  <2>5. h \in [Upto(n + 1) -> Nat]
    <3>1. \A s \in Upto(n) : f[s] \in Nat
      BY <2>2
    <3> QED
      BY <1>1, <2>3, <3>1
  <2>6. \A s \in Upto(n + 1) : h[s] = IF s = {} THEN 0 ELSE g[Pick(s)] + h[s \ {Pick(s)}]
    BY <2>3, <2>4, Zenon
  <2>7. Partial(h, n + 1)
    BY <2>5, <2>6, Zenon
  <2> HIDE DEF h, Partial
  <2> QED
    BY <2>1, <2>7
<1>5. T = Nat
  <2> HIDE DEF T
  <2>1. T \in SUBSET Nat
    BY DEF T
  <2> QED
    BY <1>3, <1>4, <2>1, SetInduction
<1> DEFINE N == Cardinality(S)
<1>6. N \in Nat /\ \A s \in SUBSET S : Cardinality(s) <= N
  BY FS_CardinalityType, FS_Subset
<1>7. Upto(N) = SUBSET S
  BY <1>6
<1>8. PICK f : Partial(f, N)
  BY <1>5, <1>6, Zenon
<1>9. IsSum(f, g, S)
  BY <1>7, <1>8 DEF IsSum, Unrolls
<1> QED
  BY <1>9

\* Two such sums agree where their summands do.
LEMMA SumUnique ==
    ASSUME NEW S, IsFiniteSet(S), NEW A, NEW B, S \subseteq A, S \subseteq B,
           NEW e, NEW f, NEW g, NEW h, Unrolls(e, g, A), Unrolls(f, h, B),
           \A x \in S : g[x] = h[x]
    PROVE  e[S] = f[S]
<1> DEFINE T == {n \in Nat : \A s \in SUBSET S : Cardinality(s) = n => e[s] = f[s]}
<1>1. ASSUME NEW s \in SUBSET S, s # {}
      PROVE  /\ Pick(s) \in s /\ s \ {Pick(s)} \in SUBSET S
             /\ Cardinality(s) \in Nat /\ Cardinality(s \ {Pick(s)}) \in Nat
             /\ Cardinality(s) = Cardinality(s \ {Pick(s)}) + 1
  <2>1. Pick(s) \in s
    BY <1>1 DEF Pick
  <2> QED
    BY <1>1, <2>1, SmallerSet
<1>2. \A s \in SUBSET S : s \in SUBSET A /\ s \in SUBSET B
  OBVIOUS
<1>3. 0 \in T
  <2> SUFFICES ASSUME NEW s \in SUBSET S, Cardinality(s) = 0
               PROVE  e[s] = f[s]
    OBVIOUS
  <2>1. s = {}
    BY SubsetSize
  <2> QED
    BY <1>2, <2>1 DEF Unrolls
<1>4. ASSUME NEW n \in T
      PROVE  n + 1 \in T
  <2> SUFFICES ASSUME NEW s \in SUBSET S, Cardinality(s) = n + 1
               PROVE  e[s] = f[s]
    OBVIOUS
  <2>1. s # {}
    BY SubsetSize
  <2> DEFINE x == Pick(s)
  <2>2. x \in S /\ s \ {x} \in SUBSET S /\ Cardinality(s \ {x}) = n
    BY <1>1, <2>1
  <2>3. e[s \ {x}] = f[s \ {x}]
    BY <2>2
  <2>4. e[s] = g[x] + e[s \ {x}] /\ f[s] = h[x] + f[s \ {x}]
    BY <1>2, <2>1 DEF Unrolls
  <2> QED
    BY <2>2, <2>3, <2>4
<1>5. T = Nat
  <2> HIDE DEF T
  <2>1. T \in SUBSET Nat
    BY DEF T
  <2> QED
    BY <1>3, <1>4, <2>1, SetInduction
<1>6. Cardinality(S) \in Nat
  BY FS_CardinalityType
<1> QED
  BY <1>5, <1>6

LEMMA SumIsFold ==
    ASSUME NEW S, IsFiniteSet(S), NEW g \in [S -> Nat]
    PROVE  \E f : IsSum(f, g, S) /\ SumFunctionOnSet(g, S) = f[S]
<1> DEFINE F(f) == [s \in SUBSET S |-> IF s = {} THEN 0 ELSE g[Pick(s)] + f[s \ {Pick(s)}]]
           iter == CHOOSE f : f = F(f)
<1>1. SumFunctionOnSet(g, S) = iter[S]
  BY DEF SumFunctionOnSet, FoldFunctionOnSet, MapThenFoldSet, Pick
<1>2. PICK f : IsSum(f, g, S)
  BY SumExists
<1>3. f = F(f)
  BY <1>2, Zenon DEF IsSum, Unrolls
<1>4. iter = F(iter)
  <2> HIDE DEF F
  <2> QED
    BY <1>3, Zenon
<1>5. Unrolls(iter, g, S)
  <2> HIDE DEF iter
  <2> QED
    BY <1>4, Zenon DEF Unrolls
<1>6. ASSUME NEW s \in SUBSET S
      PROVE  iter[s] = f[s]
  <2>1. IsFiniteSet(s) /\ s \subseteq S
    BY FS_Subset
  <2> HIDE DEF iter
  <2> QED
    BY <1>2, <1>5, <2>1, SumUnique DEF IsSum
<1>7. iter \in [SUBSET S -> Nat]
  <2>1. \A s \in SUBSET S : iter[s] \in Nat
    BY <1>2, <1>6, Zenon DEF IsSum
  <2>2. iter = [s \in SUBSET S |-> iter[s]]
    BY <1>4, Zenon
  <2> HIDE DEF iter
  <2> QED
    BY <2>1, <2>2, Zenon
<1> QED
  BY <1>1, <1>5, <1>7, Zenon DEF IsSum

\* The sum does not depend on the order in which the library folds.
LEMMA SumAnyOrder ==
    ASSUME NEW S, IsFiniteSet(S), NEW g \in [S -> Nat], NEW f, IsSum(f, g, S), NEW x \in S
    PROVE  f[S] = g[x] + f[S \ {x}]
<1> DEFINE T == {n \in Nat : \A s \in SUBSET S : Cardinality(s) = n =>
                                \A y \in s : f[s] = g[y] + f[s \ {y}]}
<1>1. 0 \in T
  <2> SUFFICES ASSUME NEW s \in SUBSET S, Cardinality(s) = 0
               PROVE  s = {}
    OBVIOUS
  <2> QED
    BY SubsetSize
<1>2. ASSUME NEW n \in T
      PROVE  n + 1 \in T
  <2> SUFFICES ASSUME NEW s \in SUBSET S, Cardinality(s) = n + 1, NEW y \in s
               PROVE  f[s] = g[y] + f[s \ {y}]
    OBVIOUS
  <2> DEFINE p == Pick(s)
             rest == (s \ {y}) \ {p}
  <2>1. p \in s
    BY DEF Pick
  <2>2. f[s] = g[p] + f[s \ {p}]
    BY DEF IsSum, Unrolls
  <2>3. CASE p = y
    BY <2>2, <2>3
  <2>4. CASE p # y
    <3>1. Cardinality(s \ {p}) = n /\ Cardinality(s \ {y}) = n
      BY <2>1, SmallerSet
    <3>2. rest = (s \ {p}) \ {y} /\ y \in s \ {p} /\ p \in s \ {y}
      BY <2>1, <2>4
    <3>3. f[s \ {p}] = g[y] + f[rest]
      BY <3>1, <3>2
    <3>4. f[s \ {y}] = g[p] + f[rest]
      BY <3>1, <3>2
    <3>5. g[y] \in Nat /\ g[p] \in Nat /\ f[rest] \in Nat
      BY <2>1 DEF IsSum
    <3> QED
      BY <2>2, <3>3, <3>4, <3>5
  <2> QED
    BY <2>3, <2>4
<1>3. T = Nat
  <2> HIDE DEF T
  <2>1. T \in SUBSET Nat
    BY DEF T
  <2> QED
    BY <1>1, <1>2, <2>1, SetInduction
<1>4. Cardinality(S) \in Nat
  BY FS_CardinalityType
<1> QED
  BY <1>3, <1>4

\* What a sum of the library is, without the order of its fold.
LEMMA SumNone ==
    ASSUME NEW g \in [{} -> Nat]
    PROVE  SumFunction(g) = 0
<1>1. PICK f : IsSum(f, g, {}) /\ SumFunctionOnSet(g, {}) = f[{}]
  BY SumIsFold, FS_EmptySet, Zenon
<1>2. f[{}] = 0
  BY <1>1, Zenon DEF IsSum, Unrolls
<1> QED
  BY <1>1, <1>2 DEF SumFunction

LEMMA SumType ==
    ASSUME NEW S, IsFiniteSet(S), NEW g \in [S -> Nat]
    PROVE  SumFunction(g) \in Nat
<1>1. PICK f : IsSum(f, g, S) /\ SumFunctionOnSet(g, S) = f[S]
  BY SumIsFold
<1> QED
  BY <1>1 DEF SumFunction, IsSum

LEMMA SumOneMore ==
    ASSUME NEW S, IsFiniteSet(S), NEW x, x \notin S,
           NEW g \in [S -> Nat], NEW h \in [S \cup {x} -> Nat],
           \A y \in S : h[y] = g[y]
    PROVE  SumFunction(h) = SumFunction(g) + h[x]
<1>1. IsFiniteSet(S \cup {x})
  BY FS_AddElement
<1>2. PICK f : IsSum(f, h, S \cup {x}) /\ SumFunctionOnSet(h, S \cup {x}) = f[S \cup {x}]
  BY <1>1, SumIsFold
<1>3. PICK e : IsSum(e, g, S) /\ SumFunctionOnSet(g, S) = e[S]
  BY SumIsFold
<1>4. f[S \cup {x}] = h[x] + f[(S \cup {x}) \ {x}]
  BY <1>1, <1>2, SumAnyOrder
<1>5. (S \cup {x}) \ {x} = S
  OBVIOUS
<1>6. f[S] = e[S]
  BY <1>2, <1>3, SumUnique DEF IsSum
<1>7. f[S] \in Nat /\ h[x] \in Nat
  BY <1>2 DEF IsSum
<1>8. SumFunction(h) = f[S \cup {x}] /\ SumFunction(g) = e[S]
  BY <1>2, <1>3 DEF SumFunction
<1>9. f[(S \cup {x}) \ {x}] = e[S]
  BY <1>5, <1>6
<1> QED
  BY <1>4, <1>6, <1>7, <1>8, <1>9

LEMMA SumAppend ==
    ASSUME NEW e \in Seq(Nat), NEW x \in Nat
    PROVE  SumFunction(Append(e, x)) = SumFunction(e) + x
<1> DEFINE n == Len(e)
           D == 1..n
           h == Append(e, x)
<1>1. n \in Nat /\ e \in [D -> Nat] /\ IsFiniteSet(D) /\ n + 1 \notin D
  BY FS_Interval
<1>2. h \in Seq(Nat) /\ Len(h) = n + 1 /\ h[n + 1] = x
  OBVIOUS
<1>3. \A y \in D : h[y] = e[y]
  OBVIOUS
<1>4. 1..(n + 1) = D \cup {n + 1}
  BY <1>1
<1>5. h \in [D \cup {n + 1} -> Nat]
  <2> DEFINE m == n + 1
  <2> HIDE DEF n, D, h, m
  <2>1. h \in [1..m -> Nat]
    BY <1>2 DEF m
  <2> QED
    BY <1>4, <2>1, Zenon DEF m
<1>6. SumFunction(h) = SumFunction(e) + h[n + 1]
  <2> HIDE DEF n, D, h
  <2>1. \A g \in [D -> Nat], k \in [D \cup {n + 1} -> Nat] :
           (\A y \in D : k[y] = g[y]) => SumFunction(k) = SumFunction(g) + k[n + 1]
    BY <1>1, SumOneMore, Zenon
  <2> QED
    BY <1>1, <1>3, <1>5, <2>1, Zenon
<1> QED
  BY <1>2, <1>6
-----------------------------------------------------------------------------
(***************************************************************************)
(* The parts of a copy, for every length, part size and number of parts    *)
(* that aws_s3_calculate_optimal_mpu_part_size_and_num_parts can choose.   *)
(***************************************************************************)
LEMMA MulMono ==
    ASSUME NEW a \in Int, NEW b \in Int, NEW c \in Nat, a <= b
    PROVE  a * c <= b * c
BY SMT

LEMMA DivMod ==
    ASSUME NEW a \in Nat, NEW b \in Nat \ {0}
    PROVE  /\ a \div b \in Nat /\ a % b \in 0..(b - 1)
           /\ a = (a \div b) * b + (a % b)
BY SMT

LEMMA CeilDivFits ==
    ASSUME NEW a \in Nat \ {0}, NEW b \in Nat \ {0}
    PROVE  LET c == CeilDiv(a, b)
           IN  c \in Nat \ {0} /\ (c - 1) * b < a /\ a <= c * b
<1> DEFINE q == a \div b
           m == a % b
           c == CeilDiv(a, b)
<1>1. q \in Nat /\ m \in 0..(b - 1) /\ a = q * b + m
  BY DivMod, Zenon
<1>2. c = IF m > 0 THEN q + 1 ELSE q
  BY <1>1 DEF CeilDiv
<1> HIDE DEF q, m, c
<1>3. q * b \in Nat /\ (q + 1) * b = q * b + b /\ (q - 1) * b = q * b - b
  BY <1>1, SMT
<1>4. CASE m > 0
  <2>1. c = q + 1 /\ c - 1 = q
    BY <1>1, <1>2, <1>4
  <2> QED
    BY <1>1, <1>3, <1>4, <2>1 DEF c
<1>5. CASE m = 0
  <2>1. c = q /\ q # 0
    BY <1>1, <1>2, <1>5, SMT
  <2> QED
    BY <1>1, <1>3, <1>5, <2>1, SMT DEF c
<1> QED
  BY <1>1, <1>4, <1>5

\* The parts were cut as aws_s3_calculate_optimal_mpu_part_size_and_num_parts
\* cuts the length the HEAD found.
IsCut == copy.part_size = PartSize /\ copy.total_num_parts = NumCopyParts

\* total parts of part bytes are what length bytes need.
Cuts(length, part, total) ==
    IF length = 0 THEN total = 0
    ELSE /\ part > 0 /\ total > 0
         /\ (total - 1) * part < length /\ length <= total * part

RangeOf(length, part, n) ==
    ((n - 1) * part)..AtMost((n - 1) * part + part - 1, length - 1)

LEMMA CutFits ==
    ASSUME copy.content_length \in Nat, IsCut
    PROVE  Cuts(copy.content_length, copy.part_size, copy.total_num_parts)
<1> DEFINE length == copy.content_length
           needed == CeilDiv(length, MaxParts)
<1>1. MinPartSize \in Nat \ {0} /\ MaxParts \in Nat \ {0}
  BY CopyAssumption
<1>2. PartSize = IF length = 0 THEN 0
                 ELSE AtMost(length, IF needed < MinPartSize THEN MinPartSize ELSE needed)
  BY DEF PartSize, MpuPartSize
<1>3. needed \in Nat
  BY <1>1, CeilDivType
<1>4. NumCopyParts = IF length = 0 THEN 0 ELSE CeilDiv(length, PartSize)
  BY DEF NumCopyParts, MpuNumParts, PartSize
<1> HIDE DEF needed
<1>5. length # 0 => PartSize \in Nat \ {0}
  BY <1>1, <1>2, <1>3 DEF AtMost
<1> QED
  BY <1>4, <1>5, CeilDivFits DEF IsCut, Cuts

\* The first byte of each part, and where the parts end.
LEMMA RangeEnds ==
    ASSUME NEW length \in Nat, NEW part \in Nat, NEW total \in Nat, Cuts(length, part, total),
           NEW n \in 1..total
    PROVE  /\ part > 0 /\ length > 0 /\ (n - 1) * part \in Nat /\ n * part \in Nat
           /\ (n - 1) * part < length /\ n * part = (n - 1) * part + part
           /\ RangeOf(length, part, n) = ((n - 1) * part)..(AtMost(n * part, length) - 1)
<1>1. /\ part > 0 /\ length > 0 /\ (total - 1) * part < length /\ length <= total * part
  BY DEF Cuts
<1>2. n - 1 <= total - 1 /\ n - 1 \in Nat /\ total - 1 \in Nat
  OBVIOUS
<1>3. (n - 1) * part \in Nat /\ n * part \in Nat /\ n * part = (n - 1) * part + part
      /\ (total - 1) * part \in Nat
  BY <1>2, SMT
<1>4. (n - 1) * part <= (total - 1) * part
  BY <1>2, MulMono
<1>5. (n - 1) * part < length
  BY <1>1, <1>3, <1>4
<1> DEFINE first == (n - 1) * part
           last == n * part
<1>6. first \in Nat /\ last \in Nat /\ last = first + part
  BY <1>3
<1>7. RangeOf(length, part, n) = first..AtMost(first + part - 1, length - 1)
  BY DEF RangeOf
<1> HIDE DEF first, last
<1>8. RangeOf(length, part, n) = first..(AtMost(last, length) - 1)
  BY <1>6, <1>7 DEF AtMost
<1> QED
  BY <1>1, <1>3, <1>5, <1>8 DEF first, last

\* Every byte of the source is in a part.
LEMMA PartsCover ==
    ASSUME NEW length \in Nat, NEW part \in Nat, NEW total \in Nat, Cuts(length, part, total)
    PROVE  UNION {RangeOf(length, part, n) : n \in 1..total} = 0..(length - 1)
<1> DEFINE R(n) == RangeOf(length, part, n)
<1>1. ASSUME NEW n \in 1..total
      PROVE  R(n) \subseteq 0..(length - 1)
  <2> DEFINE first == (n - 1) * part
             last == n * part
  <2>1. first \in Nat /\ last \in Nat /\ R(n) = first..(AtMost(last, length) - 1)
    BY RangeEnds
  <2> HIDE DEF first, last, R
  <2> QED
    BY <2>1 DEF AtMost
<1>2. ASSUME NEW b \in 0..(length - 1)
      PROVE  \E n \in 1..total : b \in R(n)
  <2>1. length # 0 /\ part \in Nat \ {0} /\ length <= total * part /\ b \in Nat
    BY DEF Cuts
  <2> DEFINE q == b \div part
             m == b % part
             n == q + 1
  <2>2. q \in Nat /\ m \in 0..(part - 1) /\ b = q * part + m
    BY <2>1, DivMod, Zenon
  <2> HIDE DEF q, m
  <2>3. q < total
    <3> SUFFICES ASSUME total <= q
                 PROVE  FALSE
      BY <2>2
    <3>1. total * part <= q * part
      BY <2>2, MulMono
    <3>2. total * part \in Nat /\ q * part \in Nat
      BY <2>2, SMT
    <3> QED
      BY <2>1, <2>2, <3>1, <3>2
  <2>4. n \in 1..total /\ n - 1 = q
    BY <2>2, <2>3
  <2> DEFINE first == (n - 1) * part
             last == n * part
  <2>5. first = q * part
    BY <2>4
  <2> HIDE DEF n
  <2>6. /\ first \in Nat /\ last \in Nat /\ last = first + part
        /\ R(n) = first..(AtMost(last, length) - 1)
    BY <2>4, RangeEnds
  <2> HIDE DEF first, last, R
  <2>7. b \in R(n)
    <3>1. b = first + m
      BY <2>2, <2>5
    <3> QED
      BY <2>1, <2>2, <2>6, <3>1 DEF AtMost
  <2> QED
    BY <2>4, <2>7
<1> HIDE DEF R
<1>3. UNION {R(n) : n \in 1..total} = 0..(length - 1)
  BY <1>1, <1>2, Zenon
<1> QED
  BY <1>3, Zenon DEF R

\* The sizes of the parts add up to the length of the source: what the service
\* compares x-amz-mp-object-size with.
LEMMA PartsAddUp ==
    ASSUME NEW length \in Nat, NEW part \in Nat, NEW total \in Nat, Cuts(length, part, total)
    PROVE  SumFunction([n \in 1..total |-> Cardinality(RangeOf(length, part, n))]) = length
<1> DEFINE size(n) == Cardinality(RangeOf(length, part, n))
           sizes(k) == [n \in 1..k |-> size(n)]
           T == {k \in Nat : k <= total => SumFunction(sizes(k)) = AtMost(k * part, length)}
<1>1. \A n \in 1..total : size(n) = AtMost(n * part, length) - (n - 1) * part /\ size(n) \in Nat
  <2> TAKE n \in 1..total
  <2> DEFINE first == (n - 1) * part
             last == n * part
             end == AtMost(last, length)
  <2>1. /\ first \in Nat /\ last \in Nat /\ last = first + part /\ first < length /\ part > 0
        /\ RangeOf(length, part, n) = first..(end - 1)
    BY RangeEnds
  <2> HIDE DEF first, last
  <2>2. end \in Nat /\ first < end
    BY <2>1 DEF AtMost
  <2> HIDE DEF end
  <2>3. Cardinality(first..(end - 1)) = end - first
    BY <2>1, <2>2, FS_Interval
  <2>4. size(n) = end - first
    BY <2>1, <2>3
  <2> QED
    BY <2>1, <2>2, <2>4 DEF first, last, end
<1> HIDE DEF size
<1>2. 0 \in T
  <2>1. sizes(0) \in [{} -> Nat]
    OBVIOUS
  <2>2. SumFunction(sizes(0)) = 0
    BY <2>1, SumNone, Zenon
  <2> QED
    BY <2>2 DEF AtMost
<1>3. ASSUME NEW k \in T
      PROVE  k + 1 \in T
  <2> DEFINE m == k + 1
  <2> SUFFICES ASSUME m <= total
               PROVE  SumFunction(sizes(m)) = AtMost(m * part, length)
    OBVIOUS
  <2>1. k \in Nat /\ k <= total /\ m \in 1..total /\ m - 1 = k
    OBVIOUS
  <2>2. SumFunction(sizes(k)) = AtMost(k * part, length)
    BY <2>1
  <2>3. /\ (m - 1) * part < length /\ (m - 1) * part \in Nat
    BY <2>1, RangeEnds, Zenon
  <2>4. SumFunction(sizes(k)) = k * part /\ k * part \in Nat
    BY <2>1, <2>2, <2>3 DEF AtMost
  <2> DEFINE D == 1..k
  <2>5. /\ IsFiniteSet(D) /\ m \notin D /\ sizes(k) \in [D -> Nat]
        /\ sizes(m) \in [D \cup {m} -> Nat] /\ \A y \in D : sizes(m)[y] = sizes(k)[y]
        /\ sizes(m)[m] = size(m)
    <3>1. IsFiniteSet(D) /\ m \notin D
      BY <2>1, FS_Interval
    <3>2. 1..m = D \cup {m}
      BY <2>1
    <3>3. \A y \in D : y \in 1..m /\ y \in 1..total
      BY <2>1
    <3> QED
      BY <1>1, <2>1, <3>1, <3>2, <3>3
  <2>6. SumFunction(sizes(m)) = SumFunction(sizes(k)) + size(m)
    <3> DEFINE e == sizes(k)
               h == sizes(m)
    <3> HIDE DEF D, m, sizes, e, h
    <3>1. \A f \in [D -> Nat], g \in [D \cup {m} -> Nat] :
             (\A y \in D : g[y] = f[y]) => SumFunction(g) = SumFunction(f) + g[m]
      BY <2>5, SumOneMore, Zenon
    <3>2. e \in [D -> Nat] /\ h \in [D \cup {m} -> Nat] /\ (\A y \in D : h[y] = e[y])
          /\ h[m] = size(m)
      BY <2>5 DEF e, h
    <3>3. SumFunction(h) = SumFunction(e) + h[m]
      BY <3>1, <3>2, Zenon
    <3> QED
      BY <3>2, <3>3 DEF e, h
  <2>7. size(m) = AtMost(m * part, length) - k * part
    BY <1>1, <2>1
  <2> DEFINE end == AtMost(m * part, length)
  <2>8. end \in Nat
    BY <2>1, RangeEnds DEF AtMost
  <2> HIDE DEF end, m, sizes
  <2> QED
    BY <2>4, <2>6, <2>7, <2>8 DEF end
<1>4. T = Nat
  <2> HIDE DEF T
  <2>1. T \in SUBSET Nat
    BY DEF T
  <2> QED
    BY <1>2, <1>3, <2>1, SetInduction
<1>5. SumFunction(sizes(total)) = AtMost(total * part, length)
  <2>1. total \in T
    BY <1>4, Zenon
  <2> HIDE DEF sizes
  <2> QED
    BY <2>1
<1>6. AtMost(total * part, length) = length
  BY SMT DEF Cuts, AtMost
<1> QED
  BY <1>5, <1>6 DEF size
-----------------------------------------------------------------------------
(***************************************************************************)
(* What one step makes of one request in flight.                           *)
(***************************************************************************)

\* The stages of an attempt before it was prepared, and those that have a
\* message to send.
Early == {"task", "preparing", "credentials", "session", "signing", "backoff"}
Built == {"credentials", "session", "signing", "queued", "connecting", "sending", "active"}

\* A request the service executed and whose answer arrived.
Succeeded(r) == At(r, "finishing") /\ req[r].code = "ok"

\* An attempt is prepared once, and the retry strategy grants no more of them.
AttemptFits(q) ==
    /\ q.retries \in 0..MaxRetries /\ q.prepared \in Nat
    /\ q.prepared <= q.retries + (IF q.stage \in Early THEN 0 ELSE 1)

\* The attempts of every request, and the result.
FlightInv ==
    /\ \A r \in DOMAIN req :
          /\ AttemptFits(req[r])
          /\ req[r].stage \in Built \/ Succeeded(r) => r \in DOMAIN message
          /\ ~stop_called => ~req[r].told
    /\ finish_result \in {"none", "ok"} \cup Errors
    /\ faults \in 0..MaxFaults
    /\ reported = IF meta_finished THEN finish_result ELSE "none"
    /\ finish_result = "ok" => meta_finished /\ DOMAIN req = {}

\* Only the request r changes.
OnlyOne(r) == DOMAIN req' = DOMAIN req /\ \A s \in DOMAIN req : s # r => req'[s] = req[s]

LEMMA OneChanges ==
    ASSUME NEW r \in DOMAIN req, NEW q, req' = [req EXCEPT ![r] = q]
    PROVE  OnlyOne(r) /\ req'[r] = q
BY Zenon DEF OnlyOne

LEMMA MoveEffect ==
    ASSUME StopInv, NEW r \in DOMAIN req, NEW stage, Move(r, stage)
    PROVE  /\ OnlyOne(r) /\ req'[r].stage = stage
           /\ req'[r].prepared = req[r].prepared /\ req'[r].retries = req[r].retries
           /\ req'[r].told = req[r].told /\ req'[r].code = req[r].code
<1> DEFINE q == [req[r] EXCEPT !.stage = stage]
<1>1. req[r] \in RequestType
  BY DEF StopInv
<1>2. req' = [req EXCEPT ![r] = q]
  BY <1>1, Zenon DEF Move, RequestType
<1>3. /\ q.stage = stage /\ q.prepared = req[r].prepared /\ q.retries = req[r].retries
      /\ q.told = req[r].told /\ q.code = req[r].code
  BY <1>1 DEF RequestType
<1> HIDE DEF q
<1> QED
  BY <1>2, <1>3, OneChanges, Zenon

LEMMA PreparedEffect ==
    ASSUME StopInv, NEW r \in DOMAIN req, NEW code, Prepared(r, code)
    PROVE  /\ OnlyOne(r) /\ req'[r].prepared = req[r].prepared + 1
           /\ req'[r].retries = req[r].retries /\ req'[r].code = code
           /\ req'[r].told = req[r].told
           /\ IF code # "ok" THEN req'[r].stage = "finishing"
                             ELSE req'[r].stage \in {"connecting", "queued"}
<1> DEFINE next  == IF code # "ok" THEN "finishing"
                    ELSE IF req[r].connection THEN "connecting" ELSE "queued"
           times == req[r].prepared + 1
           q     == [req[r] EXCEPT !.prepared = times, !.code = code, !.stage = next]
<1>1. req[r] \in RequestType
  BY DEF StopInv
<1>2. IF code # "ok" THEN next = "finishing" ELSE next \in {"connecting", "queued"}
  OBVIOUS
<1>3. req' = [req EXCEPT ![r] = q]
  BY <1>1, Zenon DEF Prepared, RequestType
<1>4. times = req[r].prepared + 1
  OBVIOUS
<1> HIDE DEF next, times
<1>5. /\ q.stage = next /\ q.prepared = times /\ q.code = code
      /\ q.retries = req[r].retries /\ q.told = req[r].told
  BY <1>1, Zenon DEF RequestType
<1> HIDE DEF q
<1>6. OnlyOne(r) /\ req'[r] = q
  BY <1>3, OneChanges, Zenon
<1> QED
  BY <1>2, <1>4, <1>5, <1>6, Zenon

LEMMA NotifyEffect ==
    ASSUME StopInv, NEW r \in DOMAIN req, NEW code, NEW finishCode,
           NotifyConnectionFinished(r, code, finishCode)
    PROVE  /\ OnlyOne(r) /\ req'[r].prepared = req[r].prepared /\ req'[r].code = code
           /\ ~req'[r].told
           /\ \/ req'[r].stage = "finishing" /\ req'[r].retries = req[r].retries
              \/ /\ req'[r].stage = "backoff" /\ req'[r].retries = req[r].retries + 1
                 /\ finishCode = "retry" /\ req[r].retries < MaxRetries
<1> DEFINE retry == finishCode = "retry" /\ ~DisableRetries /\ ~meta_finished
                       /\ req[r].retries < MaxRetries
           times == IF retry THEN req[r].retries + 1 ELSE req[r].retries
           next  == IF retry THEN "backoff" ELSE "finishing"
           q     == [req[r] EXCEPT !.code = code, !.told = FALSE, !.retries = times,
                                   !.stage = next]
<1>1. req[r] \in RequestType
  BY DEF StopInv
<1>2. req' = [req EXCEPT ![r] = q]
  BY <1>1, Zenon DEF NotifyConnectionFinished, RequestType
<1>3. \/ next = "finishing" /\ times = req[r].retries
      \/ /\ next = "backoff" /\ times = req[r].retries + 1
         /\ finishCode = "retry" /\ req[r].retries < MaxRetries
  BY Zenon
<1> HIDE DEF next, times
<1>4. /\ q.stage = next /\ q.retries = times /\ q.code = code /\ ~q.told
      /\ q.prepared = req[r].prepared
  BY <1>1, Zenon DEF RequestType
<1> HIDE DEF q
<1>5. OnlyOne(r) /\ req'[r] = q
  BY <1>2, OneChanges, Zenon
<1> QED
  BY <1>3, <1>4, <1>5, Zenon

LEMMA EndEffect ==
    ASSUME StopInv, NEW r \in DOMAIN req, NEW code,
           req' = [req EXCEPT ![r].stage = "finishing", ![r].code = code]
    PROVE  /\ OnlyOne(r) /\ req'[r].stage = "finishing" /\ req'[r].code = code
           /\ req'[r].prepared = req[r].prepared /\ req'[r].retries = req[r].retries
           /\ req'[r].told = req[r].told
<1> DEFINE q == [req[r] EXCEPT !.stage = "finishing", !.code = code]
<1>1. req[r] \in RequestType
  BY DEF StopInv
<1>2. req' = [req EXCEPT ![r] = q]
  BY <1>1, Zenon DEF RequestType
<1>3. /\ q.stage = "finishing" /\ q.code = code
      /\ q.prepared = req[r].prepared /\ q.retries = req[r].retries /\ q.told = req[r].told
  BY <1>1, Zenon DEF RequestType
<1> HIDE DEF q
<1> QED
  BY <1>2, <1>3, OneChanges, Zenon

LEMMA ConnectEffect ==
    ASSUME StopInv, NEW r \in DOMAIN req,
           req' = [req EXCEPT ![r].stage = "connecting", ![r].connection = TRUE]
    PROVE  /\ OnlyOne(r) /\ req'[r].stage = "connecting" /\ req'[r].code = req[r].code
           /\ req'[r].prepared = req[r].prepared /\ req'[r].retries = req[r].retries
           /\ req'[r].told = req[r].told
<1> DEFINE q == [req[r] EXCEPT !.stage = "connecting", !.connection = TRUE]
<1>1. req[r] \in RequestType
  BY DEF StopInv
<1>2. req' = [req EXCEPT ![r] = q]
  BY <1>1, Zenon DEF RequestType
<1>3. /\ q.stage = "connecting" /\ q.code = req[r].code
      /\ q.prepared = req[r].prepared /\ q.retries = req[r].retries /\ q.told = req[r].told
  BY <1>1, Zenon DEF RequestType
<1> HIDE DEF q
<1> QED
  BY <1>2, <1>3, OneChanges, Zenon
-----------------------------------------------------------------------------
\* A step of one request, which stays in flight: its attempts stay within
\* bounds, only a stop tells its stream to end, and a failure may be recorded.
Advance(r) ==
    /\ OnlyOne(r) /\ AttemptFits(req'[r])
    /\ ~stop_called => ~req'[r].told
    /\ finish_result' = finish_result \/ (~HasResult /\ finish_result' \in Errors)
    /\ faults' \in 0..MaxFaults /\ faults' >= faults
    /\ UNCHANGED <<meta_finished, stop_called>>

\* No answer of the service is involved.
NoAnswer(r) ==
    /\ req'[r].stage = "finishing" => req'[r].code # "ok"
    /\ req'[r].stage \in Built => req[r].stage \in Built
    /\ (/\ faults' = faults /\ ~HasResult /\ HasSource(initial)
        /\ req[r].code = "ok" /\ req[r].stage # "backoff") =>
          /\ UNCHANGED finish_result
          /\ req'[r].code = "ok" /\ req'[r].stage \notin {"backoff", "finishing"}

LEMMA SetResultEffect ==
    ASSUME NEW code \in Errors, SetResult(code)
    PROVE  finish_result' = finish_result \/ (~HasResult /\ finish_result' \in Errors)
BY DEF SetResult

LEMMA FaultEffect ==
    ASSUME FlightInv
    PROVE  /\ Fault => faults' \in 0..MaxFaults /\ faults' >= faults /\ faults' # faults
           /\ NoFault => faults' \in 0..MaxFaults /\ faults' >= faults
BY RetryAssumption DEF FlightInv, Fault, NoFault

\* The preparation ends, well or not.
LEMMA AdvancePrepared ==
    ASSUME StopInv, FlightInv, NEW r \in DOMAIN req, NEW code \in Errors \cup {"ok"},
           Prepared(r, code), req[r].stage \in Early \ {"backoff"},
           code = "ok" => req[r].stage \in Built,
           Fault \/ NoFault, code # "ok" => Fault \/ HasResult \/ ~HasSource(initial),
           UNCHANGED <<meta_finished, stop_called>>
    PROVE  Advance(r) /\ NoAnswer(r)
<1>1. /\ OnlyOne(r) /\ req'[r].prepared = req[r].prepared + 1
      /\ req'[r].retries = req[r].retries /\ req'[r].code = code
      /\ req'[r].told = req[r].told
      /\ IF code # "ok" THEN req'[r].stage = "finishing"
                        ELSE req'[r].stage \in {"connecting", "queued"}
  BY PreparedEffect, Zenon
<1>2. AttemptFits(req[r]) /\ (~stop_called => ~req[r].told)
  BY DEF FlightInv
<1>3. AttemptFits(req'[r])
  BY <1>1, <1>2 DEF AttemptFits, Early
<1>4. finish_result' = finish_result \/ (~HasResult /\ finish_result' \in Errors)
  BY SetResultEffect DEF Prepared
<1>5. code = "ok" => UNCHANGED finish_result
  BY DEF Prepared
<1>6. Advance(r)
  BY <1>1, <1>2, <1>3, <1>4, FaultEffect DEF Advance
<1>7. NoAnswer(r)
  <2>1. code = "ok" \/ faults' # faults \/ HasResult \/ ~HasSource(initial)
    BY FaultEffect
  <2>2. {"connecting", "queued"} \cap {"backoff", "finishing"} = {} /\ "finishing" \notin Built
    BY DEF Built
  <2> QED
    BY <1>1, <1>5, <2>1, <2>2 DEF NoAnswer
<1> QED
  BY <1>6, <1>7

\* The request moves on.
LEMMA AdvanceMove ==
    ASSUME StopInv, FlightInv, NEW r \in DOMAIN req, NEW stage \in Stages \ {"finishing", "backoff"},
           Move(r, stage), stage \in Early <=> req[r].stage \in Early,
           stage \in Built => req[r].stage \in Built,
           UNCHANGED <<finish_result, meta_finished, stop_called, faults>>
    PROVE  Advance(r) /\ NoAnswer(r)
<1>1. /\ OnlyOne(r) /\ req'[r].stage = stage
      /\ req'[r].prepared = req[r].prepared /\ req'[r].retries = req[r].retries
      /\ req'[r].told = req[r].told /\ req'[r].code = req[r].code
  BY MoveEffect, Zenon
<1>2. AttemptFits(req[r]) /\ (~stop_called => ~req[r].told)
  BY DEF FlightInv
<1>3. AttemptFits(req'[r])
  BY <1>1, <1>2 DEF AttemptFits
<1>4. Advance(r)
  BY <1>1, <1>2, <1>3, FaultEffect DEF Advance, NoFault
<1>5. NoAnswer(r)
  BY <1>1 DEF NoAnswer
<1> QED
  BY <1>4, <1>5

\* The attempt ends, and the request with it or not.
LEMMA AdvanceNotify ==
    ASSUME StopInv, FlightInv, NEW r \in DOMAIN req, NEW code \in Errors \cup {"ok"}, NEW finishCode,
           NotifyConnectionFinished(r, code, finishCode), req[r].stage \notin Early,
           Fault \/ NoFault, UNCHANGED <<finish_result, meta_finished, stop_called>>
    PROVE  Advance(r)
<1>1. /\ OnlyOne(r) /\ req'[r].prepared = req[r].prepared /\ ~req'[r].told
      /\ \/ req'[r].stage = "finishing" /\ req'[r].retries = req[r].retries
         \/ /\ req'[r].stage = "backoff" /\ req'[r].retries = req[r].retries + 1
            /\ req[r].retries < MaxRetries
  BY NotifyEffect, Zenon
<1>2. AttemptFits(req[r])
  BY DEF FlightInv
<1>3. AttemptFits(req'[r])
  BY <1>1, <1>2, RetryAssumption DEF AttemptFits, Early
<1> QED
  BY <1>1, <1>3, FaultEffect DEF Advance

LEMMA AdvanceFailed ==
    ASSUME StopInv, FlightInv, NEW r \in DOMAIN req, NEW code \in Errors, NEW finishCode,
           NotifyConnectionFinished(r, code, finishCode), req[r].stage \notin Early,
           Fault \/ (NoFault /\ HasResult), UNCHANGED <<finish_result, meta_finished, stop_called>>
    PROVE  Advance(r) /\ NoAnswer(r)
<1>1. Advance(r)
  BY AdvanceNotify
<1>2. req'[r].code = code /\ req'[r].stage \in {"finishing", "backoff"}
  BY NotifyEffect
<1>3. code # "ok"
  BY DEF Errors, FatalErrors
<1> QED
  BY <1>1, <1>2, <1>3, FaultEffect DEF NoAnswer, Built

LEMMA AdvanceEnd ==
    ASSUME StopInv, FlightInv, NEW r \in DOMAIN req, NEW code \in Errors,
           req' = [req EXCEPT ![r].stage = "finishing", ![r].code = code],
           Fault \/ (NoFault /\ HasResult), UNCHANGED <<finish_result, meta_finished, stop_called>>
    PROVE  Advance(r) /\ NoAnswer(r)
<1>1. /\ OnlyOne(r) /\ req'[r].stage = "finishing" /\ req'[r].code = code
      /\ req'[r].prepared = req[r].prepared /\ req'[r].retries = req[r].retries
      /\ req'[r].told = req[r].told
  BY EndEffect, Zenon
<1>2. AttemptFits(req[r]) /\ (~stop_called => ~req[r].told)
  BY DEF FlightInv
<1>3. AttemptFits(req'[r])
  BY <1>1, <1>2 DEF AttemptFits, Early
<1>4. code # "ok"
  BY DEF Errors, FatalErrors
<1> QED
  BY <1>1, <1>2, <1>3, <1>4, FaultEffect DEF Advance, NoAnswer, Built
LEMMA PipelineEffect ==
    ASSUME StopInv, FlightInv, NEW r, PipelineStep(r)
    PROVE  r \in DOMAIN req /\ req[r].stage # "finishing" /\ Advance(r) /\ NoAnswer(r)
<1> USE DEF At
<1>1. {"canceled", "connection", "prepare"} \subseteq Errors
  BY DEF Errors
<1>2. Dropped(r) => HasResult
  BY DEF Dropped
<1>3. CASE PrepareTask(r)
  <2>1. r \in DOMAIN req /\ req[r].stage = "task" /\ NoFault
        /\ UNCHANGED <<meta_finished, stop_called>>
    BY <1>3 DEF PrepareTask
  <2>2. CASE Dropped(r) /\ Prepared(r, "canceled")
    BY <1>1, <1>2, <2>1, <2>2, AdvancePrepared DEF Early
  <2>3. CASE Move(r, "preparing") /\ UNCHANGED finish_result
    BY <2>1, <2>3, AdvanceMove DEF Early, Built, Stages, NoFault
  <2> QED
    BY <1>3, <2>1, <2>2, <2>3 DEF PrepareTask
<1>4. CASE GetOriginalCredentials(r)
  <2>1. r \in DOMAIN req /\ req[r].stage = "credentials"
        /\ UNCHANGED <<meta_finished, stop_called>>
    BY <1>4 DEF GetOriginalCredentials
  <2>2. CASE Move(r, "session") /\ UNCHANGED finish_result /\ NoFault
    BY <2>1, <2>2, AdvanceMove DEF Early, Built, Stages, NoFault
  <2>3. CASE Prepared(r, "prepare") /\ Fault
    BY <1>1, <2>1, <2>3, AdvancePrepared DEF Early
  <2> QED
    BY <1>4, <2>1, <2>2, <2>3 DEF GetOriginalCredentials
<1>5. CASE GetExpressSession(r)
  <2>1. r \in DOMAIN req /\ req[r].stage = "session" /\ UNCHANGED <<meta_finished, stop_called>>
    BY <1>5 DEF GetExpressSession
  <2>2. CASE Move(r, "signing") /\ UNCHANGED finish_result /\ NoFault
    BY <2>1, <2>2, AdvanceMove DEF Early, Built, Stages, NoFault
  <2>3. CASE Prepared(r, "prepare") /\ Fault
    BY <1>1, <2>1, <2>3, AdvancePrepared DEF Early
  <2> QED
    BY <1>5, <2>1, <2>2, <2>3 DEF GetExpressSession
<1>6. CASE OnSigned(r)
  <2>1. r \in DOMAIN req /\ req[r].stage = "signing" /\ UNCHANGED <<meta_finished, stop_called>>
    BY <1>6 DEF OnSigned
  <2>2. CASE Prepared(r, "ok") /\ NoFault
    BY <2>1, <2>2, AdvancePrepared DEF Early, Built
  <2>3. CASE Prepared(r, "prepare") /\ Fault
    BY <1>1, <2>1, <2>3, AdvancePrepared DEF Early
  <2> QED
    BY <1>6, <2>1, <2>2, <2>3 DEF OnSigned
<1>7. CASE UpdateConnections(r)
  <2>1. r \in DOMAIN req /\ req[r].stage = "queued" /\ NoFault
        /\ UNCHANGED <<finish_result, meta_finished, stop_called>>
    BY <1>7 DEF UpdateConnections
  <2>2. CASE Dropped(r)
    BY <1>1, <1>2, <1>7, <2>1, <2>2, AdvanceEnd, Zenon DEF UpdateConnections
  <2>3. CASE ~Dropped(r)
    <3>1. req' = [req EXCEPT ![r].stage = "connecting", ![r].connection = TRUE]
      BY <1>7, <2>3, Zenon DEF UpdateConnections
    <3>2. /\ OnlyOne(r) /\ req'[r].stage = "connecting" /\ req'[r].code = req[r].code
          /\ req'[r].prepared = req[r].prepared /\ req'[r].retries = req[r].retries
          /\ req'[r].told = req[r].told
      BY <2>1, <3>1, ConnectEffect, Zenon
    <3>3. AttemptFits(req[r]) /\ (~stop_called => ~req[r].told)
      BY <2>1 DEF FlightInv
    <3>4. AttemptFits(req'[r])
      BY <2>1, <3>2, <3>3 DEF AttemptFits, Early
    <3>5. Advance(r)
      BY <2>1, <3>2, <3>3, <3>4, FaultEffect DEF Advance
    <3>6. NoAnswer(r)
      BY <2>1, <3>2 DEF NoAnswer, Built
    <3> QED
      BY <2>1, <3>5, <3>6
  <2> QED
    BY <2>1, <2>2, <2>3
<1>8. CASE AcquireConnection(r)
  <2>1. r \in DOMAIN req /\ req[r].stage = "connecting"
        /\ UNCHANGED <<finish_result, meta_finished, stop_called>>
    BY <1>8 DEF AcquireConnection
  <2>2. CASE Move(r, "sending") /\ NoFault
    BY <2>1, <2>2, AdvanceMove DEF Early, Built, Stages, NoFault
  <2>3. CASE \E finishCode : NotifyConnectionFinished(r, "connection", finishCode) /\ Fault
    BY <1>1, <2>1, <2>3, AdvanceFailed DEF Early
  <2> QED
    BY <1>8, <2>1, <2>2, <2>3 DEF AcquireConnection
<1>9. CASE RetryReady(r)
  <2>1. r \in DOMAIN req /\ req[r].stage = "backoff"
        /\ UNCHANGED <<finish_result, meta_finished, stop_called>>
    BY <1>9 DEF RetryReady
  <2>2. CASE Move(r, "task") /\ NoFault
    BY <2>1, <2>2, AdvanceMove DEF Early, Built, Stages, NoFault
  <2>3. CASE req' = [req EXCEPT ![r].stage = "finishing", ![r].code = "connection"] /\ Fault
    BY <1>1, <2>1, <2>3, AdvanceEnd, Zenon
  <2> QED
    BY <1>9, <2>1, <2>2, <2>3, Zenon DEF RetryReady
<1>10. CASE SendRequest(r)
  <2>1. r \in DOMAIN req /\ req[r].stage = "sending"
        /\ UNCHANGED <<finish_result, meta_finished, stop_called>>
    BY <1>10 DEF SendRequest
  <2>2. CASE Dropped(r) /\ SendRequestFinish(r, "canceled") /\ NoFault
    BY <1>1, <1>2, <2>1, <2>2, AdvanceFailed DEF Early, SendRequestFinish
  <2>3. CASE ~Dropped(r) /\ Move(r, "active") /\ NoFault
    BY <2>1, <2>3, AdvanceMove DEF Early, Built, Stages, NoFault
  <2>4. CASE SendRequestFinish(r, "connection") /\ Fault
    BY <1>1, <2>1, <2>4, AdvanceFailed DEF Early, SendRequestFinish
  <2> QED
    BY <1>10, <2>1, <2>2, <2>3, <2>4 DEF SendRequest
<1> QED
  BY <1>3, <1>4, <1>5, <1>6, <1>7, <1>8, <1>9, <1>10 DEF PipelineStep

\* The end of a stream.  A request succeeds only if the service executed it,
\* and without a fault or a stop it does if the service can.
Answer(r) ==
    /\ req'[r].stage \in {"finishing", "backoff"}
    /\ UNCHANGED finish_result
    /\ service' = service \/ (CanExecute(r) /\ service' = Executed(r))
    /\ req'[r].code = "ok" => CanExecute(r) /\ service' = Executed(r)
    /\ faults' = faults /\ ~req[r].told /\ CanExecute(r) =>
          req'[r].code = "ok" /\ req'[r].stage = "finishing"

LEMMA ReplyEffect ==
    ASSUME StopInv, FlightInv, NEW r, Reply(r)
    PROVE  r \in DOMAIN req /\ req[r].stage = "active" /\ Advance(r) /\ Answer(r)
<1>1. r \in DOMAIN req /\ req[r].stage = "active" /\ req[r].stage \notin Early
      /\ UNCHANGED <<finish_result, meta_finished, stop_called>> /\ (Fault \/ NoFault)
  BY DEF Reply, At, StreamComplete, Early
<1> DEFINE type == req[r].type
           Ends(code) == SendRequestFinish(r, code)
           Body(status, xml) == [status |-> status, xml |-> xml, intact |-> TRUE]
<1>2. type # "get"
  BY <1>1 DEF StopInv, RequestType
<1>3. ErrorFromResponse(type, GoodResponse) = "ok"
  BY DEF ErrorFromResponse, ErrorFromStatus, GoodResponse
<1>4. ErrorFromResponse(type, [GoodResponse EXCEPT !.status = 404]) \in Errors
  BY DEF ErrorFromResponse, ErrorFromStatus, GoodResponse, Errors, FatalErrors
<1>5. \A status \in {200, 404, 500, 503}, xml \in {"none", "recoverable", "unknown"} :
         (status = 200 => xml # "none") =>
            ErrorFromResponse(type, Body(status, xml)) \in Errors
  BY <1>2 DEF ErrorFromResponse, ErrorFromStatus, Errors, FatalErrors
<1>6. {"connection", "canceled"} \subseteq Errors /\ "ok" \notin Errors
  BY DEF Errors, FatalErrors
<1>7. \A response : StreamComplete(r, "ok", response, FALSE) =>
          Ends(ErrorFromResponse(type, response))
  BY DEF StreamComplete
<1>8. \/ /\ CanExecute(r) /\ Ends("ok") /\ service' = Executed(r)
      \/ \E code \in Errors :
            /\ Ends(code)
            /\ ~CanExecute(r) \/ Fault \/ req[r].told
            /\ service' \in {service} \/ service' \in Outcomes(r)
  <2>1. CASE CanExecute(r) /\ StreamComplete(r, "ok", GoodResponse, FALSE) /\ service' = Executed(r)
    BY <1>3, <2>1 DEF StreamComplete
  <2>2. CASE ~CanExecute(r) /\ UNCHANGED service
             /\ StreamComplete(r, "ok", [GoodResponse EXCEPT !.status = 404], FALSE)
    BY <1>4, <2>2 DEF StreamComplete
  <2>3. CASE /\ \E status \in {200, 404, 500, 503}, xml \in {"none", "recoverable", "unknown"} :
                   /\ status = 200 => xml # "none"
                   /\ StreamComplete(r, "ok", Body(status, xml), FALSE)
             /\ Fault /\ UNCHANGED service
    <3> HIDE DEF Body, Ends, type
    <3>1. PICK status \in {200, 404, 500, 503}, xml \in {"none", "recoverable", "unknown"} :
             /\ status = 200 => xml # "none"
             /\ StreamComplete(r, "ok", Body(status, xml), FALSE)
      BY <2>3, Zenon
    <3> DEFINE code == ErrorFromResponse(type, Body(status, xml))
    <3>2. code \in Errors
      BY <1>5, <3>1
    <3>3. Ends(code)
      BY <1>7, <3>1, Zenon
    <3> HIDE DEF code
    <3> QED
      BY <2>3, <3>2, <3>3
  <2>4. CASE StreamComplete(r, "connection", GoodResponse, FALSE) /\ Fault
             /\ service' \in Outcomes(r)
    BY <1>6, <2>4 DEF StreamComplete
  <2>5. CASE req[r].told /\ StreamComplete(r, "canceled", GoodResponse, FALSE)
             /\ service' \in Outcomes(r)
    BY <1>6, <2>5 DEF StreamComplete
  <2> QED
    BY <2>1, <2>2, <2>3, <2>4, <2>5, Zenon DEF Reply
<1>9. CASE CanExecute(r) /\ Ends("ok") /\ service' = Executed(r)
  <2>1. NotifyConnectionFinished(r, "ok", "success")
    <3>1. FinishCode("ok") = "success"
      BY DEF FinishCode
    <3> QED
      BY <1>9, <3>1, Zenon DEF SendRequestFinish
  <2>2. req'[r].code = "ok" /\ req'[r].stage = "finishing"
    BY <1>1, <2>1, NotifyEffect
  <2> QED
    BY <1>1, <1>9, <2>1, <2>2, AdvanceNotify DEF Answer
<1>10. ASSUME NEW code \in Errors, Ends(code), ~CanExecute(r) \/ Fault \/ req[r].told,
             service' \in {service} \/ service' \in Outcomes(r)
      PROVE  Advance(r) /\ Answer(r)
  <2>1. NotifyConnectionFinished(r, code, FinishCode(code))
    BY <1>10 DEF SendRequestFinish
  <2>2. req'[r].code = code /\ req'[r].stage \in {"finishing", "backoff"} /\ code # "ok"
    BY <1>1, <1>6, <2>1, NotifyEffect
  <2>3. service' = service \/ (CanExecute(r) /\ service' = Executed(r))
    BY <1>10 DEF Outcomes
  <2>4. ~(faults' = faults /\ ~req[r].told /\ CanExecute(r))
    BY <1>10, FaultEffect
  <2>5. Advance(r)
    BY <1>1, <2>1, AdvanceNotify
  <2> QED
    BY <1>1, <2>2, <2>3, <2>4, <2>5 DEF Answer
<1> QED
  BY <1>1, <1>8, <1>9, <1>10
-----------------------------------------------------------------------------
\* What the three kinds of step do to the requests: a request goes on, is
\* handed out, or is consumed.
LEMMA FlightAdvance ==
    ASSUME QuietInv, FlightInv, NEW r \in DOMAIN req, Advance(r),
           req'[r].stage \in Built \/ Succeeded(r)' => r \in DOMAIN message',
           DOMAIN message \subseteq DOMAIN message', UNCHANGED reported
    PROVE  FlightInv'
<1>1. finish_result # "ok" /\ finish_result' # "ok" /\ finish_result' \in {"none"} \cup Errors
  BY DEF FlightInv, Advance, Errors, FatalErrors
<1>2. reported' = IF meta_finished' THEN finish_result' ELSE "none"
  BY DEF QuietInv, FlightInv, Advance
<1>3. \A s \in DOMAIN req' :
          /\ AttemptFits(req'[s])
          /\ req'[s].stage \in Built \/ Succeeded(s)' => s \in DOMAIN message'
          /\ ~stop_called' => ~req'[s].told
  <2> TAKE s \in DOMAIN req'
  <2>1. CASE s = r
    BY <2>1, Zenon DEF Advance
  <2>2. CASE s # r
    <3>1. s \in DOMAIN req /\ req'[s] = req[s] /\ (Succeeded(s)' <=> Succeeded(s))
      BY <2>2 DEF Advance, OnlyOne, Succeeded, At
    <3> QED
      BY <3>1 DEF Advance, FlightInv
  <2> QED
    BY <2>1, <2>2
<1> QED
  BY <1>1, <1>2, <1>3 DEF FlightInv, Advance

\* aws_s3_request_new puts a request of its own into flight.
Handed(r) ==
    /\ r \notin DOMAIN req /\ DOMAIN req' = DOMAIN req \cup {r}
    /\ \A s \in DOMAIN req : req'[s] = req[s]
    /\ req'[r].stage = "task" /\ req'[r].code = "ok" /\ ~req'[r].told
    /\ req'[r].prepared = 0 /\ req'[r].retries = 0
    /\ ~meta_finished
    /\ UNCHANGED <<finish_result, meta_finished, stop_called, faults, events, progress, source,
                   initial, message, service, reported>>

LEMMA HandEffect ==
    ASSUME NEW r, r \notin DOMAIN req, NEW type, NEW alwaysSend, Hand(r, type, alwaysSend)
    PROVE  /\ DOMAIN req' = DOMAIN req \cup {r}
           /\ \A s \in DOMAIN req : req'[s] = req[s]
           /\ req'[r].stage = "task" /\ req'[r].code = "ok" /\ ~req'[r].told
           /\ req'[r].prepared = 0 /\ req'[r].retries = 0
<1> DEFINE q == NewRequest(type, alwaysSend)
<1>1. /\ q.stage = "task" /\ q.code = "ok" /\ ~q.told /\ q.prepared = 0 /\ q.retries = 0
  BY DEF NewRequest
<1>2. req' = [s \in DOMAIN req \cup {r} |-> IF s = r THEN q ELSE req[s]]
  BY DEF Hand
<1> HIDE DEF q
<1> QED
  BY <1>1, <1>2, Zenon

LEMMA FlightHanded ==
    ASSUME FlightInv, NEW r, Handed(r)
    PROVE  FlightInv'
<1>1. AttemptFits(req'[r])
  BY RetryAssumption DEF Handed, AttemptFits
<1>2. "task" \notin Built /\ "task" # "finishing"
  BY DEF Built
<1>3. \A s \in DOMAIN req' :
          /\ AttemptFits(req'[s])
          /\ req'[s].stage \in Built \/ Succeeded(s)' => s \in DOMAIN message'
          /\ ~stop_called' => ~req'[s].told
  <2> TAKE s \in DOMAIN req'
  <2>1. CASE s = r
    BY <1>1, <1>2, <2>1, Zenon DEF Handed, Succeeded, At
  <2>2. CASE s # r
    <3>1. s \in DOMAIN req /\ req'[s] = req[s] /\ (Succeeded(s)' <=> Succeeded(s))
      BY <2>2 DEF Handed, Succeeded, At
    <3> QED
      BY <3>1, Zenon DEF Handed, FlightInv
  <2> QED
    BY <2>1, <2>2
<1> QED
  BY <1>3 DEF FlightInv, Handed

\* vtable->finished_request consumes the request and its message.
Consumed(r) ==
    /\ r \in DOMAIN req /\ req[r].stage = "finishing"
    /\ DOMAIN req' = DOMAIN req \ {r} /\ \A s \in DOMAIN req' : req'[s] = req[s]
    /\ DOMAIN message' = DOMAIN message \ {r}
    /\ \A s \in DOMAIN message' : message'[s] = message[s]
    /\ finish_result' = finish_result \/ (~HasResult /\ finish_result' \in Errors)
    /\ faults' \in 0..MaxFaults /\ faults' >= faults
    /\ UNCHANGED <<meta_finished, stop_called, progress, source, initial, service, reported>>

LEMMA FlightConsumed ==
    ASSUME QuietInv, FlightInv, NEW r, Consumed(r)
    PROVE  FlightInv'
<1>1. finish_result # "ok" /\ finish_result' # "ok"
  BY DEF FlightInv, Consumed, Errors, FatalErrors
<1>2. \A s \in DOMAIN req' :
          /\ AttemptFits(req'[s])
          /\ req'[s].stage \in Built \/ Succeeded(s)' => s \in DOMAIN message'
          /\ ~stop_called' => ~req'[s].told
  <2> TAKE s \in DOMAIN req'
  <2>1. s \in DOMAIN req /\ s # r /\ req'[s] = req[s] /\ (Succeeded(s)' <=> Succeeded(s))
    BY DEF Consumed, Succeeded, At
  <2> QED
    BY <2>1, Zenon DEF Consumed, FlightInv
<1>3. reported' = IF meta_finished' THEN finish_result' ELSE "none"
  BY DEF QuietInv, FlightInv, Consumed
<1> QED
  BY <1>1, <1>2, <1>3 DEF FlightInv, Consumed
-----------------------------------------------------------------------------
(***************************************************************************)
(* The invariant of the copy and of the service.                           *)
(***************************************************************************)

\* A message stays what its builder would make of the copy now: what it is
\* built from does not change while it may be sent.
MessageInv ==
    /\ DOMAIN message \subseteq DOMAIN req
    /\ \A r \in DOMAIN message : message[r] = Build(r)
    /\ initial.headers \subseteq HeaderClasses
    /\ initial.source_uri => "source" \in initial.headers

\* What the flags, the upload id and the ETags say of each other; and that
\* update() gives up only an upload that is complete, unknown or aborted.
PlanInv ==
    /\ copy.head = "done" => copy.content_length = source
    /\ Req("create") \in DOMAIN message \/ copy.num_parts_sent > 0 \/ copy.upload_id => IsCut
    /\ copy.upload_id => copy.create = "done"
    /\ copy.complete # "none" => copy.upload_id
    /\ copy.etags \subseteq 1..copy.num_parts_sent
    /\ \A n \in copy.etags : PartReq(n) \notin DOMAIN req
    /\ ~HasResult \/ finish_result = "ok" =>
          /\ copy.create = "done" => copy.upload_id
          /\ copy.complete = "done" => copy.complete_error = "ok"
          /\ \A n \in 1..copy.num_parts_sent : n \in copy.etags \/ PartReq(n) \in DOMAIN req
    /\ finish_result = "ok" => copy.bypass = "done" \/ CompleteSucceeded
    /\ meta_finished /\ finish_result # "ok" =>
          copy.create = "none" \/ CompleteSucceeded \/ ~copy.upload_id \/ copy.abort = "done"

IsService(s) ==
    s = [object |-> s.object, upload |-> s.upload, orphans |-> s.orphans, stored |-> s.stored]

\* What the service holds: the parts as the copy cuts them, and what was
\* acknowledged.
ServiceInv ==
    /\ IsService(service)
    /\ CopyIsWhole
    /\ DOMAIN service.stored \subseteq 1..copy.num_parts_sent
    /\ \A n \in DOMAIN service.stored : service.stored[n] = PartRange(n)
    /\ copy.etags \subseteq DOMAIN service.stored
    /\ \A n \in 1..copy.num_parts_sent : Succeeded(PartReq(n)) => n \in DOMAIN service.stored
    /\ Succeeded(Req("bypass")) \/ copy.bypass = "done" => service.object = Bytes
    /\ Succeeded(Req("complete")) \/ CompleteSucceeded =>
          service.object = Bytes /\ service.upload = "done"
    /\ copy.create = "none" => service.upload = "none"

\* Progress is reported once for every part that came back well.
ProgressInv ==
    /\ progress \in Nat /\ events \in Seq(Nat)
    /\ progress + SumFunction(events) =
          (IF copy.bypass = "done" THEN copy.content_length ELSE 0)
            + Cardinality(copy.etags) * copy.part_size
    /\ finish_result = "ok" => events = << >>

\* A copy that met no failure, was not stopped and names its source.
Clean == faults = 0 /\ ~stop_called /\ HasSource(initial)

CleanInv ==
    Clean => /\ finish_result \in {"none", "ok"}
             /\ \A r \in DOMAIN req : req[r].code = "ok" /\ req[r].stage # "backoff"
             /\ Succeeded(Req("create")) => service.upload = "open"
             /\ copy.create = "done" /\ copy.complete = "none" => service.upload = "open"
             /\ Req("complete") \in DOMAIN req /\ ~At(Req("complete"), "finishing") =>
                   service.upload = "open"

CopyInv ==
    /\ StopInv /\ QuietInv /\ FlightInv
    /\ MessageInv /\ PlanInv /\ ServiceInv /\ ProgressInv /\ CleanInv
-----------------------------------------------------------------------------
\* Steps that leave alone what an invariant is about.
LEMMA BuildSame ==
    ASSUME NEW r, UNCHANGED initial,
           r[1] \in {"part", "complete"} => /\ copy'.part_size = copy.part_size
                                            /\ copy'.content_length = copy.content_length
                                            /\ copy'.total_num_parts = copy.total_num_parts,
           r[1] = "complete" => copy'.etags = copy.etags
    PROVE  Build(r)' = Build(r)
<1>1. CASE r[1] = "part"
  <2>1. PartRange(r[2])' = PartRange(r[2])
    BY <1>1 DEF PartRange
  <2> QED
    BY <1>1, <2>1 DEF Build
<1>2. CASE r[1] = "complete"
  BY <1>2 DEF Build
<1>3. CASE r[1] \notin {"part", "complete"}
  BY <1>3 DEF Build
<1> QED
  BY <1>1, <1>2, <1>3

LEMMA MessageSame ==
    ASSUME MessageInv, UNCHANGED <<copy, initial, message>>, DOMAIN req \subseteq DOMAIN req'
    PROVE  MessageInv'
<1>1. \A r : Build(r)' = Build(r)
  BY BuildSame
<1> QED
  BY <1>1 DEF MessageInv

LEMMA PlanSame ==
    ASSUME QuietInv, PlanInv, UNCHANGED <<copy, source, meta_finished>>, DOMAIN req' = DOMAIN req,
           Req("create") \in DOMAIN message' => Req("create") \in DOMAIN message,
           finish_result # "ok", finish_result' # "ok", HasResult => UNCHANGED finish_result
    PROVE  PlanInv'
<1>1. IsCut' <=> IsCut
  BY DEF IsCut, PartSize, NumCopyParts
<1>2. CompleteSucceeded' <=> CompleteSucceeded
  BY DEF CompleteSucceeded
<1>3. HasResult => HasResult'
  BY DEF HasResult
<1> QED
  BY <1>1, <1>2, <1>3 DEF QuietInv, PlanInv

LEMMA ServiceSame ==
    ASSUME ServiceInv, UNCHANGED <<service, source>>,
           copy'.num_parts_sent = copy.num_parts_sent, copy'.etags = copy.etags,
           copy'.part_size = copy.part_size, copy'.content_length = copy.content_length,
           copy'.bypass = "done" => copy.bypass = "done", CompleteSucceeded' => CompleteSucceeded,
           copy'.create = "none" => copy.create = "none",
           \A r : Succeeded(r)' => Succeeded(r)
    PROVE  ServiceInv'
<1>1. \A n : PartRange(n)' = PartRange(n)
  BY DEF PartRange
<1>2. Bytes' = Bytes
  BY DEF Bytes
<1> QED
  BY <1>1, <1>2 DEF ServiceInv, CopyIsWhole

LEMMA ProgressSame ==
    ASSUME ProgressInv, UNCHANGED <<progress, events>>, finish_result' = "ok" => finish_result = "ok",
           copy'.bypass = "done" <=> copy.bypass = "done", copy'.content_length = copy.content_length,
           copy'.etags = copy.etags, copy'.part_size = copy.part_size
    PROVE  ProgressInv'
BY DEF ProgressInv
\* A result is no success while a request is in flight.
LEMMA NotOkInFlight ==
    ASSUME FlightInv, NEW r \in DOMAIN req
    PROVE  finish_result # "ok"
BY DEF FlightInv

LEMMA CleanBack ==
    ASSUME FlightInv, faults' \in Nat, faults' >= faults, stop_called' = stop_called, UNCHANGED initial, Clean'
    PROVE  Clean /\ faults' = faults
BY RetryAssumption DEF FlightInv, Clean

\* PipelineStep: the request goes on by itself.
LEMMA PipelineKeeps ==
    ASSUME CopyInv, NEW r, PipelineStep(r), UNCHANGED copyVars
    PROVE  FlightInv' /\ MessageInv' /\ PlanInv' /\ ServiceInv' /\ ProgressInv' /\ CleanInv'
<1>1. /\ StopInv /\ QuietInv /\ FlightInv /\ MessageInv /\ PlanInv /\ ServiceInv /\ ProgressInv
      /\ CleanInv
  BY DEF CopyInv
<1>2. /\ r \in DOMAIN req /\ req[r].stage # "finishing" /\ Advance(r) /\ NoAnswer(r)
  BY <1>1, PipelineEffect
<1>3. UNCHANGED <<copy, events, progress, headers, source, initial, message, service, reported>>
  BY DEF copyVars
<1>4. finish_result # "ok" /\ finish_result' # "ok" /\ (HasResult => UNCHANGED finish_result)
  BY <1>1, <1>2, NotOkInFlight DEF Advance, Errors, FatalErrors
<1>5. DOMAIN req' = DOMAIN req /\ UNCHANGED <<meta_finished, stop_called>>
      /\ faults' \in Nat /\ faults' >= faults
  BY <1>2 DEF Advance, OnlyOne
<1>6. \A s : Succeeded(s)' => Succeeded(s)
  BY <1>2 DEF Advance, OnlyOne, NoAnswer, Succeeded, At
<1>7. FlightInv'
  <2>1. req'[r].stage \in Built \/ Succeeded(r)' => r \in DOMAIN message'
    BY <1>1, <1>2, <1>3, <1>6 DEF FlightInv, NoAnswer
  <2> QED
    BY <1>1, <1>2, <1>3, <2>1, FlightAdvance
<1>8. MessageInv'
  BY <1>1, <1>3, <1>5, MessageSame
<1>9. PlanInv'
  BY <1>1, <1>3, <1>4, <1>5, PlanSame
<1>10. ServiceInv'
  BY <1>1, <1>3, <1>6, ServiceSame DEF CompleteSucceeded
<1>11. ProgressInv'
  BY <1>1, <1>3, <1>4, ProgressSame
<1>12. CleanInv'
  <2> SUFFICES ASSUME Clean' PROVE CleanInv!2'
    BY DEF CleanInv
  <2>1. Clean /\ faults' = faults
    BY <1>1, <1>3, <1>5, CleanBack
  <2>2. finish_result = "none" /\ req[r].code = "ok" /\ req[r].stage # "backoff"
        /\ HasSource(initial)
    BY <1>1, <1>2, <1>4, <2>1 DEF CleanInv, Clean
  <2>3. UNCHANGED finish_result /\ req'[r].code = "ok" /\ req'[r].stage \notin {"backoff", "finishing"}
    BY <1>2, <2>1, <2>2 DEF NoAnswer, HasResult
  <2>4. \A s \in DOMAIN req' : req'[s].code = "ok" /\ req'[s].stage # "backoff"
    BY <1>1, <1>2, <1>5, <2>1, <2>3 DEF CleanInv, Advance, OnlyOne
  <2>5. At(Req("complete"), "finishing") => At(Req("complete"), "finishing")'
    BY <1>2 DEF At, Advance, OnlyOne
  <2> QED
    BY <1>1, <1>3, <1>5, <1>6, <2>1, <2>2, <2>3, <2>4, <2>5 DEF CleanInv
<1> QED
  BY <1>7, <1>8, <1>9, <1>10, <1>11, <1>12
LEMMA CodeEffect ==
    ASSUME StopInv, NEW r \in DOMAIN req, NEW code, req' = [req EXCEPT ![r].code = code]
    PROVE  /\ OnlyOne(r) /\ req'[r].code = code /\ req'[r].stage = req[r].stage
           /\ req'[r].prepared = req[r].prepared /\ req'[r].retries = req[r].retries
           /\ req'[r].told = req[r].told
<1> DEFINE q == [req[r] EXCEPT !.code = code]
<1>1. req[r] \in RequestType
  BY DEF StopInv
<1>2. req' = [req EXCEPT ![r] = q]
  BY <1>1, Zenon DEF RequestType
<1>3. /\ q.stage = req[r].stage /\ q.code = code
      /\ q.prepared = req[r].prepared /\ q.retries = req[r].retries /\ q.told = req[r].told
  BY <1>1 DEF RequestType
<1> HIDE DEF q
<1> QED
  BY <1>2, <1>3, OneChanges, Zenon

\* headers_callback may turn the answer into a failure.
LEMMA HeadersCallbackKeeps ==
    ASSUME CopyInv, NEW r, HeadersCallback(r)
    PROVE  FlightInv' /\ MessageInv' /\ PlanInv' /\ ServiceInv' /\ ProgressInv' /\ CleanInv'
<1>1. /\ StopInv /\ QuietInv /\ FlightInv /\ MessageInv /\ PlanInv /\ ServiceInv /\ ProgressInv
      /\ CleanInv
  BY DEF CopyInv
<1>2. /\ r \in DOMAIN req /\ req[r].stage = "finishing"
      /\ UNCHANGED <<finish_result, meta_finished, stop_called, copy, events, progress, source,
                     initial, message, service, reported>>
      /\ \/ UNCHANGED req /\ NoFault
         \/ req' = [req EXCEPT ![r].code = "callback"] /\ Fault
  BY DEF HeadersCallback, At
<1>3. /\ OnlyOne(r) /\ req'[r].stage = req[r].stage /\ req'[r].prepared = req[r].prepared
      /\ req'[r].retries = req[r].retries /\ req'[r].told = req[r].told
      /\ faults' \in 0..MaxFaults /\ faults' >= faults
      /\ req'[r].code \in {req[r].code, "callback"}
      /\ faults' = faults => UNCHANGED req
  <2>1. CASE UNCHANGED req /\ NoFault
    BY <1>1, <2>1, FaultEffect DEF OnlyOne
  <2>2. CASE req' = [req EXCEPT ![r].code = "callback"] /\ Fault
    BY <1>1, <1>2, <2>2, FaultEffect, CodeEffect, Zenon
  <2> QED
    BY <1>2, <2>1, <2>2
<1>4. Advance(r)
  <2>1. AttemptFits(req[r]) /\ (~stop_called => ~req[r].told)
    BY <1>1, <1>2, Zenon DEF FlightInv
  <2> QED
    BY <1>2, <1>3, <2>1 DEF Advance, AttemptFits
<1>5. \A s : Succeeded(s)' => Succeeded(s)
  BY <1>2, <1>3 DEF OnlyOne, Succeeded, At
<1>6. DOMAIN req' = DOMAIN req /\ finish_result # "ok"
  BY <1>1, <1>2, <1>3, NotOkInFlight DEF OnlyOne
<1>7. FlightInv'
  <2>1. req'[r].stage \in Built \/ Succeeded(r)' => r \in DOMAIN message'
    BY <1>1, <1>2, <1>3, <1>5 DEF FlightInv
  <2> QED
    BY <1>1, <1>2, <1>4, <2>1, FlightAdvance
<1>8. MessageInv' /\ PlanInv' /\ ProgressInv'
  BY <1>1, <1>2, <1>6, MessageSame, PlanSame, ProgressSame
<1>9. ServiceInv'
  BY <1>1, <1>2, <1>5, ServiceSame DEF CompleteSucceeded
<1>10. CleanInv'
  <2> SUFFICES ASSUME Clean' PROVE CleanInv!2'
    BY DEF CleanInv
  <2>1. Clean /\ UNCHANGED req
    BY <1>1, <1>2, <1>3, CleanBack
  <2>2. CleanInv!2
    BY <1>1, <2>1 DEF CleanInv
  <2> QED
    BY <1>2, <2>1, <2>2 DEF Succeeded, At
<1> QED
  BY <1>7, <1>8, <1>9, <1>10

\* aws_s3_meta_request_cancel
LEMMA CancelKeeps ==
    ASSUME CopyInv, Cancel
    PROVE  FlightInv' /\ MessageInv' /\ PlanInv' /\ ServiceInv' /\ ProgressInv' /\ CleanInv'
<1>1. /\ StopInv /\ QuietInv /\ FlightInv /\ MessageInv /\ PlanInv /\ ServiceInv /\ ProgressInv
      /\ CleanInv
  BY DEF CopyInv
<1>2. /\ UNCHANGED <<meta_finished, faults, copy, events, progress, source, initial, message,
                     service, reported>>
      /\ stop_called' = TRUE /\ ~meta_finished /\ SetResult("canceled")
  BY DEF Cancel, Stop, copyVars
<1>3. finish_result # "ok" /\ finish_result' # "ok" /\ (HasResult => UNCHANGED finish_result)
      /\ finish_result' \in {"none", "ok"} \cup Errors
  BY <1>1, <1>2 DEF FlightInv, SetResult, HasResult, Errors
<1>4. /\ DOMAIN req' = DOMAIN req
      /\ \A r \in DOMAIN req :
            /\ req'[r].stage = req[r].stage /\ req'[r].code = req[r].code
            /\ req'[r].prepared = req[r].prepared /\ req'[r].retries = req[r].retries
  <2> DEFINE told(q) == IF q.stage = "active" /\ ~q.always_send
                        THEN [q EXCEPT !.told = TRUE] ELSE q
  <2>1. req' = [r \in DOMAIN req |-> told(req[r])]
    BY DEF Cancel, Stop
  <2>2. \A q \in RequestType :
           /\ told(q).stage = q.stage /\ told(q).code = q.code
           /\ told(q).prepared = q.prepared /\ told(q).retries = q.retries
    BY DEF RequestType
  <2> HIDE DEF told
  <2> QED
    BY <1>1, <2>1, <2>2 DEF StopInv
<1>5. \A s : Succeeded(s)' <=> Succeeded(s)
  BY <1>4 DEF Succeeded, At
<1>6. FlightInv'
  <2>1. \A r \in DOMAIN req' :
            /\ AttemptFits(req'[r])
            /\ req'[r].stage \in Built \/ Succeeded(r)' => r \in DOMAIN message'
            /\ ~stop_called' => ~req'[r].told
    <3> TAKE r \in DOMAIN req'
    <3>1. AttemptFits(req[r]) /\ (req[r].stage \in Built \/ Succeeded(r) => r \in DOMAIN message)
      BY <1>1, <1>4, Zenon DEF FlightInv
    <3> QED
      BY <1>2, <1>4, <1>5, <3>1 DEF AttemptFits
  <2> QED
    BY <1>1, <1>2, <1>3, <2>1 DEF FlightInv
<1>7. MessageInv' /\ PlanInv' /\ ProgressInv'
  BY <1>1, <1>2, <1>3, <1>4, MessageSame, PlanSame, ProgressSame
<1>8. ServiceInv'
  BY <1>1, <1>2, <1>5, ServiceSame DEF CompleteSucceeded
<1>9. CleanInv'
  BY <1>2 DEF CleanInv, Clean
<1> QED
  BY <1>6, <1>7, <1>8, <1>9

\* s_s3_meta_request_event_delivery_task
LEMMA DeliverKeeps ==
    ASSUME CopyInv, DeliverProgress
    PROVE  FlightInv' /\ MessageInv' /\ PlanInv' /\ ServiceInv' /\ ProgressInv' /\ CleanInv'
<1>1. /\ FlightInv /\ MessageInv /\ PlanInv /\ ServiceInv /\ ProgressInv /\ CleanInv /\ QuietInv
  BY DEF CopyInv
<1>2. /\ UNCHANGED <<finish_result, meta_finished, req, stop_called, faults, copy, source, initial,
                     message, service, reported>>
      /\ ~meta_finished /\ progress' = progress + SumFunction(events) /\ events' = << >>
  BY DEF DeliverProgress, attemptVars
<1>3. \A s : Succeeded(s)' <=> Succeeded(s)
  BY <1>2 DEF Succeeded, At
<1>4. FlightInv'
  BY <1>1, <1>2, <1>3 DEF FlightInv
<1>5. MessageInv' /\ PlanInv'
  BY <1>1, <1>2, MessageSame, PlanSame DEF FlightInv
<1>6. ServiceInv'
  BY <1>1, <1>2, <1>3, ServiceSame DEF CompleteSucceeded
<1>7. ProgressInv'
  <2>1. SumFunction(<< >>) = 0
    <3>1. << >> \in [{} -> Nat]
      OBVIOUS
    <3> QED
      BY <3>1, SumNone, Zenon
  <2>2. SumFunction(events) \in Nat
    <3> DEFINE D == 1..Len(events)
    <3>1. events \in [D -> Nat] /\ Len(events) \in Nat
      BY <1>1 DEF ProgressInv
    <3>2. IsFiniteSet(D)
      BY <3>1, FS_Interval
    <3> HIDE DEF D
    <3> QED
      BY <3>1, <3>2, SumType
  <2>3. progress \in Nat /\ << >> \in Seq(Nat)
    BY <1>1 DEF ProgressInv
  <2>4. progress' \in Nat /\ progress' + 0 = progress + SumFunction(events)
    BY <1>2, <2>2, <2>3
  <2> DEFINE was == progress + SumFunction(events)
  <2>5. /\ was = (IF copy.bypass = "done" THEN copy.content_length ELSE 0)
                   + Cardinality(copy.etags) * copy.part_size
        /\ progress' + SumFunction(events') = was
    BY <1>1, <1>2, <2>1, <2>4 DEF ProgressInv
  <2> HIDE DEF was
  <2> QED
    BY <1>2, <2>3, <2>4, <2>5 DEF ProgressInv
<1>8. CleanInv'
  BY <1>1, <1>2, <1>3 DEF CleanInv, Clean, At
<1> QED
  BY <1>4, <1>5, <1>6, <1>7, <1>8

\* The no_work_remaining branch of s_s3_copy_object_update
LEMMA FinishKeeps ==
    ASSUME CopyInv, UpdateFinish
    PROVE  FlightInv' /\ MessageInv' /\ PlanInv' /\ ServiceInv' /\ ProgressInv' /\ CleanInv'
<1>1. /\ FlightInv /\ MessageInv /\ PlanInv /\ ServiceInv /\ ProgressInv /\ CleanInv /\ QuietInv
  BY DEF CopyInv
<1>2. /\ UNCHANGED <<req, stop_called, faults, copy, events, progress, source, initial, message,
                     service>>
      /\ ~meta_finished /\ meta_finished' = TRUE /\ NoWorkRemaining /\ events = << >>
      /\ finish_result' = (IF HasResult THEN finish_result ELSE "ok")
      /\ reported' = finish_result'
  BY DEF UpdateFinish, SetResult
<1>3. finish_result # "ok" /\ (finish_result' = "ok" <=> ~HasResult) /\ HasResult'
      /\ finish_result' \in {"none", "ok"} \cup Errors
  BY <1>1, <1>2 DEF FlightInv, HasResult
<1>4. \A s : Succeeded(s)' <=> Succeeded(s)
  BY <1>2 DEF Succeeded, At
<1>5. ~HasResult => DOMAIN req = {}
  <2>1. QuietInv'
    BY <1>1, QuietFinish
  <2>2. DOMAIN req \subseteq {Req("head"), Req("bypass")}
    BY <1>2, <2>1 DEF QuietInv, FinishIsQuiet
  <2>3. ~HasResult => copy.head # "sent" /\ copy.bypass # "sent"
    BY <1>1, <1>2 DEF NoWorkRemaining, QuietInv, OrderInv
  <2> QED
    BY <1>1, <2>2, <2>3 DEF QuietInv, FlagsInv
<1>6. FlightInv'
  BY <1>1, <1>2, <1>3, <1>4, <1>5 DEF FlightInv
<1>7. MessageInv'
  BY <1>1, <1>2, MessageSame
<1>8. PlanInv'
  <2>1. IsCut' <=> IsCut
    BY <1>2 DEF IsCut, PartSize, NumCopyParts
  <2>2. CompleteSucceeded' <=> CompleteSucceeded
    BY <1>2 DEF CompleteSucceeded
  <2>3. ~HasResult => copy.bypass = "done" \/ CompleteSucceeded
    BY <1>1, <1>2 DEF NoWorkRemaining, PlanInv, CompleteSucceeded
  <2>4. HasResult => copy.create = "none" \/ CompleteSucceeded \/ ~copy.upload_id \/ copy.abort = "done"
    BY <1>2 DEF NoWorkRemaining
  <2> QED
    BY <1>1, <1>2, <1>3, <2>1, <2>2, <2>3, <2>4 DEF PlanInv
<1>9. ServiceInv'
  BY <1>1, <1>2, <1>4, ServiceSame DEF CompleteSucceeded
<1>10. ProgressInv'
  BY <1>1, <1>2 DEF ProgressInv
<1>11. CleanInv'
  BY <1>1, <1>2, <1>4 DEF CleanInv, Clean, At, HasResult
<1> QED
  BY <1>6, <1>7, <1>8, <1>9, <1>10, <1>11
-----------------------------------------------------------------------------
\* s_s3_copy_object_update hands out a request.
LEMMA SendEffect ==
    ASSUME QuietInv, NEW tag \in Tags, NEW type, NEW alwaysSend, Update, Send(tag, type, alwaysSend)
    PROVE  copy[tag] = "none" /\ Sent(tag) /\ Handed(Req(tag))
<1>1. copy \in CopyType /\ copy[tag] = "none" /\ copy' = [copy EXCEPT ![tag] = "sent"]
  BY DEF QuietInv, Send
<1>2. Sent(tag)
  <2>1. CASE tag = "head"
    BY <1>1, <2>1 DEF Sent, CopyType
  <2>2. CASE tag = "bypass"
    BY <1>1, <2>2 DEF Sent, CopyType
  <2>3. CASE tag = "create"
    BY <1>1, <2>3 DEF Sent, CopyType
  <2>4. CASE tag = "complete"
    BY <1>1, <2>4 DEF Sent, CopyType
  <2>5. CASE tag = "abort"
    BY <1>1, <2>5 DEF Sent, CopyType
  <2> QED
    BY <2>1, <2>2, <2>3, <2>4, <2>5 DEF Tags
<1>3. Req(tag) \notin DOMAIN req
  BY <1>1 DEF QuietInv, FlagsInv, Tags
<1>4. Handed(Req(tag))
  BY <1>3, HandEffect DEF Handed, Send, Update
<1> QED
  BY <1>1, <1>2, <1>4

\* The requests that are no part, each with the condition it is handed out on.
LEMMA SendKeeps ==
    ASSUME CopyInv, NEW tag \in Tags, copy[tag] = "none", Sent(tag), Handed(Req(tag)),
           tag = "complete" => ~HasResult /\ copy.create = "done"
    PROVE  FlightInv' /\ MessageInv' /\ PlanInv' /\ ServiceInv' /\ ProgressInv' /\ CleanInv'
<1>1. /\ FlightInv /\ MessageInv /\ PlanInv /\ ServiceInv /\ ProgressInv /\ CleanInv /\ QuietInv
  BY DEF CopyInv
<1>2. /\ UNCHANGED <<finish_result, meta_finished, stop_called, faults, events, progress, source,
                     initial, message, service, reported>>
      /\ ~meta_finished /\ finish_result # "ok" /\ DOMAIN req' = DOMAIN req \cup {Req(tag)}
  BY <1>1 DEF Handed, FlightInv
<1>3. \A s : Succeeded(s)' <=> Succeeded(s)
  BY DEF Handed, Succeeded, At
<1>4. FlightInv'
  BY <1>1, FlightHanded
<1>5. MessageInv'
  <2>1. \A r : Build(r)' = Build(r)
    BY <1>2, BuildSame DEF Sent
  <2> QED
    BY <1>1, <1>2, <2>1 DEF MessageInv
<1>6. /\ copy'.head = "done" => copy.head = "done"
      /\ copy'.bypass = "done" <=> copy.bypass = "done"
      /\ copy'.create = "done" <=> copy.create = "done"
      /\ copy'.create = "none" => copy.create = "none"
      /\ copy'.complete = "done" => copy.complete = "done"
      /\ copy'.complete = "none" => copy.complete = "none"
  BY DEF Sent, Tags
<1>7. CompleteSucceeded' => CompleteSucceeded
  BY <1>6 DEF CompleteSucceeded, Sent
<1>8. PlanInv'
  <2>1. IsCut' <=> IsCut
    BY DEF IsCut, PartSize, NumCopyParts, Sent
  <2>2. \A n : PartReq(n) # Req(tag)
    BY DEF PartReq, Req, Tags
  <2>3. copy'.complete # "none" => copy.upload_id
    BY <1>1 DEF Sent, PlanInv
  <2>4. HasResult' <=> HasResult
    BY <1>2 DEF HasResult
  <2>5. copy'.complete = "done" => copy'.complete_error = copy.complete_error /\ copy.complete = "done"
    BY <1>6 DEF Sent
  <2> QED
    BY SMTT(20), <1>1, <1>2, <1>6, <2>1, <2>2, <2>3, <2>4, <2>5 DEF PlanInv, Sent
<1>9. ServiceInv'
  BY <1>1, <1>2, <1>3, <1>6, <1>7, ServiceSame DEF Sent
<1>10. ProgressInv'
  BY <1>1, <1>2, <1>6, ProgressSame DEF Sent
<1>11. CleanInv'
  <2> SUFFICES ASSUME Clean' PROVE CleanInv!2'
    BY DEF CleanInv
  <2>1. CleanInv!2
    BY <1>1, <1>2 DEF CleanInv, Clean
  <2>2. \A s \in DOMAIN req' : req'[s].code = "ok" /\ req'[s].stage # "backoff"
    BY <2>1 DEF Handed
  <2>3. Req("complete") \in DOMAIN req' /\ ~At(Req("complete"), "finishing")' => service.upload = "open"
    <3>1. CASE tag = "complete"
      BY <2>1, <3>1
    <3>2. CASE tag # "complete"
      <4>1. Req("complete") # Req(tag)
        BY <3>2 DEF Req
      <4> QED
        BY <2>1, <4>1 DEF Handed, At
    <3> QED
      BY <3>1, <3>2
  <2> QED
    BY <1>2, <1>3, <1>6, <2>1, <2>2, <2>3
<1> QED
  BY <1>4, <1>5, <1>8, <1>9, <1>10, <1>11
LEMMA PartKeeps ==
    ASSUME CopyInv, Update, UpdatePart
    PROVE  FlightInv' /\ MessageInv' /\ PlanInv' /\ ServiceInv' /\ ProgressInv' /\ CleanInv'
<1> DEFINE sent == copy.num_parts_sent
           next == sent + 1
<1>1. /\ FlightInv /\ MessageInv /\ PlanInv /\ ServiceInv /\ ProgressInv /\ CleanInv /\ QuietInv
  BY DEF CopyInv
<1>2. /\ copy \in CopyType /\ sent \in Nat /\ next \in Nat
      /\ copy' = [copy EXCEPT !.num_parts_sent = next]
      /\ ~HasResult /\ copy.create = "done"
  BY <1>1 DEF QuietInv, CopyType, UpdatePart
<1>3. PartReq(next) \notin DOMAIN req
  <2>1. \A n \in 1..sent : PartReq(next) # PartReq(n)
    BY <1>2 DEF PartReq
  <2>2. \A tag \in Tags : PartReq(next) # Req(tag)
    BY DEF PartReq, Req, Tags
  <2> QED
    BY <1>1, <2>1, <2>2 DEF QuietInv, FlagsInv
<1>4. Handed(PartReq(next))
  BY <1>3, HandEffect, Zenon DEF Handed, UpdatePart, Update
<1>5. /\ copy'.head = copy.head /\ copy'.bypass = copy.bypass /\ copy'.create = copy.create
      /\ copy'.complete = copy.complete /\ copy'.abort = copy.abort
      /\ copy'.complete_error = copy.complete_error /\ copy'.upload_id = copy.upload_id
      /\ copy'.content_length = copy.content_length /\ copy'.part_size = copy.part_size
      /\ copy'.total_num_parts = copy.total_num_parts /\ copy'.etags = copy.etags
      /\ copy'.num_parts_sent = next
  BY <1>2 DEF CopyType
<1>6. 1..next = (1..sent) \cup {next} /\ next \notin 1..sent
  BY <1>2
<1> HIDE DEF next
<1>7. /\ UNCHANGED <<finish_result, meta_finished, stop_called, faults, events, progress, source,
                     initial, message, service, reported>>
      /\ ~meta_finished /\ finish_result # "ok" /\ DOMAIN req' = DOMAIN req \cup {PartReq(next)}
  BY <1>1, <1>4 DEF Handed, FlightInv
<1>8. \A s : Succeeded(s)' <=> Succeeded(s)
  BY <1>4 DEF Handed, Succeeded, At
<1>9. \A tag \in Tags : PartReq(next) # Req(tag)
  BY DEF PartReq, Req, Tags
<1>10. CompleteSucceeded' <=> CompleteSucceeded
  BY <1>5 DEF CompleteSucceeded
<1>11. FlightInv'
  BY <1>1, <1>4, FlightHanded
<1>12. MessageInv'
  <2>1. \A r : Build(r)' = Build(r)
    BY <1>5, <1>7, BuildSame
  <2> QED
    BY <1>1, <1>7, <2>1 DEF MessageInv
<1>13. PlanInv'
  <2>1. IsCut' /\ copy.upload_id
    BY <1>1, <1>2, <1>5 DEF PlanInv, IsCut, PartSize, NumCopyParts
  <2>2. \A n \in 1..sent : PartReq(n) # PartReq(next)
    BY <1>6 DEF PartReq
  <2>3. HasResult' <=> HasResult
    BY <1>7 DEF HasResult
  <2> QED
    BY SMTT(20), <1>1, <1>2, <1>5, <1>6, <1>7, <1>10, <2>1, <2>2, <2>3 DEF PlanInv
<1>14. ServiceInv'
  <2>1. \A n : PartRange(n)' = PartRange(n)
    BY <1>5 DEF PartRange
  <2>2. Bytes' = Bytes
    BY <1>7 DEF Bytes
  <2>3. ~Succeeded(PartReq(next))
    BY <1>3 DEF Succeeded, At
  <2> QED
    BY SMTT(20), <1>1, <1>5, <1>6, <1>7, <1>8, <1>10, <2>1, <2>2, <2>3 DEF ServiceInv, CopyIsWhole
<1>15. ProgressInv'
  BY <1>1, <1>5, <1>7, ProgressSame
<1>16. CleanInv'
  <2> SUFFICES ASSUME Clean' PROVE CleanInv!2'
    BY DEF CleanInv
  <2>1. CleanInv!2
    BY <1>1, <1>7 DEF CleanInv, Clean
  <2>2. \A s \in DOMAIN req' : req'[s].code = "ok" /\ req'[s].stage # "backoff"
    BY <1>4, <2>1 DEF Handed
  <2>3. Req("complete") # PartReq(next)
    BY <1>9 DEF Tags
  <2>4. Req("complete") \in DOMAIN req' => Req("complete") \in DOMAIN req
                                          /\ req'[Req("complete")] = req[Req("complete")]
    BY <1>4, <2>3 DEF Handed
  <2> QED
    BY <1>5, <1>7, <1>8, <2>1, <2>2, <2>4 DEF At
<1> QED
  BY <1>11, <1>12, <1>13, <1>14, <1>15, <1>16

LEMMA UpdateKeeps ==
    ASSUME CopyInv, Update
    PROVE  FlightInv' /\ MessageInv' /\ PlanInv' /\ ServiceInv' /\ ProgressInv' /\ CleanInv'
<1>1. QuietInv
  BY DEF CopyInv
<1>2. CASE UpdatePart
  BY <1>2, PartKeeps
<1>3. ASSUME NEW tag \in Tags, NEW type, NEW alwaysSend, Send(tag, type, alwaysSend),
             tag = "complete" => ~HasResult /\ copy.create = "done"
      PROVE  FlightInv' /\ MessageInv' /\ PlanInv' /\ ServiceInv' /\ ProgressInv' /\ CleanInv'
  <2>1. copy[tag] = "none" /\ Sent(tag) /\ Handed(Req(tag))
    BY <1>1, <1>3, SendEffect
  <2> QED
    BY <1>3, <2>1, SendKeeps
<1>4. CASE UpdateHead \/ UpdateBypass \/ UpdateCreate \/ UpdateAbort
  BY <1>3, <1>4, Zenon DEF UpdateHead, UpdateBypass, UpdateCreate, UpdateAbort, Tags
<1>5. CASE UpdateComplete
  BY <1>3, <1>5, Zenon DEF UpdateComplete, Tags
<1> QED
  BY <1>2, <1>4, <1>5 DEF Update
-----------------------------------------------------------------------------
\* s_s3_copy_object_prepare_request moves the request on, or ends it.
LEMMA PrepareEffect ==
    ASSUME StopInv, FlightInv, NEW r, PrepareRequest(r)
    PROVE  /\ r \in DOMAIN req /\ req[r].stage = "preparing" /\ Advance(r)
           /\ \/ /\ SetupSendData(r) /\ req'[r].stage \in {"credentials", "session", "signing"}
                 /\ req'[r].code = req[r].code /\ UNCHANGED finish_result
              \/ /\ UNCHANGED message /\ req'[r].stage = "finishing" /\ req'[r].code = "prepare"
                 /\ ~Clean'
<1>1. /\ r \in DOMAIN req /\ req[r].stage = "preparing"
      /\ UNCHANGED <<meta_finished, stop_called, initial>>
  BY DEF PrepareRequest, At
<1>2. CASE ToSigning(r, r[1] \in {"bypass", "part"}) /\ SetupSendData(r)
           /\ UNCHANGED finish_result /\ NoFault
  <2>1. PICK stage \in {"credentials", "session", "signing"} : Move(r, stage)
    BY <1>2 DEF ToSigning
  <2>2. /\ OnlyOne(r) /\ req'[r].stage = stage
        /\ req'[r].prepared = req[r].prepared /\ req'[r].retries = req[r].retries
        /\ req'[r].told = req[r].told /\ req'[r].code = req[r].code
    BY <1>1, <2>1, MoveEffect, Zenon
  <2>3. AttemptFits(req[r]) /\ (~stop_called => ~req[r].told)
    BY <1>1 DEF FlightInv
  <2>4. AttemptFits(req'[r])
    BY <1>1, <2>2, <2>3 DEF AttemptFits, Early
  <2>5. Advance(r)
    BY <1>1, <1>2, <2>2, <2>3, <2>4, FaultEffect DEF Advance
  <2> QED
    BY <1>1, <1>2, <2>2, <2>5
<1>3. CASE /\ (NoFault /\ ~HasSource(initial)) \/ Fault
           /\ Prepared(r, "prepare") /\ UNCHANGED message
  <2>1. "prepare" \in Errors /\ "prepare" # "ok"
    BY DEF Errors
  <2>2. Advance(r)
    BY <1>1, <1>3, <2>1, AdvancePrepared DEF Early
  <2>3. req'[r].stage = "finishing" /\ req'[r].code = "prepare"
    BY <1>1, <1>3, PreparedEffect
  <2>4. ~Clean'
    <3>1. CASE ~HasSource(initial)
      BY <1>1, <3>1 DEF Clean
    <3>2. CASE Fault
      BY <3>2, FaultEffect DEF Clean, FlightInv
    <3> QED
      BY <1>3, <3>1, <3>2
  <2> QED
    BY <1>1, <1>3, <2>2, <2>3, <2>4
<1> QED
  BY <1>2, <1>3 DEF PrepareRequest

\* It cuts the source into parts while no part exists.
LEMMA PrepareCuts ==
    ASSUME QuietInv, PlanInv, NEW r, PrepareRequest(r)
    PROVE  /\ copy' \in CopyType
           /\ copy'.head = copy.head /\ copy'.bypass = copy.bypass /\ copy'.create = copy.create
           /\ copy'.complete = copy.complete /\ copy'.abort = copy.abort
           /\ copy'.complete_error = copy.complete_error /\ copy'.upload_id = copy.upload_id
           /\ copy'.content_length = copy.content_length
           /\ copy'.num_parts_sent = copy.num_parts_sent /\ copy'.etags = copy.etags
           /\ IF r = Req("create")
              THEN /\ IsCut' /\ copy.num_parts_sent = 0 /\ copy.etags = {}
                   /\ copy.complete = "none" /\ ~copy.upload_id
              ELSE copy' = copy
<1>1. copy \in CopyType
  BY DEF QuietInv
<1>2. CASE r # Req("create")
  <2>1. copy' = copy
    BY <1>2 DEF PrepareRequest
  <2> QED
    BY <1>1, <1>2, <2>1
<1>3. CASE r = Req("create")
  <2>1. copy.create = "sent"
    BY <1>3 DEF QuietInv, FlagsInv, PrepareRequest, At
  <2>2. PartSize \in Nat /\ NumCopyParts \in Nat
    BY <1>1, PartSizeType DEF CopyType
  <2>3. copy' = [copy EXCEPT !.part_size = PartSize, !.total_num_parts = NumCopyParts]
    BY <1>3 DEF PrepareRequest
  <2>4. /\ copy' \in CopyType
        /\ copy'.head = copy.head /\ copy'.bypass = copy.bypass /\ copy'.create = copy.create
        /\ copy'.complete = copy.complete /\ copy'.abort = copy.abort
        /\ copy'.complete_error = copy.complete_error /\ copy'.upload_id = copy.upload_id
        /\ copy'.content_length = copy.content_length
        /\ copy'.num_parts_sent = copy.num_parts_sent /\ copy'.etags = copy.etags
        /\ copy'.part_size = PartSize /\ copy'.total_num_parts = NumCopyParts
    BY <1>1, <2>2, <2>3, Zenon DEF CopyType
  <2>5. IsCut'
    BY <2>4 DEF IsCut, PartSize, NumCopyParts
  <2>6. copy.num_parts_sent = 0 /\ copy.complete = "none" /\ ~copy.upload_id
    BY <1>1, <2>1 DEF QuietInv, OrderInv, CopyType, PlanInv
  <2>7. copy.etags = {}
    BY <2>6 DEF PlanInv
  <2> QED
    BY <1>3, <2>4, <2>5, <2>6, <2>7
<1> QED
  BY <1>2, <1>3
LEMMA PrepareKeeps ==
    ASSUME CopyInv, NEW r, PrepareRequest(r)
    PROVE  FlightInv' /\ MessageInv' /\ PlanInv' /\ ServiceInv' /\ ProgressInv' /\ CleanInv'
<1>1. /\ FlightInv /\ MessageInv /\ PlanInv /\ ServiceInv /\ ProgressInv /\ CleanInv /\ QuietInv
      /\ StopInv
  BY DEF CopyInv
<1> DEFINE Signs == /\ SetupSendData(r) /\ req'[r].stage \in {"credentials", "session", "signing"}
                    /\ req'[r].code = req[r].code /\ UNCHANGED finish_result
           Fails == /\ UNCHANGED message /\ req'[r].stage = "finishing" /\ req'[r].code = "prepare"
                    /\ ~Clean'
<1>2. r \in DOMAIN req /\ req[r].stage = "preparing" /\ Advance(r) /\ (Signs \/ Fails)
  BY <1>1, PrepareEffect
<1>3. /\ copy'.head = copy.head /\ copy'.bypass = copy.bypass /\ copy'.create = copy.create
      /\ copy'.complete = copy.complete /\ copy'.abort = copy.abort
      /\ copy'.complete_error = copy.complete_error /\ copy'.upload_id = copy.upload_id
      /\ copy'.content_length = copy.content_length
      /\ copy'.num_parts_sent = copy.num_parts_sent /\ copy'.etags = copy.etags
      /\ copy' \in CopyType
  BY <1>1, PrepareCuts, Zenon
<1>4. IF r = Req("create")
      THEN /\ IsCut' /\ copy.num_parts_sent = 0 /\ copy.etags = {}
           /\ copy.complete = "none" /\ ~copy.upload_id
      ELSE copy' = copy
  BY <1>1, PrepareCuts, Zenon
<1>5. UNCHANGED <<events, progress, source, initial, service, reported>>
  BY DEF PrepareRequest
<1>6. finish_result # "ok" /\ finish_result' # "ok" /\ (HasResult => UNCHANGED finish_result)
  BY <1>1, <1>2, NotOkInFlight DEF Advance, Errors, FatalErrors
<1>7. DOMAIN req' = DOMAIN req /\ UNCHANGED <<meta_finished, stop_called>>
      /\ faults' \in Nat /\ faults' >= faults
  BY <1>2 DEF Advance, OnlyOne
<1>8. \A s : Succeeded(s)' => Succeeded(s)
  BY <1>2 DEF Advance, OnlyOne, Succeeded, At
<1>9. /\ DOMAIN message \subseteq DOMAIN message' /\ DOMAIN message' \subseteq DOMAIN message \cup {r}
      /\ Signs => r \in DOMAIN message' /\ message'[r] = Build(r)
      /\ \A s \in DOMAIN message : message'[s] = message[s] \/ (s = r /\ message'[s] = Build(r))
  <2>1. CASE Signs
    <3>1. /\ DOMAIN message' = DOMAIN message \cup {r} /\ message'[r] = Build(r)
          /\ \A x \in DOMAIN message : x # r => message'[x] = message[x]
      <4> DEFINE m == Build(r)
      <4>1. message' = With(message, r, m)
        BY <2>1 DEF SetupSendData
      <4> HIDE DEF m, Signs
      <4>2. /\ DOMAIN message' = DOMAIN message \cup {r} /\ message'[r] = m
            /\ \A x \in DOMAIN message : x # r => message'[x] = message[x]
        BY <4>1, Zenon DEF With
      <4> QED
        BY <4>2 DEF m
    <3> QED
      BY <3>1, Zenon
  <2>2. CASE ~Signs
    BY <1>2, <2>2
  <2> QED
    BY <2>1, <2>2
<1> HIDE DEF Signs, Fails
<1>10. FlightInv'
  <2>1. req'[r].stage \in Built \/ Succeeded(r)' => r \in DOMAIN message'
    BY <1>1, <1>2, <1>8, <1>9 DEF FlightInv, Signs, Fails, Built
  <2> QED
    BY <1>1, <1>2, <1>5, <1>9, <2>1, FlightAdvance
<1>11. MessageInv'
  <2>1. \A s \in DOMAIN message \cup {r} : Build(s)' = Build(s)
    <3>1. CASE r # Req("create")
      BY <1>4, <1>5, <3>1, BuildSame
    <3>2. CASE r = Req("create")
      <4> TAKE s \in DOMAIN message \cup {r}
      <4>1. s \in DOMAIN req
        BY <1>1, <1>2 DEF MessageInv
      <4>2. \A n \in 1..copy.num_parts_sent : FALSE
        BY <1>4, <3>2
      <4>3. PICK tag \in Tags : s = Req(tag)
        BY <1>1, <4>1, <4>2 DEF QuietInv, FlagsInv
      <4>4. tag # "complete"
        BY <1>1, <1>4, <3>2, <4>1, <4>3 DEF QuietInv, FlagsInv
      <4>5. s[1] \notin {"part", "complete"}
        BY <4>3, <4>4 DEF Req, Tags
      <4> QED
        BY <1>5, <4>5, BuildSame
    <3> QED
      BY <3>1, <3>2
  <2>2. \A s \in DOMAIN message' : message'[s] = Build(s)
    <3> TAKE s \in DOMAIN message'
    <3>1. CASE s \in DOMAIN message
      BY <1>1, <1>9, <3>1 DEF MessageInv
    <3>2. CASE s \notin DOMAIN message
      BY <1>2, <1>9, <3>2 DEF Fails
    <3> QED
      BY <3>1, <3>2
  <2>3. \A s \in DOMAIN message' : message'[s] = Build(s)'
    BY <1>9, <2>1, <2>2, Zenon
  <2>4. DOMAIN message' \subseteq DOMAIN req'
    BY <1>1, <1>2, <1>7, <1>9 DEF MessageInv
  <2> QED
    BY <1>1, <1>5, <2>3, <2>4, Zenon DEF MessageInv
<1>12. PlanInv'
  <2>1. Req("create") \in DOMAIN message' \/ copy'.num_parts_sent > 0 \/ copy'.upload_id => IsCut'
    <3>1. CASE r # Req("create")
      <4>1. IsCut' <=> IsCut
        BY <1>4, <3>1 DEF IsCut, PartSize, NumCopyParts
      <4>2. Req("create") \in DOMAIN message' => Req("create") \in DOMAIN message
        BY <1>9, <3>1
      <4> QED
        BY <1>1, <1>3, <4>1, <4>2 DEF PlanInv
    <3> QED
      BY <1>4, <3>1
  <2>2. CompleteSucceeded' <=> CompleteSucceeded
    BY <1>3 DEF CompleteSucceeded
  <2>3. (HasResult => HasResult') /\ (meta_finished => HasResult)
    BY <1>1, <1>6 DEF HasResult, QuietInv
  <2> QED
    BY SMTT(20), <1>1, <1>3, <1>5, <1>6, <1>7, <2>1, <2>2, <2>3 DEF PlanInv
<1>13. ServiceInv'
  <2>1. CASE r # Req("create")
    BY SMTT(20), <1>1, <1>4, <1>5, <1>8, <2>1, ServiceSame DEF CompleteSucceeded
  <2>2. CASE r = Req("create")
    <3>1. DOMAIN service.stored = {} /\ 1..copy.num_parts_sent = {}
      <4>1. 1..copy.num_parts_sent = {}
        BY <1>4, <2>2
      <4>2. DOMAIN service.stored \subseteq 1..copy.num_parts_sent
        BY <1>1, Zenon DEF ServiceInv
      <4> QED
        BY <4>1, <4>2, Zenon
    <3>2. Bytes' = Bytes
      BY <1>5 DEF Bytes
    <3>3. CompleteSucceeded' <=> CompleteSucceeded
      BY <1>3 DEF CompleteSucceeded
    <3> QED
      BY <1>1, <1>3, <1>5, <1>8, <3>1, <3>2, <3>3 DEF ServiceInv, CopyIsWhole
  <2> QED
    BY <2>1, <2>2
<1>14. ProgressInv'
  <2>1. Cardinality(copy'.etags) * copy'.part_size = Cardinality(copy.etags) * copy.part_size
    <3>1. CASE r # Req("create")
      BY <1>4, <3>1
    <3>2. CASE r = Req("create")
      <4>1. Cardinality(copy.etags) = 0
        BY <1>4, <3>2, FS_EmptySet
      <4>2. copy.part_size \in Nat /\ copy'.part_size \in Nat
        BY <1>1, <1>3 DEF QuietInv, CopyType
      <4> QED
        BY <1>3, <4>1, <4>2
    <3> QED
      BY <3>1, <3>2
  <2> QED
    BY <1>1, <1>3, <1>5, <1>6, <2>1, Zenon DEF ProgressInv
<1>15. CleanInv'
  <2> SUFFICES ASSUME Clean' PROVE CleanInv!2'
    BY DEF CleanInv
  <2>1. Clean /\ Signs
    BY <1>1, <1>2, <1>5, <1>7, CleanBack DEF Fails
  <2>2. CleanInv!2
    BY <1>1, <2>1 DEF CleanInv
  <2>3. /\ UNCHANGED finish_result /\ req'[r].code = req[r].code
        /\ req'[r].stage \notin {"backoff", "finishing"}
    BY <2>1 DEF Signs
  <2>4. \A s \in DOMAIN req' : req'[s].code = "ok" /\ req'[s].stage # "backoff"
    BY <1>2, <1>7, <2>2, <2>3 DEF Advance, OnlyOne
  <2>5. At(Req("complete"), "finishing") => At(Req("complete"), "finishing")'
    BY <1>2 DEF At, Advance, OnlyOne
  <2> QED
    BY SMTT(20), <1>3, <1>5, <1>7, <1>8, <2>2, <2>3, <2>4, <2>5
<1> QED
  BY <1>10, <1>11, <1>12, <1>13, <1>14, <1>15
-----------------------------------------------------------------------------
\* What the builders of s3_request_messages.c put into a message.
LEMMA BuildHead ==
    LET m == Build(Req("head"))
    IN  m.headers = ForwardHeaders(initial.headers) /\ m.upload = FALSE
BY DEF Build, Req, HeadMessage, Message

LEMMA BuildBypass ==
    LET m == Build(Req("bypass"))
    IN  m.headers = initial.headers /\ m.upload = FALSE
BY DEF Build, Req, BypassMessage, Message

LEMMA BuildCreate ==
    LET m == Build(Req("create"))
    IN  /\ m.headers = CopyHeaders(initial.headers, CreateExcluded, FALSE, TRUE) \cup {"length"}
        /\ m.upload = FALSE
BY Zenon DEF Build, Req, CreateMessage, Message

LEMMA BuildPart ==
    ASSUME NEW n
    PROVE  LET m == Build(PartReq(n))
           IN  /\ m.headers = CopyHeaders(initial.headers, PartExcluded, TRUE, TRUE) \cup {"length"}
               /\ m.upload = TRUE /\ m.range = PartRange(n)
<1> DEFINE h == CopyHeaders(initial.headers, PartExcluded, TRUE, TRUE) \cup {"length"}
<1>1. Build(PartReq(n)) = PartCopyMessage(initial, PartRange(n))
  BY DEF Build, PartReq
<1> DEFINE p == PartRange(n)
<1>2. PartCopyMessage(initial, p) = [[Message(h) EXCEPT !.upload = TRUE] EXCEPT !.range = p]
  BY DEF PartCopyMessage, OfUpload
<1> HIDE DEF h, p
<1>3. LET m == [[Message(h) EXCEPT !.upload = TRUE] EXCEPT !.range = p]
      IN  m.headers = h /\ m.upload = TRUE /\ m.range = p
  BY DEF Message
<1> QED
  BY <1>1, <1>2, <1>3, Zenon DEF h, p

LEMMA BuildComplete ==
    LET m == Build(Req("complete"))
    IN  /\ m.headers = CopyHeaders(initial.headers, CompleteExcluded, TRUE, FALSE) \cup {"length"}
        /\ m.upload = TRUE /\ m.object_size = copy.content_length
        /\ m.parts = [n \in 1..copy.total_num_parts |-> n \in copy.etags]
<1> DEFINE h == CopyHeaders(initial.headers, CompleteExcluded, TRUE, FALSE) \cup {"length"}
           p == [n \in 1..copy.total_num_parts |-> n \in copy.etags]
           l == copy.content_length
<1>1. Build(Req("complete")) = CompleteMessage(initial, p, l)
  BY DEF Build, Req
<1>2. CompleteMessage(initial, p, l) =
         [[Message(h) EXCEPT !.upload = TRUE] EXCEPT !.parts = p, !.object_size = l]
  BY DEF CompleteMessage, OfUpload
<1> HIDE DEF h, p, l
<1>3. LET m == [[Message(h) EXCEPT !.upload = TRUE] EXCEPT !.parts = p, !.object_size = l]
      IN  m.headers = h /\ m.upload = TRUE /\ m.parts = p /\ m.object_size = l
  BY DEF Message
<1> QED
  BY <1>1, <1>2, <1>3, Zenon DEF h, p, l

LEMMA BuildAbort ==
    LET m == Build(Req("abort"))
    IN  m.headers = CopyHeaders(initial.headers, AbortExcluded, TRUE, TRUE) /\ m.upload = TRUE
<1> DEFINE h == CopyHeaders(initial.headers, AbortExcluded, TRUE, TRUE)
<1>1. Build(Req("abort")) = AbortMessage(initial)
  BY DEF Build, Req
<1> QED
  BY <1>1, Zenon DEF AbortMessage, OfUpload, Message

\* The parts the service holds, in the terms of the cut.
LEMMA StoredParts ==
    ASSUME CopyInv, copy.complete # "none"
    PROVE  /\ Cuts(source, copy.part_size, copy.total_num_parts)
           /\ copy.content_length = source /\ source \in Nat
           /\ copy.part_size \in Nat /\ copy.total_num_parts \in Nat
           /\ \A n \in DOMAIN service.stored :
                 service.stored[n] = RangeOf(source, copy.part_size, n)
<1>1. QuietInv /\ PlanInv /\ ServiceInv
  BY DEF CopyInv
<1>2. copy.content_length = source /\ source \in Nat /\ IsCut
  BY <1>1 DEF QuietInv, OrderInv, PlanInv
<1>3. copy.part_size \in Nat /\ copy.total_num_parts \in Nat
  BY <1>1 DEF QuietInv, CopyType
<1>4. \A n : PartRange(n) = RangeOf(copy.content_length, copy.part_size, n)
  BY DEF PartRange, RangeOf
<1> QED
  BY <1>1, <1>2, <1>3, <1>4, CutFits DEF ServiceInv
\* What the service does on behalf of each kind of request.
LEMMA ExecutedEffect ==
    ASSUME IsService(service)
    PROVE  /\ Executed(Req("head")) = service
           /\ LET s == Executed(Req("bypass"))
              IN  /\ s.object = Bytes /\ s.upload = service.upload /\ s.stored = service.stored
                  /\ IsService(s)
           /\ LET s == Executed(Req("create"))
              IN  /\ s.object = service.object /\ s.upload = "open" /\ s.stored = << >>
                  /\ IsService(s)
           /\ LET s == Executed(Req("complete"))
              IN  /\ s.upload = "done" /\ s.stored = service.stored /\ IsService(s)
                  /\ s.object = UNION {service.stored[n] : n \in DOMAIN message[Req("complete")].parts}
           /\ LET s == Executed(Req("abort"))
              IN  /\ s.object = service.object /\ s.upload = "aborted" /\ s.stored = service.stored
                  /\ IsService(s)
<1> DEFINE O == service.object
           U == service.upload
           P == service.orphans
           S == service.stored
           B == Bytes
           more == P + (IF U = "open" THEN 1 ELSE 0)
           whole == UNION {service.stored[n] : n \in DOMAIN message[Req("complete")].parts}
<1>1. service = [object |-> O, upload |-> U, orphans |-> P, stored |-> S]
  BY DEF IsService
<1>2. Executed(Req("head")) = service
  BY DEF Executed, Req
<1>3. Executed(Req("bypass")) = [service EXCEPT !.object = B]
  BY DEF Executed, Req
<1>4. Executed(Req("create")) = [service EXCEPT !.upload = "open", !.stored = << >>, !.orphans = more]
  BY <1>1 DEF Executed, Req
<1>5. Executed(Req("complete")) = [service EXCEPT !.upload = "done", !.object = whole]
  BY DEF Executed, Req
<1>6. Executed(Req("abort")) = [service EXCEPT !.upload = "aborted"]
  BY DEF Executed, Req
<1> HIDE DEF O, U, P, S, B, more, whole
<1>7. LET s == Executed(Req("bypass"))
      IN  s.object = B /\ s.upload = U /\ s.stored = S /\ IsService(s)
  BY <1>1, <1>3 DEF IsService
<1>8. LET s == Executed(Req("create"))
      IN  s.object = O /\ s.upload = "open" /\ s.stored = << >> /\ IsService(s)
  BY <1>1, <1>4, Zenon DEF IsService
<1>9. LET s == Executed(Req("complete"))
      IN  s.upload = "done" /\ s.stored = S /\ s.object = whole /\ IsService(s)
  BY <1>1, <1>5, Zenon DEF IsService
<1>10. LET s == Executed(Req("abort"))
       IN  s.object = O /\ s.upload = "aborted" /\ s.stored = S /\ IsService(s)
  BY <1>1, <1>6 DEF IsService
<1> QED
  BY <1>2, <1>7, <1>8, <1>9, <1>10, Zenon DEF O, U, S, B, whole

LEMMA ExecutedPart ==
    ASSUME IsService(service), NEW n
    PROVE  LET s == Executed(PartReq(n))
           IN  /\ s.object = service.object /\ s.upload = service.upload
               /\ s.stored = With(service.stored, n, message[PartReq(n)].range)
               /\ IsService(s)
<1> DEFINE O == service.object
           U == service.upload
           P == service.orphans
           S == service.stored
           x == With(S, n, message[PartReq(n)].range)
<1>1. service = [object |-> O, upload |-> U, orphans |-> P, stored |-> S]
  BY DEF IsService
<1>2. Executed(PartReq(n)) = [service EXCEPT !.stored = x]
  BY <1>1 DEF Executed, PartReq
<1> HIDE DEF O, U, P, S, x
<1>3. LET s == Executed(PartReq(n))
      IN  s.object = O /\ s.upload = U /\ s.stored = x /\ IsService(s)
  BY <1>1, <1>2 DEF IsService
<1> QED
  BY <1>3, Zenon DEF O, U, S, x
\* The service executes a request: an object it makes is the whole source.
LEMMA ExecutedKeeps ==
    ASSUME CopyInv, NEW r \in DOMAIN req, r \in DOMAIN message, CanExecute(r),
           service' = Executed(r), UNCHANGED <<copy, source>>,
           \A s : Succeeded(s)' => Succeeded(s) \/ s = r
    PROVE  ServiceInv'
<1>1. FlightInv /\ MessageInv /\ PlanInv /\ ServiceInv /\ QuietInv /\ IsService(service)
  BY DEF CopyInv, ServiceInv
<1>2. (\A n : PartRange(n)' = PartRange(n)) /\ Bytes' = Bytes
      /\ (CompleteSucceeded' <=> CompleteSucceeded)
  BY DEF PartRange, Bytes, CompleteSucceeded
<1>3. \A s : Succeeded(s) => s \in DOMAIN req
  BY DEF Succeeded, At
<1>4. \A n : \A tag \in Tags : Req(tag) # PartReq(n)
  BY DEF Req, PartReq, Tags
<1>5. CASE r = Req("head")
  <2>1. service' = service
    BY <1>1, <1>5, ExecutedEffect
  <2>2. \A n : Succeeded(PartReq(n))' => Succeeded(PartReq(n))
    BY <1>4, <1>5 DEF Tags
  <2>3. Req("head") # Req("bypass") /\ Req("head") # Req("complete")
    BY DEF Req
  <2> QED
    BY <1>1, <1>2, <1>5, <2>1, <2>2, <2>3 DEF ServiceInv, CopyIsWhole
<1>6. CASE r = Req("bypass")
  <2>1. /\ service'.object = Bytes /\ service'.upload = service.upload
        /\ service'.stored = service.stored /\ IsService(service')
    BY <1>1, <1>6, ExecutedEffect
  <2>2. \A n : Succeeded(PartReq(n))' => Succeeded(PartReq(n))
    BY <1>4, <1>6 DEF Tags
  <2>3. Req("bypass") # Req("complete")
    BY DEF Req
  <2> QED
    BY <1>1, <1>2, <1>6, <2>1, <2>2, <2>3 DEF ServiceInv, CopyIsWhole
<1>7. CASE r = Req("create")
  <2>1. /\ service'.object = service.object /\ service'.stored = << >> /\ IsService(service')
    BY <1>1, <1>7, ExecutedEffect
  <2>2. copy.create = "sent"
    BY <1>1, <1>7 DEF QuietInv, FlagsInv
  <2>3. copy.complete = "none" /\ copy.num_parts_sent = 0 /\ copy.bypass = "none"
    BY <1>1, <2>2 DEF QuietInv, OrderInv, CopyType
  <2>4. copy.etags = {} /\ 1..copy.num_parts_sent = {}
    BY <1>1, <2>3 DEF PlanInv
  <2>5. ~Succeeded(Req("complete"))' /\ ~Succeeded(Req("bypass"))' /\ ~CompleteSucceeded
    <3>1. Req("complete") # r /\ Req("bypass") # r
      BY <1>7 DEF Req
    <3> QED
      BY <1>1, <1>3, <2>3, <3>1 DEF QuietInv, FlagsInv, CompleteSucceeded
  <2> QED
    BY SMTT(20), <1>1, <1>2, <2>1, <2>2, <2>3, <2>4, <2>5 DEF ServiceInv, CopyIsWhole
<1>8. CASE \E n \in 1..copy.num_parts_sent : r = PartReq(n)
  <2>1. PICK n \in 1..copy.num_parts_sent : r = PartReq(n)
    BY <1>8
  <2>2. message[PartReq(n)].range = PartRange(n)
    BY <1>1, <2>1, BuildPart, Zenon DEF MessageInv
  <2>3. /\ service'.object = service.object /\ service'.upload = service.upload
        /\ service'.stored = With(service.stored, n, PartRange(n)) /\ IsService(service')
    BY <1>1, <2>1, <2>2, ExecutedPart
  <2>4. /\ DOMAIN service'.stored = DOMAIN service.stored \cup {n}
        /\ \A m \in DOMAIN service'.stored :
              service'.stored[m] = IF m = n THEN PartRange(n) ELSE service.stored[m]
    BY <2>3 DEF With
  <2>5. \A m : Succeeded(PartReq(m))' => Succeeded(PartReq(m)) \/ m = n
    BY <2>1 DEF PartReq
  <2>6. /\ Succeeded(Req("complete"))' => Succeeded(Req("complete"))
        /\ Succeeded(Req("bypass"))' => Succeeded(Req("bypass"))
    BY <1>4, <2>1 DEF Tags
  <2> QED
    BY <1>1, <1>2, <2>3, <2>4, <2>5, <2>6 DEF ServiceInv, CopyIsWhole
<1>9. CASE r = Req("complete")
  <2>1. copy.complete = "sent"
    BY <1>1, <1>9 DEF QuietInv, FlagsInv
  <2>2. message[r] = Build(r) /\ DOMAIN message[r].parts = 1..copy.total_num_parts
    BY <1>1, <1>9, BuildComplete DEF MessageInv
  <2>3. /\ service'.upload = "done" /\ service'.stored = service.stored /\ IsService(service')
        /\ service'.object = UNION {service.stored[n] : n \in 1..copy.total_num_parts}
    BY <1>1, <1>9, <2>2, ExecutedEffect, Zenon
  <2>4. \A n \in 1..copy.total_num_parts : n \in DOMAIN service.stored
    BY <1>9, <2>2, Zenon DEF CanExecute, Completes, Req
  <2>5. \A n \in 1..copy.total_num_parts :
           service.stored[n] = RangeOf(source, copy.part_size, n)
    BY <2>1, <2>4, StoredParts
  <2>6. {service.stored[n] : n \in 1..copy.total_num_parts}
          = {RangeOf(source, copy.part_size, n) : n \in 1..copy.total_num_parts}
    BY <2>5, Zenon
  <2>7. service'.object = Bytes
    <3>1. /\ Cuts(source, copy.part_size, copy.total_num_parts) /\ source \in Nat
          /\ copy.part_size \in Nat /\ copy.total_num_parts \in Nat
      BY <2>1, StoredParts
    <3>2. UNION {RangeOf(source, copy.part_size, n) : n \in 1..copy.total_num_parts}
            = 0..(source - 1)
      BY <3>1, PartsCover, Zenon
    <3> QED
      BY <2>3, <2>6, <3>2, Zenon DEF Bytes
  <2>8. \A n : Succeeded(PartReq(n))' => Succeeded(PartReq(n))
    BY <1>4, <1>9 DEF Tags
  <2>9. copy.create # "none"
    BY <1>1, <2>1 DEF QuietInv, OrderInv
  <2> QED
    BY SMTT(20), <1>1, <1>2, <2>3, <2>7, <2>8, <2>9 DEF ServiceInv, CopyIsWhole
<1>10. CASE r = Req("abort")
  <2>1. /\ service'.object = service.object /\ service'.stored = service.stored
        /\ IsService(service')
    BY <1>1, <1>10, ExecutedEffect
  <2>2. copy.abort = "sent"
    BY <1>1, <1>10 DEF QuietInv, FlagsInv
  <2>3. ~CompleteSucceeded /\ copy.create = "done"
    BY <1>1, <2>2 DEF QuietInv, OrderInv, WoundDown
  <2>4. DOMAIN req = {r}
    BY <1>1, <1>10, QuietAbort DEF AbortIsAlone
  <2>5. ~Succeeded(Req("complete"))'
    <3>1. Req("complete") # r
      BY <1>10 DEF Req
    <3> QED
      BY <1>3, <2>4, <3>1
  <2>6. Succeeded(Req("bypass"))' => Succeeded(Req("bypass"))
    <3>1. Req("bypass") # r
      BY <1>10 DEF Req
    <3> QED
      BY <3>1
  <2>7. \A n : Succeeded(PartReq(n))' => Succeeded(PartReq(n))
    BY <1>4, <1>10 DEF Tags
  <2> QED
    BY SMTT(20), <1>1, <1>2, <2>1, <2>3, <2>5, <2>6, <2>7 DEF ServiceInv, CopyIsWhole
<1> QED
  BY <1>1, <1>5, <1>6, <1>7, <1>8, <1>9, <1>10 DEF QuietInv, FlagsInv, Tags
\* Without a failure of the environment the service can do what it is asked:
\* the upload is open, the source named, and the parts add up.
LEMMA CleanCanExecute ==
    ASSUME CopyInv, Clean, NEW r \in DOMAIN req, req[r].stage = "active"
    PROVE  CanExecute(r)
<1>1. FlightInv /\ MessageInv /\ PlanInv /\ ServiceInv /\ QuietInv /\ CleanInv
  BY DEF CopyInv
<1>2. r \in DOMAIN message /\ message[r] = Build(r)
  BY <1>1 DEF FlightInv, MessageInv, Built
<1>3. finish_result = "none" /\ ~HasResult
  BY <1>1, NotOkInFlight DEF CleanInv, HasResult
<1>4. "source" \in initial.headers
  BY <1>1 DEF MessageInv, Clean, HasSource
<1>5. CASE r = Req("head") \/ r = Req("create")
  BY <1>2, <1>5, BuildHead, BuildCreate DEF CanExecute, Req
<1>6. CASE r = Req("bypass")
  BY <1>2, <1>4, <1>6, BuildBypass DEF CanExecute, Req
<1>7. CASE \E n \in 1..copy.num_parts_sent : r = PartReq(n)
  <2>1. PICK n \in 1..copy.num_parts_sent : r = PartReq(n)
    BY <1>7
  <2>2. copy.num_parts_sent \in Nat /\ copy.num_parts_completed \in Nat /\ copy.create = "done"
    BY <1>1 DEF QuietInv, CopyType, OrderInv
  <2>3. copy.complete = "none"
    BY <1>1, <2>1, <2>2, NoPartInFlight DEF QuietInv, OrderInv
  <2>4. service.upload = "open"
    BY <1>1, <2>2, <2>3 DEF CleanInv
  <2>5. "source" \in CopyHeaders(initial.headers, PartExcluded, TRUE, TRUE)
    BY <1>4 DEF CopyHeaders, PartExcluded
  <2>6. "source" \in message[r].headers
    BY <1>2, <2>1, <2>5, BuildPart, Zenon
  <2> QED
    BY <2>1, <2>4, <2>6 DEF CanExecute, PartReq
<1>8. CASE r = Req("complete")
  <2>1. copy.complete = "sent"
    BY <1>1, <1>8 DEF QuietInv, FlagsInv
  <2>2. service.upload = "open"
    BY <1>1, <1>8 DEF CleanInv, At
  <2> DEFINE total == copy.total_num_parts
             part == copy.part_size
  <2>3. /\ Cuts(source, part, total) /\ copy.content_length = source /\ source \in Nat
        /\ part \in Nat /\ total \in Nat
        /\ \A n \in DOMAIN service.stored : service.stored[n] = RangeOf(source, part, n)
    BY <2>1, StoredParts
  <2>4. copy.num_parts_sent = total /\ copy.num_parts_completed >= copy.num_parts_sent
    <3>1. copy.num_parts_sent \in Nat /\ copy.num_parts_completed \in Nat
      BY <1>1 DEF QuietInv, CopyType
    <3> QED
      BY <1>1, <2>1, <2>3, <3>1 DEF QuietInv, OrderInv, PartsLeft
  <2>5. \A n \in 1..total : n \in copy.etags
    BY <1>1, <1>3, <2>4, NoPartInFlight DEF PlanInv
  <2>6. \A n \in 1..total : n \in DOMAIN service.stored /\ service.stored[n] = RangeOf(source, part, n)
    BY <1>1, <2>3, <2>5 DEF ServiceInv
  <2>7. /\ DOMAIN message[r].parts = 1..total /\ message[r].object_size = source
        /\ \A n \in 1..total : message[r].parts[n] = (n \in copy.etags)
    BY <1>2, <1>8, <2>3, BuildComplete
  <2> HIDE DEF total, part
  <2>8. [n \in 1..total |-> Cardinality(service.stored[n])]
          = [n \in 1..total |-> Cardinality(RangeOf(source, part, n))]
    BY <2>6, Zenon
  <2>9. SumFunction([n \in 1..total |-> Cardinality(RangeOf(source, part, n))]) = source
    BY <2>3, PartsAddUp, Zenon
  <2>10. SumFunction([n \in DOMAIN message[r].parts |-> Cardinality(service.stored[n])]) = source
    BY <2>7, <2>8, <2>9, Zenon
  <2>11. Completes(message[r])
    BY <2>5, <2>6, <2>7, <2>10, Zenon DEF Completes
  <2> QED
    BY <1>8, <2>2, <2>11 DEF CanExecute, Req
<1>9. CASE r = Req("abort")
  BY <1>1, <1>3, <1>9 DEF QuietInv, FlagsInv, OrderInv
<1> QED
  BY <1>1, <1>5, <1>6, <1>7, <1>8, <1>9 DEF QuietInv, FlagsInv, Tags

\* The end of an HTTP stream
LEMMA ReplyKeeps ==
    ASSUME CopyInv, NEW r, Reply(r)
    PROVE  FlightInv' /\ MessageInv' /\ PlanInv' /\ ServiceInv' /\ ProgressInv' /\ CleanInv'
<1>1. /\ FlightInv /\ MessageInv /\ PlanInv /\ ServiceInv /\ ProgressInv /\ CleanInv /\ QuietInv
      /\ StopInv /\ IsService(service)
  BY DEF CopyInv, ServiceInv
<1>2. r \in DOMAIN req /\ req[r].stage = "active" /\ Advance(r) /\ Answer(r)
  BY <1>1, ReplyEffect
<1>3. UNCHANGED <<copy, events, progress, source, initial, message, reported>>
  BY DEF Reply
<1>4. finish_result # "ok" /\ UNCHANGED finish_result
  BY <1>1, <1>2, NotOkInFlight DEF Answer
<1>5. DOMAIN req' = DOMAIN req /\ UNCHANGED <<meta_finished, stop_called>>
      /\ faults' \in Nat /\ faults' >= faults
  BY <1>2 DEF Advance, OnlyOne
<1>6. r \in DOMAIN message
  BY <1>1, <1>2 DEF FlightInv, Built
<1>7. \A s : Succeeded(s)' => Succeeded(s) \/ (s = r /\ req'[r].code = "ok")
  BY <1>2 DEF Advance, OnlyOne, Succeeded, At
<1>8. FlightInv'
  BY <1>1, <1>2, <1>3, <1>6, FlightAdvance
<1>9. MessageInv' /\ PlanInv' /\ ProgressInv'
  BY <1>1, <1>3, <1>4, <1>5, MessageSame, PlanSame, ProgressSame
<1>10. ServiceInv'
  <2>1. CASE CanExecute(r) /\ service' = Executed(r)
    BY <1>2, <1>3, <1>6, <1>7, <2>1, ExecutedKeeps
  <2>2. CASE service' = service /\ req'[r].code # "ok"
    BY <1>1, <1>3, <1>7, <2>2, ServiceSame DEF CompleteSucceeded
  <2> QED
    BY <1>2, <2>1, <2>2 DEF Answer
<1>11. CleanInv'
  <2> SUFFICES ASSUME Clean' PROVE CleanInv!2'
    BY DEF CleanInv
  <2>1. Clean /\ faults' = faults
    BY <1>1, <1>3, <1>5, CleanBack
  <2>2. CanExecute(r) /\ ~req[r].told
    BY <1>1, <1>2, <2>1, CleanCanExecute DEF Clean, FlightInv
  <2>3. req'[r].code = "ok" /\ req'[r].stage = "finishing" /\ service' = Executed(r)
    BY <1>2, <2>1, <2>2 DEF Answer
  <2>4. CleanInv!2 /\ ~HasResult
    BY <1>1, <1>4, <2>1 DEF CleanInv, HasResult
  <2>5. \A s \in DOMAIN req' : req'[s].code = "ok" /\ req'[s].stage # "backoff"
    BY <1>2, <1>5, <2>3, <2>4 DEF Advance, OnlyOne
  <2>6. r # Req("abort")
    BY <1>1, <1>2, <2>4 DEF QuietInv, FlagsInv, OrderInv
  <2>7. CASE r = Req("create")
    <3>1. service'.upload = "open"
      BY <1>1, <2>3, <2>7, ExecutedEffect
    <3> QED
      BY <1>4, <2>4, <2>5, <3>1
  <2>8. CASE r = Req("complete")
    <3>1. copy.complete = "sent" /\ copy.create = "done"
      BY <1>1, <1>2, <2>8 DEF QuietInv, FlagsInv, OrderInv
    <3>2. Req("create") \notin DOMAIN req
      BY <1>1, <3>1 DEF QuietInv, FlagsInv
    <3>3. ~Succeeded(Req("create"))' /\ At(Req("complete"), "finishing")'
      BY SMTT(20), <1>2, <1>5, <2>3, <2>8, <3>2 DEF Succeeded, At
    <3> QED
      BY <1>3, <1>4, <2>4, <2>5, <3>1, <3>3, Zenon
  <2>9. CASE r # Req("create") /\ r # Req("complete")
    <3>1. service'.upload = service.upload
      <4>1. CASE r = Req("head") \/ r = Req("bypass")
        BY <1>1, <2>3, <4>1, ExecutedEffect
      <4>2. CASE \E n \in 1..copy.num_parts_sent : r = PartReq(n)
        BY <1>1, <2>3, <4>2, ExecutedPart
      <4> QED
        BY <1>1, <1>2, <2>6, <2>9, <4>1, <4>2, Zenon DEF QuietInv, FlagsInv, Tags
    <3>2. Succeeded(Req("create"))' => Succeeded(Req("create"))
      BY <1>7, <2>9
    <3>3. At(Req("complete"), "finishing") => At(Req("complete"), "finishing")'
      BY <1>2, <2>9 DEF At, Advance, OnlyOne
    <3> QED
      BY <1>3, <1>4, <1>5, <2>4, <2>5, <3>1, <3>2, <3>3, Zenon
  <2> QED
    BY <2>7, <2>8, <2>9
<1> QED
  BY <1>8, <1>9, <1>10, <1>11
=============================================================================
