-------------------------- MODULE PutPrepareProofs --------------------------
(***************************************************************************)
(* Proofs about PutPrepare for uploads and pools of every size: the pool's *)
(* books balance, every ticket holds memory of its own, and the parts of a *)
(* sequential upload are prepared in order.                                *)
(*                                                                         *)
(* The invariant Inv has four layers: the books of the pool                *)
(* (BufferPoolProofs); Holders0, which request holds, awaits or has been   *)
(* promised a ticket; LoopInv, which callbacks are scheduled; and OrderInv,*)
(* which parts the loop has prepared. Each layer is kept by every action   *)
(* given the ones before it.                                               *)
(***************************************************************************)
EXTENDS PutPrepare, BufferPoolProofs

-----------------------------------------------------------------------------
(***************************************************************************)
(* The requests: what their stages, futures and tickets have to do with    *)
(* each other.                                                             *)
(***************************************************************************)
Stages == {"absent", "new", "handed", "reserved", "waiting", "queued", "dropping",
           "prepared", "claimed", "done"}
Futures == {"none", "open", "granted", "failed"}
Going == {"queued", "dropping", "prepared", "claimed"}

\* Stage st, future fu and ticket tk of the request r.
OneOK(st, fu, tk, r) ==
    /\ st \in {"absent", "new", "handed"} <=> fu = "none"
    /\ fu = "open" => st \in {"reserved", "waiting"}
    /\ st \in Going => fu = "granted"
    /\ fu = "granted" /\ st # "done" => tk # NoTicket
    /\ tk.state = "claimed" <=> st = "claimed"
    /\ tk.state = "reserved" /\ tk.forced => r.kind = "write"
    /\ st \in {"handed", "reserved", "waiting", "queued", "dropping"} => r.kind # "write"

Caught(r) == \E done \in captured : r \in Range(done)
Disjoint(sequences) == \A d, e \in sequences : d # e => \A x \in Range(d) : x \notin Range(e)

HolderTypes ==
    /\ stage \in [Request -> Stages] /\ future \in [Request -> Futures]
    /\ pending_reserves \in Seq(Request) /\ IsInjective(pending_reserves)
    /\ captured \in SUBSET Seq(Request)

RequestInv == \A r \in Request : OneOK(stage[r], future[r], ticket[r], r)

OwnedInv ==
    \A r \in Request : ticket[r] # NoTicket => (future[r] = "granted" /\ stage[r] # "done") \/ Caught(r)

PendingInv == \A x \in Range(pending_reserves) : ticket[x] = NoTicket /\ future[x] \in {"open", "failed"}

CaughtInv ==
    /\ \A d \in captured : /\ d # << >> /\ IsInjective(d)
                           /\ \A x \in Range(d) : IsWaiting(ticket[x]) /\ future[x] \in {"open", "failed"}
    /\ Disjoint(captured)

Holders0 == HolderTypes /\ RequestInv /\ OwnedInv /\ PendingInv /\ CaughtInv

\* Only the stages of requests change.
LEMMA StageStep ==
    ASSUME Holders0, UNCHANGED <<pending_reserves, ticket, future, captured>>,
           stage' \in [Request -> Stages],
           \A x \in Request : OneOK(stage'[x], future[x], ticket[x], x),
           \A x \in Request : stage'[x] = "done" => stage[x] = "done" \/ future[x] = "failed"
    PROVE  Holders0'
<1>1. HolderTypes' /\ RequestInv'
  BY Zenon DEF Holders0, HolderTypes, RequestInv
<1>2. OwnedInv'
  <2>1. \A x \in Request : Caught(x)' <=> Caught(x)
    BY Zenon DEF Caught
  <2>2. ASSUME NEW x \in Request, ticket[x] # NoTicket
        PROVE  (future[x] = "granted" /\ stage'[x] # "done") \/ Caught(x)
    <3>1. (future[x] = "granted" /\ stage[x] # "done") \/ Caught(x)
      BY <2>2, Zenon DEF Holders0, OwnedInv
    <3> QED
      BY <3>1
  <2> QED
    BY <2>1, <2>2, Zenon DEF OwnedInv
<1>3. PendingInv' /\ CaughtInv'
  BY Zenon DEF Holders0, PendingInv, CaughtInv
<1> QED
  BY <1>1, <1>2, <1>3, Zenon DEF Holders0

LEMMA Moves ==
    ASSUME stage \in [Request -> Stages], NEW r \in Request, NEW to \in Stages, MoveTo(r, to)
    PROVE  stage' \in [Request -> Stages] /\ stage'[r] = to /\ \A x \in Request : x # r => stage'[x] = stage[x]
BY DEF MoveTo

LEMMA HandOutHolders ==
    ASSUME Holders0, NEW r \in Request, HandOut(r)
    PROVE  Holders0'
<1>1. stage[r] = "new" /\ r.kind # "write" /\ MoveTo(r, "handed")
      /\ UNCHANGED <<pending_reserves, ticket, future, captured>>
  BY Zenon DEF HandOut, poolVars
<1>2. stage \in [Request -> Stages] /\ \A x \in Request : OneOK(stage[x], future[x], ticket[x], x)
  BY Zenon DEF Holders0, HolderTypes, RequestInv
<1>3. "handed" \in Stages
  BY DEF Stages
<1>4. /\ stage' \in [Request -> Stages] /\ stage'[r] = "handed"
      /\ \A x \in Request : x # r => stage'[x] = stage[x]
  BY <1>1, <1>2, <1>3, Moves, Zenon
<1>5. OneOK("handed", future[r], ticket[r], r)
  <2>1. OneOK("new", future[r], ticket[r], r)
    BY <1>1, <1>2, Zenon
  <2> QED
    BY <1>1, <2>1 DEF OneOK, Going
<1>6. \A x \in Request : OneOK(stage'[x], future[x], ticket[x], x)
  BY <1>2, <1>4, <1>5, Zenon
<1>7. \A x \in Request : stage'[x] = "done" => stage[x] = "done" \/ future[x] = "failed"
  BY <1>4
<1> QED
  BY <1>1, <1>4, <1>6, <1>7, StageStep, Zenon

LEMMA RegisterHolders ==
    ASSUME Holders0, NEW r \in Request, RegisterCallback(r)
    PROVE  Holders0'
<1>1. stage[r] = "reserved" /\ MoveTo(r, "waiting") /\ UNCHANGED <<pending_reserves, ticket, future, captured>>
  BY Zenon DEF RegisterCallback, poolVars
<1>2. stage \in [Request -> Stages] /\ \A x \in Request : OneOK(stage[x], future[x], ticket[x], x)
  BY Zenon DEF Holders0, HolderTypes, RequestInv
<1>3. "waiting" \in Stages
  BY DEF Stages
<1>4. /\ stage' \in [Request -> Stages] /\ stage'[r] = "waiting"
      /\ \A x \in Request : x # r => stage'[x] = stage[x]
  BY <1>1, <1>2, <1>3, Moves, Zenon
<1>5. OneOK("waiting", future[r], ticket[r], r)
  <2>1. OneOK("reserved", future[r], ticket[r], r)
    BY <1>1, <1>2, Zenon
  <2> QED
    BY <2>1 DEF OneOK, Going
<1>6. \A x \in Request : OneOK(stage'[x], future[x], ticket[x], x)
  BY <1>2, <1>4, <1>5, Zenon
<1>7. \A x \in Request : stage'[x] = "done" => stage[x] = "done" \/ future[x] = "failed"
  BY <1>4
<1> QED
  BY <1>1, <1>4, <1>6, <1>7, StageStep, Zenon

\* The sequences `others' hold what is caught, save r.
Keeps(others, r) ==
    /\ others \in SUBSET Seq(Request) /\ Disjoint(others)
    /\ \A d \in others : d # << >> /\ IsInjective(d) /\ \A x \in Range(d) : x # r /\ Caught(x)
    /\ \A x \in Request : Caught(x) /\ x # r => \E d \in others : x \in Range(d)

LEMMA ServedOK ==
    ASSUME NEW st, NEW tk, NEW old, NEW r, OneOK(st, "open", old, r), IsWaiting(tk)
    PROVE  OneOK(st, "open", tk, r)
BY DEF OneOK, IsWaiting, Going

LEMMA ResumeHolders ==
    ASSUME Holders0, NEW r \in Request, ticket[r] # NoTicket, NEW others, Keeps(others, r),
           NEW d, Resumed(r, others, d), UNCHANGED future,
           stage' \in [Request -> Stages], OneOK(stage'[r], future[r], NoTicket, r),
           \A x \in Request : x # r => stage'[x] = stage[x]
    PROVE  Holders0'
<1>1. /\ HolderTypes /\ \A x \in Request : OneOK(stage[x], future[x], ticket[x], x)
      /\ \A x \in Range(pending_reserves) : ticket[x] = NoTicket /\ future[x] \in {"open", "failed"}
  BY Zenon DEF Holders0, RequestInv, PendingInv
<1>2. \A x \in Request : Caught(x) => IsWaiting(ticket[x]) /\ future[x] \in {"open", "failed"}
  BY Zenon DEF Holders0, CaughtInv, Caught
<1>3. /\ d \in Seq(Request) /\ IsInjective(d)
      /\ pending_reserves' \in Seq(Request) /\ IsInjective(pending_reserves')
      /\ \A x \in Range(d) : /\ x \in Request /\ x \in Range(pending_reserves) /\ future[x] # "failed"
                             /\ IsWaiting(ticket'[x]) /\ x \notin Range(pending_reserves')
      /\ \A x \in Range(pending_reserves') : x \in Range(pending_reserves)
      /\ captured' = others \cup (IF d = << >> THEN {} ELSE {d})
      /\ ticket'[r] = NoTicket
      /\ \A x \in Request : x # r /\ x \notin Range(d) => ticket'[x] = ticket[x]
  BY Zenon DEF Resumed
<1>4. /\ others \in SUBSET Seq(Request) /\ Disjoint(others)
      /\ \A e \in others : e # << >> /\ IsInjective(e) /\ \A x \in Range(e) : x # r /\ Caught(x)
      /\ \A x \in Request : Caught(x) /\ x # r => \E e \in others : x \in Range(e)
  BY Zenon DEF Keeps
<1>5. \A e : e \in captured' <=> e \in others \/ (e = d /\ d # << >>)
  BY <1>3
<1>6. \A x \in Range(d) : future[x] = "open" /\ x # r
  BY <1>1, <1>3
<1>7. ASSUME NEW x \in Request, Caught(x)
      PROVE  x \notin Range(d) /\ x \notin Range(pending_reserves)
  <2>1. ticket[x] # NoTicket
    BY <1>2, <1>7 DEF IsWaiting, NoTicket
  <2> QED
    BY <1>1, <1>3, <2>1, Zenon
<1>8. HolderTypes'
  <2>1. captured' \in SUBSET Seq(Request)
    BY <1>3, <1>4, <1>5, Zenon
  <2> QED
    BY <1>1, <1>3, <2>1, Zenon DEF HolderTypes
<1>9. RequestInv'
  <2>1. ASSUME NEW x \in Request
        PROVE  OneOK(stage'[x], future[x], ticket'[x], x)
    <3>1. CASE x = r
      BY <1>3, <3>1, Zenon
    <3>2. CASE x # r /\ x \in Range(d)
      <4>1. OneOK(stage[x], "open", ticket[x], x) /\ IsWaiting(ticket'[x]) /\ future[x] = "open"
        BY <1>1, <1>3, <1>6, <3>2, Zenon
      <4>2. OneOK(stage[x], "open", ticket'[x], x)
        BY <4>1, ServedOK, Zenon
      <4> QED
        BY <3>2, <4>1, <4>2, Zenon
    <3>3. CASE x # r /\ x \notin Range(d)
      BY <1>1, <1>3, <3>3, Zenon
    <3> QED
      BY <3>1, <3>2, <3>3, Zenon
  <2> QED
    BY <2>1, Zenon DEF RequestInv
<1>10. \A x \in Request : Caught(x)' <=> \E e \in captured' : x \in Range(e)
  BY Zenon DEF Caught
<1>11. OwnedInv'
  <2>1. ASSUME NEW x \in Request, ticket'[x] # NoTicket
        PROVE  (future[x] = "granted" /\ stage'[x] # "done") \/ \E e \in captured' : x \in Range(e)
    <3>1. x # r
      BY <1>3, <2>1, Zenon
    <3>2. CASE x \in Range(d)
      <4>1. d # << >>
        BY <3>2 DEF Range
      <4> QED
        BY <1>5, <3>2, <4>1, Zenon
    <3>3. CASE x \notin Range(d)
      <4>1. ticket[x] # NoTicket /\ stage'[x] = stage[x]
        BY <1>3, <2>1, <3>1, <3>3, Zenon
      <4>2. (future[x] = "granted" /\ stage[x] # "done") \/ Caught(x)
        BY <4>1, Zenon DEF Holders0, OwnedInv
      <4>3. Caught(x) => \E e \in captured' : x \in Range(e)
        BY <1>4, <1>5, <3>1, Zenon
      <4> QED
        BY <4>1, <4>2, <4>3, Zenon
    <3> QED
      BY <3>2, <3>3, Zenon
  <2> QED
    BY <1>10, <2>1, Zenon DEF OwnedInv
<1>12. PendingInv'
  <2>1. ASSUME NEW x \in Range(pending_reserves')
        PROVE  ticket'[x] = NoTicket /\ future[x] \in {"open", "failed"}
    <3>1. x \in Range(pending_reserves) /\ x \notin Range(d) /\ ticket[x] = NoTicket
          /\ future[x] \in {"open", "failed"}
      BY <1>1, <1>3, Zenon
    <3>2. x \in Request /\ x # r
      BY <1>3, <3>1 DEF Range
    <3> QED
      BY <1>3, <3>1, <3>2, Zenon
  <2> QED
    BY <2>1, Zenon DEF PendingInv
<1>13. ASSUME NEW e \in captured'
       PROVE  /\ e # << >> /\ IsInjective(e)
              /\ \A x \in Range(e) : IsWaiting(ticket'[x]) /\ future[x] \in {"open", "failed"}
  <2>1. CASE e \in others
    <3>1. \A x \in Range(e) : x \in Request
      BY <1>4, <2>1 DEF Range
    <3>2. \A x \in Range(e) : x # r /\ Caught(x) /\ x \notin Range(d)
      BY <1>4, <1>7, <2>1, <3>1, Zenon
    <3>3. \A x \in Range(e) : IsWaiting(ticket'[x]) /\ future[x] \in {"open", "failed"}
      BY <1>2, <1>3, <3>1, <3>2, Zenon
    <3> QED
      BY <1>4, <2>1, <3>3, Zenon
  <2>2. CASE e = d /\ d # << >>
    BY <1>3, <1>6, <2>2, Zenon
  <2> QED
    BY <1>5, <2>1, <2>2, Zenon
<1>14. Disjoint(captured')
  <2>1. ASSUME NEW e \in captured', NEW g \in captured', e # g, NEW x \in Range(e)
        PROVE  x \notin Range(g)
    <3>0. (e \in others \/ e = d) /\ (g \in others \/ g = d)
      BY <1>5, Zenon
    <3>1. CASE e \in others /\ g \in others
      BY <1>4, <2>1, <3>1, Zenon DEF Disjoint
    <3>2. CASE e \in others /\ g = d
      <4>1. x \in Request
        BY <1>4, <3>2 DEF Range
      <4> QED
        BY <1>4, <1>7, <3>2, <4>1, Zenon
    <3>3. CASE e = d /\ g \in others
      <4>1. x \in Request
        BY <1>3, <3>3 DEF Range
      <4>2. x \in Range(g) => Caught(x)
        BY <1>4, <3>3, Zenon
      <4> QED
        BY <1>7, <3>3, <4>1, <4>2, Zenon
    <3> QED
      BY <2>1, <3>0, <3>1, <3>2, <3>3, Zenon
  <2> QED
    BY <2>1, Zenon DEF Disjoint
<1>15. CaughtInv'
  BY <1>13, <1>14, Zenon DEF CaughtInv, Disjoint
<1> QED
  BY <1>8, <1>9, <1>11, <1>12, <1>15, Zenon DEF Holders0

\* A request whose future is neither open nor failed is not pending or caught.
LEMMA Apart ==
    ASSUME Holders0, NEW r \in Request, future[r] \notin {"open", "failed"}
    PROVE  /\ r \notin Range(pending_reserves) /\ ~Caught(r)
           /\ future[r] # "granted" \/ stage[r] = "done" => ticket[r] = NoTicket
BY Zenon DEF Holders0, PendingInv, CaughtInv, OwnedInv, Caught

LEMMA CapturedKeeps ==
    ASSUME Holders0, NEW r \in Request, future[r] \notin {"open", "failed"}
    PROVE  Keeps(captured, r)
BY Apart, Zenon DEF Holders0, HolderTypes, CaughtInv, Keeps, Caught

\* s_aws_ticket_wrapper_destroy for the ticket of a request that ends.
LEMMA DestroyStep ==
    ASSUME Books(pool, ticket), Holders0, NEW r \in Request, stage[r] \in Going,
           ticket[r].state = "reserved" => ~ticket[r].forced,
           Destroy(r), MoveTo(r, "done")
    PROVE  Books(pool, ticket)' /\ Holders0'
<1>1. DestroyAndResume(r, captured) /\ UNCHANGED future
  BY Zenon DEF Destroy
<1>2. /\ HolderTypes /\ OneOK(stage[r], future[r], ticket[r], r)
      /\ \A x \in Range(pending_reserves) : ticket[x] = NoTicket
  BY Zenon DEF Holders0, RequestInv, PendingInv
<1>3. future[r] = "granted" /\ ticket[r] # NoTicket
  BY <1>2 DEF OneOK, Going
<1>4. ticket \in Tickets
  BY Zenon DEF Books
<1>5. ticket[r].state \in {"reserved", "claimed"}
  BY <1>3, <1>4, TicketParts, Zenon
<1>6. pending_reserves \in Seq(Request) /\ IsInjective(pending_reserves) /\ stage \in [Request -> Stages]
  BY <1>2, Zenon DEF HolderTypes
<1>7. Books(pool', ticket') /\ \E d : Resumed(r, captured, d)
  BY <1>1, <1>2, <1>5, <1>6, Resumes, Zenon
<1>8. PICK d : Resumed(r, captured, d)
  BY <1>7, Zenon
<1>9. Keeps(captured, r)
  BY <1>3, CapturedKeeps
<1>10. "done" \in Stages
  BY DEF Stages
<1>11. /\ stage' \in [Request -> Stages] /\ stage'[r] = "done"
       /\ \A x \in Request : x # r => stage'[x] = stage[x]
  BY <1>6, <1>10, Moves, Zenon
<1>12. OneOK(stage'[r], future[r], NoTicket, r)
  BY <1>3, <1>11 DEF OneOK, NoTicket, Going
<1>13. Holders0'
  BY <1>1, <1>3, <1>8, <1>9, <1>11, <1>12, ResumeHolders, Zenon
<1> QED
  BY <1>7, <1>13, Zenon

LEMMA FailDrainedStep ==
    ASSUME Books(pool, ticket), Holders0, NEW r \in Request, FailDrained(r)
    PROVE  Books(pool, ticket)' /\ Holders0'
<1>1. stage[r] = "dropping" /\ Destroy(r) /\ MoveTo(r, "done")
  BY Zenon DEF FailDrained
<1>2. OneOK(stage[r], future[r], ticket[r], r)
  BY Zenon DEF Holders0, RequestInv
<1>3. stage[r] \in Going /\ (ticket[r].state = "reserved" => ~ticket[r].forced)
  BY <1>1, <1>2 DEF OneOK, Going
<1> QED
  BY <1>1, <1>3, DestroyStep, Zenon

LEMMA ReleaseBufferStep ==
    ASSUME Books(pool, ticket), Holders0, NEW r \in Request, ReleaseBuffer(r)
    PROVE  Books(pool, ticket)' /\ Holders0'
<1>1. /\ stage[r] = "claimed" \/ (stage[r] = "prepared" /\ ~ticket[r].forced)
      /\ Destroy(r) /\ MoveTo(r, "done")
  BY Zenon DEF ReleaseBuffer
<1>2. OneOK(stage[r], future[r], ticket[r], r)
  BY Zenon DEF Holders0, RequestInv
<1>3. stage[r] \in Going /\ (ticket[r].state = "reserved" => ~ticket[r].forced)
  BY <1>1, <1>2 DEF OneOK, Going
<1> QED
  BY <1>1, <1>3, DestroyStep, Zenon

\* What is left of a captured sequence when its head has been completed.
Rest(done) == IF Len(done) = 1 THEN {} ELSE {Tail(done)}

LEMMA TailOf ==
    ASSUME NEW S, NEW d \in Seq(S), d # << >>, IsInjective(d)
    PROVE  /\ Head(d) \in S /\ Head(d) \in Range(d)
           /\ Tail(d) \in Seq(S) /\ IsInjective(Tail(d))
           /\ Len(d) # 1 => Tail(d) # << >>
           /\ \A x \in Range(Tail(d)) : x \in Range(d) /\ x # Head(d)
           /\ \A x \in Range(d) : x # Head(d) => Len(d) # 1 /\ x \in Range(Tail(d))
<1> DEFINE n == Len(d)
           e == Tail(d)
<1>1. n \in Nat /\ n >= 1 /\ DOMAIN d = 1..n /\ \A i \in 1..n : d[i] \in S
  OBVIOUS
<1>2. e \in Seq(S) /\ Len(e) = n - 1 /\ DOMAIN e = 1..(n - 1) /\ \A i \in 1..(n - 1) : e[i] = d[i + 1]
  <2>1. e \in Seq(S) /\ Len(e) = n - 1
    OBVIOUS
  <2>2. DOMAIN e = 1..(n - 1)
    BY <2>1
  <2>3. \A i \in 1..(n - 1) : e[i] = d[i + 1]
    BY <2>1, <2>2
  <2> QED
    BY <2>1, <2>2, <2>3, Zenon
<1>3. Head(d) = d[1]
  OBVIOUS
<1> HIDE DEF n, e
<1>4. n # 1 => e # << >>
  <2>1. Len(<< >>) = 0
    OBVIOUS
  <2> QED
    BY <1>1, <1>2, <2>1
<1>6. \A i, j \in 1..n : d[i] = d[j] => i = j
  BY <1>1 DEF IsInjective
<1>7. IsInjective(e)
  BY <1>1, <1>2, <1>6 DEF IsInjective
<1>8. \A x \in Range(e) : x \in Range(d) /\ x # Head(d)
  <2>1. ASSUME NEW i \in 1..(n - 1)
        PROVE  e[i] \in Range(d) /\ e[i] # d[1]
    <3>1. i + 1 \in 1..n /\ e[i] = d[i + 1] /\ i + 1 # 1 /\ 1 \in 1..n
      BY <1>1, <1>2
    <3> QED
      BY <1>1, <1>6, <3>1 DEF Range
  <2> QED
    BY <1>2, <1>3, <2>1, Zenon DEF Range
<1>9. ASSUME NEW x \in Range(d), x # Head(d)
      PROVE  n # 1 /\ x \in Range(e)
  <2>1. PICK i \in 1..n : x = d[i]
    BY <1>1, Zenon DEF Range
  <2>2. i # 1
    BY <1>3, <1>9, <2>1
  <2>3. n # 1 /\ i - 1 \in 1..(n - 1) /\ (i - 1) + 1 = i
    BY <1>1, <2>2
  <2>4. e[i - 1] = x
    BY <1>2, <2>1, <2>3
  <2> QED
    BY <1>2, <2>3, <2>4, Zenon DEF Range
<1>10. Head(d) \in S /\ Head(d) \in Range(d)
  BY <1>1, <1>3 DEF Range
<1> QED
  BY <1>2, <1>4, <1>7, <1>8, <1>9, <1>10, Zenon DEF n, e

LEMMA HeadAndTail ==
    ASSUME NEW S, NEW d \in Seq(S), d # << >>, IsInjective(d)
    PROVE  /\ Head(d) \in S /\ Head(d) \in Range(d)
           /\ \A e \in Rest(d) : /\ e \in Seq(S) /\ e # << >> /\ IsInjective(e)
                                 /\ \A x \in Range(e) : x \in Range(d) /\ x # Head(d)
           /\ \A x \in Range(d) : x # Head(d) => \E e \in Rest(d) : x \in Range(e)
           /\ \A e, f \in Rest(d) : e = f
<1>1. \A e : e \in Rest(d) <=> Len(d) # 1 /\ e = Tail(d)
  BY DEF Rest
<1>2. /\ Head(d) \in S /\ Head(d) \in Range(d) /\ Tail(d) \in Seq(S) /\ IsInjective(Tail(d))
      /\ Len(d) # 1 => Tail(d) # << >>
      /\ \A x \in Range(Tail(d)) : x \in Range(d) /\ x # Head(d)
      /\ \A x \in Range(d) : x # Head(d) => Len(d) # 1 /\ x \in Range(Tail(d))
  BY TailOf
<1> DEFINE e == Tail(d)
<1> HIDE DEF e
<1>3. \A f : f \in Rest(d) <=> Len(d) # 1 /\ f = e
  BY <1>1 DEF e
<1>4. /\ Head(d) \in S /\ Head(d) \in Range(d) /\ e \in Seq(S) /\ IsInjective(e)
      /\ Len(d) # 1 => e # << >>
      /\ \A x \in Range(e) : x \in Range(d) /\ x # Head(d)
      /\ \A x \in Range(d) : x # Head(d) => Len(d) # 1 /\ x \in Range(e)
  BY <1>2 DEF e
<1> QED
  BY <1>3, <1>4

LEMMA RestKeeps ==
    ASSUME Holders0, NEW done \in captured
    PROVE  /\ Head(done) \in Request /\ IsWaiting(ticket[Head(done)]) /\ Caught(Head(done))
           /\ future[Head(done)] \in {"open", "failed"}
           /\ Keeps((captured \ {done}) \cup Rest(done), Head(done))
<1> DEFINE r == Head(done)
           others == (captured \ {done}) \cup Rest(done)
<1>1. /\ captured \in SUBSET Seq(Request)
      /\ \A d \in captured : /\ d # << >> /\ IsInjective(d)
                             /\ \A x \in Range(d) : IsWaiting(ticket[x]) /\ future[x] \in {"open", "failed"}
      /\ \A d, e \in captured : d # e => \A x \in Range(d) : x \notin Range(e)
  BY Zenon DEF Holders0, HolderTypes, CaughtInv, Disjoint
<1>2. /\ r \in Request /\ r \in Range(done)
      /\ \A e \in Rest(done) : /\ e \in Seq(Request) /\ e # << >> /\ IsInjective(e)
                               /\ \A x \in Range(e) : x \in Range(done) /\ x # r
      /\ \A x \in Range(done) : x # r => \E e \in Rest(done) : x \in Range(e)
      /\ \A e, f \in Rest(done) : e = f
  <2>1. done \in Seq(Request) /\ done # << >> /\ IsInjective(done)
    BY <1>1, Zenon
  <2> QED
    BY <2>1, HeadAndTail, Zenon
<1> HIDE DEF r
<1>3. \A e : e \in others <=> (e \in captured /\ e # done) \/ e \in Rest(done)
  BY Zenon
<1> HIDE DEF others
<1>4. others \in SUBSET Seq(Request)
  BY <1>1, <1>2, <1>3, Zenon
<1>5. Disjoint(others)
  <2>1. ASSUME NEW d \in others, NEW e \in others, d # e, NEW x \in Range(d)
        PROVE  x \notin Range(e)
    <3>1. CASE d \in captured /\ d # done /\ e \in captured /\ e # done
      BY <1>1, <2>1, <3>1, Zenon
    <3>2. CASE d \in captured /\ d # done /\ e \in Rest(done)
      BY <1>1, <1>2, <2>1, <3>2, Zenon
    <3>3. CASE d \in Rest(done) /\ e \in captured /\ e # done
      BY <1>1, <1>2, <2>1, <3>3, Zenon
    <3>4. CASE d \in Rest(done) /\ e \in Rest(done)
      BY <1>2, <2>1, <3>4, Zenon
    <3> QED
      BY <1>3, <3>1, <3>2, <3>3, <3>4, Zenon
  <2> QED
    BY <2>1, Zenon DEF Disjoint
<1>6. ASSUME NEW d \in others
      PROVE  d # << >> /\ IsInjective(d) /\ \A x \in Range(d) : x # r /\ Caught(x)
  <2>1. CASE d \in captured /\ d # done
    <3>1. \A x \in Range(d) : x # r /\ Caught(x)
      BY <1>1, <1>2, <2>1, Zenon DEF Caught
    <3> QED
      BY <1>1, <2>1, <3>1, Zenon
  <2>2. CASE d \in Rest(done)
    BY <1>2, <2>2, Zenon DEF Caught
  <2> QED
    BY <1>3, <2>1, <2>2, Zenon
<1>7. ASSUME NEW x \in Request, Caught(x), x # r
      PROVE  \E d \in others : x \in Range(d)
  <2>1. PICK d \in captured : x \in Range(d)
    BY <1>7, Zenon DEF Caught
  <2> QED
    BY <1>2, <1>3, <1>7, <2>1, Zenon
<1>8. Keeps(others, r)
  BY <1>4, <1>5, <1>6, <1>7, Zenon DEF Keeps
<1>9. IsWaiting(ticket[r]) /\ Caught(r) /\ future[r] \in {"open", "failed"}
  BY <1>1, <1>2, Zenon DEF Caught
<1> QED
  BY <1>2, <1>8, <1>9, Zenon DEF r, others

LEMMA CompleteStep ==
    ASSUME Books(pool, ticket), Holders0, NEW done \in captured, Complete(done), UNCHANGED stage
    PROVE  Books(pool, ticket)' /\ Holders0'
<1> DEFINE r == Head(done)
           others == (captured \ {done}) \cup Rest(done)
<1>1. /\ r \in Request /\ IsWaiting(ticket[r]) /\ Caught(r) /\ future[r] \in {"open", "failed"}
      /\ Keeps(others, r)
  BY RestKeeps, Zenon
<1>2. \/ /\ future[r] = "open" /\ future' = Given(future, r, "granted") /\ captured' = others
         /\ UNCHANGED <<pool, pending_reserves, ticket>>
      \/ /\ future[r] = "failed" /\ DestroyAndResume(r, others) /\ UNCHANGED future
  BY Zenon DEF Complete, Rest, Given
<1> HIDE DEF r, others
<1>3. /\ stage \in [Request -> Stages] /\ future \in [Request -> Futures]
      /\ pending_reserves \in Seq(Request) /\ IsInjective(pending_reserves)
      /\ \A x \in Request : OneOK(stage[x], future[x], ticket[x], x)
      /\ \A x \in Range(pending_reserves) : ticket[x] = NoTicket /\ future[x] \in {"open", "failed"}
  BY Zenon DEF Holders0, HolderTypes, RequestInv, PendingInv
<1>4. ticket[r].state = "reserved" /\ ~ticket[r].forced /\ ticket[r] # NoTicket
  BY <1>1 DEF IsWaiting, NoTicket
<1>5. OneOK(stage[r], future[r], ticket[r], r)
  BY <1>1, <1>3, Zenon
<1>6. CASE future[r] = "failed" /\ DestroyAndResume(r, others) /\ UNCHANGED future
  <2>1. Books(pool', ticket') /\ \E d : Resumed(r, others, d)
    BY <1>1, <1>3, <1>4, <1>6, Resumes, Zenon
  <2>2. PICK d : Resumed(r, others, d)
    BY <2>1, Zenon
  <2>3. OneOK(stage[r], future[r], NoTicket, r)
    BY <1>4, <1>5, <1>6 DEF OneOK, NoTicket
  <2>4. /\ stage' \in [Request -> Stages] /\ OneOK(stage'[r], future[r], NoTicket, r)
        /\ \A x \in Request : x # r => stage'[x] = stage[x]
    BY <1>3, <2>3, Zenon
  <2>5. Holders0'
    BY <1>1, <1>4, <1>6, <2>2, <2>4, ResumeHolders, Zenon
  <2> QED
    BY <2>1, <2>5, Zenon
<1>7. CASE /\ future[r] = "open" /\ future' = Given(future, r, "granted") /\ captured' = others
           /\ UNCHANGED <<pool, pending_reserves, ticket>>
  <2>1. /\ future' \in [Request -> Futures] /\ future'[r] = "granted"
        /\ \A x \in Request : x # r => future'[x] = future[x]
    BY <1>1, <1>3, <1>7 DEF Given, Futures
  <2>2. OneOK(stage[r], "granted", ticket[r], r) /\ stage[r] # "done"
    BY <1>4, <1>5, <1>7 DEF OneOK
  <2>3. /\ others \in SUBSET Seq(Request) /\ Disjoint(others)
        /\ \A d \in others : d # << >> /\ IsInjective(d) /\ \A x \in Range(d) : x # r /\ Caught(x)
        /\ \A x \in Request : Caught(x) /\ x # r => \E d \in others : x \in Range(d)
    BY <1>1, Zenon DEF Keeps
  <2>4. HolderTypes'
    BY <1>3, <1>7, <2>1, <2>3, Zenon DEF HolderTypes
  <2>5. RequestInv'
    <3>1. \A x \in Request : OneOK(stage[x], future'[x], ticket[x], x)
      BY <1>3, <2>1, <2>2, Zenon
    <3> QED
      BY <1>7, <3>1, Zenon DEF RequestInv
  <2>6. OwnedInv'
    <3>1. ASSUME NEW x \in Request, ticket[x] # NoTicket
          PROVE  (future'[x] = "granted" /\ stage[x] # "done") \/ \E d \in captured' : x \in Range(d)
      <4>1. (future[x] = "granted" /\ stage[x] # "done") \/ Caught(x)
        BY <3>1, Zenon DEF Holders0, OwnedInv
      <4> QED
        BY <1>7, <2>1, <2>2, <2>3, <4>1, Zenon
    <3> QED
      BY <1>7, <3>1, Zenon DEF OwnedInv, Caught
  <2>7. PendingInv'
    <3>1. ASSUME NEW x \in Range(pending_reserves)
          PROVE  ticket[x] = NoTicket /\ future'[x] \in {"open", "failed"}
      <4>1. ticket[x] = NoTicket /\ future[x] \in {"open", "failed"} /\ x # r
        BY <1>3, <1>4, Zenon
      <4>2. x \in Request
        BY <1>3 DEF Range
      <4> QED
        BY <2>1, <4>1, <4>2, Zenon
    <3> QED
      BY <1>7, <3>1, Zenon DEF PendingInv
  <2>8. CaughtInv'
    <3>1. ASSUME NEW d \in others
          PROVE  \A x \in Range(d) : IsWaiting(ticket[x]) /\ future'[x] \in {"open", "failed"}
      <4>1. \A x \in Range(d) : x \in Request
        BY <2>3 DEF Range
      <4>2. \A x \in Request : Caught(x) => IsWaiting(ticket[x]) /\ future[x] \in {"open", "failed"}
        BY Zenon DEF Holders0, CaughtInv, Caught
      <4> QED
        BY <2>1, <2>3, <4>1, <4>2, Zenon
    <3> QED
      BY <1>7, <2>3, <3>1, Zenon DEF CaughtInv, Disjoint
  <2> QED
    BY <1>7, <2>4, <2>5, <2>6, <2>7, <2>8, Zenon DEF Holders0
<1> QED
  BY <1>2, <1>6, <1>7, Zenon

\* Stage, future and ticket of a request change that is neither pending nor
\* caught; it may join the pending ones.
LEMMA OneStep ==
    ASSUME Holders0, NEW r \in Request, future[r] \notin {"open", "failed"},
           NEW st \in Stages, MoveTo(r, st), NEW fu \in Futures, future' = Given(future, r, fu),
           NEW tk, ticket \in [Request -> TicketType \cup {NoTicket}], ticket' = Given(ticket, r, tk),
           OneOK(st, fu, tk, r), tk # NoTicket => fu = "granted" /\ st # "done",
           UNCHANGED captured,
           \/ UNCHANGED pending_reserves
           \/ pending_reserves' = Append(pending_reserves, r) /\ fu = "open"
    PROVE  Holders0'
<1>1. /\ stage \in [Request -> Stages] /\ future \in [Request -> Futures] /\ captured \in SUBSET Seq(Request)
      /\ pending_reserves \in Seq(Request) /\ IsInjective(pending_reserves)
      /\ \A x \in Request : OneOK(stage[x], future[x], ticket[x], x)
      /\ \A x \in Range(pending_reserves) : ticket[x] = NoTicket /\ future[x] \in {"open", "failed"}
      /\ \A d \in captured : /\ d # << >> /\ IsInjective(d)
                             /\ \A x \in Range(d) : IsWaiting(ticket[x]) /\ future[x] \in {"open", "failed"}
      /\ Disjoint(captured)
  BY Zenon DEF Holders0, HolderTypes, RequestInv, PendingInv, CaughtInv
<1>2. r \notin Range(pending_reserves) /\ ~Caught(r)
  BY Apart, Zenon
<1>3. stage' \in [Request -> Stages] /\ stage'[r] = st /\ \A x \in Request : x # r => stage'[x] = stage[x]
  BY <1>1, Moves, Zenon
<1>4. future' \in [Request -> Futures] /\ future'[r] = fu /\ \A x \in Request : x # r => future'[x] = future[x]
  BY <1>1 DEF Given
<1>5. ticket'[r] = tk /\ \A x \in Request : x # r => ticket'[x] = ticket[x]
  BY DEF Given
<1>6. \A x \in Range(pending_reserves) : x \in Request /\ x # r
  BY <1>1, <1>2 DEF Range
<1>7. /\ pending_reserves' \in Seq(Request) /\ IsInjective(pending_reserves')
      /\ \A x \in Range(pending_reserves') : x \in Range(pending_reserves) \/ (x = r /\ fu = "open")
  <2>1. CASE UNCHANGED pending_reserves
    BY <1>1, <2>1, Zenon
  <2>2. CASE pending_reserves' = Append(pending_reserves, r) /\ fu = "open"
    <3>1. /\ Append(pending_reserves, r) \in Seq(Request) /\ IsInjective(Append(pending_reserves, r))
          /\ Range(Append(pending_reserves, r)) = Range(pending_reserves) \cup {r}
      <4>1. r \notin Range(pending_reserves) /\ pending_reserves \in Seq(Request) /\ IsInjective(pending_reserves)
        BY <1>1, <1>2, Zenon
      <4> QED
        BY <4>1, AppendOne
    <3> QED
      BY <2>2, <3>1, Zenon
  <2> QED
    BY <2>1, <2>2, Zenon
<1>8. HolderTypes'
  BY <1>1, <1>3, <1>4, <1>7, Zenon DEF HolderTypes
<1>9. RequestInv'
  BY <1>1, <1>3, <1>4, <1>5, Zenon DEF RequestInv
<1>10. OwnedInv'
  <2>1. ASSUME NEW x \in Request, ticket'[x] # NoTicket
        PROVE  (future'[x] = "granted" /\ stage'[x] # "done") \/ Caught(x)
    <3>1. CASE x = r
      BY <1>3, <1>4, <1>5, <2>1, <3>1, Zenon
    <3>2. CASE x # r
      <4>1. (future[x] = "granted" /\ stage[x] # "done") \/ Caught(x)
        BY <1>5, <2>1, <3>2, Zenon DEF Holders0, OwnedInv
      <4> QED
        BY <1>3, <1>4, <3>2, <4>1, Zenon
    <3> QED
      BY <3>1, <3>2, Zenon
  <2> QED
    BY <2>1, Zenon DEF OwnedInv, Caught
<1>11. PendingInv'
  <2>1. ASSUME NEW x \in Range(pending_reserves')
        PROVE  ticket'[x] = NoTicket /\ future'[x] \in {"open", "failed"}
    <3>1. CASE x = r /\ fu = "open"
      BY <1>4, <1>5, <3>1
    <3>2. CASE x \in Range(pending_reserves)
      BY <1>1, <1>4, <1>5, <1>6, <3>2, Zenon
    <3> QED
      BY <1>7, <3>1, <3>2, Zenon
  <2> QED
    BY <2>1, Zenon DEF PendingInv
<1>12. CaughtInv'
  <2>1. ASSUME NEW d \in captured, NEW x \in Range(d)
        PROVE  IsWaiting(ticket'[x]) /\ future'[x] \in {"open", "failed"}
    <3>1. x \in Request
      BY <1>1 DEF Range
    <3>2. x # r
      BY <1>2, Zenon DEF Caught
    <3> QED
      BY <1>1, <1>4, <1>5, <3>1, <3>2, Zenon
  <2> QED
    BY <1>1, <2>1, Zenon DEF CaughtInv, Disjoint
<1> QED
  BY <1>8, <1>9, <1>10, <1>11, <1>12, Zenon DEF Holders0

LEMMA AcquireMemStep ==
    ASSUME Books(pool, ticket), Holders0, NEW r \in Request, AcquireMem(r)
    PROVE  Books(pool, ticket)' /\ Holders0'
<1> DEFINE attempt == TryReserve(pool, r.size)
<1>1. /\ stage[r] = "handed" /\ MoveTo(r, "reserved") /\ future[r] = "none" /\ UNCHANGED captured
      /\ \/ /\ future' = Given(future, r, "failed") /\ UNCHANGED <<pool, pending_reserves, ticket>>
         \/ /\ pool' = attempt.pool /\ ticket' = Given(ticket, r, attempt.ticket)
            /\ future' = Given(future, r, IF attempt.ok THEN "granted" ELSE "open")
            /\ pending_reserves' = IF attempt.ok THEN pending_reserves ELSE Append(pending_reserves, r)
  BY Zenon DEF AcquireMem, Reserve, Given
<1> HIDE DEF attempt
<1>2. ticket[r] = NoTicket /\ future[r] \notin {"open", "failed"}
  BY <1>1, Apart
<1>3. OneOK("handed", "none", ticket[r], r) /\ ticket \in [Request -> TicketType \cup {NoTicket}]
  BY <1>1, Zenon DEF Holders0, RequestInv, Books, Tickets
<1>4. "reserved" \in Stages /\ "failed" \in Futures /\ "granted" \in Futures /\ "open" \in Futures
  BY DEF Stages, Futures
<1>5. NoTicket.state = "none" /\ r.kind # "write"
  BY <1>3 DEF OneOK, NoTicket
<1>6. CASE future' = Given(future, r, "failed") /\ UNCHANGED <<pool, pending_reserves, ticket>>
  <2>1. ticket' = Given(ticket, r, NoTicket)
    BY <1>2, <1>3, <1>6 DEF Given
  <2>2. OneOK("reserved", "failed", NoTicket, r)
    BY <1>5, Zenon DEF OneOK, Going
  <2>3. Holders0'
    BY <1>1, <1>2, <1>3, <1>4, <1>6, <2>1, <2>2, OneStep, Zenon
  <2>4. Books(pool, ticket)'
    BY <1>6, Zenon DEF Books
  <2> QED
    BY <2>3, <2>4, Zenon
<1>7. CASE /\ pool' = attempt.pool /\ ticket' = Given(ticket, r, attempt.ticket)
           /\ future' = Given(future, r, IF attempt.ok THEN "granted" ELSE "open")
           /\ pending_reserves' = IF attempt.ok THEN pending_reserves ELSE Append(pending_reserves, r)
  <2>1. Attempted(attempt, ticket, r)
    BY <1>2, TryReserveBooks DEF attempt
  <2>2. /\ Books(attempt.pool, Given(ticket, r, attempt.ticket)) /\ attempt.ok \in BOOLEAN
        /\ ~attempt.ok => attempt.ticket = NoTicket
        /\ attempt.ok => \E a \in Area : attempt.ticket = ReservedTicket(a, FALSE)
    BY <2>1, Zenon DEF Attempted
  <2>3. Books(pool', ticket')
    BY <1>7, <2>2, Zenon
  <2>4. CASE attempt.ok
    <3>1. PICK a \in Area : attempt.ticket = ReservedTicket(a, FALSE)
      BY <2>2, <2>4, Zenon
    <3>2. OneOK("reserved", "granted", attempt.ticket, r)
      BY <1>5, <3>1 DEF OneOK, Going, ReservedTicket, NoTicket
    <3>3. /\ ticket' = Given(ticket, r, attempt.ticket) /\ future' = Given(future, r, "granted")
          /\ UNCHANGED pending_reserves /\ "granted" = "granted" /\ "reserved" # "done"
      BY <1>7, <2>4
    <3> HIDE <1>7
    <3> QED
      BY <1>1, <1>2, <1>3, <1>4, <2>3, <3>2, <3>3, OneStep, SMTT(30)
  <2>5. CASE ~attempt.ok
    <3>1. /\ ticket' = Given(ticket, r, NoTicket) /\ future' = Given(future, r, "open")
          /\ pending_reserves' = Append(pending_reserves, r)
      BY <1>7, <2>2, <2>5
    <3>2. OneOK("reserved", "open", NoTicket, r)
      BY <1>5 DEF OneOK, Going
    <3> QED
      BY <1>1, <1>2, <1>3, <1>4, <2>3, <3>1, <3>2, OneStep, SMTT(30)
  <2> QED
    BY <2>4, <2>5, Zenon
<1> QED
  BY <1>1, <1>6, <1>7, Zenon

LEMMA PollWriteStep ==
    ASSUME Books(pool, ticket), Holders0, NEW r \in Request, PollWrite(r)
    PROVE  Books(pool, ticket)' /\ Holders0'
<1> DEFINE a == IF r.size \in MinCutoff..Cutoff THEN "primary" ELSE "secondary"
           tk == [state |-> "reserved", forced |-> TRUE, from |-> a]
<1>1. /\ stage[r] = "new" /\ r.kind = "write" /\ future[r] = "none" /\ UNCHANGED captured
      /\ MoveTo(r, IF r.size > MemLimit THEN "done" ELSE "prepared")
      /\ \/ /\ r.size > MemLimit
            /\ future' = Given(future, r, "failed") /\ UNCHANGED <<pool, pending_reserves, ticket>>
         \/ /\ r.size <= MemLimit /\ ticket' = Given(ticket, r, tk)
            /\ future' = Given(future, r, "granted") /\ UNCHANGED <<pool, pending_reserves>>
  BY Zenon DEF PollWrite, Reserve, Given
<1>2. tk = ReservedTicket(a, TRUE)
  BY DEF ReservedTicket
<1>3. a \in Area /\ (a = "primary" => r.size <= Cutoff) /\ a # "special"
  BY BlockType DEF Area
<1> HIDE DEF a, tk
<1>4. ticket[r] = NoTicket /\ future[r] \notin {"open", "failed"}
  BY <1>1, Apart
<1>5. ticket \in [Request -> TicketType \cup {NoTicket}] /\ MemLimit \in Nat /\ r.size \in Nat
  BY PoolAssumption DEF Books, Tickets
<1>6. "done" \in Stages /\ "prepared" \in Stages /\ "failed" \in Futures /\ "granted" \in Futures
  BY DEF Stages, Futures
<1>7. CASE r.size > MemLimit
  BY <1>1, <1>5, <1>7, <1>4, <1>6, OneStep, SMTT(30) DEF Given, OneOK, Going, NoTicket, Books
<1>8. CASE ~(r.size > MemLimit)
  BY <1>1, <1>5, <1>8, <1>3, <1>4, ForcedBooks, <1>2, <1>6, OneStep, SMTT(30) DEF OneOK, Going,
     ReservedTicket, NoTicket
<1> QED
  BY <1>7, <1>8, Zenon

LEMMA ClaimBufferStep ==
    ASSUME Books(pool, ticket), Holders0, NEW r \in Request, ClaimBuffer(r)
    PROVE  Books(pool, ticket)' /\ Holders0'
<1> DEFINE got == CASE ticket[r].from = "primary" -> PrimaryAcquire(pool, r.size)
                    [] ticket[r].from = "special" -> SpecialAcquire(pool, r.size)
                    [] OTHER -> [pool |-> pool, place |-> [block |-> 0, chunk |-> 0]]
           tk == ClaimedTicket(ticket[r].from, ticket[r].forced, got.place)
<1>1. /\ stage[r] = "prepared" /\ ticket[r].state = "reserved" /\ MoveTo(r, "claimed")
      /\ pool' = AfterClaim(got.pool, ticket[r].from, ticket[r].forced, r.size)
      /\ ticket' = Given(ticket, r, tk) /\ UNCHANGED <<pending_reserves, future, captured>>
  BY Zenon DEF ClaimBuffer, Claim, Given, AfterClaim, ClaimedTicket
<1>2. Books(AfterClaim(got.pool, ticket[r].from, ticket[r].forced, r.size), Given(ticket, r, tk))
  BY <1>1, ClaimBooks, Zenon
<1>3. tk.state = "claimed" /\ tk # NoTicket
  BY DEF ClaimedTicket, NoTicket
<1> HIDE DEF got, tk
<1>4. Books(pool', ticket')
  BY <1>1, <1>2, Zenon
<1>5. OneOK("prepared", future[r], ticket[r], r)
  BY <1>1, Zenon DEF Holders0, RequestInv
<1>6. future[r] = "granted" /\ "claimed" # "done"
  BY <1>5 DEF OneOK, Going
<1>7. OneOK("claimed", "granted", tk, r)
  BY <1>3 DEF OneOK, Going
<1>8. future' = Given(future, r, "granted")
  BY <1>1, <1>6 DEF Given, Holders0, HolderTypes
<1>9. ticket \in [Request -> TicketType \cup {NoTicket}] /\ "claimed" \in Stages /\ "granted" \in Futures
  BY DEF Books, Tickets, Stages, Futures
<1>10. Holders0'
  BY <1>1, <1>3, <1>6, <1>7, <1>8, <1>9, OneStep, SMTT(30)
<1> QED
  BY <1>4, <1>10, Zenon

\* A cancel fails open futures of requests that wait.
LEMMA CancelStep ==
    ASSUME Books(pool, ticket), Holders0, NEW m \in Meta, Cancel(m)
    PROVE  Books(pool, ticket)' /\ Holders0'
<1> DEFINE listed == Of(m) \cap In({"waiting"})
<1>1. FailFutures(listed) /\ UNCHANGED <<pool, pending_reserves, ticket, captured, stage>>
  BY Zenon DEF Cancel
<1>2. \A x \in listed : stage[x] = "waiting"
  BY DEF In
<1> HIDE DEF listed
<1>3. /\ stage \in [Request -> Stages] /\ future \in [Request -> Futures] /\ captured \in SUBSET Seq(Request)
      /\ pending_reserves \in Seq(Request) /\ IsInjective(pending_reserves)
      /\ \A x \in Request : OneOK(stage[x], future[x], ticket[x], x)
  BY Zenon DEF Holders0, HolderTypes, RequestInv
<1>4. /\ future' \in [Request -> Futures]
      /\ \A x \in Request : \/ future'[x] = future[x]
                            \/ future[x] = "open" /\ future'[x] = "failed" /\ stage[x] = "waiting"
  BY <1>1, <1>2, <1>3 DEF FailFutures, Futures
<1>5. \A x \in Request : OneOK(stage[x], future'[x], ticket[x], x)
  <2> TAKE x \in Request
  <2>1. CASE future'[x] = future[x]
    BY <1>3, <2>1, Zenon
  <2>2. CASE future[x] = "open" /\ future'[x] = "failed" /\ stage[x] = "waiting"
    BY <1>3, <2>2 DEF OneOK, Going
  <2> QED
    BY <1>4, <2>1, <2>2, Zenon
<1>6. \A x \in Request : /\ future[x] = "granted" => future'[x] = "granted"
                         /\ future[x] \in {"open", "failed"} => future'[x] \in {"open", "failed"}
  BY <1>4
<1>7. /\ \A x \in Range(pending_reserves) : x \in Request
      /\ \A d \in captured : \A x \in Range(d) : x \in Request
  BY <1>3 DEF Range
<1>8. HolderTypes' /\ RequestInv'
  BY <1>1, <1>3, <1>4, <1>5, Zenon DEF HolderTypes, RequestInv
<1>9. OwnedInv'
  BY <1>1, <1>6 DEF Caught, Holders0, OwnedInv
<1>10. PendingInv'
  BY <1>1, <1>6, <1>7 DEF Holders0, PendingInv
<1>11. CaughtInv'
  BY <1>1, <1>6, <1>7 DEF Holders0, CaughtInv, Disjoint
<1>12. Books(pool, ticket)'
  BY <1>1, Zenon DEF Books
<1> QED
  BY <1>8, <1>9, <1>10, <1>11, <1>12, Zenon DEF Holders0

LEMMA OnReservedHolders ==
    ASSUME Holders0, NEW m \in Meta, OnPoolBufferReserved(m), NEW r \in Request, r = Head(loop[m]),
           stage[r] = "waiting"
    PROVE  Holders0'
<1> DEFINE queue == (Of(m) \cap In({"queued"})) \cup {r}
           ready == IF r.kind = "put" THEN Drained(m, queue) ELSE {r}
<1>1. /\ UNCHANGED <<pending_reserves, ticket, future, captured>>
      /\ \/ /\ future[r] = "failed"
            /\ stage' = [q \in Request |-> IF q = r THEN "done"
                                           ELSE IF q \in ForceDrained(r) THEN "dropping" ELSE stage[q]]
         \/ /\ future[r] = "granted"
            /\ stage' = [q \in Request |-> IF q \in ready THEN "prepared"
                                           ELSE IF q = r THEN "queued" ELSE stage[q]]
  BY Zenon DEF OnPoolBufferReserved, poolVars
<1>2. \A q \in ready : q = r \/ stage[q] = "queued"
  BY DEF Drained, In
<1>3. \A q \in ForceDrained(r) : stage[q] = "queued"
  BY DEF ForceDrained, In
<1> HIDE DEF ready
<1>4. stage \in [Request -> Stages] /\ \A x \in Request : OneOK(stage[x], future[x], ticket[x], x)
  BY Zenon DEF Holders0, HolderTypes, RequestInv
<1>5. {"done", "dropping", "prepared", "queued"} \subseteq Stages
  BY DEF Stages
<1>6. stage' \in [Request -> Stages]
  BY <1>1, <1>4, <1>5
<1>7. \A x \in Request : \/ stage'[x] = stage[x]
                         \/ stage[x] = "queued" /\ stage'[x] \in {"dropping", "prepared"}
                         \/ stage[x] = "waiting" /\ future[x] = "failed" /\ stage'[x] = "done"
                         \/ stage[x] = "waiting" /\ future[x] = "granted" /\ stage'[x] \in {"prepared", "queued"}
  BY <1>1, <1>2, <1>3
<1>8. \A x \in Request : OneOK(stage'[x], future[x], ticket[x], x)
  <2> TAKE x \in Request
  <2>1. OneOK(stage[x], future[x], ticket[x], x)
    BY <1>4, Zenon
  <2>2. \/ stage'[x] = stage[x]
        \/ stage[x] = "queued" /\ stage'[x] \in {"dropping", "prepared"}
        \/ stage[x] = "waiting" /\ future[x] = "failed" /\ stage'[x] = "done"
        \/ stage[x] = "waiting" /\ future[x] = "granted" /\ stage'[x] \in {"prepared", "queued"}
    BY <1>7, Zenon
  <2> HIDE <1>7
  <2> QED
    BY <2>1, <2>2 DEF OneOK, Going
<1>9. \A x \in Request : stage'[x] = "done" => stage[x] = "done" \/ future[x] = "failed"
  BY <1>7
<1> QED
  BY <1>1, <1>6, <1>8, <1>9, StageStep, Zenon

\* The tickets and who holds them stay.
LEMMA SameHolders ==
    ASSUME Holders0, UNCHANGED <<pending_reserves, ticket, future, captured, stage>>
    PROVE  Holders0'
BY Zenon DEF Holders0, HolderTypes, RequestInv, OwnedInv, PendingInv, CaughtInv, Caught, Disjoint

LEMMA PoolOnly ==
    ASSUME Books(pool, ticket), Holders0, UNCHANGED stage,
           \/ Trim
           \/ ReleaseSpecialSize
           \/ \E r \in Request : AddSpecialSize(r.size)
    PROVE  Books(pool, ticket)' /\ Holders0'
<1>1. UNCHANGED <<pending_reserves, ticket, future, captured>>
  BY Zenon DEF Trim, ReleaseSpecialSize, AddSpecialSize
<1>2. Holders0'
  BY <1>1, SameHolders, Zenon
<1>3. Books(pool', ticket)
  <2>1. CASE Trim
    BY <2>1, TrimAllBooks, Zenon DEF Trim
  <2>2. CASE ReleaseSpecialSize
    BY <2>2, TrimSpecialBooks, Zenon DEF ReleaseSpecialSize
  <2>3. ASSUME NEW r \in Request, AddSpecialSize(r.size)
        PROVE  Books(pool', ticket)
    <3>1. r.size \in Nat
      BY PoolAssumption
    <3>2. CASE r.size <= Cutoff \/ r.size \in DOMAIN pool.special
      BY <2>3, <3>2 DEF AddSpecialSize
    <3>3. CASE ~(r.size <= Cutoff \/ r.size \in DOMAIN pool.special)
      BY <2>3, <3>3, <3>1, AddSpecialBooks, Zenon DEF AddSpecialSize
    <3> QED
      BY <3>2, <3>3, Zenon
  <2> QED
    BY <2>1, <2>2, <2>3, Zenon
<1> QED
  BY <1>1, <1>2, <1>3, Zenon
-----------------------------------------------------------------------------
(***************************************************************************)
(* The callbacks on the event loops: a scheduled callback belongs to a     *)
(* request that waits, and whose future is completed.                      *)
(***************************************************************************)
LEMMA Joined ==
    ASSUME NEW S, NEW s \in Seq(S), NEW u \in Seq(S), IsInjective(s), IsInjective(u),
           \A x \in Range(u) : x \notin Range(s)
    PROVE  /\ s \o u \in Seq(S) /\ IsInjective(s \o u)
           /\ \A x \in Range(s \o u) : x \in Range(s) \/ x \in Range(u)
<1> DEFINE w == s \o u
           n == Len(s)
           k == Len(u)
<1>1. /\ n \in Nat /\ k \in Nat /\ DOMAIN s = 1..n /\ DOMAIN u = 1..k
      /\ w \in Seq(S) /\ DOMAIN w = 1..(n + k)
      /\ \A i \in 1..(n + k) : w[i] = IF i <= n THEN s[i] ELSE u[i - n]
  OBVIOUS
<1> HIDE DEF w, n, k
<1>2. \A i \in 1..(n + k) : \/ i \in 1..n /\ w[i] = s[i] /\ w[i] \in Range(s)
                            \/ i - n \in 1..k /\ w[i] = u[i - n] /\ w[i] \in Range(u)
  <2> TAKE i \in 1..(n + k)
  <2>1. CASE i <= n
    BY <1>1, <2>1, SMTT(30) DEF Range
  <2>2. CASE ~(i <= n)
    <3>1. i - n \in 1..k /\ w[i] = u[i - n]
      BY <1>1, <2>2
    <3> QED
      BY <1>1, <3>1, Zenon DEF Range
  <2> QED
    BY <2>1, <2>2, Zenon
<1>3. /\ \A i, j \in 1..n : s[i] = s[j] => i = j
      /\ \A i, j \in 1..k : u[i] = u[j] => i = j
  BY <1>1, Zenon DEF IsInjective
<1>4. ASSUME NEW i \in 1..(n + k), NEW j \in 1..(n + k), w[i] = w[j]
      PROVE  i = j
  <2>1. CASE i \in 1..n /\ w[i] = s[i] /\ w[i] \in Range(s)
    BY <1>4, <2>1, <1>2, <1>3, Zenon
  <2>2. CASE i - n \in 1..k /\ w[i] = u[i - n] /\ w[i] \in Range(u)
    <3>1. w[j] \notin Range(s)
      BY <1>4, <2>2, Zenon
    <3>2. j - n \in 1..k /\ w[j] = u[j - n]
      BY <1>2, <3>1, Zenon
    <3>3. i - n = j - n
      BY <1>3, <1>4, <2>2, <3>2, Zenon
    <3> QED
      BY <1>1, <3>3
  <2> QED
    BY <1>2, <2>1, <2>2, Zenon
<1>5. IsInjective(w)
  BY <1>1, <1>4, Zenon DEF IsInjective
<1>6. \A x \in Range(w) : x \in Range(s) \/ x \in Range(u)
  BY <1>1, <1>2, Zenon DEF Range
<1> QED
  BY <1>1, <1>5, <1>6, Zenon DEF w

\* The requests of a set, in the order of their parts.
Ordered(s, rs) ==
    /\ s \in [1..Cardinality(rs) -> rs]
    /\ \A i, j \in DOMAIN s : i < j => s[i].part < s[j].part

LEMMA OrderExists ==
    ASSUME NEW m, NEW S, S \in SUBSET Of(m)
    PROVE  \E s : Ordered(s, S)
<1> DEFINE T == {n \in Nat : \A rs \in SUBSET Of(m) : Cardinality(rs) = n => \E s : Ordered(s, rs)}
<1>1. /\ IsFiniteSet(Of(m)) /\ \A x \in Of(m) : x.part \in Nat
      /\ \A x, y \in Of(m) : x.part = y.part => x = y
  BY PoolAssumption, FS_Subset, PrepareAssumption DEF Of
<1>2. 0 \in T
  <2> SUFFICES ASSUME NEW rs \in SUBSET Of(m), Cardinality(rs) = 0
               PROVE  \E s : Ordered(s, rs)
    OBVIOUS
  <2>1. rs = {}
    BY <1>1, SubsetSize
  <2>2. Ordered([i \in 1..0 |-> i], rs)
    BY DEF Ordered
  <2> QED
    BY <2>2, Zenon
<1>3. ASSUME NEW n \in T
      PROVE  n + 1 \in T
  <2> SUFFICES ASSUME NEW rs \in SUBSET Of(m), Cardinality(rs) = n + 1
               PROVE  \E s : Ordered(s, rs)
    OBVIOUS
  <2>1. n \in Nat /\ rs # {}
    BY <1>1, SubsetSize
  <2>2. PICK x \in rs : \A y \in rs : x.part <= y.part
    <3> DEFINE parts == {y.part : y \in rs}
    <3>1. parts \in SUBSET Nat /\ parts # {}
      BY <1>1, <2>1
    <3>2. \E k \in parts : \A l \in parts : k <= l
      <4> HIDE DEF parts
      <4> QED
        BY <3>1, Least
    <3> QED
      BY <3>2
  <2> DEFINE rest == rs \ {x}
  <2>3. rest \in SUBSET Of(m) /\ Cardinality(rest) = n
    BY <1>1, <2>1, SmallerSet
  <2>4. PICK t : Ordered(t, rest)
    BY <2>3, Zenon
  <2>5. t \in [1..n -> rest] /\ \A i, j \in 1..n : i < j => t[i].part < t[j].part
    BY <2>3, <2>4, Zenon DEF Ordered
  <2>6. \A y \in rest : y \in rs /\ x.part < y.part
    BY <1>1, <2>2
  <2> HIDE DEF rest
  <2> DEFINE s == [i \in 1..(n + 1) |-> IF i = 1 THEN x ELSE t[i - 1]]
  <2>7. ASSUME NEW i \in 1..(n + 1)
        PROVE  /\ i = 1 => s[i] = x
               /\ i # 1 => i - 1 \in 1..n /\ s[i] = t[i - 1] /\ t[i - 1] \in rest
    <3>1. i # 1 => i - 1 \in 1..n
      OBVIOUS
    <3> QED
      BY <2>5, <3>1
  <2>8. s \in [1..(n + 1) -> rs]
    BY <2>6, <2>7, Zenon
  <2>9. DOMAIN s = 1..(n + 1)
    OBVIOUS
  <2> HIDE DEF s
  <2>10. ASSUME NEW i \in 1..(n + 1), NEW j \in 1..(n + 1), i < j
         PROVE  s[i].part < s[j].part
    <3>1. j # 1 /\ j - 1 \in 1..n /\ s[j] = t[j - 1] /\ t[j - 1] \in rest
      BY <2>1, <2>7, <2>10
    <3>2. CASE i = 1
      BY <2>6, <2>7, <3>1, <3>2
    <3>3. CASE i # 1
      <4>1. i - 1 \in 1..n /\ s[i] = t[i - 1] /\ i - 1 < j - 1
        BY <2>1, <2>7, <2>10, <3>3
      <4> QED
        BY <2>5, <3>1, <4>1
    <3> QED
      BY <3>2, <3>3
  <2>11. Ordered(s, rs)
    BY <2>8, <2>9, <2>10, Zenon DEF Ordered
  <2> QED
    BY <2>11, Zenon
<1>4. T = Nat
  <2> HIDE DEF T
  <2>1. T \in SUBSET Nat
    BY DEF T
  <2> QED
    BY <1>2, <1>3, <2>1, SetInduction
<1>5. Cardinality(S) \in Nat
  BY <1>1, SubsetSize
<1> QED
  BY <1>4, <1>5

LEMMA PartOrder ==
    ASSUME NEW m, NEW S, S \in SUBSET Of(m)
    PROVE  /\ InPartOrder(S) \in Seq(Request) /\ IsInjective(InPartOrder(S))
           /\ \A x \in Range(InPartOrder(S)) : x \in S
<1> DEFINE s == InPartOrder(S)
           n == Cardinality(S)
<1>1. \E u \in [1..n -> S] : \A i, j \in DOMAIN u : i < j => u[i].part < u[j].part
  BY OrderExists, Zenon DEF Ordered
<1>2. s \in [1..n -> S] /\ \A i, j \in DOMAIN s : i < j => s[i].part < s[j].part
  BY <1>1, Zenon DEF InPartOrder
<1> HIDE DEF s
<1>3. S \in SUBSET Request /\ \A x \in Request : x.part \in Nat
  BY PrepareAssumption DEF Of
<1>4. IsFiniteSet(S)
  BY <1>3, PoolAssumption, FS_Subset
<1>5. n \in Nat
  BY <1>4, FS_CardinalityType
<1> HIDE DEF n
<1>6. s \in Seq(Request)
  <2>1. s \in [1..n -> Request]
    BY <1>2, <1>3
  <2> QED
    BY <1>5, <2>1
<1>7. DOMAIN s = 1..n /\ \A i \in 1..n : s[i].part \in Nat /\ s[i] \in S
  BY <1>2, <1>3
<1>8. IsInjective(s)
  <2>1. ASSUME NEW i \in 1..n, NEW j \in 1..n, s[i] = s[j]
        PROVE  i = j
    <3>1. ~(i < j) /\ ~(j < i)
      BY <1>2, <1>7, <2>1
    <3> QED
      BY <1>5, <3>1
  <2> QED
    BY <1>7, <2>1, Zenon DEF IsInjective
<1>9. \A x \in Range(s) : x \in S
  BY <1>7, Zenon DEF Range
<1> QED
  BY <1>6, <1>8, <1>9, Zenon DEF s

Ready(st, fu) == st = "waiting" /\ fu \in {"granted", "failed"}

LoopInv ==
    /\ loop \in [Meta -> Seq(Request)]
    /\ \A m \in Meta : /\ IsInjective(loop[m])
                       /\ \A x \in Range(loop[m]) : x \in Request /\ x.meta = m /\ Ready(stage[x], future[x])

\* What is scheduled waits, and waited for its future until now.
LEMMA LoopGrows ==
    ASSUME LoopInv, NEW rs \in SUBSET Request, Schedule(rs),
           \A x \in rs : ~Ready(stage[x], future[x]) /\ Ready(stage'[x], future'[x]),
           \A x \in Request : Ready(stage[x], future[x]) => Ready(stage'[x], future'[x])
    PROVE  LoopInv'
<1>1. loop \in [Meta -> Seq(Request)]
  BY Zenon DEF LoopInv
<1>2. ASSUME NEW m \in Meta
      PROVE  /\ loop'[m] \in Seq(Request) /\ IsInjective(loop'[m])
             /\ \A x \in Range(loop'[m]) : x \in Request /\ x.meta = m /\ Ready(stage'[x], future'[x])
  <2> DEFINE s == loop[m]
             u == InPartOrder(rs \cap Of(m))
  <2>1. /\ s \in Seq(Request) /\ IsInjective(s)
        /\ \A x \in Range(s) : x \in Request /\ x.meta = m /\ Ready(stage[x], future[x])
    BY Zenon DEF LoopInv
  <2>2. u \in Seq(Request) /\ IsInjective(u) /\ \A x \in Range(u) : x \in rs /\ x.meta = m
    <3>1. rs \cap Of(m) \in SUBSET Of(m) /\ \A x \in rs \cap Of(m) : x \in rs /\ x.meta = m
      BY DEF Of
    <3> QED
      BY <3>1, PartOrder, Zenon
  <2>3. loop'[m] = s \o u
    BY DEF Schedule
  <2> HIDE DEF s, u
  <2>4. \A x \in Range(u) : x \notin Range(s)
    BY <2>1, <2>2, Zenon
  <2>5. /\ s \o u \in Seq(Request) /\ IsInjective(s \o u)
        /\ \A x \in Range(s \o u) : x \in Range(s) \/ x \in Range(u)
    BY <2>1, <2>2, <2>4, Joined, Zenon
  <2>6. \A x \in Range(s \o u) : x \in Request /\ x.meta = m /\ Ready(stage'[x], future'[x])
    BY <2>1, <2>2, <2>5, Zenon
  <2> QED
    BY <2>3, <2>5, <2>6, Zenon
<1>3. loop' \in [Meta -> Seq(Request)]
  <2>1. loop' = [m \in Meta |-> loop[m] \o InPartOrder(rs \cap Of(m))]
    BY Zenon DEF Schedule
  <2> QED
    BY <1>2, <2>1, Zenon
<1> QED
  BY <1>2, <1>3, Zenon DEF LoopInv

LEMMA LoopSame ==
    ASSUME LoopInv, UNCHANGED loop,
           \A x \in Request : Ready(stage[x], future[x]) => Ready(stage'[x], future'[x])
    PROVE  LoopInv'
BY Zenon DEF LoopInv

\* The callback of r has run.
LEMMA LoopShrinks ==
    ASSUME LoopInv, NEW m \in Meta, loop[m] # << >>, loop' = [loop EXCEPT ![m] = Tail(@)],
           \A x \in Request : x # Head(loop[m]) /\ Ready(stage[x], future[x]) => Ready(stage'[x], future'[x])
    PROVE  LoopInv'
<1>1. /\ loop \in [Meta -> Seq(Request)]
      /\ \A n \in Meta : /\ IsInjective(loop[n])
                         /\ \A x \in Range(loop[n]) : x \in Request /\ x.meta = n /\ Ready(stage[x], future[x])
  BY Zenon DEF LoopInv
<1>2. /\ Head(loop[m]) \in Range(loop[m])
      /\ Tail(loop[m]) \in Seq(Request) /\ IsInjective(Tail(loop[m]))
      /\ \A x \in Range(Tail(loop[m])) : x \in Range(loop[m]) /\ x # Head(loop[m])
  <2>1. loop[m] \in Seq(Request) /\ IsInjective(loop[m])
    BY <1>1, Zenon
  <2> QED
    BY <2>1, TailOf
<1>3. /\ loop' \in [Meta -> Seq(Request)] /\ loop'[m] = Tail(loop[m])
      /\ \A n \in Meta : n # m => loop'[n] = loop[n]
  BY <1>1, <1>2
<1>4. ASSUME NEW n \in Meta
      PROVE  /\ IsInjective(loop'[n])
             /\ \A x \in Range(loop'[n]) : x \in Request /\ x.meta = n /\ Ready(stage'[x], future'[x])
  <2>1. CASE n = m
    <3>1. \A x \in Range(Tail(loop[m])) : x \in Request /\ x.meta = m /\ Ready(stage'[x], future'[x])
      BY <1>1, <1>2, Zenon
    <3> QED
      BY <1>2, <1>3, <2>1, <3>1, Zenon
  <2>2. CASE n # m
    <3>1. Head(loop[m]).meta = m
      BY <1>1, <1>2, Zenon
    <3>2. loop'[n] = loop[n]
      BY <1>3, <2>2, Zenon
    <3>3. \A x \in Range(loop[n]) : x \in Request /\ x.meta = n /\ Ready(stage[x], future[x])
      BY <1>1, Zenon
    <3>4. \A x \in Range(loop[n]) : x # Head(loop[m])
      BY <2>2, <3>1, <3>3, Zenon
    <3> QED
      BY <1>1, <3>2, <3>3, <3>4, Zenon
  <2> QED
    BY <2>1, <2>2, Zenon
<1> QED
  BY <1>3, <1>4, Zenon DEF LoopInv

LEMMA LoopMoves ==
    ASSUME LoopInv, stage \in [Request -> Stages], NEW r \in Request, ~Ready(stage[r], future[r]),
           NEW to \in Stages, MoveTo(r, to), UNCHANGED loop,
           \A x \in Request : x # r => future'[x] = future[x]
    PROVE  LoopInv'
<1>1. \A x \in Request : x # r => stage'[x] = stage[x]
  BY Moves, Zenon
<1>2. \A x \in Request : Ready(stage[x], future[x]) => Ready(stage'[x], future'[x])
  BY <1>1, Zenon
<1> QED
  BY <1>2, LoopSame, Zenon

LEMMA LoopStep ==
    ASSUME Holders0, LoopInv, Next
    PROVE  LoopInv'
<1>1. stage \in [Request -> Stages] /\ future \in [Request -> Futures]
  BY Zenon DEF Holders0, HolderTypes
<1>2. {"handed", "reserved", "waiting", "claimed", "prepared", "done"} \subseteq Stages
  BY DEF Stages
<1>3. ASSUME NEW r \in Request, AcquireMem(r) \/ HandOut(r) \/ ClaimBuffer(r) \/ FailDrained(r)
                                  \/ ReleaseBuffer(r) \/ PollWrite(r)
      PROVE  LoopInv'
  <2>1. ~Ready(stage[r], future[r])
    BY <1>3, Zenon DEF Ready, AcquireMem, HandOut, ClaimBuffer, FailDrained, ReleaseBuffer, PollWrite
  <2>2. UNCHANGED loop
    BY <1>3, Zenon DEF AcquireMem, HandOut, ClaimBuffer, FailDrained, ReleaseBuffer, PollWrite
  <2>3. \E to \in Stages : MoveTo(r, to)
    BY <1>2, <1>3, Zenon DEF AcquireMem, HandOut, ClaimBuffer, FailDrained, ReleaseBuffer, PollWrite
  <2>4. \A x \in Request : x # r => future'[x] = future[x]
    <3>1. CASE AcquireMem(r)
      BY <1>1, <3>1 DEF AcquireMem, Reserve
    <3>2. CASE PollWrite(r)
      BY <1>1, <3>2 DEF PollWrite, Reserve
    <3>3. CASE HandOut(r) \/ ClaimBuffer(r) \/ FailDrained(r) \/ ReleaseBuffer(r)
      BY <3>3, Zenon DEF HandOut, ClaimBuffer, FailDrained, ReleaseBuffer, Claim, Destroy, poolVars
    <3> QED
      BY <1>3, <3>1, <3>2, <3>3, Zenon
  <2> QED
    BY <1>1, <2>1, <2>2, <2>3, <2>4, LoopMoves, Zenon
<1>4. ASSUME NEW r \in Request, RegisterCallback(r)
      PROVE  LoopInv'
  <2> DEFINE rs == IF future[r] = "open" THEN {} ELSE {r}
  <2>1. stage[r] = "reserved" /\ MoveTo(r, "waiting") /\ UNCHANGED future /\ Schedule(rs)
    BY <1>4, Zenon DEF RegisterCallback, poolVars
  <2>2. stage'[r] = "waiting" /\ \A x \in Request : x # r => stage'[x] = stage[x]
    BY <1>1, <1>2, <2>1, Moves, SMTT(30)
  <2>3. future[r] # "open" => future[r] \in {"granted", "failed"}
    <3>1. OneOK(stage[r], future[r], ticket[r], r)
      BY Zenon DEF Holders0, RequestInv
    <3> QED
      BY <1>1, <2>1, <3>1 DEF OneOK, Futures
  <2>4. rs \in SUBSET Request /\ \A x \in rs : ~Ready(stage[x], future[x]) /\ Ready(stage'[x], future'[x])
    BY <2>1, <2>2, <2>3 DEF Ready
  <2> HIDE DEF rs
  <2>5. \A x \in Request : Ready(stage[x], future[x]) => Ready(stage'[x], future'[x])
    BY <2>1, <2>2 DEF Ready
  <2> QED
    BY <2>1, <2>4, <2>5, LoopGrows, Zenon
<1>5. ASSUME NEW done \in captured, CompleteFuture(done)
      PROVE  LoopInv'
  BY <1>5, RestKeeps, <1>1, LoopGrows, Zenon DEF CompleteFuture, Complete, Ready
<1>6. ASSUME NEW m \in Meta, Cancel(m)
      PROVE  LoopInv'
  <2> DEFINE listed == Of(m) \cap In({"waiting"})
             rs == {x \in listed : future[x] = "open"}
  <2>1. FailFutures(listed) /\ UNCHANGED stage /\ Schedule(rs)
    BY <1>6, Zenon DEF Cancel
  <2>2. listed \in SUBSET Request /\ \A x \in listed : stage[x] = "waiting"
    BY DEF In
  <2> HIDE DEF listed
  <2>3. rs \in SUBSET Request /\ \A x \in rs : ~Ready(stage[x], future[x]) /\ Ready(stage'[x], future'[x])
    BY <1>1, <2>1, <2>2 DEF Ready, FailFutures
  <2>4. \A x \in Request : Ready(stage[x], future[x]) => Ready(stage'[x], future'[x])
    BY <1>1, <2>1 DEF Ready, FailFutures
  <2> HIDE DEF rs
  <2> QED
    BY <2>1, <2>3, <2>4, LoopGrows, Zenon
<1>7. ASSUME NEW m \in Meta, OnPoolBufferReserved(m)
      PROVE  LoopInv'
  <2> DEFINE r == Head(loop[m])
             queue == (Of(m) \cap In({"queued"})) \cup {r}
             ready == IF r.kind = "put" THEN Drained(m, queue) ELSE {r}
  <2>1. /\ loop[m] # << >> /\ loop' = [loop EXCEPT ![m] = Tail(@)] /\ UNCHANGED future
        /\ \/ stage' = [q \in Request |-> IF q = r THEN "done"
                                          ELSE IF q \in ForceDrained(r) THEN "dropping" ELSE stage[q]]
           \/ stage' = [q \in Request |-> IF q \in ready THEN "prepared"
                                          ELSE IF q = r THEN "queued" ELSE stage[q]]
    BY <1>7, Zenon DEF OnPoolBufferReserved, poolVars
  <2>2. \A q \in ready : q = r \/ stage[q] = "queued"
    BY DEF Drained, In
  <2>3. \A q \in ForceDrained(r) : stage[q] = "queued"
    BY DEF ForceDrained, In
  <2> HIDE DEF ready
  <2>4. \A x \in Request : x # r /\ Ready(stage[x], future[x]) => Ready(stage'[x], future'[x])
    <3> HIDE DEF r
    <3> QED
      BY <2>1, <2>2, <2>3 DEF Ready
  <2> QED
    BY <2>1, <2>4, LoopShrinks, Zenon
<1>8. ASSUME NEW m \in Meta, OptimizePool(m) \/ DestroyMetaRequest(m)
      PROVE  LoopInv'
  BY <1>8, LoopSame, Zenon DEF OptimizePool, DestroyMetaRequest, AddSpecialSize,
     ReleaseSpecialSize
<1>9. CASE TrimTask
  <2>1. UNCHANGED <<loop, stage, future>>
    BY <1>9, Zenon DEF TrimTask, Trim, prepareVars
  <2> QED
    BY <2>1, LoopSame, Zenon
<1> QED
  BY <1>3, <1>4, <1>5, <1>6, <1>7, <1>8, <1>9, Zenon DEF Next, Work
-----------------------------------------------------------------------------
(***************************************************************************)
(* The order of preparation: the parts below next_put_part_to_prepare are  *)
(* those that have been prepared, and no other part of a sequential upload *)
(* has.                                                                    *)
(***************************************************************************)
Started == {"prepared", "claimed"}

OrderInv ==
    /\ next_put_part_to_prepare \in [Meta -> Nat]
    /\ \A r \in Request :
          /\ r.kind = "put" /\ stage[r] \in Started => r.part < next_put_part_to_prepare[r.meta]
          /\ r.part < next_put_part_to_prepare[r.meta] => stage[r] \in Started \cup {"done"}

\* A finite set of numbers from n on without a gap.
LEMMA NoGap ==
    ASSUME NEW n \in Nat, NEW S \in SUBSET Nat, IsFiniteSet(S),
           \A x \in S : x >= n /\ \A k \in n..x : k \in S
    PROVE  S = n..(n + Cardinality(S) - 1)
<1> DEFINE U == {k \in Nat : k >= n /\ k \notin S}
           c == Cardinality(S)
<1>1. c \in Nat
  BY FS_CardinalityType
<1>2. U # {}
  <2> SUFFICES ASSUME U = {}
               PROVE  FALSE
    OBVIOUS
  <2>1. n..(n + c) \in SUBSET S
    BY <1>1
  <2>2. Cardinality(n..(n + c)) <= c
    BY <2>1, FS_Subset, Zenon
  <2>3. Cardinality(n..(n + c)) = c + 1
    BY <1>1, FS_Interval
  <2> QED
    BY <1>1, <2>2, <2>3
<1>3. PICK u \in U : \A k \in U : u <= k
  BY <1>2, Least, Zenon
<1>4. u \in Nat /\ u >= n /\ u \notin S
  BY <1>3
<1>5. \A k \in n..(u - 1) : k \in S
  BY <1>3, <1>4
<1>6. \A x \in S : x \in n..(u - 1)
  <2> TAKE x \in S
  <2>1. x \in Nat /\ x >= n /\ (u <= x => u \in n..x)
    BY <1>4
  <2> QED
    BY <1>4, <2>1
<1>7. S = n..(u - 1)
  BY <1>5, <1>6, Zenon
<1>8. c = u - n
  <2>1. Cardinality(n..(u - 1)) = IF n > u - 1 THEN 0 ELSE (u - 1) - n + 1
    BY <1>4, FS_Interval
  <2>2. c = Cardinality(n..(u - 1))
    BY <1>7, Zenon
  <2> QED
    BY <1>4, <2>1, <2>2
<1>9. n + c - 1 = u - 1
  BY <1>4, <1>8
<1> QED
  BY <1>7, <1>9

LEMMA PartNumbers ==
    ASSUME NEW m, NEW rs \in SUBSET Of(m)
    PROVE  /\ {x.part : x \in rs} \in SUBSET Nat /\ IsFiniteSet({x.part : x \in rs})
           /\ Cardinality({x.part : x \in rs}) = Cardinality(rs)
           /\ \A x \in Of(m) : x.part \in {y.part : y \in rs} => x \in rs
<1> DEFINE S == {x.part : x \in rs}
           f == [x \in rs |-> x.part]
<1>1. /\ rs \in SUBSET Request /\ \A x \in Of(m) : x \in Request /\ x.part \in Nat
      /\ \A x, y \in Of(m) : x.part = y.part => x = y
  BY PrepareAssumption DEF Of
<1>2. IsFiniteSet(rs)
  BY <1>1, PoolAssumption, FS_Subset
<1>3. f \in Surjection(rs, S)
  BY DEF Surjection
<1>4. f \in Injection(rs, S)
  BY <1>1 DEF Injection, IsInjective
<1>5. IsFiniteSet(S) /\ Cardinality(S) = Cardinality(rs)
  <2> HIDE DEF f, S
  <2> QED
    BY <1>2, <1>3, <1>4, FS_Surjection
<1>6. S \in SUBSET Nat
  BY <1>1
<1>7. \A x \in Of(m) : x.part \in S => x \in rs
  BY <1>1
<1> QED
  BY <1>5, <1>6, <1>7, Zenon

\* What s_drain_pending_put_prepare_queue takes are the next parts.
LEMMA DrainedParts ==
    ASSUME NEW m \in Meta, next_put_part_to_prepare[m] \in Nat, NEW queue \in SUBSET Of(m),
           \A x \in queue : x.part >= next_put_part_to_prepare[m]
    PROVE  LET ready == Drained(m, queue)
               n == next_put_part_to_prepare[m]
           IN  /\ ready \in SUBSET queue /\ Cardinality(ready) \in Nat
               /\ \A x \in ready : x.part < n + Cardinality(ready)
               /\ \A x \in Of(m) : x.part >= n /\ x.part < n + Cardinality(ready) => x \in ready
<1> DEFINE ready == Drained(m, queue)
           n == next_put_part_to_prepare[m]
           S == {x.part : x \in ready}
           c == Cardinality(ready)
<1>1. /\ ready \in SUBSET queue
      /\ \A x \in queue : x \in ready <=> \A k \in n..x.part : \E q \in queue : q.part = k
  BY DEF Drained
<1>2. /\ S \in SUBSET Nat /\ IsFiniteSet(S) /\ Cardinality(S) = c
      /\ \A x \in Of(m) : x.part \in S => x \in ready
  BY <1>1, PartNumbers, Zenon
<1>3. \A x \in Of(m) : x.part \in Nat
  BY PrepareAssumption DEF Of
<1> HIDE DEF ready, n, c
<1>4. ASSUME NEW x \in ready, NEW k \in n..x.part
      PROVE  k \in S
  <2>1. PICK q \in queue : q.part = k
    BY <1>1, <1>4
  <2>2. \A l \in n..k : l \in n..x.part
    BY <1>1, <1>3 DEF n
  <2>3. q \in ready
    BY <1>1, <1>4, <2>1, <2>2, SMTT(30)
  <2> QED
    BY <2>1, <2>3
<1>5. \A z \in S : z >= n /\ \A k \in n..z : k \in S
  BY <1>1, <1>4 DEF n
<1>6. n \in Nat /\ c \in Nat
  BY <1>2, FS_CardinalityType DEF n
<1>7. \A x \in ready : x.part \in S
  OBVIOUS
<1> HIDE DEF S
<1>8. S = n..(n + c - 1)
  BY <1>2, <1>5, <1>6, NoGap
<1>9. \A x \in ready : x.part < n + c
  BY <1>2, <1>6, <1>7, <1>8, SMTT(30)
<1>10. \A x \in Of(m) : x.part >= n /\ x.part < n + c => x \in ready
  BY <1>2, <1>3, <1>6, <1>8
<1> QED
  BY <1>1, <1>6, <1>9, <1>10, Zenon DEF ready, n, c

LEMMA OrderSame ==
    ASSUME OrderInv, UNCHANGED next_put_part_to_prepare,
           \A x \in Request :
              /\ x.kind = "put" /\ stage'[x] \in Started => stage[x] \in Started
              /\ stage[x] \in Started \cup {"done"} => stage'[x] \in Started \cup {"done"}
    PROVE  OrderInv'
BY Zenon DEF OrderInv

LEMMA OrderMoves ==
    ASSUME OrderInv, UNCHANGED next_put_part_to_prepare, stage \in [Request -> Stages],
           NEW r \in Request, NEW to \in Stages, MoveTo(r, to),
           r.kind = "put" /\ to \in Started => stage[r] \in Started,
           stage[r] \in Started \cup {"done"} => to \in Started \cup {"done"}
    PROVE  OrderInv'
<1>1. stage'[r] = to /\ \A x \in Request : x # r => stage'[x] = stage[x]
  BY Moves, Zenon
<1>2. \A x \in Request :
         /\ x.kind = "put" /\ stage'[x] \in Started => stage[x] \in Started
         /\ stage[x] \in Started \cup {"done"} => stage'[x] \in Started \cup {"done"}
  BY <1>1, Zenon
<1> QED
  BY <1>2, OrderSame, Zenon

LEMMA OrderOnReserved ==
    ASSUME OrderInv, LoopInv, stage \in [Request -> Stages], NEW m \in Meta, OnPoolBufferReserved(m)
    PROVE  OrderInv'
<1> DEFINE r == Head(loop[m])
           queue == (Of(m) \cap In({"queued"})) \cup {r}
           ready == IF r.kind = "put" THEN Drained(m, queue) ELSE {r}
           n == next_put_part_to_prepare[m]
<1>1. /\ loop[m] # << >>
      /\ \/ /\ stage' = [q \in Request |-> IF q = r THEN "done"
                                           ELSE IF q \in ForceDrained(r) THEN "dropping" ELSE stage[q]]
            /\ UNCHANGED next_put_part_to_prepare
         \/ /\ stage' = [q \in Request |-> IF q \in ready THEN "prepared"
                                           ELSE IF q = r THEN "queued" ELSE stage[q]]
            /\ next_put_part_to_prepare' =
                  [next_put_part_to_prepare EXCEPT ![m] = IF r.kind = "put" THEN @ + Cardinality(ready) ELSE @]
  BY Zenon DEF OnPoolBufferReserved
<1>2. r \in Request /\ r.meta = m /\ stage[r] = "waiting"
  <2>1. /\ loop[m] \in Seq(Request) /\ IsInjective(loop[m])
        /\ \A x \in Range(loop[m]) : x \in Request /\ x.meta = m /\ Ready(stage[x], future[x])
    BY Zenon DEF LoopInv
  <2>2. r \in Range(loop[m])
    BY <1>1, <2>1, TailOf
  <2> QED
    BY <2>1, <2>2, Zenon DEF Ready
<1>3. /\ next_put_part_to_prepare \in [Meta -> Nat] /\ n \in Nat
      /\ \A x \in Request : x.kind = "put" /\ stage[x] \in Started => x.part < next_put_part_to_prepare[x.meta]
      /\ \A x \in Request : x.part < next_put_part_to_prepare[x.meta] => stage[x] \in Started \cup {"done"}
  BY Zenon DEF OrderInv
<1>4. \A q \in ForceDrained(r) : stage[q] = "queued"
  BY DEF ForceDrained, In
<1>5. queue \in SUBSET Of(m) /\ r \in queue /\ \A x \in queue : stage[x] \in {"queued", "waiting"}
  BY <1>2 DEF Of, In
<1>6. \A x : x \in Of(m) <=> x \in Request /\ x.meta = m
  BY DEF Of
<1>7. \A x \in Request : x.part \in Nat
  BY PrepareAssumption
<1> HIDE DEF r, queue
<1>8. CASE /\ stage' = [q \in Request |-> IF q = r THEN "done"
                                          ELSE IF q \in ForceDrained(r) THEN "dropping" ELSE stage[q]]
           /\ UNCHANGED next_put_part_to_prepare
  <2>1. \A x \in Request :
           /\ x.kind = "put" /\ stage'[x] \in Started => stage[x] \in Started
           /\ stage[x] \in Started \cup {"done"} => stage'[x] \in Started \cup {"done"}
    BY <1>2, <1>4, <1>8 DEF Started
  <2> QED
    BY <1>8, <2>1, OrderSame, Zenon
<1>9. CASE /\ stage' = [q \in Request |-> IF q \in ready THEN "prepared"
                                          ELSE IF q = r THEN "queued" ELSE stage[q]]
           /\ next_put_part_to_prepare' =
                 [next_put_part_to_prepare EXCEPT ![m] = IF r.kind = "put" THEN @ + Cardinality(ready) ELSE @]
  <2>1. CASE r.kind # "put"
    <3>1. ready = {r}
      BY <2>1
    <3> HIDE DEF ready
    <3>2. UNCHANGED next_put_part_to_prepare
      BY <1>3, <1>9, <2>1
    <3>3. \A x \in Request :
             /\ x.kind = "put" /\ stage'[x] \in Started => stage[x] \in Started
             /\ stage[x] \in Started \cup {"done"} => stage'[x] \in Started \cup {"done"}
      BY <1>2, <1>9, <2>1, <3>1 DEF Started
    <3> QED
      BY <3>2, <3>3, OrderSame, Zenon
  <2>2. CASE r.kind = "put"
    <3> DEFINE c == Cardinality(ready)
    <3>1. \A x \in queue : x.part >= n
      <4> TAKE x \in queue
      <4>1. x \in Request /\ x.meta = m /\ stage[x] \notin Started \cup {"done"}
        BY <1>5, <1>6 DEF Started
      <4> QED
        BY <1>3, <1>7, <4>1
    <3>2. ready = Drained(m, queue)
      BY <2>2
    <3> HIDE DEF ready
    <3>3. /\ ready \in SUBSET queue /\ c \in Nat /\ \A x \in ready : x.part < n + c
          /\ \A x \in Of(m) : x.part >= n /\ x.part < n + c => x \in ready
      <4>1. n \in Nat /\ queue \in SUBSET Of(m) /\ \A x \in queue : x.part >= n
        BY <1>3, <1>5, <3>1, Zenon
      <4> QED
        BY <3>2, <4>1, DrainedParts
    <3> HIDE DEF c
    <3>4. /\ next_put_part_to_prepare' \in [Meta -> Nat] /\ next_put_part_to_prepare'[m] = n + c
          /\ \A o \in Meta : o # m => next_put_part_to_prepare'[o] = next_put_part_to_prepare[o]
      BY <1>3, <1>9, <2>2, <3>3, SMTT(30) DEF c
    <3> HIDE DEF n
    <3>5. ASSUME NEW x \in Request
          PROVE  /\ x.kind = "put" /\ stage'[x] \in Started => x.part < next_put_part_to_prepare'[x.meta]
                 /\ x.part < next_put_part_to_prepare'[x.meta] => stage'[x] \in Started \cup {"done"}
      <4>1. x.meta \in Meta
        BY DEF Meta
      <4>2. CASE x \in ready
        <5>1. x.meta = m /\ stage'[x] = "prepared"
          BY <1>5, <1>6, <1>9, <3>3, <4>2, SMTT(30)
        <5> QED
          BY <3>3, <3>4, <4>2, <5>1, SMTT(30) DEF Started
      <4>3. CASE x \notin ready
        <5>1. stage'[x] = IF x = r THEN "queued" ELSE stage[x]
          BY <1>9, <4>3
        <5>2. /\ stage'[x] \in Started => stage[x] \in Started
              /\ stage[x] \in Started \cup {"done"} => stage'[x] \in Started \cup {"done"}
          BY <1>2, <5>1 DEF Started
        <5>3. CASE x.meta # m
          <6>1. next_put_part_to_prepare'[x.meta] = next_put_part_to_prepare[x.meta]
            BY <3>4, <4>1, <5>3, Zenon
          <6> QED
            BY <1>3, <5>2, <6>1, Zenon
        <5>4. CASE x.meta = m
          <6>1. x \in Of(m) /\ x.part \in Nat /\ next_put_part_to_prepare[x.meta] = n
                /\ next_put_part_to_prepare'[x.meta] = n + c
            BY <1>6, <1>7, <3>4, <5>4, SMTT(30) DEF n
          <6>2. x.part < n + c => x.part < n
            BY <1>3, <3>3, <4>3, <6>1, SMTT(30)
          <6>3. x.part < n => x.part < n + c
            BY <1>3, <3>3, <6>1
          <6> QED
            BY <1>3, <5>2, <6>1, <6>2, <6>3, ZenonT(40)
        <5> QED
          BY <5>3, <5>4, Zenon
      <4> QED
        BY <4>2, <4>3, Zenon
    <3> QED
      BY <3>4, <3>5, Zenon DEF OrderInv
  <2> QED
    BY <2>1, <2>2, Zenon
<1> QED
  BY <1>1, <1>8, <1>9, Zenon

LEMMA OrderStep ==
    ASSUME Holders0, LoopInv, OrderInv, Next
    PROVE  OrderInv'
<1>1. stage \in [Request -> Stages]
  BY Zenon DEF Holders0, HolderTypes
<1>2. {"handed", "reserved", "waiting", "claimed", "prepared", "done"} \subseteq Stages
  BY DEF Stages
<1>3. /\ "prepared" \in Started /\ "claimed" \in Started /\ "new" \notin Started /\ "handed" \notin Started
      /\ "reserved" \notin Started /\ "waiting" \notin Started /\ "dropping" \notin Started /\ "done" \notin Started
  BY DEF Started
<1>4. ASSUME NEW r \in Request, AcquireMem(r) \/ HandOut(r) \/ ClaimBuffer(r) \/ FailDrained(r)
                                  \/ ReleaseBuffer(r) \/ PollWrite(r) \/ RegisterCallback(r)
      PROVE  OrderInv'
  BY <1>4, <1>2, <1>3, <1>1, OrderMoves, Zenon DEF AcquireMem, HandOut, ClaimBuffer,
     FailDrained, ReleaseBuffer, PollWrite, RegisterCallback
<1>5. ASSUME UNCHANGED <<next_put_part_to_prepare, stage>>
      PROVE  OrderInv'
  BY <1>5, OrderSame, Zenon
<1>6. ASSUME NEW done \in captured, CompleteFuture(done)
      PROVE  OrderInv'
  BY <1>5, <1>6, Zenon DEF CompleteFuture
<1>7. ASSUME NEW m \in Meta, Cancel(m) \/ OptimizePool(m) \/ DestroyMetaRequest(m)
      PROVE  OrderInv'
  BY <1>5, <1>7, Zenon DEF Cancel, OptimizePool, DestroyMetaRequest
<1>8. ASSUME NEW m \in Meta, OnPoolBufferReserved(m)
      PROVE  OrderInv'
  BY <1>1, <1>8, OrderOnReserved, Zenon
<1>9. CASE TrimTask
  BY <1>5, <1>9, Zenon DEF TrimTask, prepareVars
<1> QED
  BY <1>4, <1>6, <1>7, <1>8, <1>9, Zenon DEF Next, Work
-----------------------------------------------------------------------------
(***************************************************************************)
(* The invariant, and what it implies.                                     *)
(***************************************************************************)
RestTypes == stopped \in SUBSET Meta /\ optimized \in [Meta -> {"no", "yes", "released"}]

Inv == Books(pool, ticket) /\ Holders0 /\ LoopInv /\ OrderInv /\ RestTypes

LEMMA InitBooks ==
    ASSUME PoolInit
    PROVE  Books(pool, ticket)
<1> DEFINE zero == [a \in Area |-> 0]
           none == [n \in {} |-> {}]
<1>1. /\ pool = [blocks |-> << >>, special |-> none, reserved |-> zero, used |-> zero,
                 primary_allocated |-> 0, special_allocated |-> 0, forced_used |-> 0]
      /\ ticket = [r \in Request |-> NoTicket]
  BY Zenon DEF PoolInit
<1>2. none \in Lists /\ DOMAIN none = {}
  <2>1. {} \in SUBSET Nat /\ none \in [{} -> SUBSET Slot]
    OBVIOUS
  <2> QED
    BY <2>1, IntoLists, Zenon
<1>3. SpecialBytes(none) = 0
  BY <1>2, SumNone, Zenon DEF SpecialBytes
<1>4. zero \in Tallies /\ \A a \in Area : zero[a] = 0
  BY DEF Tallies
<1>5. Sum(zero) = 0
  BY DEF Sum, Area
<1> HIDE DEF zero, none
<1>6. /\ pool.blocks = << >> /\ pool.special = none /\ pool.reserved = zero /\ pool.used = zero
      /\ pool.primary_allocated = 0 /\ pool.special_allocated = 0 /\ pool.forced_used = 0
  BY <1>1
<1>7. pool \in PoolType
  BY <1>1, <1>2, <1>4 DEF PoolType
<1>8. ticket \in Tickets /\ \A r \in Request : ticket[r].state = "none"
  BY <1>1, NoTicketState DEF Tickets
<1>9. /\ \A a : Claimed(ticket, a) = {} /\ Reserved(ticket, a) = {}
      /\ ForcedClaims(ticket) = {} /\ Unforced(ticket) = {}
  BY <1>8 DEF Claimed, Reserved, ForcedClaims, Unforced, IsClaimed, IsReserved, IsForcedClaim, IsUnforced
<1>10. Counted(pool.used, pool.reserved, pool.forced_used, ticket)
  <2>1. Counted(zero, zero, 0, ticket)
    <3>1. /\ \A a \in Area : zero[a] = Total(Claimed(ticket, a)) /\ zero[a] = Total(Reserved(ticket, a))
          /\ 0 = Total(ForcedClaims(ticket))
      BY <1>4, <1>9, TotalNone, Zenon
    <3>2. Total(Unforced(ticket)) = 0
      BY <1>9, TotalNone, Zenon
    <3>3. Sum(zero) + Sum(zero) = Total(Unforced(ticket)) + 0 /\ Total(Unforced(ticket)) <= MemLimit
      BY <1>5, <3>2, LimitType
    <3> QED
      BY <3>1, <3>3, Zenon DEF Counted
  <2> QED
    BY <1>6, <2>1, Zenon
<1>11. Len(<< >>) = 0 /\ << >> \in Seq(Block) /\ Range(<< >>) = {}
  BY DEF Range
<1>12. Numbered(<< >>)
  BY <1>11 DEF Numbered, IsInjective
<1>13. InBlocks(pool.blocks, ticket) /\ InLists(pool.special, ticket)
  BY <1>9, Zenon DEF InBlocks, InLists
<1>14. Shelves(none)
  BY <1>2, FS_EmptySet, Zenon DEF Shelves
<1>15. Sane(ticket)
  BY <1>8 DEF Sane
<1>16. pool.primary_allocated = BlockSize * Len(pool.blocks)
  BY <1>6, <1>11, BlockType
<1> QED
  BY <1>3, <1>6, <1>7, <1>8, <1>10, <1>12, <1>13, <1>14, <1>15, <1>16, Zenon DEF Books

LEMMA InitInv == Init => Inv
<1> SUFFICES ASSUME Init
             PROVE  Inv
  OBVIOUS
<1>1. /\ PoolInit /\ stopped = {} /\ loop = [m \in Meta |-> << >>]
      /\ next_put_part_to_prepare = [m \in Meta |-> 1] /\ optimized = [m \in Meta |-> "no"]
      /\ \E load \in Loads : stage = [r \in Request |-> IF r \in load THEN "new" ELSE "absent"]
  BY Zenon DEF Init
<1>2. /\ pending_reserves = << >> /\ ticket = [r \in Request |-> NoTicket]
      /\ future = [r \in Request |-> "none"] /\ captured = {}
  BY <1>1, Zenon DEF PoolInit
<1>3. << >> \in Seq(Request) /\ Range(<< >>) = {} /\ IsInjective(<< >>)
  BY DEF Range, IsInjective
<1>4. stage \in [Request -> Stages] /\ \A r \in Request : stage[r] \in {"absent", "new"}
  BY <1>1 DEF Stages
<1>5. HolderTypes
  BY <1>2, <1>3, <1>4 DEF HolderTypes, Futures
<1>6. RequestInv
  <2> SUFFICES ASSUME NEW r \in Request
               PROVE  OneOK(stage[r], "none", NoTicket, r)
    BY <1>2 DEF RequestInv
  <2> QED
    BY <1>4, NoTicketState DEF OneOK, Going
<1>7. OwnedInv /\ PendingInv /\ CaughtInv
  BY <1>2, <1>3, Zenon DEF OwnedInv, PendingInv, CaughtInv, Disjoint
<1>8. LoopInv
  BY <1>1, <1>3 DEF LoopInv
<1>9. OrderInv
  <2>1. \A r \in Request : r.meta \in Meta /\ r.part \in Nat /\ r.part >= 1
    BY PrepareAssumption DEF Meta
  <2>2. \A r \in Request : next_put_part_to_prepare[r.meta] = 1 /\ ~(r.part < 1)
    BY <1>1, <2>1
  <2>3. \A r \in Request : stage[r] \notin Started
    BY <1>4 DEF Started
  <2>4. next_put_part_to_prepare \in [Meta -> Nat]
    BY <1>1
  <2> QED
    BY <2>2, <2>3, <2>4, Zenon DEF OrderInv
<1>10. RestTypes
  BY <1>1 DEF RestTypes
<1> QED
  BY <1>1, <1>5, <1>6, <1>7, <1>8, <1>9, <1>10, InitBooks, Zenon DEF Inv, Holders0

LEMMA RestStep ==
    ASSUME RestTypes, Next
    PROVE  RestTypes'
<1>1. \A r \in Request : r.meta \in Meta
  BY DEF Meta
<1>2. stopped' \in SUBSET Meta
  <2>1. \/ UNCHANGED stopped
        \/ \E m \in Meta : stopped' = stopped \cup {m}
    BY <1>1, Zenon DEF Next, Work, AcquireMem, HandOut, ClaimBuffer, FailDrained, ReleaseBuffer, PollWrite,
       RegisterCallback, CompleteFuture, OnPoolBufferReserved, Cancel, OptimizePool, DestroyMetaRequest,
       TrimTask, prepareVars
  <2> QED
    BY <2>1 DEF RestTypes
<1>3. optimized' \in [Meta -> {"no", "yes", "released"}]
  <2>1. \/ UNCHANGED optimized
        \/ \E m \in Meta : \E v \in {"yes", "released"} : optimized' = [optimized EXCEPT ![m] = v]
    BY Zenon DEF Next, Work, AcquireMem, HandOut, ClaimBuffer, FailDrained, ReleaseBuffer, PollWrite,
       RegisterCallback, CompleteFuture, OnPoolBufferReserved, Cancel, OptimizePool, DestroyMetaRequest,
       TrimTask, prepareVars
  <2> QED
    BY <2>1 DEF RestTypes
<1> QED
  BY <1>2, <1>3, Zenon DEF RestTypes

LEMMA HoldersStep ==
    ASSUME Books(pool, ticket), Holders0, LoopInv, Next
    PROVE  Books(pool, ticket)' /\ Holders0'
<1>1. ASSUME NEW r \in Request, HandOut(r) \/ RegisterCallback(r)
      PROVE  Books(pool, ticket)' /\ Holders0'
  <2>1. UNCHANGED <<pool, ticket>>
    BY <1>1, Zenon DEF HandOut, RegisterCallback, poolVars
  <2>2. Holders0'
    BY <1>1, HandOutHolders, RegisterHolders, Zenon
  <2> QED
    BY <2>1, <2>2, Zenon
<1>2. ASSUME NEW r \in Request, AcquireMem(r) \/ ClaimBuffer(r) \/ FailDrained(r) \/ ReleaseBuffer(r) \/ PollWrite(r)
      PROVE  Books(pool, ticket)' /\ Holders0'
  BY <1>2, AcquireMemStep, ClaimBufferStep, FailDrainedStep, ReleaseBufferStep, PollWriteStep, Zenon
<1>3. ASSUME NEW done \in captured, CompleteFuture(done)
      PROVE  Books(pool, ticket)' /\ Holders0'
  BY <1>3, CompleteStep, Zenon DEF CompleteFuture
<1>4. ASSUME NEW m \in Meta, Cancel(m)
      PROVE  Books(pool, ticket)' /\ Holders0'
  BY <1>4, CancelStep, Zenon
<1>5. ASSUME NEW m \in Meta, OnPoolBufferReserved(m)
      PROVE  Books(pool, ticket)' /\ Holders0'
  <2>1. UNCHANGED <<pool, ticket>> /\ loop[m] # << >>
    BY <1>5, Zenon DEF OnPoolBufferReserved, poolVars
  <2>2. Head(loop[m]) \in Request /\ stage[Head(loop[m])] = "waiting"
    <3>1. /\ loop[m] \in Seq(Request) /\ IsInjective(loop[m])
          /\ \A x \in Range(loop[m]) : x \in Request /\ Ready(stage[x], future[x])
      BY Zenon DEF LoopInv
    <3>2. Head(loop[m]) \in Range(loop[m])
      BY <2>1, <3>1, TailOf
    <3> QED
      BY <3>1, <3>2, Zenon DEF Ready
  <2>3. Holders0'
    BY <1>5, <2>2, OnReservedHolders, Zenon
  <2> QED
    BY <2>1, <2>3, Zenon
<1>6. ASSUME UNCHANGED stage, Trim \/ ReleaseSpecialSize \/ \E r \in Request : AddSpecialSize(r.size)
      PROVE  Books(pool, ticket)' /\ Holders0'
  BY <1>6, PoolOnly, Zenon
<1>7. ASSUME NEW m \in Meta, OptimizePool(m) \/ DestroyMetaRequest(m)
      PROVE  Books(pool, ticket)' /\ Holders0'
  <2>1. \A r \in Of(m) : r \in Request
    BY DEF Of
  <2>2. UNCHANGED stage /\ (ReleaseSpecialSize \/ \E r \in Request : AddSpecialSize(r.size))
    BY <1>7, <2>1, Zenon DEF OptimizePool, DestroyMetaRequest
  <2> QED
    BY <1>6, <2>2, Zenon
<1>8. CASE TrimTask
  BY <1>6, <1>8, Zenon DEF TrimTask, prepareVars
<1> QED
  BY <1>1, <1>2, <1>3, <1>4, <1>5, <1>7, <1>8, Zenon DEF Next, Work

LEMMA NextInv == Inv /\ [Next]_vars => Inv'
<1> SUFFICES ASSUME Inv, [Next]_vars
             PROVE  Inv'
  OBVIOUS
<1>1. CASE Next
  BY <1>1, HoldersStep, LoopStep, OrderStep, RestStep, Zenon DEF Inv
<1>2. CASE UNCHANGED vars
  <2>1. UNCHANGED <<pool, pending_reserves, ticket, future, captured>>
        /\ UNCHANGED <<stage, stopped, loop, next_put_part_to_prepare, optimized>>
    BY <1>2, Zenon DEF vars, poolVars, prepareVars
  <2>2. Holders0'
    BY <2>1, SameHolders, Zenon DEF Inv
  <2>3. LoopInv' /\ OrderInv' /\ RestTypes'
    BY <2>1, Zenon DEF Inv, LoopInv, OrderInv, RestTypes
  <2>4. Books(pool', ticket')
    BY <2>1, Zenon DEF Inv
  <2> QED
    BY <2>2, <2>3, <2>4, Zenon DEF Inv
<1> QED
  BY <1>1, <1>2, Zenon

\* The sets of tickets that the properties sum over.
LEMMA TicketSets ==
    ASSUME ticket \in Tickets
    PROVE  /\ (Holders("reserved") \cup Holders("claimed")) \ Forced = Unforced(ticket)
           /\ \A a \in Area : /\ From(Holders("claimed"), a) = Claimed(ticket, a)
                              /\ From(Holders("reserved"), a) \ Forced = Reserved(ticket, a)
           /\ Forced \cap Holders("claimed") = ForcedClaims(ticket)
<1>1. \A r \in Request : ticket[r].state \in {"reserved", "claimed"} => ticket[r].forced \in BOOLEAN
  BY TicketParts, Zenon
<1>2. \A x : /\ x \in Holders("reserved") <=> x \in Request /\ ticket[x].state = "reserved"
             /\ x \in Holders("claimed") <=> x \in Request /\ ticket[x].state = "claimed"
  BY DEF Holders
<1>3. \A x : x \in Forced <=> x \in Request /\ ticket[x].state \in {"reserved", "claimed"} /\ ticket[x].forced
  BY <1>2 DEF Forced
<1>4. \A x : x \in Unforced(ticket) <=> x \in Request /\ ticket[x].state \in {"reserved", "claimed"} /\ ~ticket[x].forced
  BY DEF Unforced, IsUnforced
<1>5. (Holders("reserved") \cup Holders("claimed")) \ Forced = Unforced(ticket)
  BY <1>2, <1>3, <1>4
<1>6. ASSUME NEW a \in Area
      PROVE  /\ From(Holders("claimed"), a) = Claimed(ticket, a)
             /\ From(Holders("reserved"), a) \ Forced = Reserved(ticket, a)
  <2>1. \A x : x \in Claimed(ticket, a) <=> x \in Request /\ ticket[x].state = "claimed" /\ ticket[x].from = a
    BY DEF Claimed, IsClaimed
  <2>2. \A x : x \in Reserved(ticket, a)
                 <=> x \in Request /\ ticket[x].state = "reserved" /\ ticket[x].from = a /\ ~ticket[x].forced
    BY DEF Reserved, IsReserved
  <2>3. /\ \A x : x \in From(Holders("claimed"), a) <=> x \in Holders("claimed") /\ ticket[x].from = a
        /\ \A x : x \in From(Holders("reserved"), a) <=> x \in Holders("reserved") /\ ticket[x].from = a
    BY DEF From
  <2> QED
    BY <1>2, <1>3, <2>1, <2>2, <2>3, ZenonT(40)
<1>7. Forced \cap Holders("claimed") = ForcedClaims(ticket)
  <2>1. \A x : x \in ForcedClaims(ticket) <=> x \in Request /\ ticket[x].state = "claimed" /\ ticket[x].forced = TRUE
    BY DEF ForcedClaims, IsForcedClaim
  <2> QED
    BY <1>1, <1>2, <1>3, <2>1, SMTT(30)
<1> QED
  BY <1>5, <1>6, <1>7, Zenon

LEMMA InvBalance == Inv => BooksBalance
<1> SUFFICES ASSUME Inv
             PROVE  BooksBalance
  OBVIOUS
<1>1. /\ ticket \in Tickets /\ Counted(pool.used, pool.reserved, pool.forced_used, ticket)
      /\ pool.primary_allocated = BlockSize * Len(pool.blocks)
      /\ pool.special_allocated = SpecialBytes(pool.special)
  BY Zenon DEF Inv, Books
<1>2. /\ \A a \in Area : pool.used[a] = Total(Claimed(ticket, a)) /\ pool.reserved[a] = Total(Reserved(ticket, a))
      /\ pool.forced_used = Total(ForcedClaims(ticket)) /\ Total(Unforced(ticket)) <= MemLimit
  BY <1>1, Zenon DEF Counted
<1>3. LimitRespected
  BY <1>1, <1>2, TicketSets, Zenon DEF LimitRespected
<1>4. CountersExact
  BY <1>1, <1>2, TicketSets, Zenon DEF CountersExact
<1> QED
  BY <1>3, <1>4, Zenon DEF BooksBalance

LEMMA InvTypes == Inv => TypeOK
<1> SUFFICES ASSUME Inv
             PROVE  TypeOK
  OBVIOUS
<1>1. /\ pool \in PoolType /\ Shelves(pool.special) /\ pool.special_allocated = SpecialBytes(pool.special)
      /\ pool.primary_allocated = BlockSize * Len(pool.blocks)
  BY Zenon DEF Inv, Books
<1>2. /\ pool.used \in Tallies /\ pool.reserved \in Tallies /\ pool.forced_used \in Nat
      /\ pool.blocks \in Seq(Block)
  BY <1>1, PoolFields, Zenon
<1>3. pool.special_allocated \in Nat
  BY <1>1, BytesType, Zenon
<1>4. pool.primary_allocated \in Nat
  <2>1. Len(pool.blocks) \in Nat
    BY <1>2
  <2> QED
    BY <1>1, <2>1, BlockType
<1>5. /\ stage \in [Request -> Stages] /\ future \in [Request -> Futures]
      /\ pending_reserves \in Seq(Request) /\ IsInjective(pending_reserves)
      /\ captured \in SUBSET Seq(Request)
  BY Zenon DEF Inv, Holders0, HolderTypes
<1>6. /\ loop \in [Meta -> Seq(Request)] /\ next_put_part_to_prepare \in [Meta -> Nat]
      /\ stopped \in SUBSET Meta /\ optimized \in [Meta -> {"no", "yes", "released"}]
  BY Zenon DEF Inv, LoopInv, OrderInv, RestTypes
<1>7. {pool.primary_allocated, pool.special_allocated, pool.forced_used} \subseteq Nat
  BY <1>2, <1>3, <1>4, Zenon
<1> QED
  BY <1>2, <1>5, <1>6, <1>7, Zenon DEF TypeOK, Tallies, Stages, Futures

LEMMA InvOwned == Inv => TicketsOwned
<1> SUFFICES ASSUME Inv, NEW r \in Request
             PROVE  /\ ticket[r] # NoTicket =>
                          \/ stage[r] \in {"reserved", "waiting", "queued", "dropping", "prepared", "claimed"}
                             /\ future[r] = "granted"
                          \/ \E done \in captured : r \in Range(done)
                    /\ stage[r] \in {"queued", "dropping", "prepared", "claimed"} => ticket[r] # NoTicket
  BY Zenon DEF TicketsOwned
<1>1. /\ stage[r] \in Stages /\ OneOK(stage[r], future[r], ticket[r], r)
      /\ ticket[r] # NoTicket => (future[r] = "granted" /\ stage[r] # "done") \/ Caught(r)
  BY Zenon DEF Inv, Holders0, HolderTypes, RequestInv, OwnedInv
<1>2. future[r] = "granted" /\ stage[r] # "done"
        => stage[r] \in {"reserved", "waiting", "queued", "dropping", "prepared", "claimed"}
  BY <1>1 DEF OneOK, Stages
<1>3. stage[r] \in {"queued", "dropping", "prepared", "claimed"} => ticket[r] # NoTicket
  BY <1>1 DEF OneOK, Going
<1> QED
  BY <1>1, <1>2, <1>3, Zenon DEF Caught

\* Disjoint runs of chunks are disjoint runs of bytes.
LEMMA RunsApart ==
    ASSUME NEW a \in Nat, NEW b \in Nat, NEW n \in Nat, NEW k \in Nat, n >= 1, k >= 1,
           NEW size \in Nat, NEW other \in Nat, NEW c \in Nat, size <= c * n, other <= c * k,
           (a..a + n - 1) \cap (b..b + k - 1) = {}
    PROVE  a * c + size <= b * c \/ b * c + other <= a * c
<1>1. a + n <= b \/ b + k <= a
  <2> SUFFICES ASSUME ~(a + n <= b), ~(b + k <= a)
               PROVE  FALSE
    OBVIOUS
  <2>1. CASE a <= b
    BY <2>1
  <2>2. CASE ~(a <= b)
    BY <2>2
  <2> QED
    BY <2>1, <2>2
<1>2. ASSUME NEW x \in Nat, NEW y \in Nat, NEW d \in Nat, NEW z \in Nat, x + d <= y, z <= c * d
      PROVE  x * c + z <= y * c
  <2>1. PICK e \in Nat : y = x + d + e
    <3>1. y - (x + d) \in Nat /\ y = x + d + (y - (x + d))
      BY <1>2
    <3> QED
      BY <3>1
  <2>2. y * c = x * c + c * d + e * c /\ e * c \in Nat /\ x * c \in Nat /\ c * d \in Nat
    BY <2>1
  <2> QED
    BY <1>2, <2>2
<1>3. CASE a + n <= b
  BY <1>2, <1>3
<1>4. CASE b + k <= a
  BY <1>2, <1>4
<1> QED
  BY <1>1, <1>3, <1>4

LEMMA InvDisjoint == Inv => BuffersDisjoint
<1> SUFFICES ASSUME Inv
             PROVE  BuffersDisjoint
  OBVIOUS
<1>1. ticket \in Tickets /\ Sane(ticket) /\ InBlocks(pool.blocks, ticket) /\ InLists(pool.special, ticket)
  BY Zenon DEF Inv, Books
<1>2. /\ From(Holders("claimed"), "primary") = Claimed(ticket, "primary")
      /\ From(Holders("claimed"), "special") = Claimed(ticket, "special")
  <2>1. "primary" \in Area /\ "special" \in Area
    BY DEF Area
  <2> QED
    BY <1>1, <2>1, TicketSets, Zenon
<1>3. ASSUME NEW r \in Claimed(ticket, "primary")
      PROVE  \E i \in DOMAIN pool.blocks : pool.blocks[i].id = ticket[r].place.block
  <2>1. PICK b \in Range(pool.blocks) : b.id = ticket[r].place.block
    BY <1>1, Zenon DEF InBlocks
  <2> QED
    BY <2>1, Zenon DEF Range
<1>4. ASSUME NEW r \in Claimed(ticket, "primary"), NEW q \in Claimed(ticket, "primary"),
             r # q, ticket[r].place.block = ticket[q].place.block
      PROVE  \/ ticket[r].place.chunk * ChunkSize + r.size <= ticket[q].place.chunk * ChunkSize
             \/ ticket[q].place.chunk * ChunkSize + q.size <= ticket[r].place.chunk * ChunkSize
  <2>1. Span(r, ticket[r]) \cap Span(q, ticket[q]) = {}
    BY <1>1, <1>4, Zenon DEF InBlocks
  <2>2. /\ ticket[r].place.chunk \in Nat /\ Chunks(r.size) \in Nat /\ Chunks(r.size) >= 1
        /\ r.size <= ChunkSize * Chunks(r.size) /\ r.size \in Nat /\ ChunkSize \in Nat
    BY <1>1, SpanType, Zenon
  <2>3. /\ ticket[q].place.chunk \in Nat /\ Chunks(q.size) \in Nat /\ Chunks(q.size) >= 1
        /\ q.size <= ChunkSize * Chunks(q.size) /\ q.size \in Nat
    BY <1>1, SpanType, Zenon
  <2>4. (ticket[r].place.chunk..ticket[r].place.chunk + Chunks(r.size) - 1)
          \cap (ticket[q].place.chunk..ticket[q].place.chunk + Chunks(q.size) - 1) = {}
    BY <2>1, Zenon DEF Span
  <2> QED
    BY <2>2, <2>3, <2>4, RunsApart, Zenon
<1>5. ASSUME NEW r \in Claimed(ticket, "special"), NEW q \in Claimed(ticket, "special"),
             r # q, r.size = q.size
      PROVE  ticket[r].place # ticket[q].place
  BY <1>1, <1>5, Zenon DEF InLists
<1> QED
  BY <1>2, <1>3, <1>4, <1>5, Zenon DEF BuffersDisjoint

LEMMA InvLists == Inv => SpecialListStays
<1> SUFFICES ASSUME Inv, NEW r \in Request, ticket[r].state \in {"reserved", "claimed"}, ticket[r].from = "special"
             PROVE  r.size \in DOMAIN pool.special
  BY DEF SpecialListStays, From, Holders
<1>1. ticket \in Tickets /\ Sane(ticket) /\ InLists(pool.special, ticket)
  BY Zenon DEF Inv, Books
<1>2. ~ticket[r].forced
  BY <1>1, Zenon DEF Sane
<1>3. r \in Reserved(ticket, "special") \/ r \in Claimed(ticket, "special")
  BY <1>2 DEF Reserved, Claimed, IsReserved, IsClaimed
<1> QED
  BY <1>1, <1>3, Zenon DEF InLists

LEMMA InvOrder == Inv => PreparedInOrder
<1> SUFFICES ASSUME Inv, NEW r \in Request, NEW q \in Request,
                    r.kind = "put", r.meta = q.meta, q.part < r.part, stage[r] \in {"prepared", "claimed"}
             PROVE  stage[q] \in {"prepared", "claimed", "done"} /\ next_put_part_to_prepare[r.meta] > r.part
  BY Zenon DEF PreparedInOrder
<1>1. /\ next_put_part_to_prepare \in [Meta -> Nat]
      /\ r.part < next_put_part_to_prepare[r.meta]
      /\ q.part < next_put_part_to_prepare[q.meta] => stage[q] \in Started \cup {"done"}
  BY Zenon DEF Inv, OrderInv, Started
<1>2. r.part \in Nat /\ q.part \in Nat /\ r.meta \in Meta
  BY PrepareAssumption DEF Meta
<1>3. next_put_part_to_prepare[r.meta] \in Nat
  BY <1>1, <1>2, Zenon
<1>4. q.part < next_put_part_to_prepare[q.meta]
  BY <1>1, <1>2, <1>3
<1> QED
  BY <1>1, <1>2, <1>3, <1>4, SMTT(30) DEF Started

\* The inductive invariant: the books of the pool agree with the tickets, every
\* ticket has one holder, every callback on an event loop belongs to a request
\* that waits for it, and next_put_part_to_prepare divides the parts.
THEOREM PrepareInvariant == Spec => []Inv
<1>1. Init => Inv
  BY InitInv
<1>2. Inv /\ [Next]_vars => Inv'
  BY NextInv
<1> QED
  BY <1>1, <1>2, PTL DEF Spec

\* For any number of meta requests, requests and sizes, the counters that
\* s_try_reserve_synced decides by are the sums over the live tickets and
\* blocks, and the reservations it grants stay within mem_limit.
THEOREM PoolBooksBalance == Spec => []BooksBalance
BY PrepareInvariant, InvBalance, PTL

\* A claimed buffer shares no byte with another, its block or list is there
\* while s_aws_ticket_wrapper_destroy or s_acquire_buffer_synced may look for
\* it, and no ticket outlives its request, however grants, cancels, failed
\* futures, trims and nested releases interleave.
THEOREM TicketsKeepTheirMemory == Spec => []TicketsHoldTheirMemory
<1>1. Inv => TicketsHoldTheirMemory
  BY InvTypes, InvOwned, InvDisjoint, InvLists, Zenon DEF TicketsHoldTheirMemory
<1> QED
  BY <1>1, PrepareInvariant, PTL

\* s_drain_pending_put_prepare_queue prepares the parts of a sequential upload
\* in part order, in whatever order the pool grants their buffers.
THEOREM PartsPreparedInOrder == Spec => []PreparedInOrder
BY PrepareInvariant, InvOrder, PTL
=============================================================================
