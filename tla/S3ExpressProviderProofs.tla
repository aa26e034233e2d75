---------------------- MODULE S3ExpressProviderProofs ----------------------
(***************************************************************************)
(* Proofs about S3ExpressProvider, for any finite sets of hosts and        *)
(* credentials, any callers, cache sizes, thresholds and lifetimes.        *)
(*                                                                         *)
(* DataInv is what the lock of the provider protects: the list of the      *)
(* cache, its sessions and the table of creators.  QueueInv says on which  *)
(* queue every caller waits, RefInv what internal_ref counts, and TaskInv  *)
(* where the refresh task is.                                              *)
(***************************************************************************)
EXTENDS S3ExpressProvider, FiniteSetTheorems, WellFoundedInduction, TLAPS

SessionType ==
    [creds : [for : Keys, expire : Nat], inactive : BOOLEAN, creator : BOOLEAN]
CreatorType == [with : Keys, session : BOOLEAN, queue : Seq(Callers)]
DataType ==
    [cache : Seq(Keys), capacity : Nat \ {0}, session : [Keys -> SessionType \cup {NoSession}],
     creator : [Keys -> CreatorType \cup {NoCreator}], destroying : BOOLEAN]

Cached(d) == {k \in Keys : d.session[k] # NoSession}

\* The session and the creator of one key.
Linked(k, s, c) ==
    /\ (c # NoCreator /\ c.session) <=> (s # NoSession /\ s.creator)
    /\ c # NoCreator /\ s # NoSession => c.session
    /\ s # NoSession => s.creds.for = k
    /\ c # NoCreator => c.with = k

Consistent(d) ==
    /\ d \in DataType
    /\ IsInjective(d.cache)
    /\ Range(d.cache) = Cached(d)
    /\ \A k \in Keys : Linked(k, d.session[k], d.creator[k])

DataInv(d) == Consistent(d) /\ Len(d.cache) <= d.capacity

CallerType == [pc : {"idle", "called", "queued"}, key : Keys \cup {<< >>}, stamp : Nat]
LeavingType == [queue : Seq(Callers), for : Keys \cup {<< >>}]

\* A caller that waits does so on one queue: of the creator for its key, or of
\* one that has left the table with what the caller asked for, or an error.
TableQueue(q, k, cs, fs) ==
    /\ IsInjective(q)
    /\ \A c \in Range(q) : c \in Callers /\ cs[c].pc = "queued" /\ cs[c].key = k
    /\ \A i \in DOMAIN fs : Range(q) \cap Range(fs[i].queue) = {}

LeavingQueue(i, cs, fs) ==
    /\ IsInjective(fs[i].queue)
    /\ \A c \in Range(fs[i].queue) : /\ c \in Callers /\ cs[c].pc = "queued"
                                     /\ fs[i].for # << >> => fs[i].for = cs[c].key
    /\ \A j \in DOMAIN fs \ {i} : Range(fs[i].queue) \cap Range(fs[j].queue) = {}

OnAQueue(c, d, fs) ==
    \/ \E k \in Creating(d) : c \in Range(d.creator[k].queue)
    \/ \E i \in DOMAIN fs : c \in Range(fs[i].queue)

Queues(d, cs, fs) ==
    /\ cs \in [Callers -> CallerType] /\ fs \in Seq(LeavingType)
    /\ \A c \in Callers : cs[c].pc # "idle" => cs[c].key \in Keys
    /\ \A k \in Creating(d) : TableQueue(d.creator[k].queue, k, cs, fs)
    /\ \A i \in DOMAIN fs : LeavingQueue(i, cs, fs)
    /\ \A c \in Callers : cs[c].pc = "queued" => OnAQueue(c, d, fs)

QueueInv == Queues(synced, caller, finishing)

\* The references on the provider: one of the background task until it is
\* cleaned up, one of every creator until its last callback.
RefInv ==
    /\ internal_ref = (IF cleanup = "done" THEN 0 ELSE 1)
                        + Cardinality(Creating(synced)) + Len(finishing)
    /\ freed \in BOOLEAN /\ (freed <=> internal_ref = 0)
    /\ cleanup \in {"none", "scheduled", "done"}
    /\ owned \in BOOLEAN /\ (owned <=> cleanup = "none") /\ (synced.destroying <=> ~owned)
    /\ \A c \in Callers : caller[c].pc = "called" => owned

\* The clock and the background task.
TaskInv ==
    /\ now \in 0..MaxTime
    /\ bg.task \in {"idle", "scheduled", "fetching"}
    /\ original = "static" => /\ bg.task # "fetching"
                              /\ cleanup = "done" => bg.task = "idle"

IInv == DataInv(synced) /\ QueueInv /\ RefInv /\ TaskInv
-----------------------------------------------------------------------------
\* What is there is told apart from what is not.
LEMMA Nothing ==
    NoSession \notin SessionType /\ NoCreator \notin CreatorType
<1>1. DOMAIN NoSession = {"session"} /\ DOMAIN NoCreator = {"creator"}
  BY DEF NoSession, NoCreator
<1>2. \A s \in SessionType : DOMAIN s = {"creds", "inactive", "creator"}
  BY DEF SessionType
<1>3. \A c \in CreatorType : DOMAIN c = {"with", "session", "queue"}
  BY DEF CreatorType
<1>4. NoSession \notin SessionType
  BY <1>1, <1>2
<1>5. NoCreator \notin CreatorType
  BY <1>1, <1>3
<1> QED
  BY <1>4, <1>5

LEMMA KeyParts ==
    ASSUME NEW k \in Keys
    PROVE  HashKey(k[2], k[1]) = k /\ k[2] \in Creds
BY DEF Keys, HashKey

LEMMA WithoutAtType ==
    ASSUME NEW S, NEW s \in Seq(S), NEW i \in DOMAIN s
    PROVE  /\ WithoutAt(s, i) \in Seq(S) /\ Len(WithoutAt(s, i)) = Len(s) - 1
           /\ DOMAIN WithoutAt(s, i) = 1..(Len(s) - 1)
           /\ \A j \in 1..(Len(s) - 1) : WithoutAt(s, i)[j] = IF j < i THEN s[j] ELSE s[j + 1]
<1>1. Len(s) \in Nat /\ DOMAIN s = 1..Len(s) /\ i \in 1..Len(s)
  OBVIOUS
<1>2. Len(s) - 1 \in Nat
  BY <1>1
<1>3. \A j \in 1..(Len(s) - 1) : (IF j < i THEN s[j] ELSE s[j + 1]) \in S
  BY <1>1
<1> QED
  BY <1>2, <1>3 DEF WithoutAt

\* Removing an entry of a list without repetitions.
LEMMA WithoutEffect ==
    ASSUME NEW S, NEW s \in Seq(S), IsInjective(s), NEW x \in Range(s)
    PROVE  /\ Without(s, x) \in Seq(S) /\ Len(Without(s, x)) = Len(s) - 1
           /\ IsInjective(Without(s, x))
           /\ Range(Without(s, x)) = Range(s) \ {x}
<1> DEFINE i == CHOOSE n \in DOMAIN s : s[n] = x
           w == WithoutAt(s, i)
<1>1. i \in DOMAIN s /\ s[i] = x
  BY DEF Range
<1>2. Without(s, x) = w
  BY DEF Without
<1>3. Len(s) \in Nat /\ DOMAIN s = 1..Len(s)
  OBVIOUS
<1> HIDE DEF i
<1>4. /\ w \in Seq(S) /\ Len(w) = Len(s) - 1 /\ DOMAIN w = 1..(Len(s) - 1)
      /\ \A j \in 1..(Len(s) - 1) : w[j] = IF j < i THEN s[j] ELSE s[j + 1]
  BY <1>1, WithoutAtType
<1> HIDE DEF w
<1>5. \A a, b \in DOMAIN s : s[a] = s[b] => a = b
  BY DEF IsInjective
<1>6. IsInjective(w)
  BY SMTT(20), <1>1, <1>3, <1>4, <1>5 DEF IsInjective
<1>7. ASSUME NEW y \in Range(w)
      PROVE  y \in Range(s) \ {x}
  <2>1. PICK j \in 1..(Len(s) - 1) : y = w[j]
    BY <1>4, <1>7 DEF Range
  <2>2. PICK n \in DOMAIN s : n # i /\ y = s[n]
    BY <1>1, <1>3, <1>4, <2>1
  <2> QED
    BY <1>1, <1>5, <2>2 DEF Range
<1>8. ASSUME NEW y \in Range(s) \ {x}
      PROVE  y \in Range(w)
  <2>1. PICK n \in DOMAIN s : y = s[n]
    BY <1>8 DEF Range
  <2>2. n # i
    BY <1>1, <1>8, <2>1
  <2>3. PICK j \in 1..(Len(s) - 1) : w[j] = s[n]
    <3>1. CASE n < i
      <4>1. n \in 1..(Len(s) - 1) /\ w[n] = s[n]
        BY <1>1, <1>3, <1>4, <2>1, <3>1
      <4> QED
        BY <4>1
    <3>2. CASE n > i
      <4>1. n - 1 \in 1..(Len(s) - 1) /\ w[n - 1] = s[n]
        BY <1>1, <1>3, <1>4, <2>1, <3>2
      <4> QED
        BY <4>1
    <3> QED
      BY <1>1, <1>3, <2>1, <2>2, <3>1, <3>2
  <2> QED
    BY <1>4, <2>1, <2>3 DEF Range
<1> QED
  BY <1>2, <1>4, <1>6, <1>7, <1>8, Zenon

LEMMA AppendEffect ==
    ASSUME NEW S, NEW s \in Seq(S), IsInjective(s), NEW x \in S, x \notin Range(s)
    PROVE  /\ Append(s, x) \in Seq(S) /\ Len(Append(s, x)) = Len(s) + 1
           /\ IsInjective(Append(s, x))
           /\ Range(Append(s, x)) = Range(s) \cup {x}
<1> DEFINE w == Append(s, x)
<1>1. /\ w \in Seq(S) /\ Len(w) = Len(s) + 1 /\ Len(s) \in Nat /\ DOMAIN s = 1..Len(s)
      /\ DOMAIN w = 1..(Len(s) + 1) /\ w[Len(s) + 1] = x /\ \A j \in 1..Len(s) : w[j] = s[j]
  OBVIOUS
<1> HIDE DEF w
<1>2. \A a, b \in DOMAIN s : s[a] = s[b] => a = b
  BY DEF IsInjective
<1>3. \A a \in DOMAIN s : s[a] # x
  BY DEF Range
<1>4. IsInjective(w)
  BY <1>1, <1>2, <1>3 DEF IsInjective
<1>5. Range(w) = Range(s) \cup {x}
  BY <1>1 DEF Range
<1> QED
  BY <1>1, <1>4, <1>5 DEF w
-----------------------------------------------------------------------------
\* The creators of e are those of d, with their callers, and perhaps new ones
\* that nobody waits for.
Keeps(d, e) ==
    \A k \in Keys : IF d.creator[k] # NoCreator
                    THEN e.creator[k] # NoCreator /\ e.creator[k].queue = d.creator[k].queue
                    ELSE e.creator[k] # NoCreator => e.creator[k].queue = << >>

\* What a change that is made under the lock leaves alone.
Same(d, e) ==
    /\ e.capacity = d.capacity /\ e.destroying = d.destroying
    /\ Keeps(d, e) /\ Creating(e) = Creating(d)

\* aws_cache_remove
LEMMA RemoveEffect ==
    ASSUME NEW d, Consistent(d), NEW k \in Keys
    PROVE  /\ Consistent(CacheRemove(d, k)) /\ Same(d, CacheRemove(d, k))
           /\ Len(CacheRemove(d, k).cache) =
                IF d.session[k] = NoSession THEN Len(d.cache) ELSE Len(d.cache) - 1
           /\ CacheRemove(d, k).session = [d.session EXCEPT ![k] = NoSession]
           /\ \A j \in Keys \ {k} : CacheRemove(d, k).creator[j] = d.creator[j]
<1> DEFINE e == CacheRemove(d, k)
           s == d.session[k]
           c == d.creator[k]
           n == IF s.creator THEN [c EXCEPT !.session = FALSE] ELSE c
<1>1. /\ d \in DataType /\ s \in SessionType \cup {NoSession} /\ c \in CreatorType \cup {NoCreator}
      /\ d.session \in [Keys -> SessionType \cup {NoSession}]
      /\ d.creator \in [Keys -> CreatorType \cup {NoCreator}]
  BY DEF Consistent, DataType
<1>2. CASE s = NoSession
  <2>1. e = d
    BY <1>2 DEF CacheRemove
  <2>2. Same(d, d)
    BY DEF Same, Keeps
  <2>3. d.session = [d.session EXCEPT ![k] = NoSession]
    BY <1>1, <1>2
  <2> QED
    BY <1>2, <2>1, <2>2, <2>3
<1>3. CASE s # NoSession
  <2>1. e = [d EXCEPT !.session = [d.session EXCEPT ![k] = NoSession],
                      !.creator = [d.creator EXCEPT ![k] = n],
                      !.cache = Without(d.cache, k)]
    BY <1>1, <1>3 DEF CacheRemove, SessionDestroy, DataType
  <2>2. Linked(k, s, c) /\ d.cache \in Seq(Keys) /\ IsInjective(d.cache) /\ k \in Range(d.cache)
    BY <1>1, <1>3 DEF Consistent, DataType, Cached
  <2>3. /\ Without(d.cache, k) \in Seq(Keys) /\ Len(Without(d.cache, k)) = Len(d.cache) - 1
        /\ IsInjective(Without(d.cache, k)) /\ Range(Without(d.cache, k)) = Range(d.cache) \ {k}
    BY <2>2, WithoutEffect
  <2>4. /\ n \in CreatorType \cup {NoCreator}
        /\ c # NoCreator => n \in CreatorType /\ n.queue = c.queue /\ n.with = c.with /\ ~n.session
        /\ c = NoCreator => n = NoCreator
    <3>1. s \in SessionType
      BY <1>1, <1>3
    <3>2. CASE c = NoCreator
      <4>1. ~s.creator
        BY <1>3, <2>2, <3>2 DEF Linked
      <4> QED
        BY <3>2, <4>1
    <3>3. CASE c # NoCreator
      <4>1. c \in CreatorType
        BY <1>1, <3>3
      <4>2. s.creator = TRUE
        BY <1>3, <2>2, <3>1, <3>3 DEF Linked, SessionType
      <4> QED
        BY <3>3, <4>1, <4>2, Zenon DEF CreatorType
    <3> QED
      BY <3>2, <3>3
  <2> HIDE DEF n, e
  <2>5. /\ e \in DataType /\ e.capacity = d.capacity /\ e.destroying = d.destroying
        /\ e.cache = Without(d.cache, k) /\ e.session = [d.session EXCEPT ![k] = NoSession]
        /\ e.creator = [d.creator EXCEPT ![k] = n]
    BY <1>1, <2>1, <2>3, <2>4, Zenon DEF DataType
  <2>6. /\ e.session[k] = NoSession /\ e.creator[k] = n
        /\ \A j \in Keys \ {k} : e.session[j] = d.session[j] /\ e.creator[j] = d.creator[j]
    BY <1>1, <2>5
  <2>7. Range(e.cache) = Cached(e)
    BY <2>3, <2>5, <2>6 DEF Consistent, Cached
  <2>8. ASSUME NEW j \in Keys
        PROVE  Linked(j, e.session[j], e.creator[j])
    <3>1. CASE j = k
      BY <1>1, <2>2, <2>4, <2>6, <3>1, Nothing DEF Linked
    <3>2. CASE j # k
      BY <2>6, <3>2 DEF Consistent
    <3> QED
      BY <3>1, <3>2
  <2>9. Same(d, e)
    <3>1. \A j \in Keys : (e.creator[j] # NoCreator <=> d.creator[j] # NoCreator)
                       /\ (d.creator[j] # NoCreator => e.creator[j].queue = d.creator[j].queue)
      BY <1>1, <2>4, <2>6, Nothing
    <3> QED
      BY <2>5, <3>1 DEF Same, Keeps, Creating
  <2> QED
    BY <1>3, <2>3, <2>5, <2>6, <2>7, <2>8, <2>9 DEF Consistent, e
<1> QED
  BY <1>2, <1>3

LEMMA RemoveKeeps ==
    ASSUME NEW d, DataInv(d), NEW k \in Keys
    PROVE  DataInv(CacheRemove(d, k))
<1>1. Len(d.cache) \in Nat /\ Len(d.cache) <= d.capacity /\ d.capacity \in Nat
  BY DEF DataInv, Consistent, DataType
<1>2. Consistent(CacheRemove(d, k)) /\ CacheRemove(d, k).capacity = d.capacity
      /\ Len(CacheRemove(d, k).cache) \in {Len(d.cache), Len(d.cache) - 1}
  BY RemoveEffect, Zenon DEF DataInv, Same
<1> QED
  BY <1>1, <1>2 DEF DataInv

\* aws_cache_find makes the session the most recently used one.
LEMMA FindEffect ==
    ASSUME NEW d, DataInv(d), NEW k \in Keys
    PROVE  /\ DataInv(CacheFind(d, k)) /\ Same(d, CacheFind(d, k))
           /\ CacheFind(d, k).session = d.session /\ CacheFind(d, k).creator = d.creator
<1> DEFINE e == CacheFind(d, k)
           w == Without(d.cache, k)
<1>1. d \in DataType /\ d.cache \in Seq(Keys) /\ IsInjective(d.cache)
  BY DEF DataInv, Consistent, DataType
<1>2. Same(d, d)
  BY DEF Same, Keeps
<1>3. CASE d.session[k] = NoSession
  BY <1>2, <1>3 DEF CacheFind
<1>4. CASE d.session[k] # NoSession
  <2>1. k \in Range(d.cache)
    BY <1>4 DEF DataInv, Consistent, Cached
  <2>2. w \in Seq(Keys) /\ Len(w) = Len(d.cache) - 1 /\ IsInjective(w) /\ Range(w) = Range(d.cache) \ {k}
    BY <1>1, <2>1, WithoutEffect
  <2>3. e = [d EXCEPT !.cache = Append(w, k)]
    BY <1>4 DEF CacheFind
  <2> HIDE DEF w
  <2>4. /\ Append(w, k) \in Seq(Keys) /\ Len(Append(w, k)) = Len(w) + 1
        /\ IsInjective(Append(w, k)) /\ Range(Append(w, k)) = Range(w) \cup {k}
    BY <2>2, AppendEffect
  <2> HIDE DEF e
  <2>5. /\ e \in DataType /\ e.cache = Append(w, k) /\ e.session = d.session /\ e.creator = d.creator
        /\ e.capacity = d.capacity /\ e.destroying = d.destroying
    BY <1>1, <2>3, <2>4, Zenon DEF DataType
  <2>6. Len(e.cache) = Len(d.cache)
    BY <1>1, <2>2, <2>4, <2>5
  <2>7. Range(e.cache) = Range(d.cache)
    BY <2>1, <2>2, <2>4, <2>5, Zenon
  <2>8. Cached(e) = Cached(d) /\ Same(d, e)
    BY <2>5 DEF Cached, Same, Keeps, Creating
  <2> QED
    BY <2>4, <2>5, <2>6, <2>7, <2>8 DEF DataInv, Consistent, e
<1> QED
  BY <1>3, <1>4

\* aws_cache_put of a new session, with the least recently used one evicted
\* when there are too many.
LEMMA PutEffect ==
    ASSUME NEW d, DataInv(d), NEW k \in Keys, d.session[k] = NoSession, d.creator[k] = NoCreator,
           NEW s \in SessionType, s.creds.for = k, s.creator = FALSE
    PROVE  DataInv(CachePut(d, k, s)) /\ Same(d, CachePut(d, k, s))
<1> DEFINE e == [d EXCEPT !.cache = Append(d.cache, k), !.session = [d.session EXCEPT ![k] = s]]
<1>1. /\ d \in DataType /\ d.cache \in Seq(Keys) /\ IsInjective(d.cache)
      /\ d.session \in [Keys -> SessionType \cup {NoSession}] /\ k \notin Range(d.cache)
      /\ d.capacity \in Nat \ {0} /\ Len(d.cache) <= d.capacity /\ Len(d.cache) \in Nat
  BY DEF DataInv, Consistent, DataType, Cached
<1>2. /\ Append(d.cache, k) \in Seq(Keys) /\ Len(Append(d.cache, k)) = Len(d.cache) + 1
      /\ IsInjective(Append(d.cache, k)) /\ Range(Append(d.cache, k)) = Range(d.cache) \cup {k}
  BY <1>1, AppendEffect
<1>3. CachePut(d, k, s) = IF Len(e.cache) > d.capacity THEN CacheRemove(e, Head(e.cache)) ELSE e
  BY <1>1 DEF CachePut, DataType
<1> HIDE DEF e
<1>4. /\ e \in DataType /\ e.cache = Append(d.cache, k) /\ e.creator = d.creator
      /\ e.session = [d.session EXCEPT ![k] = s]
      /\ e.capacity = d.capacity /\ e.destroying = d.destroying
  BY <1>1, <1>2, Zenon DEF DataType, e
<1>5. e.session[k] = s /\ \A j \in Keys \ {k} : e.session[j] = d.session[j]
  BY <1>1, <1>4
<1>6. Cached(e) = Cached(d) \cup {k}
  BY <1>5, Nothing DEF Cached
<1>7. Range(e.cache) = Cached(e)
  BY <1>2, <1>4, <1>6 DEF DataInv, Consistent
<1>8. ASSUME NEW j \in Keys
      PROVE  Linked(j, e.session[j], e.creator[j])
  <2>1. CASE j = k
    BY <1>4, <1>5, <2>1 DEF Linked
  <2>2. CASE j # k
    BY <1>4, <1>5, <2>2 DEF DataInv, Consistent
  <2> QED
    BY <2>1, <2>2
<1>9. Same(d, e) /\ Consistent(e)
  BY <1>2, <1>4, <1>7, <1>8 DEF Same, Keeps, Creating, Consistent
<1>10. CASE Len(e.cache) <= d.capacity
  <2>1. ~(Len(e.cache) > d.capacity)
    BY <1>1, <1>2, <1>4, <1>10
  <2> QED
    BY <1>3, <1>4, <1>9, <1>10, <2>1 DEF DataInv
<1>11. CASE Len(e.cache) > d.capacity
  <2> DEFINE h == Head(e.cache)
             f == CacheRemove(e, h)
  <2>1. h \in Range(e.cache) /\ h \in Keys
    BY <1>1, <1>2, <1>4 DEF Range
  <2>2. e.session[h] # NoSession
    BY <1>7, <2>1 DEF Cached
  <2> HIDE DEF h
  <2>3. Consistent(f) /\ Same(e, f) /\ Len(f.cache) = Len(e.cache) - 1
    BY <1>9, <2>1, <2>2, RemoveEffect, Zenon
  <2>4. CachePut(d, k, s) = f
    BY <1>3, <1>11 DEF h
  <2> HIDE DEF f
  <2>5. Same(d, f)
    BY <1>9, <2>3 DEF Same, Keeps
  <2>6. Len(f.cache) <= f.capacity
    BY <1>1, <1>2, <1>4, <2>3 DEF Same
  <2> QED
    BY <2>3, <2>4, <2>5, <2>6 DEF DataInv
<1> QED
  BY <1>1, <1>2, <1>4, <1>10, <1>11
-----------------------------------------------------------------------------
\* d with another session and another creator for k.
Entry(d, k, s, c) ==
    [cache |-> d.cache, capacity |-> d.capacity, session |-> [d.session EXCEPT ![k] = s],
     creator |-> [d.creator EXCEPT ![k] = c], destroying |-> d.destroying]

LEMMA EntryEffect ==
    ASSUME NEW d, DataInv(d), NEW k \in Keys, NEW s \in SessionType \cup {NoSession},
           NEW c \in CreatorType \cup {NoCreator}, s = NoSession <=> d.session[k] = NoSession,
           Linked(k, s, c), NEW e, e = Entry(d, k, s, c)
    PROVE  /\ DataInv(e) /\ e.capacity = d.capacity /\ e.destroying = d.destroying
           /\ e.cache = d.cache /\ e.session[k] = s /\ e.creator[k] = c
           /\ \A j \in Keys \ {k} : e.session[j] = d.session[j] /\ e.creator[j] = d.creator[j]
<1>1. /\ d \in DataType
      /\ d.session \in [Keys -> SessionType \cup {NoSession}]
      /\ d.creator \in [Keys -> CreatorType \cup {NoCreator}]
  BY DEF DataInv, Consistent, DataType
<1>2. /\ e.capacity = d.capacity /\ e.destroying = d.destroying
      /\ e.cache = d.cache /\ e.session = [d.session EXCEPT ![k] = s]
      /\ e.creator = [d.creator EXCEPT ![k] = c]
  BY DEF Entry
<1>3. e \in DataType
  BY <1>1, Zenon DEF DataType, Entry
<1>4. /\ e.session[k] = s /\ e.creator[k] = c
      /\ \A j \in Keys \ {k} : e.session[j] = d.session[j] /\ e.creator[j] = d.creator[j]
  BY <1>1, <1>2
<1>5. Cached(e) = Cached(d)
  BY <1>4 DEF Cached
<1>6. \A j \in Keys : Linked(j, e.session[j], e.creator[j])
  BY <1>4 DEF DataInv, Consistent
<1> QED
  BY <1>2, <1>3, <1>4, <1>5, <1>6 DEF DataInv, Consistent

LEMMA SessionEntry ==
    ASSUME NEW d \in DataType, NEW k \in Keys, NEW s, NEW e,
           e = [d EXCEPT !.session = [d.session EXCEPT ![k] = s]]
    PROVE  e = Entry(d, k, s, d.creator[k])
<1>1. d.creator = [d.creator EXCEPT ![k] = d.creator[k]]
  BY DEF DataType
<1> QED
  BY <1>1 DEF DataType, Entry

LEMMA CreatorEntry ==
    ASSUME NEW d \in DataType, NEW k \in Keys, NEW c, NEW e,
           e = [d EXCEPT !.creator = [d.creator EXCEPT ![k] = c]]
    PROVE  e = Entry(d, k, d.session[k], c)
<1>1. d.session = [d.session EXCEPT ![k] = d.session[k]]
  BY DEF DataType
<1> QED
  BY <1>1 DEF DataType, Entry

LEMMA BothEntry ==
    ASSUME NEW d \in DataType, NEW k \in Keys, NEW s, NEW c, NEW f, NEW e,
           f = [d EXCEPT !.creator = [d.creator EXCEPT ![k] = c]],
           e = [f EXCEPT !.session = [d.session EXCEPT ![k] = s]]
    PROVE  e = Entry(d, k, s, c)
<1>1. d.session = [d.session EXCEPT ![k] = d.session[k]]
  BY DEF DataType
<1>2. f = [cache |-> d.cache, capacity |-> d.capacity, session |-> d.session,
           creator |-> [d.creator EXCEPT ![k] = c], destroying |-> d.destroying]
  BY <1>1, CreatorEntry DEF Entry
<1> QED
  BY <1>2, Zenon DEF Entry

\* The state of the loop of s_refresh_session_list, and what one turn makes of
\* it for a session in the cache: a session that was used and has the
\* credentials of the round is refreshed.
Round(r) ==
    r = [data |-> r.data, unlock |-> r.unlock] /\ r.unlock \in BOOLEAN /\ DataInv(r.data)

Turned(creds, round, k, next) ==
    /\ Round(next) /\ Keeps(round.data, next.data)
    /\ next.data.destroying = round.data.destroying
    /\ \A j \in Keys \ {k} : /\ next.data.session[j] = round.data.session[j]
                             /\ next.data.creator[j] = round.data.creator[j]
    /\ HashKey(creds, k[1]) = k =>
         /\ next.unlock = round.unlock
         /\ ~round.unlock /\ AboutToExpire(round.data.session[k], now)
            /\ ~round.data.session[k].inactive =>
               next.data.session[k] # NoSession /\ next.data.creator[k] # NoCreator

LEMMA RefreshEffect ==
    ASSUME NEW creds \in Creds, NEW round, Round(round), NEW k \in Keys,
           round.data.session[k] # NoSession
    PROVE  Turned(creds, round, k, RefreshSession(creds, round, k))
<1> DEFINE d == round.data
           s == d.session[k]
           c == d.creator[k]
           t == [s EXCEPT !.inactive = TRUE]
           u == [t EXCEPT !.creator = TRUE]
           n == CreatorNew(creds, k[1], TRUE)
           marked == [d EXCEPT !.session[k].inactive = TRUE]
           gone == CacheRemove(d, k)
           fresh == [marked EXCEPT !.creator[k] = n, !.session[k].creator = TRUE]
           next == RefreshSession(creds, round, k)
           Others(e) == \A j \in Keys \ {k} : /\ e.session[j] = d.session[j]
                                              /\ e.creator[j] = d.creator[j]
           Good(e) == /\ DataInv(e) /\ Keeps(d, e) /\ e.destroying = d.destroying
                      /\ Others(e)
<1> USE DEF Round
<1>1. /\ d \in DataType /\ s \in SessionType /\ c \in CreatorType \cup {NoCreator}
      /\ d.session \in [Keys -> SessionType \cup {NoSession}]
      /\ d.creator \in [Keys -> CreatorType \cup {NoCreator}] /\ Linked(k, s, c)
  BY DEF DataInv, Consistent, DataType
<1>2. Good(gone)
  <2>1. /\ Same(d, gone) /\ gone.session = [d.session EXCEPT ![k] = NoSession]
        /\ \A j \in Keys \ {k} : gone.creator[j] = d.creator[j]
    BY RemoveEffect, Zenon DEF DataInv
  <2>2. DataInv(gone)
    BY RemoveKeeps, Zenon
  <2> HIDE DEF gone
  <2> QED
    BY <1>1, <2>1, <2>2 DEF Same
<1>3. t \in SessionType /\ t.creds = s.creds /\ t.inactive = TRUE /\ t.creator = s.creator
  BY <1>1, Zenon DEF SessionType
<1>4. u \in SessionType /\ u.creds = s.creds /\ u.creator = TRUE
  <2> HIDE DEF t
  <2> QED
    BY <1>3, Zenon DEF SessionType
<1>5. marked = Entry(d, k, t, c)
  <2>1. marked = [d EXCEPT !.session = [d.session EXCEPT ![k] = t]]
    BY <1>1 DEF DataType
  <2> HIDE DEF t, marked, d
  <2> QED
    BY <1>1, <2>1, SessionEntry
<1>6. Good(marked) /\ marked.session[k] = t /\ marked.creator[k] = c
  <2> HIDE DEF s, c, t, marked
  <2>1. Linked(k, t, c) /\ t # NoSession /\ s # NoSession
    BY <1>1, <1>3, Nothing DEF Linked
  <2>2. /\ DataInv(marked) /\ marked.destroying = d.destroying
        /\ marked.session[k] = t /\ marked.creator[k] = c /\ Others(marked)
    BY <1>3, <1>1, <1>5, <2>1, EntryEffect DEF s
  <2> QED
    BY <1>1, <2>2 DEF Keeps, c
<1>7. HashKey(creds, k[1]) = k /\ c = NoCreator =>
        Good(fresh) /\ fresh.session[k] = u /\ fresh.creator[k] = n /\ n # NoCreator
  <2> SUFFICES ASSUME HashKey(creds, k[1]) = k, c = NoCreator
               PROVE  Good(fresh) /\ fresh.session[k] = u /\ fresh.creator[k] = n /\ n # NoCreator
    BY Zenon
  <2>1. n \in CreatorType /\ n.with = k /\ n.session = TRUE /\ n.queue = << >>
    BY DEF CreatorNew, CreatorType
  <2> HIDE DEF n, t, marked, d
  <2>2. marked \in DataType
    BY <1>6 DEF DataInv, Consistent
  <2>3. fresh = [marked EXCEPT !.creator = [marked.creator EXCEPT ![k] = n],
                               !.session = [marked.session EXCEPT ![k] = u]]
    BY <1>6, <2>2, Zenon DEF DataType
  <2>4. fresh = Entry(marked, k, u, n)
    <3> HIDE DEF fresh, u
    <3> DEFINE f == [marked EXCEPT !.creator = [marked.creator EXCEPT ![k] = n]]
    <3>1. fresh = [f EXCEPT !.session = [marked.session EXCEPT ![k] = u]]
      BY <2>3
    <3> QED
      BY <2>2, <3>1, BothEntry, ZenonT(30)
  <2> HIDE DEF fresh, u
  <2>5. Linked(k, u, n) /\ u # NoSession /\ marked.session[k] # NoSession
    BY <1>1, <1>3, <1>4, <1>6, <2>1, Nothing DEF Linked
  <2>6. /\ DataInv(fresh) /\ fresh.destroying = marked.destroying
        /\ fresh.session[k] = u /\ fresh.creator[k] = n
        /\ \A j \in Keys \ {k} : /\ fresh.session[j] = marked.session[j]
                                 /\ fresh.creator[j] = marked.creator[j]
    <3>1. u \in SessionType \cup {NoSession} /\ n \in CreatorType \cup {NoCreator} /\ DataInv(marked)
          /\ (u = NoSession <=> marked.session[k] = NoSession)
      BY <1>4, <1>6, <2>1, <2>5, Zenon
    <3> HIDE DEF Good
    <3> QED
      BY <2>4, <2>5, <3>1, EntryEffect
  <2>7. Others(fresh) /\ fresh.destroying = d.destroying
    BY <1>6, <2>6, Zenon
  <2>8. Keeps(d, fresh)
    BY <2>1, <2>6, <2>7 DEF Keeps
  <2> QED
    BY <2>1, <2>6, <2>7, <2>8, Nothing, Zenon
<1> DEFINE stay == round.unlock \/ ~AboutToExpire(s, now)
           other == [data |-> IF IsValid(s, now) THEN marked ELSE gone, unlock |-> TRUE]
<1>8. next = IF stay THEN round
             ELSE IF s.inactive THEN [round EXCEPT !.data = gone]
             ELSE IF c # NoCreator THEN [round EXCEPT !.data = marked]
             ELSE IF HashKey(creds, k[1]) = k THEN [round EXCEPT !.data = fresh]
             ELSE other
  BY Zenon DEF RefreshSession
<1>9. \A x : [round EXCEPT !.data = x] = [data |-> x, unlock |-> round.unlock]
  OBVIOUS
<1>10. Good(d)
  BY DEF Keeps
<1> HIDE DEF next, s, c, u, n, marked, gone, fresh, stay, d
<1>11. other.unlock = TRUE /\ (other.data = marked \/ other.data = gone)
       /\ other = [data |-> other.data, unlock |-> other.unlock]
  OBVIOUS
<1> HIDE DEF other
<1>12. /\ next = [data |-> next.data, unlock |-> next.unlock] /\ next.unlock \in BOOLEAN
       /\ Good(next.data)
       /\ HashKey(creds, k[1]) = k => next.unlock = round.unlock
  <2> HIDE DEF Good
  <2>1. CASE stay
    BY <1>8, <1>10, <2>1 DEF d
  <2>2. CASE ~stay /\ s.inactive
    BY <1>2, <1>8, <1>9, <2>2
  <2>3. CASE ~stay /\ ~s.inactive /\ c # NoCreator
    BY <1>6, <1>8, <1>9, <2>3
  <2>4. CASE ~stay /\ ~s.inactive /\ c = NoCreator /\ HashKey(creds, k[1]) = k
    BY <1>7, <1>8, <1>9, <2>4
  <2>5. CASE ~stay /\ ~s.inactive /\ c = NoCreator /\ HashKey(creds, k[1]) # k
    BY <1>2, <1>6, <1>8, <1>11, <2>5, Zenon
  <2> QED
    BY <2>1, <2>2, <2>3, <2>4, <2>5, Zenon
<1>13. HashKey(creds, k[1]) = k /\ ~stay /\ ~s.inactive =>
         next.data.session[k] # NoSession /\ next.data.creator[k] # NoCreator
  <2>1. CASE c # NoCreator
    BY <1>3, <1>6, <1>8, <1>9, <2>1, Nothing
  <2>2. CASE c = NoCreator
    BY <1>4, <1>7, <1>8, <1>9, <2>2, Nothing
  <2> QED
    BY <2>1, <2>2
<1> QED
  BY <1>12, <1>13, Zenon DEF next, d, s, stay, Turned
-----------------------------------------------------------------------------
(* The loops over the cache, by induction over the entries visited.        *)

LEMMA UpTo ==
    ASSUME NEW T, NEW n \in Nat, 0 \in T, \A i \in 0..n : i < n /\ i \in T => i + 1 \in T
    PROVE  \A i \in 0..n : i \in T
<1> DEFINE U == {i \in 0..n : i \notin T}
           R == {ss \in Nat \X Nat : ss[1] < ss[2]}
<1> SUFFICES ASSUME U # {}
             PROVE  FALSE
  BY Zenon
<1>1. IsWellFoundedOn(R, Nat)
  BY NatLessThanWellFounded DEF OpToRel
<1>2. U \subseteq Nat
  OBVIOUS
<1>3. PICK x \in U : \A y \in U : <<y, x>> \notin R
  <2> HIDE DEF R, U
  <2> QED
    BY <1>1, <1>2, WFMin, Zenon
<1>4. x \in 0..n /\ x # 0 /\ x \notin T
  BY <1>3
<1>5. x - 1 \notin U
  <2>1. x - 1 \in Nat /\ x \in Nat /\ x - 1 < x
    BY <1>4
  <2>2. <<x - 1, x>> \in R
    BY <2>1
  <2> HIDE DEF R, U
  <2> QED
    BY <1>3, <2>2, Zenon
<1>6. x - 1 \in T /\ x - 1 \in 0..n /\ x - 1 < n
  BY <1>4, <1>5
<1>7. (x - 1) + 1 \in T
  BY <1>6
<1> QED
  BY <1>4, <1>7

LEMMA RefreshedIsAWalk ==
    ASSUME NEW creds, NEW d, d.cache \in Seq(Keys)
    PROVE  \E turn :
             /\ turn = [i \in 0..Len(d.cache) |->
                          IF i = 0 THEN [data |-> d, unlock |-> FALSE]
                          ELSE RefreshSession(creds, turn[i - 1], d.cache[i])]
             /\ Refreshed(creds, d) = turn[Len(d.cache)].data
<1> DEFINE q == d.cache
           n == Len(q)
           first == [data |-> d, unlock |-> FALSE]
           Walks(g, m) == g = [i \in 0..m |-> IF i = 0 THEN first
                                              ELSE RefreshSession(creds, g[i - 1], q[i])]
           T == {m \in Nat : \E g : Walks(g, m)}
<1>1. n \in Nat
  OBVIOUS
<1>2. 0 \in T
  <2> DEFINE g == [i \in 0..0 |-> first]
  <2>1. Walks(g, 0)
    <3> HIDE DEF first
    <3> QED
      OBVIOUS
  <2> QED
    BY <2>1, Zenon
<1>3. ASSUME NEW m \in T
      PROVE  m + 1 \in T
  <2>1. m \in Nat
    OBVIOUS
  <2>2. PICK g : Walks(g, m)
    OBVIOUS
  <2> DEFINE last == RefreshSession(creds, g[m], q[m + 1])
             h == [i \in 0..(m + 1) |-> IF i = m + 1 THEN last ELSE g[i]]
  <2>3. h[m] = g[m] /\ \A i \in 1..m : h[i - 1] = g[i - 1]
    <3> HIDE DEF last
    <3> QED
      BY <2>1
  <2>4. \A i \in 0..(m + 1) : h[i] = IF i = 0 THEN first ELSE RefreshSession(creds, h[i - 1], q[i])
    <3> SUFFICES ASSUME NEW i \in 0..(m + 1)
                 PROVE  h[i] = IF i = 0 THEN first ELSE RefreshSession(creds, h[i - 1], q[i])
      BY Zenon
    <3>1. CASE i = m + 1
      <4>1. h[i] = last /\ i # 0 /\ h[i - 1] = g[m]
        <5> HIDE DEF last
        <5> QED
          BY <2>1, <2>3, <3>1
      <4> QED
        BY <3>1, <4>1
    <3>2. CASE i # m + 1
      <4>1. i \in 0..m /\ h[i] = g[i]
        <5> HIDE DEF last
        <5> QED
          BY <2>1, <3>2
      <4>2. g[i] = IF i = 0 THEN first ELSE RefreshSession(creds, g[i - 1], q[i])
        BY <2>2, <4>1, Zenon
      <4>3. i # 0 => h[i - 1] = g[i - 1]
        BY <2>1, <2>3, <4>1
      <4> HIDE DEF h
      <4> QED
        BY <4>1, <4>2, <4>3, Zenon
    <3> QED
      BY <3>1, <3>2
  <2>5. h = [i \in 0..(m + 1) |-> h[i]]
    <3> HIDE DEF last
    <3> QED
      OBVIOUS
  <2> HIDE DEF h, first
  <2>6. Walks(h, m + 1)
    BY <2>4, <2>5, Zenon
  <2>7. m + 1 \in Nat
    BY <2>1
  <2> QED
    BY <2>6, <2>7, Zenon
<1>4. n \in T
  <2> HIDE DEF T
  <2>1. \A i \in 0..n : i \in T
    BY <1>1, <1>2, <1>3, UpTo, Zenon
  <2>2. n \in 0..n
    BY <1>1
  <2> QED
    BY <2>1, <2>2, Zenon
<1> DEFINE turn == CHOOSE g : Walks(g, n)
<1>5. Walks(turn, n)
  BY <1>4, Zenon
<1>6. Refreshed(creds, d) = turn[n].data
  BY Zenon DEF Refreshed
<1> HIDE DEF turn
<1> QED
  BY <1>5, <1>6, Zenon

LEMMA KeepsMore ==
    ASSUME NEW d, NEW e, NEW f, Keeps(d, e), Keeps(e, f)
    PROVE  Keeps(d, f)
BY DEF Keeps

\* The credentials of the round are those of every session in the cache.
OfAll(creds, d) == \A k \in Cached(d) : HashKey(creds, k[1]) = k

DueAndUsed(s) == AboutToExpire(s, now) /\ ~s.inactive

\* s_refresh_session_list under the lock.
LEMMA RefreshedEffect ==
    ASSUME NEW creds \in Creds, NEW d, DataInv(d)
    PROVE  LET e == Refreshed(creds, d) IN
           /\ DataInv(e) /\ Keeps(d, e) /\ e.destroying = d.destroying
           /\ OfAll(creds, d) => \A k \in Cached(d) : DueAndUsed(d.session[k]) =>
                                    e.session[k] # NoSession /\ e.creator[k] # NoCreator
<1> DEFINE q == d.cache
           n == Len(q)
<1>1. q \in Seq(Keys) /\ n \in Nat /\ IsInjective(q) /\ Range(q) = Cached(d)
  BY DEF DataInv, Consistent, DataType
<1>2. PICK turn :
        /\ turn = [i \in 0..n |-> IF i = 0 THEN [data |-> d, unlock |-> FALSE]
                                  ELSE RefreshSession(creds, turn[i - 1], q[i])]
        /\ Refreshed(creds, d) = turn[n].data
  BY <1>1, RefreshedIsAWalk, Zenon
<1>3. turn[0] = [data |-> d, unlock |-> FALSE]
  BY <1>1, <1>2
<1>4. \A i \in 1..n : turn[i] = RefreshSession(creds, turn[i - 1], q[i])
  <2>1. \A i \in 0..n : turn[i] = IF i = 0 THEN [data |-> d, unlock |-> FALSE]
                                 ELSE RefreshSession(creds, turn[i - 1], q[i])
    BY <1>2, Zenon
  <2>2. \A i \in 1..n : i \in 0..n /\ i # 0
    BY SMTT(20), <1>1
  <2> QED
    BY <2>1, <2>2, Zenon
<1> DEFINE e(i) == turn[i].data
           Sound(r) == Round(r) /\ Keeps(d, r.data) /\ r.data.destroying = d.destroying
           Ahead(i) == \A j \in 1..n : j > i => e(i).session[q[j]] = d.session[q[j]]
           Behind(i) == OfAll(creds, d) =>
                          /\ turn[i].unlock = FALSE
                          /\ \A j \in 1..n : j <= i /\ DueAndUsed(d.session[q[j]]) =>
                               e(i).session[q[j]] # NoSession /\ e(i).creator[q[j]] # NoCreator
           T == {i \in 0..n : Sound(turn[i]) /\ Ahead(i) /\ Behind(i)}
<1>5. 0 \in T
  <2>1. Sound(turn[0])
    BY <1>3 DEF Keeps, Round
  <2>2. Ahead(0) /\ Behind(0)
    BY SMTT(20), <1>3
  <2> QED
    BY <1>1, <2>1, <2>2
<1>6. ASSUME NEW i \in 0..n, i < n, i \in T
      PROVE  i + 1 \in T
  <2> DEFINE k == q[i + 1]
             a == turn[i]
             b == turn[i + 1]
  <2>1. i + 1 \in 1..n /\ i + 1 \in 0..n /\ i + 1 > i
    BY <1>1, <1>6
  <2>2. Sound(turn[i]) /\ Ahead(i) /\ Behind(i)
    BY <1>6, Zenon
  <2>3. k \in Keys /\ k \in Cached(d)
    BY <1>1, <2>1 DEF Range
  <2>4. a.data.session[k] = d.session[k] /\ d.session[k] # NoSession
    BY <2>1, <2>2, <2>3 DEF Cached
  <2>5. b = RefreshSession(creds, a, k)
    <3>1. (i + 1) - 1 = i
      BY <1>1
    <3> QED
      BY <1>4, <2>1, <3>1
  <2>6. \A j \in 1..n : j # i + 1 => q[j] \in Keys \ {k}
    BY <1>1, <2>1 DEF IsInjective
  <2> HIDE DEF k, a, b
  <2>7. Turned(creds, a, k, b)
    <3>1. Round(a) /\ a.data.session[k] # NoSession
      BY <2>2, <2>4, Zenon DEF a
    <3> QED
      BY <2>3, <2>5, <3>1, RefreshEffect, Zenon
  <2>8. Sound(turn[i + 1])
    <3>1. Keeps(d, b.data) /\ b.data.destroying = d.destroying
      BY <2>2, <2>7, KeepsMore, Zenon DEF a, Turned
    <3>2. Sound(b)
      BY <2>7, <3>1, Zenon DEF Turned
    <3> HIDE DEF Sound
    <3> QED
      BY <3>2, Zenon DEF b
  <2>9. Ahead(i + 1)
    <3>1. ASSUME NEW j \in 1..n, j > i + 1
          PROVE  b.data.session[q[j]] = d.session[q[j]]
      <4>1. j > i /\ j # i + 1
        BY <1>1, <3>1
      <4> QED
        BY <2>2, <2>6, <2>7, <4>1, Zenon DEF a, Turned
    <3> QED
      BY <3>1 DEF b
  <2>10. Behind(i + 1)
    <3> SUFFICES ASSUME OfAll(creds, d)
                 PROVE  /\ b.unlock = FALSE
                        /\ \A j \in 1..n : j <= i + 1 /\ DueAndUsed(d.session[q[j]]) =>
                             b.data.session[q[j]] # NoSession /\ b.data.creator[q[j]] # NoCreator
      BY Zenon DEF b
    <3>1. HashKey(creds, k[1]) = k /\ a.unlock = FALSE
      BY <2>2, <2>3 DEF OfAll, a
    <3>2. b.unlock = FALSE
      BY <2>7, <3>1, Zenon DEF Turned
    <3>3. ASSUME NEW j \in 1..n, j <= i + 1, DueAndUsed(d.session[q[j]])
          PROVE  b.data.session[q[j]] # NoSession /\ b.data.creator[q[j]] # NoCreator
      <4>1. CASE j = i + 1
        <5>1. q[j] = k
          BY <4>1 DEF k
        <5> QED
          BY <2>4, <2>7, <3>1, <3>3, <5>1, Zenon DEF DueAndUsed, Turned
      <4>2. CASE j # i + 1
        <5>1. j <= i
          BY <1>1, <3>3, <4>2
        <5>2. a.data.session[q[j]] # NoSession /\ a.data.creator[q[j]] # NoCreator
          BY <2>2, <3>3, <5>1 DEF a
        <5> QED
          BY <2>6, <2>7, <4>2, <5>2, Zenon DEF Turned
      <4> QED
        BY <4>1, <4>2
    <3> QED
      BY <3>2, <3>3
  <2> QED
    BY SMTT(20), <2>1, <2>8, <2>9, <2>10
<1>7. n \in T
  <2> HIDE DEF T
  <2>1. \A i \in 0..n : i \in T
    BY <1>1, <1>5, <1>6, UpTo, Zenon
  <2>2. n \in 0..n
    BY <1>1
  <2> QED
    BY <2>1, <2>2, Zenon
<1>8. Sound(turn[n]) /\ Behind(n)
  BY <1>7, Zenon
<1>9. \A k \in Cached(d) : \E j \in 1..n : q[j] = k /\ j <= n
  BY <1>1 DEF Range
<1> HIDE DEF q, n
<1>10. OfAll(creds, d) => \A k \in Cached(d) : DueAndUsed(d.session[k]) =>
          e(n).session[k] # NoSession /\ e(n).creator[k] # NoCreator
  BY <1>8, <1>9
<1> QED
  BY <1>2, <1>8, <1>10, Zenon DEF Round

LEMMA ClearIsAWalk ==
    ASSUME NEW d, d.cache \in Seq(Keys)
    PROVE  \E cleared :
             /\ cleared = [i \in 0..Len(d.cache) |->
                             IF i = 0 THEN d ELSE CacheRemove(cleared[i - 1], d.cache[i])]
             /\ CacheClear(d) = cleared[Len(d.cache)]
<1> DEFINE q == d.cache
           n == Len(q)
           Walks(g, m) == g = [i \in 0..m |-> IF i = 0 THEN d ELSE CacheRemove(g[i - 1], q[i])]
           T == {m \in Nat : \E g : Walks(g, m)}
<1>1. n \in Nat
  OBVIOUS
<1>2. 0 \in T
  <2> DEFINE g == [i \in 0..0 |-> d]
  <2>1. Walks(g, 0)
    OBVIOUS
  <2> QED
    BY <2>1, Zenon
<1>3. ASSUME NEW m \in T
      PROVE  m + 1 \in T
  <2>1. m \in Nat
    OBVIOUS
  <2>2. PICK g : Walks(g, m)
    BY Zenon
  <2> DEFINE last == CacheRemove(g[m], q[m + 1])
             h == [i \in 0..(m + 1) |-> IF i = m + 1 THEN last ELSE g[i]]
  <2>3. h[m] = g[m] /\ \A i \in 1..m : h[i - 1] = g[i - 1]
    <3> HIDE DEF last
    <3> QED
      BY <2>1
  <2>4. \A i \in 0..(m + 1) : h[i] = IF i = 0 THEN d ELSE CacheRemove(h[i - 1], q[i])
    <3> SUFFICES ASSUME NEW i \in 0..(m + 1)
                 PROVE  h[i] = IF i = 0 THEN d ELSE CacheRemove(h[i - 1], q[i])
      BY Zenon
    <3>1. CASE i = m + 1
      <4>1. h[i] = last /\ i # 0 /\ h[i - 1] = g[m]
        <5> HIDE DEF last
        <5> QED
          BY <2>1, <2>3, <3>1
      <4> QED
        BY <3>1, <4>1
    <3>2. CASE i # m + 1
      <4>1. i \in 0..m /\ h[i] = g[i]
        <5> HIDE DEF last
        <5> QED
          BY <2>1, <3>2
      <4>2. g[i] = IF i = 0 THEN d ELSE CacheRemove(g[i - 1], q[i])
        BY <2>2, <4>1, Zenon
      <4>3. i # 0 => h[i - 1] = g[i - 1]
        BY <2>1, <2>3, <4>1
      <4> HIDE DEF h
      <4> QED
        BY <4>1, <4>2, <4>3, Zenon
    <3> QED
      BY <3>1, <3>2
  <2>5. h = [i \in 0..(m + 1) |-> h[i]]
    <3> HIDE DEF last
    <3> QED
      OBVIOUS
  <2> HIDE DEF h
  <2>6. Walks(h, m + 1)
    BY <2>4, <2>5, Zenon
  <2>7. m + 1 \in Nat
    BY <2>1
  <2> QED
    BY <2>6, <2>7, Zenon
<1>4. n \in T
  <2> HIDE DEF T
  <2>1. \A i \in 0..n : i \in T
    BY <1>1, <1>2, <1>3, UpTo, Zenon
  <2>2. n \in 0..n
    BY <1>1
  <2> QED
    BY <2>1, <2>2, Zenon
<1> DEFINE cleared == CHOOSE g : Walks(g, n)
<1>5. Walks(cleared, n)
  BY <1>4, Zenon
<1>6. CacheClear(d) = cleared[n]
  BY Zenon DEF CacheClear
<1> HIDE DEF cleared
<1> QED
  BY <1>5, <1>6, Zenon

\* aws_cache_clear
LEMMA ClearEffect ==
    ASSUME NEW d, DataInv(d)
    PROVE  DataInv(CacheClear(d)) /\ Same(d, CacheClear(d))
<1> DEFINE q == d.cache
           n == Len(q)
<1>1. q \in Seq(Keys) /\ n \in Nat /\ \A i \in 1..n : q[i] \in Keys
  BY DEF DataInv, Consistent, DataType
<1>2. PICK g : /\ g = [i \in 0..n |-> IF i = 0 THEN d ELSE CacheRemove(g[i - 1], q[i])]
               /\ CacheClear(d) = g[n]
  BY <1>1, ClearIsAWalk, Zenon
<1>3. \A i \in 0..n : g[i] = IF i = 0 THEN d ELSE CacheRemove(g[i - 1], q[i])
  BY <1>2, Zenon
<1> DEFINE T == {i \in 0..n : DataInv(g[i]) /\ Same(d, g[i])}
<1>4. 0 \in T
  BY <1>1, <1>3 DEF Same, Keeps
<1>5. ASSUME NEW i \in 0..n, i < n, i \in T
      PROVE  i + 1 \in T
  <2>1. i + 1 \in 0..n /\ i + 1 \in 1..n /\ i + 1 # 0 /\ (i + 1) - 1 = i
    BY <1>1, <1>5
  <2>2. g[i + 1] = CacheRemove(g[i], q[i + 1]) /\ q[i + 1] \in Keys
    BY <1>1, <1>3, <2>1
  <2>3. DataInv(g[i]) /\ Same(d, g[i])
    BY <1>5, Zenon
  <2>4. DataInv(g[i + 1]) /\ Same(g[i], g[i + 1])
    <3> DEFINE r == CacheRemove(g[i], q[i + 1])
    <3>1. DataInv(r)
      BY <2>2, <2>3, RemoveKeeps, Zenon
    <3>2. Same(g[i], r)
      BY <2>2, <2>3, RemoveEffect, Zenon DEF DataInv
    <3> HIDE DEF r
    <3>3. g[i + 1] = r
      BY <2>2, Zenon DEF r
    <3> QED
      BY <3>1, <3>2, <3>3, Zenon
  <2>5. Same(d, g[i + 1])
    BY <2>3, <2>4, KeepsMore, Zenon DEF Same
  <2> QED
    BY <2>1, <2>4, <2>5, Zenon
<1>6. n \in T
  <2> HIDE DEF T
  <2>1. \A i \in 0..n : i \in T
    BY <1>1, <1>4, <1>5, UpTo, Zenon
  <2>2. n \in 0..n
    BY <1>1
  <2> QED
    BY <2>1, <2>2, Zenon
<1> QED
  BY <1>2, <1>6, Zenon
-----------------------------------------------------------------------------
(* What every critical section makes of the data under the lock.           *)

\* A hit of s_s3express_get_creds
LEMMA HitEffect ==
    ASSUME NEW d, DataInv(d), NEW k \in Keys, d.session[k] # NoSession
    PROVE  LET e == [CacheFind(d, k) EXCEPT !.session[k].inactive = FALSE] IN
           DataInv(e) /\ Same(d, e)
<1> DEFINE f == CacheFind(d, k)
           s == f.session[k]
           t == [s EXCEPT !.inactive = FALSE]
           e == [f EXCEPT !.session[k].inactive = FALSE]
<1>1. DataInv(f) /\ Same(d, f) /\ f.session = d.session /\ f.creator = d.creator
  BY FindEffect, Zenon
<1> HIDE DEF f
<1>2. /\ f \in DataType /\ s \in SessionType /\ f.creator[k] \in CreatorType \cup {NoCreator}
      /\ f.session \in [Keys -> SessionType \cup {NoSession}] /\ Linked(k, s, f.creator[k])
  BY <1>1 DEF DataInv, Consistent, DataType
<1>3. t \in SessionType /\ t.creds = s.creds /\ t.creator = s.creator
  BY <1>2, Zenon DEF SessionType
<1>4. e = [f EXCEPT !.session = [f.session EXCEPT ![k] = t]]
  BY <1>2 DEF DataType
<1> HIDE DEF t, e, s
<1>5. e = Entry(f, k, t, f.creator[k])
  BY <1>2, <1>4, SessionEntry, Zenon
<1>6. Linked(k, t, f.creator[k]) /\ t # NoSession /\ s # NoSession
  BY <1>2, <1>3, Nothing DEF Linked
<1>7. /\ DataInv(e) /\ e.capacity = f.capacity /\ e.destroying = f.destroying
      /\ e.creator[k] = f.creator[k]
      /\ \A j \in Keys \ {k} : e.session[j] = f.session[j] /\ e.creator[j] = f.creator[j]
  <2>1. t \in SessionType \cup {NoSession} /\ (t = NoSession <=> f.session[k] = NoSession)
    BY <1>3, <1>6, Zenon DEF s
  <2> QED
    BY <1>1, <1>2, <1>5, <1>6, <2>1, EntryEffect
<1>8. \A j \in Keys : e.creator[j] = d.creator[j]
  BY <1>1, <1>7
<1>9. Same(d, e)
  BY <1>1, <1>7, <1>8 DEF Same, Keeps, Creating
<1> QED
  BY <1>7, <1>9 DEF e, f

\* Steps 2 and 3 of s_s3express_get_creds: c waits on the creator for k.
LEMMA QueueEffect ==
    ASSUME NEW d, DataInv(d), NEW k \in Keys, d.session[k] = NoSession, NEW c \in Callers
    PROVE  LET e == QueueCallback(d, k, c) IN
           /\ DataInv(e) /\ e.destroying = d.destroying /\ e.creator[k] # NoCreator
           /\ e.creator[k].queue =
                Append(IF d.creator[k] = NoCreator THEN << >> ELSE d.creator[k].queue, c)
           /\ \A j \in Keys \ {k} : e.creator[j] = d.creator[j]
<1> DEFINE old == d.creator[k]
           new == CreatorNew(k[2], k[1], FALSE)
           p == IF old = NoCreator THEN new ELSE old
           n == [p EXCEPT !.queue = Append(@, c)]
           e == QueueCallback(d, k, c)
<1>1. /\ d \in DataType /\ old \in CreatorType \cup {NoCreator}
      /\ d.creator \in [Keys -> CreatorType \cup {NoCreator}] /\ Linked(k, NoSession, old)
  BY DEF DataInv, Consistent, DataType
<1>2. new \in CreatorType /\ new.with = k /\ new.session = FALSE /\ new.queue = << >>
  <2>1. HashKey(k[2], k[1]) = k
    BY KeyParts
  <2> QED
    BY <2>1 DEF CreatorNew, CreatorType
<1>3. /\ p \in CreatorType /\ p.with = k /\ p.session = FALSE
      /\ p.queue = IF old = NoCreator THEN << >> ELSE old.queue
  <2> HIDE DEF new
  <2>1. CASE old = NoCreator
    BY <1>2, <2>1
  <2>2. CASE old # NoCreator
    <3>1. old \in CreatorType /\ old.with = k /\ ~old.session
      BY <1>1, <2>2 DEF Linked
    <3>2. old.session = FALSE
      BY <3>1 DEF CreatorType
    <3> QED
      BY <2>2, <3>1, <3>2
  <2> QED
    BY <2>1, <2>2, Zenon
<1>4. e = [d EXCEPT !.creator = [d.creator EXCEPT ![k] = n]]
  <2> DEFINE known == IF old = NoCreator THEN [d EXCEPT !.creator[k] = new] ELSE d
  <2>1. e = [known EXCEPT !.creator[k].queue = Append(@, c)]
    BY Zenon DEF QueueCallback
  <2> HIDE DEF new
  <2>2. CASE old = NoCreator
    BY <1>1, <2>1, <2>2, Zenon DEF DataType
  <2>3. CASE old # NoCreator
    BY <1>1, <2>1, <2>3 DEF DataType
  <2> QED
    BY <2>2, <2>3
<1> HIDE DEF p
<1>5. n \in CreatorType /\ n.with = k /\ n.session = FALSE /\ n.queue = Append(p.queue, c)
  <2>1. Append(p.queue, c) \in Seq(Callers)
    BY <1>3 DEF CreatorType
  <2> QED
    BY <1>3, <2>1, Zenon DEF CreatorType
<1> HIDE DEF n, e
<1>6. e = Entry(d, k, NoSession, n)
  BY <1>1, <1>4, CreatorEntry, Zenon
<1>7. Linked(k, NoSession, n) /\ n # NoCreator
  BY <1>5, Nothing DEF Linked
<1>8. /\ DataInv(e) /\ e.destroying = d.destroying /\ e.creator[k] = n
      /\ \A j \in Keys \ {k} : e.creator[j] = d.creator[j]
  <2>1. n \in CreatorType \cup {NoCreator} /\ NoSession \in SessionType \cup {NoSession}
    BY <1>5
  <2> QED
    BY <1>6, <1>7, <2>1, EntryEffect
<1> QED
  BY <1>3, <1>5, <1>7, <1>8, Zenon DEF e

\* The critical section of s_on_request_finished: the creator for k leaves the
\* table, and no other does.
Leaves(d, k, e) ==
    /\ DataInv(e) /\ e.destroying = d.destroying /\ e.creator[k] = NoCreator
    /\ \A j \in Keys \ {k} :
         /\ e.creator[j] # NoCreator <=> d.creator[j] # NoCreator
         /\ d.creator[j] # NoCreator => e.creator[j].queue = d.creator[j].queue

LEMMA CriticalEffect ==
    ASSUME DataInv(synced), NEW k \in Keys, synced.creator[k] # NoCreator,
           NEW result, result.ok \in BOOLEAN,
           result.ok => result.creds \in [for : Keys, expire : Nat] /\ result.creds.for = k
    PROVE  Leaves(synced, k, CriticalSection(k, result))
<1> DEFINE c == synced.creator[k]
           s == synced.session[k]
           t == IF c.session THEN [s EXCEPT !.creator = FALSE] ELSE s
           d == [synced EXCEPT !.creator[k] = NoCreator,
                               !.session[k] = IF c.session THEN [@ EXCEPT !.creator = FALSE] ELSE @]
           e == CriticalSection(k, result)
<1> SUFFICES Leaves(synced, k, e)
  OBVIOUS
<1>1. /\ synced \in DataType /\ c \in CreatorType /\ s \in SessionType \cup {NoSession}
      /\ synced.session \in [Keys -> SessionType \cup {NoSession}]
      /\ synced.creator \in [Keys -> CreatorType \cup {NoCreator}] /\ Linked(k, s, c)
  BY DEF DataInv, Consistent, DataType
<1>2. e = CASE c.session /\ result.ok  -> [d EXCEPT !.session[k].creds = result.creds]
            [] c.session /\ ~result.ok -> CacheRemove(d, k)
            [] ~c.session /\ result.ok -> CachePut(d, k, SessionNew(result.creds))
            [] OTHER                   -> d
  BY DEF CriticalSection
<1>3. /\ t \in SessionType \cup {NoSession} /\ (t = NoSession <=> s = NoSession)
      /\ IF c.session THEN t \in SessionType /\ t.creds = s.creds /\ t.creator = FALSE
                      ELSE t = NoSession
  <2>1. CASE c.session
    <3>1. s \in SessionType
      BY <1>1, <2>1 DEF Linked
    <3>2. t \in SessionType /\ t.creds = s.creds /\ t.creator = FALSE
      BY <2>1, <3>1, Zenon DEF SessionType
    <3> QED
      BY <2>1, <3>1, <3>2, Nothing, Zenon
  <2>2. CASE ~c.session
    BY <1>1, <2>2 DEF Linked
  <2> QED
    BY <2>1, <2>2, Zenon
<1>4. Linked(k, t, NoCreator)
  BY <1>1, <1>3 DEF Linked
<1>5. d = Entry(synced, k, t, NoCreator)
  <2> DEFINE f == [synced EXCEPT !.creator = [synced.creator EXCEPT ![k] = NoCreator]]
  <2>1. d = [f EXCEPT !.session = [synced.session EXCEPT ![k] = t]]
    BY <1>1, Zenon DEF DataType
  <2> HIDE DEF d, t
  <2> QED
    BY <1>1, <2>1, BothEntry, ZenonT(40)
<1> HIDE DEF d, e, t
<1>6. /\ DataInv(d) /\ d.destroying = synced.destroying /\ d.session[k] = t
      /\ d.creator[k] = NoCreator
      /\ \A j \in Keys \ {k} : d.creator[j] = synced.creator[j]
  <2>1. NoCreator \in CreatorType \cup {NoCreator}
    OBVIOUS
  <2> QED
    BY <1>3, <1>4, <1>5, <2>1, EntryEffect
<1>7. CASE e = d
  BY <1>6, <1>7 DEF Leaves
<1>8. CASE Same(d, e) /\ DataInv(e)
  <2>1. \A j \in Keys : /\ e.creator[j] # NoCreator <=> d.creator[j] # NoCreator
                        /\ d.creator[j] # NoCreator => e.creator[j].queue = d.creator[j].queue
    BY <1>8 DEF Same, Keeps, Creating
  <2> QED
    BY <1>6, <1>8, <2>1 DEF Leaves, Same
<1>9. CASE c.session /\ result.ok
  <2> DEFINE u == [t EXCEPT !.creds = result.creds]
  <2>1. u \in SessionType /\ u.creds.for = k /\ u.creator = FALSE
    BY <1>3, <1>9, Zenon DEF SessionType
  <2>2. e = [d EXCEPT !.session[k].creds = result.creds]
    BY <1>2, <1>9
  <2>3. d \in DataType
    BY <1>6 DEF DataInv, Consistent
  <2>4. e = [d EXCEPT !.session = [d.session EXCEPT ![k] = u]]
    BY <1>6, <2>2, <2>3, Zenon DEF DataType
  <2> HIDE DEF u
  <2>5. e = Entry(d, k, u, NoCreator)
    BY <1>6, <2>3, <2>4, SessionEntry
  <2>6. Linked(k, u, NoCreator) /\ u # NoSession /\ t # NoSession
    BY <1>3, <1>9, <2>1, Nothing DEF Linked
  <2>7. /\ DataInv(e) /\ e.destroying = d.destroying /\ e.creator[k] = NoCreator
        /\ \A j \in Keys \ {k} : e.creator[j] = d.creator[j]
    <3>1. NoCreator \in CreatorType \cup {NoCreator} /\ u \in SessionType \cup {NoSession}
      BY <2>1
    <3> QED
      BY <1>6, <2>5, <2>6, <3>1, EntryEffect
  <2> QED
    BY <1>6, <2>7 DEF Leaves
<1>10. CASE c.session /\ ~result.ok
  <2>1. e = CacheRemove(d, k)
    BY <1>2, <1>10
  <2> QED
    BY <1>6, <1>8, <2>1, RemoveEffect, RemoveKeeps, Zenon DEF DataInv
<1>11. CASE ~c.session /\ result.ok
  <2> DEFINE n == SessionNew(result.creds)
  <2>1. e = CachePut(d, k, n)
    BY <1>2, <1>11
  <2>2. n \in SessionType /\ n.creds.for = k /\ n.creator = FALSE
    BY <1>11 DEF SessionNew, SessionType
  <2>3. d.session[k] = NoSession
    BY <1>3, <1>6, <1>11
  <2> HIDE DEF n
  <2> QED
    BY <1>6, <1>8, <2>1, <2>2, <2>3, PutEffect, Zenon
<1>12. CASE ~c.session /\ ~result.ok
  BY <1>2, <1>7, <1>12
<1> QED
  BY <1>1, <1>9, <1>10, <1>11, <1>12

-----------------------------------------------------------------------------
\* A change of the cache and the table that keeps every queue.
LEMMA QueuesKept ==
    ASSUME NEW d, NEW e, NEW cs, NEW fs, Queues(d, cs, fs), Keeps(d, e)
    PROVE  Queues(e, cs, fs)
<1>1. \A k \in Creating(d) : k \in Creating(e) /\ e.creator[k].queue = d.creator[k].queue
  BY DEF Keeps, Creating
<1>2. \A k \in Creating(e) : k \in Creating(d) \/ e.creator[k].queue = << >>
  BY DEF Keeps, Creating
<1>3. IsInjective(<< >>) /\ Range(<< >>) = {}
  BY DEF IsInjective, Range
<1>4. \A k \in Creating(e) : TableQueue(e.creator[k].queue, k, cs, fs)
  <2> SUFFICES ASSUME NEW k \in Creating(e)
               PROVE  TableQueue(e.creator[k].queue, k, cs, fs)
    BY Zenon
  <2>1. CASE e.creator[k].queue = << >>
    BY <1>3, <2>1, Zenon DEF TableQueue
  <2>2. CASE k \in Creating(d)
    BY <1>1, <2>2, Zenon DEF Queues
  <2> QED
    BY <1>2, <2>1, <2>2, Zenon
<1>5. \A c \in Callers : cs[c].pc = "queued" => OnAQueue(c, e, fs)
  BY <1>1, Zenon DEF Queues, OnAQueue
<1> QED
  BY <1>4, <1>5, Zenon DEF Queues

\* A caller that does not wait is on no queue.
LEMMA NotQueued ==
    ASSUME NEW d, NEW cs, NEW fs, Queues(d, cs, fs), NEW c, cs[c].pc # "queued"
    PROVE  /\ \A k \in Creating(d) : c \notin Range(d.creator[k].queue)
           /\ \A i \in DOMAIN fs : c \notin Range(fs[i].queue)
BY Zenon DEF Queues, TableQueue, LeavingQueue

\* A call to get_credentials that is made, or answered from the cache.
LEMMA CallerMoves ==
    ASSUME NEW d, NEW cs, NEW fs, Queues(d, cs, fs), NEW c \in Callers, cs[c].pc # "queued",
           NEW x \in CallerType, x.pc # "queued", x.pc # "idle" => x.key \in Keys
    PROVE  Queues(d, [cs EXCEPT ![c] = x], fs)
<1> DEFINE es == [cs EXCEPT ![c] = x]
<1>1. /\ es \in [Callers -> CallerType] /\ es[c] = x
      /\ \A b \in Callers : b # c => es[b] = cs[b]
  BY DEF Queues
<1> HIDE DEF es
<1>2. ASSUME NEW k \in Creating(d)
      PROVE  TableQueue(d.creator[k].queue, k, es, fs)
  <2>1. TableQueue(d.creator[k].queue, k, cs, fs)
    BY Zenon DEF Queues
  <2>2. \A b \in Range(d.creator[k].queue) : es[b] = cs[b]
    BY <1>1, <2>1, Zenon DEF TableQueue
  <2> QED
    BY <2>1, <2>2, Zenon DEF TableQueue
<1>3. ASSUME NEW i \in DOMAIN fs
      PROVE  LeavingQueue(i, es, fs)
  <2>1. LeavingQueue(i, cs, fs)
    BY Zenon DEF Queues
  <2>2. \A b \in Range(fs[i].queue) : es[b] = cs[b]
    BY <1>1, <2>1, Zenon DEF LeavingQueue
  <2> QED
    BY <2>1, <2>2, Zenon DEF LeavingQueue
<1>4. \A b \in Callers : /\ es[b].pc # "idle" => es[b].key \in Keys
                         /\ es[b].pc = "queued" => OnAQueue(b, d, fs)
  BY <1>1, Zenon DEF Queues
<1> QED
  BY <1>1, <1>2, <1>3, <1>4, Zenon DEF Queues, es

LEMMA KeysFinite == IsFiniteSet(Keys)
BY ProviderAssumption, FS_Product, FS_Subset, Zenon DEF Keys

\* The table is finite, and a creator that enters or leaves it counts for one.
LEMMA CreatingCounts ==
    ASSUME NEW d, NEW e, NEW k \in Keys,
           \A j \in Keys \ {k} : e.creator[j] # NoCreator <=> d.creator[j] # NoCreator
    PROVE  /\ IsFiniteSet(Creating(d)) /\ Cardinality(Creating(d)) \in Nat
           /\ (e.creator[k] # NoCreator <=> d.creator[k] # NoCreator) => Creating(e) = Creating(d)
           /\ e.creator[k] # NoCreator /\ d.creator[k] = NoCreator =>
                Cardinality(Creating(e)) = Cardinality(Creating(d)) + 1
           /\ e.creator[k] = NoCreator /\ d.creator[k] # NoCreator =>
                Cardinality(Creating(e)) = Cardinality(Creating(d)) - 1
<1>1. /\ IsFiniteSet(Creating(d)) /\ Cardinality(Creating(d)) \in Nat
      /\ IsFiniteSet(Creating(e)) /\ Cardinality(Creating(e)) \in Nat
  BY KeysFinite, FS_Subset, FS_CardinalityType DEF Creating
<1>2. ASSUME e.creator[k] # NoCreator <=> d.creator[k] # NoCreator
      PROVE  Creating(e) = Creating(d)
  BY <1>2 DEF Creating
<1>3. ASSUME e.creator[k] # NoCreator, d.creator[k] = NoCreator
      PROVE  Cardinality(Creating(e)) = Cardinality(Creating(d)) + 1
  <2>1. Creating(e) = Creating(d) \cup {k} /\ k \notin Creating(d)
    BY <1>3 DEF Creating
  <2> QED
    BY <1>1, <2>1, FS_AddElement
<1>4. ASSUME e.creator[k] = NoCreator, d.creator[k] # NoCreator
      PROVE  Cardinality(Creating(e)) = Cardinality(Creating(d)) - 1
  <2>1. Creating(d) = Creating(e) \cup {k} /\ k \notin Creating(e)
    BY <1>4 DEF Creating
  <2>2. Cardinality(Creating(d)) = Cardinality(Creating(e)) + 1
    BY <1>1, <2>1, FS_AddElement
  <2> QED
    BY <1>1, <2>2
<1> QED
  BY <1>1, <1>2, <1>3, <1>4

\* s_s3express_get_creds queues the callback of c on the creator for its key.
Joins(d, e, k, q, c) ==
    /\ q = IF k \in Creating(d) THEN d.creator[k].queue ELSE << >>
    /\ k \in Creating(e) /\ e.creator[k].queue = Append(q, c)
    /\ \A j \in Keys \ {k} : e.creator[j] = d.creator[j]

LEMMA CallerQueues ==
    ASSUME NEW d, NEW e, NEW cs, NEW fs, Queues(d, cs, fs), NEW c \in Callers,
           cs[c].pc = "called", NEW k \in Keys, k = cs[c].key, NEW q \in Seq(Callers),
           Joins(d, e, k, q, c)
    PROVE  Queues(e, [cs EXCEPT ![c].pc = "queued"], fs)
<1> DEFINE es == [cs EXCEPT ![c].pc = "queued"]
           w == Append(q, c)
<1>1. /\ es \in [Callers -> CallerType] /\ es[c].pc = "queued" /\ es[c].key = k
      /\ \A b \in Callers : b # c => es[b] = cs[b]
  BY Zenon DEF Queues, CallerType
<1>2. TableQueue(q, k, cs, fs)
  <2>1. IsInjective(<< >>) /\ Range(<< >>) = {}
    BY DEF IsInjective, Range
  <2>2. CASE k \in Creating(d)
    BY <2>2, Zenon DEF Queues, Joins
  <2>3. CASE k \notin Creating(d)
    BY <2>1, <2>3, Zenon DEF TableQueue, Joins
  <2> QED
    BY <2>2, <2>3
<1>3. /\ c \notin Range(q) /\ \A i \in DOMAIN fs : c \notin Range(fs[i].queue)
      /\ \A j \in Creating(d) : c \notin Range(d.creator[j].queue)
  <2>1. cs[c].pc # "queued"
    OBVIOUS
  <2> QED
    BY <1>2, <2>1, NotQueued, Zenon DEF TableQueue
<1>4. IsInjective(w) /\ Range(w) = Range(q) \cup {c}
  <2>1. IsInjective(q) /\ c \notin Range(q)
    BY <1>2, <1>3, Zenon DEF TableQueue
  <2> QED
    BY <2>1, AppendEffect, ZenonT(30)
<1>5. /\ k \in Creating(e) /\ e.creator[k].queue = w /\ (k \in Creating(d) => q = d.creator[k].queue)
      /\ \A j \in Keys : j # k => /\ j \in Creating(e) <=> j \in Creating(d)
                                  /\ e.creator[j] = d.creator[j]
  BY Zenon DEF Creating, Joins
<1>6. Creating(d) \subseteq Keys /\ Creating(e) \subseteq Keys
  BY DEF Creating
<1> HIDE DEF es, w
<1>7. TableQueue(w, k, es, fs)
  <2>1. \A b \in Range(w) : b \in Callers /\ es[b].pc = "queued" /\ es[b].key = k
    BY <1>1, <1>2, <1>3, <1>4, Zenon DEF TableQueue
  <2>2. \A i \in DOMAIN fs : Range(w) \cap Range(fs[i].queue) = {}
    BY <1>2, <1>3, <1>4 DEF TableQueue
  <2> QED
    BY <1>4, <2>1, <2>2, Zenon DEF TableQueue
<1>8. ASSUME NEW j \in Creating(e)
      PROVE  TableQueue(e.creator[j].queue, j, es, fs)
  <2>1. CASE j = k
    BY <1>5, <1>7, <2>1, Zenon
  <2>2. CASE j # k
    <3>1. j \in Creating(d) /\ e.creator[j] = d.creator[j]
      BY <1>5, <1>6, <2>2
    <3>2. TableQueue(d.creator[j].queue, j, cs, fs)
      BY <3>1, Zenon DEF Queues
    <3>3. \A b \in Range(d.creator[j].queue) : es[b] = cs[b]
      BY <1>1, <1>3, <3>1, <3>2, Zenon DEF TableQueue
    <3> QED
      BY <3>1, <3>2, <3>3, Zenon DEF TableQueue
  <2> QED
    BY <2>1, <2>2
<1>9. ASSUME NEW i \in DOMAIN fs
      PROVE  LeavingQueue(i, es, fs)
  <2>1. LeavingQueue(i, cs, fs)
    BY Zenon DEF Queues
  <2>2. \A b \in Range(fs[i].queue) : es[b] = cs[b]
    BY <1>1, <1>3, <2>1, Zenon DEF LeavingQueue
  <2> QED
    BY <2>1, <2>2, Zenon DEF LeavingQueue
<1>10. ASSUME NEW b \in Callers, es[b].pc = "queued"
       PROVE  OnAQueue(b, e, fs)
  <2>1. CASE b = c
    BY <1>4, <1>5, <2>1, Zenon DEF OnAQueue
  <2>2. CASE b # c
    <3>1. OnAQueue(b, d, fs)
      BY <1>1, <1>10, <2>2, Zenon DEF Queues
    <3>2. CASE \E i \in DOMAIN fs : b \in Range(fs[i].queue)
      BY <3>2, Zenon DEF OnAQueue
    <3>3. ASSUME NEW j \in Creating(d), b \in Range(d.creator[j].queue)
          PROVE  OnAQueue(b, e, fs)
      <4>1. CASE j = k
        BY <1>4, <1>5, <3>3, <4>1 DEF OnAQueue
      <4>2. CASE j # k
        BY <1>5, <1>6, <3>3, <4>2 DEF OnAQueue
      <4> QED
        BY <4>1, <4>2
    <3> QED
      BY <3>1, <3>2, <3>3, Zenon DEF OnAQueue
  <2> QED
    BY <2>1, <2>2
<1>11. \A b \in Callers : es[b].pc # "idle" => es[b].key \in Keys
  BY <1>1, Zenon DEF Queues
<1> QED
  BY <1>1, <1>8, <1>9, <1>10, <1>11, Zenon DEF Queues, es

\* A creator leaves the table with its queue and the answer r of its request.
Departs(d, e, k, fs, gs, r) ==
    /\ k \in Creating(d) /\ Creating(e) = Creating(d) \ {k}
    /\ \A j \in Creating(e) : e.creator[j].queue = d.creator[j].queue
    /\ gs = Append(fs, [queue |-> d.creator[k].queue, for |-> r])

LEMMA CreatorLeaves ==
    ASSUME NEW d, NEW e, NEW cs, NEW fs, NEW gs, Queues(d, cs, fs), NEW k \in Keys,
           NEW r \in {k, << >>}, d.creator[k].queue \in Seq(Callers), Departs(d, e, k, fs, gs, r)
    PROVE  Queues(e, cs, gs)
<1> DEFINE q == d.creator[k].queue
           n == Len(fs)
           f == [queue |-> q, for |-> r]
<1>1. /\ fs \in Seq(LeavingType) /\ n \in Nat /\ DOMAIN fs = 1..n
      /\ TableQueue(q, k, cs, fs) /\ k \in Creating(d)
  <2>1. fs \in Seq(LeavingType) /\ TableQueue(q, k, cs, fs) /\ k \in Creating(d)
    BY Zenon DEF Queues, Departs
  <2> QED
    BY <2>1
<1>2. f \in LeavingType /\ f.queue = q /\ f.for = r
  BY DEF LeavingType
<1> HIDE DEF f
<1>3. gs = Append(fs, f)
  BY DEF Departs, f
<1>4. /\ gs \in Seq(LeavingType) /\ DOMAIN gs = 1..(n + 1)
      /\ gs[n + 1] = f /\ \A i \in 1..n : gs[i] = fs[i]
  BY <1>1, <1>2, <1>3
<1> HIDE DEF n
<1>5. /\ n + 1 \in DOMAIN gs /\ gs[n + 1].queue = q /\ gs[n + 1].for = r
      /\ \A i \in DOMAIN gs : i = n + 1 \/ (i \in DOMAIN fs /\ gs[i] = fs[i] /\ i # n + 1)
      /\ \A i \in DOMAIN fs : i \in DOMAIN gs /\ gs[i] = fs[i] /\ i # n + 1
  BY <1>1, <1>2, <1>4
<1> HIDE DEF q
<1>6. ASSUME NEW j \in Creating(e)
      PROVE  TableQueue(e.creator[j].queue, j, cs, gs)
  <2>1. j \in Creating(d) /\ j # k /\ e.creator[j].queue = d.creator[j].queue
    BY DEF Departs
  <2>2. TableQueue(e.creator[j].queue, j, cs, fs)
    BY <2>1, Zenon DEF Queues
  <2>3. Range(e.creator[j].queue) \cap Range(q) = {}
    BY <1>1, <2>1, <2>2 DEF TableQueue
  <2> QED
    BY <1>5, <2>2, <2>3, Zenon DEF TableQueue
<1>7. ASSUME NEW i \in DOMAIN gs
      PROVE  LeavingQueue(i, cs, gs)
  <2>1. CASE i = n + 1
    <3>1. \A c \in Range(q) : /\ c \in Callers /\ cs[c].pc = "queued"
                              /\ r # << >> => r = cs[c].key
      BY <1>1, Zenon DEF TableQueue
    <3>2. \A j \in DOMAIN gs \ {i} : Range(q) \cap Range(gs[j].queue) = {}
      BY <1>1, <1>5, <2>1, Zenon DEF TableQueue
    <3>3. IsInjective(q)
      BY <1>1, Zenon DEF TableQueue
    <3> QED
      BY <1>5, <2>1, <3>1, <3>2, <3>3, Zenon DEF LeavingQueue
  <2>2. CASE i # n + 1
    <3>1. i \in DOMAIN fs /\ gs[i] = fs[i]
      BY <1>5, <2>2
    <3>2. LeavingQueue(i, cs, fs)
      BY <3>1, Zenon DEF Queues
    <3>3. Range(fs[i].queue) \cap Range(q) = {}
      BY <1>1, <3>1 DEF TableQueue
    <3>4. \A j \in DOMAIN gs \ {i} : Range(fs[i].queue) \cap Range(gs[j].queue) = {}
      BY <1>5, <3>2, <3>3, Zenon DEF LeavingQueue
    <3> QED
      BY <3>1, <3>2, <3>4, Zenon DEF LeavingQueue
  <2> QED
    BY <2>1, <2>2
<1>8. ASSUME NEW c \in Callers, cs[c].pc = "queued"
      PROVE  OnAQueue(c, e, gs)
  <2>1. OnAQueue(c, d, fs)
    BY <1>8, Zenon DEF Queues
  <2>2. CASE \E i \in DOMAIN fs : c \in Range(fs[i].queue)
    BY <1>5, <2>2, Zenon DEF OnAQueue
  <2>3. ASSUME NEW j \in Creating(d), c \in Range(d.creator[j].queue)
        PROVE  OnAQueue(c, e, gs)
    <3>1. CASE j = k
      BY <1>5, <2>3, <3>1, Zenon DEF OnAQueue, q
    <3>2. CASE j # k
      BY <2>3, <3>2, Zenon DEF OnAQueue, Departs
    <3> QED
      BY <3>1, <3>2
  <2> QED
    BY <2>1, <2>2, <2>3, Zenon DEF OnAQueue
<1> QED
  BY <1>4, <1>6, <1>7, <1>8, Zenon DEF Queues

\* The callers in H are answered: the j-th creator that is left was the o[j]-th,
\* and its queue has lost no other caller.
Answers(cs, es, fs, gs, o, H) ==
    /\ es \in [Callers -> CallerType] /\ gs \in Seq(LeavingType)
    /\ \A c \in Callers : IF c \in H THEN es[c].pc = "idle" ELSE es[c] = cs[c]
    /\ \A j \in DOMAIN gs : /\ o[j] \in DOMAIN fs /\ IsInjective(gs[j].queue)
                            /\ gs[j].for = fs[o[j]].for
                            /\ Range(gs[j].queue) = Range(fs[o[j]].queue) \ H
    /\ \A i, j \in DOMAIN gs : o[i] = o[j] => i = j
    /\ \A i \in DOMAIN fs : \/ Range(fs[i].queue) \subseteq H
                            \/ \E j \in DOMAIN gs : o[j] = i
    /\ \A c \in H : \E i \in DOMAIN fs : c \in Range(fs[i].queue)

LEMMA CallersAnswered ==
    ASSUME NEW d, NEW cs, NEW es, NEW fs, NEW gs, NEW o, NEW H, Queues(d, cs, fs),
           Answers(cs, es, fs, gs, o, H)
    PROVE  Queues(d, es, gs)
<1>1. ASSUME NEW k \in Creating(d)
      PROVE  TableQueue(d.creator[k].queue, k, es, gs)
  <2> DEFINE q == d.creator[k].queue
  <2>1. TableQueue(q, k, cs, fs)
    BY Zenon DEF Queues
  <2> HIDE DEF q
  <2>2. Range(q) \cap H = {}
    BY <2>1, Zenon DEF TableQueue, Answers
  <2>3. \A c \in Range(q) : c \in Callers /\ es[c] = cs[c]
    BY <2>1, <2>2 DEF TableQueue, Answers
  <2>4. \A j \in DOMAIN gs : Range(q) \cap Range(gs[j].queue) = {}
    BY <2>1 DEF TableQueue, Answers
  <2> QED
    BY <2>1, <2>3, <2>4, Zenon DEF TableQueue, q
<1>2. ASSUME NEW j \in DOMAIN gs
      PROVE  LeavingQueue(j, es, gs)
  <2> DEFINE q == gs[j].queue
  <2>1. /\ o[j] \in DOMAIN fs /\ IsInjective(q) /\ gs[j].for = fs[o[j]].for
        /\ Range(q) = Range(fs[o[j]].queue) \ H
    BY Zenon DEF Answers
  <2> HIDE DEF q
  <2>2. LeavingQueue(o[j], cs, fs)
    BY <2>1, Zenon DEF Queues
  <2>3. \A c \in Range(q) : c \in Callers /\ es[c] = cs[c]
    BY SMTT(20), <2>1, <2>2 DEF LeavingQueue, Answers
  <2>4. \A c \in Range(q) : /\ c \in Callers /\ es[c].pc = "queued"
                            /\ gs[j].for # << >> => gs[j].for = es[c].key
    BY SMTT(20), <2>1, <2>2, <2>3 DEF LeavingQueue
  <2>5. ASSUME NEW i \in DOMAIN gs \ {j}
        PROVE  Range(q) \cap Range(gs[i].queue) = {}
    <3>1. o[i] # o[j] /\ o[i] \in DOMAIN fs /\ Range(gs[i].queue) \subseteq Range(fs[o[i]].queue)
      BY DEF Answers
    <3> QED
      BY <2>1, <2>2, <3>1 DEF LeavingQueue
  <2> QED
    BY <2>1, <2>4, <2>5, Zenon DEF LeavingQueue, q
<1>3. ASSUME NEW c \in Callers, es[c].pc = "queued"
      PROVE  OnAQueue(c, d, gs)
  <2>1. c \notin H /\ es[c] = cs[c]
    BY <1>3 DEF Answers
  <2>2. OnAQueue(c, d, fs)
    BY <1>3, <2>1, Zenon DEF Queues
  <2>3. CASE \E k \in Creating(d) : c \in Range(d.creator[k].queue)
    BY <2>3, Zenon DEF OnAQueue
  <2>4. ASSUME NEW i \in DOMAIN fs, c \in Range(fs[i].queue)
        PROVE  OnAQueue(c, d, gs)
    <3>1. PICK j \in DOMAIN gs : o[j] = i
      BY <2>1, <2>4 DEF Answers
    <3>2. c \in Range(gs[j].queue)
      BY SMTT(20), <2>1, <2>4, <3>1 DEF Answers
    <3> QED
      BY <3>2, Zenon DEF OnAQueue
  <2> QED
    BY <2>2, <2>3, <2>4, Zenon DEF OnAQueue
<1>4. \A c \in Callers : es[c].pc # "idle" => es[c].key \in Keys
  BY DEF Answers, Queues
<1>5. es \in [Callers -> CallerType] /\ gs \in Seq(LeavingType)
  BY Zenon DEF Answers
<1> QED
  BY <1>1, <1>2, <1>3, <1>4, <1>5, Zenon DEF Queues

\* One turn of the callback loop of s_on_request_finished.
LEMMA CallbackEffect ==
    ASSUME NEW d, NEW cs, NEW fs, Queues(d, cs, fs), NEW i \in DOMAIN fs, Len(fs[i].queue) > 1
    PROVE  Queues(d, [cs EXCEPT ![Head(fs[i].queue)] = [pc |-> "idle", key |-> << >>, stamp |-> 0]],
                     [fs EXCEPT ![i].queue = Tail(@)])
<1> DEFINE q == fs[i].queue
           h == Head(q)
           es == [cs EXCEPT ![h] = [pc |-> "idle", key |-> << >>, stamp |-> 0]]
           gs == [fs EXCEPT ![i].queue = Tail(@)]
           o == [j \in DOMAIN fs |-> j]
<1>1. /\ fs \in Seq(LeavingType) /\ cs \in [Callers -> CallerType] /\ fs[i] \in LeavingType
      /\ q \in Seq(Callers) /\ IsInjective(q) /\ \A j \in DOMAIN fs : LeavingQueue(j, cs, fs)
  <2>1. fs \in Seq(LeavingType) /\ cs \in [Callers -> CallerType] /\ LeavingQueue(i, cs, fs)
        /\ \A j \in DOMAIN fs : LeavingQueue(j, cs, fs)
    BY Zenon DEF Queues
  <2>2. fs[i] \in LeavingType
    BY <2>1
  <2> QED
    BY <2>1, <2>2, Zenon DEF LeavingType, LeavingQueue
<1>2. /\ h \in Range(q) /\ h \in Callers /\ Tail(q) \in Seq(Callers) /\ IsInjective(Tail(q))
      /\ Range(Tail(q)) = Range(q) \ {h}
  <2> DEFINE w == Tail(q)
  <2>1. /\ w \in Seq(Callers) /\ Len(q) \in Nat /\ Len(w) = Len(q) - 1 /\ h = q[1]
        /\ DOMAIN q = 1..Len(q) /\ DOMAIN w = 1..(Len(q) - 1)
        /\ \A a \in 1..(Len(q) - 1) : w[a] = q[a + 1]
    BY <1>1
  <2>2. \A a, b \in DOMAIN q : q[a] = q[b] => a = b
    BY <1>1 DEF IsInjective
  <2> HIDE DEF w, h, q
  <2>3. h \in Range(q) /\ h \in Callers
    <3>1. 1 \in DOMAIN q
      BY <2>1 DEF q
    <3> QED
      BY <1>1, <2>1, <3>1 DEF Range
  <2>4. \A a \in DOMAIN w : a \in Int /\ a + 1 \in DOMAIN q /\ a + 1 # 1 /\ w[a] = q[a + 1]
    BY <2>1
  <2>5. \A a \in DOMAIN q : a # 1 => a - 1 \in DOMAIN w /\ w[a - 1] = q[a]
    BY <2>1
  <2>6. 1 \in DOMAIN q
    BY <2>1 DEF q
  <2>7. IsInjective(w)
    <3> SUFFICES ASSUME NEW a \in DOMAIN w, NEW b \in DOMAIN w, w[a] = w[b]
                 PROVE  a = b
      BY DEF IsInjective
    <3>1. a + 1 = b + 1
      BY <2>2, <2>4
    <3> QED
      BY <2>4, <3>1
  <2>8. ASSUME NEW a \in DOMAIN w
        PROVE  w[a] \in Range(q) \ {h}
    <3>1. q[a + 1] # q[1] /\ q[a + 1] \in Range(q)
      BY <2>2, <2>4, <2>6 DEF Range
    <3> QED
      BY <2>1, <2>4, <3>1
  <2>9. ASSUME NEW a \in DOMAIN q, q[a] # h
        PROVE  q[a] \in Range(w)
    BY <2>1, <2>5, <2>9 DEF Range
  <2>10. Range(w) = Range(q) \ {h}
    BY <2>8, <2>9 DEF Range
  <2> QED
    BY <2>1, <2>3, <2>7, <2>10 DEF w
<1>3. es \in [Callers -> CallerType] /\ es[h].pc = "idle"
      /\ \A c \in Callers : c # h => es[c] = cs[c]
  BY <1>1, <1>2, Zenon DEF CallerType
<1>4. /\ gs \in Seq(LeavingType) /\ DOMAIN gs = DOMAIN fs
      /\ gs[i].queue = Tail(q) /\ gs[i].for = fs[i].for /\ \A j \in DOMAIN fs : j # i => gs[j] = fs[j]
  <2> DEFINE f == [fs[i] EXCEPT !.queue = Tail(q)]
  <2>1. f \in LeavingType /\ f.queue = Tail(q) /\ f.for = fs[i].for
    BY <1>1, <1>2, Zenon DEF LeavingType
  <2>2. gs = [fs EXCEPT ![i] = f]
    OBVIOUS
  <2> HIDE DEF f, gs, q
  <2> QED
    BY <1>1, <2>1, <2>2
<1> HIDE DEF es, gs, h, q
<1>5. ASSUME NEW j \in DOMAIN fs, j # i
      PROVE  h \notin Range(fs[j].queue) /\ IsInjective(fs[j].queue)
  BY <1>1, <1>2, <1>5, Zenon DEF LeavingQueue, q
<1>6. Answers(cs, es, fs, gs, o, {h})
  <2>1. \A j \in DOMAIN gs : /\ o[j] \in DOMAIN fs /\ IsInjective(gs[j].queue)
                             /\ gs[j].for = fs[o[j]].for
                             /\ Range(gs[j].queue) = Range(fs[o[j]].queue) \ {h}
    BY <1>2, <1>4, <1>5 DEF q
  <2>2. /\ \A a, b \in DOMAIN gs : o[a] = o[b] => a = b
        /\ \A a \in DOMAIN fs : \E j \in DOMAIN gs : o[j] = a
    BY <1>4
  <2>3. \E a \in DOMAIN fs : h \in Range(fs[a].queue)
    BY <1>2 DEF q
  <2>4. \A c \in Callers : IF c \in {h} THEN es[c].pc = "idle" ELSE es[c] = cs[c]
    BY <1>3
  <2>5. \A c \in {h} : \E a \in DOMAIN fs : c \in Range(fs[a].queue)
    BY <2>3
  <2>6. \A a \in DOMAIN fs : \/ Range(fs[a].queue) \subseteq {h}
                             \/ \E j \in DOMAIN gs : o[j] = a
    BY <2>2
  <2> HIDE DEF o
  <2> QED
    BY <1>3, <1>4, <2>1, <2>2, <2>4, <2>5, <2>6, Zenon DEF Answers
<1>7. Queues(d, es, gs)
  BY <1>6, CallersAnswered, Zenon
<1> QED
  BY <1>7 DEF es, gs, h, q

\* The last turn, after which the creator is destroyed.
LEMMA LastCallbackEffect ==
    ASSUME NEW d, NEW cs, NEW fs, Queues(d, cs, fs), NEW i \in DOMAIN fs, Len(fs[i].queue) <= 1,
           NEW es, es = IF fs[i].queue = << >> THEN cs
                        ELSE [cs EXCEPT ![Head(fs[i].queue)] =
                                          [pc |-> "idle", key |-> << >>, stamp |-> 0]]
    PROVE  Queues(d, es, WithoutAt(fs, i)) /\ Len(WithoutAt(fs, i)) = Len(fs) - 1
<1> DEFINE q == fs[i].queue
           H == Range(q)
           gs == WithoutAt(fs, i)
           n == Len(fs)
           o == [j \in 1..(n - 1) |-> IF j < i THEN j ELSE j + 1]
<1>1. /\ fs \in Seq(LeavingType) /\ cs \in [Callers -> CallerType] /\ fs[i] \in LeavingType
      /\ q \in Seq(Callers) /\ \A j \in DOMAIN fs : LeavingQueue(j, cs, fs)
  <2>1. fs \in Seq(LeavingType) /\ cs \in [Callers -> CallerType]
        /\ \A j \in DOMAIN fs : LeavingQueue(j, cs, fs)
    BY Zenon DEF Queues
  <2>2. fs[i] \in LeavingType
    BY <2>1
  <2> QED
    BY <2>1, <2>2, Zenon DEF LeavingType
<1>2. n \in Nat /\ DOMAIN fs = 1..n /\ i \in 1..n
  BY <1>1
<1>3. /\ gs \in Seq(LeavingType) /\ Len(gs) = n - 1 /\ DOMAIN gs = 1..(n - 1)
      /\ \A j \in 1..(n - 1) : gs[j] = IF j < i THEN fs[j] ELSE fs[j + 1]
  BY <1>1, WithoutAtType
<1>4. /\ es \in [Callers -> CallerType]
      /\ \A c \in Callers : IF c \in H THEN es[c].pc = "idle" ELSE es[c] = cs[c]
  <2>1. CASE q = << >>
    <3>1. H = {} /\ es = cs
      BY <2>1 DEF Range
    <3> QED
      BY <1>1, <3>1
  <2>2. CASE q # << >>
    <3>1. Len(q) = 1
      <4>1. Len(q) \in Nat /\ Len(q) <= 1
        BY <1>1
      <4>2. Len(q) # 0
        <5> HIDE DEF q
        <5> QED
          BY <1>1, <2>2
      <4>3. \A m \in Nat : m <= 1 /\ m # 0 => m = 1
        BY Z3
      <4> QED
        BY <4>1, <4>2, <4>3, Zenon
    <3>2. H = {Head(q)} /\ Head(q) \in Callers
      <4>1. DOMAIN q = {1} /\ Head(q) = q[1] /\ q[1] \in Callers
        BY <1>1, <3>1
      <4> HIDE DEF q
      <4> QED
        BY <4>1 DEF Range
    <3>3. es = [cs EXCEPT ![Head(q)] = [pc |-> "idle", key |-> << >>, stamp |-> 0]]
      BY <2>2
    <3>4. [pc |-> "idle", key |-> << >>, stamp |-> 0] \in CallerType
      BY DEF CallerType
    <3>5. [pc |-> "idle", key |-> << >>, stamp |-> 0].pc = "idle"
      OBVIOUS
    <3> HIDE DEF H, q
    <3> QED
      BY <1>1, <3>2, <3>3, <3>4, <3>5, Zenon
  <2> QED
    BY <2>1, <2>2
<1>5. \A j \in 1..(n - 1) : o[j] \in DOMAIN fs /\ o[j] # i /\ gs[j] = fs[o[j]]
  BY <1>2, <1>3
<1>6. \A a, b \in 1..(n - 1) : o[a] = o[b] => a = b
  BY <1>2
<1>7. \A a \in DOMAIN fs : a # i => \E j \in 1..(n - 1) : o[j] = a
  <2> SUFFICES ASSUME NEW a \in 1..n, a # i
               PROVE  \E j \in 1..(n - 1) : o[j] = a
    BY <1>2
  <2>1. CASE a < i
    <3>1. a \in 1..(n - 1) /\ o[a] = a
      BY <1>2, <2>1
    <3> QED
      BY <3>1
  <2>2. CASE a > i
    <3>1. a - 1 \in 1..(n - 1) /\ o[a - 1] = a
      BY <1>2, <2>2
    <3> QED
      BY <3>1
  <2> QED
    BY <1>2, <2>1, <2>2
<1> HIDE DEF o, gs
<1>8. ASSUME NEW j \in DOMAIN fs, j # i
      PROVE  H \cap Range(fs[j].queue) = {} /\ IsInjective(fs[j].queue)
  BY <1>1, <1>8, Zenon DEF LeavingQueue
<1> HIDE DEF H
<1>9. \A j \in DOMAIN gs : /\ o[j] \in DOMAIN fs /\ IsInjective(gs[j].queue)
                           /\ gs[j].for = fs[o[j]].for
                           /\ Range(gs[j].queue) = Range(fs[o[j]].queue) \ H
  BY <1>3, <1>5, <1>8
<1>10. /\ \A a \in DOMAIN fs : \/ Range(fs[a].queue) \subseteq H
                               \/ \E j \in DOMAIN gs : o[j] = a
       /\ \A c \in H : \E a \in DOMAIN fs : c \in Range(fs[a].queue)
  BY <1>3, <1>7, Zenon DEF H
<1>11. \A a, b \in DOMAIN gs : o[a] = o[b] => a = b
  BY <1>3, <1>6, Zenon
<1>12. Answers(cs, es, fs, gs, o, H)
  BY <1>3, <1>4, <1>9, <1>10, <1>11, Zenon DEF Answers
<1>13. Queues(d, es, gs)
  BY <1>12, CallersAnswered, Zenon
<1> QED
  BY <1>3, <1>13 DEF gs

-----------------------------------------------------------------------------
LEMMA InitInv == Init => IInv
<1> SUFFICES ASSUME Init
             PROVE  IInv
  OBVIOUS
<1>1. PICK n \in CacheCapacities :
          synced = [cache |-> << >>, capacity |-> n,
                    session |-> [k \in Keys |-> NoSession],
                    creator |-> [k \in Keys |-> NoCreator],
                    destroying |-> FALSE]
  BY Zenon DEF Init
<1>2. n \in Nat \ {0} /\ MaxTime \in Nat
  BY ProviderAssumption
<1>3. synced \in DataType
  BY <1>1, <1>2 DEF DataType
<1>4. /\ synced.cache = << >> /\ synced.capacity = n /\ synced.destroying = FALSE
      /\ \A k \in Keys : synced.session[k] = NoSession /\ synced.creator[k] = NoCreator
  BY <1>1
<1>5. Creating(synced) = {} /\ Cached(synced) = {}
  BY <1>4 DEF Creating, Cached
<1>6. DataInv(synced)
  <2>1. IsInjective(<< >>) /\ Range(<< >>) = {}
    BY DEF IsInjective, Range
  <2>2. Len(synced.cache) <= synced.capacity
    BY <1>2, <1>4
  <2>3. \A k \in Keys : Linked(k, synced.session[k], synced.creator[k])
    BY <1>4 DEF Linked
  <2> QED
    BY <1>3, <1>4, <1>5, <2>1, <2>2, <2>3 DEF DataInv, Consistent
<1>7. QueueInv
  <2>1. /\ caller \in [Callers -> CallerType] /\ \A c \in Callers : caller[c].pc = "idle"
        /\ finishing \in Seq(LeavingType) /\ DOMAIN finishing = {}
    BY DEF Init, CallerType
  <2> QED
    BY <1>5, <2>1, Zenon DEF QueueInv, Queues
<1>8. RefInv
  <2>1. Cardinality(Creating(synced)) = 0 /\ Len(finishing) = 0 /\ internal_ref = 1 /\ cleanup = "none"
    BY <1>5, FS_EmptySet, Zenon DEF Init
  <2>2. internal_ref = (IF cleanup = "done" THEN 0 ELSE 1)
                         + Cardinality(Creating(synced)) + Len(finishing)
    BY <2>1
  <2>3. freed = FALSE /\ owned = TRUE /\ \A c \in Callers : caller[c].pc # "called"
    BY DEF Init
  <2>4. internal_ref # 0
    BY <2>1
  <2> QED
    BY <1>4, <2>1, <2>2, <2>3, <2>4, Zenon DEF RefInv
<1>9. TaskInv
  BY <1>2 DEF TaskInv, Init, Scheduled
<1> QED
  BY <1>6, <1>7, <1>8, <1>9 DEF IInv

LEMMA TickInv == IInv /\ Tick => IInv'
<1> SUFFICES ASSUME IInv, Tick
             PROVE  IInv'
  OBVIOUS
<1>1. DataInv(synced)' /\ QueueInv' /\ RefInv'
  BY DEF IInv, Tick, QueueInv, RefInv
<1>2. TaskInv'
  BY ProviderAssumption DEF IInv, Tick, TaskInv
<1> QED
  BY <1>1, <1>2 DEF IInv

LEMMA GetCredsInv == ASSUME NEW c \in Callers, IInv, GetCreds(c) PROVE IInv'
<1>1. /\ synced' = synced /\ finishing' = finishing /\ owned /\ caller[c].pc = "idle"
      /\ UNCHANGED <<now, original, bg, internal_ref, owned, cleanup, freed>>
  BY DEF GetCreds
<1>2. QueueInv' /\ \A b \in Callers : caller'[b].pc = "called" => owned
  <2>1. CASE caller' = caller
    BY <1>1, <2>1 DEF IInv, QueueInv
  <2>2. ASSUME NEW h \in Hosts \ {EmptyHost}, NEW o \in Creds,
               caller' = [caller EXCEPT ![c] = [pc |-> "called", key |-> HashKey(o, h), stamp |-> now]]
        PROVE  QueueInv'
    <3> DEFINE x == [pc |-> "called", key |-> HashKey(o, h), stamp |-> now]
    <3>1. HashKey(o, h) \in Keys
      BY DEF HashKey, Keys
    <3>2. x \in CallerType /\ x.pc = "called" /\ x.key \in Keys
      BY <3>1 DEF CallerType, IInv, TaskInv
    <3> HIDE DEF x
    <3>3. Queues(synced, [caller EXCEPT ![c] = x], finishing)
      BY <1>1, <3>2, CallerMoves DEF IInv, QueueInv
    <3> QED
      BY <1>1, <2>2, <3>3 DEF QueueInv, x
  <2> QED
    BY <1>1, <2>1, <2>2 DEF GetCreds
<1> QED
  BY <1>1, <1>2, Zenon DEF IInv, RefInv, TaskInv

LEMMA GetCredsLockedInv == ASSUME NEW c \in Callers, IInv, GetCredsLocked(c) PROVE IInv'
<1> DEFINE k == caller[c].key
           found == CacheFind(synced, k)
           hit == [found EXCEPT !.session[k].inactive = FALSE]
           valid == found.session[k] # NoSession /\ IsValid(found.session[k], caller[c].stamp)
           g == CacheRemove(found, k)
           e == QueueCallback(g, k, c)
<1>1. /\ DataInv(synced) /\ Queues(synced, caller, finishing) /\ caller[c].pc = "called" /\ k \in Keys
      /\ UNCHANGED <<now, finishing, original, bg, owned, cleanup, freed>>
  <2>1. /\ DataInv(synced) /\ Queues(synced, caller, finishing) /\ caller[c].pc = "called"
        /\ UNCHANGED <<now, finishing, original, bg, owned, cleanup, freed>>
    BY Zenon DEF IInv, QueueInv, GetCredsLocked
  <2> QED
    BY <2>1 DEF Queues
<1>2. owned /\ owned' /\ TaskInv'
  BY <1>1 DEF IInv, RefInv, TaskInv
<1>3. \/ valid /\ synced' = hit /\ caller' = Answered(c) /\ UNCHANGED internal_ref
      \/ /\ ~valid /\ synced' = e /\ caller' = [caller EXCEPT ![c].pc = "queued"]
         /\ internal_ref' = internal_ref + (IF synced.creator[k] = NoCreator THEN 1 ELSE 0)
  BY Zenon DEF GetCredsLocked
<1> HIDE DEF k
<1>4. /\ DataInv(found) /\ Same(synced, found) /\ found.session = synced.session
  BY <1>1, FindEffect, Zenon
<1>5. CASE valid /\ synced' = hit /\ caller' = Answered(c) /\ UNCHANGED internal_ref
  <2>1. DataInv(synced') /\ Same(synced, synced')
    <3>1. synced.session[k] # NoSession
      BY <1>4, <1>5, Zenon
    <3> QED
      BY <1>1, <1>5, <3>1, HitEffect, Zenon
  <2> HIDE DEF hit, valid
  <2>2. Queues(synced', caller, finishing)
    BY <1>1, <2>1, QueuesKept, Zenon DEF Same
  <2> DEFINE x == [pc |-> "idle", key |-> << >>, stamp |-> 0]
  <2>3. x \in CallerType /\ x.pc = "idle"
    BY DEF CallerType
  <2>4. caller' = [caller EXCEPT ![c] = x]
    BY <1>5 DEF Answered
  <2> HIDE DEF x
  <2>5. Queues(synced', caller', finishing)
    BY <1>1, <2>2, <2>3, <2>4, CallerMoves, Zenon
  <2>6. Creating(synced)' = Creating(synced) /\ synced'.destroying = synced.destroying
    BY SMTT(20), <2>1 DEF Same
  <2>7. RefInv'
    BY <1>1, <1>2, <1>5, <2>6 DEF IInv, RefInv
  <2> QED
    BY <1>1, <1>2, <2>1, <2>5, <2>7 DEF IInv, QueueInv
<1>6. CASE /\ ~valid /\ synced' = e /\ caller' = [caller EXCEPT ![c].pc = "queued"]
           /\ internal_ref' = internal_ref + (IF synced.creator[k] = NoCreator THEN 1 ELSE 0)
  <2> HIDE DEF found, hit, valid
  <2>1. /\ DataInv(g) /\ Same(found, g) /\ g.session[k] = NoSession
    <3>1. found.session \in [Keys -> SessionType \cup {NoSession}] /\ Consistent(found)
      BY <1>4 DEF DataInv, Consistent, DataType
    <3>2. /\ DataInv(g) /\ Same(found, g) /\ g.session = [found.session EXCEPT ![k] = NoSession]
      BY <1>1, <1>4, <3>1, RemoveEffect, RemoveKeeps, Zenon
    <3> HIDE DEF g
    <3> QED
      BY SMTT(20), <1>1, <3>1, <3>2
  <2> HIDE DEF g
  <2>2. Queues(g, caller, finishing)
    <3>1. Queues(found, caller, finishing)
      BY <1>1, <1>4, QueuesKept, Zenon DEF Same
    <3> QED
      BY <2>1, <3>1, QueuesKept, Zenon DEF Same
  <2> DEFINE q == IF g.creator[k] = NoCreator THEN << >> ELSE g.creator[k].queue
  <2>3. /\ DataInv(e) /\ e.destroying = g.destroying /\ e.creator[k] # NoCreator
        /\ e.creator[k].queue = Append(q, c)
        /\ \A j \in Keys \ {k} : e.creator[j] = g.creator[j]
    BY <1>1, <2>1, QueueEffect, Zenon
  <2>4. q \in Seq(Callers)
    <3>1. g.creator[k] \in CreatorType \cup {NoCreator}
      BY <1>1, <2>1 DEF DataInv, Consistent, DataType
    <3> QED
      BY SMTT(20), <3>1 DEF CreatorType
  <2>5. q = IF k \in Creating(g) THEN g.creator[k].queue ELSE << >>
    BY SMTT(20), <1>1 DEF Creating
  <2> HIDE DEF q, e
  <2>6. Joins(g, e, k, q, c)
    BY <1>1, <2>3, <2>5 DEF Joins, Creating
  <2>7. Queues(e, caller', finishing)
    BY <1>1, <1>6, <2>2, <2>4, <2>6, CallerQueues, Zenon DEF k
  <2>8. Creating(g) = Creating(synced) /\ e.destroying = synced.destroying
    BY <1>4, <2>1, <2>3, Zenon DEF Same
  <2>9. g.creator[k] = NoCreator <=> synced.creator[k] = NoCreator
    BY <1>1, <2>8 DEF Creating
  <2>10. /\ Cardinality(Creating(synced)) \in Nat
         /\ Cardinality(Creating(e)) = Cardinality(Creating(synced))
                                         + (IF synced.creator[k] = NoCreator THEN 1 ELSE 0)
    <3>1. /\ Cardinality(Creating(g)) \in Nat
          /\ e.creator[k] # NoCreator /\ g.creator[k] # NoCreator => Creating(e) = Creating(g)
          /\ e.creator[k] # NoCreator /\ g.creator[k] = NoCreator =>
                Cardinality(Creating(e)) = Cardinality(Creating(g)) + 1
      BY <1>1, <2>3, CreatingCounts, Zenon
    <3> QED
      BY <2>3, <2>8, <2>9, <3>1
  <2>11. RefInv'
    <3>1. internal_ref' = (IF cleanup' = "done" THEN 0 ELSE 1)
                             + Cardinality(Creating(synced')) + Len(finishing')
      BY <1>1, <1>6, <2>10 DEF IInv, RefInv
    <3>2. internal_ref # 0 /\ internal_ref' # 0
      BY <1>1, <1>2, <1>6, <2>10 DEF IInv, RefInv, Queues
    <3> QED
      BY <1>1, <1>2, <1>6, <2>8, <3>1, <3>2, Zenon DEF IInv, RefInv
  <2> QED
    BY <1>1, <1>2, <1>6, <2>3, <2>7, <2>11 DEF IInv, QueueInv
<1> QED
  BY <1>3, <1>5, <1>6

LEMMA OnRequestFinishedInv == ASSUME NEW k \in Keys, IInv, OnRequestFinished(k) PROVE IInv'
<1> DEFINE q == synced.creator[k].queue
<1>1. /\ DataInv(synced) /\ Queues(synced, caller, finishing) /\ synced.creator[k] # NoCreator
      /\ UNCHANGED <<now, caller, original, bg, internal_ref, owned, cleanup, freed>>
  BY Zenon DEF IInv, QueueInv, OnRequestFinished
<1>2. synced.creator[k] \in CreatorType /\ q \in Seq(Callers) /\ synced.creator[k].with = k
  <2>1. synced.creator[k] \in CreatorType /\ Linked(k, synced.session[k], synced.creator[k])
    BY <1>1 DEF DataInv, Consistent, DataType
  <2> QED
    BY <1>1, <2>1 DEF Linked, CreatorType
<1>3. PICK error \in BOOLEAN, body \in {"none", "partial", "complete"}, lifetime \in Lifetimes :
          LET result == SessionResult(k, error, body, lifetime) IN
          /\ synced' = CriticalSection(k, result)
          /\ finishing' = Append(finishing, [queue |-> q, for |-> IssuedFor(result)])
  BY Zenon DEF OnRequestFinished
<1> DEFINE result == SessionResult(k, error, body, lifetime)
           r == IssuedFor(result)
<1>4. /\ result.ok \in BOOLEAN /\ r \in {k, << >>}
      /\ result.ok => result.creds \in [for : Keys, expire : Nat] /\ result.creds.for = k
  <2>1. now + lifetime \in Nat
    BY SMTT(20), ProviderAssumption DEF IInv, TaskInv
  <2>2. CASE result = Failure
    BY <2>2 DEF Failure, IssuedFor
  <2>3. CASE result = Success(Credentials(k, now + lifetime))
    BY <2>1, <2>3 DEF Success, Credentials, IssuedFor
  <2> QED
    BY SMTT(20), <1>2, <2>2, <2>3 DEF SessionResult, ParseXml
<1>5. synced' = CriticalSection(k, result) /\ finishing' = Append(finishing, [queue |-> q, for |-> r])
  BY <1>3
<1> HIDE DEF result, r
<1>6. Leaves(synced, k, synced')
  <2>1. Leaves(synced, k, CriticalSection(k, result))
    BY <1>1, <1>4, CriticalEffect
  <2> QED
    BY <1>5, <2>1, Zenon
<1>7. /\ k \in Creating(synced) /\ Creating(synced') = Creating(synced) \ {k}
      /\ \A j \in Creating(synced') : synced'.creator[j].queue = synced.creator[j].queue
  BY <1>1, <1>6 DEF Leaves, Creating
<1>8. Departs(synced, synced', k, finishing, finishing', r)
  BY <1>5, <1>7, Zenon DEF Departs
<1>9. Queues(synced', caller, finishing')
  BY <1>1, <1>2, <1>4, <1>8, CreatorLeaves
<1>10. /\ Cardinality(Creating(synced)) \in Nat
       /\ Cardinality(Creating(synced')) = Cardinality(Creating(synced)) - 1
  BY <1>1, <1>6, CreatingCounts, Zenon DEF Leaves
<1>11. Len(finishing) \in Nat /\ Len(finishing') = Len(finishing) + 1
  <2>1. finishing \in Seq(LeavingType)
    BY <1>1, Zenon DEF Queues
  <2> QED
    BY <1>5, <2>1
<1>12. internal_ref' = (IF cleanup' = "done" THEN 0 ELSE 1)
                          + Cardinality(Creating(synced')) + Len(finishing')
  BY <1>1, <1>10, <1>11 DEF IInv, RefInv
<1>13. RefInv'
  BY <1>1, <1>6, <1>12, Zenon DEF IInv, RefInv, Leaves
<1>14. DataInv(synced') /\ TaskInv'
  BY <1>1, <1>6, Zenon DEF IInv, TaskInv, Leaves
<1> QED
  BY <1>1, <1>9, <1>13, <1>14 DEF IInv, QueueInv

\* A reference is released: at zero the provider is freed.
LEMMA Released ==
    ASSUME NEW n \in Nat, internal_ref = n + 1, ReleaseInternalRef
    PROVE  internal_ref' = n /\ freed' \in BOOLEAN /\ (freed' <=> internal_ref' = 0)
<1>1. internal_ref' = n /\ (internal_ref = 1 <=> n = 0)
  BY DEF ReleaseInternalRef
<1>2. freed' = (internal_ref = 1)
  BY DEF ReleaseInternalRef
<1> QED
  BY <1>1, <1>2, Zenon

LEMMA CreatorFinishesInv == ASSUME NEW i \in DOMAIN finishing, IInv, CreatorFinishes(i) PROVE IInv'
<1> DEFINE q == finishing[i].queue
           es == [caller EXCEPT ![Head(q)] = [pc |-> "idle", key |-> << >>, stamp |-> 0]]
<1>1. /\ DataInv(synced) /\ Queues(synced, caller, finishing)
      /\ UNCHANGED <<now, synced, original, bg, owned, cleanup>>
      /\ caller' = IF q = << >> THEN caller ELSE es
      /\ \/ /\ Len(q) > 1 /\ finishing' = [finishing EXCEPT ![i].queue = Tail(@)]
            /\ UNCHANGED <<internal_ref, freed>>
         \/ Len(q) <= 1 /\ finishing' = WithoutAt(finishing, i) /\ ReleaseInternalRef
  BY Zenon DEF IInv, QueueInv, CreatorFinishes, InvokeCallbacks, Answered
<1>2. finishing \in Seq(LeavingType) /\ caller \in [Callers -> CallerType] /\ q \in Seq(Callers)
  <2>1. finishing \in Seq(LeavingType) /\ caller \in [Callers -> CallerType]
    BY <1>1, Zenon DEF Queues
  <2>2. finishing[i] \in LeavingType
    BY <2>1
  <2> QED
    BY <2>1, <2>2, Zenon DEF LeavingType
<1>3. /\ DataInv(synced') /\ TaskInv' /\ Creating(synced') = Creating(synced)
      /\ Cardinality(Creating(synced)) \in Nat
  <2>1. Cardinality(Creating(synced)) \in Nat
    BY KeysFinite, FS_Subset, FS_CardinalityType DEF Creating
  <2> QED
    BY <1>1, <2>1 DEF IInv, TaskInv
<1>4. \A c \in Callers : caller'[c].pc = "called" => caller[c].pc = "called"
  <2>1. CASE q = << >>
    BY <1>1, <2>1
  <2>2. CASE q # << >>
    <3>1. Head(q) \in Callers
      <4> HIDE DEF q
      <4> QED
        BY <1>2, <2>2
    <3>2. \A c \in Callers : IF c = Head(q) THEN es[c].pc = "idle" ELSE es[c] = caller[c]
      <4>1. [pc |-> "idle", key |-> << >>, stamp |-> 0].pc = "idle"
        OBVIOUS
      <4> HIDE DEF q
      <4> QED
        BY <1>2, <3>1, <4>1, Zenon
    <3> HIDE DEF q, es
    <3> QED
      BY <1>1, <2>2, <3>2
  <2> QED
    BY <2>1, <2>2
<1>5. CASE /\ Len(q) > 1 /\ finishing' = [finishing EXCEPT ![i].queue = Tail(@)]
           /\ UNCHANGED <<internal_ref, freed>>
  <2>1. q # << >>
    BY <1>5
  <2>2. QueueInv'
    BY <1>1, <1>5, <2>1, CallbackEffect, Zenon DEF QueueInv
  <2>3. Len(finishing') = Len(finishing)
    BY <1>2, <1>5
  <2> QED
    BY <1>1, <1>3, <1>4, <1>5, <2>2, <2>3, Zenon DEF IInv, RefInv
<1>6. CASE Len(q) <= 1 /\ finishing' = WithoutAt(finishing, i) /\ ReleaseInternalRef
  <2>1. QueueInv' /\ Len(finishing') = Len(finishing) - 1
    BY <1>1, <1>6, LastCallbackEffect, Zenon DEF QueueInv
  <2> DEFINE n == (IF cleanup = "done" THEN 0 ELSE 1)
                    + Cardinality(Creating(synced)) + Len(finishing) - 1
  <2>2. n \in Nat /\ internal_ref = n + 1
    BY <1>2, <1>3 DEF IInv, RefInv
  <2>3. internal_ref' = n /\ freed' \in BOOLEAN /\ (freed' <=> internal_ref' = 0)
    <3> HIDE DEF n
    <3> QED
      BY <1>6, <2>2, Released
  <2>4. internal_ref' = (IF cleanup' = "done" THEN 0 ELSE 1)
                           + Cardinality(Creating(synced')) + Len(finishing')
    BY <1>1, <1>2, <1>3, <2>1, <2>3
  <2>5. RefInv'
    BY <1>1, <1>4, <2>3, <2>4, Zenon DEF IInv, RefInv
  <2> QED
    BY <1>3, <2>1, <2>5 DEF IInv
<1> QED
  BY <1>1, <1>5, <1>6

\* s_refresh_session_list takes one reference for every creator it makes.
LEMMA RefreshSessionListInv ==
    ASSUME NEW creds \in Creds, IInv, RefreshSessionList(creds), ~freed,
           UNCHANGED <<now, finishing, caller, original, owned, cleanup, freed>>
    PROVE  DataInv(synced') /\ QueueInv' /\ RefInv'
<1>1. DataInv(synced) /\ Queues(synced, caller, finishing)
  BY Zenon DEF IInv, QueueInv
<1>2. CASE synced.destroying
  <2>1. synced' = synced /\ internal_ref' = internal_ref
    BY <1>2 DEF RefreshSessionList
  <2> QED
    BY <1>1, <2>1 DEF IInv, QueueInv, RefInv
<1>3. CASE ~synced.destroying
  <2> DEFINE A == Creating(synced)
             B == Creating(synced')
  <2>1. /\ synced' = Refreshed(creds, synced)
        /\ internal_ref' = internal_ref + Cardinality(B \ A)
    BY <1>3 DEF RefreshSessionList
  <2>2. DataInv(synced') /\ Keeps(synced, synced') /\ synced'.destroying = synced.destroying
    BY <1>1, <2>1, RefreshedEffect, Zenon
  <2>3. QueueInv'
    BY <1>1, <2>2, QueuesKept, Zenon DEF QueueInv
  <2>4. A \subseteq B /\ A \in SUBSET Keys /\ B \in SUBSET Keys
    BY <2>2 DEF Keeps, Creating
  <2> HIDE DEF A, B
  <2>5. IsFiniteSet(A) /\ IsFiniteSet(B) /\ Cardinality(A) \in Nat /\ Cardinality(B) \in Nat
    BY <2>4, KeysFinite, FS_Subset, FS_CardinalityType, Zenon
  <2>6. Cardinality(B \ A) = Cardinality(B) - Cardinality(A) /\ Cardinality(B \ A) \in Nat
    <3>1. B \cap A = A
      BY <2>4
    <3>2. IsFiniteSet(B \ A) /\ Cardinality(B \ A) = Cardinality(B) - Cardinality(B \cap A)
      BY <2>5, FS_Difference, Zenon
    <3>3. Cardinality(B \ A) \in Nat
      BY <3>2, FS_CardinalityType, Zenon
    <3> QED
      BY <3>1, <3>2, <3>3
  <2>7. internal_ref = (IF cleanup = "done" THEN 0 ELSE 1) + Cardinality(A) + Len(finishing)
    BY DEF IInv, RefInv, A
  <2>8. Len(finishing) \in Nat
    <3>1. finishing \in Seq(LeavingType)
      BY <1>1, Zenon DEF Queues
    <3> QED
      BY <3>1
  <2>9. internal_ref' = (IF cleanup' = "done" THEN 0 ELSE 1) + Cardinality(B) + Len(finishing')
    BY <2>1, <2>5, <2>6, <2>7, <2>8
  <2>10. internal_ref' # 0
    <3>1. internal_ref # 0 /\ internal_ref \in Nat
      BY <2>5, <2>7, <2>8 DEF IInv, RefInv
    <3> QED
      BY <2>1, <2>6, <3>1
  <2>11. RefInv'
    BY <2>2, <2>9, <2>10, Zenon DEF IInv, RefInv, B
  <2> QED
    BY <2>2, <2>3, <2>11
<1> QED
  BY <1>2, <1>3

LEMMA BgRefreshTaskInv == IInv /\ BgRefreshTask => IInv'
<1> SUFFICES ASSUME IInv, BgRefreshTask
             PROVE  IInv'
  OBVIOUS
<1>1. /\ ~freed /\ bg.task = "scheduled"
      /\ UNCHANGED <<now, finishing, caller, original, owned, cleanup, freed>>
  BY DEF BgRefreshTask
<1>2. CASE original = "static" /\ RefreshSessionList(DefaultCreds)
  <2>1. DataInv(synced') /\ QueueInv' /\ RefInv'
    BY <1>1, <1>2, RefreshSessionListInv, ProviderAssumption
  <2>2. /\ bg'.task \in {"idle", "scheduled"}
        /\ cleanup = "done" => bg'.task = "idle"
    BY <1>1, <1>2 DEF RefreshSessionList, Scheduled, IInv, TaskInv
  <2>3. TaskInv'
    BY SMTT(20), <1>1, <2>2 DEF IInv, TaskInv
  <2> QED
    BY <2>1, <2>3 DEF IInv
<1>3. CASE /\ original = "provider" /\ bg' \in {Scheduled, [task |-> "fetching", at |-> 0]}
           /\ UNCHANGED <<synced, internal_ref>>
  <2>1. DataInv(synced') /\ QueueInv' /\ RefInv'
    BY <1>1, <1>3 DEF IInv, QueueInv, RefInv
  <2>2. TaskInv'
    BY <1>1, <1>3 DEF IInv, TaskInv, Scheduled
  <2> QED
    BY <2>1, <2>2 DEF IInv
<1> QED
  BY <1>2, <1>3 DEF BgRefreshTask

LEMMA GetOriginalCredentialsCallbackInv == IInv /\ GetOriginalCredentialsCallback => IInv'
<1> SUFFICES ASSUME IInv, GetOriginalCredentialsCallback
             PROVE  IInv'
  OBVIOUS
<1>1. /\ ~freed /\ bg.task = "fetching"
      /\ UNCHANGED <<now, finishing, caller, original, owned, cleanup, freed>>
  BY DEF GetOriginalCredentialsCallback
<1>2. TaskInv'
  BY <1>1 DEF GetOriginalCredentialsCallback, RefreshSessionList, Scheduled, IInv, TaskInv
<1>3. DataInv(synced') /\ QueueInv' /\ RefInv'
  <2>1. CASE UNCHANGED <<synced, internal_ref>>
    BY <1>1, <2>1 DEF IInv, QueueInv, RefInv
  <2>2. ASSUME NEW creds \in Creds, RefreshSessionList(creds)
        PROVE  DataInv(synced') /\ QueueInv' /\ RefInv'
    BY <1>1, <2>2, RefreshSessionListInv
  <2> QED
    BY <2>1, <2>2 DEF GetOriginalCredentialsCallback
<1> QED
  BY <1>2, <1>3 DEF IInv

LEMMA ExternalDestroyInv == IInv /\ ExternalDestroy => IInv'
<1> SUFFICES ASSUME IInv, ExternalDestroy
             PROVE  IInv'
  OBVIOUS
<1> DEFINE e == CacheClear(synced)
<1>1. /\ DataInv(synced) /\ Queues(synced, caller, finishing) /\ owned /\ owned' = FALSE
      /\ synced' = [e EXCEPT !.destroying = TRUE] /\ cleanup' = "scheduled"
      /\ \A c \in Callers : caller[c].pc # "called"
      /\ UNCHANGED <<now, finishing, caller, original, bg, internal_ref, freed>>
  BY Zenon DEF IInv, QueueInv, ExternalDestroy
<1>2. DataInv(e) /\ Same(synced, e)
  BY <1>1, ClearEffect, Zenon
<1> HIDE DEF e
<1>3. /\ synced'.cache = e.cache /\ synced'.capacity = e.capacity /\ synced'.session = e.session
      /\ synced'.creator = e.creator /\ synced'.destroying = TRUE /\ synced' \in DataType
  BY <1>1, <1>2, Zenon DEF DataInv, Consistent, DataType
<1>4. Cached(synced') = Cached(e) /\ Creating(synced') = Creating(e)
  BY <1>3 DEF Cached, Creating
<1>5. DataInv(synced') /\ Keeps(synced, synced') /\ Creating(synced') = Creating(synced)
  BY <1>2, <1>3, <1>4, Zenon DEF DataInv, Consistent, Same, Keeps
<1>6. QueueInv'
  BY <1>1, <1>5, QueuesKept, Zenon DEF QueueInv
<1>7. cleanup = "none"
  BY <1>1 DEF IInv, RefInv
<1>8. RefInv'
  BY <1>1, <1>3, <1>5, <1>7, Zenon DEF IInv, RefInv
<1>9. TaskInv'
  BY <1>1 DEF IInv, TaskInv
<1> QED
  BY <1>5, <1>6, <1>8, <1>9 DEF IInv

LEMMA CleanUpBackgroundTaskInv == IInv /\ CleanUpBackgroundTask => IInv'
<1> SUFFICES ASSUME IInv, CleanUpBackgroundTask
             PROVE  IInv'
  OBVIOUS
<1>1. /\ cleanup = "scheduled" /\ cleanup' = "done" /\ ReleaseInternalRef
      /\ bg' = IF bg.task = "scheduled" THEN [task |-> "idle", at |-> 0] ELSE bg
      /\ UNCHANGED <<now, synced, finishing, caller, original, owned>>
  BY DEF CleanUpBackgroundTask
<1>2. DataInv(synced') /\ QueueInv'
  BY <1>1 DEF IInv, QueueInv
<1>3. TaskInv'
  BY <1>1 DEF IInv, TaskInv
<1> DEFINE n == Cardinality(Creating(synced)) + Len(finishing)
<1>4. /\ n \in Nat /\ internal_ref = n + 1
      /\ Cardinality(Creating(synced)) \in Nat /\ Len(finishing) \in Nat
  <2>1. Cardinality(Creating(synced)) \in Nat
    BY KeysFinite, FS_Subset, FS_CardinalityType DEF Creating
  <2>2. Len(finishing) \in Nat
    <3>1. finishing \in Seq(LeavingType)
      BY Zenon DEF IInv, QueueInv, Queues
    <3> QED
      BY <3>1
  <2> QED
    BY <1>1, <2>1, <2>2 DEF IInv, RefInv
<1>5. internal_ref' = n /\ freed' \in BOOLEAN /\ (freed' <=> internal_ref' = 0)
  <2> HIDE DEF n
  <2> QED
    BY <1>1, <1>4, Released
<1>6. internal_ref' = (IF cleanup' = "done" THEN 0 ELSE 1)
                         + Cardinality(Creating(synced')) + Len(finishing')
  BY <1>1, <1>4, <1>5
<1>7. RefInv'
  BY <1>1, <1>5, <1>6, Zenon DEF IInv, RefInv
<1> QED
  BY <1>2, <1>3, <1>7 DEF IInv

-----------------------------------------------------------------------------
\* Whatever the callers, the CreateSession calls, the refresh and the owner do
\* to the provider, in any order: its cache and table, the queues of callbacks,
\* internal_ref and the tasks stay in agreement.
THEOREM ProviderInvariant == Spec => []IInv
<1>1. IInv /\ [Next]_vars => IInv'
  <2> SUFFICES ASSUME IInv, [Next]_vars
               PROVE  IInv'
    OBVIOUS
  <2>1. CASE UNCHANGED vars
    BY <2>1 DEF vars, IInv, QueueInv, RefInv, TaskInv
  <2>2. CASE Next
    BY <2>2, TickInv, GetCredsInv, GetCredsLockedInv, OnRequestFinishedInv, CreatorFinishesInv,
       BgRefreshTaskInv, GetOriginalCredentialsCallbackInv, ExternalDestroyInv,
       CleanUpBackgroundTaskInv, Zenon DEF Next
  <2> QED
    BY <2>1, <2>2
<1> QED
  BY <1>1, InitInv, PTL DEF Spec

\* The cache, its sessions and the creators in flight always fit together, under
\* every interleaving of s_s3express_get_creds, s_on_request_finished, the
\* refresh and the destruction: the list is within its capacity and holds every
\* session once, and a session and its creator point at each other or not at all.
THEOREM CacheConsistent == Spec => []CacheIsConsistent
<1>1. IInv => CacheIsConsistent
  <2> SUFFICES ASSUME IInv
               PROVE  CacheIsConsistent
    OBVIOUS
  <2>1. /\ synced \in DataType /\ IsInjective(synced.cache) /\ Len(synced.cache) <= synced.capacity
        /\ Range(synced.cache) = Cached(synced)
        /\ \A k \in Keys : Linked(k, synced.session[k], synced.creator[k])
    BY Zenon DEF IInv, DataInv, Consistent
  <2>2. CreatorTracksSession
    BY <2>1, Zenon DEF CreatorTracksSession, Linked
  <2>3. ASSUME NEW k \in Keys, synced.session[k] # NoSession
        PROVE  {synced.session[k].inactive, synced.session[k].creator} \subseteq BOOLEAN
    <3>1. synced.session[k] \in SessionType
      BY <2>1, <2>3 DEF DataType
    <3> QED
      BY <3>1, Zenon DEF SessionType
  <2>4. \A c \in Callers : caller[c].pc \in {"idle", "called", "queued"}
    <3>1. caller \in [Callers -> CallerType]
      BY Zenon DEF IInv, QueueInv, Queues
    <3> QED
      BY <3>1 DEF CallerType
  <2>5. internal_ref \in Nat
    <3>1. Cardinality(Creating(synced)) \in Nat
      BY KeysFinite, FS_Subset, FS_CardinalityType DEF Creating
    <3>2. finishing \in Seq(LeavingType)
      BY Zenon DEF IInv, QueueInv, Queues
    <3> QED
      BY <3>1, <3>2 DEF IInv, RefInv
  <2>6. {owned, freed, synced.destroying} \subseteq BOOLEAN
    BY <2>1, Zenon DEF IInv, RefInv, DataType
  <2>7. TypeOK
    BY <2>1, <2>3, <2>4, <2>5, <2>6, Zenon DEF TypeOK, Cached, IInv, RefInv, TaskInv
  <2> QED
    BY <2>2, <2>7 DEF CacheIsConsistent
<1> QED
  BY <1>1, ProviderInvariant, PTL

\* Whoever waits on the same creator, a caller waits in exactly one queue, and
\* the answer that queue is given is of the host and the credentials the caller
\* asked for.
THEOREM AnswersAreExact == Spec => []EachCallerItsAnswer
<1>1. IInv => EachCallerItsAnswer
  <2> SUFFICES ASSUME IInv
               PROVE  EachCallerItsAnswer
    OBVIOUS
  <2>1. DataInv(synced) /\ Queues(synced, caller, finishing)
    BY Zenon DEF IInv, QueueInv
  <2>2. AnswerIsForTheCaller
    <3>1. \A k \in Keys : synced.session[k] # NoSession => synced.session[k].creds.for = k
      BY <2>1, Zenon DEF DataInv, Consistent, Linked
    <3>2. \A i \in DOMAIN finishing : finishing[i].for # << >> =>
             \A c \in Range(finishing[i].queue) : finishing[i].for = caller[c].key
      BY <2>1, Zenon DEF Queues, LeavingQueue
    <3> QED
      BY <3>1, <3>2 DEF AnswerIsForTheCaller
  <2>3. /\ \A k \in Creating(synced) : IsInjective(synced.creator[k].queue)
        /\ \A i \in DOMAIN finishing : IsInjective(finishing[i].queue)
    BY <2>1, Zenon DEF Queues, LeavingQueue, TableQueue
  <2>4. ASSUME NEW c \in Callers
        PROVE  LET inTable == {k \in Creating(synced) : c \in Range(synced.creator[k].queue)}
                   leaving == {i \in DOMAIN finishing : c \in Range(finishing[i].queue)}
               IN  Cardinality(inTable) + Cardinality(leaving) =
                     IF caller[c].pc = "queued" THEN 1 ELSE 0
    <3> DEFINE inTable == {k \in Creating(synced) : c \in Range(synced.creator[k].queue)}
               leaving == {i \in DOMAIN finishing : c \in Range(finishing[i].queue)}
    <3> SUFFICES Cardinality(inTable) + Cardinality(leaving) =
                   IF caller[c].pc = "queued" THEN 1 ELSE 0
      OBVIOUS
    <3>1. Cardinality({}) = 0 /\ \A x : Cardinality({x}) = 1
      BY FS_EmptySet, FS_Singleton, Zenon
    <3>2. CASE caller[c].pc # "queued"
      <4>1. inTable = {} /\ leaving = {}
        BY <2>1, <3>2, NotQueued, Zenon
      <4> HIDE DEF inTable, leaving
      <4> QED
        BY <3>1, <3>2, <4>1
    <3>3. ASSUME NEW k \in inTable
          PROVE  inTable = {k} /\ leaving = {}
      <4>1. TableQueue(synced.creator[k].queue, k, caller, finishing) /\ k \in Creating(synced)
            /\ c \in Range(synced.creator[k].queue)
        BY <2>1, Zenon DEF Queues
      <4>2. \A j \in inTable : j = k
        <5>1. \A j \in inTable : TableQueue(synced.creator[j].queue, j, caller, finishing)
          BY <2>1, Zenon DEF Queues
        <5>2. \A j \in inTable : caller[c].key = j
          BY <5>1, Zenon DEF TableQueue
        <5> QED
          BY <5>2, Zenon
      <4>3. leaving = {}
        BY <4>1 DEF TableQueue
      <4> HIDE DEF inTable
      <4> QED
        BY <4>2, <4>3
    <3>4. ASSUME NEW i \in leaving
          PROVE  leaving = {i} /\ inTable = {}
      <4>1. inTable = {}
        BY <3>3, <3>4
      <4>2. LeavingQueue(i, caller, finishing) /\ i \in DOMAIN finishing
            /\ c \in Range(finishing[i].queue)
        BY <2>1, Zenon DEF Queues
      <4>3. \A j \in leaving : j = i
        BY <4>2 DEF LeavingQueue
      <4> HIDE DEF leaving, inTable
      <4> QED
        BY <4>1, <4>3
    <3>5. CASE caller[c].pc = "queued"
      <4>1. OnAQueue(c, synced, finishing)
        BY <2>1, <3>5, Zenon DEF Queues
      <4>2. inTable # {} \/ leaving # {}
        BY <4>1, Zenon DEF OnAQueue
      <4> HIDE DEF inTable, leaving
      <4>3. (\E x : inTable = {x} /\ leaving = {}) \/ (\E x : leaving = {x} /\ inTable = {})
        BY <3>3, <3>4, <4>2
      <4>4. \/ Cardinality(inTable) = 1 /\ Cardinality(leaving) = 0
            \/ Cardinality(inTable) = 0 /\ Cardinality(leaving) = 1
        BY <3>1, <4>3, Zenon
      <4> QED
        BY <3>5, <4>4
    <3> QED
      BY <3>2, <3>5
  <2>5. QueuedOnce
    BY <2>3, <2>4, Zenon DEF QueuedOnce
  <2> QED
    BY <2>2, <2>5 DEF EachCallerItsAnswer
<1> QED
  BY <1>1, ProviderInvariant, PTL

\* s_finish_provider_destroy frees the provider only when its owner released it
\* and no CreateSession call, callback or task is left that could use it.
THEOREM FreedOnlyWhenUnused == Spec => []FreedWhenUnused
<1>1. IInv => FreedWhenUnused
  <2> SUFFICES ASSUME IInv, freed
               PROVE  FreedWhenUnused
    BY DEF FreedWhenUnused
  <2>1. Cardinality(Creating(synced)) \in Nat /\ IsFiniteSet(Creating(synced))
    BY KeysFinite, FS_Subset, FS_CardinalityType DEF Creating
  <2>2. finishing \in Seq(LeavingType) /\ Queues(synced, caller, finishing)
    BY Zenon DEF IInv, QueueInv, Queues
  <2>3. Len(finishing) \in Nat
    BY <2>2
  <2>4. internal_ref = 0
    BY DEF IInv, RefInv
  <2>5. cleanup = "done" /\ Cardinality(Creating(synced)) = 0 /\ Len(finishing) = 0
    BY <2>1, <2>3, <2>4 DEF IInv, RefInv
  <2>6. Creating(synced) = {}
    BY <2>1, <2>5, FS_EmptySet, Zenon
  <2>7. finishing = << >> /\ DOMAIN finishing = {}
    BY <2>2, <2>5
  <2>8. ~owned /\ \A c \in Callers : caller[c].pc # "called"
    BY <2>5 DEF IInv, RefInv
  <2>9. \A c \in Callers : caller[c].pc # "queued"
    BY <2>2, <2>6, <2>7, Zenon DEF Queues, OnAQueue
  <2>10. \A c \in Callers : caller[c].pc = "idle"
    <3>1. caller \in [Callers -> CallerType]
      BY <2>2, Zenon DEF Queues
    <3> QED
      BY <2>8, <2>9, <3>1 DEF CallerType
  <2>11. original = "static" => bg.task = "idle"
    BY <2>5 DEF IInv, TaskInv
  <2> QED
    BY <2>5, <2>6, <2>7, <2>8, <2>10, <2>11 DEF FreedWhenUnused
<1> QED
  BY <1>1, ProviderInvariant, PTL

\* A round of s_refresh_session_list never drops, and never fails to refresh, a
\* session that was used since the last round and is about to expire, when all
\* sessions are of the credentials it works with.
THEOREM UsedSessionsAreRefreshed == Spec => UsedSessionIsRefreshed
<1> DEFINE A == \A k \in Keys :
          ( /\ BgRefreshTask /\ original = "static" /\ ~synced.destroying
            /\ synced.session[k] # NoSession /\ ~synced.session[k].inactive
            /\ AboutToExpire(synced.session[k], now)
            /\ \A j \in Keys : synced.session[j] # NoSession => j[2] = DefaultCreds )
          => synced.creator'[k] # NoCreator /\ synced.session'[k] # NoSession
<1>1. IInv /\ [Next]_vars => [A]_vars
  <2> SUFFICES ASSUME IInv, NEW k \in Keys, BgRefreshTask, original = "static", ~synced.destroying,
                      synced.session[k] # NoSession, ~synced.session[k].inactive,
                      AboutToExpire(synced.session[k], now),
                      \A j \in Keys : synced.session[j] # NoSession => j[2] = DefaultCreds
               PROVE  synced'.creator[k] # NoCreator /\ synced'.session[k] # NoSession
    BY Zenon
  <2>1. DataInv(synced) /\ DefaultCreds \in Creds
    BY ProviderAssumption DEF IInv
  <2>2. synced' = Refreshed(DefaultCreds, synced)
    BY DEF BgRefreshTask, RefreshSessionList
  <2>3. OfAll(DefaultCreds, synced)
    BY KeyParts DEF OfAll, Cached
  <2>4. k \in Cached(synced) /\ DueAndUsed(synced.session[k])
    BY DEF Cached, DueAndUsed
  <2> QED
    BY <2>1, <2>2, <2>3, <2>4, RefreshedEffect, Zenon
<1>2. Spec => [][A]_vars
  BY <1>1, ProviderInvariant, PTL DEF Spec
<1> QED
  BY <1>2 DEF UsedSessionIsRefreshed
=============================================================================
