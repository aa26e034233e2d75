------------------------- MODULE S3ExpressProvider -------------------------
(***************************************************************************)
(* The default S3 Express credentials provider                             *)
(* (source/s3express_credentials_provider.c): an LRU cache of sessions, a  *)
(* table of the CreateSession calls in flight, the callers queued on them, *)
(* the background refresh and the two-phase destruction.                   *)
(*                                                                         *)
(* A session and a creator are identified by their hash key: the cache and *)
(* the table hold at most one of each per key.  A creator that has left    *)
(* the table still has callbacks to invoke and still holds a reference on  *)
(* the provider; those are kept in `finishing`.  The owner of the provider *)
(* may release it while CreateSession calls are in flight, but never while *)
(* one of its own calls to get_credentials is on the stack.                *)
(***************************************************************************)
EXTENDS Integers, FiniteSets, Sequences, Functions

CONSTANTS
    Hosts,                  \* hosts (with the allowed headers) asked for; "" is the empty host
    Creds,                  \* original credentials
    DefaultCreds,           \* the client's own, with which the refresh task works
    Callers,                \* calls to get_credentials that may be open at the same time
    CacheCapacities,        \* values tried for s_default_cache_capacity
    ExpiredThreshold,       \* s_expired_threshold_secs
    AboutToExpireThreshold, \* s_about_to_expire_threshold_secs
    RefreshInterval,        \* s_background_refresh_interval_secs
    Lifetimes,              \* what the service grants, counted from its answer
    MaxTime                 \* bound on the clock

ASSUME ProviderAssumption ==
    /\ IsFiniteSet(Hosts) /\ IsFiniteSet(Creds) /\ DefaultCreds \in Creds
    /\ CacheCapacities \subseteq Nat \ {0}
    /\ {ExpiredThreshold, AboutToExpireThreshold, RefreshInterval, MaxTime} \subseteq Nat
    /\ ExpiredThreshold <= AboutToExpireThreshold
    /\ Lifetimes \subseteq Nat

VARIABLES
    now,        \* aws_sys_clock_get_ticks, in units of the thresholds
    synced,     \* impl->synced_data: the cache and the creator table
    finishing,  \* creators past their critical section, with callbacks to invoke
    caller,     \* the calls to get_credentials
    original,   \* "static": default_original_credentials; "provider": asked for each round
    bg,         \* the background refresh task
    internal_ref,
    owned,      \* the owner has not released the provider
    cleanup,    \* the clean_up_s3express_background task
    freed       \* s_finish_provider_destroy has run

vars == <<now, synced, finishing, caller, original, bg, internal_ref, owned, cleanup, freed>>

\* aws_encode_s3express_hash_key_new: the digest is taken to be injective.
HashKey(creds, host) == <<host, creds>>

EmptyHost == ""
Keys == (Hosts \ {EmptyHost}) \X Creds

NoSession == [session |-> "none"]
NoCreator == [creator |-> "none"]

\* Session credentials: whom they were issued for, and until when.
Credentials(key, expire) == [for |-> key, expire |-> expire]

----------------------------------------------------------------------------
(* The cache of aws-c-common: `cache` lists its keys, least recently used  *)
(* first.  Removing an entry destroys the session.                         *)

\* Mutant: the creator keeps its pointer to the destroyed session.
SessionDestroyLeavesPointer(d, k) ==
    [d EXCEPT !.session[k] = NoSession]

\* s_aws_s3express_session_destroy: "Unset the session, but keep the creator going".
SessionDestroy(d, k) ==
    [d EXCEPT !.session[k] = NoSession,
              !.creator[k] = IF d.session[k].creator THEN [@ EXCEPT !.session = FALSE] ELSE @]

\* A list without its i-th entry, and one without the entry x.
WithoutAt(s, i) == [j \in 1..(Len(s) - 1) |-> IF j < i THEN s[j] ELSE s[j + 1]]
Without(s, x) == WithoutAt(s, CHOOSE i \in DOMAIN s : s[i] = x)

CacheRemove(d, k) ==
    IF d.session[k] = NoSession THEN d
    ELSE [SessionDestroy(d, k) EXCEPT !.cache = Without(@, k)]

CacheFind(d, k) ==
    IF d.session[k] = NoSession THEN d
    ELSE [d EXCEPT !.cache = Append(Without(@, k), k)]

CachePut(d, k, s) ==
    LET put == [d EXCEPT !.cache = Append(@, k), !.session[k] = s]
    IN  IF Len(put.cache) > d.capacity THEN CacheRemove(put, Head(put.cache)) ELSE put

CacheClear(d) ==
    LET cleared[i \in 0..Len(d.cache)] ==
            IF i = 0 THEN d ELSE CacheRemove(cleared[i - 1], d.cache[i])
    IN  cleared[Len(d.cache)]

\* s_aws_s3express_session_new
SessionNew(creds) == [creds |-> creds, inactive |-> FALSE, creator |-> FALSE]

\* s_s3express_session_is_valid
IsValid(s, at) == at + ExpiredThreshold < s.creds.expire

\* s_s3express_session_about_to_expire
AboutToExpire(s, at) == at + AboutToExpireThreshold >= s.creds.expire

\* s_session_creator_new, with the CreateSession meta request it makes.  The
\* request is signed with the original credentials it is given; the creator
\* holds a reference on the provider.
CreatorNew(creds, host, refreshed) ==
    [with |-> HashKey(creds, host), session |-> refreshed, queue |-> <<>>]

----------------------------------------------------------------------------
\* s_schedule_bg_refresh
Scheduled == [task |-> "scheduled", at |-> now + RefreshInterval]

\* aws_s3express_credentials_provider_new_default
Init ==
    /\ now = 0
    /\ \E n \in CacheCapacities :
          synced = [cache |-> <<>>, capacity |-> n,
                    session |-> [k \in Keys |-> NoSession],
                    creator |-> [k \in Keys |-> NoCreator],
                    destroying |-> FALSE]
    /\ finishing = <<>>
    /\ caller = [c \in Callers |-> [pc |-> "idle", key |-> <<>>, stamp |-> 0]]
    /\ original \in {"static", "provider"}
    /\ bg = Scheduled
    /\ internal_ref = 1
    /\ owned = TRUE
    /\ cleanup = "none"
    /\ freed = FALSE

\* A get_credentials callback: the caller has what it asked for, or an error.
Answered(c) == [caller EXCEPT ![c] = [pc |-> "idle", key |-> <<>>, stamp |-> 0]]

Success(creds) == [ok |-> TRUE, creds |-> creds]
Failure == [ok |-> FALSE]

\* s_s3express_get_creds up to the lock: the host is checked, the clock is read.
GetCreds(c) ==
    /\ owned /\ caller[c].pc = "idle"
    /\ \E h \in Hosts, o \in Creds :
          caller' = IF h = EmptyHost THEN caller
                    ELSE [caller EXCEPT ![c] = [pc |-> "called", key |-> HashKey(o, h), stamp |-> now]]
    /\ UNCHANGED <<now, synced, finishing, original, bg, internal_ref, owned, cleanup, freed>>

\* Steps 2 and 3 of s_s3express_get_creds: find or make the creator, queue the callback.
QueueCallback(d, k, c) ==
    LET known == IF d.creator[k] = NoCreator
                 THEN [d EXCEPT !.creator[k] = CreatorNew(k[2], k[1], FALSE)] ELSE d
    IN  [known EXCEPT !.creator[k].queue = Append(@, c)]

\* The rest of s_s3express_get_creds, with the clock value read before the lock.
GetCredsLocked(c) ==
    LET k == caller[c].key
        found == CacheFind(synced, k)
        hit == [found EXCEPT !.session[k].inactive = FALSE]
        valid == found.session[k] # NoSession /\ IsValid(found.session[k], caller[c].stamp)
    IN
    /\ caller[c].pc = "called"
    /\ \/ /\ valid
          /\ synced' = hit
          /\ caller' = Answered(c)
          /\ UNCHANGED internal_ref
       \/ /\ ~valid
          /\ synced' = QueueCallback(CacheRemove(found, k), k, c)
          /\ internal_ref' = internal_ref + (IF synced.creator[k] = NoCreator THEN 1 ELSE 0)
          /\ caller' = [caller EXCEPT ![c].pc = "queued"]
    /\ UNCHANGED <<now, finishing, original, bg, owned, cleanup, freed>>

----------------------------------------------------------------------------
\* s_parse_s3express_xml and its traversal callbacks over the body that
\* s_on_incoming_body_fn gathered: credentials only when all four fields are there.
ParseXml(body, key, expire) ==
    IF body = "complete" THEN Success(Credentials(key, expire))
    ELSE Failure

\* The first half of s_on_request_finished: what the CreateSession call came to.
SessionResult(k, error, body, lifetime) ==
    IF error THEN Failure ELSE ParseXml(body, synced.creator[k].with, now + lifetime)

\* The critical section of s_on_request_finished: the creator leaves the table;
\* the session it refreshes gets the credentials or leaves the cache.
CriticalSection(k, result) ==
    LET c == synced.creator[k]
        d == [synced EXCEPT !.creator[k] = NoCreator,
                            !.session[k] = IF c.session THEN [@ EXCEPT !.creator = FALSE] ELSE @]
        ok == result.ok
    IN  CASE c.session /\ ok  -> [d EXCEPT !.session[k].creds = result.creds]
          [] c.session /\ ~ok -> CacheRemove(d, k)
          [] ~c.session /\ ok -> CachePut(d, k, SessionNew(result.creds))
          [] OTHER            -> d

\* What the callbacks are given: credentials of a key, or an error.
IssuedFor(result) == IF result.ok THEN result.creds.for ELSE <<>>

\* s_on_request_finished up to the unlock.
OnRequestFinished(k) ==
    /\ synced.creator[k] # NoCreator
    /\ \E error \in BOOLEAN, body \in {"none", "partial", "complete"}, lifetime \in Lifetimes :
          LET result == SessionResult(k, error, body, lifetime) IN
          /\ synced' = CriticalSection(k, result)
          /\ finishing' = Append(finishing, [queue |-> synced.creator[k].queue, for |-> IssuedFor(result)])
    /\ UNCHANGED <<now, caller, original, bg, internal_ref, owned, cleanup, freed>>

\* aws_ref_count_release of internal_ref; at zero, s_finish_provider_destroy.
ReleaseInternalRef ==
    /\ internal_ref' = internal_ref - 1
    /\ freed' = (internal_ref = 1)

\* One turn of the callback loop at the end of s_on_request_finished; the last
\* one is followed by s_aws_s3express_session_creator_destroy.
InvokeCallbacks(i) ==
    LET f == finishing[i] IN
    /\ caller' = IF f.queue = <<>> THEN caller ELSE Answered(Head(f.queue))
    /\ \/ /\ Len(f.queue) > 1
          /\ finishing' = [finishing EXCEPT ![i].queue = Tail(@)]
          /\ UNCHANGED <<internal_ref, freed>>
       \/ /\ Len(f.queue) <= 1
          /\ finishing' = WithoutAt(finishing, i)
          /\ ReleaseInternalRef

CreatorFinishes(i) ==
    /\ i \in DOMAIN finishing
    /\ InvokeCallbacks(i)
    /\ UNCHANGED <<now, synced, original, bg, owned, cleanup>>

----------------------------------------------------------------------------
(* The background refresh.                                                 *)

\* Mutant: the credentials of the round are not compared with the session's.
RefreshAnySession(creds, round, k) ==
    LET d == round.data
        s == d.session[k]
        marked == [d EXCEPT !.session[k].inactive = TRUE]
    IN  IF ~AboutToExpire(s, now) THEN round
        ELSE IF s.inactive THEN [round EXCEPT !.data = CacheRemove(d, k)]
        ELSE IF d.creator[k] # NoCreator THEN [round EXCEPT !.data = marked]
        ELSE [round EXCEPT !.data = [marked EXCEPT !.creator[k] = CreatorNew(creds, k[1], TRUE),
                                                   !.session[k].creator = TRUE]]

\* Mutant: a session about to expire is purged whether or not it was used.
RefreshPurges(creds, round, k) ==
    IF AboutToExpire(round.data.session[k], now)
    THEN [round EXCEPT !.data = CacheRemove(round.data, k)]
    ELSE round

\* One turn of the loop of s_refresh_session_list.  A session of other
\* credentials ends the round (goto unlock).  An expired one is removed first,
\* and the flag the code then writes goes to the destroyed session.
RefreshSession(creds, round, k) ==
    LET d == round.data
        s == d.session[k]
        marked == [d EXCEPT !.session[k].inactive = TRUE]
    IN  IF round.unlock \/ ~AboutToExpire(s, now) THEN round
        ELSE IF s.inactive THEN [round EXCEPT !.data = CacheRemove(d, k)]
        ELSE IF d.creator[k] # NoCreator THEN [round EXCEPT !.data = marked]
        ELSE IF HashKey(creds, k[1]) = k
        THEN [round EXCEPT !.data = [marked EXCEPT !.creator[k] = CreatorNew(creds, k[1], TRUE),
                                                   !.session[k].creator = TRUE]]
        ELSE [data |-> IF IsValid(s, now) THEN marked ELSE CacheRemove(d, k), unlock |-> TRUE]

Creating(d) == {k \in Keys : d.creator[k] # NoCreator}

\* The loop of s_refresh_session_list: the cache is walked from the oldest
\* session on.
Refreshed(creds, d) ==
    LET turn[i \in 0..Len(d.cache)] ==
            IF i = 0 THEN [data |-> d, unlock |-> FALSE]
            ELSE RefreshSession(creds, turn[i - 1], d.cache[i])
    IN  turn[Len(d.cache)].data

\* s_refresh_session_list
RefreshSessionList(creds) ==
    IF synced.destroying
    THEN /\ bg' = [task |-> "idle", at |-> 0]
         /\ UNCHANGED <<synced, internal_ref>>
    ELSE /\ synced' = Refreshed(creds, synced)
         /\ internal_ref' = internal_ref + Cardinality(Creating(synced') \ Creating(synced))
         /\ bg' = Scheduled

\* s_bg_refresh_task.  With a credentials provider the task only starts the
\* query; when that cannot be started, the round is skipped.
BgRefreshTask ==
    /\ bg.task = "scheduled" /\ bg.at <= now /\ ~freed
    /\ \/ /\ original = "static"
          /\ RefreshSessionList(DefaultCreds)
       \/ /\ original = "provider"
          /\ bg' \in {Scheduled, [task |-> "fetching", at |-> 0]}
          /\ UNCHANGED <<synced, internal_ref>>
    /\ UNCHANGED <<now, finishing, caller, original, owned, cleanup, freed>>

\* s_get_original_credentials_callback, on a thread of the credentials
\* provider.  It holds no reference on this provider: the model does not follow
\* a callback that arrives after the provider was freed.
GetOriginalCredentialsCallback ==
    /\ bg.task = "fetching" /\ ~freed
    /\ \/ /\ bg' = Scheduled
          /\ UNCHANGED <<synced, internal_ref>>
       \/ \E creds \in Creds : RefreshSessionList(creds)
    /\ UNCHANGED <<now, finishing, caller, original, owned, cleanup, freed>>

----------------------------------------------------------------------------
\* aws_s3express_credentials_provider_release of the last reference, that is
\* s_external_destroy.  The CreateSession calls are cancelled, which they may
\* outrun: s_on_request_finished comes with either result.
ExternalDestroy ==
    /\ owned
    /\ \A c \in Callers : caller[c].pc # "called"
    /\ owned' = FALSE
    /\ synced' = [CacheClear(synced) EXCEPT !.destroying = TRUE]
    /\ cleanup' = "scheduled"
    /\ UNCHANGED <<now, finishing, caller, original, bg, internal_ref, freed>>

\* Mutant: the task is left in the event loop.
CleanUpForgetsTask ==
    /\ cleanup = "scheduled"
    /\ cleanup' = "done"
    /\ ReleaseInternalRef
    /\ UNCHANGED <<now, synced, finishing, caller, original, bg, owned>>

\* Mutant: the reference of the background task is kept.
CleanUpKeepsReference ==
    /\ cleanup = "scheduled"
    /\ cleanup' = "done"
    /\ bg' = IF bg.task = "scheduled" THEN [task |-> "idle", at |-> 0] ELSE bg
    /\ UNCHANGED <<now, synced, finishing, caller, original, internal_ref, owned, freed>>

\* s_clean_up_background_task: cancelling runs s_bg_refresh_task, which returns at once.
CleanUpBackgroundTask ==
    /\ cleanup = "scheduled"
    /\ cleanup' = "done"
    /\ bg' = IF bg.task = "scheduled" THEN [task |-> "idle", at |-> 0] ELSE bg
    /\ ReleaseInternalRef
    /\ UNCHANGED <<now, synced, finishing, caller, original, owned>>

Tick ==
    /\ now < MaxTime
    /\ now' = now + 1
    /\ UNCHANGED <<synced, finishing, caller, original, bg, internal_ref, owned, cleanup, freed>>

Next ==
    \/ Tick
    \/ \E c \in Callers : GetCreds(c) \/ GetCredsLocked(c)
    \/ \E k \in Keys : OnRequestFinished(k)
    \/ \E i \in DOMAIN finishing : CreatorFinishes(i)
    \/ BgRefreshTask
    \/ GetOriginalCredentialsCallback
    \/ ExternalDestroy
    \/ CleanUpBackgroundTask

\* A CreateSession call ends, an event loop runs its tasks, and a thread in a
\* finish callback goes on.
Fairness ==
    /\ \A k \in Keys : WF_vars(OnRequestFinished(k))
    /\ WF_vars(CreatorFinishes(1))
    /\ WF_vars(CleanUpBackgroundTask)

Spec == Init /\ [][Next]_vars /\ Fairness

----------------------------------------------------------------------------
(* The types of the provider's state.                                      *)
TypeOK ==
    /\ now \in 0..MaxTime
    /\ Len(synced.cache) <= synced.capacity
    /\ IsInjective(synced.cache)
    /\ Range(synced.cache) = {k \in Keys : synced.session[k] # NoSession}
    /\ \A k \in Keys : synced.session[k] # NoSession =>
          {synced.session[k].inactive, synced.session[k].creator} \subseteq BOOLEAN
    /\ \A c \in Callers : caller[c].pc \in {"idle", "called", "queued"}
    /\ bg.task \in {"idle", "scheduled", "fetching"}
    /\ cleanup \in {"none", "scheduled", "done"}
    /\ {owned, freed, synced.destroying} \subseteq BOOLEAN
    /\ internal_ref \in Nat

(* The pointers between a session and the creator that refreshes it agree, *)
(* through eviction, expiry, failed refreshes and destruction: neither ever *)
(* points at something destroyed, and the assertion of                     *)
(* s_refresh_session_list that the creator found for a cached session is   *)
(* refreshing that very session holds.                                     *)
CreatorTracksSession ==
    \A k \in Keys :
        /\ (synced.creator[k] # NoCreator /\ synced.creator[k].session) <=>
              (synced.session[k] # NoSession /\ synced.session[k].creator)
        /\ (synced.creator[k] # NoCreator /\ synced.session[k] # NoSession) => synced.creator[k].session

(* Whatever path an answer takes (cache, a creation others waited for, a   *)
(* refresh with the client's current credentials), a caller is only given  *)
(* session credentials of its own host and original credentials: those in  *)
(* the cache are of the key they are found under, those of a finished      *)
(* creator are of the key each caller in its queue asked for.              *)
AnswerIsForTheCaller ==
    /\ \A k \in Keys : synced.session[k] # NoSession => synced.session[k].creds.for = k
    /\ \A i \in DOMAIN finishing : finishing[i].for # <<>> =>
          \A c \in Range(finishing[i].queue) : finishing[i].for = caller[c].key

(* The callback of a caller that was not answered at once waits in exactly *)
(* one queue; s_aws_s3express_session_creator_destroy asserts its queue is *)
(* empty, so that none is lost.                                            *)
QueuedOnce ==
    /\ \A k \in Creating(synced) : IsInjective(synced.creator[k].queue)
    /\ \A i \in DOMAIN finishing : IsInjective(finishing[i].queue)
    /\ \A c \in Callers :
          LET inTable == {k \in Creating(synced) : c \in Range(synced.creator[k].queue)}
              leaving == {i \in DOMAIN finishing : c \in Range(finishing[i].queue)}
          IN  Cardinality(inTable) + Cardinality(leaving) = IF caller[c].pc = "queued" THEN 1 ELSE 0

(* s_finish_provider_destroy runs when nobody can touch the provider any   *)
(* more: released, no CreateSession call, no callback outstanding, no task *)
(* in the event loop.  The exception is the query for the original         *)
(* credentials, which holds no reference and may even schedule the task    *)
(* again: only with credentials given directly is the task always gone.    *)
FreedWhenUnused ==
    freed => /\ ~owned /\ cleanup = "done"
             /\ Creating(synced) = {} /\ finishing = <<>>
             /\ \A c \in Callers : caller[c].pc = "idle"
             /\ original = "static" => bg.task = "idle"

(* A round of the refresh never drops, and never fails to refresh, a       *)
(* session of its own credentials that was used since the last round and   *)
(* is about to expire, unless the round was cut short.                     *)
UsedSessionIsRefreshed ==
    [][\A k \in Keys :
          ( /\ BgRefreshTask /\ original = "static" /\ ~synced.destroying
            /\ synced.session[k] # NoSession /\ ~synced.session[k].inactive
            /\ AboutToExpire(synced.session[k], now)
            /\ \A j \in Keys : synced.session[j] # NoSession => j[2] = DefaultCreds )
          => synced.creator'[k] # NoCreator /\ synced.session'[k] # NoSession]_vars

(* Every caller is answered, and a released provider is eventually freed.  *)
EveryoneIsAnswered ==
    /\ \A c \in Callers : []<>(caller[c].pc # "queued")
    /\ []<>(owned \/ freed)

(* The cache, its sessions and the creators in flight fit together: every  *)
(* session is in the LRU list once, within its capacity, and is linked     *)
(* with its creator and no other.                                          *)
CacheIsConsistent == TypeOK /\ CreatorTracksSession

(* Each caller gets its own answer, once, whoever else waits on the same   *)
(* creator (s_on_request_finished, s_s3express_get_creds).                 *)
EachCallerItsAnswer == AnswerIsForTheCaller /\ QueuedOnce
=============================================================================
