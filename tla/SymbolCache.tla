----------------------------- MODULE SymbolCache -----------------------------
(***************************************************************************)
(* The mapping cache of internal/symbolicate/service.go and the jobs that  *)
(* symbolicate stored events: load with its two TTLs and its single        *)
(* flight, Invalidate, Upload's announcement, the handlers Release and     *)
(* Event, and the lookup an ingest makes before it stores an event.        *)
(*                                                                         *)
(* One release and kind, so one cache key per replica.  The rows behind    *)
(* the key go through numbered states; state n has rows iff Has[n] = TRUE, *)
(* and "<count>/<latest upload>" tells any two states with rows apart.     *)
(***************************************************************************)
EXTENDS Integers, Sequences

CONSTANTS
  Replicas,   \* processes, each with its cache and its workers
  Home,       \* the one replica of a calm deployment
  Events,     \* places for events of the release
  Has         \* Has[n]: the n-th state of the rows has any

ASSUME SymbolCacheAssumption ==
  /\ Home \in Replicas
  /\ Has \in Seq(BOOLEAN) /\ Len(Has) > 0

VARIABLES
  calm,     \* a deployment of one replica, with uploads at which nothing is looked up
  now,      \* the state the rows are in
  cache,    \* cache[r]: the cached state, 0 for no entry, and whether its TTL runs
  flight,   \* flight[r]: the load in progress
  look,     \* look[e]: the lookup made for e, by an ingest or by its job
  job,      \* job[e]: the symbolicate job of e
  stored,   \* stored[e]
  sym,      \* sym[e]: the state whose mapping symbolicated e, 0 for none
  fan,      \* the release's resymbolicate job
  uploader  \* an upload between its row and its answer

cacheVars == <<calm, now, cache, flight, look, job, stored, sym, fan, uploader>>

States == 1..Len(Has)
None   == [state |-> 0, fresh |-> FALSE]
Quiet  == [pc |-> "idle", at |-> Home, state |-> 0]
Hit(n) == n # 0 /\ Has[n]
InUse(r) == flight[r].pc # "idle" \/ \E e \in Events : look[e].pc # "idle" /\ look[e].at = r

CacheTypeOK ==
  /\ calm \in BOOLEAN
  /\ now \in States
  /\ cache \in [Replicas -> [state : States \cup {0}, fresh : BOOLEAN]]
  /\ flight \in [Replicas -> [pc : {"idle", "reading", "read"}, state : States \cup {0}]]
  /\ look \in [Events -> [pc : {"idle", "ask", "check", "wait", "got", "error"},
                          at : Replicas, state : States \cup {0}]]
  /\ job \in [Events -> {"none", "queued", "running"}]
  /\ stored \in [Events -> BOOLEAN]
  /\ sym \in [Events -> States \cup {0}]
  /\ fan \in [pc : {"none", "queued", "running", "dropped", "spread"}, at : Replicas]
  /\ uploader \in [pc : {"idle", "stored", "queued"}, at : Replicas]

CacheInit ==
  /\ calm \in BOOLEAN
  /\ now = 1
  /\ cache = [r \in Replicas |-> None]
  /\ flight = [r \in Replicas |-> [pc |-> "idle", state |-> 0]]
  /\ look = [e \in Events |-> Quiet]
  /\ job = [e \in Events |-> "none"]
  /\ stored = [e \in Events |-> FALSE]
  /\ sym = [e \in Events |-> 0]
  /\ fan = [pc |-> "none", at |-> Home]
  /\ uploader = [pc |-> "idle", at |-> Home]

Up(r)    == calm => r = Home
Apart(r) == Up(r) /\ (calm => uploader.pc = "idle")

-----------------------------------------------------------------------------
(* Uploads, and deletes through any replica. *)

\* putSymbolFile: the rows change.  A calm upload meets no lookup.
StoreFiles(r) ==
  /\ Up(r) /\ uploader.pc = "idle" /\ now < Len(Has) /\ Has[now + 1]
  /\ calm => \A e \in Events : look[e].pc = "idle"
  /\ now' = now + 1
  /\ uploader' = [pc |-> "stored", at |-> r]
  /\ UNCHANGED <<calm, cache, flight, look, job, stored, sym, fan>>

\* EnqueueJob(resymbolicate): onto the live row, whatever it is doing.
EnqueueRelease ==
  /\ uploader.pc = "stored"
  /\ uploader' = [uploader EXCEPT !.pc = "queued"]
  /\ fan' = IF fan.pc = "none" THEN [fan EXCEPT !.pc = "queued"] ELSE fan
  /\ UNCHANGED <<calm, now, cache, flight, look, job, stored, sym>>

Dropped(r) == [cache EXCEPT ![r] = None]

\* s.Invalidate: the cache of the replica that took the upload.
InvalidateUpload ==
  /\ uploader.pc = "queued"
  /\ cache' = Dropped(uploader.at)
  /\ uploader' = [uploader EXCEPT !.pc = "idle"]
  /\ UNCHANGED <<calm, now, flight, look, job, stored, sym, fan>>

\* The upload ends with an error after a row was stored, or its process dies.
UploadCutShort ==
  /\ ~calm /\ uploader.pc # "idle"
  /\ uploader' = [uploader EXCEPT !.pc = "idle"]
  /\ UNCHANGED <<calm, now, cache, flight, look, job, stored, sym, fan>>

\* DeleteSymbolFile and the sweep drop no cache entry.
DeleteFiles ==
  /\ now < Len(Has) /\ ~Has[now + 1]
  /\ now' = now + 1
  /\ UNCHANGED <<calm, cache, flight, look, job, stored, sym, fan, uploader>>

-----------------------------------------------------------------------------
(* load. *)

\* missTTL or revalidateTTL has passed.
Age(r) ==
  /\ cache[r].fresh
  /\ cache' = [cache EXCEPT ![r].fresh = FALSE]
  /\ UNCHANGED <<calm, now, flight, look, job, stored, sym, fan, uploader>>

Got(e, n) == look' = [look EXCEPT ![e].pc = "got", ![e].state = n]

\* Faulty: a mapping once cached is served for good.
NeedsCheckNever(r) == FALSE

\* A parsed mapping older than revalidateTTL is checked; a miss is not.
NeedsCheck(r) == Hit(cache[r].state) /\ ~cache[r].fresh
Serves(r)     == cache[r].state # 0 /\ (cache[r].fresh \/ Hit(cache[r].state))

\* The cache under the mutex: served, to be checked, or to be loaded, by the
\* flight in progress if there is one.
Ask(e) ==
  LET r == look[e].at IN
  /\ look[e].pc = "ask"
  /\ \/ /\ NeedsCheck(r)
        /\ look' = [look EXCEPT ![e].pc = "check", ![e].state = cache[r].state]
        /\ UNCHANGED flight
     \/ /\ ~NeedsCheck(r) /\ Serves(r)
        /\ Got(e, cache[r].state)
        /\ UNCHANGED flight
     \/ /\ ~Serves(r)
        /\ look' = [look EXCEPT ![e].pc = "wait"]
        /\ flight' = [flight EXCEPT ![r].pc = IF @ = "idle" THEN "reading" ELSE @]
  /\ UNCHANGED <<calm, now, cache, job, stored, sym, fan, uploader>>

\* The version query, outside the mutex: the entry that was found is confirmed
\* and served, or loaded anew; on an error it is served as it is.
Check(e) ==
  LET r == look[e].at  n == look[e].state IN
  /\ look[e].pc = "check"
  /\ \/ /\ n = now
        /\ Got(e, n)
        /\ cache' = [cache EXCEPT ![r].fresh = @ \/ cache[r].state = n]
        /\ UNCHANGED flight
     \/ /\ n # now
        /\ look' = [look EXCEPT ![e].pc = "wait"]
        /\ flight' = [flight EXCEPT ![r].pc = IF @ = "idle" THEN "reading" ELSE @]
        /\ UNCHANGED cache
  /\ UNCHANGED <<calm, now, job, stored, sym, fan, uploader>>

CheckFails(e) ==
  /\ look[e].pc = "check"
  /\ Got(e, look[e].state)
  /\ UNCHANGED <<calm, now, cache, flight, job, stored, sym, fan, uploader>>

\* fetch reads the rows ...
FlightReads(r) ==
  /\ flight[r].pc = "reading"
  /\ flight' = [flight EXCEPT ![r] = [pc |-> "read", state |-> now]]
  /\ UNCHANGED <<calm, now, cache, look, job, stored, sym, fan, uploader>>

Waiting(r) == {e \in Events : look[e].pc = "wait" /\ look[e].at = r}

\* ... and stores the entry, whatever was dropped meanwhile; all who wait get it.
FlightStores(r) ==
  /\ flight[r].pc = "read"
  /\ cache' = [cache EXCEPT ![r] = [state |-> flight[r].state, fresh |-> TRUE]]
  /\ look' = [e \in Events |-> IF e \in Waiting(r)
                               THEN [look[e] EXCEPT !.pc = "got", !.state = flight[r].state]
                               ELSE look[e]]
  /\ flight' = [flight EXCEPT ![r] = [pc |-> "idle", state |-> 0]]
  /\ UNCHANGED <<calm, now, job, stored, sym, fan, uploader>>

\* A database failure is the error of all who wait and is not cached.
FlightFails(r) ==
  /\ flight[r].pc = "read"
  /\ look' = [e \in Events |-> IF e \in Waiting(r) THEN [look[e] EXCEPT !.pc = "error"]
                               ELSE look[e]]
  /\ flight' = [flight EXCEPT ![r] = [pc |-> "idle", state |-> 0]]
  /\ UNCHANGED <<calm, now, cache, job, stored, sym, fan, uploader>>

-----------------------------------------------------------------------------
(* Events: ingest, the symbolicate job, expiry. *)

\* Resolve: the mapping is looked up before the event is stored.
StartIngest(e, r) ==
  /\ Apart(r) /\ ~stored[e] /\ look[e].pc = "idle" /\ job[e] = "none"
  /\ look' = [look EXCEPT ![e] = [pc |-> "ask", at |-> r, state |-> 0]]
  /\ UNCHANGED <<calm, now, cache, flight, job, stored, sym, fan, uploader>>

\* A miss is stored as it is, with no job; an error queues one.
FinishIngest(e) ==
  /\ ~stored[e] /\ job[e] = "none" /\ look[e].pc \in {"got", "error"}
  /\ stored' = [stored EXCEPT ![e] = TRUE]
  /\ sym' = [sym EXCEPT ![e] = IF look[e].pc = "got" /\ Hit(look[e].state) THEN look[e].state ELSE 0]
  /\ job' = [job EXCEPT ![e] = IF look[e].pc = "error" THEN "queued" ELSE @]
  /\ look' = [look EXCEPT ![e] = Quiet]
  /\ UNCHANGED <<calm, now, cache, flight, fan, uploader>>

\* A worker of r claims the job; a symbolicated event is not looked up again.
StartJobEvent(e, r) ==
  /\ Apart(r) /\ job[e] = "queued" /\ look[e].pc = "idle"
  /\ IF stored[e] /\ sym[e] = 0
     THEN /\ job' = [job EXCEPT ![e] = "running"]
          /\ look' = [look EXCEPT ![e] = [pc |-> "ask", at |-> r, state |-> 0]]
     ELSE /\ job' = [job EXCEPT ![e] = "none"]
          /\ UNCHANGED look
  /\ UNCHANGED <<calm, now, cache, flight, stored, sym, fan, uploader>>

\* Faulty: an error ends the job like a miss.
AfterEventDone(pc) == "none"

\* Event returns nil on a miss, and the job row goes; an error is retried.
AfterEvent(pc) == IF pc = "error" THEN "queued" ELSE "none"

FinishJobEvent(e) ==
  /\ job[e] = "running" /\ look[e].pc \in {"got", "error"}
  /\ sym' = [sym EXCEPT ![e] = IF look[e].pc = "got" /\ stored[e] /\ Hit(look[e].state)
                               THEN look[e].state ELSE @]
  /\ job' = [job EXCEPT ![e] = AfterEvent(look[e].pc)]
  /\ look' = [look EXCEPT ![e] = Quiet]
  /\ UNCHANGED <<calm, now, cache, flight, stored, fan, uploader>>

\* Retention drops the event; its place may be used again.
ExpireEvent(e) ==
  /\ stored[e]
  /\ stored' = [stored EXCEPT ![e] = FALSE]
  /\ sym' = [sym EXCEPT ![e] = 0]
  /\ UNCHANGED <<calm, now, cache, flight, look, job, fan, uploader>>

-----------------------------------------------------------------------------
(* Release, the handler of the resymbolicate job. *)

StartRelease(r) ==
  /\ Up(r) /\ fan.pc = "queued"
  /\ fan' = [pc |-> "running", at |-> r]
  /\ UNCHANGED <<calm, now, cache, flight, look, job, stored, sym, uploader>>

InvalidateRelease ==
  /\ fan.pc = "running"
  /\ cache' = Dropped(fan.at)
  /\ fan' = [fan EXCEPT !.pc = "dropped"]
  /\ UNCHANGED <<calm, now, flight, look, job, stored, sym, uploader>>

\* EnqueueSymbolicateRelease: every stored, unsymbolicated event; a live job of
\* the event, running or not, takes the enqueue in.
Spread == {e \in Events : stored[e] /\ sym[e] = 0 /\ job[e] = "none"}

SpreadRelease ==
  /\ fan.pc = "dropped"
  /\ job' = [e \in Events |-> IF e \in Spread THEN "queued" ELSE job[e]]
  /\ fan' = [fan EXCEPT !.pc = "spread"]
  /\ UNCHANGED <<calm, now, cache, flight, look, stored, sym, uploader>>

\* The row goes, and with it an upload that was folded onto it.
FinishRelease ==
  /\ fan.pc = "spread"
  /\ fan' = [fan EXCEPT !.pc = "none"]
  /\ UNCHANGED <<calm, now, cache, flight, look, job, stored, sym, uploader>>

-----------------------------------------------------------------------------

LookStep(e)  == Ask(e) \/ Check(e) \/ FinishIngest(e) \/ FinishJobEvent(e)
FanStep      == InvalidateRelease \/ SpreadRelease \/ FinishRelease
UploadStep   == EnqueueRelease \/ InvalidateUpload

CacheNext ==
  \/ \E r \in Replicas : StoreFiles(r) \/ Age(r) \/ FlightReads(r) \/ FlightStores(r)
                           \/ FlightFails(r) \/ StartRelease(r)
  \/ UploadStep \/ UploadCutShort \/ DeleteFiles \/ FanStep
  \/ \E e \in Events :
       \/ LookStep(e) \/ CheckFails(e) \/ ExpireEvent(e)
       \/ \E r \in Replicas : StartIngest(e, r) \/ StartJobEvent(e, r)

\* Time passes, workers poll, requests and handlers run to their end, and the
\* database does not fail every load.
CacheFairness ==
  /\ \A r \in Replicas : WF_cacheVars(Age(r)) /\ WF_cacheVars(FlightReads(r))
                           /\ SF_cacheVars(FlightStores(r))
  /\ \A e \in Events : WF_cacheVars(LookStep(e)) /\ SF_cacheVars(Check(e))
                         /\ WF_cacheVars(\E r \in Replicas : StartJobEvent(e, r))
  /\ WF_cacheVars(UploadStep) /\ WF_cacheVars(FanStep)
  /\ WF_cacheVars(\E r \in Replicas : StartRelease(r))

CacheSpec == CacheInit /\ [][CacheNext]_cacheVars /\ CacheFairness

-----------------------------------------------------------------------------

\* An event that waits for a mapping is symbolicated once one is uploaded
\* (Event's comment, service.go:402-406): one replica and an upload that falls
\* into no lookup.  Elsewhere a negative entry of another replica, a load that
\* began before the upload, or a running job that takes the new one in may
\* each lose the event.
UploadReaches ==
  calm => \A e \in Events :
            stored[e] /\ sym[e] = 0 /\ Has[now] ~> sym[e] # 0 \/ ~stored[e] \/ ~Has[now]

\* An upload through another replica must not leave a stale mapping here
\* (service.go:32-35): once the files stop changing, every event stored later
\* is resolved with the files as they are, or with none after a failed load.
CachesConverge ==
  <>[][\A e \in Events : stored'[e] /\ ~stored[e] =>
         \/ look[e].state = now
         \/ ~Hit(look[e].state) /\ ~Has[now]
         \/ look[e].pc = "error"]_cacheVars
=============================================================================
