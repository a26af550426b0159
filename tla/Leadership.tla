----------------------------- MODULE Leadership -----------------------------
(***************************************************************************)
(* A process of `crashcart serve` (cmd/crashcart/main.go) and what the     *)
(* processes share: the leader locks of scheduled work                     *)
(* (internal/store/store.go RunAsLeader) with the two connection pools,    *)
(* and the order in which a process shuts down.                            *)
(***************************************************************************)
EXTENDS Integers, FiniteSets

CONSTANTS
  Processes,
  Ticks,         \* leader keys, one goroutine each per process
  PoolSize,      \* connections of the query pool
  MaxLeaderLocks,\* connections of lockPool
  Requests       \* requests a process may serve at a time

NoLeader == "none"

ASSUME LeadershipAssumption ==
  /\ PoolSize \in Nat \ {0} /\ MaxLeaderLocks \in Nat \ {0}
  /\ NoLeader \notin Processes

VARIABLES
  steady,  \* a lock's connection outlives the work it guards
  phase,   \* phase[i]: how far process i is from its end
  tick,    \* tick[i][k]: the goroutine of key k
  leader,  \* leader[k]: the process whose session holds the advisory lock
  query,   \* query[i]: work that holds a connection of the query pool
  request  \* request[i]: the requests being served

leadVars == <<steady, phase, tick, leader, query, request>>

Works == {"tick"} \X Ticks \cup {"request"} \X Requests

Alive(i)   == phase[i] # "ended"
Working(i) == {k \in Ticks : tick[i][k] # "idle"}

LeadTypeOK ==
  /\ steady \in BOOLEAN
  /\ phase \in [Processes -> {"serving", "draining", "stopping", "ended"}]
  /\ tick \in [Processes -> [Ticks -> {"idle", "asking", "locked", "querying", "releasing"}]]
  /\ leader \in [Ticks -> Processes \cup {NoLeader}]
  /\ query \in [Processes -> SUBSET Works]
  /\ request \in [Processes -> SUBSET Requests]
  /\ \A i \in Processes : phase[i] = "ended" => Working(i) = {}

\* Nothing has been started yet.
LeadInit ==
  /\ steady \in BOOLEAN
  /\ phase = [i \in Processes |-> "ended"]
  /\ tick = [i \in Processes |-> [k \in Ticks |-> "idle"]]
  /\ leader = [k \in Ticks |-> NoLeader]
  /\ query = [i \in Processes |-> {}]
  /\ request = [i \in Processes |-> {}]

Step(i, k, pc) == tick' = [tick EXCEPT ![i][k] = pc]

\* Faulty: the lock's connections come from the query pool.
TakenByLocksShared(i) == Cardinality(Working(i))

\* Connections of the query pool that locks pin: lockPool is apart from it.
TakenByLocks(i) == 0

LockConn(i)  == Cardinality(Working(i)) < MaxLeaderLocks
QueryConn(i) == Cardinality(query[i]) + TakenByLocks(i) < PoolSize

\* every: the ticker fires, and RunAsLeader acquires a connection.
AskLock(i, k) ==
  /\ phase[i] \in {"serving", "draining"} /\ tick[i][k] = "idle" /\ LockConn(i)
  /\ Step(i, k, "asking")
  /\ UNCHANGED <<steady, phase, leader, query, request>>

\* Faulty: the work runs whether or not the lock was got.
MayRunAnyway(i, k) == TRUE

MayRun(i, k) == leader[k] = NoLeader

\* pg_try_advisory_lock.
TryLock(i, k) ==
  /\ tick[i][k] = "asking"
  /\ IF MayRun(i, k)
     THEN leader' = [leader EXCEPT ![k] = i] /\ Step(i, k, "locked")
     ELSE Step(i, k, "idle") /\ UNCHANGED leader
  /\ UNCHANGED <<steady, phase, query, request>>

\* fn works through the query pool.
RunTick(i, k) ==
  /\ tick[i][k] = "locked" /\ QueryConn(i)
  /\ query' = [query EXCEPT ![i] = @ \cup {<<"tick", k>>}]
  /\ Step(i, k, "querying")
  /\ UNCHANGED <<steady, phase, leader, request>>

EndTick(i, k) ==
  /\ tick[i][k] = "querying"
  /\ query' = [query EXCEPT ![i] = @ \ {<<"tick", k>>}]
  /\ Step(i, k, "releasing")
  /\ UNCHANGED <<steady, phase, leader, request>>

\* pg_advisory_unlock, on a context that a shutdown does not end.
Unlock(i, k) ==
  /\ tick[i][k] = "releasing"
  /\ leader' = [leader EXCEPT ![k] = IF @ = i THEN NoLeader ELSE @]
  /\ Step(i, k, "idle")
  /\ UNCHANGED <<steady, phase, query, request>>

\* The lock's session ends under the work, which does not notice.
LoseLock(k) ==
  /\ ~steady /\ leader[k] # NoLeader
  /\ leader' = [leader EXCEPT ![k] = NoLeader]
  /\ UNCHANGED <<steady, phase, tick, query, request>>

\* Requests are accepted until the shutdown begins, and each needs a connection.
Accept(i, q) ==
  /\ phase[i] = "serving" /\ q \notin request[i] /\ QueryConn(i)
  /\ request' = [request EXCEPT ![i] = @ \cup {q}]
  /\ query' = [query EXCEPT ![i] = @ \cup {<<"request", q>>}]
  /\ UNCHANGED <<steady, phase, tick, leader>>

Answer(i, q) ==
  /\ q \in request[i]
  /\ request' = [request EXCEPT ![i] = @ \ {q}]
  /\ query' = [query EXCEPT ![i] = @ \ {<<"request", q>>}]
  /\ UNCHANGED <<steady, phase, tick, leader>>

\* SIGTERM: no new connections, the streams are told to end.
Signal(i) ==
  /\ phase[i] = "serving"
  /\ phase' = [phase EXCEPT ![i] = "draining"]
  /\ UNCHANGED <<steady, tick, leader, query, request>>

\* srv.Shutdown returned: all requests are answered.
Drained(i) == request[i] = {}

\* stopWork.
StopWork(i) ==
  /\ phase[i] = "draining" /\ Drained(i)
  /\ phase' = [phase EXCEPT ![i] = "stopping"]
  /\ UNCHANGED <<steady, tick, leader, query, request>>

\* work.Wait: the goroutines are through.
Exit(i) ==
  /\ phase[i] = "stopping" /\ Working(i) = {}
  /\ phase' = [phase EXCEPT ![i] = "ended"]
  /\ UNCHANGED <<steady, tick, leader, query, request>>

\* A crash, a shutdown's deadline or a second signal; its sessions end.
Kill(i) ==
  /\ Alive(i)
  /\ phase' = [phase EXCEPT ![i] = "ended"]
  /\ tick' = [tick EXCEPT ![i] = [k \in Ticks |-> "idle"]]
  /\ leader' = [k \in Ticks |-> IF leader[k] = i THEN NoLeader ELSE leader[k]]
  /\ query' = [query EXCEPT ![i] = {}]
  /\ request' = [request EXCEPT ![i] = {}]
  /\ UNCHANGED steady

StartProcess(i) ==
  /\ ~Alive(i)
  /\ phase' = [phase EXCEPT ![i] = "serving"]
  /\ UNCHANGED <<steady, tick, leader, query, request>>

TickStep(i, k) == TryLock(i, k) \/ RunTick(i, k) \/ EndTick(i, k) \/ Unlock(i, k)

LeadNext ==
  \/ \E i \in Processes :
       \/ Signal(i) \/ StopWork(i) \/ Exit(i) \/ Kill(i) \/ StartProcess(i)
       \/ \E q \in Requests : Accept(i, q) \/ Answer(i, q)
       \/ \E k \in Ticks : AskLock(i, k) \/ TickStep(i, k)
  \/ \E k \in Ticks : LoseLock(k)

\* Statements return, requests end, and the pool hands a connection that is
\* given back to one who waits.
LeadFairness ==
  \A i \in Processes :
    /\ WF_leadVars(StopWork(i)) /\ WF_leadVars(Exit(i))
    /\ \A q \in Requests : WF_leadVars(Answer(i, q))
    /\ \A k \in Ticks : WF_leadVars(AskLock(i, k)) /\ WF_leadVars(TryLock(i, k) \/ EndTick(i, k) \/ Unlock(i, k))
                          /\ SF_leadVars(RunTick(i, k))

LeadSpec == LeadInit /\ [][LeadNext]_leadVars /\ LeadFairness

-----------------------------------------------------------------------------

\* Scheduled work runs once per deployment, not once per replica
\* (store.go:156-159), as long as the session that holds a lock outlives the
\* work it guards.
OneLeader ==
  steady => \A k \in Ticks, i, j \in Processes :
              {tick[i][k], tick[j][k]} \subseteq {"locked", "querying"} => i = j

\* Holding a leader lock starves nobody of the connection the work needs
\* (store.go:76-83): a process shuts down, and a tick that won its lock ends.
NoPoolDeadlock ==
  \A i \in Processes :
    /\ phase[i] = "draining" ~> phase[i] = "ended"
    /\ \A k \in Ticks : tick[i][k] = "locked" ~> tick[i][k] # "locked"
=============================================================================
