---------------------------- MODULE PayloadPacks ----------------------------
(***************************************************************************)
(* Event payloads with a blob store (internal/store/packs.go, spool.go):   *)
(* ingest spools the bytes in the transaction of the event row, a flusher  *)
(* moves spooled payloads of one week into an object and records each      *)
(* event's place in it, and the sweep deletes a week's objects after its   *)
(* events.  Every statement, transaction and object-store request is a     *)
(* step of its own: it may fail, and its process may die after it.         *)
(*                                                                         *)
(* One project.  An object is the set of events whose bytes it holds, so a *)
(* place (offset and length) is the pack it points into.                   *)
(***************************************************************************)
EXTENDS FiniteSets, Naturals

CONSTANTS
  Events,     \* event ids
  Weeks,      \* retention's weeks
  WeekOf,     \* the week of each event's occurred_at
  PackIds,    \* ids of packs rows, which name the objects
  Packers,    \* flushers: the leader's tick, and one that lost its lock
  PackRows,   \* payloads per pack (PackBytes)
  NoPack,     \* not a pack id
  KnownOutcome,  \* TRUE: a transaction that returned an error was rolled back
  ReliableStore  \* TRUE: deletes of objects succeed, a failed Put wrote nothing

ASSUME PayloadPacksAssumption ==
  /\ WeekOf \in [Events -> Weeks]
  /\ NoPack \notin PackIds
  /\ PackRows \in Nat \ {0}
  /\ KnownOutcome \in BOOLEAN /\ ReliableStore \in BOOLEAN

VARIABLES
  stored,    \* events with a row in events
  spool,     \* events with a row in payload_spool
  place,     \* event_packs: the pack of each event, or NoPack
  packs,     \* ids with a packs row
  weekOf,    \* weekOf[p]: the week of pack p
  objects,   \* objects[p]: the events whose bytes the object holds; {}: none
  ended,     \* weeks whose end is at or before the retention cutoff
  step,      \* step[r]: where packOne is
  batch,     \* batch[r]: the spool rows packOne read
  id,        \* id[r]: the pack it is writing
  sweep,     \* the sweep: its step, weeks, packs still to delete, and the one
             \* whose object it deleted and whose row is next
  reading    \* readers of payloads: <<event, pack>> located but not fetched

packerVars == <<step, batch, id>>
rowVars    == <<stored, spool, place, packs, weekOf>>
vars == <<stored, spool, place, packs, weekOf, objects, ended,
          step, batch, id, sweep, reading>>

NoSweep == [at |-> "idle", weeks |-> {}, left |-> {}, gone |-> NoPack]

TypeOK ==
  /\ stored \subseteq Events /\ spool \subseteq Events
  /\ place \in [Events -> PackIds \cup {NoPack}]
  /\ packs \subseteq PackIds
  /\ weekOf \in [PackIds -> Weeks]
  /\ objects \in [PackIds -> SUBSET Events]
  /\ ended \subseteq Weeks
  /\ step \in [Packers -> {"idle", "read", "inserted", "put", "undo", "undone"}]
  /\ batch \in [Packers -> SUBSET Events]
  /\ id \in [Packers -> PackIds \cup {NoPack}]
  /\ sweep \in [at: {"idle", "dropped", "packs"}, weeks: SUBSET Weeks,
                left: SUBSET PackIds, gone: PackIds \cup {NoPack}]
  /\ reading \subseteq Events \X PackIds
  /\ \A e \in Events : place[e] # NoPack => place[e] \in packs   \* the foreign key

Init ==
  /\ stored = {} /\ spool = {} /\ packs = {} /\ ended = {} /\ reading = {}
  /\ place = [e \in Events |-> NoPack]
  /\ \E w \in Weeks : weekOf = [p \in PackIds |-> w]
  /\ objects = [p \in PackIds |-> {}]
  /\ step = [r \in Packers |-> "idle"]
  /\ batch = [r \in Packers |-> {}]
  /\ id = [r \in Packers |-> NoPack]
  /\ sweep = NoSweep

-----------------------------------------------------------------------------
\* InsertEvents: the row and its spooled payload, in one transaction.
Ingest(e) ==
  /\ e \notin stored /\ e \notin spool /\ WeekOf[e] \notin ended
  /\ stored' = stored \cup {e}
  /\ spool' = spool \cup {e}
  /\ UNCHANGED <<place, packs, weekOf, objects, ended, packerVars, sweep, reading>>

\* Time passes: the retention cutoff reaches the end of a week.
EndWeek(w) ==
  /\ w \notin ended
  /\ ended' = ended \cup {w}
  /\ UNCHANGED <<rowVars, objects, packerVars, sweep, reading>>

-----------------------------------------------------------------------------
(* packOne *)

\* SpoolGroups and SpoolRows: some payloads of one week.
ReadSpool(r, S) ==
  /\ step[r] = "idle"
  /\ S # {} /\ S \subseteq spool /\ Cardinality(S) <= PackRows
  /\ \A e, f \in S : WeekOf[e] = WeekOf[f]
  /\ batch' = [batch EXCEPT ![r] = S]
  /\ step' = [step EXCEPT ![r] = "read"]
  /\ UNCHANGED <<rowVars, objects, ended, id, sweep, reading>>

Unused(p) ==
  /\ p \notin packs /\ objects[p] = {} /\ p \notin sweep.left \cup {sweep.gone}
  /\ \A r \in Packers : id[r] # p
  /\ \A e \in Events : <<e, p>> \notin reading

InsertPack(r, p) ==
  /\ step[r] = "read" /\ Unused(p)
  /\ packs' = packs \cup {p}
  /\ weekOf' = [weekOf EXCEPT ![p] = WeekOf[CHOOSE e \in batch[r] : TRUE]]
  /\ id' = [id EXCEPT ![r] = p]
  /\ step' = [step EXCEPT ![r] = "inserted"]
  /\ UNCHANGED <<stored, spool, place, objects, ended, batch, sweep, reading>>

PutObject(r) ==
  /\ step[r] = "inserted"
  /\ objects' = [objects EXCEPT ![id[r]] = batch[r]]
  /\ step' = [step EXCEPT ![r] = "put"]
  /\ UNCHANGED <<rowVars, ended, batch, id, sweep, reading>>

\* Put returns an error, perhaps after the store kept the object; only the row
\* is undone.
PutFails(r, written) ==
  /\ step[r] = "inserted"
  /\ ReliableStore => ~written
  /\ objects' = [objects EXCEPT ![id[r]] = IF written THEN batch[r] ELSE @]
  /\ step' = [step EXCEPT ![r] = "undone"]
  /\ UNCHANGED <<rowVars, ended, batch, id, sweep, reading>>

\* The flush transaction: InsertEventPacks (the foreign key wants the packs
\* row) and DeleteSpoolRows.
Flush(r) ==
  /\ id[r] \in packs
  /\ place' = [e \in Events |-> IF e \in batch[r] THEN id[r] ELSE place[e]]
  /\ spool' = spool \ batch[r]
  /\ UNCHANGED <<stored, packs, weekOf>>

Done(r) ==
  /\ step' = [step EXCEPT ![r] = "idle"]
  /\ batch' = [batch EXCEPT ![r] = {}]
  /\ id' = [id EXCEPT ![r] = NoPack]

FlushCommits(r) ==
  /\ step[r] = "put"
  /\ Flush(r) /\ Done(r)
  /\ UNCHANGED <<objects, ended, sweep, reading>>

\* Faulty: the spool rows are deleted by a transaction of their own.
FlushHalf(r) ==
  /\ step[r] = "put"
  /\ UNCHANGED rowVars \/ (spool' = spool \ batch[r] /\ UNCHANGED <<stored, place, packs, weekOf>>)
  /\ step' = [step EXCEPT ![r] = "undo"]
  /\ UNCHANGED <<objects, ended, batch, id, sweep, reading>>

\* An error out of the transaction: it was rolled back, or (the context done or
\* the connection lost at COMMIT) it was committed all the same.
FlushFails(r) ==
  /\ step[r] = "put"
  /\ UNCHANGED rowVars \/ (~KnownOutcome /\ Flush(r))
  /\ step' = [step EXCEPT ![r] = "undo"]
  /\ UNCHANGED <<objects, ended, batch, id, sweep, reading>>

\* Faulty: only the row is undone.
UndoSkipped(r, ok) ==
  /\ step[r] = "undo"
  /\ step' = [step EXCEPT ![r] = "undone"]
  /\ UNCHANGED <<rowVars, objects, ended, batch, id, sweep, reading>>

\* Blobs.Delete, its error ignored.
UndoObject(r, ok) ==
  /\ step[r] = "undo"
  /\ ReliableStore => ok
  /\ objects' = [objects EXCEPT ![id[r]] = IF ok THEN {} ELSE @]
  /\ step' = [step EXCEPT ![r] = "undone"]
  /\ UNCHANGED <<rowVars, ended, batch, id, sweep, reading>>

\* DELETE FROM packs WHERE id: event_packs goes by cascade.
DeletePack(p) ==
  /\ packs' = packs \ {p}
  /\ place' = [e \in Events |-> IF place[e] = p THEN NoPack ELSE place[e]]
  /\ UNCHANGED <<stored, spool, weekOf>>

UndoRow(r, ok) ==
  /\ step[r] = "undone"
  /\ IF ok THEN DeletePack(id[r]) ELSE UNCHANGED rowVars
  /\ Done(r)
  /\ UNCHANGED <<objects, ended, sweep, reading>>

\* The process dies, or an earlier statement fails: what is written stays.
CrashPacker(r) ==
  /\ step[r] # "idle"
  /\ Done(r)
  /\ UNCHANGED <<rowVars, objects, ended, sweep, reading>>

-----------------------------------------------------------------------------
(* The sweep: dropExpiredPartitions and ExpirePacks. *)

DropPartitions ==
  /\ sweep.at = "idle" /\ ended # {}
  /\ stored' = {e \in stored : WeekOf[e] \notin ended}
  /\ sweep' = [NoSweep EXCEPT !.at = "dropped", !.weeks = ended]
  /\ UNCHANGED <<spool, place, packs, weekOf, objects, ended, packerVars, reading>>

ListPacks(S) ==
  /\ sweep.at = "dropped"
  /\ sweep' = [sweep EXCEPT !.at = "packs", !.left = S]
  /\ UNCHANGED <<rowVars, objects, ended, packerVars, reading>>

\* Faulty: only the packs that some event still points into.
ListPlacedPacks ==
  ListPacks({p \in packs : weekOf[p] \in sweep.weeks /\ \E e \in Events : place[e] = p})

\* SELECT id FROM packs WHERE week_start < cutoff, the cutoff of this sweep.
ExpiredPacks == ListPacks({p \in packs : weekOf[p] \in sweep.weeks})

\* One expired pack after another: its object (there may be none), where a
\* failed delete leaves it to the next sweep, ...
ExpireObject(p, ok) ==
  /\ sweep.gone = NoPack /\ p \in sweep.left
  /\ ReliableStore => ok
  /\ objects' = [objects EXCEPT ![p] = IF ok THEN {} ELSE @]
  /\ sweep' = [sweep EXCEPT !.left = @ \ {p}, !.gone = IF ok THEN p ELSE NoPack]
  /\ UNCHANGED <<rowVars, ended, packerVars, reading>>

\* ... then its row.
ExpireRow(p) ==
  /\ sweep.gone = p
  /\ DeletePack(p)
  /\ sweep' = [sweep EXCEPT !.gone = NoPack]
  /\ UNCHANGED <<objects, ended, packerVars, reading>>

ExpireSpool ==
  /\ sweep.at = "packs" /\ sweep.left = {} /\ sweep.gone = NoPack
  /\ spool' = {e \in spool : WeekOf[e] \notin sweep.weeks}
  /\ sweep' = NoSweep
  /\ UNCHANGED <<stored, place, packs, weekOf, objects, ended, packerVars, reading>>

CrashSweep ==
  /\ sweep.at # "idle"
  /\ sweep' = NoSweep
  /\ UNCHANGED <<rowVars, objects, ended, packerVars, reading>>

-----------------------------------------------------------------------------
(* Payload: PayloadLocation reads spool and place in one statement; a place is
   fetched by a request of its own. *)

Locate(e) ==
  /\ e \in stored /\ e \notin spool /\ place[e] # NoPack
  /\ reading = {}
  /\ reading' = {<<e, place[e]>>}
  /\ UNCHANGED <<rowVars, objects, ended, packerVars, sweep>>

Fetch ==
  /\ reading # {}
  /\ reading' = {}
  /\ UNCHANGED <<rowVars, objects, ended, packerVars, sweep>>

Next ==
  \/ \E e \in Events : Ingest(e) \/ Locate(e)
  \/ Fetch
  \/ \E w \in Weeks : EndWeek(w)
  \/ \E r \in Packers :
       \/ \E S \in SUBSET Events : ReadSpool(r, S)
       \/ \E p \in PackIds : InsertPack(r, p)
       \/ PutObject(r)
       \/ \E written \in BOOLEAN : PutFails(r, written)
       \/ FlushCommits(r) \/ FlushFails(r)
       \/ \E ok \in BOOLEAN : UndoObject(r, ok) \/ UndoRow(r, ok)
       \/ CrashPacker(r)
  \/ DropPartitions \/ ExpiredPacks \/ ExpireSpool \/ CrashSweep
  \/ \E p \in PackIds : ExpireRow(p) \/ (\E ok \in BOOLEAN : ExpireObject(p, ok))

Spec == Init /\ [][Next]_vars

\* The leader's ticks flush and sweep again and again; a request that fails
\* does not fail every time for ever, and sweeps are not cut short for ever (the
\* last step of a sweep that expires nothing looks like a crash).
Fairness ==
  /\ \A r \in Packers :
       /\ WF_vars(\E S \in SUBSET Events : ReadSpool(r, S))
       /\ SF_vars(\E p \in PackIds : InsertPack(r, p))
       /\ SF_vars(PutObject(r)) /\ SF_vars(FlushCommits(r))
       /\ WF_vars(FlushCommits(r) \/ FlushFails(r))
       /\ WF_vars(\E ok \in BOOLEAN : UndoObject(r, ok) \/ UndoRow(r, ok))
  /\ WF_vars(\/ DropPartitions \/ ExpiredPacks \/ ExpireSpool
             \/ \E p \in PackIds : ExpireObject(p, TRUE) \/ ExpireRow(p))
  /\ <>[][CrashSweep => ExpireSpool]_vars

FairSpec == Spec /\ Fairness

-----------------------------------------------------------------------------
(* Properties. *)

\* "a crash at any point leaves either the spool rows (the next run repacks
\* them) or a complete pack": every stored event has its payload, through
\* crashes, failed requests, two flushers and the sweep.  A reader that located
\* a payload still finds its bytes when it fetches them: NotFound means the
\* week expired.
PayloadKept ==
  /\ \A e \in stored : e \in spool \/ (place[e] # NoPack /\ e \in objects[place[e]])
  /\ \A er \in reading : er[1] \in stored => er[1] \in objects[er[2]]

\* "the object and its packs row wait for the week sweep": an object of a week
\* that has not ended has its packs row, the only way a sweep ever finds it.
ObjectHasRow ==
  \A p \in PackIds :
    (objects[p] # {} /\ weekOf[p] \notin ended) => p \in packs

\* Payloads move on.  A spooled one is eventually packed or dropped, as long as
\* there are ids for new packs (the ids a model has are few, and the packs rows
\* that crashes leave keep theirs until the sweep).  The packs of a week that
\* ended are eventually gone: their rows, and the objects of those with
\* payloads, even when a late flush adds one while the sweep is under way (but
\* not between the two deletes of that very pack).
PacksExpire ==
  /\ []<>(\E p \in PackIds : Unused(p)) =>
       \A e \in Events : (e \in spool) ~> (e \notin spool)
  /\ \A p \in PackIds :
       /\ (p \in packs /\ weekOf[p] \in ended) ~> p \notin packs
       /\ (p \in packs /\ weekOf[p] \in ended /\ sweep.gone # p /\ \E e \in Events : place[e] = p)
            ~> (p \notin packs /\ objects[p] = {})
=============================================================================
