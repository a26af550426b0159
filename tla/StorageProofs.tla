---------------------------- MODULE StorageProofs -----------------------------
(***************************************************************************)
(* Proofs about what is stored: payload packs, for any number of           *)
(* processes, spool rows and packs (PayloadPacks); the partitions and the  *)
(* payloads they name, for any number of weeks and of sweeping processes   *)
(* (Partitions); the chunks of uploaded files, for any files, any sharing  *)
(* of chunks among them and any number of assemble requests (Chunks); the  *)
(* export and the import, for any rows (Transfer).  They share no state;   *)
(* each theorem is about one of the specifications.                        *)
(***************************************************************************)
EXTENDS PayloadPacks, Partitions, Chunks, Transfer, FiniteSetTheorems, TLAPS

-----------------------------------------------------------------------------
(* PayloadPacks. *)

\* Nothing is stored of a week that ended, and nothing will be.
Dropped(w) == w \in ended /\ \A e \in stored : WeekOf[e] # w

\* A flusher writes one pack, of one week and its own.
PackersKnow ==
  \A r \in Packers :
    /\ step[r] \in {"idle", "read"} <=> id[r] = NoPack
    /\ step[r] # "idle" => batch[r] # {}
    /\ \A e, f \in batch[r] : WeekOf[e] = WeekOf[f]
    /\ id[r] # NoPack => /\ \A e \in batch[r] : WeekOf[e] = weekOf[id[r]]
                         /\ \A q \in Packers : id[q] = id[r] => q = r

\* The sweep deletes packs of weeks whose partitions it dropped.
SweepKnows ==
  /\ \A w \in sweep.weeks : Dropped(w)
  /\ \A p \in PackIds : p \in sweep.left \/ p = sweep.gone => weekOf[p] \in sweep.weeks

\* No event points into a pack before the flush commits.  The bytes of a
\* payload are where the flusher about to point into its pack,
\* the rows of event_packs and the readers that located it look for them, and
\* an event that is stored is spooled or placed.
NonePlaced == \A r \in Packers, e \in Events : id[r] # NoPack => place[e] # id[r]
PutThere == \A r \in Packers :
  step[r] = "put" => batch[r] \subseteq objects[id[r]] \/ Dropped(weekOf[id[r]])
PlacedThere == \A e \in Events :
  place[e] # NoPack => weekOf[place[e]] = WeekOf[e] /\ (e \in objects[place[e]] \/ Dropped(WeekOf[e]))
LocatedThere == \A e \in Events, p \in PackIds :
  <<e, p>> \in reading => /\ weekOf[p] = WeekOf[e] /\ (e \in objects[p] \/ Dropped(WeekOf[e]))
                         /\ \A r \in Packers : id[r] # p
NoneLost == \A e \in stored : e \in spool \/ place[e] # NoPack

BytesThere == NonePlaced /\ PutThere /\ PlacedThere /\ LocatedThere /\ NoneLost

PackInv == TypeOK /\ PackersKnow /\ SweepKnows

\* The row of a pack goes before its week ends only with no object to find.
ObjectsKnown ==
  \A r \in Packers :
    /\ id[r] # NoPack => id[r] \in packs \/ weekOf[id[r]] \in ended
    /\ step[r] \in {"inserted", "undone"} /\ weekOf[id[r]] \notin ended => objects[id[r]] = {}

LEMMA PackInitInv == Init => PackInv /\ BytesThere /\ ObjectsKnown
<1> SUFFICES ASSUME Init PROVE PackInv /\ BytesThere /\ ObjectsKnown
  OBVIOUS
<1> USE PayloadPacksAssumption
<1>1. TypeOK
  BY DEF Init, TypeOK, NoSweep
<1>2. PackersKnow /\ ObjectsKnown
  BY DEF Init, PackersKnow, ObjectsKnown
<1>3. SweepKnows /\ BytesThere
  BY DEF Init, NoSweep, SweepKnows, BytesThere, NonePlaced, PutThere, PlacedThere, LocatedThere, NoneLost
<1> QED BY <1>1, <1>2, <1>3 DEF PackInv

LEMMA PackStepInv == ASSUME PackInv, [Next]_vars PROVE PackInv'
<1> USE PayloadPacksAssumption DEF PackInv
<1>1. ASSUME NEW e \in Events, Ingest(e) PROVE PackInv'
  <2>1. TypeOK'
    BY <1>1 DEF Ingest, packerVars, TypeOK
  <2>2. PackersKnow'
    BY <1>1 DEF Ingest, packerVars, TypeOK, PackersKnow
  <2>3. SweepKnows'
    BY <1>1 DEF Ingest, packerVars, TypeOK, SweepKnows, Dropped
  <2> QED BY <2>1, <2>2, <2>3
<1>2. ASSUME NEW w \in Weeks, EndWeek(w) PROVE PackInv'
  <2>1. TypeOK'
    BY <1>2 DEF EndWeek, packerVars, rowVars, TypeOK
  <2>2. PackersKnow'
    BY <1>2 DEF EndWeek, packerVars, rowVars, TypeOK, PackersKnow
  <2>3. SweepKnows'
    BY <1>2 DEF EndWeek, packerVars, rowVars, TypeOK, SweepKnows, Dropped
  <2> QED BY <2>1, <2>2, <2>3
<1>3. ASSUME NEW r \in Packers, NEW S \in SUBSET Events, ReadSpool(r, S) PROVE PackInv'
  <2>1. TypeOK'
    BY <1>3 DEF ReadSpool, rowVars, TypeOK
  <2>2. PackersKnow'
    BY <1>3 DEF ReadSpool, rowVars, TypeOK, PackersKnow
  <2>3. SweepKnows'
    BY <1>3 DEF ReadSpool, rowVars, TypeOK, SweepKnows, Dropped
  <2> QED BY <2>1, <2>2, <2>3
<1>4. ASSUME NEW r \in Packers, NEW p \in PackIds, InsertPack(r, p) PROVE PackInv'
  <2> DEFINE w == WeekOf[CHOOSE e \in batch[r] : TRUE]
  <2>1. batch[r] # {} /\ (\A e \in batch[r] : WeekOf[e] = w) /\ w \in Weeks
    BY <1>4 DEF InsertPack, TypeOK, PackersKnow
  <2>2. /\ weekOf' = [weekOf EXCEPT ![p] = w] /\ id' = [id EXCEPT ![r] = p]
        /\ step' = [step EXCEPT ![r] = "inserted"] /\ packs' = packs \cup {p}
        /\ UNCHANGED <<stored, spool, place, objects, ended, batch, sweep, reading>>
        /\ p \notin sweep.left \cup {sweep.gone} /\ (\A q \in Packers : id[q] # p)
    BY <1>4 DEF InsertPack, Unused
  <2> HIDE DEF w
  <2>3. TypeOK'
    BY <2>1, <2>2 DEF TypeOK
  <2>4. PackersKnow'
    BY <2>1, <2>2 DEF TypeOK, PackersKnow
  <2>5. SweepKnows'
    BY <2>2 DEF TypeOK, SweepKnows, Dropped
  <2> QED BY <2>3, <2>4, <2>5
<1>5. ASSUME NEW r \in Packers, PutObject(r) PROVE PackInv'
  <2>1. TypeOK'
    BY <1>5 DEF PutObject, rowVars, TypeOK, PackersKnow
  <2>2. PackersKnow'
    BY <1>5 DEF PutObject, rowVars, TypeOK, PackersKnow
  <2>3. SweepKnows'
    BY <1>5 DEF PutObject, rowVars, TypeOK, SweepKnows, Dropped
  <2> QED BY <2>1, <2>2, <2>3
<1>6. ASSUME NEW r \in Packers, NEW wrote \in BOOLEAN, PutFails(r, wrote) PROVE PackInv'
  <2>1. TypeOK'
    BY <1>6 DEF PutFails, rowVars, TypeOK, PackersKnow
  <2>2. PackersKnow'
    BY <1>6 DEF PutFails, rowVars, TypeOK, PackersKnow
  <2>3. SweepKnows'
    BY <1>6 DEF PutFails, rowVars, TypeOK, SweepKnows, Dropped
  <2> QED BY <2>1, <2>2, <2>3
<1>7. ASSUME NEW r \in Packers, FlushCommits(r) PROVE PackInv'
  <2>1. TypeOK'
    BY <1>7 DEF FlushCommits, Flush, Done, TypeOK, PackersKnow
  <2>2. PackersKnow'
    BY <1>7 DEF FlushCommits, Flush, Done, TypeOK, PackersKnow
  <2>3. SweepKnows'
    BY <1>7 DEF FlushCommits, Flush, Done, TypeOK, SweepKnows, Dropped
  <2> QED BY <2>1, <2>2, <2>3
<1>8. ASSUME NEW r \in Packers, FlushFails(r) PROVE PackInv'
  <2>1. TypeOK'
    BY <1>8 DEF FlushFails, Flush, rowVars, TypeOK, PackersKnow
  <2>2. PackersKnow'
    BY <1>8 DEF FlushFails, Flush, rowVars, TypeOK, PackersKnow
  <2>3. SweepKnows'
    BY <1>8 DEF FlushFails, Flush, rowVars, TypeOK, SweepKnows, Dropped
  <2> QED BY <2>1, <2>2, <2>3
<1>9. ASSUME NEW r \in Packers, NEW ok \in BOOLEAN, UndoObject(r, ok) PROVE PackInv'
  <2>1. TypeOK'
    BY <1>9 DEF UndoObject, rowVars, TypeOK, PackersKnow
  <2>2. PackersKnow'
    BY <1>9 DEF UndoObject, rowVars, TypeOK, PackersKnow
  <2>3. SweepKnows'
    BY <1>9 DEF UndoObject, rowVars, TypeOK, SweepKnows, Dropped
  <2> QED BY <2>1, <2>2, <2>3
<1>10. ASSUME NEW r \in Packers, NEW ok \in BOOLEAN, UndoRow(r, ok) PROVE PackInv'
  <2>1. /\ id[r] \in PackIds
        /\ step' = [step EXCEPT ![r] = "idle"] /\ batch' = [batch EXCEPT ![r] = {}]
        /\ id' = [id EXCEPT ![r] = NoPack]
        /\ UNCHANGED <<stored, spool, weekOf, objects, ended, sweep, reading>>
        /\ \/ UNCHANGED <<place, packs>>
           \/ /\ packs' = packs \ {id[r]}
              /\ place' = [e \in Events |-> IF place[e] = id[r] THEN NoPack ELSE place[e]]
    BY <1>10 DEF UndoRow, DeletePack, Done, rowVars, TypeOK, PackersKnow
  <2>2. TypeOK'
    BY <2>1 DEF TypeOK
  <2>3. PackersKnow'
    BY <2>1 DEF TypeOK, PackersKnow
  <2>4. SweepKnows'
    BY <2>1 DEF TypeOK, SweepKnows, Dropped
  <2> QED BY <2>2, <2>3, <2>4
<1>11. ASSUME NEW r \in Packers, CrashPacker(r) PROVE PackInv'
  <2>1. TypeOK'
    BY <1>11 DEF CrashPacker, Done, rowVars, TypeOK
  <2>2. PackersKnow'
    BY <1>11 DEF CrashPacker, Done, rowVars, TypeOK, PackersKnow
  <2>3. SweepKnows'
    BY <1>11 DEF CrashPacker, Done, rowVars, TypeOK, SweepKnows, Dropped
  <2> QED BY <2>1, <2>2, <2>3
<1>12. CASE DropPartitions
  <2>1. TypeOK'
    BY <1>12 DEF DropPartitions, NoSweep, packerVars, TypeOK
  <2>2. PackersKnow'
    BY <1>12 DEF DropPartitions, NoSweep, packerVars, TypeOK, PackersKnow
  <2>3. SweepKnows'
    BY <1>12 DEF DropPartitions, NoSweep, packerVars, TypeOK, SweepKnows, Dropped
  <2> QED BY <2>1, <2>2, <2>3
<1>13. CASE ExpiredPacks
  <2>1. TypeOK'
    BY <1>13 DEF ExpiredPacks, ListPacks, packerVars, rowVars, TypeOK
  <2>2. PackersKnow'
    BY <1>13 DEF ExpiredPacks, ListPacks, packerVars, rowVars, TypeOK, PackersKnow
  <2>3. SweepKnows'
    BY <1>13 DEF ExpiredPacks, ListPacks, packerVars, rowVars, TypeOK, SweepKnows, Dropped
  <2> QED BY <2>1, <2>2, <2>3
<1>14. ASSUME NEW p \in PackIds, NEW ok \in BOOLEAN, ExpireObject(p, ok) PROVE PackInv'
  <2>1. TypeOK'
    BY <1>14 DEF ExpireObject, packerVars, rowVars, TypeOK
  <2>2. PackersKnow'
    BY <1>14 DEF ExpireObject, packerVars, rowVars, TypeOK, PackersKnow
  <2>3. SweepKnows'
    BY <1>14 DEF ExpireObject, packerVars, rowVars, TypeOK, SweepKnows, Dropped
  <2> QED BY <2>1, <2>2, <2>3
<1>15. ASSUME NEW p \in PackIds, ExpireRow(p) PROVE PackInv'
  <2>1. TypeOK'
    BY <1>15 DEF ExpireRow, DeletePack, packerVars, TypeOK
  <2>2. PackersKnow'
    BY <1>15 DEF ExpireRow, DeletePack, packerVars, TypeOK, PackersKnow
  <2>3. SweepKnows'
    BY <1>15 DEF ExpireRow, DeletePack, packerVars, TypeOK, SweepKnows, Dropped
  <2> QED BY <2>1, <2>2, <2>3
<1>16. CASE ExpireSpool
  <2>1. TypeOK'
    BY <1>16 DEF ExpireSpool, NoSweep, packerVars, TypeOK
  <2>2. PackersKnow'
    BY <1>16 DEF ExpireSpool, NoSweep, packerVars, TypeOK, PackersKnow
  <2>3. SweepKnows'
    BY <1>16 DEF ExpireSpool, NoSweep, packerVars, TypeOK, SweepKnows, Dropped
  <2> QED BY <2>1, <2>2, <2>3
<1>17. CASE CrashSweep
  <2>1. TypeOK'
    BY <1>17 DEF CrashSweep, NoSweep, packerVars, rowVars, TypeOK
  <2>2. PackersKnow'
    BY <1>17 DEF CrashSweep, NoSweep, packerVars, rowVars, TypeOK, PackersKnow
  <2>3. SweepKnows'
    BY <1>17 DEF CrashSweep, NoSweep, packerVars, rowVars, TypeOK, SweepKnows, Dropped
  <2> QED BY <2>1, <2>2, <2>3
<1>18. ASSUME NEW e \in Events, Locate(e) PROVE PackInv'
  <2>1. TypeOK'
    BY <1>18 DEF Locate, packerVars, rowVars, TypeOK
  <2>2. PackersKnow'
    BY <1>18 DEF Locate, packerVars, rowVars, TypeOK, PackersKnow
  <2>3. SweepKnows'
    BY <1>18 DEF Locate, packerVars, rowVars, TypeOK, SweepKnows, Dropped
  <2> QED BY <2>1, <2>2, <2>3
<1>19. CASE Fetch
  <2>1. TypeOK'
    BY <1>19 DEF Fetch, packerVars, rowVars, TypeOK
  <2>2. PackersKnow'
    BY <1>19 DEF Fetch, packerVars, rowVars, TypeOK, PackersKnow
  <2>3. SweepKnows'
    BY <1>19 DEF Fetch, packerVars, rowVars, TypeOK, SweepKnows, Dropped
  <2> QED BY <2>1, <2>2, <2>3
<1>20. CASE UNCHANGED vars
  BY <1>20 DEF vars, TypeOK, PackersKnow, SweepKnows, Dropped
<1> QED
  BY <1>1, <1>2, <1>3, <1>4, <1>5, <1>6, <1>7, <1>8, <1>9, <1>10, <1>11, <1>12, <1>13, <1>14,
     <1>15, <1>16, <1>17, <1>18, <1>19, <1>20 DEF Next

LEMMA BytesStep == ASSUME PackInv, BytesThere, KnownOutcome, [Next]_vars PROVE BytesThere'
<1> USE PayloadPacksAssumption DEF PackInv, BytesThere
<1>1. ASSUME NEW e \in Events, Ingest(e) PROVE BytesThere'
  <2>3. NonePlaced'
    BY <1>1 DEF Ingest, packerVars, TypeOK, PackersKnow, Dropped, NonePlaced
  <2>4. PutThere'
    BY <1>1 DEF Ingest, packerVars, TypeOK, PackersKnow, Dropped, PutThere
  <2>5. PlacedThere'
    BY <1>1 DEF Ingest, packerVars, TypeOK, PackersKnow, Dropped, NonePlaced, PlacedThere
  <2>6. LocatedThere'
    BY <1>1 DEF Ingest, packerVars, TypeOK, PackersKnow, Dropped, NonePlaced, LocatedThere
  <2>7. NoneLost'
    BY <1>1 DEF Ingest, packerVars, TypeOK, PackersKnow, Dropped, NoneLost
  <2> QED BY <2>3, <2>4, <2>5, <2>6, <2>7
<1>2. ASSUME NEW w \in Weeks, EndWeek(w) PROVE BytesThere'
  <2>3. NonePlaced'
    BY <1>2 DEF EndWeek, packerVars, rowVars, TypeOK, PackersKnow, Dropped, NonePlaced
  <2>4. PutThere'
    BY <1>2 DEF EndWeek, packerVars, rowVars, TypeOK, PackersKnow, Dropped, PutThere
  <2>5. PlacedThere'
    BY <1>2 DEF EndWeek, packerVars, rowVars, TypeOK, PackersKnow, Dropped, NonePlaced, PlacedThere
  <2>6. LocatedThere'
    BY <1>2 DEF EndWeek, packerVars, rowVars, TypeOK, PackersKnow, Dropped, NonePlaced, LocatedThere
  <2>7. NoneLost'
    BY <1>2 DEF EndWeek, packerVars, rowVars, TypeOK, PackersKnow, Dropped, NoneLost
  <2> QED BY <2>3, <2>4, <2>5, <2>6, <2>7
<1>3. ASSUME NEW r \in Packers, NEW S \in SUBSET Events, ReadSpool(r, S) PROVE BytesThere'
  <2>3. NonePlaced'
    BY <1>3 DEF ReadSpool, rowVars, TypeOK, PackersKnow, Dropped, NonePlaced
  <2>4. PutThere'
    BY <1>3 DEF ReadSpool, rowVars, TypeOK, PackersKnow, Dropped, PutThere
  <2>5. PlacedThere'
    BY <1>3 DEF ReadSpool, rowVars, TypeOK, PackersKnow, Dropped, NonePlaced, PlacedThere
  <2>6. LocatedThere'
    BY <1>3 DEF ReadSpool, rowVars, TypeOK, PackersKnow, Dropped, NonePlaced, LocatedThere
  <2>7. NoneLost'
    BY <1>3 DEF ReadSpool, rowVars, TypeOK, PackersKnow, Dropped, NoneLost
  <2> QED BY <2>3, <2>4, <2>5, <2>6, <2>7
<1>4. ASSUME NEW r \in Packers, NEW p \in PackIds, InsertPack(r, p) PROVE BytesThere'
  <2>1. /\ weekOf' = [weekOf EXCEPT ![p] = WeekOf[CHOOSE e \in batch[r] : TRUE]]
        /\ id' = [id EXCEPT ![r] = p] /\ step' = [step EXCEPT ![r] = "inserted"]
        /\ UNCHANGED <<stored, spool, place, objects, ended, batch, sweep, reading>>
    BY <1>4 DEF InsertPack
  <2>2. /\ \A e \in Events : place[e] # p /\ <<e, p>> \notin reading
        /\ \A q \in Packers : id[q] # p
    BY <1>4 DEF InsertPack, Unused, TypeOK
  <2>3. NonePlaced'
    BY <2>1, <2>2 DEF TypeOK, PackersKnow, Dropped, NonePlaced
  <2>4. PutThere'
    BY <2>1, <2>2 DEF TypeOK, PackersKnow, Dropped, PutThere
  <2>5. PlacedThere'
    <3>1. \A e \in Events : place[e] # NoPack => weekOf'[place[e]] = weekOf[place[e]]
      BY <2>1, <2>2 DEF TypeOK
    <3> QED BY <2>1, <3>1 DEF Dropped, PlacedThere
  <2>6. LocatedThere'
    BY <2>1, <2>2 DEF TypeOK, PackersKnow, Dropped, NonePlaced, LocatedThere
  <2>7. NoneLost'
    BY <2>1, <2>2 DEF TypeOK, PackersKnow, Dropped, NoneLost
  <2> QED BY <2>3, <2>4, <2>5, <2>6, <2>7
<1>5. ASSUME NEW r \in Packers, PutObject(r) PROVE BytesThere'
  <2>3. NonePlaced'
    BY <1>5 DEF PutObject, rowVars, TypeOK, PackersKnow, Dropped, NonePlaced
  <2>4. PutThere'
    BY <1>5 DEF PutObject, rowVars, TypeOK, PackersKnow, Dropped, PutThere
  <2>5. PlacedThere'
    BY <1>5 DEF PutObject, rowVars, TypeOK, PackersKnow, Dropped, NonePlaced, PlacedThere
  <2>6. LocatedThere'
    BY <1>5 DEF PutObject, rowVars, TypeOK, PackersKnow, Dropped, NonePlaced, LocatedThere
  <2>7. NoneLost'
    BY <1>5 DEF PutObject, rowVars, TypeOK, PackersKnow, Dropped, NoneLost
  <2> QED BY <2>3, <2>4, <2>5, <2>6, <2>7
<1>6. ASSUME NEW r \in Packers, NEW wrote \in BOOLEAN, PutFails(r, wrote) PROVE BytesThere'
  <2>3. NonePlaced'
    BY <1>6 DEF PutFails, rowVars, TypeOK, PackersKnow, Dropped, NonePlaced
  <2>4. PutThere'
    BY <1>6 DEF PutFails, rowVars, TypeOK, PackersKnow, Dropped, PutThere
  <2>5. PlacedThere'
    BY <1>6 DEF PutFails, rowVars, TypeOK, PackersKnow, Dropped, NonePlaced, PlacedThere
  <2>6. LocatedThere'
    BY <1>6 DEF PutFails, rowVars, TypeOK, PackersKnow, Dropped, NonePlaced, LocatedThere
  <2>7. NoneLost'
    BY <1>6 DEF PutFails, rowVars, TypeOK, PackersKnow, Dropped, NoneLost
  <2> QED BY <2>3, <2>4, <2>5, <2>6, <2>7
<1>7. ASSUME NEW r \in Packers, FlushCommits(r) PROVE BytesThere'
  <2>1. /\ id[r] \in PackIds /\ batch[r] \subseteq Events
        /\ place' = [e \in Events |-> IF e \in batch[r] THEN id[r] ELSE place[e]]
        /\ spool' = spool \ batch[r]
        /\ step' = [step EXCEPT ![r] = "idle"] /\ id' = [id EXCEPT ![r] = NoPack]
        /\ batch' = [batch EXCEPT ![r] = {}]
        /\ UNCHANGED <<stored, weekOf, objects, ended, reading>>
    BY <1>7 DEF FlushCommits, Flush, Done, TypeOK
  <2>2. /\ batch[r] \subseteq objects[id[r]] \/ Dropped(weekOf[id[r]])
        /\ \A e \in batch[r] : WeekOf[e] = weekOf[id[r]]
    BY <1>7, <2>1 DEF FlushCommits, PutThere, PackersKnow
  <2>3. NonePlaced'
    BY <2>1, <2>2 DEF TypeOK, Dropped, PackersKnow, NonePlaced
  <2>4. PutThere'
    BY <2>1, <2>2 DEF TypeOK, Dropped, PutThere
  <2>5. PlacedThere'
    BY <2>1, <2>2 DEF TypeOK, Dropped, NonePlaced, PlacedThere
  <2>6. LocatedThere'
    BY <2>1, <2>2 DEF TypeOK, Dropped, NonePlaced, LocatedThere
  <2>7. NoneLost'
    BY <2>1, <2>2 DEF TypeOK, Dropped, NoneLost
  <2> QED BY <2>3, <2>4, <2>5, <2>6, <2>7
<1>8. ASSUME NEW r \in Packers, FlushFails(r) PROVE BytesThere'
  <2>3. NonePlaced'
    BY <1>8 DEF FlushFails, Flush, rowVars, TypeOK, PackersKnow, Dropped, NonePlaced
  <2>4. PutThere'
    BY <1>8 DEF FlushFails, Flush, rowVars, TypeOK, PackersKnow, Dropped, PutThere
  <2>5. PlacedThere'
    BY <1>8 DEF FlushFails, Flush, rowVars, TypeOK, PackersKnow, Dropped, NonePlaced, PlacedThere
  <2>6. LocatedThere'
    BY <1>8 DEF FlushFails, Flush, rowVars, TypeOK, PackersKnow, Dropped, NonePlaced, LocatedThere
  <2>7. NoneLost'
    BY <1>8 DEF FlushFails, Flush, rowVars, TypeOK, PackersKnow, Dropped, NoneLost
  <2> QED BY <2>3, <2>4, <2>5, <2>6, <2>7
<1>9. ASSUME NEW r \in Packers, NEW ok \in BOOLEAN, UndoObject(r, ok) PROVE BytesThere'
  <2>3. NonePlaced'
    BY <1>9 DEF UndoObject, rowVars, TypeOK, PackersKnow, Dropped, NonePlaced
  <2>4. PutThere'
    BY <1>9 DEF UndoObject, rowVars, TypeOK, PackersKnow, Dropped, PutThere
  <2>5. PlacedThere'
    BY <1>9 DEF UndoObject, rowVars, TypeOK, PackersKnow, Dropped, NonePlaced, PlacedThere
  <2>6. LocatedThere'
    BY <1>9 DEF UndoObject, rowVars, TypeOK, PackersKnow, Dropped, NonePlaced, LocatedThere
  <2>7. NoneLost'
    BY <1>9 DEF UndoObject, rowVars, TypeOK, PackersKnow, Dropped, NoneLost
  <2> QED BY <2>3, <2>4, <2>5, <2>6, <2>7
<1>10. ASSUME NEW r \in Packers, NEW ok \in BOOLEAN, UndoRow(r, ok) PROVE BytesThere'
  <2>1. /\ id[r] \in PackIds
        /\ step' = [step EXCEPT ![r] = "idle"] /\ id' = [id EXCEPT ![r] = NoPack]
        /\ batch' = [batch EXCEPT ![r] = {}]
        /\ UNCHANGED <<stored, spool, place, weekOf, objects, ended, sweep, reading>>
    BY <1>10 DEF UndoRow, DeletePack, Done, rowVars, TypeOK, PackersKnow, NonePlaced
  <2>3. NonePlaced'
    BY <2>1 DEF TypeOK, Dropped, NonePlaced
  <2>4. PutThere'
    BY <2>1 DEF TypeOK, Dropped, PutThere
  <2>5. PlacedThere'
    BY <2>1 DEF TypeOK, Dropped, NonePlaced, PlacedThere
  <2>6. LocatedThere'
    BY <2>1 DEF TypeOK, Dropped, NonePlaced, LocatedThere
  <2>7. NoneLost'
    BY <2>1 DEF TypeOK, Dropped, NoneLost
  <2> QED BY <2>3, <2>4, <2>5, <2>6, <2>7
<1>11. ASSUME NEW r \in Packers, CrashPacker(r) PROVE BytesThere'
  <2>3. NonePlaced'
    BY <1>11 DEF CrashPacker, Done, rowVars, TypeOK, PackersKnow, Dropped, NonePlaced
  <2>4. PutThere'
    BY <1>11 DEF CrashPacker, Done, rowVars, TypeOK, PackersKnow, Dropped, PutThere
  <2>5. PlacedThere'
    BY <1>11 DEF CrashPacker, Done, rowVars, TypeOK, PackersKnow, Dropped, NonePlaced, PlacedThere
  <2>6. LocatedThere'
    BY <1>11 DEF CrashPacker, Done, rowVars, TypeOK, PackersKnow, Dropped, NonePlaced, LocatedThere
  <2>7. NoneLost'
    BY <1>11 DEF CrashPacker, Done, rowVars, TypeOK, PackersKnow, Dropped, NoneLost
  <2> QED BY <2>3, <2>4, <2>5, <2>6, <2>7
<1>12. CASE DropPartitions
  <2>3. NonePlaced'
    BY <1>12 DEF DropPartitions, NoSweep, packerVars, TypeOK, PackersKnow, Dropped, NonePlaced
  <2>4. PutThere'
    BY <1>12 DEF DropPartitions, NoSweep, packerVars, TypeOK, PackersKnow, Dropped, PutThere
  <2>5. PlacedThere'
    BY <1>12 DEF DropPartitions, NoSweep, packerVars, TypeOK, PackersKnow, Dropped, NonePlaced, PlacedThere
  <2>6. LocatedThere'
    BY <1>12 DEF DropPartitions, NoSweep, packerVars, TypeOK, PackersKnow, Dropped, NonePlaced, LocatedThere
  <2>7. NoneLost'
    BY <1>12 DEF DropPartitions, NoSweep, packerVars, TypeOK, PackersKnow, Dropped, NoneLost
  <2> QED BY <2>3, <2>4, <2>5, <2>6, <2>7
<1>13. CASE ExpiredPacks
  <2>3. NonePlaced'
    BY <1>13 DEF ExpiredPacks, ListPacks, packerVars, rowVars, TypeOK, PackersKnow, Dropped, NonePlaced
  <2>4. PutThere'
    BY <1>13 DEF ExpiredPacks, ListPacks, packerVars, rowVars, TypeOK, PackersKnow, Dropped, PutThere
  <2>5. PlacedThere'
    BY <1>13 DEF ExpiredPacks, ListPacks, packerVars, rowVars, TypeOK, PackersKnow, Dropped, NonePlaced, PlacedThere
  <2>6. LocatedThere'
    BY <1>13 DEF ExpiredPacks, ListPacks, packerVars, rowVars, TypeOK, PackersKnow, Dropped, NonePlaced, LocatedThere
  <2>7. NoneLost'
    BY <1>13 DEF ExpiredPacks, ListPacks, packerVars, rowVars, TypeOK, PackersKnow, Dropped, NoneLost
  <2> QED BY <2>3, <2>4, <2>5, <2>6, <2>7
<1>14. ASSUME NEW p \in PackIds, NEW ok \in BOOLEAN, ExpireObject(p, ok) PROVE BytesThere'
  <2>1. Dropped(weekOf[p])
    BY <1>14 DEF ExpireObject, SweepKnows
  <2>3. NonePlaced'
    BY <1>14, <2>1 DEF ExpireObject, packerVars, rowVars, TypeOK, PackersKnow, Dropped, NonePlaced
  <2>4. PutThere'
    BY <1>14, <2>1 DEF ExpireObject, packerVars, rowVars, TypeOK, PackersKnow, Dropped, PutThere
  <2>5. PlacedThere'
    BY <1>14, <2>1 DEF ExpireObject, packerVars, rowVars, TypeOK, PackersKnow, Dropped, NonePlaced, PlacedThere
  <2>6. LocatedThere'
    BY <1>14, <2>1 DEF ExpireObject, packerVars, rowVars, TypeOK, PackersKnow, Dropped, NonePlaced, LocatedThere
  <2>7. NoneLost'
    BY <1>14, <2>1 DEF ExpireObject, packerVars, rowVars, TypeOK, PackersKnow, Dropped, NoneLost
  <2> QED BY <2>3, <2>4, <2>5, <2>6, <2>7
<1>15. ASSUME NEW p \in PackIds, ExpireRow(p) PROVE BytesThere'
  <2>1. /\ place' = [e \in Events |-> IF place[e] = p THEN NoPack ELSE place[e]]
        /\ UNCHANGED <<stored, spool, weekOf, objects, ended, step, batch, id, reading>>
    BY <1>15 DEF ExpireRow, DeletePack, packerVars
  <2>2. Dropped(weekOf[p])
    BY <1>15 DEF ExpireRow, SweepKnows
  <2>3. NonePlaced'
    BY <2>1, <2>2 DEF TypeOK, Dropped, NonePlaced
  <2>4. PutThere'
    BY <2>1, <2>2 DEF TypeOK, Dropped, PutThere
  <2>5. PlacedThere'
    BY <2>1, <2>2 DEF TypeOK, Dropped, NonePlaced, PlacedThere
  <2>6. LocatedThere'
    BY <2>1, <2>2 DEF TypeOK, Dropped, NonePlaced, LocatedThere
  <2>7. NoneLost'
    BY <2>1, <2>2 DEF TypeOK, Dropped, PlacedThere, NoneLost
  <2> QED BY <2>3, <2>4, <2>5, <2>6, <2>7
<1>16. CASE ExpireSpool
  <2>3. NonePlaced'
    BY <1>16 DEF ExpireSpool, NoSweep, packerVars, TypeOK, PackersKnow, SweepKnows, Dropped, NonePlaced
  <2>4. PutThere'
    BY <1>16 DEF ExpireSpool, NoSweep, packerVars, TypeOK, PackersKnow, SweepKnows, Dropped, PutThere
  <2>5. PlacedThere'
    BY <1>16 DEF ExpireSpool, NoSweep, packerVars, TypeOK, PackersKnow, SweepKnows, Dropped, NonePlaced, PlacedThere
  <2>6. LocatedThere'
    BY <1>16 DEF ExpireSpool, NoSweep, packerVars, TypeOK, PackersKnow, SweepKnows, Dropped, NonePlaced, LocatedThere
  <2>7. NoneLost'
    BY <1>16 DEF ExpireSpool, NoSweep, packerVars, TypeOK, PackersKnow, SweepKnows, Dropped, NoneLost
  <2> QED BY <2>3, <2>4, <2>5, <2>6, <2>7
<1>17. CASE CrashSweep
  <2>3. NonePlaced'
    BY <1>17 DEF CrashSweep, NoSweep, packerVars, rowVars, TypeOK, PackersKnow, Dropped, NonePlaced
  <2>4. PutThere'
    BY <1>17 DEF CrashSweep, NoSweep, packerVars, rowVars, TypeOK, PackersKnow, Dropped, PutThere
  <2>5. PlacedThere'
    BY <1>17 DEF CrashSweep, NoSweep, packerVars, rowVars, TypeOK, PackersKnow, Dropped, NonePlaced, PlacedThere
  <2>6. LocatedThere'
    BY <1>17 DEF CrashSweep, NoSweep, packerVars, rowVars, TypeOK, PackersKnow, Dropped, NonePlaced, LocatedThere
  <2>7. NoneLost'
    BY <1>17 DEF CrashSweep, NoSweep, packerVars, rowVars, TypeOK, PackersKnow, Dropped, NoneLost
  <2> QED BY <2>3, <2>4, <2>5, <2>6, <2>7
<1>18. ASSUME NEW e \in Events, Locate(e) PROVE BytesThere'
  <2>1. /\ e \in stored /\ place[e] # NoPack /\ place[e] \in PackIds
        /\ \A x, p : <<x, p>> \in reading' => x = e /\ p = place[e]
        /\ UNCHANGED <<stored, spool, place, weekOf, objects, ended, step, batch, id>>
    BY <1>18 DEF Locate, rowVars, packerVars, TypeOK
  <2>3. NonePlaced'
    BY <2>1 DEF TypeOK, Dropped, NonePlaced
  <2>4. PutThere'
    BY <2>1 DEF TypeOK, Dropped, PutThere
  <2>5. PlacedThere'
    BY <2>1 DEF TypeOK, Dropped, NonePlaced, PlacedThere
  <2>6. LocatedThere'
    BY <2>1 DEF TypeOK, Dropped, NonePlaced, PlacedThere, LocatedThere
  <2>7. NoneLost'
    BY <2>1 DEF TypeOK, Dropped, NoneLost
  <2> QED BY <2>3, <2>4, <2>5, <2>6, <2>7
<1>19. CASE Fetch
  <2>3. NonePlaced'
    BY <1>19 DEF Fetch, packerVars, rowVars, TypeOK, PackersKnow, Dropped, NonePlaced
  <2>4. PutThere'
    BY <1>19 DEF Fetch, packerVars, rowVars, TypeOK, PackersKnow, Dropped, PutThere
  <2>5. PlacedThere'
    BY <1>19 DEF Fetch, packerVars, rowVars, TypeOK, PackersKnow, Dropped, NonePlaced, PlacedThere
  <2>6. LocatedThere'
    BY <1>19 DEF Fetch, packerVars, rowVars, TypeOK, PackersKnow, Dropped, NonePlaced, LocatedThere
  <2>7. NoneLost'
    BY <1>19 DEF Fetch, packerVars, rowVars, TypeOK, PackersKnow, Dropped, NoneLost
  <2> QED BY <2>3, <2>4, <2>5, <2>6, <2>7
<1>20. CASE UNCHANGED vars
  BY <1>20 DEF vars, NonePlaced, PutThere, PlacedThere, LocatedThere, NoneLost, Dropped
<1> QED
  BY <1>1, <1>2, <1>3, <1>4, <1>5, <1>6, <1>7, <1>8, <1>9, <1>10, <1>11, <1>12, <1>13, <1>14,
     <1>15, <1>16, <1>17, <1>18, <1>19, <1>20 DEF Next

\* PayloadKept: an event that is stored has its payload, spooled or in the
\* object its row points to, and a reader that located it finds it
\* (packs.go:168-176), for any number of flushers, whatever fails or dies, when
\* the outcome of a transaction is known (MCPayloadPacksCommit shows what is
\* lost when it is not).
THEOREM PayloadsKept == KnownOutcome /\ Spec => []PayloadKept
<1> SUFFICES ASSUME KnownOutcome PROVE Spec => []PayloadKept
  OBVIOUS
<1>1. PackInv /\ BytesThere => PayloadKept
  <2> SUFFICES ASSUME PackInv, BytesThere PROVE PayloadKept
    OBVIOUS
  <2>1. \A e \in stored : e \in spool \/ (place[e] # NoPack /\ e \in objects[place[e]])
    BY DEF PackInv, TypeOK, BytesThere, PlacedThere, NoneLost, Dropped
  <2>2. \A e \in Events, p \in PackIds : <<e, p>> \in reading /\ e \in stored => e \in objects[p]
    BY DEF PackInv, BytesThere, LocatedThere, Dropped
  <2>3. \A er \in reading : er[1] \in stored => er[1] \in objects[er[2]]
    BY <2>2 DEF PackInv, TypeOK
  <2> QED BY <2>1, <2>3 DEF PayloadKept
<1>2. Init => PackInv /\ BytesThere
  BY PackInitInv
<1>3. PackInv /\ BytesThere /\ [Next]_vars => (PackInv /\ BytesThere)'
  BY PackStepInv, BytesStep
<1> QED BY <1>1, <1>2, <1>3, PTL DEF Spec

LEMMA ObjectsStep ==
  ASSUME PackInv, ObjectsKnown, ObjectHasRow, ReliableStore, [Next]_vars
  PROVE  ObjectsKnown' /\ ObjectHasRow'
<1> USE PayloadPacksAssumption DEF PackInv
<1>1. ASSUME NEW e \in Events, Ingest(e) PROVE ObjectsKnown' /\ ObjectHasRow'
  <2>3. ObjectsKnown'
    BY <1>1 DEF Ingest, packerVars, TypeOK, PackersKnow, ObjectsKnown
  <2>4. ObjectHasRow'
    BY <1>1 DEF Ingest, packerVars, TypeOK, PackersKnow, ObjectsKnown, ObjectHasRow
  <2> QED BY <2>3, <2>4
<1>2. ASSUME NEW w \in Weeks, EndWeek(w) PROVE ObjectsKnown' /\ ObjectHasRow'
  <2>3. ObjectsKnown'
    BY <1>2 DEF EndWeek, packerVars, rowVars, TypeOK, PackersKnow, ObjectsKnown
  <2>4. ObjectHasRow'
    BY <1>2 DEF EndWeek, packerVars, rowVars, TypeOK, PackersKnow, ObjectsKnown, ObjectHasRow
  <2> QED BY <2>3, <2>4
<1>3. ASSUME NEW r \in Packers, NEW S \in SUBSET Events, ReadSpool(r, S) PROVE ObjectsKnown' /\ ObjectHasRow'
  <2>3. ObjectsKnown'
    BY <1>3 DEF ReadSpool, rowVars, TypeOK, PackersKnow, ObjectsKnown
  <2>4. ObjectHasRow'
    BY <1>3 DEF ReadSpool, rowVars, TypeOK, PackersKnow, ObjectsKnown, ObjectHasRow
  <2> QED BY <2>3, <2>4
<1>4. ASSUME NEW r \in Packers, NEW p \in PackIds, InsertPack(r, p) PROVE ObjectsKnown' /\ ObjectHasRow'
  <2>1. /\ weekOf' = [weekOf EXCEPT ![p] = WeekOf[CHOOSE e \in batch[r] : TRUE]]
        /\ id' = [id EXCEPT ![r] = p] /\ step' = [step EXCEPT ![r] = "inserted"]
        /\ UNCHANGED <<stored, spool, place, objects, ended, batch, sweep, reading>>
    BY <1>4 DEF InsertPack
  <2>2. /\ packs' = packs \cup {p} /\ objects[p] = {}
        /\ \A q \in Packers : id[q] # p
    BY <1>4 DEF InsertPack, Unused, TypeOK
  <2>3. ObjectsKnown'
    BY <2>1, <2>2 DEF TypeOK, PackersKnow, ObjectsKnown
  <2>4. ObjectHasRow'
    BY <2>1, <2>2 DEF TypeOK, PackersKnow, ObjectsKnown, ObjectHasRow
  <2> QED BY <2>3, <2>4
<1>5. ASSUME NEW r \in Packers, PutObject(r) PROVE ObjectsKnown' /\ ObjectHasRow'
  <2>3. ObjectsKnown'
    BY <1>5 DEF PutObject, rowVars, TypeOK, PackersKnow, ObjectsKnown
  <2>4. ObjectHasRow'
    BY <1>5 DEF PutObject, rowVars, TypeOK, PackersKnow, ObjectsKnown, ObjectHasRow
  <2> QED BY <2>3, <2>4
<1>6. ASSUME NEW r \in Packers, NEW wrote \in BOOLEAN, PutFails(r, wrote) PROVE ObjectsKnown' /\ ObjectHasRow'
  <2>3. ObjectsKnown'
    BY <1>6 DEF PutFails, rowVars, TypeOK, PackersKnow, ObjectsKnown
  <2>4. ObjectHasRow'
    BY <1>6 DEF PutFails, rowVars, TypeOK, PackersKnow, ObjectsKnown, ObjectHasRow
  <2> QED BY <2>3, <2>4
<1>7. ASSUME NEW r \in Packers, FlushCommits(r) PROVE ObjectsKnown' /\ ObjectHasRow'
  <2>3. ObjectsKnown'
    BY <1>7 DEF FlushCommits, Flush, Done, TypeOK, PackersKnow, ObjectsKnown
  <2>4. ObjectHasRow'
    BY <1>7 DEF FlushCommits, Flush, Done, TypeOK, PackersKnow, ObjectsKnown, ObjectHasRow
  <2> QED BY <2>3, <2>4
<1>8. ASSUME NEW r \in Packers, FlushFails(r) PROVE ObjectsKnown' /\ ObjectHasRow'
  <2>3. ObjectsKnown'
    BY <1>8 DEF FlushFails, Flush, rowVars, TypeOK, PackersKnow, ObjectsKnown
  <2>4. ObjectHasRow'
    BY <1>8 DEF FlushFails, Flush, rowVars, TypeOK, PackersKnow, ObjectsKnown, ObjectHasRow
  <2> QED BY <2>3, <2>4
<1>9. ASSUME NEW r \in Packers, NEW ok \in BOOLEAN, UndoObject(r, ok) PROVE ObjectsKnown' /\ ObjectHasRow'
  <2>3. ObjectsKnown'
    BY <1>9 DEF UndoObject, rowVars, TypeOK, PackersKnow, ObjectsKnown
  <2>4. ObjectHasRow'
    BY <1>9 DEF UndoObject, rowVars, TypeOK, PackersKnow, ObjectsKnown, ObjectHasRow
  <2> QED BY <2>3, <2>4
<1>10. ASSUME NEW r \in Packers, NEW ok \in BOOLEAN, UndoRow(r, ok) PROVE ObjectsKnown' /\ ObjectHasRow'
  <2>1. /\ id[r] \in PackIds
        /\ step' = [step EXCEPT ![r] = "idle"] /\ batch' = [batch EXCEPT ![r] = {}]
        /\ id' = [id EXCEPT ![r] = NoPack]
        /\ UNCHANGED <<stored, spool, weekOf, objects, ended, sweep, reading>>
        /\ \/ UNCHANGED <<place, packs>>
           \/ /\ packs' = packs \ {id[r]}
              /\ place' = [e \in Events |-> IF place[e] = id[r] THEN NoPack ELSE place[e]]
    BY <1>10 DEF UndoRow, DeletePack, Done, rowVars, TypeOK, PackersKnow
  <2>3. ObjectsKnown'
    BY <1>10, <2>1 DEF UndoRow, TypeOK, PackersKnow, ObjectsKnown
  <2>4. ObjectHasRow'
    BY <1>10, <2>1 DEF UndoRow, TypeOK, PackersKnow, ObjectsKnown, ObjectHasRow
  <2> QED BY <2>3, <2>4
<1>11. ASSUME NEW r \in Packers, CrashPacker(r) PROVE ObjectsKnown' /\ ObjectHasRow'
  <2>3. ObjectsKnown'
    BY <1>11 DEF CrashPacker, Done, rowVars, TypeOK, PackersKnow, ObjectsKnown
  <2>4. ObjectHasRow'
    BY <1>11 DEF CrashPacker, Done, rowVars, TypeOK, PackersKnow, ObjectsKnown, ObjectHasRow
  <2> QED BY <2>3, <2>4
<1>12. CASE DropPartitions
  <2>3. ObjectsKnown'
    BY <1>12 DEF DropPartitions, NoSweep, packerVars, TypeOK, PackersKnow, ObjectsKnown
  <2>4. ObjectHasRow'
    BY <1>12 DEF DropPartitions, NoSweep, packerVars, TypeOK, PackersKnow, ObjectsKnown, ObjectHasRow
  <2> QED BY <2>3, <2>4
<1>13. CASE ExpiredPacks
  <2>3. ObjectsKnown'
    BY <1>13 DEF ExpiredPacks, ListPacks, packerVars, rowVars, TypeOK, PackersKnow, ObjectsKnown
  <2>4. ObjectHasRow'
    BY <1>13 DEF ExpiredPacks, ListPacks, packerVars, rowVars, TypeOK, PackersKnow, ObjectsKnown, ObjectHasRow
  <2> QED BY <2>3, <2>4
<1>14. ASSUME NEW p \in PackIds, NEW ok \in BOOLEAN, ExpireObject(p, ok) PROVE ObjectsKnown' /\ ObjectHasRow'
  <2>3. ObjectsKnown'
    BY <1>14 DEF ExpireObject, packerVars, rowVars, TypeOK, PackersKnow, SweepKnows, Dropped, ObjectsKnown
  <2>4. ObjectHasRow'
    BY <1>14 DEF ExpireObject, packerVars, rowVars, TypeOK, PackersKnow, SweepKnows, Dropped, ObjectsKnown, ObjectHasRow
  <2> QED BY <2>3, <2>4
<1>15. ASSUME NEW p \in PackIds, ExpireRow(p) PROVE ObjectsKnown' /\ ObjectHasRow'
  <2>3. ObjectsKnown'
    BY <1>15 DEF ExpireRow, DeletePack, packerVars, TypeOK, PackersKnow, SweepKnows, Dropped, ObjectsKnown
  <2>4. ObjectHasRow'
    BY <1>15 DEF ExpireRow, DeletePack, packerVars, TypeOK, PackersKnow, SweepKnows, Dropped, ObjectsKnown, ObjectHasRow
  <2> QED BY <2>3, <2>4
<1>16. CASE ExpireSpool
  <2>3. ObjectsKnown'
    BY <1>16 DEF ExpireSpool, NoSweep, packerVars, TypeOK, PackersKnow, ObjectsKnown
  <2>4. ObjectHasRow'
    BY <1>16 DEF ExpireSpool, NoSweep, packerVars, TypeOK, PackersKnow, ObjectsKnown, ObjectHasRow
  <2> QED BY <2>3, <2>4
<1>17. CASE CrashSweep
  <2>3. ObjectsKnown'
    BY <1>17 DEF CrashSweep, NoSweep, packerVars, rowVars, TypeOK, PackersKnow, ObjectsKnown
  <2>4. ObjectHasRow'
    BY <1>17 DEF CrashSweep, NoSweep, packerVars, rowVars, TypeOK, PackersKnow, ObjectsKnown, ObjectHasRow
  <2> QED BY <2>3, <2>4
<1>18. ASSUME NEW e \in Events, Locate(e) PROVE ObjectsKnown' /\ ObjectHasRow'
  <2>3. ObjectsKnown'
    BY <1>18 DEF Locate, packerVars, rowVars, TypeOK, PackersKnow, ObjectsKnown
  <2>4. ObjectHasRow'
    BY <1>18 DEF Locate, packerVars, rowVars, TypeOK, PackersKnow, ObjectsKnown, ObjectHasRow
  <2> QED BY <2>3, <2>4
<1>19. CASE Fetch
  <2>3. ObjectsKnown'
    BY <1>19 DEF Fetch, packerVars, rowVars, TypeOK, PackersKnow, ObjectsKnown
  <2>4. ObjectHasRow'
    BY <1>19 DEF Fetch, packerVars, rowVars, TypeOK, PackersKnow, ObjectsKnown, ObjectHasRow
  <2> QED BY <2>3, <2>4
<1>20. CASE UNCHANGED vars
  BY <1>20 DEF vars, ObjectsKnown, ObjectHasRow
<1> QED
  BY <1>1, <1>2, <1>3, <1>4, <1>5, <1>6, <1>7, <1>8, <1>9, <1>10, <1>11, <1>12, <1>13, <1>14,
     <1>15, <1>16, <1>17, <1>18, <1>19, <1>20 DEF Next

\* ObjectHasRow: the object of a pack waits with its row for the sweep of its
\* week (packs.go:172-176), when a store that answers with an error did
\* nothing and deletes succeed; a transaction whose outcome is not known does
\* no harm here.
THEOREM ObjectsHaveRows == ReliableStore /\ Spec => []ObjectHasRow
<1> SUFFICES ASSUME ReliableStore PROVE Spec => []ObjectHasRow
  OBVIOUS
<1> DEFINE Inv == PackInv /\ ObjectsKnown /\ ObjectHasRow
<1>1. Init => Inv
  <2>1. Init => ObjectHasRow
    BY DEF Init, ObjectHasRow
  <2> QED BY <2>1, PackInitInv
<1>2. Inv /\ [Next]_vars => Inv'
  BY PackStepInv, ObjectsStep
<1> QED BY <1>1, <1>2, PTL DEF Spec

-----------------------------------------------------------------------------
(* Partitions. *)

Rows(p) == parted[p] \cup default[p]

PartTypes ==
  /\ day \in Int /\ weeks \subseteq Int
  /\ parted \in [Prints -> SUBSET Int] /\ default \in [Prints -> SUBSET Int]
  /\ expected \in [Prints -> SUBSET Int]
  /\ issueOf \in [Prints -> [seen : Int, closed : BOOLEAN]]
  /\ sweeper \in [Sweepers -> [pc : {"idle", "ensure", "drop", "issues"}, now : Int,
                               have : SUBSET Int, whole : BOOLEAN]]
  /\ writer \in [Writers -> [busy : BOOLEAN, past : Int]]

\* A partition holds the rows of its week; no row is older than the window or
\* younger than its issue was seen; a sweep and a transaction are of today,
\* and a sweep comes to the issues when nothing that ended is left.
PartKnown ==
  /\ \A w \in weeks : WeekStart(w) = w
  /\ \A p \in Prints : \A d \in parted[p] : WeekStart(d) \in weeks
  /\ \A p \in Prints : \A d \in Rows(p) : -Retention <= d /\ d <= issueOf[p].seen
  /\ \A s \in Sweepers : sweeper[s].pc # "idle" => sweeper[s].now = day
  /\ \A w \in Writers : writer[w].busy => writer[w].past = day - Retention
  /\ day >= 0

Swept ==
  \A s \in Sweepers : sweeper[s].pc = "issues" =>
    /\ \A w \in weeks : ~Ended(w, Cutoff(s))
    /\ \A p \in Prints : \A d \in default[p] : d >= Cutoff(s)

Retained == \A p \in Prints : \A d \in expected[p] : d >= day - Retention => d \in Rows(p)

PartInv == PartTypes /\ PartKnown /\ Swept /\ Retained

\* A day is in the week that starts at WeekStart, and weeks follow each other.
LEMMA WeekStartFacts ==
  /\ \A d \in Int : WeekStart(d) \in Int /\ WeekStart(d) <= d /\ d < WeekStart(d) + Week
  /\ \A d \in Int : WeekStart(WeekStart(d)) = WeekStart(d)
  /\ \A d, w \in Int : WeekStart(w) = w /\ d < w + Week => WeekStart(d) <= w
<1>0. Week \in Nat /\ Week > 0
  BY PartitionsAssumption
<1>1. ASSUME NEW d \in Int
      PROVE  WeekStart(d) \in Int /\ WeekStart(d) <= d /\ d < WeekStart(d) + Week
  BY <1>0 DEF WeekStart
<1>2. ASSUME NEW q \in Int, NEW k \in Int, q * Week < k * Week PROVE q * Week + Week <= k * Week
  <2>1. q < k
    BY <1>0, <1>2
  <2>2. (q + 1) * Week <= k * Week
    BY <1>0, <2>1
  <2> QED BY <1>0, <2>2
<1>3. ASSUME NEW d \in Int, NEW w \in Int, WeekStart(w) = w, d < w + Week PROVE WeekStart(d) <= w
  <2>1. CASE w < WeekStart(d)
    <3> DEFINE q == w \div Week
               k == d \div Week
    <3>1. q \in Int /\ k \in Int /\ q * Week = w /\ k * Week = WeekStart(d)
      BY <1>0, <1>3 DEF WeekStart
    <3> HIDE DEF q, k
    <3>2. q * Week + Week <= k * Week
      BY <1>2, <2>1, <3>1
    <3> QED BY <1>0, <1>1, <1>3, <3>1, <3>2
  <2> QED BY <1>1, <1>3, <2>1
<1>4. ASSUME NEW d \in Int PROVE WeekStart(WeekStart(d)) = WeekStart(d)
  <2>1. ((d \div Week) * Week) \div Week = d \div Week
    BY <1>0
  <2> QED BY <2>1 DEF WeekStart
<1> QED BY <1>1, <1>3, <1>4

LEMMA PartInitInv == PartInit => PartInv
<1> SUFFICES ASSUME PartInit PROVE PartInv
  OBVIOUS
<1> USE PartitionsAssumption
<1>1. PartTypes
  BY DEF PartInit, PartTypes, NoIssue, Asleep
<1>2. PartKnown /\ Swept /\ Retained
  BY DEF PartInit, PartKnown, Swept, Retained, Rows, Asleep
<1> QED BY <1>1, <1>2 DEF PartInv

LEMMA PartStepInv == ASSUME PartInv, [PartNext]_partVars PROVE PartInv'
<1> USE PartitionsAssumption DEF PartInv
<1>1. CASE DayEnds
  <2>1. PartTypes'
    BY <1>1 DEF DayEnds, PartTypes
  <2>2. PartKnown'
    BY <1>1 DEF DayEnds, PartTypes, PartKnown, Rows
  <2>3. Swept'
    BY <1>1 DEF DayEnds, Swept
  <2>4. Retained'
    BY <1>1 DEF DayEnds, PartTypes, Retained, Rows
  <2> QED BY <2>1, <2>2, <2>3, <2>4
<1>2. ASSUME NEW p \in Prints, CloseIssue(p) PROVE PartInv'
  <2>1. PartTypes'
    BY <1>2 DEF CloseIssue, PartTypes
  <2>2. \A q \in Prints : issueOf'[q].seen = issueOf[q].seen
    BY <1>2 DEF CloseIssue, PartTypes
  <2>3. PartKnown'
    BY <1>2, <2>2 DEF CloseIssue, PartKnown, Rows
  <2>4. Swept' /\ Retained'
    BY <1>2 DEF CloseIssue, Swept, Cutoff, Retained, Rows
  <2> QED BY <2>1, <2>3, <2>4
<1>3. ASSUME NEW w \in Writers, BeginWrite(w) PROVE PartInv'
  <2>1. PartTypes'
    BY <1>3 DEF BeginWrite, PartTypes
  <2>2. PartKnown'
    BY <1>3 DEF BeginWrite, PartTypes, PartKnown, Rows
  <2>3. Swept' /\ Retained'
    BY <1>3 DEF BeginWrite, Swept, Cutoff, Retained, Rows
  <2> QED BY <2>1, <2>2, <2>3
<1>4. ASSUME NEW w \in Writers, NEW p \in Prints, NEW d \in (day - Retention - 1)..day, NEW reopens \in BOOLEAN,
             StoreEvent(w, p, d, reopens)
      PROVE  PartInv'
  <2> DEFINE at == ClampPast(d, writer[w].past)
             was == issueOf[p]
             is == [seen |-> IF was.seen > at THEN was.seen ELSE at, closed |-> was # NoIssue /\ was.closed /\ ~reopens]
  <2>1. at \in Int /\ at >= day - Retention /\ at >= -Retention
    BY <1>4 DEF StoreEvent, ClampPast, PartTypes, PartKnown
  <2>2. /\ issueOf' = [issueOf EXCEPT ![p] = is]
        /\ expected' = [expected EXCEPT ![p] = @ \cup {at}]
        /\ writer' = [writer EXCEPT ![w].busy = FALSE]
        /\ UNCHANGED <<day, weeks, sweeper>>
        /\ IF WeekStart(at) \in weeks
           THEN parted' = [parted EXCEPT ![p] = @ \cup {at}] /\ UNCHANGED default
           ELSE default' = [default EXCEPT ![p] = @ \cup {at}] /\ UNCHANGED parted
    BY <1>4 DEF StoreEvent
  <2>3. is \in [seen : Int, closed : BOOLEAN] /\ is.seen >= at /\ is.seen >= was.seen
    BY <2>1 DEF PartTypes
  <2> HIDE DEF at, is
  <2>4. PartTypes'
    <3>1. /\ issueOf' \in [Prints -> [seen : Int, closed : BOOLEAN]]
          /\ expected' \in [Prints -> SUBSET Int]
      BY <2>1, <2>2, <2>3 DEF PartTypes
    <3>2. writer' \in [Writers -> [busy : BOOLEAN, past : Int]]
      BY <2>2 DEF PartTypes
    <3>3. parted' \in [Prints -> SUBSET Int] /\ default' \in [Prints -> SUBSET Int]
      <4>1. CASE WeekStart(at) \in weeks
        BY <2>1, <2>2, <4>1 DEF PartTypes
      <4>2. CASE WeekStart(at) \notin weeks
        BY <2>1, <2>2, <4>2 DEF PartTypes
      <4> QED BY <4>1, <4>2
    <3> QED BY <2>2, <3>1, <3>2, <3>3 DEF PartTypes
  <2>5. /\ \A q \in Prints : Rows(q)' = IF q = p THEN Rows(q) \cup {at} ELSE Rows(q)
        /\ \A q \in Prints : parted'[q] \subseteq parted[q] \cup (IF WeekStart(at) \in weeks THEN {at} ELSE {})
        /\ \A q \in Prints : default'[q] \subseteq default[q] \cup {at}
    <3>1. CASE WeekStart(at) \in weeks
      BY <2>2, <3>1 DEF PartTypes, Rows
    <3>2. CASE WeekStart(at) \notin weeks
      BY <2>2, <3>2 DEF PartTypes, Rows
    <3> QED BY <3>1, <3>2
  <2>6. PartKnown'
    <3>1. \A q \in Prints : \A x \in Rows(q)' : -Retention <= x /\ x <= issueOf'[q].seen
      <4> SUFFICES ASSUME NEW q \in Prints, NEW x \in Rows(q)'
                   PROVE  -Retention <= x /\ x <= issueOf'[q].seen
        OBVIOUS
      <4>1. x \in Int
        BY <2>4 DEF PartTypes, Rows
      <4>2. CASE q = p
        BY <2>1, <2>2, <2>3, <2>5, <4>1, <4>2 DEF PartTypes, PartKnown
      <4>3. CASE q # p
        BY <2>2, <2>5, <4>1, <4>3 DEF PartTypes, PartKnown
      <4> QED BY <4>2, <4>3
    <3>2. \A q \in Prints : \A x \in parted'[q] : WeekStart(x) \in weeks
      BY <2>5 DEF PartKnown
    <3>3. \A v \in Writers : writer'[v].busy => writer'[v].past = day - Retention
      BY <2>2 DEF PartTypes, PartKnown
    <3> QED BY <2>2, <3>1, <3>2, <3>3 DEF PartKnown
  <2>7. Swept'
    BY <2>1, <2>2, <2>5 DEF Swept, Cutoff, PartKnown
  <2>8. Retained'
    BY <2>2, <2>5 DEF PartTypes, Retained
  <2> QED BY <2>4, <2>6, <2>7, <2>8
<1>5. ASSUME NEW s \in Sweepers, NEW whole \in BOOLEAN, ListPartitions(s, whole) PROVE PartInv'
  <2>1. PartTypes'
    BY <1>5 DEF ListPartitions, PartTypes
  <2>2. PartKnown'
    BY <1>5 DEF ListPartitions, PartTypes, PartKnown, Rows
  <2>3. Swept' /\ Retained'
    BY <1>5 DEF ListPartitions, PartTypes, Swept, Cutoff, Retained, Rows
  <2> QED BY <2>1, <2>2, <2>3
<1>6. ASSUME NEW s \in Sweepers, EnsurePartition(s) PROVE PartInv'
  <2>1. PICK w \in Missing(s) :
           /\ sweeper' = [sweeper EXCEPT ![s].have = @ \cup {w}]
           /\ IF w \in weeks
              THEN UNCHANGED <<weeks, parted, default>>
              ELSE /\ weeks' = weeks \cup {w}
                   /\ parted' = [p \in Prints |-> parted[p] \cup Strays(p, w)]
                   /\ default' = [p \in Prints |-> default[p] \ Strays(p, w)]
    BY <1>6 DEF EnsurePartition
  <2>2. UNCHANGED <<day, issueOf, writer, expected>> /\ sweeper[s].now = day /\ sweeper[s].pc = "ensure"
    BY <1>6 DEF EnsurePartition, PartKnown
  <2>3. PICK d \in Int : d >= day - Retention /\ w = WeekStart(d)
    BY <2>1, <2>2 DEF Missing, PartTypes
  <2>4. w \in Int /\ WeekStart(w) = w /\ w + Week > day - Retention
    BY <2>3, WeekStartFacts DEF PartTypes
  <2>5. \A p \in Prints : /\ Rows(p)' = Rows(p)
                          /\ default'[p] \subseteq default[p]
                          /\ \A x \in parted'[p] : x \in parted[p] \/ WeekStart(x) = w
    <3>1. CASE w \in weeks
      BY <2>1, <3>1 DEF Rows
    <3>2. CASE w \notin weeks
      BY <2>1, <3>2 DEF Rows, Strays
    <3> QED BY <3>1, <3>2
  <2>6. weeks' = weeks \cup {w}
    BY <2>1
  <2>7. \A q \in Sweepers : sweeper'[q].pc = sweeper[q].pc /\ sweeper'[q].now = sweeper[q].now
    BY <2>1 DEF PartTypes
  <2>8. PartTypes'
    <3>1. sweeper' \in [Sweepers -> [pc : {"idle", "ensure", "drop", "issues"}, now : Int,
                                    have : SUBSET Int, whole : BOOLEAN]]
      BY <2>1, <2>4 DEF PartTypes
    <3>2. parted' \in [Prints -> SUBSET Int] /\ default' \in [Prints -> SUBSET Int]
      <4>1. CASE w \in weeks
        BY <2>1, <4>1 DEF PartTypes
      <4>2. CASE w \notin weeks
        BY <2>1, <4>2 DEF PartTypes, Strays
      <4> QED BY <4>1, <4>2
    <3> QED BY <2>2, <2>4, <2>6, <3>1, <3>2 DEF PartTypes
  <2>9. PartKnown'
    BY <2>2, <2>4, <2>5, <2>6, <2>7 DEF PartKnown
  <2>10. Swept'
    BY <2>2, <2>4, <2>5, <2>6, <2>7 DEF Swept, PartKnown, Cutoff, Ended, PartTypes
  <2>11. Retained'
    BY <2>2, <2>5 DEF Retained
  <2> QED BY <2>8, <2>9, <2>10, <2>11
<1>7. ASSUME NEW s \in Sweepers, AllEnsured(s) PROVE PartInv'
  <2>1. /\ sweeper[s].pc = "ensure"
        /\ sweeper' = [sweeper EXCEPT ![s] = IF @.whole THEN [@ EXCEPT !.pc = "drop"] ELSE Asleep]
        /\ UNCHANGED <<day, weeks, parted, default, issueOf, writer, expected>>
    BY <1>7 DEF AllEnsured
  <2>2. /\ sweeper' \in [Sweepers -> [pc : {"idle", "ensure", "drop", "issues"}, now : Int,
                                      have : SUBSET Int, whole : BOOLEAN]]
        /\ \A q \in Sweepers : sweeper'[q].pc # "idle" => sweeper[q].pc # "idle" /\ sweeper'[q].now = sweeper[q].now
        /\ \A q \in Sweepers : sweeper'[q].pc = "issues" => sweeper[q].pc = "issues"
    BY <2>1 DEF PartTypes, Asleep
  <2>3. PartTypes'
    BY <2>1, <2>2 DEF PartTypes
  <2>4. PartKnown' /\ Swept' /\ Retained'
    BY <2>1, <2>2 DEF PartKnown, Swept, Cutoff, Retained, Rows
  <2> QED BY <2>3, <2>4
<1>8. ASSUME NEW s \in Sweepers, DropPartition(s) PROVE PartInv'
  <2>1. PICK w \in weeks : /\ Ended(w, Cutoff(s))
                           /\ weeks' = weeks \ {w}
                           /\ parted' = [p \in Prints |-> {d \in parted[p] : WeekStart(d) # w}]
    BY <1>8 DEF DropPartition
  <2>2. /\ UNCHANGED <<day, default, issueOf, sweeper, writer, expected>>
        /\ w + Week <= day - Retention
    BY <1>8, <2>1 DEF DropPartition, PartKnown, Ended, Cutoff
  <2>3. PartTypes'
    BY <2>1, <2>2 DEF PartTypes
  <2>4. PartKnown'
    BY <2>1, <2>2 DEF PartKnown, Rows
  <2>5. Swept'
    BY <2>1, <2>2 DEF Swept, Cutoff
  <2>6. Retained'
    <3> SUFFICES ASSUME NEW p \in Prints, NEW d \in expected[p], d >= day - Retention
                 PROVE  d \in Rows(p)'
      BY <2>2 DEF Retained
    <3>1. d \in Rows(p) /\ d \in Int
      BY DEF Retained, PartTypes
    <3>2. WeekStart(d) # w
      BY <2>2, <3>1, WeekStartFacts DEF PartTypes
    <3> QED BY <2>1, <2>2, <3>1, <3>2 DEF Rows
  <2> QED BY <2>3, <2>4, <2>5, <2>6
<1>9. ASSUME NEW s \in Sweepers, ExpireDefault(s) PROVE PartInv'
  <2>1. /\ sweeper[s].pc = "drop" /\ (\A w \in weeks : ~Ended(w, Cutoff(s)))
        /\ default' = [p \in Prints |-> {d \in default[p] : d >= Cutoff(s)}]
        /\ sweeper' = [sweeper EXCEPT ![s].pc = "issues"]
        /\ UNCHANGED <<day, weeks, parted, issueOf, writer, expected>>
        /\ Cutoff(s) = day - Retention
    BY <1>9 DEF ExpireDefault, PartKnown, Cutoff
  <2>2. \A q \in Sweepers : /\ sweeper'[q].now = sweeper[q].now
                            /\ q # s => sweeper'[q].pc = sweeper[q].pc
    BY <2>1 DEF PartTypes
  <2>3. PartTypes'
    BY <2>1 DEF PartTypes
  <2>4. PartKnown'
    BY <2>1, <2>2 DEF PartKnown, Rows
  <2>5. Swept'
    BY <2>1, <2>2 DEF Swept, Cutoff
  <2>6. Retained'
    BY <2>1 DEF Retained, Rows
  <2> QED BY <2>3, <2>4, <2>5, <2>6
<1>10. ASSUME NEW s \in Sweepers, ExpireIssues(s) PROVE PartInv'
  <2> DEFINE Goes(p) == \/ issueOf[p].closed /\ issueOf[p].seen < ResolvedBefore(s)
                        \/ issueOf[p].seen < sweeper[s].now - StaleFactor * Retention
  <2>1. /\ sweeper[s].pc = "issues" /\ sweeper[s].now = day /\ Cutoff(s) = day - Retention
        /\ issueOf' = [p \in Prints |-> IF Goes(p) THEN NoIssue ELSE issueOf[p]]
        /\ sweeper' = [sweeper EXCEPT ![s] = Asleep]
        /\ UNCHANGED <<day, weeks, parted, default, writer, expected>>
    BY <1>10 DEF ExpireIssues, PartKnown, Cutoff
  <2>2. ASSUME NEW p \in Prints, NEW d \in Rows(p) PROVE ~Goes(p)
    <3>1. d \in Int /\ d <= issueOf[p].seen /\ issueOf[p].seen \in Int
      BY DEF PartTypes, PartKnown, Rows
    <3>2. d >= ResolvedBefore(s) /\ d > Cutoff(s) - Week
      <4>1. CASE d \in default[p]
        BY <2>1, <3>1, <4>1, WeekStartFacts DEF Swept, ResolvedBefore, PartTypes
      <4>2. CASE d \in parted[p]
        <5>1. WeekStart(d) \in weeks /\ WeekStart(d) + Week > Cutoff(s)
          <6>1. WeekStart(d) \in weeks
            BY <4>2 DEF PartKnown
          <6>2. ~Ended(WeekStart(d), Cutoff(s))
            BY <2>1, <6>1 DEF Swept
          <6> QED BY <2>1, <3>1, <6>1, <6>2, WeekStartFacts DEF Ended, PartTypes
        <5>2. WeekStart(Cutoff(s)) <= WeekStart(d)
          BY <2>1, <3>1, <5>1, WeekStartFacts DEF PartTypes
        <5> QED BY <2>1, <3>1, <5>1, <5>2, WeekStartFacts DEF ResolvedBefore, PartTypes
      <4> QED BY <4>1, <4>2 DEF Rows
    <3>3. ResolvedBefore(s) \in Int
      BY <2>1, WeekStartFacts DEF ResolvedBefore, PartTypes
    <3>4. StaleFactor * Retention \in Int /\ day - StaleFactor * Retention <= Cutoff(s) - Week
      BY <2>1 DEF PartTypes
    <3> QED BY <2>1, <3>1, <3>2, <3>3, <3>4 DEF PartTypes
  <2> HIDE DEF Goes
  <2>3. PartTypes'
    BY <2>1 DEF PartTypes, NoIssue, Asleep
  <2>4. \A q \in Sweepers : sweeper'[q] = sweeper[q] \/ sweeper'[q].pc = "idle"
    BY <2>1 DEF PartTypes, Asleep
  <2>5. PartKnown'
    BY <2>1, <2>2, <2>4 DEF PartKnown, Rows
  <2>6. Swept' /\ Retained'
    BY <2>1, <2>4 DEF Swept, Cutoff, Retained, Rows
  <2> QED BY <2>3, <2>5, <2>6
<1>11. ASSUME NEW s \in Sweepers, SweepStops(s) PROVE PartInv'
  <2>1. PartTypes'
    BY <1>11 DEF SweepStops, PartTypes, Asleep
  <2>2. \A q \in Sweepers : sweeper'[q] = sweeper[q] \/ sweeper'[q].pc = "idle"
    BY <1>11 DEF SweepStops, PartTypes, Asleep
  <2>3. PartKnown' /\ Swept' /\ Retained'
    BY <1>11, <2>2 DEF SweepStops, PartKnown, Swept, Cutoff, Retained, Rows
  <2> QED BY <2>1, <2>3
<1>12. CASE UNCHANGED partVars
  BY <1>12 DEF partVars, PartTypes, PartKnown, Swept, Cutoff, Retained, Rows
<1> QED
  BY <1>1, <1>2, <1>3, <1>4, <1>5, <1>6, <1>7, <1>8, <1>9, <1>10, <1>11, <1>12 DEF PartNext

\* SweepSafe: an event stays for the window whatever moved it between
\* partitions, and its issue does not go before it (retention.go:26-28,
\* 290-294), with any number of sweepers and writers, on any day.
THEOREM SweepsSafe == PartSpec => []SweepSafe
<1>1. PartInv => SweepSafe
  <2> SUFFICES ASSUME PartInv, NEW p \in Prints
               PROVE  /\ Rows(p) # {} => issueOf[p] # NoIssue
                      /\ \A d \in expected[p] : d >= day - Retention => d \in Rows(p)
    BY DEF SweepSafe, Rows
  <2>1. Rows(p) # {} => issueOf[p] # NoIssue
    BY PartitionsAssumption DEF PartInv, PartTypes, PartKnown, NoIssue, Rows
  <2> QED BY <2>1 DEF PartInv, Retained
<1>2. PartInit => PartInv
  BY PartInitInv
<1>3. PartInv /\ [PartNext]_partVars => PartInv'
  BY PartStepInv
<1> QED BY <1>1, <1>2, <1>3, PTL DEF PartSpec

-----------------------------------------------------------------------------
(* Chunks. *)

\* What a request knows: a row is of a chunk somebody posted, its chunks were
\* posted once it has seen them, and its file is stored before it takes them.
RequestKnows ==
  /\ \A c \in Parts : chunkAt[c] >= 0 => c \in posted
  /\ \A a \in Assemblers :
       /\ assembling[a].pc # "idle" => PartsOf[assembling[a].file] \subseteq posted
       /\ assembling[a].pc = "uploaded" => assembling[a].file \in assembled

ChunkInv == ChunkTypeOK /\ RequestKnows /\ ChunksAccounted

\* Chunks of a file are chunks.
LEMMA PartsAreParts == \A f \in ChunkedFiles : PartsOf[f] \subseteq Parts
  BY DEF Parts

LEMMA ChunkInitInv == ChunkInit => ChunkInv
<1> SUFFICES ASSUME ChunkInit PROVE ChunkInv
  OBVIOUS
<1>1. NoAssembly \in [pc : {"idle", "present", "read", "uploaded"}, file : ChunkedFiles]
  BY ChunksAssumption DEF NoAssembly
<1>2. ChunkTypeOK
  BY <1>1, ChunksAssumption DEF ChunkInit, ChunkTypeOK
<1>3. RequestKnows
  BY DEF ChunkInit, RequestKnows, NoAssembly
<1>4. ChunksAccounted
  BY DEF ChunkInit, ChunksAccounted
<1> QED BY <1>2, <1>3, <1>4 DEF ChunkInv

LEMMA ChunkStepInv == ASSUME ChunkInv, [ChunkNext]_chunkVars PROVE ChunkInv'
<1> USE ChunksAssumption, PartsAreParts DEF ChunkInv
<1>0. NoAssembly \in [pc : {"idle", "present", "read", "uploaded"}, file : ChunkedFiles] /\ NoAssembly.pc = "idle"
  BY DEF NoAssembly
<1>1. CASE HourPasses
  BY <1>1 DEF HourPasses, ChunkTypeOK, RequestKnows, ChunksAccounted, Explained
<1>2. ASSUME NEW c \in Parts, PutUploadChunk(c) PROVE ChunkInv'
  <2>1. ChunkTypeOK'
    BY <1>2 DEF PutUploadChunk, ChunkTypeOK
  <2>2. RequestKnows'
    BY <1>2 DEF PutUploadChunk, ChunkTypeOK, RequestKnows
  <2>3. ChunksAccounted'
    <3>1. \A d \in posted : chunkAt[d] >= 0 => chunkAt'[d] >= 0
      BY <1>2 DEF PutUploadChunk, ChunkTypeOK
    <3>2. chunkAt'[c] >= 0
      BY <1>2 DEF PutUploadChunk, ChunkTypeOK
    <3> QED BY <1>2, <3>1, <3>2 DEF PutUploadChunk, ChunkTypeOK, ChunksAccounted, Explained
  <2> QED BY <2>1, <2>2, <2>3
<1>3. ASSUME NEW a \in Assemblers, NEW f \in ChunkedFiles, AskAssemble(a, f) PROVE ChunkInv'
  <2>1. CASE Present(PartsOf[f]) = PartsOf[f] /\ PartsOf[f] # {}
    <3>1. PartsOf[f] \subseteq posted
      BY <2>1 DEF Present, RequestKnows
    <3>2. /\ assembling' = [assembling EXCEPT ![a] = [pc |-> "present", file |-> f]]
          /\ UNCHANGED <<hour, chunkAt, assembled, posted, aged, answered>>
      BY <1>3, <2>1 DEF AskAssemble, Step
    <3>3. ChunkTypeOK'
      BY <3>2 DEF ChunkTypeOK
    <3>4. RequestKnows'
      BY <3>1, <3>2 DEF ChunkTypeOK, RequestKnows
    <3>5. ChunksAccounted'
      BY <3>2 DEF ChunksAccounted, Explained
    <3> QED BY <3>3, <3>4, <3>5
  <2>2. CASE ~(Present(PartsOf[f]) = PartsOf[f] /\ PartsOf[f] # {})
    <3>1. Tell(a, f, "not_found")
      BY <1>3, <2>2 DEF AskAssemble
    <3> QED BY <1>0, <1>3, <3>1 DEF AskAssemble, Tell, ChunkTypeOK, RequestKnows, ChunksAccounted, Explained
  <2> QED BY <2>1, <2>2
<1>4. ASSUME NEW a \in Assemblers, GetUploadChunks(a) PROVE ChunkInv'
  <2> DEFINE f == assembling[a].file
  <2>0. f \in ChunkedFiles /\ PartsOf[f] \subseteq posted
    BY <1>4 DEF GetUploadChunks, ChunkTypeOK, RequestKnows
  <2>1. CASE Present(PartsOf[f]) = PartsOf[f]
    <3>1. Step(a, "read", f) /\ UNCHANGED <<answered, hour, chunkAt, assembled, posted, aged>>
      BY <1>4, <2>1 DEF GetUploadChunks
    <3>2. ChunkTypeOK' /\ RequestKnows'
      BY <2>0, <3>1 DEF Step, ChunkTypeOK, RequestKnows
    <3>3. ChunksAccounted'
      BY <3>1 DEF ChunksAccounted, Explained
    <3> QED BY <3>2, <3>3
  <2>2. CASE Present(PartsOf[f]) # PartsOf[f]
    <3>1. PICK c \in PartsOf[f] : ~(chunkAt[c] >= 0)
      BY <2>2 DEF Present
    <3>2. Explained(c)
      BY <2>0, <3>1 DEF ChunksAccounted
    <3>3. Tell(a, f, "error")
      BY <1>4, <2>2 DEF GetUploadChunks
    <3>4. ChunkTypeOK' /\ RequestKnows'
      BY <1>0, <1>4, <2>0, <3>3 DEF GetUploadChunks, Tell, ChunkTypeOK, RequestKnows
    <3>5. ChunksAccounted'
      BY <1>4, <2>0, <3>2, <3>3 DEF GetUploadChunks, Tell, ChunkTypeOK, ChunksAccounted, Explained
    <3> QED BY <3>4, <3>5
  <2> QED BY <2>1, <2>2
<1>5. ASSUME NEW a \in Assemblers, UploadSucceeds(a) PROVE ChunkInv'
  <2>1. ChunkTypeOK' /\ RequestKnows'
    BY <1>5 DEF UploadSucceeds, Step, ChunkTypeOK, RequestKnows
  <2>2. ChunksAccounted'
    BY <1>5 DEF UploadSucceeds, ChunksAccounted, Explained
  <2> QED BY <2>1, <2>2
<1>6. ASSUME NEW a \in Assemblers, UploadRefused(a) PROVE ChunkInv'
  <2>1. ChunkTypeOK' /\ RequestKnows'
    BY <1>0, <1>6 DEF UploadRefused, Tell, ChunkTypeOK, RequestKnows
  <2>2. ChunksAccounted'
    BY <1>6 DEF UploadRefused, Tell, ChunkTypeOK, ChunksAccounted, Explained
  <2> QED BY <2>1, <2>2
<1>7. ASSUME NEW a \in Assemblers, DeleteUploadChunks(a) PROVE ChunkInv'
  <2> DEFINE f == assembling[a].file
  <2>0. f \in assembled /\ f \in ChunkedFiles
    BY <1>7 DEF DeleteUploadChunks, StoredFirst, RequestKnows, ChunkTypeOK
  <2>1. \A c \in Parts : chunkAt'[c] = chunkAt[c] \/ (chunkAt'[c] = -1 /\ c \in PartsOf[f])
    BY <1>7 DEF DeleteUploadChunks, Consumed
  <2>2. chunkAt' \in [Parts -> -1..LastHour]
    BY <1>7 DEF DeleteUploadChunks, ChunkTypeOK
  <2>3. ChunkTypeOK'
    BY <1>0, <1>7, <2>0, <2>2 DEF DeleteUploadChunks, Tell, ChunkTypeOK
  <2>4. RequestKnows'
    BY <1>0, <1>7, <2>1 DEF DeleteUploadChunks, Tell, ChunkTypeOK, RequestKnows
  <2>5. ChunksAccounted'
    BY <1>7, <2>0, <2>1 DEF DeleteUploadChunks, Tell, ChunkTypeOK, ChunksAccounted, Explained
  <2> QED BY <2>3, <2>4, <2>5
<1>8. ASSUME NEW a \in Assemblers, AssembleFails(a) PROVE ChunkInv'
  <2>1. ChunkTypeOK' /\ RequestKnows'
    BY <1>0, <1>8 DEF AssembleFails, ChunkTypeOK, RequestKnows
  <2>2. ChunksAccounted'
    BY <1>8 DEF AssembleFails, ChunksAccounted, Explained
  <2> QED BY <2>1, <2>2
<1>9. CASE ExpireUploadChunks
  <2> DEFINE old == {c \in Parts : chunkAt[c] >= 0 /\ hour - chunkAt[c] > ChunkDay}
  <2>1. /\ chunkAt' = [c \in Parts |-> IF c \in old THEN -1 ELSE chunkAt[c]]
        /\ aged' = aged \cup old
        /\ UNCHANGED <<hour, assembling, assembled, answered, posted>>
    BY <1>9 DEF ExpireUploadChunks
  <2>2. old \subseteq posted
    BY DEF RequestKnows
  <2>3. ChunkTypeOK'
    BY <2>1, <2>2 DEF ChunkTypeOK
  <2>4. RequestKnows'
    BY <2>1 DEF RequestKnows
  <2>5. ChunksAccounted'
    BY <2>1 DEF ChunkTypeOK, ChunksAccounted, Explained
  <2> QED BY <2>3, <2>4, <2>5
<1>10. CASE UNCHANGED chunkVars
  BY <1>10 DEF chunkVars, ChunkTypeOK, RequestKnows, ChunksAccounted, Explained
<1> QED
  BY <1>1, <1>2, <1>3, <1>4, <1>5, <1>6, <1>7, <1>8, <1>9, <1>10 DEF ChunkNext

\* ChunksAccounted: a posted chunk is there until it is part of a stored file
\* or a day old, and a sound file is refused only for a chunk that went so
\* (chunks.go:143-171), however files share chunks and requests overlap.
THEOREM PostedChunksAccounted == ChunkSpec => []ChunksAccounted
<1>1. ChunkInv => ChunksAccounted
  BY DEF ChunkInv
<1>2. ChunkInit => ChunkInv
  BY ChunkInitInv
<1>3. ChunkInv /\ [ChunkNext]_chunkVars => ChunkInv'
  BY ChunkStepInv
<1> QED BY <1>1, <1>2, <1>3, PTL DEF ChunkSpec

-----------------------------------------------------------------------------
(* Transfer. *)

\* The table a key is in, by its place in the file.
TableOf(k) == CASE k = "user" -> 0 [] k = "project" -> 1 [] k = "issue" -> 2
                [] k \in Sent -> 3 [] k = "symbols" -> 4

\* What one run makes of a row of the target.
Outcome(k) ==
  IF \E i \in DOMAIN lines : lines[i].key = k
  THEN Applied(CHOOSE l \in {lines[i] : i \in DOMAIN lines} : l.key = k, before[k])
  ELSE before[k]

\* Rows into which the first n lines were read, and no other.
ReadUpTo(row, n) ==
  /\ \A i \in 1..Len(lines) : i <= n => row[lines[i].key] = Outcome(lines[i].key)
  /\ \A k \in RowKeys : (\A i \in 1..Len(lines) : i <= n => lines[i].key # k) => row[k] = before[k]

TransferTypes ==
  /\ snapshot \subseteq Sent /\ source \subseteq Sent /\ written \in 0..5
  /\ lines \in Seq([key : RowKeys, num : Nat])
  /\ before \in [RowKeys -> Nat] /\ target \in [RowKeys -> Nat]
  /\ object \in Objects \cup {NoObject} /\ bytes \subseteq drawn /\ drawn \subseteq Objects
  /\ DOMAIN import = DOMAIN NoImport
  /\ import.pc \in {"idle", "chunk", "drain", "done"} /\ import.read \in Nat /\ import.done \in Nat
  /\ import.pc # "idle" => import.rows \in [RowKeys -> Nat]

\* A file has a row once, in the order of the tables, and an event after its
\* project and its issue.
FileSound ==
  /\ \A i, j \in 1..Len(lines) : lines[i].key = lines[j].key => i = j
  /\ \A i \in 1..Len(lines) : lines[i].num > 0 /\ TableOf(lines[i].key) < written
  /\ \A i \in 1..Len(lines) : lines[i].key \in Sent =>
       /\ \E j \in 1..Len(lines) : j < i /\ lines[j].key = "project"
       /\ \E j \in 1..Len(lines) : j < i /\ lines[j].key = "issue"
  /\ written >= 2 => \E j \in 1..Len(lines) : lines[j].key = "project"
  /\ written >= 3 /\ snapshot # {} => \E j \in 1..Len(lines) : lines[j].key = "issue"
  /\ written < 5 => import.pc = "idle" /\ target = before
  /\ before["symbols"] = 0 /\ \A e \in Sent : before[e] = 0

\* The target has the lines up to one of them, whatever failed; so have the
\* rows of the transaction, which are ahead of what it read.
ImportSound ==
  /\ \E n \in 0..Len(lines) : ReadUpTo(target, n)
  /\ import.pc = "chunk" => \E n \in 0..Len(lines) : n >= import.read /\ ReadUpTo(import.rows, n)
  /\ import.pc \in {"drain", "done"} => \E n \in 0..Len(lines) : n >= import.done /\ ReadUpTo(target, n)
  /\ import.pc = "done" => import.done = Len(lines)
  /\ import.pc = "drain" => import.rows = target /\ import.object = object /\ import.read = import.done
  /\ import.pc = "chunk" => import.read <= Len(lines)

\* The row of a symbol file has its object, also the one in the transaction,
\* whose end deletes neither.
BytesSound ==
  /\ target["symbols"] # 0 => object \in bytes
  /\ object \in drawn \cup {NoObject}
  /\ import.pc \in {"chunk", "drain"} =>
       /\ import.rows["symbols"] # 0 => import.object \in bytes \ import.replaced
       /\ import.object \in drawn \cup {NoObject}
  /\ import.pc = "chunk" => object \notin import.pending
  /\ import.pc = "drain" => import.replaced = {} /\ import.pending = {}

TransferInv == TransferTypes /\ FileSound /\ ImportSound /\ BytesSound

-----------------------------------------------------------------------------

\* A statement run twice does what it did once.
LEMMA AppliedTwice ==
  ASSUME NEW l \in [key : RowKeys, num : Nat], l.num > 0, NEW old \in Nat
  PROVE  /\ Applied(l, old) \in Nat /\ Applied(l, Applied(l, old)) = Applied(l, old) /\ Applied(l, old) # 0
<1>1. l.key \in RowKeys /\ l.num \in Nat
  OBVIOUS
<1>2. CASE l.key \in {"user"} \cup Sent
  BY <1>1, <1>2, TransferAssumption DEF Applied
<1>3. CASE l.key \in {"project", "symbols"}
  BY <1>1, <1>3, TransferAssumption DEF Applied
<1>4. CASE l.key = "issue"
  <2>1. \A v \in Nat : Applied(l, v) = Merged(v, l.num)
    BY <1>4, TransferAssumption DEF Applied
  <2> QED BY <1>1, <2>1 DEF Merged
<1> QED BY <1>1, <1>2, <1>3, <1>4 DEF RowKeys

\* What a line of the file leaves is the outcome of its row.
LEMMA LineOutcome ==
  ASSUME TransferTypes, FileSound, NEW i \in 1..Len(lines)
  PROVE  /\ lines[i].key \in RowKeys /\ lines[i] \in [key : RowKeys, num : Nat] /\ lines[i].num > 0
         /\ Outcome(lines[i].key) = Applied(lines[i], before[lines[i].key])
<1>1. DOMAIN lines = 1..Len(lines) /\ \A j \in 1..Len(lines) : lines[j] \in [key : RowKeys, num : Nat]
  <2> DEFINE T == [key : RowKeys, num : Nat]
  <2>1. lines \in Seq(T)
    BY DEF TransferTypes
  <2> HIDE DEF T
  <2>2. DOMAIN lines = 1..Len(lines) /\ \A j \in 1..Len(lines) : lines[j] \in T
    BY <2>1
  <2> QED BY <2>2 DEF T
<1> DEFINE ls == {lines[j] : j \in DOMAIN lines}
<1>2. \A l \in ls : l.key = lines[i].key => l = lines[i]
  BY <1>1 DEF FileSound
<1>3. lines[i] \in ls
  BY <1>1
<1> HIDE DEF ls
<1>4. (CHOOSE l \in ls : l.key = lines[i].key) = lines[i]
  BY <1>2, <1>3
<1>5. Outcome(lines[i].key) = Applied(lines[i], before[lines[i].key])
  BY <1>1, <1>4 DEF Outcome, ls
<1> QED BY <1>1, <1>5 DEF FileSound

\* A query writes one line for each event.
LEMMA EachOnce ==
  ASSUME NEW es \in SUBSET Sent, NEW s \in EventLines(es)
  PROVE  /\ s \in Seq([key : RowKeys, num : Nat]) /\ Len(s) \in Nat
         /\ \A i \in 1..Len(s) : s[i].key \in es /\ s[i].num = 1
         /\ \A i, j \in 1..Len(s) : s[i].key = s[j].key => i = j
<1> DEFINE n == Cardinality(es)
           f == [i \in 1..n |-> s[i].key]
<1>1. IsFiniteSet(es) /\ n \in Nat
  BY TransferAssumption, FS_Subset, FS_CardinalityType
<1>2. s \in [1..n -> [key : es, num : {1}]] /\ \A e \in es : \E i \in 1..n : s[i].key = e
  BY DEF EventLines
<1>3. es \subseteq RowKeys
  BY DEF RowKeys
<1>4. IsFiniteSet(1..n) /\ Cardinality(1..n) = n
  BY <1>1, FS_Interval
<1> HIDE DEF n
<1>5. f \in Surjection(1..n, es)
  BY <1>2 DEF Surjection
<1>6. f \in Injection(1..n, es)
  BY <1>1, <1>4, <1>5, FS_Surjection DEF n
<1>7. \A i, j \in 1..n : s[i].key = s[j].key => i = j
  BY <1>6 DEF Injection, IsInjective
<1>8. s \in Seq([key : RowKeys, num : Nat]) /\ Len(s) = n
  <2>1. \A i \in 1..n : s[i] \in [key : RowKeys, num : Nat]
    BY <1>2, <1>3
  <2>2. DOMAIN s = 1..n /\ s = [i \in 1..n |-> s[i]]
    BY <1>2
  <2>3. s \in [1..n -> [key : RowKeys, num : Nat]]
    BY <2>1, <2>2
  <2> QED BY <1>1, <2>2, <2>3
<1> QED BY <1>1, <1>2, <1>7, <1>8

LEMMA TransferInitInv == TransferInit => TransferInv
<1> SUFFICES ASSUME TransferInit PROVE TransferInv
  OBVIOUS
<1> USE TransferAssumption
<1>1. lines = <<>> /\ Len(lines) = 0 /\ target = before
  BY DEF TransferInit
<1>2. before \in [RowKeys -> Nat] /\ before["symbols"] = 0 /\ \A e \in Sent : before[e] = 0
  BY DEF TransferInit, RowKeys
<1>3. TransferTypes
  BY <1>1, <1>2 DEF TransferInit, TransferTypes, NoImport
<1>4. FileSound
  BY <1>1, <1>2 DEF TransferInit, FileSound, NoImport
<1>5. ImportSound
  <2>1. ReadUpTo(target, 0) /\ 0 \in 0..Len(lines)
    BY <1>1 DEF ReadUpTo
  <2> QED BY <2>1 DEF TransferInit, ImportSound, NoImport
<1>6. BytesSound
  BY <1>1, <1>2 DEF TransferInit, BytesSound, NoImport
<1> QED BY <1>3, <1>4, <1>5, <1>6 DEF TransferInv

-----------------------------------------------------------------------------
(* The export. *)

\* Lines of one table, new to the file, at its end.
LEMMA TableAppended ==
  ASSUME TransferInv, written < 5, NEW s \in Seq([key : RowKeys, num : Nat]),
         lines' = lines \o s,
         \A i, j \in 1..Len(s) : s[i].key = s[j].key => i = j,
         \A i \in 1..Len(s) : s[i].num > 0 /\ TableOf(s[i].key) = written,
         snapshot' = Seen, written' = written + 1,
         UNCHANGED <<source, before, target, object, bytes, drawn, import>>,
         written = 1 => Len(s) = 1 /\ s[1].key = "project",
         written = 2 /\ Seen # {} => Len(s) = 1 /\ s[1].key = "issue",
         written = 3 => \A i \in 1..Len(s) : s[i].key \in Seen
  PROVE  TransferInv'
<1> USE TransferAssumption DEF TransferInv
<1> DEFINE n == Len(lines)
           m == Len(s)
<1>1. /\ lines' \in Seq([key : RowKeys, num : Nat]) /\ n \in Nat /\ m \in Nat /\ Len(lines') = n + m
      /\ \A i \in 1..n : lines'[i] = lines[i] /\ i \in 1..(n + m)
      /\ \A i \in 1..m : lines'[n + i] = s[i] /\ n + i \in 1..(n + m)
      /\ \A i \in 1..(n + m) : i \in 1..n \/ \E j \in 1..m : i = n + j
  <2>1. lines \in Seq([key : RowKeys, num : Nat]) /\ n \in Nat /\ m \in Nat
    BY DEF TransferTypes
  <2>2. lines' \in Seq([key : RowKeys, num : Nat]) /\ Len(lines') = n + m
    BY <2>1
  <2>3. \A i \in 1..(n + m) : i \in 1..n \/ \E j \in 1..m : i = n + j
    <3>1. ASSUME NEW i \in 1..(n + m), i \notin 1..n
          PROVE  i - n \in 1..m /\ i = n + (i - n)
      BY <2>1, <3>1
    <3> QED BY <3>1
  <2>4. \A i \in 1..n : lines'[i] = lines[i] /\ i \in 1..(n + m)
    BY <2>1
  <2>5. \A i \in 1..m : lines'[n + i] = s[i] /\ n + i \in 1..(n + m)
    BY <2>1
  <2> QED BY <2>1, <2>2, <2>3, <2>4, <2>5
<1>2. written \in 0..4 /\ import.pc = "idle" /\ target = before /\ Seen \subseteq Sent
  BY DEF TransferTypes, FileSound, Seen
<1>3. \A i \in 1..n : TableOf(lines[i].key) < written
  BY DEF FileSound
<1>4. \A i \in 1..m : TableOf(s[i].key) = written /\ s[i].num > 0
  OBVIOUS
<1> HIDE DEF n, m
<1>5. \A i, j \in 1..Len(lines') : lines'[i].key = lines'[j].key => i = j
  <2>1. \A i, j \in 1..n : lines[i].key = lines[j].key => i = j
    BY DEF FileSound, n
  <2>2. \A i, j \in 1..m : s[i].key = s[j].key => n + i = n + j
    BY <1>1 DEF m
  <2>3. \A i \in 1..n, j \in 1..m : lines[i].key # s[j].key
    BY <1>2, <1>3, <1>4
  <2> SUFFICES ASSUME NEW i \in 1..(n + m), NEW j \in 1..(n + m), lines'[i].key = lines'[j].key
               PROVE  i = j
    BY <1>1
  <2>4. CASE i \in 1..n /\ j \in 1..n
    BY <1>1, <2>1, <2>4
  <2>5. CASE i \in 1..n /\ j \notin 1..n
    <3>1. PICK b \in 1..m : j = n + b
      BY <1>1, <2>5
    <3>2. lines'[i] = lines[i] /\ lines'[j] = s[b]
      BY <1>1, <2>5, <3>1
    <3> QED BY <2>3, <2>5, <3>2
  <2>6. CASE i \notin 1..n /\ j \in 1..n
    <3>1. PICK a \in 1..m : i = n + a
      BY <1>1, <2>6
    <3>2. lines'[j] = lines[j] /\ lines'[i] = s[a]
      BY <1>1, <2>6, <3>1
    <3> QED BY <2>3, <2>6, <3>2
  <2>7. CASE i \notin 1..n /\ j \notin 1..n
    <3>1. PICK a \in 1..m : i = n + a
      BY <1>1, <2>7
    <3>2. PICK b \in 1..m : j = n + b
      BY <1>1, <2>7
    <3>3. lines'[i] = s[a] /\ lines'[j] = s[b]
      BY <1>1, <3>1, <3>2
    <3>4. s[a].key = s[b].key
      BY <3>3
    <3> QED BY <2>2, <3>1, <3>2, <3>4
  <2> QED BY <2>4, <2>5, <2>6, <2>7
<1>6. \A i \in 1..Len(lines') : lines'[i].num > 0 /\ TableOf(lines'[i].key) < written'
  <2>1. \A i \in 1..n : lines[i].num > 0
    BY DEF FileSound, n
  <2>2. ASSUME NEW i \in 1..n PROVE TableOf(lines[i].key) < written + 1
    <3>1. TableOf(lines[i].key) < written
      BY <1>3
    <3>2. TableOf(lines[i].key) \in 0..4
      BY LineOutcome DEF TableOf, RowKeys, n
    <3> QED BY <1>2, <3>1, <3>2
  <2>3. ASSUME NEW i \in 1..m PROVE TableOf(s[i].key) < written + 1
    BY <1>2, <1>4
  <2> SUFFICES ASSUME NEW i \in 1..(n + m) PROVE lines'[i].num > 0 /\ TableOf(lines'[i].key) < written + 1
    BY <1>1
  <2>4. CASE i \in 1..n
    BY <1>1, <2>1, <2>2, <2>4
  <2>5. CASE i \notin 1..n
    <3>1. PICK a \in 1..m : i = n + a
      BY <1>1, <2>5
    <3> QED BY <1>1, <1>4, <2>3, <3>1
  <2> QED BY <2>4, <2>5
<1>7. TableOf("project") = 1 /\ TableOf("issue") = 2 /\ \A e \in Sent : TableOf(e) = 3
  BY DEF TableOf
<1>8. written' >= 2 => \E j \in 1..Len(lines') : lines'[j].key = "project"
  <2>1. CASE written = 1
    <3>1. m = 1 /\ s[1].key = "project"
      BY <2>1 DEF m
    <3>2. lines'[n + 1] = s[1] /\ n + 1 \in 1..Len(lines')
      BY <1>1, <3>1
    <3> QED BY <3>1, <3>2
  <2>2. CASE written >= 2
    <3>1. PICK j \in 1..n : lines[j].key = "project"
      BY <2>2 DEF FileSound, n
    <3> QED BY <1>1, <3>1
  <2> QED BY <1>2, <2>1, <2>2
<1>9. written' >= 3 /\ snapshot' # {} => \E j \in 1..Len(lines') : lines'[j].key = "issue"
  <2>1. CASE written = 2 /\ Seen # {}
    <3>1. m = 1 /\ s[1].key = "issue"
      BY <2>1 DEF m
    <3>2. lines'[n + 1] = s[1] /\ n + 1 \in 1..Len(lines')
      BY <1>1, <3>1
    <3> QED BY <3>1, <3>2
  <2>2. CASE written >= 3 /\ Seen # {}
    <3>1. snapshot # {}
      BY <2>2 DEF Seen
    <3>2. PICK j \in 1..n : lines[j].key = "issue"
      BY <2>2, <3>1 DEF FileSound, n
    <3> QED BY <1>1, <3>2
  <2> QED BY <1>2, <2>1, <2>2
<1>10. ASSUME NEW i \in 1..Len(lines'), lines'[i].key \in Sent
       PROVE  /\ \E j \in 1..Len(lines') : j < i /\ lines'[j].key = "project"
              /\ \E j \in 1..Len(lines') : j < i /\ lines'[j].key = "issue"
  <2>1. CASE i \in 1..n
    <3>1. PICK p \in 1..n : p < i /\ lines[p].key = "project"
      BY <1>1, <1>10, <2>1 DEF FileSound, n
    <3>2. PICK q \in 1..n : q < i /\ lines[q].key = "issue"
      BY <1>1, <1>10, <2>1 DEF FileSound, n
    <3> QED BY <1>1, <3>1, <3>2
  <2>2. CASE i \notin 1..n
    <3>1. PICK j \in 1..m : i = n + j /\ lines'[i] = s[j]
      BY <1>1, <2>2
    <3>2. written = 3 /\ Seen # {}
      BY <1>4, <1>7, <1>10, <3>1 DEF m
    <3>3. snapshot # {}
      BY <3>2 DEF Seen
    <3>4. PICK p \in 1..n : lines[p].key = "project"
      BY <3>2 DEF FileSound, n
    <3>5. PICK q \in 1..n : lines[q].key = "issue"
      BY <3>2, <3>3 DEF FileSound, n
    <3>6. p < i /\ q < i
      BY <1>1, <3>1
    <3> QED BY <1>1, <3>4, <3>5, <3>6
  <2> QED BY <2>1, <2>2
<1>11. FileSound'
  <2>1. import'.pc = "idle" /\ target' = before' /\ before'["symbols"] = 0 /\ \A e \in Sent : before'[e] = 0
    BY <1>2 DEF FileSound
  <2> QED BY <1>5, <1>6, <1>8, <1>9, <1>10, <2>1 DEF FileSound
<1>12. ImportSound'
  <2>1. ReadUpTo(target, 0)' /\ 0 \in 0..Len(lines')
    BY <1>1, <1>2 DEF ReadUpTo
  <2> QED BY <1>2, <2>1 DEF ImportSound
<1>13. TransferTypes'
  BY <1>1, <1>2 DEF TransferTypes
<1>14. BytesSound'
  BY DEF BytesSound
<1> QED BY <1>11, <1>12, <1>13, <1>14

LEMMA ExportStep ==
  ASSUME TransferInv, ExportTable
  PROVE  TransferInv'
<1> USE TransferAssumption
<1>1. /\ written < 5 /\ snapshot' = Seen /\ written' = written + 1
      /\ UNCHANGED <<source, before, target, object, bytes, drawn, import>>
  BY DEF ExportTable
<1>2. /\ Seen \subseteq Sent /\ Cardinality(Seen) \in Nat /\ (Seen # {} => Cardinality(Seen) > 0)
      /\ lines \in Seq([key : RowKeys, num : Nat])
  <2>1. Seen \subseteq Sent
    BY DEF Seen, TransferInv, TransferTypes
  <2>2. IsFiniteSet(Seen)
    BY <2>1, FS_Subset
  <2> QED BY <2>1, <2>2, FS_CardinalityType, FS_EmptySet DEF TransferInv, TransferTypes
<1>3. TableOf("user") = 0 /\ TableOf("project") = 1 /\ TableOf("issue") = 2 /\ TableOf("symbols") = 4
      /\ \A e \in Sent : TableOf(e) = 3
  BY DEF TableOf
<1>4. ASSUME NEW k \in RowKeys, NEW c \in Nat, c > 0, TableOf(k) = written, lines' = Append(lines, Line(k, c)),
             written = 1 => k = "project", written = 2 /\ Seen # {} => k = "issue", written # 3
      PROVE  TransferInv'
  <2> DEFINE s == <<Line(k, c)>>
  <2>1. s \in Seq([key : RowKeys, num : Nat]) /\ Len(s) = 1 /\ s[1].key = k /\ s[1].num = c
    BY <1>4 DEF Line
  <2>2. lines' = lines \o s
    BY <1>2, <1>4, <2>1
  <2>3. \A i \in 1..Len(s) : i = 1
    BY <2>1
  <2> HIDE DEF s
  <2> QED BY <1>1, <1>4, <2>1, <2>2, <2>3, TableAppended
<1>5. ASSUME lines' = lines, written \in {2, 4}, written = 2 => Seen = {}
      PROVE  TransferInv'
  <2> DEFINE s == << >>
  <2>1. s \in Seq([key : RowKeys, num : Nat]) /\ Len(s) = 0
    OBVIOUS
  <2>2. lines' = lines \o s
    BY <1>2, <1>5
  <2>3. \A i \in 1..Len(s) : FALSE
    BY <2>1
  <2> HIDE DEF s
  <2>4. /\ \A i, j \in 1..Len(s) : s[i].key = s[j].key => i = j
        /\ \A i \in 1..Len(s) : s[i].num > 0 /\ TableOf(s[i].key) = written
        /\ \A i \in 1..Len(s) : s[i].key \in Seen
    BY <2>3
  <2>5. ~(written = 1) /\ ~(written = 2 /\ Seen # {})
    BY <1>5
  <2> QED BY <1>1, <2>1, <2>2, <2>4, <2>5, TableAppended
<1>6. CASE written = 0 /\ lines' = Append(lines, Line("user", 1))
  BY <1>3, <1>4, <1>6 DEF RowKeys
<1>7. CASE written = 1 /\ lines' = Append(lines, Line("project", 1))
  BY <1>3, <1>4, <1>7 DEF RowKeys
<1>8. CASE written = 2 /\ lines' = IF Seen = {} THEN lines ELSE Append(lines, Line("issue", Cardinality(Seen)))
  BY <1>2, <1>3, <1>4, <1>5, <1>8 DEF RowKeys
<1>9. ASSUME written = 3, NEW s \in EventLines(Seen), lines' = lines \o s
      PROVE  TransferInv'
  <2>1. /\ s \in Seq([key : RowKeys, num : Nat]) /\ Len(s) \in Nat
        /\ \A i \in 1..Len(s) : s[i].key \in Seen /\ s[i].num = 1
        /\ \A i, j \in 1..Len(s) : s[i].key = s[j].key => i = j
    BY <1>2, EachOnce
  <2>2. \A i \in 1..Len(s) : s[i].num > 0 /\ TableOf(s[i].key) = written
    BY <1>2, <1>3, <1>9, <2>1
  <2>3. ~(written = 1) /\ ~(written = 2)
    BY <1>9
  <2> QED BY <1>1, <1>9, <2>1, <2>2, <2>3, TableAppended
<1>10. ASSUME written = 4, NEW kept \in BOOLEAN, lines' = IF kept THEN Append(lines, Line("symbols", 1)) ELSE lines
       PROVE  TransferInv'
  BY <1>3, <1>4, <1>5, <1>10 DEF RowKeys
<1> QED BY <1>6, <1>7, <1>8, <1>9, <1>10 DEF ExportTable

-----------------------------------------------------------------------------
(* The import. *)

\* One more line read into rows that have it or are just before it.
LEMMA LineRead ==
  ASSUME TransferTypes, FileSound, NEW row \in [RowKeys -> Nat], NEW n \in 0..Len(lines), ReadUpTo(row, n),
         NEW r \in Nat, r < Len(lines), n >= r
  PROVE  LET l    == lines[r + 1]
             next == [row EXCEPT ![l.key] = Applied(l, @)]
         IN  /\ next \in [RowKeys -> Nat] /\ next[l.key] # 0
             /\ \A k \in RowKeys \ {l.key} : next[k] = row[k]
             /\ \E m \in 0..Len(lines) : m >= r + 1 /\ ReadUpTo(next, m)
<1> USE TransferAssumption
<1> DEFINE l    == lines[r + 1]
           next == [row EXCEPT ![l.key] = Applied(l, @)]
<1>1. r + 1 \in 1..Len(lines) /\ Len(lines) \in Nat
  BY DEF TransferTypes
<1>2. l \in [key : RowKeys, num : Nat] /\ l.num > 0 /\ l.key \in RowKeys /\ Outcome(l.key) = Applied(l, before[l.key])
  BY <1>1, LineOutcome
<1>3. before[l.key] \in Nat /\ row[l.key] \in Nat
  BY <1>2 DEF TransferTypes
<1>4. Applied(l, row[l.key]) \in Nat /\ Applied(l, row[l.key]) # 0
  BY <1>2, <1>3, AppliedTwice
<1>5. next[l.key] = Applied(l, row[l.key]) /\ next \in [RowKeys -> Nat] /\ \A k \in RowKeys \ {l.key} : next[k] = row[k]
  BY <1>2, <1>4
<1>6. next[l.key] = Outcome(l.key)
  <2>1. CASE r + 1 <= n
    <3>1. row[l.key] = Applied(l, before[l.key])
      BY <1>1, <1>2, <2>1 DEF ReadUpTo
    <3> QED BY <1>2, <1>3, <1>5, <3>1, AppliedTwice
  <2>2. CASE ~(r + 1 <= n)
    <3>1. n = r
      BY <2>2
    <3>2. \A i \in 1..Len(lines) : i <= n => lines[i].key # l.key
      BY <1>1, <3>1 DEF FileSound
    <3>3. row[l.key] = before[l.key]
      BY <1>2, <3>2 DEF ReadUpTo
    <3> QED BY <1>2, <1>5, <3>3
  <2> QED BY <2>1, <2>2
<1> DEFINE m == IF r + 1 <= n THEN n ELSE r + 1
<1>7. m \in 0..Len(lines) /\ m >= r + 1 /\ m >= n /\ (m = n \/ m = n + 1) /\ (m # n => m = r + 1)
  BY <1>1
<1>8. \A i \in 1..Len(lines) : lines[i].key \in RowKeys
  BY LineOutcome
<1> HIDE DEF l, next, m
<1>9. ReadUpTo(next, m)
  <2>1. ASSUME NEW i \in 1..Len(lines), i <= m PROVE next[lines[i].key] = Outcome(lines[i].key)
    <3>1. CASE lines[i].key = l.key
      BY <1>6, <3>1
    <3>2. CASE lines[i].key # l.key
      <4>1. i # r + 1
        BY <3>2 DEF l
      <4>2. i <= n
        BY <1>7, <2>1, <4>1
      <4> QED BY <1>5, <1>8, <3>2, <4>2 DEF ReadUpTo
    <3> QED BY <3>1, <3>2
  <2>2. ASSUME NEW k \in RowKeys, \A i \in 1..Len(lines) : i <= m => lines[i].key # k PROVE next[k] = before[k]
    <3>1. k # l.key
      BY <1>1, <1>7, <2>2 DEF l
    <3>2. \A i \in 1..Len(lines) : i <= n => lines[i].key # k
      BY <1>7, <2>2
    <3> QED BY <1>5, <3>1, <3>2 DEF ReadUpTo
  <2> QED BY <2>1, <2>2 DEF ReadUpTo
<1> QED BY <1>5, <1>4, <1>7, <1>9 DEF l, next

\* A step of the import leaves the file, and what its lines stand for.
LEMMA FileKept ==
  ASSUME FileSound, UNCHANGED <<source, snapshot, written, lines, before>>, written < 5 => target' = target /\ import'.pc = "idle"
  PROVE  FileSound' /\ \A row, n : ReadUpTo(row, n)' <=> ReadUpTo(row, n)
  BY DEF FileSound, ReadUpTo, Outcome

\* What the import leaves of the file's side is its own rows.
LEMMA ImportLineStep ==
  ASSUME TransferInv, ImportLine
  PROVE  TransferInv'
<1> USE TransferAssumption DEF TransferInv
<1> DEFINE l == NextLine
<1>1. /\ import.pc = "chunk" /\ import.read < Len(lines) /\ l.key # "symbols"
      /\ import' = [import EXCEPT !.read = @ + 1, !.rows[NextLine.key] = Applied(NextLine, @)]
      /\ UNCHANGED <<source, snapshot, written, lines, before, target, object, bytes, drawn>>
  BY DEF ImportLine, Reading
<1>2. PICK n \in 0..Len(lines) : n >= import.read /\ ReadUpTo(import.rows, n)
  BY <1>1 DEF ImportSound
<1>3. import.rows \in [RowKeys -> Nat] /\ import.read \in Nat /\ import.done \in Nat /\ DOMAIN import = DOMAIN NoImport
  BY <1>1 DEF TransferTypes
<1> DEFINE next == [import.rows EXCEPT ![l.key] = Applied(l, @)]
<1>4. /\ next \in [RowKeys -> Nat] /\ \A k \in RowKeys \ {l.key} : next[k] = import.rows[k]
      /\ \E m \in 0..Len(lines) : m >= import.read + 1 /\ ReadUpTo(next, m)
  <2> DEFINE m == lines[import.read + 1]
  <2>1. l = m
    BY DEF NextLine
  <2>2. /\ [import.rows EXCEPT ![m.key] = Applied(m, @)] \in [RowKeys -> Nat]
        /\ \E k \in 0..Len(lines) : k >= import.read + 1 /\ ReadUpTo([import.rows EXCEPT ![m.key] = Applied(m, @)], k)
    BY <1>1, <1>2, <1>3, LineRead
  <2>3. \A k \in RowKeys \ {m.key} : [import.rows EXCEPT ![m.key] = Applied(m, @)][k] = import.rows[k]
    BY <1>3
  <2> HIDE DEF m
  <2> QED BY <2>1, <2>2, <2>3
<1>5. import' = [import EXCEPT !.read = import.read + 1, !.rows = next]
  BY <1>1, <1>3 DEF NoImport
<1> HIDE DEF next, l
<1>6. /\ import'.pc = "chunk" /\ import'.read = import.read + 1 /\ import'.done = import.done /\ import'.rows = next
      /\ import'.object = import.object /\ import'.pending = import.pending /\ import'.replaced = import.replaced
      /\ DOMAIN import' = DOMAIN NoImport
  BY <1>1, <1>3, <1>5 DEF NoImport
<1>7. FileSound' /\ \A row, m : ReadUpTo(row, m)' <=> ReadUpTo(row, m)
  <2>1. ~(written < 5)
    BY <1>1 DEF FileSound
  <2> QED BY <1>1, <2>1, FileKept
<1>8. TransferTypes'
  <2>1. import'.read \in Nat /\ import'.done \in Nat /\ import'.rows \in [RowKeys -> Nat]
    BY <1>3, <1>4, <1>6
  <2>2. bytes' \subseteq drawn' /\ drawn' \subseteq Objects
    BY <1>1 DEF TransferTypes
  <2> QED BY <1>1, <1>6, <2>1, <2>2 DEF TransferTypes
<1>9. ImportSound'
  <2>1. import'.read <= Len(lines)
    BY <1>1, <1>3, <1>6 DEF TransferTypes
  <2>2. PICK m \in 0..Len(lines) : m >= import.read + 1 /\ ReadUpTo(next, m)
    BY <1>4
  <2>3. ReadUpTo(import.rows, m)'
    <3>1. lines' = lines /\ before' = before /\ import'.rows = next
      BY <1>1, <1>6
    <3> QED BY <2>2, <3>1 DEF ReadUpTo, Outcome
  <2>4. PICK k \in 0..Len(lines) : ReadUpTo(target, k)
    BY DEF ImportSound
  <2>5. ReadUpTo(target, k)'
    BY <1>1, <2>4 DEF ReadUpTo, Outcome
  <2>6. m \in 0..Len(lines') /\ m >= import'.read /\ k \in 0..Len(lines')
    BY <1>1, <1>6, <2>2, <2>4
  <2> QED BY <1>1, <1>6, <2>1, <2>3, <2>5, <2>6 DEF ImportSound
<1>10. BytesSound'
  <2>1. next["symbols"] = import.rows["symbols"]
    BY <1>1, <1>4 DEF RowKeys, l
  <2> QED BY <1>1, <1>6, <2>1 DEF BytesSound
<1> QED BY <1>7, <1>8, <1>9, <1>10

LEMMA ImportSymbolsStep ==
  ASSUME TransferInv, NEW o \in Objects, ImportSymbols(o)
  PROVE  TransferInv'
<1> USE TransferAssumption DEF TransferInv
<1> DEFINE l == NextLine
<1>1. /\ import.pc = "chunk" /\ import.read < Len(lines) /\ l.key = "symbols" /\ o \notin drawn
      /\ drawn' = drawn \cup {o} /\ bytes' = bytes \cup {o}
      /\ import' = [import EXCEPT !.read = @ + 1, !.rows["symbols"] = Applied(NextLine, @), !.object = o,
                                  !.pending = @ \cup {o}, !.replaced = {object} \ {NoObject}]
      /\ UNCHANGED <<source, snapshot, written, lines, before, target, object>>
  BY DEF ImportSymbols, Reading
<1>2. PICK n \in 0..Len(lines) : n >= import.read /\ ReadUpTo(import.rows, n)
  BY <1>1 DEF ImportSound
<1>3. import.rows \in [RowKeys -> Nat] /\ import.read \in Nat /\ import.done \in Nat /\ DOMAIN import = DOMAIN NoImport
  BY <1>1 DEF TransferTypes
<1> DEFINE next == [import.rows EXCEPT !["symbols"] = Applied(l, @)]
<1>4. /\ next \in [RowKeys -> Nat]
      /\ \E m \in 0..Len(lines) : m >= import.read + 1 /\ ReadUpTo(next, m)
  <2> DEFINE m == lines[import.read + 1]
  <2>1. next = [import.rows EXCEPT ![m.key] = Applied(m, @)]
    BY <1>1 DEF NextLine
  <2>2. /\ [import.rows EXCEPT ![m.key] = Applied(m, @)] \in [RowKeys -> Nat]
        /\ \E k \in 0..Len(lines) : k >= import.read + 1 /\ ReadUpTo([import.rows EXCEPT ![m.key] = Applied(m, @)], k)
    BY <1>1, <1>2, <1>3, LineRead
  <2> HIDE DEF m, next
  <2> QED BY <2>1, <2>2
<1>5. import' = [import EXCEPT !.read = import.read + 1, !.rows = next, !.object = o,
                               !.pending = import.pending \cup {o}, !.replaced = {object} \ {NoObject}]
  BY <1>1, <1>3 DEF NoImport
<1> HIDE DEF next, l
<1>6. /\ import'.pc = "chunk" /\ import'.read = import.read + 1 /\ import'.done = import.done /\ import'.rows = next
      /\ import'.object = o /\ import'.pending = import.pending \cup {o} /\ import'.replaced = {object} \ {NoObject}
      /\ DOMAIN import' = DOMAIN NoImport
  BY <1>1, <1>3, <1>5 DEF NoImport
<1>7. FileSound' /\ \A row, m : ReadUpTo(row, m)' <=> ReadUpTo(row, m)
  <2>1. ~(written < 5)
    BY <1>1 DEF FileSound
  <2> QED BY <1>1, <2>1, FileKept
<1>8. TransferTypes'
  <2>1. import'.read \in Nat /\ import'.done \in Nat /\ import'.rows \in [RowKeys -> Nat]
    BY <1>3, <1>4, <1>6
  <2>2. bytes' \subseteq drawn' /\ drawn' \subseteq Objects
    BY <1>1 DEF TransferTypes
  <2> QED BY <1>1, <1>6, <2>1, <2>2 DEF TransferTypes
<1>9. ImportSound'
  <2>1. import'.read <= Len(lines)
    BY <1>1, <1>3, <1>6 DEF TransferTypes
  <2>2. PICK m \in 0..Len(lines) : m >= import.read + 1 /\ ReadUpTo(next, m)
    BY <1>4
  <2>3. ReadUpTo(import.rows, m)'
    <3>1. lines' = lines /\ before' = before /\ import'.rows = next
      BY <1>1, <1>6
    <3> QED BY <2>2, <3>1 DEF ReadUpTo, Outcome
  <2>4. PICK k \in 0..Len(lines) : ReadUpTo(target, k)
    BY DEF ImportSound
  <2>5. ReadUpTo(target, k)'
    BY <1>1, <2>4 DEF ReadUpTo, Outcome
  <2>6. m \in 0..Len(lines') /\ m >= import'.read /\ k \in 0..Len(lines')
    BY <1>1, <1>6, <2>2, <2>4
  <2> QED BY <1>1, <1>6, <2>1, <2>3, <2>5, <2>6 DEF ImportSound
<1>10. BytesSound'
  <2>1. o # object
    BY <1>1 DEF BytesSound, TransferTypes
  <2> QED BY <1>1, <1>6, <2>1 DEF BytesSound
<1> QED BY <1>7, <1>8, <1>9, <1>10

\* The chunk commits: its rows are the target's, its objects stay.
LEMMA CommitStep ==
  ASSUME TransferInv, CommitChunk
  PROVE  TransferInv'
<1> USE TransferAssumption DEF TransferInv
<1>1. /\ import.pc = "chunk" /\ target' = import.rows /\ object' = import.object
      /\ bytes' \in {bytes, bytes \ import.replaced}
      /\ import' = [import EXCEPT !.pc = "drain", !.done = import.read, !.pending = {}, !.replaced = {}]
      /\ UNCHANGED <<source, snapshot, written, lines, before, drawn>>
  BY DEF CommitChunk
<1>2. PICK n \in 0..Len(lines) : n >= import.read /\ ReadUpTo(import.rows, n)
  BY <1>1 DEF ImportSound
<1>3. import.rows \in [RowKeys -> Nat] /\ import.read \in Nat /\ import.done \in Nat /\ DOMAIN import = DOMAIN NoImport
  BY <1>1 DEF TransferTypes
<1>4. /\ import'.pc = "drain" /\ import'.read = import.read /\ import'.done = import.read /\ import'.rows = import.rows
      /\ import'.object = import.object /\ import'.pending = {} /\ import'.replaced = {}
      /\ DOMAIN import' = DOMAIN NoImport
  BY <1>1, <1>3 DEF NoImport
<1>5. FileSound' /\ \A row, m : ReadUpTo(row, m)' <=> ReadUpTo(row, m)
  <2>1. ~(written < 5)
    BY <1>1 DEF FileSound
  <2> QED BY <1>1, <2>1, FileKept
<1>6. TransferTypes'
  BY <1>1, <1>3, <1>4 DEF TransferTypes, BytesSound
<1>7. ImportSound'
  <2>1. n \in 0..Len(lines') /\ n >= import'.done /\ ReadUpTo(target, n)'
    <3>1. ReadUpTo(target, n)' <=> ReadUpTo(import.rows, n)
      BY <1>1 DEF ReadUpTo, Outcome
    <3> QED BY <1>1, <1>2, <1>4, <3>1
  <2> QED BY <1>1, <1>4, <2>1 DEF ImportSound
<1>8. BytesSound'
  BY <1>1, <1>4 DEF BytesSound
<1> QED BY <1>5, <1>6, <1>7, <1>8

\* The run ends before its time, and takes back what it wrote, or leaves it.
LEMMA ImportEnds ==
  ASSUME TransferInv, import.pc \in {"chunk", "drain"}, Stops,
         bytes' = bytes \/ (import.pc = "chunk" /\ bytes' = bytes \ import.pending),
         UNCHANGED <<source, snapshot, written, lines, before, target, object, drawn>>
  PROVE  TransferInv'
<1> USE TransferAssumption DEF TransferInv
<1>1. import'.pc = "idle" /\ import'.read = 0 /\ import'.done = 0 /\ DOMAIN import' = DOMAIN NoImport
  BY DEF Stops, NoImport
<1>2. FileSound' /\ \A row, m : ReadUpTo(row, m)' <=> ReadUpTo(row, m)
  BY <1>1, FileKept
<1>3. TransferTypes'
  BY <1>1 DEF TransferTypes
<1>4. ImportSound'
  <2>1. \E m \in 0..Len(lines') : ReadUpTo(target, m)'
    BY <1>2 DEF ImportSound
  <2> QED BY <1>1, <2>1 DEF ImportSound
<1>5. BytesSound'
  BY <1>1 DEF BytesSound
<1> QED BY <1>2, <1>3, <1>4, <1>5

\* Steps elsewhere leave the target where it was.
LEMMA SoundKept ==
  ASSUME ImportSound, UNCHANGED <<lines, before, target, object, import>>
  PROVE  ImportSound'
<1>1. \A n : /\ ReadUpTo(target, n) <=> ReadUpTo(target, n)'
             /\ ReadUpTo(import.rows, n) <=> ReadUpTo(import.rows, n)'
  BY DEF ReadUpTo, Outcome
<1> QED BY <1>1 DEF ImportSound

LEMMA TransferStepInv == ASSUME TransferInv, [TransferNext]_transferVars PROVE TransferInv'
<1> USE TransferAssumption
<1>1. ASSUME NEW e \in Sent, IngestMeanwhile(e)
      PROVE  TransferInv'
  <2>1. source' \subseteq Sent /\ UNCHANGED <<snapshot, written, lines, before, target, object, bytes, drawn, import>>
    BY <1>1 DEF IngestMeanwhile, TransferInv, TransferTypes
  <2>2. FileSound' /\ \A row, m : ReadUpTo(row, m)' <=> ReadUpTo(row, m)
    BY <2>1 DEF TransferInv, FileSound, ReadUpTo, Outcome
  <2>3. ImportSound'
    BY <2>1, SoundKept DEF TransferInv
  <2> QED BY <2>1, <2>2, <2>3 DEF TransferInv, TransferTypes, BytesSound
<1>2. CASE ExportTable
  BY <1>2, ExportStep
<1>3. CASE StartImport
  <2>1. /\ written = 5 /\ import.pc = "idle"
        /\ import' = [NoImport EXCEPT !.pc = "chunk", !.rows = target, !.object = object, !.runs = import.runs + 1]
        /\ UNCHANGED <<source, snapshot, written, lines, before, target, object, bytes, drawn>>
    BY <1>3 DEF StartImport
  <2>2. /\ import'.pc = "chunk" /\ import'.read = 0 /\ import'.done = 0 /\ import'.rows = target
        /\ import'.object = object /\ import'.pending = {} /\ import'.replaced = {}
        /\ DOMAIN import' = DOMAIN NoImport
    BY <2>1 DEF NoImport
  <2>3. FileSound' /\ \A row, m : ReadUpTo(row, m)' <=> ReadUpTo(row, m)
    BY <2>1, FileKept DEF TransferInv
  <2>4. PICK n \in 0..Len(lines) : ReadUpTo(target, n)
    BY DEF TransferInv, ImportSound
  <2>5. ReadUpTo(target, n)' /\ ReadUpTo(import.rows, n)'
    <3>1. lines' = lines /\ before' = before /\ target' = target /\ import'.rows = target
      BY <2>1, <2>2
    <3>2. ReadUpTo(target, n)'
      BY <2>4, <3>1 DEF ReadUpTo, Outcome
    <3>3. ReadUpTo(import.rows, n)'
      BY <2>4, <3>1 DEF ReadUpTo, Outcome
    <3> QED BY <3>2, <3>3
  <2>6. ImportSound'
    <3>1. n \in 0..Len(lines') /\ n >= import'.read /\ import'.read <= Len(lines')
      BY <2>1, <2>2, <2>4 DEF TransferInv, TransferTypes
    <3> QED BY <2>2, <2>5, <3>1 DEF ImportSound
  <2> QED BY <2>1, <2>2, <2>3, <2>6 DEF TransferInv, TransferTypes, BytesSound
<1>4. CASE ImportLine
  BY <1>4, ImportLineStep
<1>5. ASSUME NEW o \in Objects, ImportSymbols(o)
      PROVE  TransferInv'
  BY <1>5, ImportSymbolsStep
<1>6. CASE CommitChunk
  BY <1>6, CommitStep
<1>7. CASE FailChunk \/ StopImport
  BY <1>7, ImportEnds DEF FailChunk, StopImport
<1>8. CASE NextChunk
  <2>1. /\ import.pc = "drain"
        /\ import' = [import EXCEPT !.pc = IF import.done = Len(lines) THEN "done" ELSE "chunk"]
        /\ UNCHANGED <<source, snapshot, written, lines, before, target, object, bytes, drawn>>
    BY <1>8 DEF NextChunk
  <2>2. /\ import'.pc \in {"done", "chunk"} /\ (import'.pc = "done" => import.done = Len(lines))
        /\ import'.read = import.read /\ import'.done = import.done /\ import'.rows = import.rows
        /\ import'.object = import.object /\ import'.pending = import.pending /\ import'.replaced = import.replaced
        /\ DOMAIN import' = DOMAIN NoImport
    BY <2>1 DEF NoImport, TransferInv, TransferTypes
  <2>3. FileSound' /\ \A row, m : ReadUpTo(row, m)' <=> ReadUpTo(row, m)
    <3>1. ~(written < 5)
      BY <2>1 DEF TransferInv, FileSound
    <3> QED BY <2>1, <3>1, FileKept DEF TransferInv
  <2>4. PICK n \in 0..Len(lines) : n >= import.done /\ ReadUpTo(target, n)
    BY <2>1 DEF TransferInv, ImportSound
  <2>5. ImportSound'
    <3>1. import.rows = target /\ import.read = import.done /\ import.done \in Nat /\ Len(lines) \in Nat
      BY <2>1 DEF TransferInv, ImportSound, TransferTypes
    <3>2. n \in 0..Len(lines') /\ n >= import'.read /\ n >= import'.done /\ import'.read <= Len(lines')
      BY <2>1, <2>2, <2>4, <3>1
    <3>3. ReadUpTo(target, n)' /\ ReadUpTo(import.rows, n)'
      <4>1. lines' = lines /\ before' = before /\ target' = target /\ import'.rows = target
        BY <2>1, <2>2, <3>1
      <4> QED BY <2>4, <4>1 DEF ReadUpTo, Outcome
    <3> QED BY <2>1, <2>2, <3>2, <3>3 DEF ImportSound
  <2>6. BytesSound'
    <3>1. import.replaced = {} /\ import.pending = {}
      BY <2>1 DEF TransferInv, BytesSound
    <3> QED BY <2>1, <2>2, <3>1 DEF TransferInv, BytesSound
  <2> QED BY <2>1, <2>2, <2>3, <2>5, <2>6 DEF TransferInv, TransferTypes
<1>9. CASE UNCHANGED transferVars
  <2>1. UNCHANGED <<source, snapshot, written, lines, before, target, object, bytes, drawn, import>>
    BY <1>9 DEF transferVars
  <2>3. ImportSound'
    BY <2>1, SoundKept DEF TransferInv
  <2>4. TransferTypes' /\ FileSound' /\ BytesSound'
    <3>1. TransferTypes'
      BY <2>1 DEF TransferInv, TransferTypes
    <3>2. FileSound'
      BY <2>1 DEF TransferInv, FileSound
    <3>3. BytesSound'
      BY <2>1 DEF TransferInv, BytesSound
    <3> QED BY <3>1, <3>2, <3>3
  <2> QED BY <2>3, <2>4 DEF TransferInv
<1> QED BY <1>1, <1>2, <1>3, <1>4, <1>5, <1>6, <1>7, <1>8, <1>9 DEF TransferNext

\* RerunIsOneRun: a failed import is run again, not rolled back
\* (export.go:767-771), and leaves what one run leaves, for any events, chunk
\* size and number of runs; an event has its issue and its project, a symbol
\* file its bytes, whatever ended the runs before.
THEOREM RerunsAreOneRun == TransferSpec => []RerunIsOneRun
<1>1. TransferInv => RerunIsOneRun
  <2> SUFFICES ASSUME TransferInv PROVE RerunIsOneRun
    OBVIOUS
  <2> USE TransferAssumption DEF TransferInv
  <2>1. ASSUME NEW e \in Sent, target[e] # 0
        PROVE  target["issue"] # 0 /\ target["project"] # 0
    <3>1. PICK n \in 0..Len(lines) : ReadUpTo(target, n)
      BY DEF ImportSound
    <3>2. e \in RowKeys /\ before[e] = 0
      BY DEF RowKeys, FileSound
    <3>3. PICK i \in 1..Len(lines) : i <= n /\ lines[i].key = e
      BY <2>1, <3>1, <3>2 DEF ReadUpTo
    <3>4. ASSUME NEW k, NEW j \in 1..Len(lines), j < i, lines[j].key = k
          PROVE  target[k] # 0
      <4>1. target[k] = Outcome(k)
        BY <3>1, <3>3, <3>4 DEF ReadUpTo
      <4>2. Outcome(k) = Applied(lines[j], before[k]) /\ before[k] \in Nat
        BY <3>4, LineOutcome DEF TransferTypes
      <4>3. lines[j] \in [key : RowKeys, num : Nat] /\ lines[j].num > 0
        BY LineOutcome
      <4> QED BY <4>1, <4>2, <4>3, AppliedTwice
    <3>5. /\ \E j \in 1..Len(lines) : j < i /\ lines[j].key = "project"
          /\ \E j \in 1..Len(lines) : j < i /\ lines[j].key = "issue"
      BY <3>3 DEF FileSound
    <3> QED BY <3>4, <3>5
  <2>2. import.pc = "done" => \A k \in RowKeys : target[k] = Outcome(k)
    <3> SUFFICES ASSUME import.pc = "done", NEW k \in RowKeys PROVE target[k] = Outcome(k)
      OBVIOUS
    <3>1. PICK n \in 0..Len(lines) : n >= Len(lines) /\ ReadUpTo(target, n)
      BY DEF ImportSound
    <3>2. DOMAIN lines = 1..Len(lines) /\ Len(lines) \in Nat
      BY DEF TransferTypes
    <3>3. \A i \in 1..Len(lines) : i <= n
      BY <3>1, <3>2
    <3>4. CASE \E i \in 1..Len(lines) : lines[i].key = k
      BY <3>1, <3>3, <3>4 DEF ReadUpTo
    <3>5. CASE \A i \in 1..Len(lines) : lines[i].key # k
      <4>1. target[k] = before[k]
        BY <3>1, <3>5 DEF ReadUpTo
      <4> QED BY <3>2, <3>5, <4>1 DEF Outcome
    <3> QED BY <3>4, <3>5
  <2> QED BY <2>1, <2>2 DEF RerunIsOneRun, BytesSound, Outcome
<1> QED BY <1>1, TransferInitInv, TransferStepInv, PTL DEF TransferSpec
=============================================================================
