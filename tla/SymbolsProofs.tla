---------------------------- MODULE SymbolsProofs -----------------------------
(***************************************************************************)
(* Proofs about symbol files, for any number of uploads, associations and  *)
(* deletions (SymbolFiles), and about the dSYM sidecar that fetches them,  *)
(* for any number of files and of symbolications (Sidecar): a row has its  *)
(* bytes, bytes without a row are excused, and what a symbolication reads  *)
(* is the copy of the file that is there.                                  *)
(***************************************************************************)
EXTENDS SymbolFiles, Sidecar, TLAPS

-----------------------------------------------------------------------------
(* SymbolFiles. *)

FetchType == [pc : {"idle", "read", "ok", "failed"}, release : Releases \cup {NoRelease},
              todo : SUBSET Keys, tries : 0..1, moves : 0..2]

UploadType == [pc : {"idle", "put", "stored", "locked", "clean", "undo"},
               slot : Slots \cup {Idle.slot}, key : Keys \cup {NoRow},
               old : Keys \cup {NoRow, InRow}]

\* FilesTypeOK, with any bytes in place of the one file name of Idle.
FilesTypes ==
  /\ row \in [Slots -> Keys \cup {NoRow, InRow}]
  /\ objects \subseteq Keys /\ doomed \subseteq Keys /\ listed \subseteq Keys /\ excused \subseteq Keys
  /\ upload \in [Uploaders -> UploadType]
  /\ project \in {"live", "listed", "gone"}
  /\ fetch \in FetchType

\* No two rows have one object, none has one about to be deleted, and the
\* object is there.
RowsKnown ==
  /\ \A s, t \in Slots : row[s] \in Keys /\ row[s] = row[t] => s = t
  /\ \A s \in Slots : row[s] \notin doomed
  /\ \A s \in Slots : row[s] \in Keys => row[s] \in objects
  /\ project = "live" => listed = {}

Pending(u) == upload[u].pc \in {"put", "stored", "locked", "undo"}

\* The key of an upload that did not commit is its own.
PendingKnown ==
  \A u \in Uploaders : Pending(u) =>
    /\ upload[u].key \in Keys /\ upload[u].key \notin doomed \cup listed
    /\ upload[u].old # upload[u].key /\ (\A s \in Slots : row[s] # upload[u].key)
    /\ \A v \in Uploaders \ {u} : upload[v].key # upload[u].key /\ upload[v].old # upload[u].key

\* Under the lock the row has the bytes that were read or none of its own in
\* the bucket, and no other row has them; after the commit none has.
LockKnown ==
  /\ \A u \in Uploaders :
       /\ upload[u].pc # "idle" => upload[u].slot \in Slots
       /\ upload[u].pc = "put" => upload[u].key \notin objects /\ upload[u].old = NoRow
       /\ upload[u].pc \in {"stored", "locked"} => upload[u].key \in objects
       /\ upload[u].pc = "locked" =>
            /\ row[upload[u].slot] \in Keys => row[upload[u].slot] = upload[u].old
            /\ \A s \in Slots : row[s] \in Keys /\ row[s] = upload[u].old => s = upload[u].slot
       /\ upload[u].pc = "clean" /\ upload[u].old \in Keys => \A s \in Slots : row[s] # upload[u].old
  /\ \A u, v \in Uploaders :
       upload[u].pc = "locked" /\ upload[v].pc = "locked" /\ upload[u].slot = upload[v].slot => u = v

\* A fetch misses an object only after its row was changed, more often than it
\* has read the rows again.
FetchKnown ==
  /\ fetch.pc = "read" =>
       /\ fetch.release \in Releases /\ fetch.tries <= fetch.moves
       /\ fetch.tries = fetch.moves => \A k \in fetch.todo : \E f \in Files : row[<<fetch.release, f>>] = k
  /\ fetch.pc = "failed" => fetch.moves = 2

FilesInv == FilesTypes /\ RowsKnown /\ PendingKnown /\ LockKnown

\* Every object has somebody who deletes it or knows that nobody will.
Accounted ==
  \A k \in objects :
    \/ k \in doomed \cup listed \cup excused
    \/ \E s \in Slots : row[s] = k
    \/ \E u \in Uploaders : (Pending(u) /\ upload[u].key = k) \/ (upload[u].pc = "clean" /\ upload[u].old = k)

LEMMA Slotted == \A r \in Releases \cup {NoRelease}, f \in Files : <<r, f>> \in Slots
  BY DEF Slots

\* A fresh key is nobody's.
LEMMA FreshKey ==
  ASSUME FilesTypes, NEW k \in Keys \ Mentioned
  PROVE  /\ k \notin objects /\ k \notin doomed /\ k \notin listed
         /\ \A s \in Slots : row[s] # k
         /\ \A u \in Uploaders : upload[u].key # k /\ upload[u].old # k
<1>1. k \notin objects /\ k \notin doomed /\ k \notin listed /\ k \notin RowKeys
      /\ \A u \in Uploaders : k \notin HeldBy(u)
  BY DEF Mentioned
<1>2. \A s \in Slots : row[s] # k
  BY <1>1 DEF RowKeys, KeyOf
<1>3. \A u \in Uploaders : upload[u].key # k /\ upload[u].old # k
  BY <1>1 DEF HeldBy, KeyOf
<1> QED BY <1>1, <1>2, <1>3

LEMMA FilesInitInv == FilesInit => FilesInv /\ FetchKnown /\ Accounted
<1> SUFFICES ASSUME FilesInit PROVE FilesInv /\ FetchKnown /\ Accounted
  OBVIOUS
<1> USE SymbolFilesAssumption
<1>1. FilesTypes
  BY DEF FilesInit, FilesTypes, FetchType, UploadType, Idle, NoFetch
<1>2. RowsKnown
  BY DEF FilesInit, RowsKnown
<1>3. PendingKnown /\ LockKnown
  BY DEF FilesInit, PendingKnown, LockKnown, Pending, Idle
<1>4. FetchKnown /\ Accounted
  BY DEF FilesInit, FetchKnown, Accounted, NoFetch
<1> QED BY <1>1, <1>2, <1>3, <1>4 DEF FilesInv

\* A change of rows is counted while their release is fetched.
LEMMA MovedCounts ==
  ASSUME FilesTypes, FetchKnown, NEW S, fetch' = Moved(S),
         fetch.pc = "read" =>
           \A f \in Files : row'[<<fetch.release, f>>] = row[<<fetch.release, f>>] \/ <<fetch.release, f>> \in S
  PROVE  FetchKnown' /\ fetch' \in FetchType
<1>1. CASE fetch.pc = "read" /\ \E s \in S : s[1] = fetch.release
  <2>1. fetch' = [fetch EXCEPT !.moves = IF @ < 2 THEN @ + 1 ELSE 2]
    BY <1>1 DEF Moved
  <2>2. /\ fetch' \in FetchType
        /\ fetch'.pc = "read" /\ fetch'.release \in Releases
        /\ fetch'.tries <= fetch'.moves /\ fetch'.tries # fetch'.moves
    BY <1>1, <2>1 DEF FilesTypes, FetchType, FetchKnown
  <2> QED BY <2>2 DEF FetchKnown
<1>2. CASE ~(fetch.pc = "read" /\ \E s \in S : s[1] = fetch.release)
  <2>1. fetch' = fetch
    BY <1>2 DEF Moved
  <2>2. fetch.pc = "read" => \A f \in Files : row'[<<fetch.release, f>>] = row[<<fetch.release, f>>]
    BY <1>2
  <2> QED BY <2>1, <2>2 DEF FilesTypes, FetchType, FetchKnown
<1> QED BY <1>1, <1>2

LEMMA FetchStepInv ==
  ASSUME FilesTypes, RowsKnown, LockKnown, FetchKnown, [FilesNext]_filesVars
  PROVE  /\ FetchKnown'
         /\ fetch' \in FetchType
<1> USE SymbolFilesAssumption
<1> DEFINE Kept == FetchKnown' /\ fetch' \in FetchType
<1> SUFFICES Kept
  OBVIOUS
<1>0. ASSUME UNCHANGED <<row, fetch>> PROVE Kept
  BY <1>0 DEF FilesTypes, FetchType, FetchKnown
<1>1. ASSUME NEW s \in Slots, PutInRow(s) PROVE Kept
  <2>1. row' = [row EXCEPT ![s] = InRow] /\ fetch' = Moved({s})
    BY <1>1 DEF PutInRow
  <2>2. \A t \in Slots : row'[t] = row[t] \/ t \in {s}
    BY <2>1 DEF FilesTypes, FetchType
  <2> QED BY <2>1, <2>2, MovedCounts, Slotted DEF FetchKnown
<1>2. ASSUME NEW u \in Uploaders, CommitSymbolFile(u) PROVE Kept
  <2> DEFINE s == upload[u].slot
  <2>1. row' = [row EXCEPT ![s] = upload[u].key] /\ fetch' = Moved({s})
    BY <1>2 DEF CommitSymbolFile
  <2>2. \A t \in Slots : row'[t] = row[t] \/ t \in {s}
    BY <2>1 DEF FilesTypes, FetchType
  <2> QED BY <2>1, <2>2, MovedCounts, Slotted DEF FetchKnown
<1>3. ASSUME NEW r \in Releases, NEW F \in SUBSET Files, Associate(r, F) PROVE Kept
  <2> DEFINE S == {<<r, f>> : f \in F}
  <2>1. /\ row' = [s \in Slots |-> IF s[2] \notin F \/ s[1] \notin {r, NoRelease} THEN row[s]
                                 ELSE IF s[1] = r THEN row[<<NoRelease, s[2]>>] ELSE NoRow]
        /\ fetch' = Moved(S)
    BY <1>3 DEF Associate
  <2>2. \A q \in Releases, f \in Files : row'[<<q, f>>] = row[<<q, f>>] \/ <<q, f>> \in S
    BY <2>1, Slotted
  <2> QED BY <2>1, <2>2, MovedCounts DEF FetchKnown
<1>4. ASSUME NEW S \in SUBSET Slots, RemoveRows(S) PROVE Kept
  <2>1. row' = [s \in Slots |-> IF s \in S THEN NoRow ELSE row[s]] /\ fetch' = Moved(S)
    BY <1>4 DEF RemoveRows
  <2> QED BY <2>1, MovedCounts, Slotted DEF FetchKnown
<1>5. CASE DeleteProject
  <2> DEFINE S == {s \in Slots : row[s] # NoRow}
  <2>1. row' = [s \in Slots |-> NoRow] /\ fetch' = Moved(S)
    BY <1>5 DEF DeleteProject
  <2> QED BY <2>1, MovedCounts, Slotted DEF FetchKnown
<1>6. ASSUME NEW r \in Releases, StartFetch(r) PROVE Kept
  <2>1. /\ fetch' = [pc |-> "read", release |-> r, tries |-> 0, moves |-> 0,
                     todo |-> UNION {KeyOf(row[<<r, f>>]) : f \in Files}]
        /\ row' = row
    BY <1>6 DEF StartFetch
  <2>2. fetch'.todo \subseteq Keys /\ \A k \in fetch'.todo : \E f \in Files : row[<<r, f>>] = k
    BY <2>1 DEF KeyOf
  <2>3. fetch' \in FetchType
    BY <2>1, <2>2 DEF FetchType
  <2>4. /\ fetch'.pc = "read" /\ fetch'.release = r /\ fetch'.tries = 0 /\ fetch'.moves = 0
        /\ row' = row
    BY <2>1
  <2> QED BY <2>2, <2>3, <2>4 DEF FetchKnown
<1>7. CASE FetchStep
  <2> DEFINE k == CHOOSE x \in fetch.todo : TRUE
  <2>1. fetch.pc = "read" /\ row' = row /\ fetch.release \in Releases
    BY <1>7 DEF FetchStep, FetchKnown
  <2>2. CASE fetch.todo = {}
    BY <1>7, <2>1, <2>2 DEF FetchStep, FilesTypes, FetchType, FetchKnown
  <2>3. CASE fetch.todo # {} /\ k \in objects
    <3>1. fetch' = [fetch EXCEPT !.todo = @ \ {k}]
      BY <1>7, <2>3 DEF FetchStep
    <3> QED BY <2>1, <3>1 DEF FilesTypes, FetchType, FetchKnown
  <2>4. CASE fetch.todo # {} /\ k \notin objects
    <3>1. fetch' = FetchMissing
      BY <1>7, <2>4 DEF FetchStep
    <3>2. k \in fetch.todo /\ k \in Keys
      BY <2>4 DEF FilesTypes, FetchType
    <3>3. \A f \in Files : row[<<fetch.release, f>>] # k
      BY <2>1, <2>4, <3>2, Slotted DEF RowsKnown
    <3>4. fetch.tries \in 0..1 /\ fetch.moves \in 0..2 /\ fetch.tries < fetch.moves
      <4>1. fetch.tries \in 0..1 /\ fetch.moves \in 0..2
        BY DEF FilesTypes, FetchType
      <4>2. fetch.tries <= fetch.moves /\ fetch.tries # fetch.moves
        BY <2>1, <3>2, <3>3 DEF FetchKnown
      <4> QED BY <4>1, <4>2
    <3>5. CASE fetch.tries = 0
      <4> DEFINE again == UNION {KeyOf(row[<<fetch.release, f>>]) : f \in Files}
      <4>1. again \in SUBSET Keys /\ \A x \in again : \E f \in Files : row[<<fetch.release, f>>] = x
        BY DEF KeyOf
      <4>2. fetch' = [fetch EXCEPT !.tries = 1, !.todo = again]
        BY <3>1, <3>5 DEF FetchMissing
      <4> HIDE DEF again
      <4>3. fetch' \in FetchType
        <5>1. 1 \in 0..1
          OBVIOUS
        <5> QED BY <4>1, <4>2, <5>1 DEF FilesTypes, FetchType
      <4>4. /\ fetch'.pc = fetch.pc /\ fetch'.release = fetch.release
            /\ fetch'.tries = 1 /\ fetch'.moves = fetch.moves /\ fetch'.todo = again
        BY <4>2 DEF FilesTypes, FetchType
      <4>5. fetch'.tries <= fetch'.moves
        BY <3>4, <4>4
      <4> QED BY <2>1, <4>1, <4>3, <4>4, <4>5 DEF FetchKnown
    <3>6. CASE fetch.tries # 0
      <4>1. fetch' = [fetch EXCEPT !.pc = "failed", !.todo = {}]
        BY <3>1, <3>6 DEF FetchMissing
      <4>2. fetch.moves = 2
        BY <3>4, <3>6
      <4> QED BY <2>1, <4>1, <4>2 DEF FilesTypes, FetchType, FetchKnown
    <3> QED BY <3>5, <3>6
  <2> QED BY <2>2, <2>3, <2>4
<1>8. ASSUME NEW u \in Uploaders, NEW s \in Slots, StartUpload(u, s) PROVE Kept
  BY <1>0, <1>8 DEF StartUpload
<1>9. ASSUME NEW u \in Uploaders,
             \/ PutBlob(u) \/ PutBlobFails(u) \/ LockSymbolFile(u)
             \/ UploadTxFails(u) \/ CleanUp(u) \/ CrashUpload(u)
      PROVE  Kept
  BY <1>0, <1>9 DEF PutBlob, PutBlobFails, LockSymbolFile, UploadTxFails, CleanUp, CrashUpload
<1>10. CASE DeleteDoomed \/ ListProjectBlobs \/ UNCHANGED filesVars
  BY <1>0, <1>10 DEF DeleteDoomed, ListProjectBlobs, filesVars
<1> HIDE DEF Kept
<1> QED
  BY <1>1, <1>2, <1>3, <1>4, <1>5, <1>6, <1>7, <1>8, <1>9, <1>10 DEF FilesNext

LEMMA FilesStepInv ==
  ASSUME FilesInv, FetchKnown, KnownOutcome, AssociateApart, [FilesNext]_filesVars
  PROVE  FilesInv'
<1> USE SymbolFilesAssumption DEF FilesInv
<1>0. fetch' \in FetchType
  BY FetchStepInv
<1>1. ASSUME NEW u \in Uploaders, NEW s \in Slots, StartUpload(u, s) PROVE FilesInv'
  <2>1. PICK k \in Keys \ Mentioned :
           upload' = [upload EXCEPT ![u] = [pc |-> "put", slot |-> s, key |-> k, old |-> NoRow]]
    BY <1>1 DEF StartUpload
  <2>2. upload[u].pc = "idle" /\ UNCHANGED <<row, objects, doomed, project, listed, fetch, excused>>
    BY <1>1 DEF StartUpload
  <2>3. /\ k \notin objects /\ k \notin doomed /\ k \notin listed /\ k # NoRow
        /\ \A t \in Slots : row[t] # k
        /\ \A v \in Uploaders : upload[v].key # k /\ upload[v].old # k
    BY FreshKey
  <2>4. FilesTypes'
    BY <1>0, <2>1, <2>2, <2>3 DEF FilesTypes, UploadType
  <2>5. RowsKnown'
    BY <2>1, <2>2, <2>3 DEF FilesTypes, UploadType, RowsKnown
  <2>6. PendingKnown'
    BY <2>1, <2>2, <2>3 DEF FilesTypes, UploadType, PendingKnown, Pending
  <2>7. LockKnown'
    BY <2>1, <2>2, <2>3 DEF FilesTypes, UploadType, LockKnown, PendingKnown, Pending, RowsKnown
  <2> QED BY <2>4, <2>5, <2>6, <2>7
<1>2. ASSUME NEW u \in Uploaders, PutBlob(u) PROVE FilesInv'
  <2>1. /\ upload[u].pc = "put" /\ objects' = objects \cup {upload[u].key}
        /\ upload' = [upload EXCEPT ![u].pc = "stored"]
        /\ UNCHANGED <<row, doomed, project, listed, fetch, excused>>
        /\ upload[u].key \in Keys
    BY <1>2 DEF PutBlob, Step, PendingKnown, Pending
  <2>2. FilesTypes'
    BY <1>0, <2>1 DEF FilesTypes, UploadType
  <2>3. RowsKnown'
    BY <2>1 DEF FilesTypes, UploadType, RowsKnown
  <2>4. PendingKnown'
    BY <2>1 DEF FilesTypes, UploadType, PendingKnown, Pending
  <2>5. LockKnown'
    BY <2>1 DEF FilesTypes, UploadType, LockKnown, PendingKnown, Pending, RowsKnown
  <2> QED BY <2>2, <2>3, <2>4, <2>5
<1>3. ASSUME NEW u \in Uploaders, PutBlobFails(u) PROVE FilesInv'
  <2>1. /\ upload[u].pc = "put" /\ upload' = [upload EXCEPT ![u] = Idle]
        /\ UNCHANGED <<row, doomed, project, listed, fetch>>
        /\ upload[u].key \in Keys
        /\ \/ UNCHANGED <<objects, excused>>
           \/ objects' = objects \cup {upload[u].key} /\ excused' = excused \cup {upload[u].key}
    BY <1>3 DEF PutBlobFails, PendingKnown, Pending
  <2>2. FilesTypes'
    BY <1>0, <2>1 DEF FilesTypes, UploadType, Idle
  <2>3. RowsKnown'
    BY <2>1 DEF FilesTypes, UploadType, RowsKnown
  <2>4. PendingKnown'
    BY <2>1 DEF FilesTypes, UploadType, Idle, PendingKnown, Pending
  <2>5. LockKnown'
    BY <2>1 DEF FilesTypes, UploadType, Idle, LockKnown, PendingKnown, Pending, RowsKnown
  <2> QED BY <2>2, <2>3, <2>4, <2>5
<1>4. ASSUME NEW s \in Slots, PutInRow(s) PROVE FilesInv'
  <2>1. /\ row' = [row EXCEPT ![s] = InRow]
        /\ excused' = excused \cup (KeyOf(row[s]) \cap objects) /\ fetch' = Moved({s})
        /\ UNCHANGED <<objects, upload, doomed, project, listed>>
    BY <1>4 DEF PutInRow
  <2>2. FilesTypes'
    BY <1>0, <2>1 DEF FilesTypes, UploadType, KeyOf
  <2>3. RowsKnown'
    BY <2>1 DEF FilesTypes, UploadType, RowsKnown
  <2>4. PendingKnown'
    BY <2>1 DEF FilesTypes, UploadType, PendingKnown, Pending
  <2>5. LockKnown'
    BY <2>1 DEF FilesTypes, UploadType, LockKnown, PendingKnown, Pending, RowsKnown
  <2> QED BY <2>2, <2>3, <2>4, <2>5
<1>5. ASSUME NEW u \in Uploaders, LockSymbolFile(u) PROVE FilesInv'
  <2>1. /\ upload[u].pc = "stored"
        /\ \A v \in Uploaders : upload[v].pc = "locked" => upload[v].slot # upload[u].slot
        /\ upload' = [upload EXCEPT ![u].pc = "locked", ![u].old = row[upload[u].slot]]
        /\ UNCHANGED <<row, objects, doomed, project, listed, fetch, excused>>
        /\ upload[u].slot \in Slots
    BY <1>5 DEF LockSymbolFile, LockFree, InTx, LockKnown
  <2>6. upload' \in [Uploaders -> UploadType]
    <3>1. row[upload[u].slot] \in Keys \cup {NoRow, InRow}
      BY <2>1 DEF FilesTypes, UploadType
    <3>2. [upload[u] EXCEPT !.pc = "locked", !.old = row[upload[u].slot]] \in UploadType
      <4>1. upload[u] \in UploadType
        BY DEF FilesTypes
      <4> QED BY <3>1, <4>1 DEF UploadType
    <3>3. upload' = [upload EXCEPT ![u] = [upload[u] EXCEPT !.pc = "locked", !.old = row[upload[u].slot]]]
      BY <2>1 DEF FilesTypes, UploadType
    <3> QED BY <3>2, <3>3 DEF FilesTypes
  <2>2. FilesTypes'
    BY <1>0, <2>1, <2>6 DEF FilesTypes
  <2>3. RowsKnown'
    BY <2>1 DEF FilesTypes, UploadType, RowsKnown
  <2>4. PendingKnown'
    BY <2>1 DEF FilesTypes, UploadType, PendingKnown, Pending, LockKnown
  <2>5. LockKnown'
    BY <2>1 DEF FilesTypes, UploadType, LockKnown, PendingKnown, Pending, RowsKnown
  <2> QED BY <2>2, <2>3, <2>4, <2>5
<1>6. ASSUME NEW u \in Uploaders, CommitSymbolFile(u) PROVE FilesInv'
  <2>1. /\ upload[u].pc = "locked" /\ project # "gone"
        /\ row' = [row EXCEPT ![upload[u].slot] = upload[u].key]
        /\ fetch' = Moved({upload[u].slot})
        /\ upload' = [upload EXCEPT ![u].pc = "clean"]
        /\ UNCHANGED <<objects, doomed, project, listed, excused>>
        /\ upload[u].slot \in Slots /\ upload[u].key \in Keys
    BY <1>6 DEF CommitSymbolFile, Step, LockKnown, PendingKnown, Pending
  <2>6. upload' \in [Uploaders -> UploadType] /\ row' \in [Slots -> Keys \cup {NoRow, InRow}]
    BY <2>1 DEF FilesTypes, UploadType
  <2>2. FilesTypes'
    BY <1>0, <2>1, <2>6 DEF FilesTypes
  <2>7. /\ upload[u].key \in Keys /\ upload[u].key \notin doomed /\ upload[u].key \in objects
        /\ \A s \in Slots : row[s] # upload[u].key
        /\ \A s \in Slots : row'[s] = IF s = upload[u].slot THEN upload[u].key ELSE row[s]
    BY <2>1 DEF PendingKnown, Pending, LockKnown, FilesTypes, UploadType
  <2>3. RowsKnown'
    BY <2>1, <2>7 DEF RowsKnown
  <2>4. PendingKnown'
    BY <2>1 DEF FilesTypes, UploadType, PendingKnown, Pending, LockKnown
  <2>5. LockKnown'
    BY <2>1 DEF FilesTypes, UploadType, LockKnown, PendingKnown, Pending, RowsKnown
  <2> QED BY <2>2, <2>3, <2>4, <2>5
<1>7. ASSUME NEW u \in Uploaders, UploadTxFails(u) PROVE FilesInv'
  <2>1. /\ upload[u].pc \in {"stored", "locked"}
        /\ upload' = [upload EXCEPT ![u].pc = "undo"]
        /\ UNCHANGED <<row, objects, doomed, project, listed, fetch, excused>>
    BY <1>7 DEF UploadTxFails, Step
  <2>2. FilesTypes'
    BY <1>0, <2>1 DEF FilesTypes, UploadType
  <2>3. RowsKnown'
    BY <2>1 DEF FilesTypes, UploadType, RowsKnown
  <2>4. PendingKnown'
    BY <2>1 DEF FilesTypes, UploadType, PendingKnown, Pending
  <2>5. LockKnown'
    BY <2>1 DEF FilesTypes, UploadType, LockKnown, PendingKnown, Pending, RowsKnown
  <2> QED BY <2>2, <2>3, <2>4, <2>5
<1>8. ASSUME NEW u \in Uploaders, CleanUp(u) PROVE FilesInv'
  <2> DEFINE S == IF upload[u].pc = "clean" THEN KeyOf(upload[u].old) ELSE KeyOf(upload[u].key)
  <2>1. /\ upload[u].pc \in {"clean", "undo"} /\ DeleteBlobs(S)
        /\ upload' = [upload EXCEPT ![u] = Idle]
        /\ UNCHANGED <<row, doomed, project, listed, fetch>>
    BY <1>8 DEF CleanUp
  <2>2. /\ objects' \subseteq objects /\ objects \ S \subseteq objects'
        /\ excused \ S \subseteq excused' /\ S \cap objects' \subseteq excused'
        /\ excused' \subseteq excused \cup objects
    BY <2>1 DEF DeleteBlobs
  <2>3. /\ \A x \in S : x \in Keys /\ (x = upload[u].old \/ x = upload[u].key)
        /\ \A s \in Slots : row[s] \notin S
        /\ \A v \in Uploaders \ {u} : Pending(v) => upload[v].key \notin S
    BY <2>1 DEF KeyOf, FilesTypes, UploadType, LockKnown, PendingKnown, Pending
  <2>4. FilesTypes'
    BY <1>0, <2>1, <2>2, <2>3 DEF FilesTypes, UploadType, Idle
  <2>5. RowsKnown'
    BY <2>1, <2>2, <2>3 DEF FilesTypes, UploadType, RowsKnown
  <2>6. PendingKnown'
    BY <2>1, <2>2, <2>3 DEF FilesTypes, UploadType, Idle, PendingKnown, Pending
  <2>7. LockKnown'
    BY <2>1, <2>2, <2>3 DEF FilesTypes, UploadType, Idle, LockKnown, PendingKnown, Pending, RowsKnown
  <2> QED BY <2>4, <2>5, <2>6, <2>7
<1>9. ASSUME NEW u \in Uploaders, CrashUpload(u) PROVE FilesInv'
  <2>1. /\ upload' = [upload EXCEPT ![u] = Idle]
        /\ excused' = excused \cup ((HeldBy(u) \cap objects) \ RowKeys)
        /\ UNCHANGED <<row, objects, doomed, project, listed, fetch>>
    BY <1>9 DEF CrashUpload
  <2>2. FilesTypes'
    BY <1>0, <2>1 DEF FilesTypes, UploadType, Idle, HeldBy, KeyOf
  <2>3. RowsKnown'
    BY <2>1 DEF FilesTypes, UploadType, RowsKnown
  <2>4. PendingKnown'
    BY <2>1 DEF FilesTypes, UploadType, Idle, PendingKnown, Pending
  <2>5. LockKnown'
    BY <2>1 DEF FilesTypes, UploadType, Idle, LockKnown, PendingKnown, Pending, RowsKnown
  <2> QED BY <2>2, <2>3, <2>4, <2>5
<1>10. ASSUME NEW r \in Releases, NEW F \in SUBSET Files, Associate(r, F) PROVE FilesInv'
  <2> DEFINE Moves(s) == s[2] \in F /\ s[1] \in {r, NoRelease}
  <2>1. /\ row' = [s \in Slots |-> IF ~Moves(s) THEN row[s]
                                 ELSE IF s[1] = r THEN row[<<NoRelease, s[2]>>] ELSE NoRow]
        /\ fetch' = Moved({<<r, f>> : f \in F})
        /\ UNCHANGED <<objects, upload, doomed, project, listed, excused>>
    BY <1>10 DEF Associate
  <2>2. \A s \in Slots : s[2] \in Files /\ <<NoRelease, s[2]>> \in Slots /\ s = <<s[1], s[2]>>
    BY DEF Slots
  <2>3. \A f \in F : <<r, f>> \in Slots /\ <<NoRelease, f>> \in Slots /\ row[<<r, f>>] = NoRow
    BY <1>10, Slotted DEF Associate
  <2>4. \A u \in Uploaders : upload[u].pc = "locked" => ~Moves(upload[u].slot)
    <3>1. \A f \in F, u \in Uploaders :
             upload[u].pc = "locked" => upload[u].slot # <<NoRelease, f>> /\ upload[u].slot # <<r, f>>
      BY <1>10 DEF Associate, InTx
    <3> SUFFICES ASSUME NEW u \in Uploaders, upload[u].pc = "locked", Moves(upload[u].slot) PROVE FALSE
      OBVIOUS
    <3>2. upload[u].slot \in Slots
      BY DEF LockKnown
    <3>3. upload[u].slot = <<upload[u].slot[1], upload[u].slot[2]>>
      BY <2>2, <3>2
    <3> QED BY <3>1, <3>3
  <2>5. \A s \in Slots : row'[s] \in Keys =>
           \E t \in Slots : row'[s] = row[t] /\ (IF ~Moves(s) THEN t = s ELSE s[1] = r /\ t = <<NoRelease, s[2]>>)
    BY <2>1, <2>2, SymbolFilesAssumption
  <2>6. FilesTypes'
    BY <1>0, <2>1, <2>2, <2>3, <2>4, <2>5 DEF FilesTypes, UploadType
  <2>7. RowsKnown'
    BY <2>1, <2>2, <2>3, <2>4, <2>5 DEF FilesTypes, UploadType, RowsKnown
  <2>8. PendingKnown'
    BY <2>1, <2>2, <2>3, <2>4, <2>5 DEF FilesTypes, UploadType, PendingKnown, Pending
  <2>9. LockKnown'
    BY <2>1, <2>2, <2>3, <2>4, <2>5 DEF FilesTypes, UploadType, LockKnown, PendingKnown, Pending, RowsKnown
  <2> QED BY <2>6, <2>7, <2>8, <2>9
<1>11. ASSUME NEW S \in SUBSET Slots, RemoveRows(S) PROVE FilesInv'
  <2>1. /\ row' = [s \in Slots |-> IF s \in S THEN NoRow ELSE row[s]]
        /\ doomed' = doomed \cup UNION {KeyOf(row[s]) : s \in S}
        /\ fetch' = Moved(S)
        /\ UNCHANGED <<objects, upload, project, listed, excused>>
    BY <1>11 DEF RemoveRows
  <2>2. /\ doomed' \subseteq Keys
        /\ \A k \in Keys : k \in doomed' <=> k \in doomed \/ \E s \in S : row[s] = k
    BY <2>1 DEF KeyOf, FilesTypes, UploadType
  <2>3. FilesTypes'
    BY <1>0, <2>1, <2>2 DEF FilesTypes, UploadType
  <2>4. RowsKnown'
    BY <2>1, <2>2 DEF FilesTypes, UploadType, RowsKnown
  <2>5. PendingKnown'
    BY <2>1, <2>2 DEF FilesTypes, UploadType, PendingKnown, Pending, RowsKnown
  <2>6. LockKnown'
    BY <2>1, <2>2 DEF FilesTypes, UploadType, LockKnown, PendingKnown, Pending, RowsKnown
  <2> QED BY <2>3, <2>4, <2>5, <2>6
<1>12. CASE DeleteDoomed
  <2>1. doomed' = {} /\ DeleteBlobs(doomed) /\ UNCHANGED <<row, upload, project, listed, fetch>>
    BY <1>12 DEF DeleteDoomed
  <2>2. /\ objects' \subseteq objects /\ objects \ doomed \subseteq objects'
        /\ excused \ doomed \subseteq excused' /\ doomed \cap objects' \subseteq excused'
        /\ excused' \subseteq excused \cup objects
    BY <2>1 DEF DeleteBlobs
  <2>3. FilesTypes'
    BY <1>0, <2>1, <2>2 DEF FilesTypes, UploadType
  <2>4. RowsKnown'
    BY <2>1, <2>2 DEF FilesTypes, UploadType, RowsKnown
  <2>5. PendingKnown'
    BY <2>1, <2>2 DEF FilesTypes, UploadType, PendingKnown, Pending
  <2>6. LockKnown'
    BY <2>1, <2>2 DEF FilesTypes, UploadType, LockKnown, PendingKnown, Pending, RowsKnown
  <2> QED BY <2>3, <2>4, <2>5, <2>6
<1>13. CASE ListProjectBlobs
  <2>1. /\ project = "live" /\ project' = "listed" /\ listed' = RowKeys
        /\ UNCHANGED <<row, objects, upload, doomed, fetch, excused>>
    BY <1>13 DEF ListProjectBlobs
  <2>2. listed' \subseteq Keys /\ \A k \in listed' : \E s \in Slots : row[s] = k
    BY <2>1 DEF RowKeys, KeyOf
  <2>3. FilesTypes'
    BY <1>0, <2>1, <2>2 DEF FilesTypes, UploadType
  <2>4. RowsKnown'
    BY <2>1, <2>2 DEF FilesTypes, UploadType, RowsKnown
  <2>5. PendingKnown'
    BY <2>1, <2>2 DEF FilesTypes, UploadType, PendingKnown, Pending, RowsKnown
  <2>6. LockKnown'
    BY <2>1, <2>2 DEF FilesTypes, UploadType, LockKnown, PendingKnown, Pending, RowsKnown
  <2> QED BY <2>3, <2>4, <2>5, <2>6
<1>14. CASE DeleteProject
  <2>1. /\ project' = "gone" /\ listed' = {}
        /\ row' = [s \in Slots |-> NoRow] /\ doomed' = doomed \cup listed
        /\ excused' = excused \cup (RowKeys \ listed)
        /\ fetch' = Moved({s \in Slots : row[s] # NoRow})
        /\ UNCHANGED <<objects, upload>>
    BY <1>14 DEF DeleteProject
  <2>2. \A k \in Keys : k \in RowKeys <=> \E s \in Slots : row[s] = k
    BY DEF RowKeys, KeyOf
  <2>3. RowKeys \subseteq Keys
    BY DEF RowKeys, KeyOf
  <2>4. FilesTypes'
    BY <1>0, <2>1, <2>2, <2>3 DEF FilesTypes, UploadType
  <2>5. RowsKnown'
    BY <2>1, <2>2, <2>3 DEF FilesTypes, UploadType, RowsKnown
  <2>6. PendingKnown'
    BY <2>1, <2>2, <2>3 DEF FilesTypes, UploadType, PendingKnown, Pending
  <2>7. LockKnown'
    BY <2>1, <2>2, <2>3 DEF FilesTypes, UploadType, LockKnown, PendingKnown, Pending, RowsKnown
  <2> QED BY <2>4, <2>5, <2>6, <2>7
<1>15. ASSUME NEW r \in Releases, StartFetch(r) PROVE FilesInv'
  <2>1. /\ fetch' = [pc |-> "read", release |-> r, tries |-> 0, moves |-> 0,
                     todo |-> UNION {KeyOf(row[<<r, f>>]) : f \in Files}]
        /\ UNCHANGED <<row, objects, upload, doomed, project, listed, excused>>
    BY <1>15 DEF StartFetch
  <2>2. fetch'.todo \subseteq Keys /\ \A k \in fetch'.todo : \E f \in Files : row[<<r, f>>] = k
    BY <2>1 DEF KeyOf
  <2>3. FilesTypes'
    BY <1>0, <2>1, <2>2 DEF FilesTypes, UploadType
  <2>4. RowsKnown'
    BY <2>1, <2>2 DEF FilesTypes, UploadType, RowsKnown
  <2>5. PendingKnown'
    BY <2>1, <2>2 DEF FilesTypes, UploadType, PendingKnown, Pending
  <2>6. LockKnown'
    BY <2>1, <2>2 DEF FilesTypes, UploadType, LockKnown, PendingKnown, Pending, RowsKnown
  <2> QED BY <2>3, <2>4, <2>5, <2>6
<1>16. CASE FetchStep
  <2>1. UNCHANGED <<row, objects, upload, doomed, project, listed, excused>>
    BY <1>16 DEF FetchStep
  <2> QED BY <1>0, <2>1 DEF FilesTypes, UploadType, RowsKnown, PendingKnown, Pending, LockKnown
<1>17. CASE UNCHANGED filesVars
  BY <1>17 DEF filesVars, FilesTypes, UploadType, RowsKnown, PendingKnown, Pending, LockKnown
<1> QED
  BY <1>1, <1>2, <1>3, <1>4, <1>5, <1>6, <1>7, <1>8, <1>9,
     <1>10, <1>11, <1>12, <1>13, <1>14, <1>15, <1>16, <1>17 DEF FilesNext

LEMMA AccountedStep ==
  ASSUME FilesInv, Accounted, KnownOutcome, [FilesNext]_filesVars
  PROVE  Accounted'
<1> USE SymbolFilesAssumption DEF FilesInv
<1>1. ASSUME NEW u \in Uploaders, NEW s \in Slots, StartUpload(u, s) PROVE Accounted'
  <2>1. PICK k \in Keys \ Mentioned :
           upload' = [upload EXCEPT ![u] = [pc |-> "put", slot |-> s, key |-> k, old |-> NoRow]]
    BY <1>1 DEF StartUpload
  <2>2. upload[u].pc = "idle" /\ UNCHANGED <<row, objects, doomed, project, listed, fetch, excused>>
    BY <1>1 DEF StartUpload
  <2>3. /\ k \notin objects /\ k \notin doomed /\ k \notin listed /\ k # NoRow
        /\ \A t \in Slots : row[t] # k
        /\ \A v \in Uploaders : upload[v].key # k /\ upload[v].old # k
    BY FreshKey
  <2> QED BY <2>1, <2>2, <2>3 DEF FilesTypes, UploadType, Accounted, Pending, LockKnown, RowsKnown
<1>2. ASSUME NEW u \in Uploaders, PutBlob(u) PROVE Accounted'
  <2>1. /\ upload[u].pc = "put" /\ objects' = objects \cup {upload[u].key}
        /\ upload' = [upload EXCEPT ![u].pc = "stored"]
        /\ UNCHANGED <<row, doomed, project, listed, fetch, excused>>
        /\ upload[u].key \in Keys
    BY <1>2 DEF PutBlob, Step, PendingKnown, Pending
  <2> QED BY <2>1 DEF FilesTypes, UploadType, Accounted, Pending, LockKnown, RowsKnown
<1>3. ASSUME NEW u \in Uploaders, PutBlobFails(u) PROVE Accounted'
  <2>1. /\ upload[u].pc = "put" /\ upload' = [upload EXCEPT ![u] = Idle]
        /\ UNCHANGED <<row, doomed, project, listed, fetch>>
        /\ upload[u].key \in Keys
        /\ \/ UNCHANGED <<objects, excused>>
           \/ objects' = objects \cup {upload[u].key} /\ excused' = excused \cup {upload[u].key}
    BY <1>3 DEF PutBlobFails, PendingKnown, Pending
  <2> QED BY <2>1 DEF FilesTypes, UploadType, Idle, Accounted, Pending, LockKnown, RowsKnown
<1>4. ASSUME NEW s \in Slots, PutInRow(s) PROVE Accounted'
  <2>1. /\ row' = [row EXCEPT ![s] = InRow]
        /\ excused' = excused \cup (KeyOf(row[s]) \cap objects) /\ fetch' = Moved({s})
        /\ UNCHANGED <<objects, upload, doomed, project, listed>>
    BY <1>4 DEF PutInRow
  <2> QED BY <2>1 DEF FilesTypes, UploadType, KeyOf, Accounted, Pending, LockKnown, RowsKnown
<1>5. ASSUME NEW u \in Uploaders, LockSymbolFile(u) PROVE Accounted'
  <2>1. /\ upload[u].pc = "stored"
        /\ \A v \in Uploaders : upload[v].pc = "locked" => upload[v].slot # upload[u].slot
        /\ upload' = [upload EXCEPT ![u].pc = "locked", ![u].old = row[upload[u].slot]]
        /\ UNCHANGED <<row, objects, doomed, project, listed, fetch, excused>>
        /\ upload[u].slot \in Slots
    BY <1>5 DEF LockSymbolFile, LockFree, InTx, LockKnown
  <2> QED BY <2>1 DEF FilesTypes, UploadType, Accounted, Pending, LockKnown, RowsKnown
<1>6. ASSUME NEW u \in Uploaders, CommitSymbolFile(u) PROVE Accounted'
  <2>1. /\ upload[u].pc = "locked" /\ project # "gone"
        /\ row' = [row EXCEPT ![upload[u].slot] = upload[u].key]
        /\ fetch' = Moved({upload[u].slot})
        /\ upload' = [upload EXCEPT ![u].pc = "clean"]
        /\ UNCHANGED <<objects, doomed, project, listed, excused>>
        /\ upload[u].slot \in Slots /\ upload[u].key \in Keys
    BY <1>6 DEF CommitSymbolFile, Step, LockKnown, PendingKnown, Pending
  <2> QED BY <2>1 DEF FilesTypes, UploadType, Accounted, Pending, LockKnown, RowsKnown
<1>7. ASSUME NEW u \in Uploaders, UploadTxFails(u) PROVE Accounted'
  <2>1. /\ upload[u].pc \in {"stored", "locked"}
        /\ upload' = [upload EXCEPT ![u].pc = "undo"]
        /\ UNCHANGED <<row, objects, doomed, project, listed, fetch, excused>>
    BY <1>7 DEF UploadTxFails, Step
  <2> QED BY <2>1 DEF FilesTypes, UploadType, Accounted, Pending, LockKnown, RowsKnown
<1>8. ASSUME NEW u \in Uploaders, CleanUp(u) PROVE Accounted'
  <2> DEFINE S == IF upload[u].pc = "clean" THEN KeyOf(upload[u].old) ELSE KeyOf(upload[u].key)
  <2>1. /\ upload[u].pc \in {"clean", "undo"} /\ DeleteBlobs(S)
        /\ upload' = [upload EXCEPT ![u] = Idle]
        /\ UNCHANGED <<row, doomed, project, listed, fetch>>
    BY <1>8 DEF CleanUp
  <2>2. /\ objects' \subseteq objects /\ objects \ S \subseteq objects'
        /\ excused \ S \subseteq excused' /\ S \cap objects' \subseteq excused'
        /\ excused' \subseteq excused \cup objects
    BY <2>1 DEF DeleteBlobs
  <2>3. /\ \A x \in S : x \in Keys /\ (x = upload[u].old \/ x = upload[u].key)
        /\ \A s \in Slots : row[s] \notin S
        /\ \A v \in Uploaders \ {u} : Pending(v) => upload[v].key \notin S
    BY <2>1 DEF KeyOf, FilesTypes, UploadType, LockKnown, PendingKnown, Pending
  <2> QED BY <2>1, <2>2, <2>3 DEF FilesTypes, UploadType, Idle, KeyOf, Accounted, Pending, LockKnown, RowsKnown
<1>9. ASSUME NEW u \in Uploaders, CrashUpload(u) PROVE Accounted'
  <2>1. /\ upload' = [upload EXCEPT ![u] = Idle]
        /\ excused' = excused \cup ((HeldBy(u) \cap objects) \ RowKeys)
        /\ UNCHANGED <<row, objects, doomed, project, listed, fetch>>
    BY <1>9 DEF CrashUpload
  <2> QED BY <2>1 DEF FilesTypes, UploadType, Idle, HeldBy, KeyOf, RowKeys, Accounted, Pending, LockKnown, RowsKnown
<1>10. ASSUME NEW r \in Releases, NEW F \in SUBSET Files, Associate(r, F) PROVE Accounted'
  <2> DEFINE Moves(s) == s[2] \in F /\ s[1] \in {r, NoRelease}
  <2>1. /\ row' = [s \in Slots |-> IF ~Moves(s) THEN row[s]
                                 ELSE IF s[1] = r THEN row[<<NoRelease, s[2]>>] ELSE NoRow]
        /\ fetch' = Moved({<<r, f>> : f \in F})
        /\ UNCHANGED <<objects, upload, doomed, project, listed, excused>>
    BY <1>10 DEF Associate
  <2>2. \A s \in Slots : s[2] \in Files /\ <<NoRelease, s[2]>> \in Slots /\ s = <<s[1], s[2]>>
    BY DEF Slots
  <2>3. \A f \in F : <<r, f>> \in Slots /\ <<NoRelease, f>> \in Slots /\ row[<<r, f>>] = NoRow
    BY <1>10, Slotted DEF Associate
  <2>4. ASSUME NEW s \in Slots, row[s] \in Keys PROVE \E t \in Slots : row'[t] = row[s]
    <3>1. CASE ~Moves(s)
      BY <2>1, <3>1
    <3>2. CASE Moves(s) /\ s[1] = r
      <4>1. s = <<r, s[2]>>
        BY <2>2, <3>2
      <4> QED BY <2>3, <2>4, <3>2, <4>1
    <3>3. CASE Moves(s) /\ s[1] = NoRelease
      <4> DEFINE t == <<r, s[2]>>
      <4>1. s = <<NoRelease, s[2]>> /\ t \in Slots /\ t[1] = r /\ t[2] = s[2] /\ s[2] \in F
        BY <2>2, <2>3, <3>3
      <4> HIDE DEF t
      <4>2. row'[t] = row[<<NoRelease, s[2]>>]
        BY <2>1, <4>1
      <4> QED BY <4>1, <4>2
    <3> QED BY <3>1, <3>2, <3>3
  <2>5. objects' = objects /\ objects \subseteq Keys
    BY <2>1 DEF FilesTypes
  <2> SUFFICES ASSUME NEW k \in objects
               PROVE  \/ k \in doomed \cup listed \cup excused
                      \/ \E t \in Slots : row'[t] = k
                      \/ \E u \in Uploaders :
                           (Pending(u) /\ upload[u].key = k) \/ (upload[u].pc = "clean" /\ upload[u].old = k)
    BY <2>1, <2>5 DEF Accounted, Pending
  <2>6. CASE \E s \in Slots : row[s] = k
    BY <2>4, <2>5, <2>6
  <2>7. CASE ~\E s \in Slots : row[s] = k
    BY <2>7 DEF Accounted
  <2> QED BY <2>6, <2>7
<1>11. ASSUME NEW S \in SUBSET Slots, RemoveRows(S) PROVE Accounted'
  <2>1. /\ row' = [s \in Slots |-> IF s \in S THEN NoRow ELSE row[s]]
        /\ doomed' = doomed \cup UNION {KeyOf(row[s]) : s \in S}
        /\ fetch' = Moved(S)
        /\ UNCHANGED <<objects, upload, project, listed, excused>>
    BY <1>11 DEF RemoveRows
  <2>2. /\ doomed' \subseteq Keys
        /\ \A k \in Keys : k \in doomed' <=> k \in doomed \/ \E s \in S : row[s] = k
    BY <2>1 DEF KeyOf, FilesTypes, UploadType
  <2> QED BY <2>1, <2>2 DEF FilesTypes, UploadType, Accounted, Pending, LockKnown, RowsKnown
<1>12. CASE DeleteDoomed
  <2>1. doomed' = {} /\ DeleteBlobs(doomed) /\ UNCHANGED <<row, upload, project, listed, fetch>>
    BY <1>12 DEF DeleteDoomed
  <2>2. /\ objects' \subseteq objects /\ objects \ doomed \subseteq objects'
        /\ excused \ doomed \subseteq excused' /\ doomed \cap objects' \subseteq excused'
        /\ excused' \subseteq excused \cup objects
    BY <2>1 DEF DeleteBlobs
  <2> QED BY <2>1, <2>2 DEF FilesTypes, UploadType, Accounted, Pending, LockKnown, RowsKnown
<1>13. CASE ListProjectBlobs
  <2>1. /\ project = "live" /\ project' = "listed" /\ listed' = RowKeys
        /\ UNCHANGED <<row, objects, upload, doomed, fetch, excused>>
    BY <1>13 DEF ListProjectBlobs
  <2>2. listed' \subseteq Keys /\ \A k \in listed' : \E s \in Slots : row[s] = k
    BY <2>1 DEF RowKeys, KeyOf
  <2> QED BY <2>1, <2>2 DEF FilesTypes, UploadType, Accounted, Pending, LockKnown, RowsKnown
<1>14. CASE DeleteProject
  <2>1. /\ project' = "gone" /\ listed' = {}
        /\ row' = [s \in Slots |-> NoRow] /\ doomed' = doomed \cup listed
        /\ excused' = excused \cup (RowKeys \ listed)
        /\ fetch' = Moved({s \in Slots : row[s] # NoRow})
        /\ UNCHANGED <<objects, upload>>
    BY <1>14 DEF DeleteProject
  <2>2. \A k \in Keys : k \in RowKeys <=> \E s \in Slots : row[s] = k
    BY DEF RowKeys, KeyOf
  <2>3. RowKeys \subseteq Keys
    BY DEF RowKeys, KeyOf
  <2> QED BY <2>1, <2>2, <2>3 DEF FilesTypes, UploadType, Accounted, Pending, LockKnown, RowsKnown
<1>15. ASSUME NEW r \in Releases, StartFetch(r) PROVE Accounted'
  BY <1>15 DEF StartFetch, Accounted, Pending
<1>16. CASE FetchStep
  BY <1>16 DEF FetchStep, Accounted, Pending
<1>17. CASE UNCHANGED filesVars
  BY <1>17 DEF filesVars, Accounted, Pending
<1> QED
  BY <1>1, <1>2, <1>3, <1>4, <1>5, <1>6, <1>7, <1>8, <1>9,
     <1>10, <1>11, <1>12, <1>13, <1>14, <1>15, <1>16, <1>17 DEF FilesNext

\* RowHasBytes: a failure leaves an orphaned object, never a row without its
\* bytes (files.go:87-90), and a fetch fails only when the rows were changed
\* under it twice (service.go:294-299), for any releases, files, keys and
\* uploads, when a transaction's outcome is known and no association falls
\* inside an upload's transaction.
THEOREM RowsHaveBytes == KnownOutcome /\ AssociateApart /\ FilesSpec => []RowHasBytes
<1> SUFFICES ASSUME KnownOutcome, AssociateApart PROVE FilesSpec => []RowHasBytes
  OBVIOUS
<1>1. FilesInv /\ FetchKnown => RowHasBytes
  BY DEF FilesInv, RowsKnown, FetchKnown, RowHasBytes, RowKeys, KeyOf
<1>2. FilesInit => FilesInv /\ FetchKnown
  BY FilesInitInv
<1>3. FilesInv /\ FetchKnown /\ [FilesNext]_filesVars => (FilesInv /\ FetchKnown)'
  BY FilesStepInv, FetchStepInv DEF FilesInv
<1> QED BY <1>1, <1>2, <1>3, PTL DEF FilesSpec

\* NoSilentOrphan: an object no row names is on its way to a row or to its
\* delete, or a delete failed or was forgone (files.go:36-41), under the same
\* assumptions.
THEOREM OrphansAreExcused == KnownOutcome /\ AssociateApart /\ FilesSpec => []NoSilentOrphan
<1> SUFFICES ASSUME KnownOutcome, AssociateApart PROVE FilesSpec => []NoSilentOrphan
  OBVIOUS
<1>1. FilesInv /\ Accounted => NoSilentOrphan
  <2> SUFFICES ASSUME FilesInv, Accounted, NEW k \in objects
               PROVE  k \in RowKeys \cup doomed \cup listed \cup excused \cup UNION {HeldBy(u) : u \in Uploaders}
    BY DEF NoSilentOrphan
  <2>1. k \in Keys
    BY DEF FilesInv, FilesTypes, UploadType
  <2>2. CASE \E s \in Slots : row[s] = k
    BY <2>1, <2>2 DEF RowKeys, KeyOf
  <2>3. CASE \E u \in Uploaders : upload[u].key = k \/ upload[u].old = k
    BY <2>1, <2>3 DEF HeldBy, KeyOf
  <2> QED BY <2>2, <2>3 DEF Accounted
<1>2. FilesInit => FilesInv /\ FetchKnown /\ Accounted
  BY FilesInitInv
<1>3. FilesInv /\ FetchKnown /\ Accounted /\ [FilesNext]_filesVars => (FilesInv /\ FetchKnown /\ Accounted)'
  BY FilesStepInv, FetchStepInv, AccountedStep DEF FilesInv
<1> QED BY <1>1, <1>2, <1>3, PTL DEF FilesSpec

-----------------------------------------------------------------------------
(* Sidecar. *)

Fields == {"pc", "id", "key", "since", "sent", "data", "base", "left", "total"}

\* The part of SidecarTypeOK the answers rest on.
SidecarTypes ==
  /\ second \in Nat /\ uploads \in Nat /\ second <= uploads /\ uploads <= MaxUploads
  /\ dsym \in [Rows -> [content : Nat, at : 0..MaxUploads]]
  /\ \A r \in Rows : dsym[r].content <= uploads /\ dsym[r].at <= second
  /\ disk \in [SymKeys -> Nat]
  /\ bases \in [SymKeys -> Nat \cup {NoBase}]
  /\ DOMAIN client = Clients /\ \A c \in Clients : DOMAIN client[c] = Fields

Asks(c) == client[c].pc # "idle"

\* A request's key is its row's; while the row has not been uploaded again, what
\* it was looked up with is what the row has, and requests with one key were
\* looked up with one upload.
KeysKnown ==
  /\ \A c \in Clients : Asks(c) =>
       /\ client[c].id \in Rows /\ client[c].key \in SymKeys /\ client[c].key[1] = client[c].id
       /\ client[c].since \in Nat \ {0} /\ client[c].since <= dsym[client[c].id].content
       /\ client[c].key[2] <= dsym[client[c].id].at
       /\ client[c].key[2] = dsym[client[c].id].at => client[c].since = dsym[client[c].id].content
  /\ \A c, d \in Clients : Asks(c) /\ Asks(d) /\ client[c].key = client[d].key => client[c].since = client[d].since

\* A file on disk is no older than what its key stands for.
DiskKnown ==
  /\ \A c \in Clients : Asks(c) /\ disk[client[c].key] # 0 => disk[client[c].key] >= client[c].since
  /\ \A k \in SymKeys : disk[k] # 0 =>
       /\ dsym[k[1]].content # 0 /\ k[2] <= dsym[k[1]].at
       /\ k[2] = dsym[k[1]].at => disk[k] >= dsym[k[1]].content
  /\ \A c \in Clients : client[c].pc \in {"put", "done"} =>
       client[c].data \in Nat /\ client[c].data >= client[c].since

\* A request that found its file still has it, the header it is about to keep
\* is that file's, and the header in memory is unless one is about to be dropped.
HeadersKnown ==
  /\ \A c \in Clients : client[c].pc \in {"header", "keep", "run"} => disk[client[c].key] # 0
  /\ \A c \in Clients : client[c].pc = "keep" => client[c].base = disk[client[c].key]
  /\ \A k \in SymKeys :
       disk[k] # 0 /\ bases[k] # NoBase /\ (\A c \in Clients : client[c].pc = "forget" => client[c].key # k)
         => bases[k] = disk[k]

SidecarInv == SidecarTypes /\ KeysKnown /\ DiskKnown /\ HeadersKnown

LEMMA SidecarInitInv == SidecarInit => SidecarInv
<1> SUFFICES ASSUME SidecarInit PROVE SidecarInv
  OBVIOUS
<1>1. SidecarTypes
  BY SidecarAssumption DEF SidecarInit, SidecarTypes, Ready, Fields
<1>2. KeysKnown /\ DiskKnown /\ HeadersKnown
  BY DEF SidecarInit, KeysKnown, DiskKnown, HeadersKnown, Ready, Asks
<1> QED BY <1>1, <1>2 DEF SidecarInv

\* A step of one request that keeps to its key and its upload, changes no file
\* and takes no header from disk.
LEMMA ClientMoves ==
  ASSUME SidecarInv, NEW c \in Clients, Asks(c),
         UNCHANGED <<second, uploads, dsym, disk, bases>>,
         DOMAIN client' = Clients, \A d \in Clients : DOMAIN client'[d] = Fields,
         \A d \in Clients \ {c} : client'[d] = client[d],
         \/ client'[c].pc = "idle"
         \/ client'[c].id = client[c].id /\ client'[c].key = client[c].key /\ client'[c].since = client[c].since,
         client'[c].pc \in {"put", "done"} => client'[c].data \in Nat /\ client'[c].data >= client[c].since,
         client'[c].pc \in {"header", "keep", "run"} => disk[client[c].key] # 0,
         client'[c].pc = "keep" => client'[c].base = disk[client[c].key],
         client[c].pc # "forget"
  PROVE  SidecarInv'
<1> USE DEF SidecarInv
<1>1. SidecarTypes'
  BY DEF SidecarTypes
<1>2. KeysKnown'
  BY DEF KeysKnown, Asks
<1>3. DiskKnown'
  BY DEF KeysKnown, DiskKnown, Asks
<1>4. HeadersKnown'
  BY DEF HeadersKnown
<1> QED BY <1>1, <1>2, <1>3, <1>4

LEMMA SidecarStep == ASSUME SidecarInv, FilesHold, SlowUploads, [SidecarNext]_sidecarVars PROVE SidecarInv'
<1> USE SidecarAssumption DEF SidecarInv
<1>0. /\ Ready.pc = "idle" /\ DOMAIN Ready = Fields
      /\ DOMAIN client = Clients /\ \A c \in Clients : DOMAIN client[c] = Fields
  BY DEF Ready, Fields, SidecarTypes
<1>1. CASE Tick
  <2>1. second < uploads /\ second' = second + 1 /\ UNCHANGED <<uploads, dsym, disk, lru, bases, client>>
    BY <1>1 DEF Tick
  <2> QED BY <2>1 DEF SidecarTypes, KeysKnown, DiskKnown, HeadersKnown, Asks
<1>2. ASSUME NEW r \in Rows, UploadDsym(r) PROVE SidecarInv'
  <2>1. /\ uploads < MaxUploads /\ uploads' = uploads + 1
        /\ dsym[r].content = 0 \/ dsym[r].at # second
        /\ dsym' = [dsym EXCEPT ![r] = [content |-> uploads + 1, at |-> second]]
        /\ UNCHANGED <<second, disk, lru, bases, client>>
    BY <1>2 DEF UploadDsym
  <2>2. SidecarTypes'
    BY <2>1 DEF SidecarTypes
  <2>3. /\ dsym[r].content = 0 \/ dsym[r].at < second
        /\ dsym'[r].content > dsym[r].content /\ dsym'[r].content = uploads + 1 /\ dsym'[r].at = second
        /\ \A q \in Rows \ {r} : dsym'[q] = dsym[q]
        /\ second \in Nat /\ dsym[r].at \in Nat /\ dsym[r].content \in Nat /\ dsym[r].at <= second
    BY <2>1 DEF SidecarTypes
  <2>4. KeysKnown'
    <3>1. ASSUME NEW c \in Clients, Asks(c)
          PROVE  /\ client[c].since <= dsym'[client[c].id].content
                 /\ client[c].key[2] <= dsym'[client[c].id].at
                 /\ client[c].key[2] = dsym'[client[c].id].at => client[c].since = dsym'[client[c].id].content
      <4>1. /\ client[c].id \in Rows /\ client[c].key \in SymKeys
            /\ client[c].since \in Nat \ {0} /\ client[c].since <= dsym[client[c].id].content
            /\ client[c].key[2] <= dsym[client[c].id].at
            /\ client[c].key[2] = dsym[client[c].id].at => client[c].since = dsym[client[c].id].content
        BY <3>1 DEF KeysKnown
      <4>2. client[c].key[2] \in Nat
        BY <4>1 DEF SymKeys
      <4>3. CASE client[c].id = r
        <5>1. client[c].since <= uploads + 1 /\ client[c].key[2] < second
          <6>1. dsym[r].at < second /\ dsym[r].content <= uploads /\ uploads \in Nat
            BY <2>3, <4>1, <4>3 DEF SidecarTypes
          <6> QED BY <2>3, <4>1, <4>2, <4>3, <6>1
        <5> QED BY <2>3, <4>2, <4>3, <5>1
      <4>4. CASE client[c].id # r
        BY <2>3, <4>1, <4>4
      <4> QED BY <4>3, <4>4
    <3> QED BY <2>1, <3>1 DEF KeysKnown, Asks
  <2>5. DiskKnown'
    <3>1. ASSUME NEW k \in SymKeys, disk[k] # 0
          PROVE  /\ dsym'[k[1]].content # 0 /\ k[2] <= dsym'[k[1]].at
                 /\ k[2] = dsym'[k[1]].at => disk[k] >= dsym'[k[1]].content
      <4>1. /\ dsym[k[1]].content # 0 /\ k[2] <= dsym[k[1]].at
            /\ k[2] = dsym[k[1]].at => disk[k] >= dsym[k[1]].content
        BY <3>1 DEF DiskKnown
      <4>2. k[2] \in Nat /\ k[1] \in Rows
        BY DEF SymKeys
      <4> QED BY <2>3, <4>1, <4>2
    <3> QED BY <2>1, <3>1 DEF DiskKnown, Asks
  <2>6. HeadersKnown'
    BY <2>1 DEF HeadersKnown
  <2> QED BY <2>2, <2>4, <2>5, <2>6
<1>3. ASSUME NEW c \in Clients, NEW r \in Rows, FindFile(c, r) PROVE SidecarInv'
  <2> DEFINE k == SymbolKey(r)
  <2>1. /\ client[c].pc \in {"idle", "done"} /\ dsym[r].content # 0
        /\ client' = [client EXCEPT ![c] = [Ready EXCEPT !.pc = "post", !.id = r, !.key = k,
                                                        !.since = dsym[r].content]]
        /\ UNCHANGED <<second, uploads, dsym, disk, lru, bases>>
    BY <1>3 DEF FindFile
  <2>2. /\ client'[c].pc = "post" /\ client'[c].id = r /\ client'[c].key = k /\ client'[c].since = dsym[r].content
        /\ DOMAIN client'[c] = Fields /\ DOMAIN client' = Clients
        /\ \A d \in Clients \ {c} : client'[d] = client[d]
    BY <1>0, <2>1 DEF Fields
  <2>3. k \in SymKeys /\ k[1] = r /\ k[2] = dsym[r].at /\ dsym[r].content \in Nat \ {0} /\ dsym[r].at \in Nat
    BY <2>1 DEF SymKeys, SymbolKey, SidecarTypes
  <2>4. SidecarTypes'
    BY <1>0, <2>1, <2>2 DEF SidecarTypes
  <2>5. ASSUME NEW d \in Clients, Asks(d), client[d].key = k PROVE client[d].since = dsym[r].content
    BY <2>3, <2>5 DEF KeysKnown
  <2>6. KeysKnown'
    <3>1. \A d \in Clients \ {c} : Asks(d)' <=> Asks(d)
      BY <2>2 DEF Asks
    <3>2. \A d \in Clients : Asks(d)' /\ client'[d].key = k => client'[d].since = dsym[r].content
      BY <2>2, <2>5, <3>1
    <3>3. \A d, e \in Clients :
             Asks(d)' /\ Asks(e)' /\ client'[d].key = client'[e].key => client'[d].since = client'[e].since
      BY <2>2, <3>1, <3>2 DEF KeysKnown
    <3> HIDE DEF k
    <3> QED BY <2>1, <2>2, <2>3, <3>1, <3>3 DEF KeysKnown
  <2>7. disk[k] # 0 => disk[k] >= dsym[r].content
    BY <2>3 DEF DiskKnown
  <2> HIDE DEF k
  <2>8. DiskKnown'
    BY <2>1, <2>2, <2>7 DEF DiskKnown, Asks
  <2>9. HeadersKnown'
    BY <2>1, <2>2 DEF HeadersKnown
  <2> QED BY <2>4, <2>6, <2>8, <2>9
<1>4. ASSUME NEW c \in Clients, RequestFails(c) PROVE SidecarInv'
  <2>1. /\ client[c].pc \in {"post", "run", "load", "put"} /\ client' = [client EXCEPT ![c] = Ready]
        /\ UNCHANGED <<second, uploads, dsym, disk, lru, bases>>
    BY <1>4 DEF RequestFails
  <2>2. DOMAIN client' = Clients /\ client'[c] = Ready /\ \A d \in Clients \ {c} : client'[d] = client[d]
    BY <1>0, <2>1
  <2> QED BY <1>0, <2>1, <2>2, ClientMoves DEF Asks
<1>5. ASSUME NEW c \in Clients, LoadBytes(c) PROVE SidecarInv'
  <2>1. /\ client[c].pc = "load"
        /\ client' = [client EXCEPT ![c].pc = "put", ![c].data = dsym[client[c].id].content]
        /\ UNCHANGED <<second, uploads, dsym, disk, lru, bases>>
    BY <1>5 DEF LoadBytes
  <2>2. /\ DOMAIN client' = Clients /\ DOMAIN client'[c] = Fields
        /\ client'[c].pc = "put" /\ client'[c].data = dsym[client[c].id].content
        /\ client'[c].id = client[c].id /\ client'[c].key = client[c].key /\ client'[c].since = client[c].since
        /\ \A d \in Clients \ {c} : client'[d] = client[d]
    BY <1>0, <2>1 DEF Fields
  <2>3. dsym[client[c].id].content \in Nat /\ dsym[client[c].id].content >= client[c].since
    BY <2>1 DEF KeysKnown, SidecarTypes, Asks
  <2> QED BY <1>0, <2>1, <2>2, <2>3, ClientMoves DEF Asks
<1>6. ASSUME NEW c \in Clients, ServeStat(c) PROVE SidecarInv'
  <2>1. /\ client[c].pc = "post"
        /\ \/ client' = [client EXCEPT ![c].pc = "header"] /\ disk[client[c].key] # 0
           \/ client' = [client EXCEPT ![c] = Ready]
           \/ client' = [client EXCEPT ![c].pc = "load"]
        /\ UNCHANGED <<second, uploads, dsym, disk, bases>>
    BY <1>6 DEF ServeStat, Go
  <2>2. /\ DOMAIN client' = Clients /\ DOMAIN client'[c] = Fields
        /\ \/ client'[c].pc = "header" /\ disk[client[c].key] # 0
           \/ client'[c].pc \in {"idle", "load"}
        /\ \/ client'[c].pc = "idle"
           \/ client'[c].id = client[c].id /\ client'[c].key = client[c].key /\ client'[c].since = client[c].since
        /\ \A d \in Clients \ {c} : client'[d] = client[d]
    BY <1>0, <2>1 DEF Fields
  <2> QED BY <1>0, <2>1, <2>2, ClientMoves DEF Asks
<1>7. ASSUME NEW c \in Clients, ReadHeader(c) PROVE SidecarInv'
  <2> DEFINE k == client[c].key
  <2>1. /\ client[c].pc = "header"
        /\ client' = [client EXCEPT ![c].pc = IF bases[k] # NoBase THEN "run" ELSE "keep",
                                    ![c].base = IF bases[k] # NoBase THEN bases[k] ELSE disk[k]]
        /\ UNCHANGED <<second, uploads, dsym, disk, lru, bases>>
    BY <1>7 DEF ReadHeader
  <2>2. /\ DOMAIN client' = Clients /\ DOMAIN client'[c] = Fields
        /\ client'[c].pc = "run" \/ (client'[c].pc = "keep" /\ client'[c].base = disk[k])
        /\ client'[c].id = client[c].id /\ client'[c].key = client[c].key /\ client'[c].since = client[c].since
        /\ \A d \in Clients \ {c} : client'[d] = client[d]
    BY <1>0, <2>1 DEF Fields
  <2>3. disk[k] # 0
    BY <2>1 DEF HeadersKnown
  <2> QED BY <1>0, <2>1, <2>2, <2>3, ClientMoves DEF Asks
<1>8. ASSUME NEW c \in Clients, KeepHeader(c) PROVE SidecarInv'
  <2> DEFINE k == client[c].key
  <2>1. /\ client[c].pc = "keep" /\ bases' = [bases EXCEPT ![k] = client[c].base]
        /\ client' = [client EXCEPT ![c].pc = "run"]
        /\ UNCHANGED <<second, uploads, dsym, disk, lru>>
    BY <1>8 DEF KeepHeader, Go
  <2>2. /\ DOMAIN client' = Clients /\ DOMAIN client'[c] = Fields /\ client'[c].pc = "run"
        /\ client'[c].id = client[c].id /\ client'[c].key = client[c].key /\ client'[c].since = client[c].since
        /\ \A d \in Clients \ {c} : client'[d] = client[d]
    BY <1>0, <2>1 DEF Fields
  <2>3. k \in SymKeys /\ client[c].base = disk[k] /\ disk[k] # 0 /\ disk[k] \in Nat
    BY <2>1 DEF HeadersKnown, KeysKnown, Asks, SidecarTypes
  <2>4. bases' \in [SymKeys -> Nat \cup {NoBase}] /\ bases'[k] = disk[k] /\ \A x \in SymKeys \ {k} : bases'[x] = bases[x]
    BY <2>1, <2>3 DEF SidecarTypes
  <2>5. SidecarTypes'
    BY <1>0, <2>1, <2>2, <2>4 DEF SidecarTypes
  <2>6. KeysKnown'
    BY <2>1, <2>2 DEF KeysKnown, Asks
  <2>7. DiskKnown'
    BY <2>1, <2>2 DEF DiskKnown, Asks
  <2> HIDE DEF k
  <2>8. HeadersKnown'
    BY <2>1, <2>2, <2>4 DEF HeadersKnown, k
  <2> QED BY <2>5, <2>6, <2>7, <2>8
<1>9. ASSUME NEW c \in Clients, RunSymbolizer(c) PROVE SidecarInv'
  <2>1. /\ client[c].pc = "run"
        /\ \/ client' = [client EXCEPT ![c] = Ready]
           \/ client' = [client EXCEPT ![c] = [@ EXCEPT !.pc = "done", !.data = disk[client[c].key]]]
        /\ UNCHANGED <<second, uploads, dsym, disk, lru, bases>>
    BY <1>9 DEF RunSymbolizer
  <2>2. /\ DOMAIN client' = Clients /\ DOMAIN client'[c] = Fields
        /\ \/ client'[c].pc = "idle"
           \/ /\ client'[c].pc = "done" /\ client'[c].data = disk[client[c].key]
              /\ client'[c].id = client[c].id /\ client'[c].key = client[c].key /\ client'[c].since = client[c].since
        /\ \A d \in Clients \ {c} : client'[d] = client[d]
    BY <1>0, <2>1 DEF Fields
  <2>3. disk[client[c].key] \in Nat /\ disk[client[c].key] >= client[c].since
    BY <2>1 DEF HeadersKnown, DiskKnown, KeysKnown, Asks, SidecarTypes
  <2> QED BY <1>0, <2>1, <2>2, <2>3, ClientMoves DEF Asks
<1>10. ASSUME NEW c \in Clients, RenameFile(c) PROVE SidecarInv'
  <2> DEFINE k == client[c].key
  <2>1. /\ client[c].pc = "put" /\ disk' = [disk EXCEPT ![k] = client[c].data]
        /\ disk[k] \in {0, client[c].data} \/ ~InUseByOther(c, k)
        /\ client' = [client EXCEPT ![c].pc = "forget", ![c].sent = TRUE]
        /\ UNCHANGED <<second, uploads, dsym, bases>>
    BY <1>10 DEF RenameFile
  <2>2. /\ DOMAIN client' = Clients /\ DOMAIN client'[c] = Fields /\ client'[c].pc = "forget"
        /\ client'[c].id = client[c].id /\ client'[c].key = client[c].key /\ client'[c].since = client[c].since
        /\ \A d \in Clients \ {c} : client'[d] = client[d]
    BY <1>0, <2>1 DEF Fields
  <2>3. /\ k \in SymKeys /\ client[c].data \in Nat /\ client[c].data >= client[c].since
        /\ k[1] = client[c].id /\ client[c].id \in Rows /\ client[c].since \in Nat \ {0}
        /\ client[c].since <= dsym[client[c].id].content
        /\ k[2] <= dsym[client[c].id].at
        /\ k[2] = dsym[client[c].id].at => client[c].since = dsym[client[c].id].content
        /\ dsym[client[c].id].content \in Nat
    BY <2>1 DEF KeysKnown, DiskKnown, Asks, SidecarTypes
  <2>4. /\ disk' \in [SymKeys -> Nat] /\ disk'[k] = client[c].data /\ disk'[k] # 0
        /\ \A x \in SymKeys \ {k} : disk'[x] = disk[x]
    BY <2>1, <2>3 DEF SidecarTypes
  <2>5. \A d \in Clients \ {c} :
           client[d].pc \in {"header", "keep", "run"} /\ client[d].key = k => disk[k] = client[c].data
    BY <2>1 DEF InUseByOther, HeadersKnown
  <2>6. \A d \in Clients : Asks(d) /\ client[d].key = k => client[d].since = client[c].since
    BY <2>1 DEF KeysKnown, Asks
  <2>7. SidecarTypes'
    BY <1>0, <2>1, <2>2, <2>4 DEF SidecarTypes
  <2>8. KeysKnown'
    <3>1. \A d \in Clients :
             /\ Asks(d)' <=> Asks(d)
             /\ client'[d].id = client[d].id /\ client'[d].key = client[d].key /\ client'[d].since = client[d].since
      BY <2>1, <2>2 DEF Asks
    <3>2. ASSUME NEW d \in Clients, Asks(d)'
          PROVE  /\ client'[d].id \in Rows /\ client'[d].key \in SymKeys /\ client'[d].key[1] = client'[d].id
                 /\ client'[d].since \in Nat \ {0} /\ client'[d].since <= dsym[client'[d].id].content
                 /\ client'[d].key[2] <= dsym[client'[d].id].at
                 /\ client'[d].key[2] = dsym[client'[d].id].at => client'[d].since = dsym[client'[d].id].content
      BY <3>1, <3>2 DEF KeysKnown
    <3>3. \A d, e \in Clients :
             Asks(d)' /\ Asks(e)' /\ client'[d].key = client'[e].key => client'[d].since = client'[e].since
      BY <3>1 DEF KeysKnown
    <3>4. dsym' = dsym
      BY <2>1
    <3> QED BY <3>2, <3>3, <3>4 DEF KeysKnown
  <2>9. \A d \in Clients : Asks(d) => client[d].key \in SymKeys
    BY DEF KeysKnown
  <2> HIDE DEF k
  <2>10. DiskKnown'
    <3>1. \A d \in Clients : Asks(d)' /\ disk'[client'[d].key] # 0 => disk'[client'[d].key] >= client'[d].since
      <4>1. ASSUME NEW d \in Clients, Asks(d) PROVE disk'[client[d].key] # 0 => disk'[client[d].key] >= client[d].since
        <5>1. CASE client[d].key = k
          BY <2>3, <2>4, <2>6, <4>1, <5>1
        <5>2. CASE client[d].key # k
          BY <2>4, <2>9, <4>1, <5>2 DEF DiskKnown
        <5> QED BY <5>1, <5>2
      <4> QED BY <2>1, <2>2, <4>1 DEF Asks
    <3>2. ASSUME NEW x \in SymKeys, disk'[x] # 0
          PROVE  /\ dsym[x[1]].content # 0 /\ x[2] <= dsym[x[1]].at
                 /\ x[2] = dsym[x[1]].at => disk'[x] >= dsym[x[1]].content
      <4>1. CASE x = k
        BY <2>3, <2>4, <4>1
      <4>2. CASE x # k
        BY <2>4, <3>2, <4>2 DEF DiskKnown
      <4> QED BY <4>1, <4>2
    <3>3. \A d \in Clients : client'[d].pc \in {"put", "done"} =>
             client'[d].data \in Nat /\ client'[d].data >= client'[d].since
      BY <2>2 DEF DiskKnown
    <3> QED BY <2>1, <3>1, <3>2, <3>3 DEF DiskKnown
  <2>11. HeadersKnown'
    <3>1. ASSUME NEW d \in Clients, client'[d].pc \in {"header", "keep", "run"}
          PROVE  disk'[client'[d].key] # 0 /\ (client'[d].pc = "keep" => client'[d].base = disk'[client'[d].key])
      <4>1. d # c /\ client'[d] = client[d] /\ Asks(d)
        BY <2>2, <3>1 DEF Asks
      <4> QED BY <2>4, <2>5, <2>9, <3>1, <4>1 DEF HeadersKnown
    <3>2. ASSUME NEW x \in SymKeys, disk'[x] # 0, bases'[x] # NoBase,
                 \A d \in Clients : client'[d].pc = "forget" => client'[d].key # x
          PROVE  bases'[x] = disk'[x]
      <4>1. x # k
        BY <2>2, <3>2 DEF k
      <4>2. \A d \in Clients : client[d].pc = "forget" => client[d].key # x
        BY <2>1, <2>2, <3>2
      <4> QED BY <2>1, <2>4, <3>2, <4>1, <4>2 DEF HeadersKnown
    <3> QED BY <3>1, <3>2 DEF HeadersKnown
  <2> QED BY <2>7, <2>8, <2>10, <2>11
<1>11. ASSUME NEW c \in Clients, ForgetHeader(c) PROVE SidecarInv'
  <2> DEFINE k == client[c].key
  <2>1. /\ client[c].pc = "forget" /\ bases' = [bases EXCEPT ![k] = NoBase]
        /\ client' = [client EXCEPT ![c].pc = "list"]
        /\ UNCHANGED <<second, uploads, dsym, disk, lru>>
    BY <1>11 DEF ForgetHeader, Forgotten, Go
  <2>2. /\ DOMAIN client' = Clients /\ DOMAIN client'[c] = Fields /\ client'[c].pc = "list"
        /\ client'[c].id = client[c].id /\ client'[c].key = client[c].key /\ client'[c].since = client[c].since
        /\ \A d \in Clients \ {c} : client'[d] = client[d]
    BY <1>0, <2>1 DEF Fields
  <2>3. k \in SymKeys
    BY <2>1 DEF KeysKnown, Asks
  <2>4. bases' \in [SymKeys -> Nat \cup {NoBase}] /\ bases'[k] = NoBase /\ \A x \in SymKeys \ {k} : bases'[x] = bases[x]
    BY <2>1, <2>3 DEF SidecarTypes
  <2>5. SidecarTypes'
    BY <1>0, <2>1, <2>2, <2>4 DEF SidecarTypes
  <2>6. KeysKnown'
    BY <2>1, <2>2 DEF KeysKnown, Asks
  <2>7. DiskKnown'
    BY <2>1, <2>2 DEF DiskKnown, Asks
  <2> HIDE DEF k
  <2>8. HeadersKnown'
    BY <2>1, <2>2, <2>4 DEF HeadersKnown, k
  <2> QED BY <2>5, <2>6, <2>7, <2>8
<1>12. ASSUME NEW c \in Clients, ListFiles(c) PROVE SidecarInv'
  <2>1. /\ client[c].pc = "list"
        /\ client' = [client EXCEPT ![c].pc = "evict", ![c].left = lru, ![c].total = Len(lru)]
        /\ UNCHANGED <<second, uploads, dsym, disk, lru, bases>>
    BY <1>12 DEF ListFiles
  <2>2. /\ DOMAIN client' = Clients /\ DOMAIN client'[c] = Fields /\ client'[c].pc = "evict"
        /\ client'[c].id = client[c].id /\ client'[c].key = client[c].key /\ client'[c].since = client[c].since
        /\ \A d \in Clients \ {c} : client'[d] = client[d]
    BY <1>0, <2>1 DEF Fields
  <2> QED BY <1>0, <2>1, <2>2, ClientMoves DEF Asks
<1>13. ASSUME NEW c \in Clients, EvictStep(c) PROVE SidecarInv'
  <2> DEFINE k == Head(client[c].left)
  <2>1. client[c].pc = "evict" /\ UNCHANGED <<second, uploads, dsym, bases>>
    BY <1>13 DEF EvictStep
  <2>2. CASE UNCHANGED disk
    <3>1. \/ client' = [client EXCEPT ![c].pc = "post", ![c].left = << >>, ![c].total = 0]
          \/ client' = [client EXCEPT ![c].left = Tail(@)]
          \/ client' = [client EXCEPT ![c].left = Tail(@), ![c].total = @ - 1]
      BY <1>13 DEF EvictStep
    <3>2. /\ DOMAIN client' = Clients /\ DOMAIN client'[c] = Fields /\ client'[c].pc \in {"post", "evict"}
          /\ client'[c].id = client[c].id /\ client'[c].key = client[c].key /\ client'[c].since = client[c].since
          /\ \A d \in Clients \ {c} : client'[d] = client[d]
      BY <1>0, <2>1, <3>1 DEF Fields
    <3> QED BY <1>0, <2>1, <2>2, <3>2, ClientMoves DEF Asks
  <2>3. CASE ~UNCHANGED disk
    <3>1. /\ disk' = [disk EXCEPT ![k] = 0] /\ ~InUseByOther(c, k)
          /\ client' = [client EXCEPT ![c].left = Tail(@), ![c].total = @ - 1]
      BY <1>13, <2>3 DEF EvictStep
    <3>2. /\ DOMAIN client' = Clients /\ DOMAIN client'[c] = Fields /\ client'[c].pc = "evict"
          /\ client'[c].id = client[c].id /\ client'[c].key = client[c].key /\ client'[c].since = client[c].since
          /\ \A d \in Clients \ {c} : client'[d] = client[d]
      BY <1>0, <2>1, <3>1 DEF Fields
    <3>3. disk' \in [SymKeys -> Nat] /\ \A x \in SymKeys : disk'[x] # 0 => disk'[x] = disk[x]
      BY <3>1 DEF SidecarTypes
    <3>4. \A x \in SymKeys \ {k} : disk'[x] = disk[x]
      BY <3>1 DEF SidecarTypes
    <3>5. \A d \in Clients \ {c} : client[d].pc \in {"header", "keep", "run"} => client[d].key # k
      BY <3>1 DEF InUseByOther
    <3>6. \A d \in Clients : Asks(d) => client[d].key \in SymKeys
      BY DEF KeysKnown
    <3> HIDE DEF k
    <3>7. SidecarTypes'
      BY <1>0, <2>1, <3>2, <3>3 DEF SidecarTypes
    <3>8. KeysKnown'
      BY <2>1, <3>2 DEF KeysKnown, Asks
    <3>9. DiskKnown'
      BY <2>1, <3>2, <3>3, <3>6 DEF DiskKnown, Asks
    <3>10. HeadersKnown'
      BY <2>1, <3>2, <3>3, <3>4, <3>5, <3>6 DEF HeadersKnown, Asks
    <3> QED BY <3>7, <3>8, <3>9, <3>10
  <2> QED BY <2>2, <2>3
<1>14. CASE UNCHANGED sidecarVars
  BY <1>14 DEF sidecarVars, SidecarTypes, KeysKnown, DiskKnown, HeadersKnown, Asks
<1> QED
  BY <1>1, <1>2, <1>3, <1>4, <1>5, <1>6, <1>7, <1>8, <1>9, <1>10, <1>11, <1>12, <1>13, <1>14 DEF SidecarNext

\* FreshCopy: a re-upload is a new key, so a stale cached copy is never used
\* (service.go:574-577), and a stale header is never kept (sidecar.go:346), for
\* any rows, requests and cache size, when no row is uploaded twice in one second
\* and no file goes or changes under a request that has found it.
THEOREM CopiesFresh == FilesHold /\ SlowUploads /\ SidecarSpec => []FreshCopy
<1> SUFFICES ASSUME FilesHold, SlowUploads PROVE SidecarSpec => []FreshCopy
  OBVIOUS
<1>1. SidecarInv => FreshCopy
  BY DEF SidecarInv, DiskKnown, HeadersKnown, FreshCopy
<1>2. SidecarInv /\ [SidecarNext]_sidecarVars => SidecarInv'
  BY SidecarStep
<1> QED BY SidecarInitInv, <1>1, <1>2, PTL DEF SidecarSpec
=============================================================================
