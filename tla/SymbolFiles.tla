----------------------------- MODULE SymbolFiles -----------------------------
(***************************************************************************)
(* The symbol files of one project and one kind: putSymbolFile and the     *)
(* deletes of internal/symbolicate/files.go, the statements of             *)
(* internal/store/symbols.go, Associate, the retention sweep, the deletion *)
(* of the project, and a fetch of a release's files that runs meanwhile.   *)
(*                                                                         *)
(* A row is named by its unique key <<release, filename>> and holds its    *)
(* bytes itself (InRow) or the key of an object.  An object is never       *)
(* rewritten, so its key stands for its content.                           *)
(***************************************************************************)
EXTENDS Integers, FiniteSets

CONSTANTS
  Releases,       \* releases a row may be tagged with
  NoRelease,      \* release IS NULL
  Files,          \* filenames
  Keys,           \* blob keys; one that nothing mentions stands for a fresh one
  NoRow,          \* there is no such row
  InRow,          \* blob_key IS NULL: the bytes are in the row
  Uploaders,      \* uploads in flight
  KnownOutcome,   \* TRUE: a transaction that returns an error did not commit
  AssociateApart  \* TRUE: Associate never falls inside an upload's transaction

ASSUME SymbolFilesAssumption ==
  /\ NoRelease \notin Releases
  /\ NoRow # InRow /\ NoRow \notin Keys /\ InRow \notin Keys
  /\ KnownOutcome \in BOOLEAN /\ AssociateApart \in BOOLEAN

VARIABLES
  row,      \* row[s]: NoRow, InRow or a key of Keys
  objects,  \* keys of the objects in the bucket
  upload,   \* upload[u]: step, slot, new key and key read under the lock
  doomed,   \* keys whose rows are deleted and whose objects are deleted next
  project,  \* "live", "listed" (its keys were read for the delete) or "gone"
  listed,   \* the keys the project's deletion read
  fetch,    \* a load of one release's files
  excused   \* history: keys left behind by a failed or forgone delete

filesVars == <<row, objects, upload, doomed, project, listed, fetch, excused>>

Slots  == (Releases \cup {NoRelease}) \X Files
Idle   == [pc |-> "idle", slot |-> <<NoRelease, CHOOSE f \in Files : TRUE>>,
           key |-> NoRow, old |-> NoRow]
NoFetch == [pc |-> "idle", release |-> NoRelease, todo |-> {}, tries |-> 0, moves |-> 0]

KeyOf(v)      == {v} \cap Keys
RowKeys       == UNION {KeyOf(row[s]) : s \in Slots}
HeldBy(u)     == KeyOf(upload[u].key) \cup KeyOf(upload[u].old)
Mentioned     == RowKeys \cup objects \cup doomed \cup listed \cup fetch.todo \cup excused
                   \cup UNION {HeldBy(u) : u \in Uploaders}
InTx(s)       == {u \in Uploaders : upload[u].pc = "locked" /\ upload[u].slot = s}

FilesTypeOK ==
  /\ row \in [Slots -> Keys \cup {NoRow, InRow}]
  /\ objects \subseteq Keys
  /\ upload \in [Uploaders -> [pc : {"idle", "put", "stored", "locked", "clean", "undo"},
                               slot : Slots, key : Keys \cup {NoRow},
                               old : Keys \cup {NoRow, InRow}]]
  /\ doomed \subseteq Keys
  /\ project \in {"live", "listed", "gone"}
  /\ listed \subseteq Keys
  /\ fetch \in [pc : {"idle", "read", "ok", "failed"}, release : Releases \cup {NoRelease},
                todo : SUBSET Keys, tries : 0..1, moves : 0..2]
  /\ excused \subseteq Keys

FilesInit ==
  /\ row = [s \in Slots |-> NoRow]
  /\ objects = {}
  /\ upload = [u \in Uploaders |-> Idle]
  /\ doomed = {}
  /\ project = "live"
  /\ listed = {}
  /\ fetch = NoFetch
  /\ excused = {}

-----------------------------------------------------------------------------
(* putSymbolFile. *)

\* How often a row of the release being fetched lost or changed its bytes.
Moved(S) ==
  IF fetch.pc = "read" /\ \E s \in S : s[1] = fetch.release
  THEN [fetch EXCEPT !.moves = IF @ < 2 THEN @ + 1 ELSE 2]
  ELSE fetch

Step(u, pc) == upload' = [upload EXCEPT ![u].pc = pc]

\* A process with a blob store: a fresh key, written outside any transaction.
StartUpload(u, s) ==
  /\ upload[u].pc = "idle"
  /\ \E k \in Keys \ Mentioned :
       upload' = [upload EXCEPT ![u] = [pc |-> "put", slot |-> s, key |-> k, old |-> NoRow]]
  /\ UNCHANGED <<row, objects, doomed, project, listed, fetch, excused>>

PutBlob(u) ==
  /\ upload[u].pc = "put"
  /\ objects' = objects \cup {upload[u].key}
  /\ Step(u, "stored")
  /\ UNCHANGED <<row, doomed, project, listed, fetch, excused>>

\* The put fails, before or after the store took the object.
PutBlobFails(u) ==
  /\ upload[u].pc = "put"
  /\ \/ UNCHANGED <<objects, excused>>
     \/ /\ objects' = objects \cup {upload[u].key}
        /\ excused' = excused \cup {upload[u].key}
  /\ upload' = [upload EXCEPT ![u] = Idle]
  /\ UNCHANGED <<row, doomed, project, listed, fetch>>

\* A process with no blob store writes the bytes into the row, with no lock;
\* the object of a row it replaces is not looked at.
PutInRow(s) ==
  /\ project # "gone"
  /\ row' = [row EXCEPT ![s] = InRow]
  /\ excused' = excused \cup (KeyOf(row[s]) \cap objects)
  /\ fetch' = Moved({s})
  /\ UNCHANGED <<objects, upload, doomed, project, listed>>

\* Faulty: the key to be replaced is read with no lock on the row's key.
LockFreeAlways(s) == TRUE

\* pg_advisory_xact_lock: one transaction per row key.
LockFree(s) == InTx(s) = {}

LockSymbolFile(u) ==
  /\ upload[u].pc = "stored"
  /\ LockFree(upload[u].slot)
  /\ upload' = [upload EXCEPT ![u].pc = "locked", ![u].old = row[upload[u].slot]]
  /\ UNCHANGED <<row, objects, doomed, project, listed, fetch, excused>>

\* The upsert and the commit: ON CONFLICT (project, kind, release, filename).
CommitSymbolFile(u) ==
  /\ upload[u].pc = "locked"
  /\ project # "gone"
  /\ row' = [row EXCEPT ![upload[u].slot] = upload[u].key]
  /\ fetch' = Moved({upload[u].slot})
  /\ \/ Step(u, "clean")
     \/ ~KnownOutcome /\ Step(u, "undo")
  /\ UNCHANGED <<objects, doomed, project, listed, excused>>

\* Any error of the transaction, the missing project of the foreign key included.
UploadTxFails(u) ==
  /\ upload[u].pc \in {"stored", "locked"}
  /\ Step(u, "undo")
  /\ UNCHANGED <<row, objects, doomed, project, listed, fetch, excused>>

\* Deleting an object: it is gone, or the delete failed and only logged.
DeleteBlobs(S) ==
  \E failed \in SUBSET (S \cap objects) :
    /\ objects' = objects \ (S \ failed)
    /\ excused' = (excused \ S) \cup failed

\* After the commit the replaced object goes; after an error the new one.
CleanUp(u) ==
  /\ \/ upload[u].pc = "clean" /\ DeleteBlobs(KeyOf(upload[u].old))
     \/ upload[u].pc = "undo" /\ DeleteBlobs(KeyOf(upload[u].key))
  /\ upload' = [upload EXCEPT ![u] = Idle]
  /\ UNCHANGED <<row, doomed, project, listed, fetch>>

\* The process dies: what it would have deleted stays.
CrashUpload(u) ==
  /\ upload[u].pc # "idle"
  /\ excused' = excused \cup ((HeldBy(u) \cap objects) \ RowKeys)
  /\ upload' = [upload EXCEPT ![u] = Idle]
  /\ UNCHANGED <<row, objects, doomed, project, listed, fetch>>

-----------------------------------------------------------------------------
(* Associate, deletes, the sweep, the deletion of the project. *)

\* UPDATE symbol_files SET release ... WHERE release IS NULL: the rows of F
\* (one debug id, or the last hour's uploads).  A row that exists under the
\* release already fails the whole statement.
Associate(r, F) ==
  /\ F # {}
  /\ \A f \in F : row[<<NoRelease, f>>] # NoRow /\ row[<<r, f>>] = NoRow
  /\ AssociateApart => \A f \in F : InTx(<<NoRelease, f>>) = {} /\ InTx(<<r, f>>) = {}
  /\ row' = [s \in Slots |-> IF s[2] \notin F \/ s[1] \notin {r, NoRelease} THEN row[s]
                             ELSE IF s[1] = r THEN row[<<NoRelease, s[2]>>] ELSE NoRow]
  /\ fetch' = Moved({<<r, f>> : f \in F})
  /\ UNCHANGED <<objects, upload, doomed, project, listed, excused>>

\* Faulty: the objects go before the rows.
RemoveRowsLate(S) ==
  /\ \A s \in S : KeyOf(row[s]) # {}
  /\ objects' = objects \ UNION {KeyOf(row[s]) : s \in S}
  /\ UNCHANGED <<row, upload, doomed, project, listed, fetch, excused>>

\* DELETE ... RETURNING blob_key: DeleteSymbolFile (one row), ExpireSymbolFiles
\* (every row uploaded before the cutoff).
RemoveRows(S) ==
  /\ S # {} /\ \A s \in S : row[s] # NoRow
  /\ row' = [s \in Slots |-> IF s \in S THEN NoRow ELSE row[s]]
  /\ doomed' = doomed \cup UNION {KeyOf(row[s]) : s \in S}
  /\ fetch' = Moved(S)
  /\ UNCHANGED <<objects, upload, project, listed, excused>>

\* The objects of deleted rows; a process that dies first counts as a failure.
DeleteDoomed ==
  /\ doomed # {}
  /\ DeleteBlobs(doomed)
  /\ doomed' = {}
  /\ UNCHANGED <<row, upload, project, listed, fetch>>

\* deleteProject: the keys are read, the rows go by cascade, then the objects.
ListProjectBlobs ==
  /\ project = "live"
  /\ project' = "listed" /\ listed' = RowKeys
  /\ UNCHANGED <<row, objects, upload, doomed, fetch, excused>>

\* Rows that came after the listing go too: nothing knows their objects then.
DeleteProject ==
  /\ project = "listed"
  /\ project' = "gone" /\ listed' = {}
  /\ row' = [s \in Slots |-> NoRow]
  /\ doomed' = doomed \cup listed
  /\ excused' = excused \cup (RowKeys \ listed)
  /\ fetch' = Moved({s \in Slots : row[s] # NoRow})
  /\ UNCHANGED <<objects, upload>>

-----------------------------------------------------------------------------
(* fetch: the rows, then each object; a missing object is read again once. *)

StartFetch(r) ==
  /\ fetch.pc \in {"idle", "ok", "failed"}
  /\ fetch' = [pc |-> "read", release |-> r, tries |-> 0, moves |-> 0,
               todo |-> UNION {KeyOf(row[<<r, f>>]) : f \in Files}]
  /\ UNCHANGED <<row, objects, upload, doomed, project, listed, excused>>

\* blob.ErrNotFound: fetchOnce starts over, the second time it is an error.
FetchMissing ==
  IF fetch.tries = 0
  THEN [fetch EXCEPT !.tries = 1,
                     !.todo = UNION {KeyOf(row[<<fetch.release, f>>]) : f \in Files}]
  ELSE [fetch EXCEPT !.pc = "failed", !.todo = {}]

FetchStep ==
  /\ fetch.pc = "read"
  /\ fetch' = IF fetch.todo = {} THEN [fetch EXCEPT !.pc = "ok"]
              ELSE LET k == CHOOSE x \in fetch.todo : TRUE
                   IN  IF k \in objects THEN [fetch EXCEPT !.todo = @ \ {k}] ELSE FetchMissing
  /\ UNCHANGED <<row, objects, upload, doomed, project, listed, excused>>

-----------------------------------------------------------------------------

FilesNext ==
  \/ \E u \in Uploaders :
       \/ \E s \in Slots : StartUpload(u, s)
       \/ PutBlob(u) \/ PutBlobFails(u)
       \/ LockSymbolFile(u) \/ CommitSymbolFile(u) \/ UploadTxFails(u)
       \/ CleanUp(u) \/ CrashUpload(u)
  \/ \E s \in Slots : PutInRow(s)
  \/ \E r \in Releases, F \in SUBSET Files : Associate(r, F)
  \/ \E S \in SUBSET Slots : RemoveRows(S)
  \/ DeleteDoomed \/ ListProjectBlobs \/ DeleteProject
  \/ \E r \in Releases : StartFetch(r)
  \/ FetchStep

FilesSpec == FilesInit /\ [][FilesNext]_filesVars

-----------------------------------------------------------------------------

\* A failure leaves an orphaned object, never a row without its bytes
\* (files.go:87-90): whatever uploads of one file, associations, deletes and
\* sweeps do to each other, the object a row names is there.  A re-upload between
\* the read of a row and of its object costs a fetch one more try, not an error:
\* it fails only when the release's files were changed under it at least twice
\* (service.go:294-299).
RowHasBytes ==
  /\ RowKeys \subseteq objects
  /\ fetch.pc = "failed" => fetch.moves = 2

\* An upload frees exactly the object it replaced (files.go:36-41): an object
\* that no row names is on its way to a row or to its delete, unless a delete
\* failed, a process died before it, or a row was written or deleted by one
\* that cannot know of the object.
NoSilentOrphan ==
  objects \subseteq RowKeys \cup doomed \cup listed \cup excused
                      \cup UNION {HeldBy(u) : u \in Uploaders}
=============================================================================
