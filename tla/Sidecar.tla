------------------------------- MODULE Sidecar -------------------------------
(***************************************************************************)
(* The dSYM sidecar's disk cache (internal/symbolicate/sidecar.go) and the *)
(* clients that symbolicate through it (dsym.go, Service.dsym): look up    *)
(* the row, ask, and on a miss send the file once and ask again.           *)
(*                                                                         *)
(* A file's content is the number of the upload it came from, and stands   *)
(* for its Mach-O header too; 0 is the header of no file.  Every file has  *)
(* size 1.  Files are named by the row's id and the second of its upload.  *)
(***************************************************************************)
EXTENDS Integers, Sequences, FiniteSets, SequencesExt

CONSTANTS
  Rows,        \* ids of dSYM rows
  Clients,     \* requests in flight: ingests and symbolicate jobs
  MaxUploads,  \* uploads in a behaviour
  MaxFiles,    \* MaxBytes
  FilesHold,   \* TRUE: no file goes or changes between a request's stat and its run
  SlowUploads  \* TRUE: a row is not uploaded twice in one second

ASSUME SidecarAssumption ==
  /\ MaxUploads \in Nat /\ MaxFiles \in Nat \ {0}
  /\ FilesHold \in BOOLEAN /\ SlowUploads \in BOOLEAN

VARIABLES
  second,   \* the clock, in seconds
  uploads,  \* uploads so far
  dsym,     \* dsym[id]: content and second of the row's last upload
  disk,     \* disk[key]: the content cached under the key, 0 for none
  lru,      \* the cached keys, least recently used first
  bases,    \* bases[key]: the load address kept in memory, NoBase for none
  client    \* client[c]: its request

sidecarVars == <<second, uploads, dsym, disk, lru, bases, client>>

NoBase   == -1
SymKeys  == Rows \X (0..MaxUploads)
Ready    == [pc |-> "idle", id |-> CHOOSE r \in Rows : TRUE, key |-> CHOOSE k \in SymKeys : TRUE,
             since |-> 0, sent |-> FALSE, data |-> 0, base |-> 0, left |-> << >>, total |-> 0]

SidecarTypeOK ==
  /\ second \in 0..MaxUploads /\ uploads \in 0..MaxUploads
  /\ dsym \in [Rows -> [content : 0..MaxUploads, at : 0..MaxUploads]]
  /\ disk \in [SymKeys -> 0..MaxUploads]
  /\ lru \in Seq(SymKeys) /\ IsInjective(lru) /\ ToSet(lru) = {k \in SymKeys : disk[k] # 0}
  /\ bases \in [SymKeys -> NoBase..MaxUploads]
  /\ \A c \in Clients :
       /\ client[c].pc \in {"idle", "post", "header", "keep", "run", "done", "load", "put",
                            "forget", "list", "evict"}
       /\ client[c].key \in SymKeys /\ client[c].base \in 0..MaxUploads

SidecarInit ==
  /\ second = 0 /\ uploads = 0
  /\ dsym = [r \in Rows |-> [content |-> 0, at |-> 0]]
  /\ disk = [k \in SymKeys |-> 0]
  /\ lru = << >>
  /\ bases = [k \in SymKeys |-> NoBase]
  /\ client = [c \in Clients |-> Ready]

Go(c, pc) == client' = [client EXCEPT ![c].pc = pc]

\* The clock need not pass the number of uploads that can tell it apart.
Tick ==
  /\ second < uploads
  /\ second' = second + 1
  /\ UNCHANGED <<uploads, dsym, disk, lru, bases, client>>

\* UpsertSymbolFile: DO UPDATE keeps the id and sets uploaded_at = now().
UploadDsym(r) ==
  /\ uploads < MaxUploads
  /\ SlowUploads => dsym[r].content = 0 \/ dsym[r].at # second
  /\ uploads' = uploads + 1
  /\ dsym' = [dsym EXCEPT ![r] = [content |-> uploads + 1, at |-> second]]
  /\ UNCHANGED <<second, disk, lru, bases, client>>

-----------------------------------------------------------------------------
(* DSYMClient.Resolve. *)

\* Faulty: a file is named by its row alone.
SymbolKeyById(r) == <<r, 0>>

SymbolKey(r) == <<r, dsym[r].at>>

\* dsymFile: the row without its bytes.
FindFile(c, r) ==
  /\ client[c].pc \in {"idle", "done"} /\ dsym[r].content # 0
  /\ client' = [client EXCEPT ![c] = [Ready EXCEPT !.pc = "post", !.id = r, !.key = SymbolKey(r),
                                                   !.since = dsym[r].content]]
  /\ UNCHANGED <<second, uploads, dsym, disk, lru, bases>>

\* The request fails: network, a timeout, a busy symbolizer.
RequestFails(c) ==
  /\ client[c].pc \in {"post", "run", "load", "put"}
  /\ client' = [client EXCEPT ![c] = Ready]
  /\ UNCHANGED <<second, uploads, dsym, disk, lru, bases>>

\* symbolFileBytes: the row's bytes as they are by now.
LoadBytes(c) ==
  /\ client[c].pc = "load"
  /\ client' = [client EXCEPT ![c].pc = "put", ![c].data = dsym[client[c].id].content]
  /\ UNCHANGED <<second, uploads, dsym, disk, lru, bases>>

-----------------------------------------------------------------------------
(* POST /symbolicate. *)

Without(k) == SelectSeq(lru, LAMBDA x : x # k)

\* The stat: a hit becomes the most recently used; a miss is answered as such,
\* and a job's client sends the file once; an ingest's leaves that to the job.
ServeStat(c) ==
  LET k == client[c].key IN
  /\ client[c].pc = "post"
  /\ IF disk[k] # 0
     THEN /\ lru' = Append(Without(k), k)
          /\ Go(c, "header")
     ELSE /\ UNCHANGED lru
          /\ \/ client' = [client EXCEPT ![c] = Ready]
             \/ ~client[c].sent /\ Go(c, "load")
  /\ UNCHANGED <<second, uploads, dsym, disk, bases>>

\* loadInfo: from memory, else from the file, which may be gone by now.
ReadHeader(c) ==
  LET k == client[c].key IN
  /\ client[c].pc = "header"
  /\ client' = [client EXCEPT ![c].pc = IF bases[k] # NoBase THEN "run" ELSE "keep",
                              ![c].base = IF bases[k] # NoBase THEN bases[k] ELSE disk[k]]
  /\ UNCHANGED <<second, uploads, dsym, disk, lru, bases>>

KeepHeader(c) ==
  /\ client[c].pc = "keep"
  /\ bases' = [bases EXCEPT ![client[c].key] = client[c].base]
  /\ Go(c, "run")
  /\ UNCHANGED <<second, uploads, dsym, disk, lru>>

\* The symbolizer opens the file; without one the request fails.
RunSymbolizer(c) ==
  /\ client[c].pc = "run"
  /\ client' = [client EXCEPT ![c] = IF disk[client[c].key] = 0 THEN Ready
                                     ELSE [@ EXCEPT !.pc = "done", !.data = disk[client[c].key]]]
  /\ UNCHANGED <<second, uploads, dsym, disk, lru, bases>>

-----------------------------------------------------------------------------
(* PUT /symbols/{key}. *)

InUseByOther(c, k) ==
  \E d \in Clients \ {c} : client[d].key = k /\ client[d].pc \in {"header", "keep", "run"}

RenameFile(c) ==
  LET k == client[c].key IN
  /\ client[c].pc = "put"
  /\ FilesHold => disk[k] \in {0, client[c].data} \/ ~InUseByOther(c, k)
  /\ disk' = [disk EXCEPT ![k] = client[c].data]
  /\ lru' = Append(Without(k), k)
  /\ client' = [client EXCEPT ![c].pc = "forget", ![c].sent = TRUE]
  /\ UNCHANGED <<second, uploads, dsym, bases>>

\* s.bases.Delete.
Forgotten(k) == [bases EXCEPT ![k] = NoBase]

ForgetHeader(c) ==
  /\ client[c].pc = "forget"
  /\ bases' = Forgotten(client[c].key)
  /\ Go(c, "list")
  /\ UNCHANGED <<second, uploads, dsym, disk, lru>>

ListFiles(c) ==
  /\ client[c].pc = "list"
  /\ client' = [client EXCEPT ![c].pc = "evict", ![c].left = lru, ![c].total = Len(lru)]
  /\ UNCHANGED <<second, uploads, dsym, disk, lru, bases>>

Fits(total) == total <= MaxFiles

\* One file of the listing, the least recently used first; the file just sent
\* is kept, and one that is gone already frees nothing.
EvictStep(c) ==
  LET k == Head(client[c].left) IN
  /\ client[c].pc = "evict"
  /\ IF client[c].left = << >> \/ Fits(client[c].total)
     THEN /\ client' = [client EXCEPT ![c].pc = "post", ![c].left = << >>, ![c].total = 0]
          /\ UNCHANGED <<disk, lru>>
     ELSE IF k = client[c].key \/ disk[k] = 0
     THEN /\ client' = [client EXCEPT ![c].left = Tail(@)]
          /\ UNCHANGED <<disk, lru>>
     ELSE /\ FilesHold => ~InUseByOther(c, k)
          /\ disk' = [disk EXCEPT ![k] = 0]
          /\ lru' = Without(k)
          /\ client' = [client EXCEPT ![c].left = Tail(@), ![c].total = @ - 1]
  /\ UNCHANGED <<second, uploads, dsym, bases>>

-----------------------------------------------------------------------------

SidecarNext ==
  \/ Tick
  \/ \E r \in Rows : UploadDsym(r)
  \/ \E c \in Clients :
       \/ \E r \in Rows : FindFile(c, r)
       \/ RequestFails(c) \/ LoadBytes(c)
       \/ ServeStat(c) \/ ReadHeader(c) \/ KeepHeader(c) \/ RunSymbolizer(c)
       \/ RenameFile(c) \/ ForgetHeader(c) \/ ListFiles(c) \/ EvictStep(c)

SidecarSpec == SidecarInit /\ [][SidecarNext]_sidecarVars

-----------------------------------------------------------------------------

\* A re-upload is a new key, so a stale cached copy is never used (service.go
\* 574-577): an answer comes from the file the row had when it was looked up,
\* or from a later one.  Only if no row is uploaded twice in one second.
\* Addresses are shifted by the load address of the file they are looked up
\* in; a stale header is never kept (sidecar.go:346): whatever files were sent,
\* evicted and sent again under a key, with no request at it the header in
\* memory is that of the file on disk.  Only if no file goes or changes under a
\* request that has found it: its late store would outlive the change.
FreshCopy ==
  /\ \A c \in Clients : client[c].pc = "done" => client[c].data >= client[c].since
  /\ \A k \in SymKeys :
       disk[k] # 0 /\ bases[k] # NoBase
         /\ (\A c \in Clients : client[c].key = k => client[c].pc \notin {"header", "keep", "forget"})
       => bases[k] = disk[k]
=============================================================================
