------------------------------- MODULE Chunks -------------------------------
(***************************************************************************)
(* Chunked upload (internal/api/chunks.go, internal/store/chunks.go): the  *)
(* client posts chunks, asks to assemble a file, posts what is reported    *)
(* missing and asks again.  Chunks of the same bytes share a row, whatever *)
(* the file; the retention sweep takes rows a day old.                     *)
(***************************************************************************)
EXTENDS Integers, FiniteSets

CONSTANTS
  ChunkedFiles,  \* files of debug symbols
  PartsOf,       \* PartsOf[f]: f's chunks
  Refused,       \* files the upload answers with an UploadError, too large ones included
  Assemblers,    \* assemble requests in flight
  ChunkDay,      \* 24 hours
  LastHour       \* bound: the clock

ASSUME ChunksAssumption ==
  /\ ChunkedFiles # {} /\ Refused \subseteq ChunkedFiles
  /\ DOMAIN PartsOf = ChunkedFiles
  /\ ChunkDay \in Nat /\ LastHour \in Nat

Parts == UNION {PartsOf[f] : f \in ChunkedFiles}

VARIABLES
  hour,        \* the clock
  chunkAt,     \* created_at of the upload_chunks rows, -1 for none
  assembling,  \* assembling[a]: the request's file and step
  assembled,   \* files uploaded from their chunks
  answered,    \* answered[f]: the last answer about f
  posted,      \* history: chunks a post stored
  aged         \* history: chunks the sweep took

chunkVars == <<hour, chunkAt, assembling, assembled, answered, posted, aged>>

NoAssembly == [pc |-> "idle", file |-> CHOOSE f \in ChunkedFiles : TRUE]

ChunkTypeOK ==
  /\ hour \in 0..LastHour
  /\ chunkAt \in [Parts -> -1..LastHour]
  /\ assembling \in [Assemblers -> [pc : {"idle", "present", "read", "uploaded"}, file : ChunkedFiles]]
  /\ assembled \subseteq ChunkedFiles \ Refused
  /\ answered \in [ChunkedFiles -> {"none", "not_found", "error", "ok"}]
  /\ posted \subseteq Parts /\ aged \subseteq posted

ChunkInit ==
  /\ hour = 0
  /\ chunkAt = [c \in Parts |-> -1]
  /\ assembling = [a \in Assemblers |-> NoAssembly]
  /\ assembled = {}
  /\ answered = [f \in ChunkedFiles |-> "none"]
  /\ posted = {} /\ aged = {}

Present(cs) == {c \in cs : chunkAt[c] >= 0}

HourPasses ==
  /\ hour < LastHour
  /\ hour' = hour + 1
  /\ UNCHANGED <<chunkAt, assembling, assembled, answered, posted, aged>>

\* PutUploadChunk: a chunk that is there keeps its row and its created_at.
PutUploadChunk(c) ==
  /\ chunkAt' = [chunkAt EXCEPT ![c] = IF @ >= 0 THEN @ ELSE hour]
  /\ posted' = posted \cup {c}
  /\ UNCHANGED <<hour, assembling, assembled, answered, aged>>

-----------------------------------------------------------------------------
(* sentryAssemble, one file of the request. *)

Step(a, pc, f) == assembling' = [assembling EXCEPT ![a] = [pc |-> pc, file |-> f]]
Tell(a, f, what) ==
  /\ answered' = [answered EXCEPT ![f] = what]
  /\ assembling' = [assembling EXCEPT ![a] = NoAssembly]

\* UploadChunksPresent, and the missing ones back to the client.
AskAssemble(a, f) ==
  /\ assembling[a].pc = "idle"
  /\ IF Present(PartsOf[f]) = PartsOf[f] /\ PartsOf[f] # {}
     THEN Step(a, "present", f) /\ UNCHANGED answered
     ELSE Tell(a, f, "not_found")
  /\ UNCHANGED <<hour, chunkAt, assembled, posted, aged>>

\* GetUploadChunks joins what is there by now: a gap spoils the checksum.
GetUploadChunks(a) ==
  LET f == assembling[a].file IN
  /\ assembling[a].pc = "present"
  /\ IF Present(PartsOf[f]) = PartsOf[f]
     THEN Step(a, "read", f) /\ UNCHANGED answered
     ELSE Tell(a, f, "error")
  /\ UNCHANGED <<hour, chunkAt, assembled, posted, aged>>

UploadSucceeds(a) ==
  LET f == assembling[a].file IN
  /\ assembling[a].pc = "read" /\ f \notin Refused
  /\ assembled' = assembled \cup {f}
  /\ Step(a, "uploaded", f)
  /\ UNCHANGED <<hour, chunkAt, answered, posted, aged>>

UploadRefused(a) ==
  LET f == assembling[a].file IN
  /\ assembling[a].pc = "read" /\ f \in Refused
  /\ Tell(a, f, "error")
  /\ UNCHANGED <<hour, chunkAt, assembled, posted, aged>>

\* Faulty: the chunks go as soon as they are read.
StoredFirstNever(a) == assembling[a].pc \in {"read", "uploaded"}

\* The file is stored before its chunks go.
StoredFirst(a) == assembling[a].pc = "uploaded"

\* DeleteUploadChunks; when it fails the sweep does it.
Consumed(a) == PartsOf[assembling[a].file]

DeleteUploadChunks(a) ==
  /\ StoredFirst(a)
  /\ \E done \in BOOLEAN :
       chunkAt' = [c \in Parts |-> IF done /\ c \in Consumed(a) THEN -1 ELSE chunkAt[c]]
  /\ Tell(a, assembling[a].file, "ok")
  /\ UNCHANGED <<hour, assembled, posted, aged>>

\* An error of the database or of the upload, or the end of the process:
\* the request ends with a status and no answer.
AssembleFails(a) ==
  /\ assembling[a].pc # "idle"
  /\ assembling' = [assembling EXCEPT ![a] = NoAssembly]
  /\ UNCHANGED <<hour, chunkAt, assembled, answered, posted, aged>>

-----------------------------------------------------------------------------

\* ExpireUploadChunks, of the retention sweep.
ExpireUploadChunks ==
  LET old == {c \in Parts : chunkAt[c] >= 0 /\ hour - chunkAt[c] > ChunkDay} IN
  /\ old # {}
  /\ chunkAt' = [c \in Parts |-> IF c \in old THEN -1 ELSE chunkAt[c]]
  /\ aged' = aged \cup old
  /\ UNCHANGED <<hour, assembling, assembled, answered, posted>>

ChunkNext ==
  \/ HourPasses \/ ExpireUploadChunks
  \/ \E c \in Parts : PutUploadChunk(c)
  \/ \E a \in Assemblers :
       \/ GetUploadChunks(a) \/ UploadSucceeds(a) \/ UploadRefused(a)
       \/ DeleteUploadChunks(a) \/ AssembleFails(a)
       \/ \E f \in ChunkedFiles : AskAssemble(a, f)

ChunkSpec == ChunkInit /\ [][ChunkNext]_chunkVars

-----------------------------------------------------------------------------

\* c left the table because it was a day old, or with a file it is part of.
Explained(c) == c \in aged \/ \E f \in assembled : c \in PartsOf[f]

\* What the client posted is there until it is part of a stored file or a day
\* old, whatever fails or races; and a sound file is told "error" only when a
\* chunk went that way under the request (chunks.go:143-171).
ChunksAccounted ==
  /\ \A c \in posted : chunkAt[c] >= 0 \/ Explained(c)
  /\ \A f \in ChunkedFiles \ Refused : answered[f] = "error" => \E c \in PartsOf[f] : Explained(c)
=============================================================================
