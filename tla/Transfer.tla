------------------------------ MODULE Transfer ------------------------------
(***************************************************************************)
(* Export and import (internal/export/export.go).  An export writes the    *)
(* tables in a fixed order from one snapshot, while ingest goes on; an     *)
(* import reads the file in chunks of CommitEvery lines, one transaction   *)
(* each, may fail or die anywhere, and is then run again from the start.   *)
(*                                                                         *)
(* A row is its natural key and a number, 0 for no row.  The tables fall   *)
(* in three kinds by what the insert does with a row that is there:        *)
(*   "keeps"     users, api_keys, project_keys, events, attachments,       *)
(*               monitor_checkins, sessions, alert_channels                *)
(*   "replaces"  projects, user_reports, monitors, symbol_files,           *)
(*               alert_rules                                               *)
(*   "merges"    releases, and the counts of issues                        *)
(* One table of each kind is enough, and symbol_files for its objects.     *)
(***************************************************************************)
EXTENDS Integers, FiniteSets, Sequences

CONSTANTS
  Sent,         \* events of the source's one project, in one issue
  CommitEvery,  \* lines per transaction
  Objects,      \* blob keys an import may draw, never twice
  NoObject,
  MaxRuns       \* bound: runs of the import

ASSUME TransferAssumption ==
  /\ CommitEvery \in Nat \ {0} /\ MaxRuns \in Nat /\ NoObject \notin Objects
  /\ IsFiniteSet(Sent) /\ Sent \cap {"user", "project", "issue", "symbols"} = {}

RowKeys == {"user", "project", "issue", "symbols"} \cup Sent

VARIABLES
  source,    \* events the source stores
  snapshot,  \* events in the export's snapshot, taken once
  written,   \* tables written so far
  lines,     \* the file: [key, num] in order
  before,    \* the target's rows before the import
  target,    \* the target's rows
  object,    \* the blob key of the target's symbol_files row, NoObject for none
  bytes,     \* objects in the target's blob store
  drawn,     \* keys drawn so far
  import     \* the run: step, lines read and committed, its transaction

transferVars == <<source, snapshot, written, lines, before, target, object, bytes, drawn, import>>

NoImport == [pc |-> "idle", read |-> 0, done |-> 0, rows |-> [k \in {} |-> 0],
             object |-> NoObject, pending |-> {}, replaced |-> {}, runs |-> 0]

TransferTypeOK ==
  /\ source \subseteq Sent /\ snapshot \subseteq Sent
  /\ written \in 0..5
  /\ lines \in Seq([key : RowKeys, num : Nat])
  /\ before \in [RowKeys -> Nat] /\ target \in [RowKeys -> Nat]
  /\ object \in Objects \cup {NoObject}
  /\ bytes \subseteq drawn /\ drawn \subseteq Objects
  /\ import.pc \in {"idle", "chunk", "drain", "done"} /\ import.runs \in 0..MaxRuns

\* The target is new, or has rows of its own: a user, the project, the issue.
TransferInit ==
  /\ source = {} /\ snapshot = {}
  /\ written = 0 /\ lines = <<>>
  /\ \E n \in {0, 2} : before = [k \in RowKeys |-> IF k \in {"user", "project", "issue"} THEN n ELSE 0]
  /\ target = before
  /\ object = NoObject /\ bytes = {} /\ drawn = {}
  /\ import = NoImport

-----------------------------------------------------------------------------
(* Export. *)

\* Ingest commits an event and its issue's count in one transaction.
IngestMeanwhile(e) ==
  /\ e \notin source /\ written < 5
  /\ source' = source \cup {e}
  /\ UNCHANGED <<snapshot, written, lines, before, target, object, bytes, drawn, import>>

\* Faulty: every query of the export has a snapshot of its own.
SeenLive == source

\* REPEATABLE READ: the snapshot of the first query.
Seen == IF written = 0 THEN source ELSE snapshot

Line(k, n) == [key |-> k, num |-> n]

\* One line per event, in the order of a query.
EventLines(es) ==
  {s \in [1..Cardinality(es) -> [key : es, num : {1}]] : \A e \in es : \E i \in DOMAIN s : s[i].key = e}

\* Export, table by table in the order of Tables; a full export writes users.
ExportTable ==
  /\ written < 5
  /\ snapshot' = Seen
  /\ written' = written + 1
  /\ \/ written = 0 /\ lines' = Append(lines, Line("user", 1))
     \/ written = 1 /\ lines' = Append(lines, Line("project", 1))
     \/ written = 2 /\ lines' = IF Seen = {} THEN lines ELSE Append(lines, Line("issue", Cardinality(Seen)))
     \/ written = 3 /\ \E s \in EventLines(Seen) : lines' = lines \o s
     \/ written = 4 /\ \E kept \in BOOLEAN : lines' = IF kept THEN Append(lines, Line("symbols", 1)) ELSE lines
  /\ UNCHANGED <<source, before, target, object, bytes, drawn, import>>

-----------------------------------------------------------------------------
(* Import. *)

\* GREATEST, for counts; platforms unite and first_seen takes the LEAST.
Merged(old, new) == IF old > new THEN old ELSE new

\* What the statement of l's table makes of the row that is there.
Applied(l, old) ==
  CASE l.key \in {"user"} \cup Sent    -> IF old # 0 THEN old ELSE l.num
    [] l.key \in {"project", "symbols"} -> l.num
    [] l.key = "issue"                  -> Merged(old, l.num)

StartImport ==
  /\ written = 5 /\ import.pc = "idle" /\ import.runs < MaxRuns
  /\ import' = [NoImport EXCEPT !.pc = "chunk", !.rows = target, !.object = object, !.runs = import.runs + 1]
  /\ UNCHANGED <<source, snapshot, written, lines, before, target, object, bytes, drawn>>

Reading == import.pc = "chunk" /\ import.read < Len(lines) /\ import.read - import.done < CommitEvery
NextLine   == lines[import.read + 1]

\* line, of a table without objects.
ImportLine ==
  /\ Reading /\ NextLine.key # "symbols"
  /\ import' = [import EXCEPT !.read = @ + 1, !.rows[NextLine.key] = Applied(NextLine, @)]
  /\ UNCHANGED <<source, snapshot, written, lines, before, target, object, bytes, drawn>>

\* line, of a symbol file: its object first, then the row, and the key of the
\* object it replaces.
ImportSymbols(o) ==
  /\ Reading /\ NextLine.key = "symbols"
  /\ o \notin drawn
  /\ drawn' = drawn \cup {o} /\ bytes' = bytes \cup {o}
  /\ import' = [import EXCEPT !.read = @ + 1, !.rows["symbols"] = Applied(NextLine, @), !.object = o,
                              !.pending = @ \cup {o}, !.replaced = {object} \ {NoObject}]
  /\ UNCHANGED <<source, snapshot, written, lines, before, target, object>>

\* The end of a chunk: flush and commit, then endChunk deletes what the chunk
\* replaced, unless the process dies first or the delete fails.
CommitChunk ==
  /\ import.pc = "chunk"
  /\ import.read = Len(lines) \/ import.read - import.done = CommitEvery
  /\ target' = import.rows /\ object' = import.object
  /\ bytes' \in {bytes, bytes \ import.replaced}
  /\ import' = [import EXCEPT !.pc = "drain", !.done = import.read, !.pending = {}, !.replaced = {}]
  /\ UNCHANGED <<source, snapshot, written, lines, before, drawn>>

Stops == import' = [NoImport EXCEPT !.runs = import.runs]

\* A line or a statement fails: the transaction is rolled back and endChunk
\* deletes the objects it wrote.
FailChunk ==
  /\ import.pc = "chunk"
  /\ bytes' = bytes \ import.pending
  /\ Stops
  /\ UNCHANGED <<source, snapshot, written, lines, before, target, object, drawn>>

\* The process dies, or packing the chunk's payloads fails.
StopImport ==
  /\ import.pc \in {"chunk", "drain"}
  /\ Stops
  /\ UNCHANGED <<source, snapshot, written, lines, before, target, object, bytes, drawn>>

\* The spool is packed; then the next chunk, or the end.
NextChunk ==
  /\ import.pc = "drain"
  /\ import' = [import EXCEPT !.pc = IF import.done = Len(lines) THEN "done" ELSE "chunk"]
  /\ UNCHANGED <<source, snapshot, written, lines, before, target, object, bytes, drawn>>

TransferNext ==
  \/ \E e \in Sent : IngestMeanwhile(e)
  \/ ExportTable
  \/ StartImport \/ ImportLine \/ CommitChunk \/ FailChunk \/ StopImport \/ NextChunk
  \/ \E o \in Objects : ImportSymbols(o)

TransferSpec == TransferInit /\ [][TransferNext]_transferVars

-----------------------------------------------------------------------------

\* A failed import is run again, not rolled back (export.go:767-771): however
\* often it was cut short, the target then holds what one run would have left,
\* and at no time an event without its issue or project (export.go:363-365), or
\* a symbol file without its bytes.
RerunIsOneRun ==
  /\ \A e \in Sent : target[e] # 0 => target["issue"] # 0 /\ target["project"] # 0
  /\ target["symbols"] # 0 => object \in bytes
  /\ import.pc = "done" =>
       \A k \in RowKeys :
         target[k] = IF \E i \in DOMAIN lines : lines[i].key = k
                     THEN Applied(CHOOSE l \in {lines[i] : i \in DOMAIN lines} : l.key = k, before[k])
                     ELSE before[k]
=============================================================================
