------------------------------ MODULE MCStorage ------------------------------
(***************************************************************************)
(* What keeps, moves, lists and drops what is stored: packs, the weekly    *)
(* partitions, uploaded chunks, export and import, pages of events and     *)
(* issues; and the accounts and settings behind it.  The parts share no    *)
(* state: a behaviour is one part's, while the others rest.                *)
(***************************************************************************)
EXTENDS MCPayloadPacks, Partitions, Chunks, Transfer, Listing, Access, Settings

VARIABLE part

-----------------------------------------------------------------------------
(* Chunks: two files that share a chunk, and one the upload refuses. *)

CONSTANTS f1, f2, f3, c1, c2

MCPartsOf == f1 :> {c1, c2} @@ f2 :> {c2} @@ f3 :> {c1}

-----------------------------------------------------------------------------
(* Settings: a project and a rule of one field, and a rule of two. *)

CONSTANTS t1, t2

MCFieldsOf == "project" :> {"rate"} @@ t1 :> {"enabled", "cooldown"} @@ t2 :> {"enabled"}

-----------------------------------------------------------------------------

PartsIdle ==
  /\ part # "packs"    => weekOf = [p \in PackIds |-> w1]
  /\ part # "transfer" => before = [k \in RowKeys |-> 0]
  /\ part # "listing"  => reader = "issues"
  /\ part # "access"   => alone

MCInit ==
  /\ part \in {"packs", "partitions", "chunks", "transfer", "listing", "access", "settings"}
  /\ Init /\ PartInit /\ ChunkInit /\ TransferInit /\ ListingInit /\ AccessInit
  /\ SettingsInit
  /\ PartsIdle

MCNext ==
  /\ UNCHANGED part
  /\ \/ part = "packs"       /\ Next         /\ UNCHANGED <<partVars, chunkVars, transferVars, listingVars, accessVars, settingsVars>>
     \/ part = "partitions"  /\ PartNext     /\ UNCHANGED <<vars, chunkVars, transferVars, listingVars, accessVars, settingsVars>>
     \/ part = "chunks"      /\ ChunkNext    /\ UNCHANGED <<vars, partVars, transferVars, listingVars, accessVars, settingsVars>>
     \/ part = "transfer"    /\ TransferNext /\ UNCHANGED <<vars, partVars, chunkVars, listingVars, accessVars, settingsVars>>
     \/ part = "listing"     /\ ListingNext  /\ UNCHANGED <<vars, partVars, chunkVars, transferVars, accessVars, settingsVars>>
     \/ part = "access"      /\ AccessNext   /\ UNCHANGED <<vars, partVars, chunkVars, transferVars, listingVars, settingsVars>>
     \/ part = "settings"    /\ SettingsNext /\ UNCHANGED <<vars, partVars, chunkVars, transferVars, listingVars, accessVars>>

allVars == <<part, vars, partVars, chunkVars, transferVars, listingVars, accessVars, settingsVars>>

MCSpec == MCInit /\ [][MCNext]_allVars
=============================================================================
