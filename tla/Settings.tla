------------------------------ MODULE Settings ------------------------------
(***************************************************************************)
(* A project's settings: the row every save writes whole, and its alert    *)
(* rules (internal/api/projects.go, internal/api/alerts.go,                *)
(* internal/web/settings.go, internal/store/projects.go,                   *)
(* internal/store/alerts.go).  A save writes back the fields it was not    *)
(* asked to change as it read them.  One slug; its project may be deleted  *)
(* and created again.                                                      *)
(***************************************************************************)
EXTENDS Integers, FiniteSets

CONSTANTS
  Admins,     \* requests, one at a time each
  Rules,      \* alert types
  FieldsOf,   \* FieldsOf[o]: what "project", or a rule, stores
  Picks,      \* values of a field; 0 is a new row's
  NoRow,
  Raced,      \* a field nobody's word holds for: two saves crossed on it
  MaxProjects \* bound: times the project is created

ASSUME SettingsAssumption ==
  /\ "project" \notin Rules /\ 0 \in Picks
  /\ \A o \in {"project"} \cup Rules : NoRow \notin [FieldsOf[o] -> Picks]

VARIABLES
  serial,       \* the project's id: how often it was created
  row,      \* row[o]: the fields of the project or of a rule, NoRow for none
  admin,    \* admin[a]: what a's request read and has still to write
  said,     \* history: said[o][f]: the value last asked for
  complete  \* history: a creation of this project was answered

settingsVars == <<serial, row, admin, said, complete>>

SettingsObjects == {"project"} \cup Rules
Fresh(o)  == [f \in FieldsOf[o] |-> 0]
Exists    == row["project"] # NoRow

\* A request: the project and object it is about, the object as it was read,
\* the fields saved by others since, the rules it has yet to create.
Resting == [pc |-> "idle", id |-> 0, object |-> "project", seen |-> Fresh("project"), behind |-> FALSE, left |-> {}]

SettingsInit ==
  /\ serial = 0 /\ complete = FALSE
  /\ row = [o \in SettingsObjects |-> NoRow]
  /\ admin = [a \in Admins |-> Resting]
  /\ said = [o \in SettingsObjects |-> Fresh(o)]

Ends(a) == [admin EXCEPT ![a] = Resting]

\* Requests that read the object before this write do not know of it.
Behind(a, o) == [b \in Admins |-> IF admin[b].pc = "save" /\ admin[b].object = o THEN [admin[b] EXCEPT !.behind = TRUE] ELSE admin[b]]

-----------------------------------------------------------------------------
(* Creation. *)

\* CreateProject, by the API or by the portal's form; a taken slug is a 409.
CreateProject(a, form) ==
  /\ admin[a].pc = "idle" /\ ~ Exists /\ serial < MaxProjects
  /\ serial' = serial + 1 /\ complete' = FALSE
  /\ row' = [row EXCEPT !["project"] = Fresh("project")]
  /\ said' = [o \in SettingsObjects |-> Fresh(o)]
  /\ admin' = [admin EXCEPT ![a] = [Resting EXCEPT !.pc = form, !.id = serial + 1, !.left = Rules]]

\* EnsureAlertRules: one statement, rows that are there stay.
MissingRules == [o \in SettingsObjects |-> IF o \in Rules /\ row[o] = NoRow THEN Fresh(o) ELSE row[o]]

\* The API's creation ends with it.
EnsureRules(a) ==
  /\ admin[a].pc = "api" /\ Exists /\ admin[a].id = serial
  /\ row' = MissingRules /\ complete' = TRUE
  /\ admin' = Ends(a)
  /\ UNCHANGED <<serial, said>>

\* An alert or a monitor runs it before it uses a rule (alerts.go:163, 231,
\* monitors.go:146).
EnsureForAlert ==
  /\ Exists
  /\ row' = MissingRules
  /\ UNCHANGED <<serial, admin, said, complete>>

\* The form upserts rule after rule, here in any order, over what is there.
UpsertDefault(a, t) ==
  /\ admin[a].pc = "form" /\ t \in admin[a].left /\ Exists /\ admin[a].id = serial
  /\ row' = [row EXCEPT ![t] = Fresh(t)]
  /\ said' = [said EXCEPT ![t] = [f \in FieldsOf[t] |-> IF @[f] = 0 THEN 0 ELSE Raced]]
  /\ LET left == admin[a].left \ {t}
     IN /\ complete' = (complete \/ left = {})
        /\ admin' = [Behind(a, t) EXCEPT ![a] = IF left = {} THEN Resting ELSE [admin[a] EXCEPT !.left = left]]
  /\ UNCHANGED serial

\* The request fails, or its project is gone: no rows, or a foreign key.
FailRequest(a) ==
  /\ admin[a].pc # "idle"
  /\ admin' = Ends(a)
  /\ UNCHANGED <<serial, row, said, complete>>

-----------------------------------------------------------------------------
(* Saves. *)

\* Faulty: what the request does not give starts from the defaults.
SeedDefaults(o) == Fresh(o)

\* The handler reads the project; for a rule GetAlertRule, a rule that is not
\* there reads as enabled with the default cooldown (api/alerts.go:55-61).
Seed(o) == IF row[o] = NoRow THEN Fresh(o) ELSE row[o]

ReadSettings(a, o) ==
  /\ admin[a].pc = "idle" /\ Exists
  /\ admin' = [admin EXCEPT ![a] = [Resting EXCEPT !.pc = "save", !.id = serial, !.object = o, !.seen = Seed(o)]]
  /\ UNCHANGED <<serial, row, said, complete>>

\* UpdateProject or UpsertAlertRule: asked are the fields the request gives,
\* every field for the form of a rule.
SaveSettings(a, asked, v) ==
  LET q == admin[a]
      o == q.object
  IN /\ q.pc = "save" /\ Exists /\ q.id = serial
     /\ asked \subseteq FieldsOf[o] /\ asked # {}
     /\ row' = [row EXCEPT ![o] = [f \in FieldsOf[o] |-> IF f \in asked THEN v ELSE q.seen[f]]]
     /\ said' = [said EXCEPT ![o] = [f \in FieldsOf[o] |->
                   IF f \in asked THEN v ELSE IF q.behind THEN Raced ELSE @[f]]]
     /\ admin' = [Behind(a, o) EXCEPT ![a] = Resting]
     /\ UNCHANGED <<serial, complete>>

\* DeleteProject; the rules go by cascade.
DeleteProject ==
  /\ Exists
  /\ row' = [o \in SettingsObjects |-> NoRow]
  /\ complete' = FALSE
  /\ UNCHANGED <<serial, admin, said>>

-----------------------------------------------------------------------------

SettingsNext ==
  \/ EnsureForAlert \/ DeleteProject
  \/ \E a \in Admins :
       \/ \E form \in {"api", "form"} : CreateProject(a, form)
       \/ EnsureRules(a) \/ FailRequest(a)
       \/ \E t \in Rules : UpsertDefault(a, t)
       \/ \E o \in SettingsObjects : ReadSettings(a, o)
       \/ \E asked \in SUBSET FieldsOf[admin[a].object], v \in Picks : SaveSettings(a, asked, v)

SettingsSpec == SettingsInit /\ [][SettingsNext]_settingsVars

-----------------------------------------------------------------------------

\* A setting has the value last asked for, unless a request that had read the
\* row before that write saved another field of it later: every save carries
\* every field, seeded from the row by its caller (store/projects.go:59-61).
\* And a creation that was answered has made every rule.
OnlyRacesLose ==
  Exists => /\ \A o \in SettingsObjects : row[o] # NoRow =>
                 \A f \in FieldsOf[o] : said[o][f] \in {row[o][f], Raced}
            /\ complete => \A t \in Rules : row[t] # NoRow
=============================================================================
