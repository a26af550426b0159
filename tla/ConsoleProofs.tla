---------------------------- MODULE ConsoleProofs ----------------------------
(***************************************************************************)
(* Proofs about what administrators do and readers are shown.  Access: for *)
(* any number of accounts and clients, the setup page makes one account,   *)
(* and as long as people remove each other one at a time there is always   *)
(* an account left.  Settings: for any number of admins, rules, fields and *)
(* values, a saved field stays unless two saves of one object crossed, and *)
(* an answered creation left every rule.  Pages: the page of an issue, for *)
(* any events and issues.  Listing: lists read page by page, for any rows. *)
(* Charts: pages of statistics, for any counts and windows.                *)
(***************************************************************************)
EXTENDS Access, Settings, Pages, Listing, Charts, DataTheorems

-----------------------------------------------------------------------------
(* Access. *)

\* The setup transaction in its count is alone and has founded nothing yet; an
\* install without users starts over.
Founding ==
  /\ \A c, d \in Clients : request[c].pc = "counted" /\ request[d].pc = "counted" => c = d
  /\ \A c \in Clients : request[c].pc = "counted" => founded = 0
  /\ users = {} => founded = 0
  /\ founded <= 1

\* One client at a time on the account page, whose account is there.
OneAtWork ==
  alone => /\ \A c, d \in InUse : c = d
           /\ \A c \in InUse : request[c].id \in users
           /\ used # {} => users # {}

AccessInv == AccessTypeOK /\ Founding /\ OneAtWork

LEMMA AccessInitInv == AccessInit => AccessInv
  BY AccessAssumption DEF AccessInit, AccessInv, AccessTypeOK, Founding, OneAtWork, InUse, NoRequest

LEMMA AccessStepInv == ASSUME AccessInv, [AccessNext]_accessVars PROVE AccessInv'
<1> USE AccessAssumption DEF AccessInv
<1>1. ASSUME NEW c \in Clients, CountUsers(c) PROVE AccessInv'
  BY <1>1 DEF CountUsers, SetupFree, Goes, AccessTypeOK, Founding, OneAtWork, InUse
<1>2. ASSUME NEW c \in Clients, Fail(c) PROVE AccessInv'
  BY <1>2 DEF Fail, Goes, AccessTypeOK, Founding, OneAtWork, InUse
<1>3. ASSUME NEW c \in Clients, Login(c) PROVE AccessInv'
  BY <1>3 DEF Login, Goes, AccessTypeOK, Founding, OneAtWork, InUse
<1>4. ASSUME NEW c \in Clients, EndSession(c) PROVE AccessInv'
  BY <1>4 DEF EndSession, AccessTypeOK, Founding, OneAtWork, InUse
<1>5. ASSUME NEW c \in Clients, Act(c) PROVE AccessInv'
  <2>1. session[c] \in users
    BY <1>5 DEF Act, AccessTypeOK
  <2> QED BY <1>5, <2>1 DEF Act, Goes, AccessTypeOK, Founding, OneAtWork, InUse
<1>6. ASSUME NEW c \in Clients, NEW id \in Ids, CreateFirstUser(c, id) PROVE AccessInv'
  <2>1. AccessTypeOK'
    BY <1>6 DEF CreateFirstUser, Goes, AccessTypeOK
  <2>2. Founding'
    BY <1>6 DEF CreateFirstUser, Goes, AccessTypeOK, Founding
  <2>3. OneAtWork'
    BY <1>6 DEF CreateFirstUser, Goes, AccessTypeOK, OneAtWork, InUse
  <2> QED BY <2>1, <2>2, <2>3
<1>7. ASSUME NEW c \in Clients, NEW id \in Ids, VerifyPassword(c, id) PROVE AccessInv'
  BY <1>7 DEF VerifyPassword, Goes, AccessTypeOK, Founding, OneAtWork, InUse
<1>8. ASSUME NEW id \in Ids, AddUser(id),
             request' = request \/ \E c \in Clients : Goes(c, "idle", NoUser)
      PROVE AccessInv'
  <2>1. AccessTypeOK'
    BY <1>8 DEF AddUser, Goes, AccessTypeOK
  <2>2. Founding'
    BY <1>8 DEF AddUser, Goes, AccessTypeOK, Founding
  <2>3. OneAtWork'
    BY <1>8 DEF AddUser, Goes, AccessTypeOK, OneAtWork, InUse
  <2> QED BY <2>1, <2>2, <2>3
<1>9. ASSUME NEW c \in Clients, NEW id \in Ids, RemoveUser(c, id) PROVE AccessInv'
  <2>1. AccessTypeOK'
    <3>1. session' \in [Clients -> users' \cup {NoUser}]
      BY <1>9 DEF RemoveUser, AccessTypeOK
    <3> QED BY <1>9, <3>1 DEF RemoveUser, Goes, AccessTypeOK
  <2>2. Founding'
    BY <1>9 DEF RemoveUser, Goes, AccessTypeOK, Founding
  <2>3. ASSUME alone PROVE users' # {} /\ InUse' = {}
    BY <1>9, <2>3 DEF RemoveUser, Removable, Goes, AccessTypeOK, OneAtWork, InUse
  <2>4. OneAtWork'
    BY <1>9, <2>3 DEF RemoveUser, OneAtWork
  <2> QED BY <2>1, <2>2, <2>4
<1>10. CASE UNCHANGED accessVars
  BY <1>10 DEF accessVars, AccessTypeOK, Founding, OneAtWork, InUse
<1>11. ASSUME NEW c \in Clients, NEW id \in Ids, AddByAccount(c, id) \/ AddByCommand(id) PROVE AccessInv'
  BY <1>8, <1>11 DEF AddByAccount, AddByCommand
<1> QED
  BY <1>1, <1>2, <1>3, <1>4, <1>5, <1>6, <1>7, <1>9, <1>10, <1>11 DEF AccessNext

\* SetupStaysShut: two setup posts cannot both make an account, and nobody is
\* offered the setup page again while people are removed one at a time
\* (account.go:117-119, 227).
THEOREM SetupIsShut == AccessSpec => []SetupStaysShut
<1>1. AccessInv => SetupStaysShut
  BY DEF AccessInv, Founding, OneAtWork, SetupStaysShut
<1> QED BY <1>1, AccessInitInv, AccessStepInv, PTL DEF AccessSpec

\* AccessTypeOK: a session is of an account that is there, whatever was removed
\* (the cascade of users to sessions), and ids are not used twice.
THEOREM AccessTypeCorrect == AccessSpec => []AccessTypeOK
<1>1. AccessInv => AccessTypeOK
  BY DEF AccessInv
<1> QED BY <1>1, AccessInitInv, AccessStepInv, PTL DEF AccessSpec

-----------------------------------------------------------------------------
(* Settings. *)

Contents(o) == [FieldsOf[o] -> Picks]
SomeContent == UNION {Contents(o) : o \in SettingsObjects}

SettingsTypeOK ==
  /\ serial \in Nat
  /\ row \in [SettingsObjects -> SomeContent \cup {NoRow}]
  /\ \A o \in SettingsObjects : row[o] \in Contents(o) \cup {NoRow}
  /\ admin \in [Admins -> [pc : {"idle", "api", "form", "save"}, id : 0..serial, object : SettingsObjects,
                           seen : SomeContent, behind : BOOLEAN, left : SUBSET Rules]]
  /\ \A a \in Admins : admin[a].seen \in Contents(admin[a].object)
  /\ said \in [SettingsObjects -> UNION {[FieldsOf[o] -> Picks \cup {Raced}] : o \in SettingsObjects}]
  /\ \A o \in SettingsObjects : said[o] \in [FieldsOf[o] -> Picks \cup {Raced}]
  /\ complete \in BOOLEAN

\* A request about the project that is there now, not one deleted since.
Live(a) == Exists /\ admin[a].id = serial

\* What makes the property inductive: rules go with their project, a rule
\* nobody created was never asked for, a save that is not behind holds what was last said, and a form has
\* made the rules it does not list any more.
SavesSound ==
  /\ ~Exists => \A o \in SettingsObjects : row[o] = NoRow
  /\ Exists => \A o \in SettingsObjects : row[o] = NoRow => said[o] = Fresh(o)
  /\ \A a \in Admins : Live(a) /\ admin[a].pc = "save" /\ ~admin[a].behind =>
       \A f \in FieldsOf[admin[a].object] : said[admin[a].object][f] \in {admin[a].seen[f], Raced}
  /\ \A a \in Admins : Live(a) /\ admin[a].pc = "form" =>
       \A t \in Rules \ admin[a].left : row[t] # NoRow

SettingsInv == SettingsTypeOK /\ SavesSound /\ OnlyRacesLose

LEMMA FreshContent == \A o \in SettingsObjects : Fresh(o) \in Contents(o) /\ Contents(o) \subseteq SomeContent
  BY SettingsAssumption DEF Fresh, Contents, SomeContent

LEMMA NoRowApart == \A o \in SettingsObjects : NoRow \notin Contents(o)
  BY SettingsAssumption DEF Contents, SettingsObjects

LEMMA SettingsInitInv == SettingsInit => SettingsInv
<1> SUFFICES ASSUME SettingsInit PROVE SettingsInv
  OBVIOUS
<1>1. Resting \in [pc : {"idle", "api", "form", "save"}, id : 0..serial, object : SettingsObjects,
                   seen : SomeContent, behind : BOOLEAN, left : SUBSET Rules]
        /\ Resting.seen \in Contents(Resting.object) /\ Resting.pc = "idle"
  BY FreshContent DEF SettingsInit, Resting, SettingsObjects
<1>2. \A o \in SettingsObjects : said[o] \in [FieldsOf[o] -> Picks \cup {Raced}]
  BY FreshContent DEF SettingsInit, Contents
<1>3. SettingsTypeOK
  <2>1. \A a \in Admins : admin[a] = Resting
    BY DEF SettingsInit
  <2>2. admin \in [Admins -> [pc : {"idle", "api", "form", "save"}, id : 0..serial, object : SettingsObjects,
                              seen : SomeContent, behind : BOOLEAN, left : SUBSET Rules]]
    BY <1>1 DEF SettingsInit
  <2>3. \A a \in Admins : admin[a].seen \in Contents(admin[a].object)
    BY <1>1, <2>1
  <2>4. /\ row \in [SettingsObjects -> SomeContent \cup {NoRow}]
        /\ \A o \in SettingsObjects : row[o] \in Contents(o) \cup {NoRow}
    BY DEF SettingsInit
  <2>5. said \in [SettingsObjects -> UNION {[FieldsOf[o] -> Picks \cup {Raced}] : o \in SettingsObjects}]
    BY <1>2 DEF SettingsInit
  <2> QED BY <1>2, <2>2, <2>3, <2>4, <2>5 DEF SettingsInit, SettingsTypeOK
<1>4. ~Exists
  BY DEF SettingsInit, Exists, SettingsObjects
<1>5. SavesSound
  BY <1>1, <1>4 DEF SettingsInit, SavesSound, Live, Exists
<1>6. OnlyRacesLose
  BY <1>4 DEF SettingsInit, OnlyRacesLose, Exists
<1> QED BY <1>3, <1>5, <1>6 DEF SettingsInv

\* A request of the model's record type, at rest.
LEMMA RestingRequest ==
  ASSUME SettingsTypeOK
  PROVE  /\ Resting \in [pc : {"idle", "api", "form", "save"}, id : 0..serial, object : SettingsObjects,
                         seen : SomeContent, behind : BOOLEAN, left : SUBSET Rules]
         /\ Resting.seen \in Contents(Resting.object) /\ Resting.pc = "idle"
  BY FreshContent DEF SettingsTypeOK, Resting, SettingsObjects

\* A request, of the types its fields have.
Requests == [pc : {"idle", "api", "form", "save"}, id : 0..serial, object : SettingsObjects,
             seen : SomeContent, behind : BOOLEAN, left : SUBSET Rules]

\* Telling the requests of a write changes their "behind" and nothing else.
LEMMA BehindOnly ==
  ASSUME SettingsTypeOK, NEW a \in Admins, NEW o \in SettingsObjects
  PROVE  /\ Behind(a, o) \in [Admins -> Requests]
         /\ \A b \in Admins :
              /\ Behind(a, o)[b].pc = admin[b].pc /\ Behind(a, o)[b].id = admin[b].id
              /\ Behind(a, o)[b].object = admin[b].object /\ Behind(a, o)[b].seen = admin[b].seen
              /\ Behind(a, o)[b].left = admin[b].left
              /\ ~Behind(a, o)[b].behind => ~admin[b].behind /\ ~(admin[b].pc = "save" /\ admin[b].object = o)
<1> SUFFICES ASSUME NEW b \in Admins
             PROVE  /\ Behind(a, o)[b] \in Requests
                    /\ Behind(a, o)[b].pc = admin[b].pc /\ Behind(a, o)[b].id = admin[b].id
                    /\ Behind(a, o)[b].object = admin[b].object /\ Behind(a, o)[b].seen = admin[b].seen
                    /\ Behind(a, o)[b].left = admin[b].left
                    /\ ~Behind(a, o)[b].behind => ~admin[b].behind /\ ~(admin[b].pc = "save" /\ admin[b].object = o)
  BY DEF Behind
<1>1. admin[b] \in Requests
  BY DEF SettingsTypeOK, Requests
<1>2. Behind(a, o)[b] = IF admin[b].pc = "save" /\ admin[b].object = o
                        THEN [admin[b] EXCEPT !.behind = TRUE] ELSE admin[b]
  BY DEF Behind
<1>3. CASE admin[b].pc = "save" /\ admin[b].object = o
  <2> DEFINE q == admin[b]
             r == [q EXCEPT !.behind = TRUE]
  <2>1. r \in Requests /\ r.pc = q.pc /\ r.id = q.id /\ r.object = q.object /\ r.seen = q.seen /\ r.left = q.left /\ r.behind
    BY <1>1 DEF Requests
  <2> QED BY <1>2, <1>3, <2>1
<1>4. CASE ~(admin[b].pc = "save" /\ admin[b].object = o)
  BY <1>1, <1>2, <1>4
<1> QED BY <1>3, <1>4

LEMMA CreateStep ==
  ASSUME SettingsInv, NEW a \in Admins, NEW form \in {"api", "form"}, CreateProject(a, form)
  PROVE  SettingsInv'
<1> USE FreshContent, NoRowApart, RestingRequest DEF SettingsInv
<1> DEFINE q == [Resting EXCEPT !.pc = form, !.id = serial + 1, !.left = Rules]
<1>1. /\ serial' = serial + 1 /\ complete' = FALSE
      /\ row' = [row EXCEPT !["project"] = Fresh("project")]
      /\ said' = [o \in SettingsObjects |-> Fresh(o)]
      /\ admin' = [admin EXCEPT ![a] = q]
      /\ row["project"] = NoRow
  BY DEF CreateProject, Exists
<1>2. q \in [pc : {"api", "form"}, id : {serial + 1}, object : SettingsObjects,
             seen : SomeContent, behind : BOOLEAN, left : {Rules}]
        /\ q.seen \in Contents(q.object)
  BY DEF Resting, SettingsTypeOK
<1>3. SettingsTypeOK'
  <2>1. serial' \in Nat /\ 0..serial \subseteq 0..serial' /\ serial + 1 \in 0..serial'
    BY <1>1 DEF SettingsTypeOK
  <2>2. admin' \in [Admins -> [pc : {"idle", "api", "form", "save"}, id : 0..serial', object : SettingsObjects,
                               seen : SomeContent, behind : BOOLEAN, left : SUBSET Rules]]
    BY <1>1, <1>2, <2>1 DEF SettingsTypeOK
  <2>3. \A b \in Admins : admin'[b].seen \in Contents(admin'[b].object)
    BY <1>1, <1>2 DEF SettingsTypeOK
  <2>4. /\ row' \in [SettingsObjects -> SomeContent \cup {NoRow}]
        /\ \A o \in SettingsObjects : row'[o] \in Contents(o) \cup {NoRow}
    BY <1>1 DEF SettingsTypeOK, SettingsObjects
  <2>5. \A o \in SettingsObjects : Fresh(o) \in [FieldsOf[o] -> Picks \cup {Raced}]
    BY DEF Contents
  <2>6. /\ said' \in [SettingsObjects -> UNION {[FieldsOf[o] -> Picks \cup {Raced}] : o \in SettingsObjects}]
        /\ \A o \in SettingsObjects : said'[o] \in [FieldsOf[o] -> Picks \cup {Raced}]
    BY <1>1, <2>5
  <2> QED BY <1>1, <2>1, <2>2, <2>3, <2>4, <2>6 DEF SettingsTypeOK
<1>4. \A b \in Admins : admin'[b].id = serial' => admin'[b] = q
  BY <1>1 DEF SettingsTypeOK
<1>5. SavesSound'
  <2>1. \A o \in SettingsObjects : said'[o] = Fresh(o)
    BY <1>1
  <2>2. Exists'
    BY <1>1 DEF Exists, SettingsTypeOK, SettingsObjects
  <2> QED BY <1>2, <1>4, <2>1, <2>2 DEF SavesSound, Live
<1>6. OnlyRacesLose'
  <2>1. \A o \in SettingsObjects : row'[o] # NoRow => row'[o] = Fresh(o)
    BY <1>1 DEF SettingsTypeOK, SavesSound, Exists
  <2> QED BY <1>1, <2>1 DEF OnlyRacesLose
<1> QED BY <1>3, <1>5, <1>6

\* A request comes to its end.
LEMMA EndStep ==
  ASSUME SettingsInv, NEW a \in Admins, admin' = Ends(a), UNCHANGED <<serial, row, said, complete>>
  PROVE  SettingsInv'
<1> USE RestingRequest DEF SettingsInv
<1>2. \A b \in Admins : admin'[b] = Resting \/ admin'[b] = admin[b]
  BY DEF SettingsTypeOK, Ends
<1>1. SettingsTypeOK'
  <2>1. admin' \in [Admins -> [pc : {"idle", "api", "form", "save"}, id : 0..serial, object : SettingsObjects,
                               seen : SomeContent, behind : BOOLEAN, left : SUBSET Rules]]
    BY DEF SettingsTypeOK, Ends
  <2>2. \A b \in Admins : admin'[b].seen \in Contents(admin'[b].object)
    BY <1>2 DEF SettingsTypeOK
  <2> QED BY <2>1, <2>2 DEF SettingsTypeOK
<1>3. SavesSound'
  BY <1>2 DEF SavesSound, Live, Exists
<1>4. OnlyRacesLose'
  BY DEF OnlyRacesLose, Exists
<1> QED BY <1>1, <1>3, <1>4

\* The missing rules are made, and complete says so or stays.
LEMMA MissingStep ==
  ASSUME SettingsInv, Exists, row' = MissingRules, UNCHANGED <<serial, said>>,
         complete' \in BOOLEAN, admin' = admin \/ \E a \in Admins : admin' = Ends(a)
  PROVE  SettingsInv'
<1> USE FreshContent, NoRowApart, RestingRequest DEF SettingsInv
<1>0. /\ \A b \in Admins : admin'[b] = Resting \/ admin'[b] = admin[b]
      /\ admin' \in [Admins -> [pc : {"idle", "api", "form", "save"}, id : 0..serial, object : SettingsObjects,
                                seen : SomeContent, behind : BOOLEAN, left : SUBSET Rules]]
  <2>1. \A b \in Admins : admin'[b] = Resting \/ admin'[b] = admin[b]
    BY DEF SettingsTypeOK, Ends
  <2>2. DOMAIN admin' = Admins /\ admin' = [b \in Admins |-> admin'[b]]
    BY DEF SettingsTypeOK, Ends
  <2>3. \A b \in Admins : admin[b] \in [pc : {"idle", "api", "form", "save"}, id : 0..serial, object : SettingsObjects,
                                       seen : SomeContent, behind : BOOLEAN, left : SUBSET Rules]
    BY DEF SettingsTypeOK
  <2> QED BY <2>1, <2>2, <2>3
<1>1. \A o \in SettingsObjects :
        /\ row'[o] = IF o \in Rules /\ row[o] = NoRow THEN Fresh(o) ELSE row[o]
        /\ o \in Rules => row'[o] # NoRow
  BY DEF MissingRules
<1>2. row["project"] # NoRow /\ row'["project"] = row["project"] /\ Exists'
  BY <1>1, SettingsAssumption DEF Exists, SettingsObjects
<1>3. SettingsTypeOK'
  <2>1. row' \in [SettingsObjects -> SomeContent \cup {NoRow}]
    BY <1>1 DEF MissingRules, SettingsTypeOK
  <2>2. \A o \in SettingsObjects : row[o] \in Contents(o) \cup {NoRow}
    BY DEF SettingsTypeOK
  <2>3. \A o \in SettingsObjects : row'[o] \in Contents(o) \cup {NoRow}
    BY <1>1, <2>2
  <2>4. /\ serial' \in Nat /\ admin' \in [Admins -> [pc : {"idle", "api", "form", "save"}, id : 0..serial',
                object : SettingsObjects, seen : SomeContent, behind : BOOLEAN, left : SUBSET Rules]]
        /\ \A b \in Admins : admin'[b].seen \in Contents(admin'[b].object)
    BY <1>0 DEF SettingsTypeOK
  <2> QED BY <2>1, <2>3, <2>4 DEF SettingsTypeOK
<1>4. SavesSound'
  BY <1>0, <1>1, <1>2 DEF SavesSound, Live, SettingsObjects
<1>5. OnlyRacesLose'
  <2>1. ASSUME NEW o \in SettingsObjects, row'[o] # NoRow, NEW f \in FieldsOf[o]
        PROVE  said'[o][f] \in {row'[o][f], Raced}
    <3>1. CASE row[o] = NoRow
      BY <1>1, <2>1, <3>1 DEF SavesSound
    <3>2. CASE row[o] # NoRow
      BY <1>1, <2>1, <3>2 DEF OnlyRacesLose
    <3> QED BY <3>1, <3>2
  <2> QED BY <1>1, <2>1 DEF OnlyRacesLose, SettingsObjects
<1> QED BY <1>3, <1>4, <1>5

LEMMA ReadStep ==
  ASSUME SettingsInv, NEW a \in Admins, NEW o \in SettingsObjects, ReadSettings(a, o)
  PROVE  SettingsInv'
<1> USE FreshContent, NoRowApart DEF SettingsInv
<1> DEFINE q == [Resting EXCEPT !.pc = "save", !.id = serial, !.object = o, !.seen = Seed(o)]
<1>1. admin' = [admin EXCEPT ![a] = q] /\ UNCHANGED <<serial, row, said, complete>> /\ Exists
  BY DEF ReadSettings
<1>2. Seed(o) \in Contents(o)
  BY DEF Seed, SettingsTypeOK
<1>3. /\ q.pc = "save" /\ q.id = serial /\ q.object = o /\ q.seen = Seed(o)
      /\ q \in [pc : {"save"}, id : {serial}, object : SettingsObjects, seen : SomeContent,
               behind : BOOLEAN, left : SUBSET Rules]
  BY <1>2 DEF Resting
<1>4. SettingsTypeOK'
  <2>1. serial \in 0..serial
    BY DEF SettingsTypeOK
  <2> QED BY <1>1, <1>2, <1>3, <2>1 DEF SettingsTypeOK
<1>5. \A f \in FieldsOf[o] : said[o][f] \in {Seed(o)[f], Raced}
  BY <1>1 DEF Seed, SavesSound, OnlyRacesLose
<1>6. \A b \in Admins : admin'[b] = IF b = a THEN q ELSE admin[b]
  BY <1>1 DEF SettingsTypeOK
<1>7. SavesSound'
  BY <1>1, <1>3, <1>5, <1>6 DEF SavesSound, Live, Exists
<1>8. OnlyRacesLose'
  BY <1>1 DEF OnlyRacesLose, Exists
<1> QED BY <1>4, <1>7, <1>8

LEMMA DeleteStep == ASSUME SettingsInv, DeleteProject PROVE SettingsInv'
<1> USE DEF SettingsInv
<1>1. /\ row' = [o \in SettingsObjects |-> NoRow] /\ complete' = FALSE
      /\ UNCHANGED <<serial, admin, said>>
  BY DEF DeleteProject
<1>2. ~Exists'
  BY <1>1 DEF Exists, SettingsObjects
<1>3. SettingsTypeOK'
  BY <1>1 DEF SettingsTypeOK
<1> QED BY <1>1, <1>2, <1>3 DEF SavesSound, Live, OnlyRacesLose

LEMMA UpsertStep ==
  ASSUME SettingsInv, NEW a \in Admins, NEW t \in Rules, UpsertDefault(a, t)
  PROVE  SettingsInv'
<1> USE FreshContent, NoRowApart, RestingRequest DEF SettingsInv
<1> DEFINE left == admin[a].left \ {t}
           q    == IF left = {} THEN Resting ELSE [admin[a] EXCEPT !.left = left]
<1>1. /\ row' = [row EXCEPT ![t] = Fresh(t)]
      /\ said' = [said EXCEPT ![t] = [f \in FieldsOf[t] |-> IF @[f] = 0 THEN 0 ELSE Raced]]
      /\ complete' = (complete \/ left = {})
      /\ admin' = [Behind(a, t) EXCEPT ![a] = q]
      /\ serial' = serial /\ Live(a) /\ admin[a].pc = "form"
  BY DEF UpsertDefault, Live
<1>2. t \in SettingsObjects /\ t # "project"
  BY SettingsAssumption DEF SettingsObjects
<1>3. Exists' /\ Exists
  BY <1>1, <1>2 DEF Exists, Live, SettingsTypeOK
<1>4. /\ admin'[a] = q /\ admin' = [b \in Admins |-> admin'[b]]
      /\ \A b \in Admins \ {a} :
           /\ admin'[b] \in Requests
           /\ admin'[b].pc = admin[b].pc /\ admin'[b].id = admin[b].id
           /\ admin'[b].object = admin[b].object /\ admin'[b].seen = admin[b].seen
           /\ admin'[b].left = admin[b].left
           /\ ~admin'[b].behind => ~admin[b].behind /\ ~(admin[b].pc = "save" /\ admin[b].object = t)
  <2>1. /\ admin'[a] = q /\ admin' = [b \in Admins |-> admin'[b]]
        /\ \A b \in Admins \ {a} : admin'[b] = Behind(a, t)[b]
    <3>1. Behind(a, t) \in [Admins -> Requests]
      BY <1>2, BehindOnly
    <3> HIDE DEF q
    <3> QED BY <1>1, <3>1
  <2> QED BY <1>2, <2>1, BehindOnly
<1>5. /\ q \in [pc : {"idle", "form"}, id : 0..serial, object : SettingsObjects,
                seen : SomeContent, behind : BOOLEAN, left : SUBSET Rules]
      /\ q.seen \in Contents(q.object)
      /\ q.pc = "form" => q.left = left
  BY <1>1 DEF SettingsTypeOK, Resting
<1>6. \A f \in FieldsOf[t] : said'[t][f] = 0 \/ said'[t][f] = Raced
  BY <1>1, <1>2 DEF SettingsTypeOK
<1>7. /\ \A o \in SettingsObjects \ {t} : said'[o] = said[o] /\ row'[o] = row[o]
      /\ row'[t] = Fresh(t) /\ row'[t] # NoRow
  BY <1>1, <1>2 DEF SettingsTypeOK
<1>8. SettingsTypeOK'
  <2>1. admin' \in [Admins -> [pc : {"idle", "api", "form", "save"}, id : 0..serial, object : SettingsObjects,
                               seen : SomeContent, behind : BOOLEAN, left : SUBSET Rules]]
    <3>1. \A b \in Admins : admin'[b] \in [pc : {"idle", "api", "form", "save"}, id : 0..serial,
             object : SettingsObjects, seen : SomeContent, behind : BOOLEAN, left : SUBSET Rules]
      <4> HIDE DEF q
      <4> QED BY <1>4, <1>5 DEF Requests
    <3> QED BY <1>4, <3>1
  <2>2. \A b \in Admins : admin'[b].seen \in Contents(admin'[b].object)
    BY <1>4, <1>5 DEF SettingsTypeOK
  <2>3. said'[t] \in [FieldsOf[t] -> Picks \cup {Raced}]
    BY <1>1, <1>2, SettingsAssumption DEF SettingsTypeOK
  <2>4. \A o \in SettingsObjects : said'[o] \in [FieldsOf[o] -> Picks \cup {Raced}]
    BY <1>7, <2>3 DEF SettingsTypeOK
  <2>5. said' \in [SettingsObjects -> UNION {[FieldsOf[o] -> Picks \cup {Raced}] : o \in SettingsObjects}]
    <3>1. said' = [o \in SettingsObjects |-> said'[o]]
      BY <1>1 DEF SettingsTypeOK
    <3> QED BY <2>4, <3>1
  <2>6. \A o \in SettingsObjects : row'[o] \in Contents(o) \cup {NoRow}
    BY <1>7 DEF SettingsTypeOK
  <2>7. row' \in [SettingsObjects -> SomeContent \cup {NoRow}]
    BY <1>1, <1>2 DEF SettingsTypeOK
  <2> QED BY <1>1, <2>1, <2>2, <2>4, <2>5, <2>6, <2>7 DEF SettingsTypeOK
<1>9. SavesSound'
  <2>1. \A o \in SettingsObjects : row'[o] = NoRow => said'[o] = Fresh(o)
    BY <1>3, <1>7 DEF SavesSound
  <2>2. ASSUME NEW b \in Admins, Live(b)', admin'[b].pc = "save", ~admin'[b].behind
        PROVE  \A f \in FieldsOf[admin'[b].object] : said'[admin'[b].object][f] \in {admin'[b].seen[f], Raced}
    <3>1. b # a
      BY <1>4, <1>5, <2>2
    <3>2. /\ Live(b) /\ admin[b].pc = "save" /\ ~admin[b].behind /\ admin[b].object # t
          /\ admin'[b].object = admin[b].object /\ admin'[b].seen = admin[b].seen
      BY <1>1, <1>3, <1>4, <2>2, <3>1 DEF Live
    <3>3. said'[admin[b].object] = said[admin[b].object]
      BY <1>7, <3>2 DEF SettingsTypeOK
    <3> QED BY <3>2, <3>3 DEF SavesSound
  <2>3. ASSUME NEW b \in Admins, Live(b)', admin'[b].pc = "form"
        PROVE  \A u \in Rules \ admin'[b].left : row'[u] # NoRow
    <3>1. Live(b) /\ admin[b].pc = "form" /\ admin[b].left \subseteq admin'[b].left \cup {t}
      BY <1>1, <1>3, <1>4, <1>5, <2>3 DEF Live
    <3> QED BY <1>7, <3>1 DEF SavesSound, SettingsObjects
  <2> QED BY <1>3, <2>1, <2>2, <2>3 DEF SavesSound
<1>10. OnlyRacesLose'
  <2>1. ASSUME NEW o \in SettingsObjects, row'[o] # NoRow, NEW f \in FieldsOf[o]
        PROVE  said'[o][f] \in {row'[o][f], Raced}
    <3>1. CASE o = t
      BY <1>6, <1>7, <3>1 DEF Fresh
    <3>2. CASE o # t
      BY <1>3, <1>7, <2>1, <3>2 DEF OnlyRacesLose
    <3> QED BY <3>1, <3>2
  <2>2. ASSUME complete' PROVE \A u \in Rules : row'[u] # NoRow
    <3>1. CASE complete
      BY <1>3, <1>7, <3>1 DEF OnlyRacesLose, SettingsObjects
    <3>2. CASE left = {}
      BY <1>1, <1>7, <3>2 DEF SavesSound, SettingsObjects
    <3> QED BY <1>1, <2>2, <3>1, <3>2
  <2> QED BY <2>1, <2>2 DEF OnlyRacesLose
<1> QED BY <1>8, <1>9, <1>10

LEMMA SaveStep ==
  ASSUME SettingsInv, NEW a \in Admins, NEW asked \in SUBSET FieldsOf[admin[a].object], NEW v \in Picks,
         SaveSettings(a, asked, v)
  PROVE  SettingsInv'
<1> USE FreshContent, NoRowApart, RestingRequest DEF SettingsInv
<1> DEFINE q == admin[a]
           t == q.object
<1>1. /\ row' = [row EXCEPT ![t] = [f \in FieldsOf[t] |-> IF f \in asked THEN v ELSE q.seen[f]]]
      /\ said' = [said EXCEPT ![t] = [f \in FieldsOf[t] |->
                    IF f \in asked THEN v ELSE IF q.behind THEN Raced ELSE @[f]]]
      /\ admin' = [Behind(a, t) EXCEPT ![a] = Resting]
      /\ serial' = serial /\ complete' = complete /\ Live(a) /\ q.pc = "save"
  BY DEF SaveSettings, Live
<1>2. t \in SettingsObjects /\ q.seen \in Contents(t)
  BY DEF SettingsTypeOK
<1>3. /\ admin'[a] = Resting /\ admin' = [b \in Admins |-> admin'[b]]
      /\ \A b \in Admins \ {a} :
           /\ admin'[b] \in Requests
           /\ admin'[b].pc = admin[b].pc /\ admin'[b].id = admin[b].id
           /\ admin'[b].object = admin[b].object /\ admin'[b].seen = admin[b].seen
           /\ admin'[b].left = admin[b].left
           /\ ~admin'[b].behind => ~admin[b].behind /\ ~(admin[b].pc = "save" /\ admin[b].object = t)
  <2>1. /\ admin'[a] = Resting /\ admin' = [b \in Admins |-> admin'[b]]
        /\ \A b \in Admins \ {a} : admin'[b] = Behind(a, t)[b]
    <3>1. Behind(a, t) \in [Admins -> Requests]
      BY <1>2, BehindOnly
    <3> QED BY <1>1, <3>1
  <2> QED BY <1>2, <2>1, BehindOnly
<1>4. /\ row'[t] \in Contents(t) /\ row'[t] # NoRow
      /\ said'[t] \in [FieldsOf[t] -> Picks \cup {Raced}]
      /\ \A o \in SettingsObjects \ {t} : said'[o] = said[o] /\ row'[o] = row[o]
  <2>1. row'[t] = [f \in FieldsOf[t] |-> IF f \in asked THEN v ELSE q.seen[f]]
    BY <1>1, <1>2 DEF SettingsTypeOK
  <2>2. row'[t] \in Contents(t)
    BY <1>2, <2>1 DEF Contents
  <2>3. said'[t] = [f \in FieldsOf[t] |-> IF f \in asked THEN v ELSE IF q.behind THEN Raced ELSE said[t][f]]
    BY <1>1, <1>2 DEF SettingsTypeOK
  <2>4. said'[t] \in [FieldsOf[t] -> Picks \cup {Raced}]
    BY <1>2, <2>3 DEF SettingsTypeOK
  <2>5. \A o \in SettingsObjects \ {t} : said'[o] = said[o] /\ row'[o] = row[o]
    BY <1>1, <1>2 DEF SettingsTypeOK
  <2> QED BY <1>2, <2>2, <2>4, <2>5
<1>5. \A f \in FieldsOf[t] : said'[t][f] \in {row'[t][f], Raced}
  <2>1. \A f \in FieldsOf[t] : row'[t][f] = IF f \in asked THEN v ELSE q.seen[f]
    BY <1>1, <1>2 DEF SettingsTypeOK
  <2>2. \A f \in FieldsOf[t] : said'[t][f] = IF f \in asked THEN v ELSE IF q.behind THEN Raced ELSE said[t][f]
    BY <1>1, <1>2 DEF SettingsTypeOK
  <2>3. ~q.behind => \A f \in FieldsOf[t] : said[t][f] \in {q.seen[f], Raced}
    BY <1>1 DEF SavesSound
  <2> QED BY <2>1, <2>2, <2>3
<1>6. Exists' /\ Exists
  BY <1>1, <1>4 DEF Exists, Live, SettingsObjects
<1>7. SettingsTypeOK'
  <2>1. admin' \in [Admins -> [pc : {"idle", "api", "form", "save"}, id : 0..serial, object : SettingsObjects,
                               seen : SomeContent, behind : BOOLEAN, left : SUBSET Rules]]
    BY <1>3 DEF Requests
  <2>2. \A b \in Admins : admin'[b].seen \in Contents(admin'[b].object)
    BY <1>3 DEF SettingsTypeOK
  <2>3. \A o \in SettingsObjects : said'[o] \in [FieldsOf[o] -> Picks \cup {Raced}]
    BY <1>4 DEF SettingsTypeOK
  <2>4. said' \in [SettingsObjects -> UNION {[FieldsOf[o] -> Picks \cup {Raced}] : o \in SettingsObjects}]
    <3>1. said' = [o \in SettingsObjects |-> said'[o]]
      BY <1>1 DEF SettingsTypeOK
    <3> QED BY <2>3, <3>1
  <2>5. \A o \in SettingsObjects : row'[o] \in Contents(o) \cup {NoRow}
    BY <1>4 DEF SettingsTypeOK
  <2>6. row' \in [SettingsObjects -> SomeContent \cup {NoRow}]
    <3>1. row' = [o \in SettingsObjects |-> row'[o]]
      BY <1>1 DEF SettingsTypeOK
    <3> QED BY <2>5, <3>1
  <2> QED BY <1>1, <2>1, <2>2, <2>3, <2>4, <2>5, <2>6 DEF SettingsTypeOK
<1>8. SavesSound'
  <2>1. \A o \in SettingsObjects : row'[o] = NoRow => said'[o] = Fresh(o)
    BY <1>4, <1>6 DEF SavesSound
  <2>2. ASSUME NEW b \in Admins, Live(b)', admin'[b].pc = "save", ~admin'[b].behind
        PROVE  \A f \in FieldsOf[admin'[b].object] : said'[admin'[b].object][f] \in {admin'[b].seen[f], Raced}
    <3>1. b # a
      BY <1>3, <2>2
    <3>2. /\ Live(b) /\ admin[b].pc = "save" /\ ~admin[b].behind /\ admin[b].object # t
          /\ admin'[b].object = admin[b].object /\ admin'[b].seen = admin[b].seen
      BY <1>1, <1>3, <1>6, <2>2, <3>1 DEF Live
    <3>3. said'[admin[b].object] = said[admin[b].object]
      BY <1>4, <3>2 DEF SettingsTypeOK
    <3> QED BY <3>2, <3>3 DEF SavesSound
  <2>3. ASSUME NEW b \in Admins, Live(b)', admin'[b].pc = "form"
        PROVE  \A u \in Rules \ admin'[b].left : row'[u] # NoRow
    <3>1. Live(b) /\ admin[b].pc = "form" /\ admin'[b].left = admin[b].left
      BY <1>1, <1>3, <1>6, <2>3 DEF Live
    <3> QED BY <1>4, <3>1 DEF SavesSound, SettingsObjects
  <2> QED BY <1>6, <2>1, <2>2, <2>3 DEF SavesSound
<1>9. OnlyRacesLose'
  <2>1. ASSUME NEW o \in SettingsObjects, row'[o] # NoRow, NEW f \in FieldsOf[o]
        PROVE  said'[o][f] \in {row'[o][f], Raced}
    <3>1. CASE o = t
      BY <1>5, <3>1
    <3>2. CASE o # t
      BY <1>4, <1>6, <2>1, <3>2 DEF OnlyRacesLose
    <3> QED BY <3>1, <3>2
  <2>2. complete' => \A u \in Rules : row'[u] # NoRow
    BY <1>1, <1>4, <1>6 DEF OnlyRacesLose, SettingsObjects
  <2> QED BY <2>1, <2>2 DEF OnlyRacesLose
<1> QED BY <1>7, <1>8, <1>9

LEMMA SettingsStepInv == SettingsInv /\ [SettingsNext]_settingsVars => SettingsInv'
<1> SUFFICES ASSUME SettingsInv, [SettingsNext]_settingsVars PROVE SettingsInv'
  OBVIOUS
<1>1. CASE EnsureForAlert
  BY <1>1, MissingStep DEF EnsureForAlert, SettingsInv, SettingsTypeOK
<1>2. CASE DeleteProject
  BY <1>2, DeleteStep
<1>3. ASSUME NEW a \in Admins, NEW form \in {"api", "form"}, CreateProject(a, form) PROVE SettingsInv'
  BY <1>3, CreateStep
<1>4. ASSUME NEW a \in Admins, EnsureRules(a) PROVE SettingsInv'
  BY <1>4, MissingStep DEF EnsureRules
<1>5. ASSUME NEW a \in Admins, FailRequest(a) PROVE SettingsInv'
  BY <1>5, EndStep DEF FailRequest
<1>6. ASSUME NEW a \in Admins, NEW t \in Rules, UpsertDefault(a, t) PROVE SettingsInv'
  BY <1>6, UpsertStep
<1>7. ASSUME NEW a \in Admins, NEW o \in SettingsObjects, ReadSettings(a, o) PROVE SettingsInv'
  BY <1>7, ReadStep
<1>8. ASSUME NEW a \in Admins, NEW asked \in SUBSET FieldsOf[admin[a].object], NEW v \in Picks,
             SaveSettings(a, asked, v)
      PROVE  SettingsInv'
  BY <1>8, SaveStep
<1>9. CASE UNCHANGED settingsVars
  BY <1>9 DEF settingsVars, SettingsInv, SettingsTypeOK, SavesSound, OnlyRacesLose, Live, Exists
<1> QED BY <1>1, <1>2, <1>3, <1>4, <1>5, <1>6, <1>7, <1>8, <1>9 DEF SettingsNext

\* A field keeps the value last asked for unless two saves of its object
\* crossed, and a creation that was answered left every rule: any number of
\* admins, rules, fields and values, the project deleted and created again.
THEOREM SettingsLoseOnlyRaces == SettingsSpec => []OnlyRacesLose
<1>1. SettingsInv => OnlyRacesLose
  BY DEF SettingsInv
<1> QED BY <1>1, SettingsInitInv, SettingsStepInv, PTL DEF SettingsSpec

-----------------------------------------------------------------------------
(* Pages. *)

ViewFields == {"pc", "kind", "of", "from", "to", "latest", "oldest", "steady"}

PagesTypes ==
  /\ issueRow \in [Issues -> RowContent \cup {NoRange}]
  /\ shot \in [Shots -> {"coming", "stored", "gone"}]
  /\ DOMAIN filed = Shots /\ \A e \in Shots : filed[e] \in Issues
  /\ moving \in [Shots -> {"idle", "read", "done"}]
  /\ horizon \in Nat
  /\ DOMAIN view = ViewFields
  /\ view.pc \in {"none", "row", "latest", "done"} /\ view.kind \in {"api", "viewer"}
  /\ view.from \in Int /\ view.to \in Int /\ view.steady \in SUBSET Shots

\* An event is under its first issue until its symbolication commits, was
\* stored before it began, and happened within the retention window.
ShotsKnown ==
  \A e \in Shots :
    /\ moving[e] # "done" => filed[e] = RawAs[e]
    /\ moving[e] = "read" => shot[e] # "coming"
    /\ shot[e] = "stored" => At[e] >= horizon
    /\ shot[e] = "coming" => moving[e] = "idle"

\* The events an issue still counts: those under it and those a symbolication
\* is about to take off it.
Counted(f) == {e \in Shots : filed[e] = f /\ (shot[e] = "stored" \/ (shot[e] = "gone" /\ moving[e] = "read"))}

\* An issue's row covers its events in time and in number.
RowsCover ==
  \A f \in Issues :
    IF issueRow[f] = NoRange THEN Counted(f) = {}
    ELSE /\ issueRow[f].count >= Cardinality(Counted(f))
         /\ \A e \in StoredIn(f) : issueRow[f].from <= At[e] /\ At[e] <= issueRow[f].to

\* What has been there all along is in the range the page keeps to, and no
\* newer than the event it shows.
ViewKnown ==
  /\ view.pc \in {"row", "latest"} =>
       \A e \in view.steady : e \in StoredIn(view.of) /\ view.from <= At[e] /\ At[e] <= view.to
  /\ view.pc \in {"latest", "done"} =>
       \A e \in view.steady : view.latest \in Shots /\ At[e] <= At[view.latest]
  /\ view.pc = "latest" => view.kind = "viewer"
  /\ view.pc = "done" => \A e \in view.steady :
       IF view.oldest = NoShot THEN view.kind = "viewer" ELSE At[view.oldest] <= At[e]

PagesInv == PagesTypes /\ ShotsKnown /\ RowsCover /\ ViewKnown

-----------------------------------------------------------------------------
(* Earliest and latest. *)

\* Finitely many events, one of them at least, have an earliest and a latest:
\* no smallest set of them is without.
LEMMA EarliestAndLatest ==
  ASSUME NEW es \in SUBSET Shots, es # {}
  PROVE  /\ \E e \in es : \A x \in es : At[e] <= At[x]
         /\ \E e \in es : \A x \in es : At[x] <= At[e]
<1> USE PagesAssumption
<1> DEFINE Both(T) == /\ \E e \in T : \A x \in T : At[e] <= At[x]
                      /\ \E e \in T : \A x \in T : At[x] <= At[e]
           Bad == {T \in SUBSET es : T # {} /\ ~Both(T)}
           R   == StrictSubsetOrdering(es)
<1>1. IsFiniteSet(es)
  BY FS_Subset
<1>2. IsWellFoundedOn(R, SUBSET es)
  <2>1. IsWellFoundedOn(StrictSubsetOrdering(es), FiniteSubsetsOf(es))
    BY FS_StrictSubsetOrderingWellFounded
  <2>2. FiniteSubsetsOf(es) = SUBSET es
    BY <1>1, FS_FiniteSubsetsOfFinite
  <2> QED BY <2>1, <2>2
<1>3. SUFFICES ASSUME Bad # {} PROVE FALSE
  OBVIOUS
<1>4. PICK T \in Bad : \A U \in Bad : ~ (<<U, T>> \in R)
  <2>1. Bad \subseteq SUBSET es
    OBVIOUS
  <2> HIDE DEF Bad, R
  <2> QED BY <1>2, <1>3, <2>1, WFMin
<1>5. PICK z \in T : TRUE
  OBVIOUS
<1> DEFINE U == T \ {z}
<1>6. CASE U = {}
  <2>1. T = {z} /\ At[z] \in Int
    BY <1>6
  <2> QED BY <2>1
<1>7. CASE U # {}
  <2>1. U \in SUBSET es /\ U \subseteq T /\ U # T /\ T \in SUBSET es
    OBVIOUS
  <2>2. <<U, T>> \in R
    BY <2>1 DEF StrictSubsetOrdering
  <2>3. Both(U)
    BY <1>4, <1>7, <2>1, <2>2
  <2>4. PICK a \in U : \A x \in U : At[a] <= At[x]
    BY <2>3
  <2>5. PICK b \in U : \A x \in U : At[x] <= At[b]
    BY <2>3
  <2>6. At[a] \in Int /\ At[b] \in Int /\ At[z] \in Int /\ \A x \in T : At[x] \in Int /\ (x \in U \/ x = z)
    OBVIOUS
  <2>7. \E e \in T : \A x \in T : At[e] <= At[x]
    <3>1. CASE At[z] <= At[a]
      BY <2>4, <2>6, <3>1
    <3>2. CASE At[a] <= At[z]
      BY <2>4, <2>6, <3>2
    <3> QED BY <2>6, <3>1, <3>2
  <2>8. \E e \in T : \A x \in T : At[x] <= At[e]
    <3>1. CASE At[b] <= At[z]
      BY <2>5, <2>6, <3>1
    <3>2. CASE At[z] <= At[b]
      BY <2>5, <2>6, <3>2
    <3> QED BY <2>6, <3>1, <3>2
  <2> QED BY <2>7, <2>8
<1> QED BY <1>6, <1>7

\* Min and Max of their times, with another time or without.
LEMMA TimesBounded ==
  ASSUME NEW es \in SUBSET Shots, es # {}, NEW a \in Int
  PROVE  LET ts == {At[e] : e \in es} IN
         /\ Min(ts) \in Int /\ \A e \in es : Min(ts) <= At[e]
         /\ Max(ts) \in Int /\ \A e \in es : At[e] <= Max(ts)
         /\ Min(ts \cup {a}) \in Int /\ Min(ts \cup {a}) <= a /\ \A e \in es : Min(ts \cup {a}) <= At[e]
         /\ Max(ts \cup {a}) \in Int /\ a <= Max(ts \cup {a}) /\ \A e \in es : At[e] <= Max(ts \cup {a})
<1> USE PagesAssumption
<1> DEFINE ts == {At[e] : e \in es}
<1>1. PICK l \in es : \A x \in es : At[l] <= At[x]
  BY EarliestAndLatest
<1>2. PICK h \in es : \A x \in es : At[x] <= At[h]
  BY EarliestAndLatest
<1>3. ts \subseteq Int /\ At[l] \in ts /\ At[h] \in ts /\ \A t \in ts : At[l] <= t /\ t <= At[h]
  BY <1>1, <1>2
<1>4. \A e \in es : At[e] \in ts
  OBVIOUS
<1> HIDE DEF ts
<1>5. ASSUME NEW S, S \subseteq Int, NEW lo \in S, \A t \in S : lo <= t, NEW hi \in S, \A t \in S : t <= hi
      PROVE  Min(S) \in S /\ Max(S) \in S /\ \A t \in S : Min(S) <= t /\ t <= Max(S)
  <2>1. Min(S) \in S /\ \A t \in S : Min(S) <= t
    BY <1>5 DEF Min
  <2>2. \E x \in S : \A t \in S : x >= t
    BY <1>5
  <2>3. Max(S) \in S /\ \A t \in S : Max(S) >= t
    BY <2>2 DEF Max
  <2> QED BY <1>5, <2>1, <2>3
<1>6. Min(ts) \in ts /\ Max(ts) \in ts /\ \A t \in ts : Min(ts) <= t /\ t <= Max(ts)
  BY <1>3, <1>5
<1> DEFINE us == ts \cup {a}
           lo == IF At[l] <= a THEN At[l] ELSE a
           hi == IF At[h] <= a THEN a ELSE At[h]
<1>7. us \subseteq Int /\ lo \in us /\ hi \in us /\ \A t \in us : lo <= t /\ t <= hi
  BY <1>3
<1>8. a \in us /\ ts \subseteq us
  OBVIOUS
<1> HIDE DEF us, lo, hi
<1>9. Min(us) \in us /\ Max(us) \in us /\ \A t \in us : Min(us) <= t /\ t <= Max(us)
  BY <1>5, <1>7
<1>10. Min(us) \in Int /\ Min(us) <= a /\ Max(us) \in Int /\ a <= Max(us)
       /\ \A e \in es : Min(us) <= At[e] /\ At[e] <= Max(us)
  BY <1>4, <1>7, <1>8, <1>9
<1> QED BY <1>3, <1>4, <1>6, <1>10 DEF ts, us

\* Upserting events into a row: it covers them and what it covered.
LEMMA UpsertCovers ==
  ASSUME NEW past \in RowContent \cup {NoRange}, NEW es \in SUBSET Shots, es # {}
  PROVE  LET up == Upserted(past, es) IN
         /\ up \in RowContent
         /\ \A e \in es : up.from <= At[e] /\ At[e] <= up.to
         /\ past = NoRange => up.count = Cardinality(es)
         /\ past # NoRange => /\ up.from <= past.from /\ past.to <= up.to
                             /\ up.count = past.count + Cardinality(es)
<1> USE PagesAssumption
<1> DEFINE ts == {At[e] : e \in es}
           up == Upserted(past, es)
<1>1. Cardinality(es) \in Nat
  BY FS_Subset, FS_CardinalityType
<1>2. CASE past = NoRange
  <2>1. up = [from |-> Min(ts), to |-> Max(ts), count |-> Cardinality(es), status |-> "unresolved"]
    BY <1>2 DEF Upserted
  <2>2. /\ Min(ts) \in Int /\ \A e \in es : Min(ts) <= At[e]
        /\ Max(ts) \in Int /\ \A e \in es : At[e] <= Max(ts)
    BY TimesBounded, 0 \in Int
  <2> HIDE DEF up, ts
  <2>3. up \in RowContent /\ up.from = Min(ts) /\ up.to = Max(ts) /\ up.count = Cardinality(es)
    BY <1>1, <2>1, <2>2 DEF RowContent
  <2> QED BY <1>2, <2>2, <2>3 DEF up
<1>3. CASE past # NoRange
  <2>1. past.from \in Int /\ past.to \in Int /\ past.count \in Nat /\ past \in RowContent
    BY <1>3 DEF RowContent
  <2> DEFINE mn == Min(ts \cup {past.from})
             mx == Max(ts \cup {past.to})
  <2>2. up = [past EXCEPT !.from = mn, !.to = mx, !.count = @ + Cardinality(es)]
    BY <1>3 DEF Upserted
  <2>3. mn \in Int /\ mn <= past.from /\ \A e \in es : mn <= At[e]
    BY <2>1, TimesBounded
  <2>4. mx \in Int /\ past.to <= mx /\ \A e \in es : At[e] <= mx
    BY <2>1, TimesBounded
  <2> HIDE DEF up, mn, mx
  <2>5. up \in RowContent /\ up.from = mn /\ up.to = mx /\ up.count = past.count + Cardinality(es)
    <3>1. past.count + Cardinality(es) \in Nat
      BY <1>1, <2>1
    <3>2. up = [from |-> mn, to |-> mx, count |-> past.count + Cardinality(es), status |-> past.status]
      BY <2>1, <2>2 DEF RowContent
    <3>3. past.status \in {"unresolved", "closed", "regression"}
      BY <2>1 DEF RowContent
    <3> QED BY <2>3, <2>4, <3>1, <3>2, <3>3 DEF RowContent
  <2> QED BY <1>3, <2>3, <2>4, <2>5 DEF up
<1> QED BY <1>2, <1>3
-----------------------------------------------------------------------------
(* The rows. *)

LEMMA PagesInitInv == PagesInit => PagesInv
<1> SUFFICES ASSUME PagesInit PROVE PagesInv
  OBVIOUS
<1> USE PagesAssumption
<1>1. \A e \in Shots : RawAs[e] \in Issues
  BY DEF Issues
<1>2. PagesTypes
  BY <1>1 DEF PagesInit, PagesTypes, NoView, ViewFields
<1>3. ShotsKnown /\ RowsCover /\ ViewKnown
  BY DEF PagesInit, ShotsKnown, RowsCover, Counted, ViewKnown, NoView
<1> QED BY <1>2, <1>3 DEF PagesInv

\* What an issue counts is a finite number of events.
LEMMA CountedFinite ==
  ASSUME NEW f PROVE Counted(f) \in SUBSET Shots /\ IsFiniteSet(Counted(f)) /\ Cardinality(Counted(f)) \in Nat
<1>1. Counted(f) \in SUBSET Shots
  BY DEF Counted
<1> QED BY <1>1, PagesAssumption, FS_Subset, FS_CardinalityType

\* The page stays right when the view is only left with the events that are
\* still under its issue.
LEMMA ViewKept ==
  ASSUME PagesTypes, ViewKnown, StillThere
  PROVE  /\ ViewKnown'
         /\ DOMAIN view' = ViewFields
         /\ view'.pc \in {"none", "row", "latest", "done"} /\ view'.kind \in {"api", "viewer"}
         /\ view'.from \in Int /\ view'.to \in Int /\ view'.steady \in SUBSET Shots
<1> DEFINE left == {e \in view.steady : shot'[e] = "stored" /\ filed'[e] = view.of}
<1>1. view' = [view EXCEPT !.steady = left] /\ DOMAIN view = ViewFields
  BY DEF StillThere, PagesTypes
<1>2. /\ view'.steady = left /\ view'.pc = view.pc /\ view'.kind = view.kind /\ view'.of = view.of
      /\ view'.from = view.from /\ view'.to = view.to /\ view'.latest = view.latest /\ view'.oldest = view.oldest
      /\ DOMAIN view' = ViewFields
  BY <1>1 DEF ViewFields
<1>3. left \subseteq view.steady /\ view.steady \subseteq Shots
  BY DEF PagesTypes
<1>4. \A e \in left : e \in StoredIn(view.of)'
  BY <1>2, <1>3 DEF StoredIn
<1> HIDE DEF left
<1>5. ViewKnown'
  BY <1>2, <1>3, <1>4 DEF ViewKnown
<1> QED BY <1>2, <1>3, <1>5 DEF PagesTypes

\* An envelope.
LEMMA IngestCovers ==
  ASSUME PagesInv, NEW es \in SUBSET Shots, NEW kept \in SUBSET es, NEW regressed \in SUBSET Issues,
         Ingest(es, kept, regressed)
  PROVE  PagesInv'
<1> USE PagesAssumption DEF PagesInv
<1>1. /\ \A e \in es : shot[e] = "coming" /\ At[e] >= horizon
      /\ issueRow' = [f \in Issues |->
           LET mine == {e \in es : RawAs[e] = f}
               past  == Upserted(issueRow[f], mine)
           IN IF mine = {} THEN issueRow[f]
              ELSE [past EXCEPT !.status = IF f \in regressed /\ @ = "closed" THEN "regression" ELSE @]]
      /\ shot' = [e \in Shots |-> IF e \in kept THEN "stored" ELSE IF e \in es THEN "gone" ELSE shot[e]]
      /\ UNCHANGED <<filed, moving, horizon>> /\ StillThere
  BY DEF Ingest
<1>2. ASSUME NEW f \in Issues, {e \in es : RawAs[e] = f} = {}
      PROVE  issueRow'[f] = issueRow[f] /\ Counted(f)' = Counted(f) /\ StoredIn(f)' = StoredIn(f)
  <2>1. \A e \in es : filed[e] # f
    BY <1>1, <1>2 DEF ShotsKnown
  <2> QED BY <1>1, <1>2, <2>1 DEF Counted, StoredIn, PagesTypes
<1>3. ASSUME NEW f \in Issues, {e \in es : RawAs[e] = f} # {}
      PROVE  LET mine == {e \in es : RawAs[e] = f}
                 new  == issueRow'[f] IN
             /\ new \in RowContent
             /\ \A e \in mine : new.from <= At[e] /\ At[e] <= new.to
             /\ issueRow[f] = NoRange => new.count = Cardinality(mine)
             /\ issueRow[f] # NoRange => /\ new.from <= issueRow[f].from /\ issueRow[f].to <= new.to
                                         /\ new.count = issueRow[f].count + Cardinality(mine)
  <2> DEFINE mine == {e \in es : RawAs[e] = f}
             up   == Upserted(issueRow[f], mine)
             new  == issueRow'[f]
  <2>1. mine \in SUBSET Shots /\ issueRow[f] \in RowContent \cup {NoRange}
    BY DEF PagesTypes
  <2>2. /\ up \in RowContent
        /\ \A e \in mine : up.from <= At[e] /\ At[e] <= up.to
        /\ issueRow[f] = NoRange => up.count = Cardinality(mine)
        /\ issueRow[f] # NoRange => /\ up.from <= issueRow[f].from /\ issueRow[f].to <= up.to
                                    /\ up.count = issueRow[f].count + Cardinality(mine)
    BY <1>3, <2>1, UpsertCovers
  <2>3. new = [up EXCEPT !.status = IF f \in regressed /\ @ = "closed" THEN "regression" ELSE @]
    BY <1>1, <1>3
  <2> HIDE DEF up, new
  <2>4. new \in RowContent /\ new.from = up.from /\ new.to = up.to /\ new.count = up.count
    BY <2>2, <2>3 DEF RowContent
  <2> QED BY <2>2, <2>4 DEF new
<1>4. issueRow' \in [Issues -> RowContent \cup {NoRange}]
  <2>1. \A f \in Issues : issueRow'[f] \in RowContent \cup {NoRange}
    BY <1>2, <1>3 DEF PagesTypes
  <2> QED BY <1>1, <2>1
<1>5. shot' \in [Shots -> {"coming", "stored", "gone"}]
  BY <1>1 DEF PagesTypes
<1>6. PagesTypes' /\ ViewKnown'
  BY <1>1, <1>4, <1>5, ViewKept DEF PagesTypes
<1>7. ShotsKnown'
  BY <1>1 DEF ShotsKnown, PagesTypes
<1>8. ASSUME NEW f \in Issues
      PROVE  IF issueRow'[f] = NoRange THEN Counted(f)' = {}
             ELSE /\ issueRow'[f].count >= Cardinality(Counted(f)')
                  /\ \A e \in StoredIn(f)' : issueRow'[f].from <= At[e] /\ At[e] <= issueRow'[f].to
  <2> DEFINE mine == {e \in es : RawAs[e] = f}
             new  == issueRow'[f]
             old  == issueRow[f]
  <2>1. CASE mine = {}
    BY <1>2, <2>1 DEF RowsCover
  <2>2. CASE mine # {}
    <3>1. /\ new \in RowContent
          /\ \A e \in mine : new.from <= At[e] /\ At[e] <= new.to
          /\ old = NoRange => new.count = Cardinality(mine)
          /\ old # NoRange => /\ new.from <= old.from /\ old.to <= new.to
                              /\ new.count = old.count + Cardinality(mine)
      BY <1>3, <2>2
    <3>2. Counted(f)' \subseteq Counted(f) \cup mine /\ StoredIn(f)' \subseteq StoredIn(f) \cup mine
      <4>1. \A e \in es : filed[e] = RawAs[e]
        BY <1>1 DEF ShotsKnown
      <4> QED BY <1>1, <4>1 DEF Counted, StoredIn, PagesTypes, ShotsKnown
    <3>3. mine \in SUBSET Shots /\ IsFiniteSet(mine) /\ Cardinality(mine) \in Nat
      BY FS_Subset, FS_CardinalityType
    <3> HIDE DEF mine
    <3>4. /\ IsFiniteSet(Counted(f)) /\ Cardinality(Counted(f)) \in Nat
          /\ IsFiniteSet(Counted(f) \cup mine)
          /\ Cardinality(Counted(f) \cup mine) <= Cardinality(Counted(f)) + Cardinality(mine)
      <4>1. IsFiniteSet(Counted(f)) /\ Cardinality(Counted(f)) \in Nat
        BY CountedFinite
      <4>2. IsFiniteSet(Counted(f) \cap mine) /\ Cardinality(Counted(f) \cap mine) \in Nat
        BY <4>1, FS_Subset, FS_CardinalityType
      <4>3. /\ IsFiniteSet(Counted(f) \cup mine)
            /\ Cardinality(Counted(f) \cup mine)
                 = Cardinality(Counted(f)) + Cardinality(mine) - Cardinality(Counted(f) \cap mine)
        BY <3>3, <4>1, FS_Union
      <4> QED BY <3>3, <4>1, <4>2, <4>3
    <3>5. Cardinality(Counted(f)') <= Cardinality(Counted(f) \cup mine) /\ Cardinality(Counted(f)') \in Nat
      BY <3>2, <3>4, FS_Subset, FS_CardinalityType
    <3>6. CASE old = NoRange
      <4>1. Counted(f) = {} /\ StoredIn(f) = {}
        <5>1. Counted(f) = {}
          BY <3>6 DEF RowsCover
        <5> QED BY <5>1 DEF Counted, StoredIn
      <4>2. Counted(f) \cup mine = mine
        BY <4>1
      <4>3. Cardinality(Counted(f)') <= Cardinality(mine)
        BY <3>5, <4>2
      <4>4. new.count >= Cardinality(Counted(f)')
        BY <3>1, <3>3, <3>5, <3>6, <4>3
      <4>5. \A e \in StoredIn(f)' : e \in mine
        BY <3>2, <4>1
      <4> QED BY <3>1, <4>4, <4>5
    <3>7. CASE old # NoRange
      <4>1. /\ old \in RowContent /\ old.count >= Cardinality(Counted(f))
            /\ \A e \in StoredIn(f) : old.from <= At[e] /\ At[e] <= old.to
        BY <3>7 DEF RowsCover, PagesTypes
      <4>2. /\ old.count \in Nat /\ old.from \in Int /\ old.to \in Int
            /\ new.count \in Nat /\ new.from \in Int /\ new.to \in Int
        BY <3>1, <4>1 DEF RowContent
      <4>3. new.count >= Cardinality(Counted(f)')
        <5>1. new.count = old.count + Cardinality(mine)
          BY <3>1, <3>7
        <5>2. ASSUME NEW a \in Nat, NEW b \in Nat, NEW c \in Nat, NEW d \in Nat, NEW m \in Nat,
                     a <= b, b <= c + m, d >= c
              PROVE  d + m >= a
          BY <5>2
        <5> QED BY <3>3, <3>4, <3>5, <4>1, <4>2, <5>1, <5>2, FS_CardinalityType
      <4>4. \A e \in StoredIn(f)' : new.from <= At[e] /\ At[e] <= new.to
        <5>1. \A e \in StoredIn(f) : e \in Shots /\ At[e] \in Int
          BY DEF StoredIn
        <5> QED BY <3>1, <3>2, <3>7, <4>1, <4>2, <5>1
      <4> QED BY <3>1, <4>3, <4>4
    <3> QED BY <3>6, <3>7
  <2> QED BY <2>1, <2>2
<1>9. RowsCover'
  BY <1>8 DEF RowsCover
<1> QED BY <1>6, <1>7, <1>9

\* One issue less its event.
LEMMA LeftCovers ==
  ASSUME PagesInv, NEW f \in Issues, NEW e \in Counted(f)
  PROVE  LET past == Left(issueRow[f]) IN
         IF past = NoRange THEN Counted(f) \ {e} = {}
         ELSE /\ past \in RowContent /\ past.count >= Cardinality(Counted(f) \ {e})
              /\ issueRow[f] # NoRange /\ past.from = issueRow[f].from /\ past.to = issueRow[f].to
<1> USE PagesAssumption DEF PagesInv
<1> DEFINE old  == issueRow[f]
           less == [old EXCEPT !.count = Max({0, @ - 1})]
           n    == Cardinality(Counted(f))
<1>1. old # NoRange /\ old \in RowContent /\ old.count >= n
  BY DEF RowsCover, PagesTypes
<1>2. n \in Nat /\ Cardinality(Counted(f) \ {e}) = n - 1 /\ n - 1 \in Nat /\ IsFiniteSet(Counted(f) \ {e})
  <2>1. IsFiniteSet(Counted(f)) /\ n \in Nat
    BY CountedFinite
  <2>2. IsFiniteSet(Counted(f) \ {e}) /\ Cardinality(Counted(f) \ {e}) = n - 1
    BY <2>1, FS_RemoveElement
  <2> QED BY <2>1, <2>2, FS_CardinalityType
<1>3. old.count \in Nat /\ old.count - 1 \in Nat
  <2>1. old.count \in Nat
    BY <1>1 DEF RowContent
  <2> QED BY <1>1, <1>2, <2>1
<1>4. Max({0, old.count - 1}) = old.count - 1
  BY <1>3 DEF Max
<1>5. less = [old EXCEPT !.count = old.count - 1]
  BY <1>1, <1>4 DEF RowContent
<1> HIDE DEF less, old, n
<1>6. less \in RowContent /\ less.count = old.count - 1 /\ less.from = old.from /\ less.to = old.to
  BY <1>1, <1>3, <1>5 DEF RowContent
<1>7. Left(old) = IF old = NoRange \/ (less.count = 0 /\ old.status = "unresolved") THEN NoRange ELSE less
  BY DEF Left, less
<1>8. CASE Left(old) = NoRange
  <2>1. old.count - 1 = 0
    BY <1>1, <1>6, <1>7, <1>8
  <2>2. n - 1 = 0
    BY <1>1, <1>2, <1>3, <2>1
  <2>3. Counted(f) \ {e} = {}
    BY <1>2, <2>2, FS_EmptySet
  <2> QED BY <1>8, <2>3 DEF old
<1>9. CASE Left(old) # NoRange
  <2>1. Left(old) = less
    BY <1>7, <1>9
  <2>2. less.count >= Cardinality(Counted(f) \ {e})
    BY <1>1, <1>2, <1>3, <1>6
  <2> QED BY <1>1, <1>6, <1>9, <2>1, <2>2 DEF old
<1> QED BY <1>8, <1>9

\* A symbolication commits: the event goes from one issue to another.
LEMMA MoveCovers ==
  ASSUME PagesInv, NEW e \in Shots, Move(e)
  PROVE  PagesInv'
<1> USE PagesAssumption DEF PagesInv
<1> DEFINE a == RawAs[e]
           b == SymAs[e]
<1>1. /\ moving[e] = "read" /\ moving' = [moving EXCEPT ![e] = "done"]
      /\ filed' = [filed EXCEPT ![e] = b]
      /\ issueRow' = IF b = a THEN issueRow ELSE [issueRow EXCEPT ![b] = Upserted(@, {e}), ![a] = Left(@)]
      /\ UNCHANGED <<shot, horizon>> /\ StillThere
  BY DEF Move
<1>2. a \in Issues /\ b \in Issues /\ filed[e] = a /\ shot[e] # "coming" /\ e \in Counted(a)
  <2>1. filed[e] = a /\ shot[e] # "coming"
    BY <1>1 DEF ShotsKnown
  <2> QED BY <1>1, <2>1 DEF Issues, Counted, PagesTypes
<1>3. /\ Counted(a)' \subseteq Counted(a) /\ StoredIn(a)' \subseteq StoredIn(a)
      /\ a # b => Counted(a)' = Counted(a) \ {e}
      /\ Counted(b)' \subseteq Counted(b) \cup {e} /\ StoredIn(b)' \subseteq StoredIn(b) \cup {e}
      /\ \A f : f # a /\ f # b => Counted(f)' = Counted(f) /\ StoredIn(f)' = StoredIn(f)
  <2>1. DOMAIN filed = Shots /\ moving \in [Shots -> {"idle", "read", "done"}]
    BY DEF PagesTypes
  <2>2. filed'[e] = b /\ \A x \in Shots \ {e} : filed'[x] = filed[x] /\ moving'[x] = moving[x]
    BY <1>1, <2>1
  <2>3. moving'[e] = "done" /\ shot' = shot
    BY <1>1, <2>1
  <2> QED BY <1>2, <2>2, <2>3 DEF Counted, StoredIn
<1>4. /\ IsFiniteSet(Counted(a)) /\ Cardinality(Counted(a)') <= Cardinality(Counted(a)) /\ Cardinality(Counted(a)') \in Nat
      /\ Cardinality(Counted(a)) \in Nat
  BY <1>3, CountedFinite, FS_Subset, FS_CardinalityType
<1>5. CASE a = b
  <2>1. issueRow' = issueRow
    BY <1>1, <1>5
  <2>2. \A f \in Issues : /\ Counted(f)' \subseteq Counted(f) /\ StoredIn(f)' \subseteq StoredIn(f)
                          /\ Cardinality(Counted(f)') <= Cardinality(Counted(f))
    <3>1. ASSUME NEW f \in Issues, f # a
          PROVE  /\ Counted(f)' \subseteq Counted(f) /\ StoredIn(f)' \subseteq StoredIn(f)
                 /\ Cardinality(Counted(f)') <= Cardinality(Counted(f))
      <4>1. Counted(f)' = Counted(f) /\ StoredIn(f)' = StoredIn(f)
        BY <1>3, <1>5, <3>1
      <4>2. Cardinality(Counted(f)) \in Nat
        BY CountedFinite
      <4> QED BY <4>1, <4>2
    <3> QED BY <1>3, <1>4, <3>1
  <2>3. RowsCover'
    <3>1. ASSUME NEW f \in Issues, issueRow[f] # NoRange
          PROVE  issueRow[f].count >= Cardinality(Counted(f)')
      <4>1. Cardinality(Counted(f)) \in Nat /\ Cardinality(Counted(f)') \in Nat
        BY <2>2, CountedFinite, FS_Subset, FS_CardinalityType
      <4>2. issueRow[f].count >= Cardinality(Counted(f)) /\ issueRow[f].count \in Nat
        BY <3>1 DEF RowsCover, PagesTypes, RowContent
      <4> QED BY <2>2, <4>1, <4>2
    <3> QED BY <2>1, <2>2, <3>1 DEF RowsCover
  <2> QED BY <1>1, <1>2, <2>1, <2>3, ViewKept DEF PagesTypes, ShotsKnown
<1>6. CASE a # b
  <2> DEFINE old == issueRow[b]
             up  == Upserted(old, {e})
             low == Left(issueRow[a])
  <2>1. /\ issueRow'[b] = up /\ issueRow'[a] = low
        /\ \A f \in Issues : f # a /\ f # b => issueRow'[f] = issueRow[f]
        /\ DOMAIN issueRow' = Issues
    BY <1>1, <1>2, <1>6 DEF PagesTypes
  <2>2. old \in RowContent \cup {NoRange} /\ Cardinality({e}) = 1
    BY <1>2, FS_Singleton DEF PagesTypes
  <2>3. /\ up \in RowContent
        /\ up.from <= At[e] /\ At[e] <= up.to
        /\ old = NoRange => up.count = 1
        /\ old # NoRange => /\ up.from <= old.from /\ old.to <= up.to
                            /\ up.count = old.count + 1
    BY <2>2, UpsertCovers
  <2>4. IF low = NoRange THEN Counted(a) \ {e} = {}
        ELSE /\ low \in RowContent /\ low.count >= Cardinality(Counted(a) \ {e})
             /\ issueRow[a] # NoRange /\ low.from = issueRow[a].from /\ low.to = issueRow[a].to
    BY <1>2, LeftCovers
  <2> HIDE DEF up, low, old
  <2>5. issueRow' \in [Issues -> RowContent \cup {NoRange}]
    <3>1. \A f \in Issues : issueRow'[f] \in RowContent \cup {NoRange}
      BY <2>1, <2>3, <2>4 DEF PagesTypes
    <3>2. issueRow' = [f \in Issues |-> issueRow'[f]]
      BY <1>1, <1>6 DEF PagesTypes
    <3> QED BY <3>1, <3>2
  <2>6. PagesTypes' /\ ShotsKnown' /\ ViewKnown'
    BY <1>1, <1>2, <2>5, ViewKept DEF PagesTypes, ShotsKnown
  <2>7. ASSUME NEW f \in Issues
        PROVE  IF issueRow'[f] = NoRange THEN Counted(f)' = {}
               ELSE /\ issueRow'[f].count >= Cardinality(Counted(f)')
                    /\ \A x \in StoredIn(f)' : issueRow'[f].from <= At[x] /\ At[x] <= issueRow'[f].to
    <3>1. CASE f = a
      <4>1. low # NoRange => \A x \in StoredIn(a)' : low.from <= At[x] /\ At[x] <= low.to
        BY <1>2, <1>3, <2>4 DEF RowsCover
      <4> QED BY <1>3, <1>6, <2>1, <2>4, <3>1, <4>1
    <3>2. CASE f = b
      <4>1. IsFiniteSet(Counted(b)) /\ Cardinality(Counted(b)) \in Nat
        BY CountedFinite
      <4>2. /\ IsFiniteSet(Counted(b) \cup {e})
            /\ Cardinality(Counted(b) \cup {e}) <= Cardinality(Counted(b)) + 1
        <5> DEFINE held == Counted(b)
        <5> HIDE DEF held
        <5>1. /\ IsFiniteSet(held \cup {e})
              /\ Cardinality(held \cup {e}) = IF e \in held THEN Cardinality(held) ELSE Cardinality(held) + 1
          BY <4>1, FS_AddElement DEF held
        <5>2. Cardinality(held \cup {e}) <= Cardinality(held) + 1
          BY <4>1, <5>1 DEF held
        <5> QED BY <5>1, <5>2 DEF held
      <4>3. Cardinality(Counted(b) \cup {e}) \in Nat
        BY <4>2, FS_CardinalityType
      <4>4. Cardinality(Counted(b)') <= Cardinality(Counted(b)) + 1 /\ Cardinality(Counted(b)') \in Nat
        <5>1. Cardinality(Counted(b)') <= Cardinality(Counted(b) \cup {e}) /\ IsFiniteSet(Counted(b)')
          BY <1>3, <4>2, FS_Subset
        <5>2. Cardinality(Counted(b)') \in Nat
          BY <5>1, FS_CardinalityType
        <5> QED BY <4>1, <4>2, <4>3, <5>1, <5>2
      <4>5. CASE old = NoRange
        <5>1. Counted(b) = {} /\ StoredIn(b) = {}
          BY <1>2, <4>5 DEF RowsCover, Counted, StoredIn, old
        <5>2. Cardinality(Counted(b)) = 0
          BY <5>1, FS_EmptySet
        <5>3. up.count >= Cardinality(Counted(b)')
          BY <2>3, <4>4, <4>5, <5>2
        <5> QED BY <1>3, <2>1, <2>3, <3>2, <5>1, <5>3
      <4>6. CASE old # NoRange
        <5>1. /\ old \in RowContent /\ old.count >= Cardinality(Counted(b))
              /\ \A x \in StoredIn(b) : old.from <= At[x] /\ At[x] <= old.to
          BY <1>2, <2>2, <4>6 DEF RowsCover, old
        <5>2. /\ old.count \in Nat /\ old.from \in Int /\ old.to \in Int
              /\ up.from \in Int /\ up.to \in Int
          BY <2>3, <5>1 DEF RowContent
        <5>3. up.count >= Cardinality(Counted(b)')
          BY <2>3, <4>1, <4>4, <4>6, <5>1, <5>2
        <5>4. \A x \in StoredIn(b)' : up.from <= At[x] /\ At[x] <= up.to
          <6>1. \A x \in StoredIn(b) : At[x] \in Int
            BY DEF StoredIn
          <6> QED BY <1>3, <2>3, <4>6, <5>1, <5>2, <6>1
        <5>5. up # NoRange
          BY <2>3
        <5> QED BY <2>1, <3>2, <5>3, <5>4, <5>5
      <4> QED BY <4>5, <4>6
    <3>3. CASE f # a /\ f # b
      BY <1>3, <2>1, <3>3 DEF RowsCover
    <3> QED BY <3>1, <3>2, <3>3
  <2>8. RowsCover'
    BY <2>7 DEF RowsCover
  <2> QED BY <2>6, <2>8
<1> QED BY <1>5, <1>6

\* Rows whose status alone changes cover what they covered.
LEMMA StatusCovers ==
  ASSUME PagesInv, DOMAIN issueRow' = Issues, UNCHANGED <<shot, filed, moving, horizon, view>>,
         \A f \in Issues : \/ issueRow'[f] = issueRow[f]
                           \/ /\ issueRow[f] # NoRange
                              /\ \E st \in {"unresolved", "closed"} :
                                   issueRow'[f] = [issueRow[f] EXCEPT !.status = st],
         issueRow' = [f \in Issues |-> issueRow'[f]]
  PROVE  PagesInv'
<1> USE PagesAssumption DEF PagesInv
<1>1. ASSUME NEW f \in Issues
      PROVE  /\ issueRow'[f] \in RowContent \cup {NoRange}
             /\ issueRow'[f] = NoRange <=> issueRow[f] = NoRange
             /\ issueRow[f] # NoRange => /\ issueRow'[f].from = issueRow[f].from /\ issueRow'[f].to = issueRow[f].to
                                        /\ issueRow'[f].count = issueRow[f].count
  <2>1. issueRow[f] \in RowContent \cup {NoRange}
    BY DEF PagesTypes
  <2>2. CASE issueRow'[f] = issueRow[f]
    BY <2>1, <2>2
  <2>3. CASE issueRow[f] # NoRange /\ \E st \in {"unresolved", "closed"} :
               issueRow'[f] = [issueRow[f] EXCEPT !.status = st]
    <3>1. PICK st \in {"unresolved", "closed"} : issueRow'[f] = [issueRow[f] EXCEPT !.status = st]
      BY <2>3
    <3> DEFINE old == issueRow[f]
               new == issueRow'[f]
    <3>2. old \in RowContent /\ new = [old EXCEPT !.status = st]
      BY <2>1, <2>3, <3>1
    <3> HIDE DEF old, new
    <3>3. new \in RowContent /\ new.from = old.from /\ new.to = old.to /\ new.count = old.count
      BY <3>2 DEF RowContent
    <3>4. new # NoRange
      BY <3>3
    <3> QED BY <2>3, <3>3, <3>4 DEF old, new
  <2> QED BY <2>2, <2>3
<1>2. issueRow' \in [Issues -> RowContent \cup {NoRange}]
  BY <1>1
<1>3. \A f : Counted(f)' = Counted(f) /\ StoredIn(f)' = StoredIn(f)
  BY DEF Counted, StoredIn
<1>4. RowsCover'
  BY <1>1, <1>3 DEF RowsCover
<1>5. ViewKnown'
  BY <1>3 DEF ViewKnown
<1> QED BY <1>2, <1>4, <1>5 DEF PagesTypes, ShotsKnown

\* The partitions below the new horizon go.
LEMMA DropCovers ==
  ASSUME PagesInv, DropPartitions
  PROVE  PagesInv'
<1> USE PagesAssumption DEF PagesInv
<1>1. /\ horizon' = horizon + 1
      /\ shot' = [e \in Shots |-> IF shot[e] = "stored" /\ At[e] <= horizon THEN "gone" ELSE shot[e]]
      /\ UNCHANGED <<issueRow, filed, moving>> /\ StillThere
  BY DEF DropPartitions
<1>2. \A f : Counted(f)' \subseteq Counted(f) /\ StoredIn(f)' \subseteq StoredIn(f)
  BY <1>1 DEF Counted, StoredIn
<1>3. RowsCover'
  <2>1. ASSUME NEW f \in Issues, issueRow[f] # NoRange
        PROVE  issueRow[f].count >= Cardinality(Counted(f)')
    <3>1. /\ Cardinality(Counted(f)) \in Nat /\ Cardinality(Counted(f)') \in Nat
          /\ Cardinality(Counted(f)') <= Cardinality(Counted(f))
      BY <1>2, CountedFinite, FS_Subset, FS_CardinalityType
    <3>2. issueRow[f].count >= Cardinality(Counted(f)) /\ issueRow[f].count \in Nat
      BY <2>1 DEF RowsCover, PagesTypes, RowContent
    <3> QED BY <3>1, <3>2
  <2> QED BY <1>1, <1>2, <2>1 DEF RowsCover
<1>4. ShotsKnown'
  <2>1. \A e \in Shots : shot'[e] = "stored" => At[e] >= horizon'
    BY <1>1 DEF ShotsKnown, PagesTypes
  <2>2. \A e \in Shots : shot'[e] = "coming" <=> shot[e] = "coming"
    BY <1>1
  <2> QED BY <1>1, <2>1, <2>2 DEF ShotsKnown
<1>5. PagesTypes' /\ ViewKnown'
  <2>1. shot' \in [Shots -> {"coming", "stored", "gone"}] /\ horizon' \in Nat
    BY <1>1 DEF PagesTypes
  <2> QED BY <1>1, <2>1, ViewKept DEF PagesTypes
<1> QED BY <1>3, <1>4, <1>5

\* An issue goes with its last event behind the horizon: it counted none.
LEMMA ExpireCovers ==
  ASSUME PagesInv, NEW f \in Issues, Expire(f)
  PROVE  PagesInv'
<1> USE PagesAssumption DEF PagesInv
<1>1. /\ issueRow[f] # NoRange
      /\ issueRow[f].to < IF issueRow[f].status = "closed" THEN horizon ELSE horizon - Stale
      /\ \A e \in Shots : moving[e] = "read" => shot[e] = "stored"
      /\ issueRow' = [issueRow EXCEPT ![f] = NoRange]
      /\ UNCHANGED <<shot, filed, moving, horizon, view>>
  BY DEF Expire
<1>2. issueRow[f].to < horizon /\ issueRow[f].to \in Int
  BY <1>1 DEF PagesTypes, RowContent
<1>3. StoredIn(f) = {}
  <2>1. ASSUME NEW e \in StoredIn(f) PROVE FALSE
    <3>1. At[e] <= issueRow[f].to /\ At[e] >= horizon /\ At[e] \in Int /\ horizon \in Nat
      BY <1>1 DEF RowsCover, ShotsKnown, StoredIn, PagesTypes
    <3> QED BY <1>2, <3>1
  <2> QED BY <2>1
<1>4. Counted(f) = {}
  BY <1>1, <1>3 DEF Counted, StoredIn
<1>5. \A g : Counted(g)' = Counted(g) /\ StoredIn(g)' = StoredIn(g)
  BY <1>1 DEF Counted, StoredIn
<1>6. RowsCover'
  BY <1>1, <1>4, <1>5 DEF RowsCover, PagesTypes
<1>7. ViewKnown'
  BY <1>1, <1>5 DEF ViewKnown
<1> QED BY <1>1, <1>6, <1>7 DEF PagesTypes, ShotsKnown

\* The page's queries.
LEMMA GetIssueCovers ==
  ASSUME PagesInv, NEW kind \in {"viewer", "api"}, NEW f \in Issues, GetIssue(kind, f)
  PROVE  PagesInv'
<1> USE PagesAssumption DEF PagesInv
<1>1. /\ view'.pc = "row" /\ view'.kind = kind /\ view'.of = f /\ view'.steady = StoredIn(f)
      /\ view'.from = issueRow[f].from /\ view'.to = issueRow[f].to /\ DOMAIN view' = ViewFields
      /\ issueRow[f] # NoRange /\ UNCHANGED <<issueRow, shot, filed, moving, horizon>>
  BY DEF GetIssue, NoView, ViewFields
<1>2. \A g : Counted(g)' = Counted(g) /\ StoredIn(g)' = StoredIn(g)
  BY <1>1 DEF Counted, StoredIn
<1>3. issueRow[f].from \in Int /\ issueRow[f].to \in Int
  BY <1>1 DEF PagesTypes, RowContent
<1>4. StoredIn(f) \in SUBSET Shots
  BY DEF StoredIn
<1>5. PagesTypes' /\ ShotsKnown'
  BY <1>1, <1>3, <1>4 DEF PagesTypes, ShotsKnown
<1>6. RowsCover'
  BY <1>1, <1>2 DEF RowsCover
<1>7. ViewKnown'
  BY <1>1, <1>2 DEF ViewKnown, RowsCover
<1> QED BY <1>5, <1>6, <1>7

\* What was there all along is in the range that is searched, so an event is
\* found, and none of those is newer, or older.
LEMMA FoundCovers ==
  ASSUME PagesInv, view.pc \in {"row", "latest"}, NEW s \in view.steady
  PROVE  /\ \A e \in OneOf(Newest(InRange)) : e \in Shots /\ At[s] <= At[e]
         /\ \A e \in OneOf(Oldest(InRange)) : e \in Shots /\ At[e] <= At[s]
<1> USE PagesAssumption DEF PagesInv
<1>1. s \in Shots /\ s \in StoredIn(view.of) /\ view.from <= At[s] /\ At[s] <= view.to
  BY DEF ViewKnown, PagesTypes
<1>2. At[s] < view.to + Second
  BY <1>1 DEF PagesTypes
<1>3. s \in InRange /\ InRange \in SUBSET Shots
  BY <1>1, <1>2 DEF InRange, StoredIn
<1>4. Newest(InRange) # {} /\ Oldest(InRange) # {}
  BY <1>3, EarliestAndLatest DEF Newest, Oldest
<1> QED BY <1>3, <1>4 DEF OneOf, Newest, Oldest

LEMMA LookupCovers ==
  ASSUME PagesInv, LatestIssueEvent \/ IssueEventRange
  PROVE  PagesInv'
<1> USE PagesAssumption DEF PagesInv
<1>1. UNCHANGED <<issueRow, shot, filed, moving, horizon>>
  BY DEF LatestIssueEvent, IssueEventRange
<1>2. \A g : Counted(g)' = Counted(g) /\ StoredIn(g)' = StoredIn(g)
  BY <1>1 DEF Counted, StoredIn
<1>3. RowsCover' /\ ShotsKnown'
  BY <1>1, <1>2 DEF RowsCover, ShotsKnown
<1>4. DOMAIN view = ViewFields
  BY DEF PagesTypes
<1>5. CASE LatestIssueEvent
  <2>1. PICK e \in OneOf(Newest(InRange)) : view' = [view EXCEPT !.pc = "latest", !.latest = e]
    BY <1>5 DEF LatestIssueEvent
  <2>2. view.pc = "row" /\ view.kind = "viewer"
    BY <1>5 DEF LatestIssueEvent
  <2>3. /\ view'.pc = "latest" /\ view'.latest = e /\ view'.steady = view.steady /\ view'.kind = view.kind
        /\ view'.of = view.of /\ view'.from = view.from /\ view'.to = view.to /\ DOMAIN view' = ViewFields
    BY <1>4, <2>1 DEF ViewFields
  <2>4. \A s \in view.steady : e \in Shots /\ At[s] <= At[e]
    BY <2>1, <2>2, FoundCovers
  <2>5. ViewKnown'
    BY <1>2, <2>2, <2>3, <2>4 DEF ViewKnown
  <2> QED BY <1>1, <1>3, <2>3, <2>5 DEF PagesTypes
<1>6. CASE view.pc = "latest" /\ IssueEventRange
  <2>1. PICK e \in OneOf(Oldest(InRange)) \cup {NoShot} : view' = [view EXCEPT !.pc = "done", !.oldest = e]
    BY <1>6 DEF IssueEventRange
  <2>2. /\ view'.pc = "done" /\ view'.oldest = e /\ view'.latest = view.latest /\ view'.steady = view.steady
        /\ view'.kind = view.kind /\ view'.of = view.of /\ view'.from = view.from /\ view'.to = view.to
        /\ DOMAIN view' = ViewFields
    BY <1>4, <2>1 DEF ViewFields
  <2>3. \A s \in view.steady : e # NoShot => At[e] <= At[s]
    BY <1>6, <2>1, FoundCovers
  <2>4. ViewKnown'
    BY <1>6, <2>2, <2>3 DEF ViewKnown
  <2> QED BY <1>1, <1>3, <2>2, <2>4 DEF PagesTypes
<1>7. CASE view.pc # "latest" /\ IssueEventRange
  <2>1. PICK e \in OneOf(Newest(InRange)), d \in OneOf(Oldest(InRange)) :
          view' = [view EXCEPT !.pc = "done", !.latest = e, !.oldest = d]
    BY <1>7 DEF IssueEventRange
  <2>2. view.pc = "row"
    BY <1>7 DEF IssueEventRange
  <2>3. /\ view'.pc = "done" /\ view'.oldest = d /\ view'.latest = e /\ view'.steady = view.steady
        /\ view'.kind = view.kind /\ view'.of = view.of /\ view'.from = view.from /\ view'.to = view.to
        /\ DOMAIN view' = ViewFields
    BY <1>4, <2>1 DEF ViewFields
  <2>4. \A s \in view.steady : e \in Shots /\ At[s] <= At[e] /\ d \in Shots /\ At[d] <= At[s]
    BY <2>1, <2>2, FoundCovers
  <2>5. ViewKnown'
    BY <2>3, <2>4 DEF ViewKnown
  <2> QED BY <1>1, <1>3, <2>3, <2>5 DEF PagesTypes
<1> QED BY <1>5, <1>6, <1>7

-----------------------------------------------------------------------------

LEMMA PagesStepInv ==
  ASSUME PagesInv, [PagesNext]_pageVars
  PROVE  PagesInv'
<1> USE PagesAssumption
<1>1. ASSUME NEW es \in SUBSET Shots, NEW kept \in SUBSET es, NEW regressed \in SUBSET Issues,
             Ingest(es, kept, regressed)
      PROVE  PagesInv'
  BY <1>1, IngestCovers
<1>2. ASSUME NEW e \in Shots, StartMove(e)
      PROVE  PagesInv'
  <2>1. /\ shot[e] = "stored" /\ moving' = [moving EXCEPT ![e] = "read"]
        /\ UNCHANGED <<issueRow, shot, filed, horizon, view>> /\ moving[e] = "idle"
    BY <1>2 DEF StartMove
  <2>2. \A f : Counted(f)' = Counted(f) /\ StoredIn(f)' = StoredIn(f)
    <3>1. moving \in [Shots -> {"idle", "read", "done"}]
      BY DEF PagesInv, PagesTypes
    <3> QED BY <2>1, <3>1 DEF Counted, StoredIn
  <2>3. RowsCover' /\ ViewKnown'
    BY <2>1, <2>2 DEF PagesInv, RowsCover, ViewKnown
  <2> QED BY <2>1, <2>3 DEF PagesInv, PagesTypes, ShotsKnown
<1>3. ASSUME NEW e \in Shots, Move(e)
      PROVE  PagesInv'
  BY <1>3, MoveCovers
<1>4. ASSUME NEW f \in Issues, NEW st \in {"unresolved", "closed"}, SetStatus(f, st)
      PROVE  PagesInv'
  <2>1. /\ issueRow[f] # NoRange /\ issueRow' = [issueRow EXCEPT ![f].status = st]
        /\ UNCHANGED <<shot, filed, moving, horizon, view>> /\ DOMAIN issueRow = Issues
    BY <1>4 DEF SetStatus, PagesInv, PagesTypes
  <2>2. issueRow'[f] = [issueRow[f] EXCEPT !.status = st] /\ \A g \in Issues \ {f} : issueRow'[g] = issueRow[g]
    BY <2>1
  <2>3. DOMAIN issueRow' = Issues /\ issueRow' = [g \in Issues |-> issueRow'[g]]
    BY <2>1
  <2>4. \A g \in Issues : \/ issueRow'[g] = issueRow[g]
                          \/ /\ issueRow[g] # NoRange
                             /\ \E new \in {"unresolved", "closed"} : issueRow'[g] = [issueRow[g] EXCEPT !.status = new]
    BY <2>1, <2>2
  <2> QED BY <2>1, <2>3, <2>4, StatusCovers
<1>5. ASSUME NEW st \in {"unresolved", "closed"}, SetStatuses(st)
      PROVE  PagesInv'
  <2>1. /\ issueRow' = [f \in Issues |-> IF issueRow[f] = NoRange THEN NoRange ELSE [issueRow[f] EXCEPT !.status = st]]
        /\ UNCHANGED <<shot, filed, moving, horizon, view>>
    BY <1>5 DEF SetStatuses
  <2>2. DOMAIN issueRow' = Issues /\ issueRow' = [g \in Issues |-> issueRow'[g]]
    BY <2>1
  <2>3. \A g \in Issues : \/ issueRow'[g] = issueRow[g]
                          \/ /\ issueRow[g] # NoRange
                             /\ \E new \in {"unresolved", "closed"} : issueRow'[g] = [issueRow[g] EXCEPT !.status = new]
    BY <2>1
  <2> QED BY <2>1, <2>2, <2>3, StatusCovers
<1>6. CASE DropPartitions
  BY <1>6, DropCovers
<1>7. ASSUME NEW f \in Issues, Expire(f)
      PROVE  PagesInv'
  BY <1>7, ExpireCovers
<1>8. ASSUME NEW f \in Issues, NEW kind \in {"viewer", "api"}, GetIssue(kind, f)
      PROVE  PagesInv'
  BY <1>8, GetIssueCovers
<1>9. CASE LatestIssueEvent \/ IssueEventRange
  BY <1>9, LookupCovers
<1>10. CASE EndPage
  <2>1. UNCHANGED <<issueRow, shot, filed, moving, horizon>> /\ view' = NoView
    BY <1>10 DEF EndPage
  <2>2. \A f : Counted(f)' = Counted(f) /\ StoredIn(f)' = StoredIn(f)
    BY <2>1 DEF Counted, StoredIn
  <2>3. RowsCover' /\ ViewKnown'
    BY <2>1, <2>2 DEF PagesInv, RowsCover, ViewKnown, NoView
  <2> QED BY <2>1, <2>3 DEF PagesInv, PagesTypes, ShotsKnown, NoView, ViewFields
<1>11. CASE UNCHANGED pageVars
  <2>1. UNCHANGED <<issueRow, shot, filed, moving, horizon, view>>
    BY <1>11 DEF pageVars
  <2>2. \A f : Counted(f)' = Counted(f) /\ StoredIn(f)' = StoredIn(f)
    BY <2>1 DEF Counted, StoredIn
  <2> QED BY <2>1, <2>2 DEF PagesInv, PagesTypes, ShotsKnown, RowsCover, ViewKnown
<1> QED BY <1>1, <1>2, <1>3, <1>4, <1>5, <1>6, <1>7, <1>8, <1>9, <1>10, <1>11 DEF PagesNext

\* The page of an issue shows its newest event and links its oldest, however
\* the events come, move to other issues and go between its queries: the row
\* covers the times of what is under the issue, and counts at least as many
\* (UpsertIssue, AdjustIssueStoredCount, DeleteEmptyIssue, pages.go).
THEOREM NewestIsShown == PagesSpec => []NewestShown
<1>1. PagesInit => PagesInv
  BY PagesInitInv
<1>2. PagesInv /\ [PagesNext]_pageVars => PagesInv'
  BY PagesStepInv
<1>3. PagesInv => NewestShown
  BY PagesAssumption DEF PagesInv, ViewKnown, NewestShown
<1> QED BY <1>1, <1>2, <1>3, PTL DEF PagesSpec

-----------------------------------------------------------------------------
(* Listing. *)
(* Events, by a cursor. *)

Rows == [at : Nat, id : RowIds]

EventTypes ==
  /\ instant \in Nat /\ shelf \subseteq Rows /\ IsFiniteSet(shelf)
  /\ page \in [pc : {"first", "next", "end"}, cursor : Rows \cup {NoCursor}, shown : Seq(Rows)]
  /\ stayed \subseteq shelf
  /\ \A r \in stayed : r.id \in Matching /\ (reader = "viewer" => r.at < instant)
  /\ reader \in {"api", "viewer", "issues"}

\* The cursor is the last row shown, and what was shown is in order.
ShownSorted ==
  LET s == page.shown IN
  /\ \A a, b \in 1..Len(s) : a < b => Newer(s[a], s[b])
  /\ \A a \in 1..Len(s) : page.pc # "first" /\ (s[a] = page.cursor \/ Newer(s[a], page.cursor))
  /\ page.pc = "next" => page.cursor \in Rows
  /\ page.pc = "first" => page.cursor = NoCursor

\* A row that stayed was shown, left the window, or is still to come.
Accounted ==
  page.pc # "first" =>
    \A r \in stayed : \/ \E k \in 1..Len(page.shown) : page.shown[k] = r
                      \/ reader = "viewer" /\ r.at < From
                      \/ page.pc = "next" /\ Newer(page.cursor, r)

EventInv == EventTypes /\ ShownSorted /\ Accounted

\* Rows sorted by time and id: a strict order of all of them.
NewerR == {p \in Rows \X Rows : Newer(p[1], p[2])}

LEMMA NewerOrders ==
  /\ \A r, s \in Rows : r = s \/ Newer(r, s) \/ Newer(s, r)
  /\ \A r \in Rows : ~Newer(r, r)
  /\ \A r, s, t \in Rows : Newer(r, s) /\ Newer(s, t) => Newer(r, t)
  /\ \A r, s \in Rows : ~(Newer(r, s) /\ Newer(s, r))
<1>1. \A r \in Rows : r = [at |-> r.at, id |-> r.id] /\ r.at \in Int /\ r.id \in Int
  <2>1. \A x \in RowIds : x \in Nat
    BY ListingAssumption
  <2> QED BY <2>1 DEF Rows
<1> QED BY <1>1 DEF Newer

LEMMA NewestFirstSorts ==
  ASSUME NEW rows, rows \subseteq Rows, IsFiniteSet(rows)
  PROVE  LET s == NewestFirst(rows) IN
         /\ s \in Seq(rows) /\ Len(s) = Cardinality(rows) /\ Len(s) \in Nat
         /\ \A r \in rows : \E k \in 1..Len(s) : s[k] = r
         /\ \A a, b \in 1..Len(s) : a < b <=> Newer(s[a], s[b])
<1> DEFINE s == NewestFirst(rows)
           n == Cardinality(rows)
<1>1. StrictlyOrders(NewerR, rows)
  BY NewerOrders DEF StrictlyOrders, NewerR
<1>2. \A r \in rows : Below(NewerR, rows, r) = {t \in rows : Newer(t, r)}
  BY DEF Below, NewerR
<1>3. ASSUME NEW k \in 1..n PROVE s[k] \in rows /\ Cardinality(Below(NewerR, rows, s[k])) = k - 1
  <2>1. n \in Nat
    BY FS_CardinalityType
  <2>2. k - 1 \in 0..(n - 1)
    BY <2>1
  <2>3. PICK r \in rows : Cardinality(Below(NewerR, rows, r)) = k - 1
    BY <1>1, <2>2, RankTaken
  <2>4. Cardinality({t \in rows : Newer(t, r)}) = k - 1
    BY <1>2, <2>3
  <2>5. s[k] = CHOOSE x \in rows : Cardinality({t \in rows : Newer(t, x)}) = k - 1
    BY DEF NewestFirst
  <2>6. s[k] \in rows /\ Cardinality({t \in rows : Newer(t, s[k])}) = k - 1
    <3> HIDE DEF s, n
    <3> QED BY <2>4, <2>5
  <2> HIDE DEF s, n
  <2> QED BY <1>2, <2>6
<1>4. /\ n \in Nat /\ s \in Seq(rows) /\ Len(s) = n
      /\ \A r \in rows : \E k \in 1..n : s[k] = r
      /\ \A a, b \in 1..n : a < b <=> <<s[a], s[b]>> \in NewerR
  <2>1. s \in [1..n -> rows]
    <3> DEFINE e(k) == CHOOSE r \in rows : Cardinality({t \in rows : Newer(t, r)}) = k - 1
    <3>1. s = [k \in 1..n |-> e(k)]
      BY DEF NewestFirst
    <3> HIDE DEF s, n, e
    <3> QED BY <1>3, <3>1
  <2>2. \A k \in 1..n : Cardinality(Below(NewerR, rows, s[k])) = k - 1
    BY <1>3
  <2>3. Enumerates(s, NewerR, rows)
    BY <2>1, <2>2 DEF Enumerates
  <2> HIDE DEF s
  <2> QED BY <1>1, <2>3, InOrder
<1> HIDE DEF s, n
<1>5. \A a \in 1..n : s[a] \in Rows
  BY <1>4
<1>6. \A a, b \in 1..n : <<s[a], s[b]>> \in NewerR <=> Newer(s[a], s[b])
  BY <1>5 DEF NewerR
<1> QED BY <1>4, <1>6 DEF s, n

\* The window moves on.
LEMMA FromGrows ==
  ASSUME instant \in Nat, instant' = instant + 1
  PROVE  From \in Int /\ From' \in Int /\ From <= From'
<1> DEFINE Start(t) == ((t - Width) \div Bucket) * Bucket
<1>1. ASSUME NEW t \in Nat PROVE Start(t) \in Int /\ Start(t) <= Start(t + 1)
  <2> DEFINE x == t - Width
             y == (t + 1) - Width
  <2>1. Width \in Nat /\ Bucket \in Nat \ {0}
    BY ListingAssumption
  <2>2. x \in Int /\ y \in Int /\ x <= y
    BY <2>1
  <2> HIDE DEF x, y
  <2>3. (x \div Bucket) * Bucket \in Int /\ (x \div Bucket) * Bucket <= (y \div Bucket) * Bucket
    BY <2>1, <2>2, FloorGrows, FloorIs
  <2> QED BY <2>3 DEF x, y
<1>2. From = Start(instant) /\ From' = Start(instant')
  BY DEF From
<1> HIDE DEF Start
<1>3. instant + 1 \in Nat
  OBVIOUS
<1> QED BY <1>1, <1>2, <1>3

LEMMA LimitAtLeastOne ==
  ASSUME NEW n \in Asked
  PROVE  RowLimit(n) \in Nat /\ RowLimit(n) >= 1
BY ListingAssumption DEF RowLimit

LEMMA ClockStep == ASSUME EventInv, InstantPasses PROVE EventInv'
<1>1. instant' = instant + 1 /\ UNCHANGED <<reader, shelf, page, stayed>>
  BY DEF InstantPasses, eventVars
<1>2. EventTypes'
  <2>1. \A r \in stayed : r.at \in Nat
    BY DEF EventInv, EventTypes, Rows
  <2> QED BY <1>1, <2>1 DEF EventInv, EventTypes
<1>3. ShownSorted'
  BY <1>1 DEF EventInv, ShownSorted
<1>4. Accounted'
  <2>1. From \in Int /\ From' \in Int /\ From <= From' /\ \A r \in stayed : r.at \in Int
    BY <1>1, FromGrows DEF EventInv, EventTypes, Rows
  <2>2. \A r \in stayed : r.at < From => r.at < From'
    BY <2>1
  <2> QED BY <1>1, <2>2 DEF EventInv, Accounted
<1> QED BY <1>2, <1>3, <1>4 DEF EventInv

LEMMA ArrivesStep ==
  ASSUME EventInv, NEW id \in RowIds, NEW at \in 0..(LastInstant + 1), EventArrives(id, at)
  PROVE  EventInv'
<1>1. shelf' = shelf \cup {[at |-> at, id |-> id]} /\ UNCHANGED <<reader, instant, page, stayed>>
  BY DEF EventArrives
<1>2. [at |-> at, id |-> id] \in Rows /\ IsFiniteSet(shelf')
  <2>1. at \in Nat
    BY ListingAssumption
  <2>2. IsFiniteSet(shelf)
    BY DEF EventInv, EventTypes
  <2> QED BY <1>1, <2>1, <2>2, FS_AddElement DEF Rows
<1>3. EventTypes'
  BY <1>1, <1>2 DEF EventInv, EventTypes
<1>4. ShownSorted' /\ Accounted'
  BY <1>1 DEF EventInv, ShownSorted, Accounted, From
<1> QED BY <1>3, <1>4 DEF EventInv

LEMMA ExpireRowsStep ==
  ASSUME EventInv, NEW old, EventsExpire(old)
  PROVE  EventInv'
<1> DEFINE gone == {r \in shelf : r.at < old}
<1>1. shelf' = shelf \ gone /\ stayed' = stayed \ gone /\ UNCHANGED <<reader, instant, page>>
  BY DEF EventsExpire
<1> HIDE DEF gone
<1>2. IsFiniteSet(shelf')
  BY <1>1, FS_Difference DEF EventInv, EventTypes
<1>3. EventTypes'
  BY <1>1, <1>2 DEF EventInv, EventTypes
<1>4. ShownSorted' /\ Accounted'
  BY <1>1 DEF EventInv, ShownSorted, Accounted, From
<1> QED BY <1>3, <1>4 DEF EventInv

\* A page is a prefix of what is beyond the cursor, in order; what is left is
\* beyond the new cursor.
LEMMA ReadEventsStep == ASSUME EventInv, NEW n \in Asked, ReadEvents(n) PROVE EventInv'
<1> USE DEF EventInv
<1> DEFINE R    == {r \in Matches : Beyond(r, page.cursor)}
           rows == NewestFirst(R)
           lim  == RowLimit(n)
           m    == IF Len(rows) > lim THEN lim ELSE Len(rows)
           some == FirstOf(rows, lim)
           old  == page.shown
<1>1. /\ page' = [page EXCEPT !.pc = IF Len(rows) > lim THEN "next" ELSE "end",
                              !.cursor = IF some = <<>> THEN page.cursor ELSE Last(some),
                              !.shown = page.shown \o some]
      /\ stayed' = (IF page.pc = "first" THEN Matches ELSE stayed)
      /\ UNCHANGED <<reader, instant, shelf>> /\ reader # "issues" /\ page.pc # "end"
  BY DEF ReadEvents
<1>2. R \subseteq Matches /\ Matches \subseteq shelf /\ R \subseteq Rows /\ IsFiniteSet(R)
  <2>1. R \subseteq Matches /\ Matches \subseteq shelf /\ R \subseteq shelf
    BY DEF Matches
  <2> HIDE DEF R
  <2> QED BY <2>1, FS_Subset DEF EventTypes
<1>3. /\ rows \in Seq(R) /\ Len(rows) \in Nat
      /\ \A r \in R : \E k \in 1..Len(rows) : rows[k] = r
      /\ \A a, b \in 1..Len(rows) : a < b <=> Newer(rows[a], rows[b])
  <2> HIDE DEF R
  <2> QED BY <1>2, NewestFirstSorts
<1>4. lim \in Nat /\ lim >= 1
  BY LimitAtLeastOne
<1>5. /\ page.pc \in {"first", "next"} /\ page.cursor \in Rows \cup {NoCursor} /\ old \in Seq(Rows)
      /\ page'.pc = (IF Len(rows) > lim THEN "next" ELSE "end")
      /\ page'.cursor = (IF some = <<>> THEN page.cursor ELSE Last(some))
      /\ page'.shown = old \o some
      /\ DOMAIN page = {"pc", "cursor", "shown"}
  BY <1>1 DEF EventTypes
<1>6. \A r \in R : r \in Rows /\ (page.cursor \in Rows => Newer(page.cursor, r))
  <2>1. NoCursor \notin Rows
    BY DEF NoCursor, Rows
  <2> QED BY <1>2, <2>1 DEF Beyond
<1>7. ASSUME NEW r \in Matches, r \notin R PROVE page.pc = "next" /\ ~Newer(page.cursor, r)
  BY <1>5, <1>7 DEF ShownSorted, Beyond
<1>8. page.pc = "first" => Len(old) = 0
  <2>1. \A a \in 1..Len(old) : page.pc # "first"
    BY DEF ShownSorted
  <2>2. Len(old) \in Nat
    BY <1>5
  <2> HIDE DEF old
  <2> QED BY <2>1, <2>2
<1> HIDE DEF R, rows, lim
<1>9. m \in Nat /\ m <= Len(rows) /\ m <= lim /\ some \in Seq(R) /\ Len(some) = m
      /\ (\A k \in 1..m : k \in 1..Len(rows) /\ some[k] = rows[k]) /\ (Len(rows) > lim => m = lim)
      /\ (Len(rows) <= lim => m = Len(rows))
  <2>1. some = SubSeq(rows, 1, m)
    BY DEF FirstOf
  <2>2. m \in Nat /\ m <= Len(rows) /\ m <= lim /\ (Len(rows) > lim => m = lim) /\ (Len(rows) <= lim => m = Len(rows))
    BY <1>3, <1>4
  <2> HIDE DEF m, some
  <2>3. rows \in Seq(R) /\ Len(rows) \in Nat
    BY <1>3
  <2>4. \A k \in 1..m : k \in 1..Len(rows)
    BY <2>2, <2>3
  <2>5. some \in Seq(R) /\ Len(some) = m
    BY <2>1, <2>2, <2>3
  <2>6. \A k \in 1..m : some[k] = rows[k]
    BY <2>1, <2>2, <2>3
  <2> QED BY <2>2, <2>4, <2>5, <2>6
<1> HIDE DEF m, some
<1>10. some = <<>> <=> m = 0
  BY <1>9
<1>11. m > 0 => m \in 1..Len(rows) /\ Last(some) = rows[m] /\ rows[m] \in R
  <2> SUFFICES ASSUME m > 0 PROVE m \in 1..Len(rows) /\ Last(some) = rows[m] /\ rows[m] \in R
    OBVIOUS
  <2>1. m \in 1..m
    BY <1>9
  <2>2. m \in 1..Len(rows) /\ some[m] = rows[m]
    BY <1>9, <2>1
  <2>3. Last(some) = some[m]
    BY <1>9 DEF Last
  <2>4. rows[m] \in R
    BY <1>3, <2>2
  <2> QED BY <2>2, <2>3, <2>4
<1>12. \A k \in 1..m : rows[k] \in R /\ rows[k] \in Rows
  BY <1>3, <1>6, <1>9
<1>13. /\ Len(old \o some) = Len(old) + m /\ old \o some \in Seq(Rows) /\ Len(old) \in Nat
       /\ \A a \in 1..Len(old) : (old \o some)[a] = old[a] /\ old[a] \in Rows /\ a \in 1..Len(old \o some)
       /\ \A k \in 1..m : Len(old) + k \in 1..Len(old \o some) /\ (old \o some)[Len(old) + k] = rows[k]
       /\ \A a \in 1..Len(old \o some) : a \in 1..Len(old) \/ \E k \in 1..m : a = Len(old) + k
  <2>1. some \in Seq(Rows)
    BY <1>9, <1>12
  <2>2. Len(old \o some) = Len(old) + m /\ old \o some \in Seq(Rows) /\ Len(old) \in Nat
    <3>1. old \in Seq(Rows) /\ some \in Seq(Rows) /\ Len(some) = m
      BY <1>5, <1>9, <2>1
    <3> HIDE DEF old
    <3> QED BY <3>1
  <2>3. \A a \in 1..Len(old) : (old \o some)[a] = old[a] /\ old[a] \in Rows /\ a \in 1..Len(old \o some)
    BY <1>5, <1>9, <2>1, <2>2
  <2>4. \A k \in 1..m : Len(old) + k \in 1..Len(old \o some) /\ (old \o some)[Len(old) + k] = some[k]
    BY <1>5, <1>9, <2>1, <2>2
  <2>5. ASSUME NEW a \in 1..Len(old \o some) PROVE a \in 1..Len(old) \/ \E k \in 1..m : a = Len(old) + k
    <3>1. CASE a <= Len(old)
      BY <2>2, <3>1
    <3>2. CASE a > Len(old)
      <4>1. a - Len(old) \in 1..m /\ a = Len(old) + (a - Len(old))
        BY <1>9, <2>2, <3>2
      <4> QED BY <4>1
    <3> QED BY <2>2, <3>1, <3>2
  <2> QED BY <1>9, <2>2, <2>3, <2>4, <2>5
<1> DEFINE new == old \o some
<1>14. EventTypes'
  <2>1. page'.cursor \in Rows \cup {NoCursor}
    BY <1>5, <1>6, <1>10, <1>11, <1>9
  <2>2. page' \in [pc : {"first", "next", "end"}, cursor : Rows \cup {NoCursor}, shown : Seq(Rows)]
    <3>1. page \in [pc : {"first", "next", "end"}, cursor : Rows \cup {NoCursor}, shown : Seq(Rows)]
      BY DEF EventTypes
    <3> QED BY <1>1, <1>5, <1>13, <2>1, <3>1
  <2>3. \A r \in Matches : r.id \in Matching /\ (reader = "viewer" => r.at < instant)
    BY DEF Matches, InWindow, eventFilter
  <2> QED BY <1>1, <1>2, <2>2, <2>3 DEF EventTypes
<1>15. ShownSorted'
  <2> DEFINE c == page'.cursor
  <2>1. \A a \in 1..Len(old) : \A k \in 1..m : Newer(old[a], rows[k])
    <3> SUFFICES ASSUME NEW a \in 1..Len(old), NEW k \in 1..m PROVE Newer(old[a], rows[k])
      OBVIOUS
    <3>1. page.pc = "next" /\ page.cursor \in Rows /\ (old[a] = page.cursor \/ Newer(old[a], page.cursor))
      BY <1>5 DEF ShownSorted
    <3>2. Newer(page.cursor, rows[k]) /\ rows[k] \in Rows /\ old[a] \in Rows
      BY <1>6, <1>12, <1>13, <3>1
    <3> QED BY <3>1, <3>2, NewerOrders
  <2>2. ASSUME NEW a \in 1..Len(new), NEW b \in 1..Len(new), a < b PROVE Newer(new[a], new[b])
    <3>1. CASE b \in 1..Len(old)
      <4>1. a \in 1..Len(old)
        BY <1>13, <2>2, <3>1
      <4> QED BY <1>13, <2>2, <3>1, <4>1 DEF ShownSorted
    <3>2. CASE \E j \in 1..m : b = Len(old) + j
      <4>1. PICK j \in 1..m : b = Len(old) + j
        BY <3>2
      <4>2. new[b] = rows[j]
        BY <1>13, <4>1
      <4>3. CASE a \in 1..Len(old)
        BY <1>13, <2>1, <4>2, <4>3
      <4>4. CASE \E k \in 1..m : a = Len(old) + k
        <5>1. PICK k \in 1..m : a = Len(old) + k
          BY <4>4
        <5>2. k < j /\ k \in 1..Len(rows) /\ j \in 1..Len(rows) /\ new[a] = rows[k]
          BY <1>9, <1>13, <2>2, <4>1, <5>1
        <5> QED BY <1>3, <4>2, <5>2
      <4> QED BY <1>13, <4>3, <4>4
    <3> QED BY <1>13, <3>1, <3>2
  <2>3. ASSUME NEW a \in 1..Len(new) PROVE new[a] = c \/ Newer(new[a], c)
    <3>1. CASE m = 0
      <4>1. a \in 1..Len(old) /\ new[a] = old[a] /\ c = page.cursor
        BY <1>5, <1>10, <1>13, <3>1
      <4> QED BY <4>1 DEF ShownSorted
    <3>2. CASE m > 0
      <4>1. c = rows[m] /\ m \in 1..m /\ m \in 1..Len(rows)
        BY <1>5, <1>9, <1>10, <1>11, <3>2
      <4>2. CASE a \in 1..Len(old)
        BY <1>13, <2>1, <4>1, <4>2
      <4>3. CASE \E k \in 1..m : a = Len(old) + k
        <5>1. PICK k \in 1..m : a = Len(old) + k
          BY <4>3
        <5>10. new[a] = rows[k]
          BY <1>13, <5>1
        <5>11. k \in 1..Len(rows)
          BY <1>9
        <5>12. k < m \/ k = m
          BY <1>9
        <5>2. new[a] = rows[k] /\ k \in 1..Len(rows) /\ (k < m \/ k = m)
          BY <5>10, <5>11, <5>12
        <5>3. CASE k = m
          BY <4>1, <5>2, <5>3
        <5>4. CASE k < m
          BY <1>3, <4>1, <5>2, <5>4
        <5> QED BY <5>2, <5>3, <5>4
      <4> QED BY <1>13, <4>2, <4>3
    <3> QED BY <1>9, <3>1, <3>2
  <2>4. page'.pc # "first"
    BY <1>5
  <2>5. page'.pc = "next" => c \in Rows
    <3> SUFFICES ASSUME page'.pc = "next" PROVE c \in Rows
      OBVIOUS
    <3>1. m = lim
      BY <1>5, <1>9
    <3>2. m > 0
      BY <1>4, <1>9, <3>1
    <3> QED BY <1>5, <1>6, <1>10, <1>11, <3>2
  <2> HIDE DEF c
  <2> QED BY <1>5, <2>2, <2>3, <2>4, <2>5 DEF ShownSorted, c
<1>16. Accounted'
  <2> SUFFICES ASSUME NEW r \in stayed'
               PROVE \/ \E k \in 1..Len(new) : new[k] = r
                     \/ reader = "viewer" /\ r.at < From
                     \/ page'.pc = "next" /\ Newer(page'.cursor, r)
    BY <1>1, <1>5 DEF Accounted, From
  <2>1. CASE r \in R
    <3>1. PICK k \in 1..Len(rows) : rows[k] = r
      BY <1>3, <2>1
    <3>2. CASE k <= m
      <4>1. k \in 1..m
        BY <1>9, <3>2
      <4> QED BY <1>13, <3>1, <4>1
    <3>3. CASE k > m
      <4>1. Len(rows) > lim /\ m = lim /\ m > 0
        BY <1>3, <1>4, <1>9, <3>3
      <4>2. page'.pc = "next" /\ page'.cursor = rows[m] /\ m \in 1..Len(rows) /\ m < k
        BY <1>5, <1>10, <1>11, <3>3, <4>1
      <4> QED BY <1>3, <3>1, <4>2
    <3> QED BY <1>9, <3>2, <3>3
  <2>2. CASE r \notin R /\ page.pc = "first"
    BY <1>1, <1>7, <2>2
  <2>3. CASE r \notin R /\ page.pc # "first"
    <3>1. r \in stayed
      BY <1>1, <2>3
    <3>2. CASE \E k \in 1..Len(old) : old[k] = r
      BY <1>13, <3>2
    <3>3. CASE reader = "viewer" /\ r.at < From
      BY <3>3
    <3>4. CASE page.pc = "next" /\ Newer(page.cursor, r) /\ ~(reader = "viewer" /\ r.at < From)
      <4>1. r \in shelf /\ r.id \in Matching /\ (reader = "viewer" => r.at < instant) /\ r.at \in Int /\ From \in Int
        <5>1. From \in Int
          <6> DEFINE x == instant - Width
          <6>1. x \in Int /\ Bucket \in Nat \ {0}
            BY ListingAssumption DEF EventTypes
          <6> HIDE DEF x
          <6>2. (x \div Bucket) * Bucket \in Int
            BY <6>1, FloorIs
          <6> QED BY <6>2 DEF x, From
        <5> QED BY <3>1, <5>1 DEF EventTypes, Rows
      <4>2. InWindow(r)
        BY <1>1, <3>4, <4>1 DEF InWindow, eventFilter, EventTypes
      <4>3. r \in Matches
        BY <4>1, <4>2 DEF Matches
      <4> QED BY <1>7, <2>3, <3>4, <4>3
    <3> QED BY <2>3, <3>1, <3>2, <3>3, <3>4 DEF Accounted
  <2> QED BY <2>1, <2>2, <2>3
<1> QED BY <1>14, <1>15, <1>16

-----------------------------------------------------------------------------
(* Issues, by an offset. *)

\* The issues of the list that were seen later than i.
Later(i) == {j \in InList : lastSeen[j] > lastSeen[i]}

\* An issue that stayed where it was is alone with its time, and was shown
\* unless the pages have not come to it.
SteadyShown ==
  /\ lastSeen \in [Listed -> Int] /\ offset \in Int /\ steady \subseteq InList
  /\ offset < 0 => steady = {} /\ ~allShown
  /\ \A i \in steady : Untied(i) /\ (i \in issuesShown \/ Cardinality(Later(i)) >= offset)
  /\ allShown => steady \subseteq issuesShown

LEMMA InListFinite == IsFiniteSet(InList) /\ Cardinality(InList) \in Nat /\ \A i : IsFiniteSet(Later(i)) /\ Cardinality(Later(i)) \in Nat
<1>1. InList \in SUBSET Listed /\ \A i : Later(i) \in SUBSET InList
  BY DEF InList, Later
<1>2. IsFiniteSet(InList)
  BY <1>1, ListingAssumption, FS_Subset
<1> QED BY <1>1, <1>2, FS_Subset, FS_CardinalityType

\* Seen again, an issue moves up: the others only go down.
LEMMA SeenStep ==
  ASSUME SteadyShown, NEW i \in Listed, NEW at \in 0..LastInstant, SeenAgain(i, at)
  PROVE  SteadyShown'
<1> USE DEF SteadyShown
<1>1. /\ i \in InList /\ lastSeen[i] < at /\ at \in Int /\ at >= 0
      /\ lastSeen' = [lastSeen EXCEPT ![i] = at]
      /\ steady' = {j \in steady \ {i} : lastSeen[j] # at}
      /\ UNCHANGED <<offset, issuesShown, allShown>>
  BY ListingAssumption DEF SeenAgain
<1>2. InList' = InList /\ lastSeen' \in [Listed -> Int]
  BY <1>1 DEF InList
<1>3. ASSUME NEW j \in steady' PROVE j \in steady /\ j # i /\ lastSeen'[j] = lastSeen[j] /\ lastSeen[j] # at /\ j \in Listed
  BY <1>1, <1>3 DEF InList
<1>4. ASSUME NEW j \in steady' PROVE Untied(j)' /\ Later(j) \subseteq Later(j)'
  <2>1. Untied(j)'
    BY <1>1, <1>2, <1>3 DEF Untied, InList
  <2>2. Later(j) \subseteq Later(j)'
    <3> SUFFICES ASSUME NEW k \in Later(j) PROVE k \in Later(j)'
      OBVIOUS
    <3>1. k \in InList /\ lastSeen[k] > lastSeen[j] /\ k \in Listed /\ lastSeen[k] \in Int /\ lastSeen[j] \in Int
      BY <1>3 DEF Later, InList
    <3>2. lastSeen'[k] >= lastSeen[k] /\ lastSeen'[k] \in Int
      BY <1>1, <3>1
    <3>3. lastSeen'[k] > lastSeen'[j]
      BY <1>3, <3>1, <3>2
    <3> QED BY <1>2, <3>1, <3>3 DEF Later
  <2> QED BY <2>1, <2>2
<1>5. ASSUME NEW j \in steady' PROVE j \in issuesShown \/ Cardinality(Later(j)') >= offset
  <2>1. IsFiniteSet(Later(j)')
    <3>1. InList' \in SUBSET Listed /\ Later(j)' \in SUBSET InList'
      BY DEF InList, Later
    <3> QED BY <3>1, ListingAssumption, FS_Subset
  <2>2. Cardinality(Later(j)) <= Cardinality(Later(j)') /\ Cardinality(Later(j)') \in Nat /\ Cardinality(Later(j)) \in Nat
    BY <1>4, <2>1, FS_Subset, FS_CardinalityType, InListFinite
  <2> QED BY <1>3, <2>2
<1>6. steady' \subseteq InList'
  BY <1>2, <1>3
<1> QED BY <1>1, <1>2, <1>3, <1>4, <1>5, <1>6

\* In any order of the list, an issue alone with its time comes right after
\* the later ones.
LEMMA PlaceOfUntied ==
  ASSUME SteadyShown, NEW s \in Orders, NEW i \in InList, Untied(i)
  PROVE  /\ Len(s) = Cardinality(InList)
         /\ Cardinality(Later(i)) + 1 \in 1..Len(s)
         /\ s[Cardinality(Later(i)) + 1] = i /\ s \in Seq(InList)
<1> USE DEF SteadyShown
<1> DEFINE n == Cardinality(InList)
<1>1. /\ n \in Nat /\ s \in [1..n -> InList] /\ ToSet(s) = InList
      /\ \A a, b \in 1..n : a < b => lastSeen[s[a]] >= lastSeen[s[b]]
  BY InListFinite DEF Orders
<1>2. IsFiniteSet(1..n) /\ Cardinality(1..n) = n
  BY <1>1, FS_Interval
<1>3. s \in Surjection(1..n, InList)
  BY <1>1 DEF Surjection, ToSet
<1>4. s \in Injection(1..n, InList)
  BY <1>2, <1>3, FS_SurjSameCardinalityImpliesInj
<1>5. PICK p \in 1..n : s[p] = i
  BY <1>1 DEF ToSet
<1>6. \A a \in 1..n : lastSeen[s[a]] \in Int /\ s[a] \in InList
  BY <1>1 DEF InList
<1>7. \A a \in 1..n : s[a] \in Later(i) <=> a < p
  <2> SUFFICES ASSUME NEW a \in 1..n PROVE s[a] \in Later(i) <=> a < p
    OBVIOUS
  <2>1. a # p => s[a] # i
    BY <1>4, <1>5 DEF Injection, IsInjective
  <2>2. a # p => lastSeen[s[a]] # lastSeen[i]
    BY <1>6, <2>1 DEF Untied
  <2>3. CASE a < p
    BY <1>1, <1>5, <1>6, <2>2, <2>3 DEF Later
  <2>4. CASE a >= p
    BY <1>1, <1>5, <1>6, <2>2, <2>4 DEF Later
  <2> QED BY <2>3, <2>4
<1> DEFINE t == [a \in 1..(p - 1) |-> s[a]]
<1>8. t \in Injection(1..(p - 1), Later(i)) /\ t \in Surjection(1..(p - 1), Later(i))
  <2>1. \A a \in 1..(p - 1) : a \in 1..n /\ a < p
    BY <1>1
  <2>2. t \in [1..(p - 1) -> Later(i)]
    BY <1>7, <2>1
  <2>3. \A a, b \in 1..(p - 1) : t[a] = t[b] => a = b
    BY <1>4, <2>1 DEF Injection, IsInjective
  <2>4. ASSUME NEW j \in Later(i) PROVE \E a \in 1..(p - 1) : t[a] = j
    <3>1. PICK a \in 1..n : s[a] = j
      BY <1>3 DEF Later, Surjection
    <3>2. a < p
      BY <1>7, <3>1
    <3>3. a \in 1..(p - 1)
      BY <1>1, <3>2
    <3> QED BY <3>1, <3>3
  <2> HIDE DEF t
  <2> QED BY <2>2, <2>3, <2>4 DEF Injection, IsInjective, Surjection
<1>9. Cardinality(Later(i)) = p - 1
  <2>1. IsFiniteSet(1..(p - 1)) /\ Cardinality(1..(p - 1)) = p - 1
    <3>1. 1 \in Int /\ p - 1 \in Int /\ (1 > p - 1 => p - 1 = 0) /\ (p - 1) - 1 + 1 = p - 1
      BY <1>1
    <3>2. Cardinality(1..(p - 1)) = IF 1 > p - 1 THEN 0 ELSE (p - 1) - 1 + 1
      BY <3>1, FS_Interval
    <3> QED BY <3>1, <3>2, FS_Interval
  <2> HIDE DEF t
  <2> QED BY <1>8, <2>1, FS_Surjection
<1>10. Len(s) = n /\ s \in Seq(InList)
  <2>1. n \in Nat /\ s \in [1..n -> InList]
    BY <1>1
  <2> HIDE DEF n
  <2> QED BY <2>1, FunctionIsSeq
<1> QED BY <1>1, <1>5, <1>9, <1>10

\* What stands between two places is in the part they bound.
LEMMA PartHas ==
  ASSUME NEW S, NEW s \in Seq(S), NEW a \in Nat \ {0}, NEW b \in Nat, b <= Len(s), NEW k \in a..b
  PROVE  s[k] \in ToSet(SubSeq(s, a, b))
<1>1. Len(s) \in Nat /\ k \in Nat /\ a <= k /\ k <= b
  OBVIOUS
<1>2. Len(SubSeq(s, a, b)) = b - a + 1 /\ k - a + 1 \in 1..(b - a + 1)
  BY <1>1
<1>3. SubSeq(s, a, b)[k - a + 1] = s[k]
  BY <1>1, <1>2
<1> QED BY <1>2, <1>3 DEF ToSet

\* The issues up to the next offset are shown.
LEMMA ReadIssuesStep == ASSUME SteadyShown, NEW n \in Asked, ReadIssues(n) PROVE SteadyShown'
<1> USE DEF SteadyShown
<1> DEFINE start == IF offset < 0 THEN 0 ELSE offset
           lim   == RowLimit(n)
<1>0. lim \in Nat /\ lim >= 1
  BY LimitAtLeastOne
<1>1. PICK s \in Orders : issuesShown' = issuesShown \cup ToSet(SubSeq(s, start + 1, IF start + lim > Len(s) THEN Len(s) ELSE start + lim))
  BY DEF ReadIssues
<1>2. /\ offset' = start + lim /\ allShown' = (start + lim >= Cardinality(InList))
      /\ steady' = (IF offset < 0 THEN {i \in InList : Untied(i)} ELSE steady) /\ lastSeen' = lastSeen /\ ~allShown
  BY DEF ReadIssues
<1>3. InList' = InList /\ (\A i : Untied(i)' = Untied(i)) /\ (\A i : Later(i)' = Later(i))
  BY <1>2 DEF InList, Untied, Later
<1>4. ASSUME NEW i \in steady' PROVE i \in InList /\ Untied(i) /\ (i \in issuesShown \/ Cardinality(Later(i)) >= start)
  BY <1>2, InListFinite
<1>5. start \in Nat /\ offset' \in Int /\ offset' >= 0
  BY <1>0, <1>2
<1> HIDE DEF start, lim
<1>6. ASSUME NEW i \in steady', Cardinality(Later(i)) < start + lim
      PROVE  i \in issuesShown'
  <2>1. CASE i \in issuesShown
    BY <1>1, <2>1
  <2>2. CASE Cardinality(Later(i)) >= start
    <3> DEFINE k == Cardinality(Later(i)) + 1
               last == IF start + lim > Len(s) THEN Len(s) ELSE start + lim
               t == SubSeq(s, start + 1, last)
    <3>1. k \in 1..Len(s) /\ s[k] = i /\ s \in Seq(InList) /\ Cardinality(Later(i)) \in Nat
      BY <1>4, PlaceOfUntied, InListFinite
    <3>2. start + 1 <= k /\ k <= last /\ k \in Nat /\ last \in Nat /\ last <= Len(s)
      BY <1>0, <1>5, <1>6, <2>2, <3>1
    <3> HIDE DEF k, last
    <3>4. i \in ToSet(t)
      BY <1>5, <3>1, <3>2, PartHas
    <3> QED BY <1>1, <3>4 DEF last
  <2> QED BY <1>4, <2>1, <2>2
<1>7. ASSUME NEW i \in steady' PROVE i \in issuesShown' \/ Cardinality(Later(i)) >= offset'
  BY <1>2, <1>5, <1>6, InListFinite
<1>8. allShown' => steady' \subseteq issuesShown'
  <2> SUFFICES ASSUME allShown', NEW i \in steady' PROVE i \in issuesShown'
    OBVIOUS
  <2>1. start + lim >= Cardinality(InList)
    BY <1>2
  <2>2. Cardinality(Later(i)) + 1 <= Cardinality(InList)
    <3>1. Cardinality(Later(i)) + 1 \in 1..Len(s) /\ Len(s) = Cardinality(InList)
      BY <1>4, PlaceOfUntied
    <3> QED BY <3>1, InListFinite
  <2>3. Cardinality(Later(i)) < start + lim
    BY <1>0, <1>5, <2>1, <2>2, InListFinite
  <2> QED BY <1>6, <2>3
<1> QED BY <1>2, <1>3, <1>4, <1>5, <1>7, <1>8

-----------------------------------------------------------------------------

ListingInv == EventInv /\ SteadyShown

LEMMA ListingInitInv == ListingInit => ListingInv
<1> SUFFICES ASSUME ListingInit PROVE ListingInv
  OBVIOUS
<1>1. EventTypes
  BY ListingAssumption, FS_EmptySet DEF ListingInit, EventTypes
<1>2. ShownSorted /\ Accounted
  BY DEF ListingInit, ShownSorted, Accounted
<1>3. SteadyShown
  BY DEF ListingInit, SteadyShown
<1> QED BY <1>1, <1>2, <1>3 DEF ListingInv, EventInv

LEMMA IssuesRest == ASSUME SteadyShown, UNCHANGED issueVars PROVE SteadyShown'
<1>1. UNCHANGED <<lastSeen, offset, issuesShown, allShown, steady>>
  BY DEF issueVars
<1>2. InList' = InList /\ (\A i : Untied(i)' = Untied(i)) /\ (\A i : Later(i)' = Later(i))
  BY <1>1 DEF InList, Untied, Later
<1> QED BY <1>1, <1>2 DEF SteadyShown

LEMMA EventsRest == ASSUME EventInv, UNCHANGED <<reader, instant, eventVars>> PROVE EventInv'
<1>1. UNCHANGED <<reader, instant, shelf, page, stayed>>
  BY DEF eventVars
<1> QED BY <1>1 DEF EventInv, EventTypes, ShownSorted, Accounted, From

LEMMA ListingStepInv == ASSUME ListingInv, [ListingNext]_listingVars PROVE ListingInv'
<1> USE DEF ListingInv
<1>1. ASSUME InstantPasses PROVE ListingInv'
  BY <1>1, ClockStep, IssuesRest DEF InstantPasses
<1>2. ASSUME NEW id \in RowIds, NEW at \in 0..(LastInstant + 1), EventArrives(id, at) PROVE ListingInv'
  BY <1>2, ArrivesStep, IssuesRest DEF EventArrives
<1>3. ASSUME NEW old \in 0..LastInstant, EventsExpire(old) PROVE ListingInv'
  BY <1>3, ExpireRowsStep, IssuesRest DEF EventsExpire
<1>4. ASSUME NEW n \in Asked, ReadEvents(n) PROVE ListingInv'
  BY <1>4, ReadEventsStep, IssuesRest DEF ReadEvents
<1>5. ASSUME NEW n \in Asked, ReadIssues(n) PROVE ListingInv'
  BY <1>5, ReadIssuesStep, EventsRest DEF ReadIssues
<1>6. ASSUME NEW i \in Listed, Leaves(i) PROVE ListingInv'
  <2>1. SteadyShown'
    BY <1>6 DEF Leaves, SteadyShown, InList
  <2> QED BY <1>6, <2>1, EventsRest DEF Leaves
<1>7. ASSUME NEW i \in Listed, NEW at \in 0..LastInstant, SeenAgain(i, at) PROVE ListingInv'
  BY <1>7, SeenStep, EventsRest DEF SeenAgain
<1>8. CASE UNCHANGED listingVars
  BY <1>8, EventsRest, IssuesRest DEF listingVars, eventVars, issueVars
<1> QED BY <1>1, <1>2, <1>3, <1>4, <1>5, <1>6, <1>7, <1>8 DEF ListingNext

\* Pages of events chained by their cursors are newest first, show none twice,
\* and in the end have shown every matching event that stayed and that the
\* window still has (events.go:274-300, cursor.go:10-12); pages of issues show
\* every issue that stayed where it was: any rows, times, limits and windows.
THEOREM PagesMissNothing == ListingSpec => []PagesComplete
<1>1. ListingInv => PagesComplete
  <2> SUFFICES ASSUME ListingInv PROVE PagesComplete
    OBVIOUS
  <2> USE DEF ListingInv, EventInv
  <2>1. page.shown \in Seq(Rows) /\ DOMAIN page.shown = 1..Len(page.shown)
    BY DEF EventTypes
  <2>2. \A a, b \in DOMAIN page.shown : a < b => Newer(page.shown[a], page.shown[b])
    BY <2>1 DEF ShownSorted
  <2>3. page.pc = "end" => \A r \in stayed : r \in ToSet(page.shown) \/ (reader = "viewer" /\ r.at < From)
    <3> SUFFICES ASSUME page.pc = "end", NEW r \in stayed
                 PROVE r \in ToSet(page.shown) \/ (reader = "viewer" /\ r.at < From)
      OBVIOUS
    <3>1. (\E k \in 1..Len(page.shown) : page.shown[k] = r) \/ (reader = "viewer" /\ r.at < From)
      BY DEF Accounted
    <3> QED BY <2>1, <3>1 DEF ToSet
  <2> QED BY <2>2, <2>3 DEF PagesComplete, SteadyShown
<1> QED BY <1>1, ListingInitInv, ListingStepInv, PTL DEF ListingSpec

-----------------------------------------------------------------------------
(* Charts. *)

CountRecord == [events : Nat, unhandled : Nat, sessions : Nat, crashed : Nat]
Columns == {"events", "unhandled", "sessions", "crashed"}

\* The unhandled are among the events, the crashed among the sessions.
TableOK(t) ==
  /\ t \in [HourStarts -> [NameSet -> CountRecord]]
  /\ \A h \in HourStarts, r \in NameSet : t[h][r].unhandled <= t[h][r].events /\ t[h][r].crashed <= t[h][r].sessions
CountsOK == TableOK(counts)

Cell(column) == [x \in HourStarts \X NameSet |-> counts[x[1]][x[2]][column]]

LEMMA ChartSets ==
  /\ IsFiniteSet(HourStarts) /\ HourStarts \subseteq Nat
  /\ IsFiniteSet(NameSet)
<1>1. IsFiniteSet(Mail) /\ Mail \subseteq Nat \X NameSet \X {"error", "crash", "healthy", "crashed"}
  BY ChartsAssumption
<1>2. \A m \in Mail : m[1] \in Nat
  BY <1>1
<1> DEFINE f == [m \in Mail |-> m[1]]
           I == DOMAIN Names
<1>3. HourStarts = {f[m] : m \in Mail}
  BY DEF HourStarts
<1>4. IsFiniteSet({f[m] : m \in Mail})
  <2> HIDE DEF f
  <2> QED BY <1>1, ImageFinite
<1>5. IsFiniteSet(I)
  <2>1. Len(Names) \in Nat /\ I = 1..Len(Names)
    BY ChartsAssumption
  <2> QED BY <2>1, FS_Interval
<1>6. NameSet = {Names[i] : i \in I}
  BY DEF NameSet, ToSet
<1>7. IsFiniteSet({Names[i] : i \in I})
  <2> HIDE DEF I
  <2> QED BY <1>5, ImageFinite
<1> QED BY <1>2, <1>3, <1>4, <1>6, <1>7 DEF HourStarts

LEMMA CellTyped ==
  ASSUME CountsOK, NEW column \in Columns
  PROVE  /\ IsFiniteSet(HourStarts \X NameSet)
         /\ \A h \in HourStarts, r \in NameSet : /\ Cell(column)[<<h, r>>] = counts[h][r][column]
                                                /\ counts[h][r][column] \in Nat
         /\ \A x \in HourStarts \X NameSet : Cell(column)[x] \in Nat
<1>1. IsFiniteSet(HourStarts \X NameSet)
  BY ChartSets, FS_Product
<1>2. ASSUME NEW h \in HourStarts, NEW r \in NameSet PROVE counts[h][r][column] \in Nat
  <2>1. counts[h][r] \in CountRecord
    BY DEF CountsOK, TableOK
  <2> QED BY <2>1 DEF CountRecord, Columns
<1>3. \A h \in HourStarts, r \in NameSet : Cell(column)[<<h, r>>] = counts[h][r][column]
  BY DEF Cell
<1> QED BY <1>1, <1>2, <1>3 DEF Cell

\* A sum of counts is a sum over the cells of their table.
LEMMA SumOfIs ==
  ASSUME CountsOK, NEW column \in Columns, NEW hs \in SUBSET HourStarts, NEW rs \in SUBSET NameSet
  PROVE  /\ IsFiniteSet(hs \X rs) /\ hs \X rs \subseteq HourStarts \X NameSet
         /\ \A x \in hs \X rs : Cell(column)[x] \in Nat
         /\ SumOf(hs, rs, column) = SumFunctionOnSet(Cell(column), hs \X rs)
         /\ SumOf(hs, rs, column) \in Nat
<1> DEFINE g == [x \in hs \X rs |-> counts[x[1]][x[2]][column]]
           T == hs \X rs
<1>1. T \subseteq HourStarts \X NameSet /\ DOMAIN g = T
  OBVIOUS
<1>2. IsFiniteSet(T)
  BY <1>1, CellTyped, FS_Subset
<1>3. \A x \in T : g[x] = Cell(column)[x] /\ Cell(column)[x] \in Nat
  <2>1. \A x \in T : g[x] = Cell(column)[x]
    BY <1>1 DEF Cell
  <2>2. \A x \in T : Cell(column)[x] \in Nat
    BY <1>1, CellTyped
  <2> QED BY <2>1, <2>2
<1>4. SumOf(hs, rs, column) = SumFunctionOnSet(g, T)
  BY DEF SumOf, SumFunction
<1> HIDE DEF g, T
<1>5. SumFunctionOnSet(g, T) = SumFunctionOnSet(Cell(column), T)
  BY <1>2, <1>3, SumEqual
<1>6. SumFunctionOnSet(Cell(column), T) \in Nat
  BY <1>2, <1>3, SumNat
<1> QED BY <1>1, <1>2, <1>3, <1>4, <1>5, <1>6 DEF T

LEMMA SumOfWithin ==
  ASSUME CountsOK, NEW column \in Columns, NEW hs \in SUBSET HourStarts, NEW rs \in SUBSET NameSet,
         NEW hs0 \in SUBSET hs, NEW rs0 \in SUBSET rs
  PROVE  SumOf(hs0, rs0, column) <= SumOf(hs, rs, column)
<1> DEFINE T == hs \X rs
           U == hs0 \X rs0
<1>1. U \subseteq T
  OBVIOUS
<1>2. hs0 \in SUBSET HourStarts /\ rs0 \in SUBSET NameSet
  OBVIOUS
<1>3. /\ IsFiniteSet(T) /\ \A x \in T : Cell(column)[x] \in Nat
      /\ SumOf(hs, rs, column) = SumFunctionOnSet(Cell(column), T)
  BY SumOfIs
<1>4. SumOf(hs0, rs0, column) = SumFunctionOnSet(Cell(column), U)
  BY <1>2, SumOfIs
<1> HIDE DEF T, U
<1> QED BY <1>1, <1>3, <1>4, SumSubset

\* One count of those summed.
LEMMA CountWithin ==
  ASSUME CountsOK, NEW column \in Columns, NEW hs \in SUBSET HourStarts, NEW rs \in SUBSET NameSet,
         NEW h \in hs, NEW r \in rs
  PROVE  counts[h][r][column] <= SumOf(hs, rs, column)
<1>1. h \in HourStarts /\ r \in NameSet /\ {h} \in SUBSET hs /\ {r} \in SUBSET rs
  OBVIOUS
<1>2. Cell(column)[<<h, r>>] = counts[h][r][column] /\ counts[h][r][column] \in Nat
  BY <1>1, CellTyped
<1>3. SumOf({h}, {r}, column) = SumFunctionOnSet(Cell(column), {h} \X {r})
  BY <1>1, SumOfIs
<1>4. {h} \X {r} = {<<h, r>>}
  OBVIOUS
<1>5. SumFunctionOnSet(Cell(column), {<<h, r>>}) = Cell(column)[<<h, r>>]
  <2> DEFINE f == Cell(column)
             x == <<h, r>>
  <2>1. f[x] \in Int
    BY <1>2
  <2> HIDE DEF f, x
  <2>2. SumFunctionOnSet(f, {x}) = f[x]
    BY <2>1, SumOne
  <2> QED BY <2>2 DEF f, x
<1>6. SumOf({h}, {r}, column) <= SumOf(hs, rs, column)
  BY <1>1, SumOfWithin
<1> QED BY <1>2, <1>3, <1>4, <1>5, <1>6

LEMMA NamesDrop ==
  ASSUME CountsOK, NEW column \in Columns, NEW hs \in SUBSET HourStarts, NEW rs \in SUBSET NameSet,
         NEW rs0 \in SUBSET rs, \A r \in rs \ rs0 : SumOf(hs, {r}, column) = 0
  PROVE  SumOf(hs, rs0, column) = SumOf(hs, rs, column)
<1> DEFINE T == hs \X rs
           U == hs \X rs0
<1>1. /\ IsFiniteSet(T) /\ \A x \in T : Cell(column)[x] \in Nat
      /\ SumOf(hs, rs, column) = SumFunctionOnSet(Cell(column), T)
  BY SumOfIs
<1>2. SumOf(hs, rs0, column) = SumFunctionOnSet(Cell(column), U)
  <2>1. rs0 \in SUBSET NameSet
    OBVIOUS
  <2> QED BY <2>1, SumOfIs
<1>3. ASSUME NEW x \in T \ U PROVE Cell(column)[x] = 0
  <2>1. PICK h \in hs, r \in rs : x = <<h, r>>
    OBVIOUS
  <2>2. r \in rs \ rs0 /\ {r} \in SUBSET NameSet /\ r \in {r} /\ h \in HourStarts /\ r \in NameSet
    BY <2>1
  <2>3. counts[h][r][column] <= SumOf(hs, {r}, column) /\ SumOf(hs, {r}, column) = 0
    BY <2>2, CountWithin
  <2>4. Cell(column)[<<h, r>>] = counts[h][r][column] /\ counts[h][r][column] \in Nat
    BY <2>2, CellTyped
  <2> QED BY <2>1, <2>3, <2>4
<1>4. U \in SUBSET T /\ IntsOn(Cell(column), T)
  BY <1>1 DEF IntsOn
<1> HIDE DEF T, U
<1>5. SumFunctionOnSet(Cell(column), U) = SumFunctionOnSet(Cell(column), T)
  BY <1>1, <1>3, <1>4, SumDrop
<1> QED BY <1>1, <1>2, <1>5

HourParts(parts, place, hs, rs, column, B) == \A b \in B : parts[b] = SumOf({h \in hs : place[h] = b}, rs, column)
NameParts(parts, place, hs, rs, column, B) == \A b \in B : parts[b] = SumOf(hs, {r \in rs : place[r] = b}, column)

\* Counts put in buckets by their hour are all in one bucket.
LEMMA HoursSplit ==
  ASSUME CountsOK, NEW column \in Columns, NEW hs \in SUBSET HourStarts, NEW rs \in SUBSET NameSet,
         NEW B, IsFiniteSet(B), NEW place, PlacedIn(place, hs, B),
         NEW parts, HourParts(parts, place, hs, rs, column, B)
  PROVE  SumFunctionOnSet(parts, B) = SumOf(hs, rs, column)
<1> DEFINE T == hs \X rs
           g == [x \in T |-> place[x[1]]]
           f == Cell(column)
<1>1. /\ IsFiniteSet(T) /\ (\A x \in T : f[x] \in Nat)
      /\ SumOf(hs, rs, column) = SumFunctionOnSet(f, T)
  BY SumOfIs
<1>2. PlacedIn(g, T, B)
  BY DEF PlacedIn
<1>3. ASSUME NEW b \in B PROVE parts[b] = SumFunctionOnSet(f, {x \in T : g[x] = b})
  <2> DEFINE at == {h \in hs : place[h] = b}
  <2>1. {x \in T : g[x] = b} = at \X rs
    OBVIOUS
  <2>2. at \in SUBSET HourStarts
    OBVIOUS
  <2>3. SumOf(at, rs, column) = SumFunctionOnSet(f, at \X rs)
    BY <2>2, SumOfIs
  <2>4. parts[b] = SumOf(at, rs, column)
    BY DEF HourParts
  <2> QED BY <2>1, <2>3, <2>4
<1>4. IntsOn(f, T)
  BY <1>1 DEF IntsOn
<1> HIDE DEF T, g, f
<1>5. FibreSums(parts, f, g, T, B)
  BY <1>3 DEF FibreSums
<1>6. SumFunctionOnSet(parts, B) = SumFunctionOnSet(f, T)
  BY <1>1, <1>2, <1>4, <1>5, SumFibres
<1> QED BY <1>1, <1>6

\* And by their release.
LEMMA NamesSplit ==
  ASSUME CountsOK, NEW column \in Columns, NEW hs \in SUBSET HourStarts, NEW rs \in SUBSET NameSet,
         NEW B, IsFiniteSet(B), NEW place, PlacedIn(place, rs, B),
         NEW parts, NameParts(parts, place, hs, rs, column, B)
  PROVE  SumFunctionOnSet(parts, B) = SumOf(hs, rs, column)
<1> DEFINE T == hs \X rs
           g == [x \in T |-> place[x[2]]]
           f == Cell(column)
<1>1. /\ IsFiniteSet(T) /\ (\A x \in T : f[x] \in Nat)
      /\ SumOf(hs, rs, column) = SumFunctionOnSet(f, T)
  BY SumOfIs
<1>2. PlacedIn(g, T, B)
  BY DEF PlacedIn
<1>3. ASSUME NEW b \in B PROVE parts[b] = SumFunctionOnSet(f, {x \in T : g[x] = b})
  <2> DEFINE at == {r \in rs : place[r] = b}
  <2>1. {x \in T : g[x] = b} = hs \X at
    OBVIOUS
  <2>2. at \in SUBSET NameSet
    OBVIOUS
  <2>3. SumOf(hs, at, column) = SumFunctionOnSet(f, hs \X at)
    BY <2>2, SumOfIs
  <2>4. parts[b] = SumOf(hs, at, column)
    BY DEF NameParts
  <2> QED BY <2>1, <2>3, <2>4
<1>4. IntsOn(f, T)
  BY <1>1 DEF IntsOn
<1> HIDE DEF T, g, f
<1>5. FibreSums(parts, f, g, T, B)
  BY <1>3 DEF FibreSums
<1>6. SumFunctionOnSet(parts, B) = SumFunctionOnSet(f, T)
  BY <1>1, <1>2, <1>4, <1>5, SumFibres
<1> QED BY <1>1, <1>6

\* A column never exceeds another that it never exceeds anywhere.
LEMMA SumOfColumns ==
  ASSUME CountsOK, NEW hs \in SUBSET HourStarts, NEW rs \in SUBSET NameSet
  PROVE  /\ SumOf(hs, rs, "unhandled") <= SumOf(hs, rs, "events")
         /\ SumOf(hs, rs, "crashed") <= SumOf(hs, rs, "sessions")
<1> DEFINE T == hs \X rs
<1>1. \A x \in T : /\ Cell("unhandled")[x] <= Cell("events")[x]
                   /\ Cell("crashed")[x] <= Cell("sessions")[x]
  <2> SUFFICES ASSUME NEW h \in hs, NEW r \in rs
               PROVE  /\ Cell("unhandled")[<<h, r>>] <= Cell("events")[<<h, r>>]
                      /\ Cell("crashed")[<<h, r>>] <= Cell("sessions")[<<h, r>>]
    OBVIOUS
  <2>1. h \in HourStarts /\ r \in NameSet
    OBVIOUS
  <2>2. counts[h][r].unhandled <= counts[h][r].events /\ counts[h][r].crashed <= counts[h][r].sessions
    BY <2>1 DEF CountsOK, TableOK
  <2>3. \A column \in Columns : Cell(column)[<<h, r>>] = counts[h][r][column]
    BY <2>1, CellTyped
  <2>4. /\ Cell("unhandled")[<<h, r>>] = counts[h][r].unhandled /\ Cell("events")[<<h, r>>] = counts[h][r].events
        /\ Cell("crashed")[<<h, r>>] = counts[h][r].crashed /\ Cell("sessions")[<<h, r>>] = counts[h][r].sessions
    BY <2>3 DEF Columns
  <2> QED BY <2>2, <2>4
<1>2. ASSUME NEW column \in Columns
      PROVE /\ IsFiniteSet(T) /\ IntsOn(Cell(column), T)
            /\ SumOf(hs, rs, column) = SumFunctionOnSet(Cell(column), T)
  <2>1. \A x \in T : Cell(column)[x] \in Nat
    BY SumOfIs
  <2> QED BY <2>1, SumOfIs DEF IntsOn
<1>3. "events" \in Columns /\ "unhandled" \in Columns /\ "sessions" \in Columns /\ "crashed" \in Columns
  BY DEF Columns
<1> HIDE DEF T
<1>4. SumFunctionOnSet(Cell("unhandled"), T) <= SumFunctionOnSet(Cell("events"), T)
  BY <1>1, <1>2, <1>3, SumAtMost
<1>5. SumFunctionOnSet(Cell("crashed"), T) <= SumFunctionOnSet(Cell("sessions"), T)
  BY <1>1, <1>2, <1>3, SumAtMost
<1> QED BY <1>2, <1>3, <1>4, <1>5

\* A window starts on its grid, and health is counted from the start or before.
Windowed(pg) ==
  /\ pg.width \in Nat \ {0} /\ pg.from \in Int /\ pg.to \in Int
  /\ pg.health \in Int /\ pg.health <= pg.from
  /\ \E q \in Int : pg.from = q * pg.width

LEMMA GridHas ==
  ASSUME NEW from \in Int, NEW to \in Int, NEW w \in Nat \ {0}, NEW k \in Int,
         from <= from + k * w, from + k * w < to
  PROVE  from + k * w \in {from + j * w : j \in 0..(to - from)} \cap (from..(to - 1))
<1>1. k * w \in Int /\ 0 <= k * w /\ k * w < to - from
  OBVIOUS
<1>2. 0 <= k
  <2>1. 0 * w <= k * w /\ 0 \in Int
    BY <1>1
  <2> QED BY <2>1, Multiples
<1>3. k <= k * w
  <2>1. CASE k = 0
    BY <1>1, <2>1
  <2>2. CASE k # 0
    <3>1. k \in Nat \ {0} /\ 1 \in Int /\ w \in Int /\ 1 <= w
      BY <1>2, <2>2
    <3>2. 1 * k <= w * k
      BY <3>1, Multiples
    <3>3. 1 * k = k /\ w * k = k * w
      BY <3>1
    <3> QED BY <3>2, <3>3
  <2> QED BY <2>1, <2>2
<1>4. k \in 0..(to - from)
  BY <1>1, <1>2, <1>3
<1>5. from + k * w \in from..(to - 1)
  BY <1>1
<1> QED BY <1>4, <1>5

LEMMA HoursOfPage ==
  ASSUME NEW pg, Windowed(pg)
  PROVE  /\ Hours(pg) \in SUBSET HourStarts
         /\ \A h \in Hours(pg) : h \in Int /\ pg.from <= h /\ h < pg.to
         /\ IsFiniteSet(Buckets(pg)) /\ Buckets(pg) \subseteq Int
         /\ \A h \in Hours(pg) : (h \div pg.width) * pg.width \in Buckets(pg)
<1>1. ASSUME NEW h \in Hours(pg) PROVE h \in Int /\ pg.from <= h /\ h < pg.to
  BY ChartSets DEF Hours, HoursIn
<1>2. IsFiniteSet(Buckets(pg)) /\ Buckets(pg) \subseteq Int
  <2> DEFINE I == pg.from..(pg.to - 1)
  <2>1. pg.from \in Int /\ pg.to - 1 \in Int
    BY DEF Windowed
  <2>2. IsFiniteSet(I) /\ I \subseteq Int
    BY <2>1, FS_Interval
  <2>3. Buckets(pg) \subseteq I
    BY DEF Buckets
  <2> HIDE DEF I
  <2> QED BY <2>2, <2>3, FS_Subset
<1>3. ASSUME NEW h \in Hours(pg) PROVE (h \div pg.width) * pg.width \in Buckets(pg)
  <2> DEFINE w == pg.width
             d == h \div w
  <2>1. w \in Nat \ {0} /\ h \in Int
    BY <1>1 DEF Windowed
  <2>2. PICK q \in Int : pg.from = q * w
    BY DEF Windowed
  <2>3. d \in Int /\ d * w \in Int /\ d * w <= h /\ (q * w <= h <=> q <= d)
    <3> HIDE DEF w
    <3> QED BY <2>1, FloorIs
  <2> HIDE DEF d, w
  <2>4. q <= d
    BY <1>1, <2>2, <2>3
  <2>5. q * w <= d * w /\ q * w \in Int
    BY <2>1, <2>3, <2>4, Multiples
  <2>6. d * w = pg.from + (d - q) * w /\ d - q \in Int
    BY <2>1, <2>2, <2>3
  <2>7. pg.from <= d * w /\ d * w < pg.to
    BY <1>1, <2>2, <2>3, <2>5 DEF Windowed
  <2>8. d * w \in {pg.from + j * w : j \in 0..(pg.to - pg.from)} \cap (pg.from..(pg.to - 1))
    <3> DEFINE k == d - q
    <3>1. k \in Int /\ d * w = pg.from + k * w /\ pg.from \in Int /\ pg.to \in Int
      BY <2>6 DEF Windowed
    <3> HIDE DEF k
    <3>2. pg.from <= pg.from + k * w /\ pg.from + k * w < pg.to
      BY <2>7, <3>1
    <3>3. pg.from + k * w \in {pg.from + j * w : j \in 0..(pg.to - pg.from)} \cap (pg.from..(pg.to - 1))
      BY <2>1, <3>1, <3>2, GridHas
    <3> QED BY <3>1, <3>3
  <2> QED BY <2>8 DEF Buckets, d, w
<1> QED BY <1>1, <1>2, <1>3 DEF Hours, HoursIn

\* Bars of the hours of a page, whatever releases they are of.
LEMMA BarsSum ==
  ASSUME CountsOK, NEW column \in Columns, NEW pg, Windowed(pg), NEW rs \in SUBSET NameSet,
         NEW parts, \A b \in Buckets(pg) :
                      parts[b] = SumOf({h \in Hours(pg) : (h \div pg.width) * pg.width = b}, rs, column)
  PROVE  SumFunctionOnSet(parts, Buckets(pg)) = SumOf(Hours(pg), rs, column)
<1> DEFINE place == [h \in Hours(pg) |-> (h \div pg.width) * pg.width]
<1>1. Hours(pg) \in SUBSET HourStarts /\ IsFiniteSet(Buckets(pg)) /\ PlacedIn(place, Hours(pg), Buckets(pg))
  BY HoursOfPage DEF PlacedIn
<1>2. ASSUME NEW b \in Buckets(pg) PROVE parts[b] = SumOf({h \in Hours(pg) : place[h] = b}, rs, column)
  <2>1. {h \in Hours(pg) : place[h] = b} = {h \in Hours(pg) : (h \div pg.width) * pg.width = b}
    OBVIOUS
  <2> QED BY <2>1
<1> HIDE DEF place
<1>3. HourParts(parts, place, Hours(pg), rs, column, Buckets(pg))
  BY <1>2 DEF HourParts
<1> QED BY <1>1, <1>3, HoursSplit

\* The bars of a chart hold every unhandled event of the window.
LEMMA TimelineSum ==
  ASSUME CountsOK, NEW pg, Windowed(pg)
  PROVE  SumBars(Chart(Timeline(pg))) = SumOf(Hours(pg), NameSet, "unhandled")
<1> DEFINE B == Buckets(pg)
           A == Active(pg)
           S == {SeriesOf(pg, r) : r \in A}
           at(b) == {h \in Hours(pg) : (h \div pg.width) * pg.width = b}
           of(s) == {r \in A : SeriesOf(pg, r) = s}
           t == Timeline(pg)
           shown == {s \in UNION {DOMAIN t[b] : b \in DOMAIN t} : \E b \in DOMAIN t : t[b][s] > 0}
           chart == Chart(t)
           total(b) == SumOf(at(b), A, "unhandled")
<1>0. /\ Hours(pg) \in SUBSET HourStarts /\ IsFiniteSet(B) /\ A \in SUBSET NameSet /\ NameSet \in SUBSET NameSet
      /\ "unhandled" \in Columns /\ "events" \in Columns
      /\ \A b \in B : at(b) \in SUBSET HourStarts
  BY HoursOfPage DEF Active, Columns
<1>1. /\ DOMAIN t = B
      /\ \A b \in B : DOMAIN t[b] = S /\ \A s \in S : t[b][s] = SumOf(at(b), of(s), "unhandled")
  BY DEF Timeline
<1>2. /\ DOMAIN chart = B
      /\ \A b \in B : DOMAIN chart[b] = shown /\ \A s \in shown : chart[b][s] = t[b][s]
  BY <1>1 DEF Chart
<1>3. IsFiniteSet(S)
  <2> DEFINE f == [r \in A |-> SeriesOf(pg, r)]
  <2>1. S = {f[r] : r \in A} /\ IsFiniteSet(A)
    BY <1>0, ChartSets, FS_Subset
  <2> HIDE DEF f, S, A
  <2> QED BY <2>1, ImageFinite
<1>4. ASSUME NEW b \in B, NEW s \in S PROVE t[b][s] \in Nat
  <2> DEFINE hs == at(b)
             rs == of(s)
  <2>1. rs \in SUBSET NameSet /\ hs \in SUBSET HourStarts
    BY <1>0
  <2>2. t[b][s] = SumOf(hs, rs, "unhandled")
    BY <1>1
  <2>3. "unhandled" \in Columns
    BY <1>0
  <2> HIDE DEF hs, rs
  <2>4. SumOf(hs, rs, "unhandled") \in Nat
    BY <2>1, <2>3, SumOfIs
  <2> QED BY <2>2, <2>4
<1>5. ASSUME NEW b \in B PROVE SumFunctionOnSet(t[b], S) = total(b)
  <2> DEFINE place == [r \in A |-> SeriesOf(pg, r)]
  <2>1. PlacedIn(place, A, S)
    BY DEF PlacedIn
  <2>2. ASSUME NEW s \in S PROVE t[b][s] = SumOf(at(b), {r \in A : place[r] = s}, "unhandled")
    <3>1. {r \in A : place[r] = s} = of(s)
      OBVIOUS
    <3> QED BY <1>1, <3>1
  <2> DEFINE f == t[b]
             hs == at(b)
  <2>3. NameParts(f, place, hs, A, "unhandled", S)
    BY <2>2 DEF NameParts
  <2>4. hs \in SUBSET HourStarts
    BY <1>0
  <2> HIDE DEF place, f, hs, S, A
  <2>5. SumFunctionOnSet(f, S) = SumOf(hs, A, "unhandled")
    BY <1>0, <1>3, <2>1, <2>3, <2>4, NamesSplit
  <2> QED BY <2>5 DEF f, hs
<1>6. shown \subseteq S /\ \A b \in B : \A s \in S \ shown : t[b][s] = 0
  <2>1. shown \subseteq S
    BY <1>1
  <2>2. ASSUME NEW b \in B, NEW s \in S \ shown PROVE t[b][s] = 0
    <3>1. s \in UNION {DOMAIN t[c] : c \in DOMAIN t} /\ ~(t[b][s] > 0)
      BY <1>1
    <3> QED BY <1>4, <3>1
  <2> QED BY <2>1, <2>2
<1> HIDE DEF shown, chart, t, S
<1>7. ASSUME NEW b \in B PROVE SumFunction(chart[b]) = total(b)
  <2> DEFINE f == chart[b]
             g == t[b]
  <2>1. SumFunction(f) = SumFunctionOnSet(f, shown)
    BY <1>2 DEF SumFunction
  <2>2. IsFiniteSet(shown) /\ \A s \in shown : f[s] = g[s]
    BY <1>2, <1>3, <1>6, FS_Subset
  <2>3. IntsOn(g, S) /\ shown \in SUBSET S /\ \A s \in S \ shown : g[s] = 0
    BY <1>4, <1>6 DEF IntsOn
  <2> HIDE DEF f, g
  <2>4. SumFunctionOnSet(f, shown) = SumFunctionOnSet(g, shown)
    BY <2>2, SumEqual
  <2>5. SumFunctionOnSet(g, shown) = SumFunctionOnSet(g, S)
    BY <1>3, <2>3, SumDrop
  <2>6. SumFunctionOnSet(g, S) = total(b)
    BY <1>5 DEF g
  <2> QED BY <2>1, <2>4, <2>5, <2>6 DEF f
<1> DEFINE parts == [b \in B |-> SumFunction(chart[b])]
<1>8. SumBars(chart) = SumFunctionOnSet(parts, B)
  BY <1>2 DEF SumBars, SumFunction
<1>9. \A b \in B : parts[b] = SumOf(at(b), A, "unhandled")
  BY <1>7
<1>10. SumFunctionOnSet(parts, B) = SumOf(Hours(pg), A, "unhandled")
  <2> HIDE DEF parts, A
  <2> QED BY <1>0, <1>9, BarsSum
<1>11. ASSUME NEW r \in NameSet \ A PROVE SumOf(Hours(pg), {r}, "unhandled") = 0
  <2>1. {r} \in SUBSET NameSet
    OBVIOUS
  <2>2. SumOf(Hours(pg), {r}, "unhandled") <= SumOf(Hours(pg), {r}, "events")
    BY <1>0, <2>1, SumOfColumns
  <2>3. SumOf(Hours(pg), {r}, "unhandled") \in Nat /\ SumOf(Hours(pg), {r}, "events") \in Nat
    BY <1>0, <2>1, SumOfIs
  <2>4. ~(SumOf(Hours(pg), {r}, "events") > 0)
    BY DEF Active
  <2> QED BY <2>2, <2>3, <2>4
<1> HIDE DEF A, parts
<1>12. SumOf(Hours(pg), A, "unhandled") = SumOf(Hours(pg), NameSet, "unhandled")
  BY <1>0, <1>11, NamesDrop
<1> QED BY <1>8, <1>10, <1>12 DEF chart, t

LEMMA SparkSum ==
  ASSUME CountsOK, NEW pg, Windowed(pg)
  PROVE  SumBars(Spark(pg)) = SumOf(Hours(pg), NameSet, "events")
<1> DEFINE B == Buckets(pg)
           at(b) == {h \in Hours(pg) : (h \div pg.width) * pg.width = b}
           bars == Spark(pg)
           parts == [b \in B |-> SumFunction(bars[b])]
<1>0. /\ Hours(pg) \in SUBSET HourStarts /\ NameSet \in SUBSET NameSet /\ "events" \in Columns
      /\ \A b \in B : at(b) \in SUBSET HourStarts
  BY HoursOfPage DEF Columns
<1>1. DOMAIN bars = B /\ \A b \in B : bars[b] = [events |-> SumOf(at(b), NameSet, "events")]
  BY DEF Spark
<1>2. ASSUME NEW b \in B PROVE parts[b] = SumOf(at(b), NameSet, "events")
  <2> DEFINE n == SumOf(at(b), NameSet, "events")
             f == [events |-> n]
  <2>1. n \in Nat
    BY <1>0, SumOfIs
  <2>2. DOMAIN f = {"events"} /\ f["events"] = n
    OBVIOUS
  <2> HIDE DEF n, f
  <2>3. SumFunctionOnSet(f, {"events"}) = n
    BY <2>1, <2>2, SumOne
  <2>4. SumFunction(f) = n
    BY <2>2, <2>3 DEF SumFunction
  <2> QED BY <1>1, <2>4 DEF f, n
<1>3. SumBars(bars) = SumFunctionOnSet(parts, B)
  BY <1>1 DEF SumBars, SumFunction
<1> HIDE DEF parts
<1>4. SumFunctionOnSet(parts, B) = SumOf(Hours(pg), NameSet, "events")
  BY <1>0, <1>2, BarsSum
<1> QED BY <1>3, <1>4

LEMMA SeriesSums ==
  ASSUME CountsOK, NEW pg, Windowed(pg), pg.version \in NameSet, NEW s \in {"events", "unhandled"}
  PROVE  SeriesSum(ReleaseTimeline(pg), s) = SumOf(Hours(pg), {pg.version}, s)
<1> DEFINE B == Buckets(pg)
           bars == ReleaseTimeline(pg)
           parts == [b \in B |-> bars[b][s]]
<1>1. /\ DOMAIN bars = B
      /\ \A b \in B : bars[b][s] = SumOf({h \in Hours(pg) : (h \div pg.width) * pg.width = b}, {pg.version}, s)
  BY DEF ReleaseTimeline
<1>2. SeriesSum(bars, s) = SumFunctionOnSet(parts, B)
  BY <1>1 DEF SeriesSum, SumFunction
<1>3. \A b \in B : parts[b] = SumOf({h \in Hours(pg) : (h \div pg.width) * pg.width = b}, {pg.version}, s)
  BY <1>1
<1>4. s \in Columns /\ {pg.version} \in SUBSET NameSet
  BY DEF Columns
<1> HIDE DEF parts
<1>5. SumFunctionOnSet(parts, B) = SumOf(Hours(pg), {pg.version}, s)
  BY <1>3, <1>4, BarsSum
<1> QED BY <1>2, <1>5

\* Of the sessions of a release, those that crashed.
LEMMA RateIs ==
  ASSUME CountsOK, NEW r \in NameSet, NEW from, NEW to
  PROVE  /\ RateOf(r, from, to)[1] = SumOf(HoursIn(from, to), {r}, "sessions")
         /\ RateOf(r, from, to)[1] \in Nat /\ RateOf(r, from, to)[2] \in Nat
         /\ RateOf(r, from, to)[2] <= RateOf(r, from, to)[1]
<1> DEFINE hs == HoursIn(from, to)
           rs == {r}
<1>1. hs \in SUBSET HourStarts /\ rs \in SUBSET NameSet /\ "sessions" \in Columns /\ "crashed" \in Columns
  BY DEF HoursIn, Columns
<1>2. RateOf(r, from, to) = <<SumOf(hs, rs, "sessions"), SumOf(hs, rs, "crashed")>>
  BY DEF RateOf
<1> HIDE DEF hs, rs
<1>3. SumOf(hs, rs, "sessions") \in Nat /\ SumOf(hs, rs, "crashed") \in Nat
  BY <1>1, SumOfIs
<1>4. SumOf(hs, rs, "crashed") <= SumOf(hs, rs, "sessions")
  BY <1>1, SumOfColumns
<1>5. SumOf(hs, rs, "sessions") = SumOf(HoursIn(from, to), {r}, "sessions")
  BY DEF hs, rs
<1> QED BY <1>2, <1>3, <1>4, <1>5

\* The days of a page cut its hours, from the start of a day.
DayStarts(pg) == {pg.health + k * Day : k \in 0..(pg.to - pg.health)} \cap (pg.health..(pg.to - 1))
DayEnd(pg, d) == IF d + Day < pg.to THEN d + Day ELSE pg.to
DayOf(pg, h)  == pg.health + ((h - pg.health) \div Day) * Day

LEMMA DaysCut ==
  ASSUME NEW pg, Windowed(pg)
  PROVE  /\ IsFiniteSet(DayStarts(pg))
         /\ \A h \in HoursIn(pg.health, pg.to) : DayOf(pg, h) \in DayStarts(pg)
         /\ \A d \in DayStarts(pg) :
              HoursIn(d, DayEnd(pg, d)) = {h \in HoursIn(pg.health, pg.to) : DayOf(pg, h) = d}
<1> DEFINE a == pg.health
           z == pg.to
<1>0. Day \in Nat \ {0} /\ Day \in Int /\ a \in Int /\ z \in Int /\ \A h \in HourStarts : h \in Int
  BY ChartsAssumption, ChartSets DEF Windowed
<1>1. IsFiniteSet(DayStarts(pg))
  <2> DEFINE I == a..(z - 1)
  <2>1. IsFiniteSet(I)
    <3>1. z - 1 \in Int
      BY <1>0
    <3> HIDE DEF a, z
    <3> QED BY <1>0, <3>1, FS_Interval
  <2>2. DayStarts(pg) \subseteq I
    BY DEF DayStarts
  <2> HIDE DEF I
  <2> QED BY <2>1, <2>2, FS_Subset
<1>2. ASSUME NEW h \in HourStarts, NEW d \in Int
      PROVE  /\ DayOf(pg, h) \in Int /\ DayOf(pg, h) <= h /\ h < DayOf(pg, h) + Day
             /\ \A k \in Int : d = a + k * Day /\ d <= h /\ h < d + Day => DayOf(pg, h) = d
             /\ a <= h => \E k \in Int : DayOf(pg, h) = a + k * Day /\ a <= a + k * Day
  <2> DEFINE x == h - a
             e == x \div Day
  <2>1. x \in Int
    BY <1>0
  <2>2. e \in Int /\ e * Day \in Int /\ e * Day <= x /\ x < e * Day + Day /\ \A q \in Int : q * Day <= x <=> q <= e
    <3> HIDE DEF x
    <3> QED BY <1>0, <2>1, FloorIs
  <2>3. DayOf(pg, h) = a + e * Day
    BY DEF DayOf
  <2> HIDE DEF e
  <2>4. DayOf(pg, h) \in Int /\ DayOf(pg, h) <= h /\ h < DayOf(pg, h) + Day
    BY <1>0, <2>1, <2>2, <2>3
  <2>5. ASSUME NEW k \in Int, d = a + k * Day, d <= h, h < d + Day PROVE DayOf(pg, h) = d
    <3>1. k * Day \in Int /\ (k + 1) * Day = k * Day + Day /\ k + 1 \in Int
      BY <1>0
    <3>2. k * Day <= x /\ ~((k + 1) * Day <= x)
      BY <1>0, <2>5, <3>1
    <3> HIDE DEF x
    <3>3. k <= e /\ ~(k + 1 <= e)
      BY <2>2, <3>1, <3>2
    <3>4. k = e
      BY <2>2, <3>3
    <3> QED BY <2>3, <2>5, <3>4
  <2>6. ASSUME a <= h PROVE a <= a + e * Day
    <3>1. 0 * Day <= x /\ 0 \in Int
      BY <1>0, <2>6
    <3> HIDE DEF x
    <3>2. 0 <= e
      BY <2>2, <3>1
    <3>3. 0 * Day <= e * Day
      BY <1>0, <2>2, <3>2, Multiples
    <3> QED BY <1>0, <2>2, <3>3
  <2> QED BY <2>2, <2>3, <2>4, <2>5, <2>6
<1>3. ASSUME NEW h \in HoursIn(a, z) PROVE DayOf(pg, h) \in DayStarts(pg)
  <2>1. h \in HourStarts /\ h \in Int /\ a <= h /\ h < z
    BY <1>0 DEF HoursIn
  <2>2. PICK k \in Int : DayOf(pg, h) = a + k * Day /\ a <= a + k * Day
    BY <1>2, <2>1
  <2>3. a + k * Day < z
    BY <1>0, <1>2, <2>1, <2>2
  <2>4. a + k * Day \in {a + j * Day : j \in 0..(z - a)} \cap (a..(z - 1))
    BY <1>0, <2>2, <2>3, GridHas
  <2> QED BY <2>2, <2>4 DEF DayStarts
<1>4. ASSUME NEW d \in DayStarts(pg)
      PROVE  HoursIn(d, DayEnd(pg, d)) = {h \in HoursIn(a, z) : DayOf(pg, h) = d}
  <2>1. PICK k \in 0..(z - a) : d = a + k * Day
    BY DEF DayStarts
  <2>2. k \in Int /\ d \in Int /\ a <= d /\ d < z
    BY <1>0 DEF DayStarts
  <2>3. ASSUME NEW h \in HourStarts
        PROVE  (d <= h /\ h < DayEnd(pg, d)) <=> (a <= h /\ h < z /\ DayOf(pg, h) = d)
    <3>1. h \in Int
      BY <1>0
    <3>2. h < DayEnd(pg, d) <=> h < d + Day /\ h < z
      BY <1>0, <2>2, <3>1 DEF DayEnd
    <3>3. ASSUME d <= h, h < d + Day PROVE DayOf(pg, h) = d
      BY <1>2, <2>1, <2>2, <3>3
    <3>4. ASSUME DayOf(pg, h) = d PROVE d <= h /\ h < d + Day
      BY <1>2, <2>2, <3>4
    <3>5. d <= h => a <= h
      BY <1>0, <2>2, <3>1
    <3> QED BY <3>2, <3>3, <3>4, <3>5
  <2> QED BY <2>3 DEF HoursIn
<1> QED BY <1>1, <1>3, <1>4

\* The days drawn under the row of a release hold its sessions.
LEMMA DaysSum ==
  ASSUME CountsOK, NEW pg, Windowed(pg), pg.version \in NameSet
  PROVE  LET days == DailyHealth(pg)
         IN  /\ SumDays(days, 1) \in Nat /\ SumDays(days, 2) <= SumDays(days, 1)
             /\ pg.kind = "release" =>
                  SumDays(days, 1) = SumOf(HoursIn(pg.health, pg.to), {pg.version}, "sessions")
<1> DEFINE days == DailyHealth(pg)
           D == DOMAIN days
           hs == HoursIn(pg.health, pg.to)
           rs == {pg.version}
           parts == [i \in {1, 2} |-> [d \in D |-> days[d][i]]]
<1>1. /\ D \subseteq DayStarts(pg) /\ (pg.kind = "release" => D = DayStarts(pg))
      /\ \A d \in D : days[d] = RateOf(pg.version, d, DayEnd(pg, d))
  BY DEF DailyHealth, DayStarts, DayEnd
<1>2. /\ SumDays(days, 1) = SumFunctionOnSet(parts[1], D)
      /\ SumDays(days, 2) = SumFunctionOnSet(parts[2], D)
  BY DEF SumDays, SumFunction
<1>3. \A d \in D : /\ parts[1][d] \in Nat /\ parts[2][d] \in Nat /\ parts[2][d] <= parts[1][d]
                   /\ parts[1][d] = SumOf(HoursIn(d, DayEnd(pg, d)), rs, "sessions")
  <2> SUFFICES ASSUME NEW d \in D
               PROVE /\ parts[1][d] \in Nat /\ parts[2][d] \in Nat /\ parts[2][d] <= parts[1][d]
                     /\ parts[1][d] = SumOf(HoursIn(d, DayEnd(pg, d)), rs, "sessions")
    OBVIOUS
  <2>1. parts[1][d] = days[d][1] /\ parts[2][d] = days[d][2]
    OBVIOUS
  <2>2. days[d] = RateOf(pg.version, d, DayEnd(pg, d))
    BY <1>1
  <2> HIDE DEF parts, days
  <2> QED BY <2>1, <2>2, RateIs
<1>4. IsFiniteSet(D)
  <2> HIDE DEF D
  <2> QED BY <1>1, DaysCut, FS_Subset
<1> HIDE DEF parts, days, D
<1>5. SumFunctionOnSet(parts[1], D) \in Nat
  BY <1>3, <1>4, SumNat
<1>6. SumFunctionOnSet(parts[2], D) <= SumFunctionOnSet(parts[1], D)
  <2> DEFINE f == parts[2]
             g == parts[1]
  <2>1. IntsOn(f, D) /\ IntsOn(g, D) /\ \A d \in D : f[d] <= g[d]
    BY <1>3 DEF IntsOn
  <2> HIDE DEF f, g
  <2>2. SumFunctionOnSet(f, D) <= SumFunctionOnSet(g, D)
    BY <1>4, <2>1, SumAtMost
  <2> QED BY <2>2 DEF f, g
<1>7. ASSUME pg.kind = "release" PROVE SumFunctionOnSet(parts[1], D) = SumOf(hs, rs, "sessions")
  <2> DEFINE place == [h \in hs |-> DayOf(pg, h)]
             f == parts[1]
  <2>1. D = DayStarts(pg)
    BY <1>1, <1>7
  <2>2. PlacedIn(place, hs, D)
    BY <2>1, DaysCut DEF PlacedIn
  <2>3. ASSUME NEW d \in D PROVE f[d] = SumOf({h \in hs : place[h] = d}, rs, "sessions")
    <3>1. HoursIn(d, DayEnd(pg, d)) = {h \in hs : DayOf(pg, h) = d}
      BY <2>1, DaysCut
    <3>2. {h \in hs : place[h] = d} = {h \in hs : DayOf(pg, h) = d}
      OBVIOUS
    <3> QED BY <1>3, <3>1, <3>2
  <2>4. HourParts(f, place, hs, rs, "sessions", D)
    <3> HIDE DEF f, place
    <3> QED BY <2>3 DEF HourParts
  <2>5. "sessions" \in Columns /\ hs \in SUBSET HourStarts /\ rs \in SUBSET NameSet
    BY DEF Columns, HoursIn
  <2> HIDE DEF f, place, hs, rs
  <2>6. SumFunctionOnSet(f, D) = SumOf(hs, rs, "sessions")
    BY <1>4, <2>2, <2>4, <2>5, HoursSplit
  <2> QED BY <2>6 DEF f
<1> QED BY <1>2, <1>5, <1>6, <1>7 DEF days

\* A release that had events before the window's end has had its last one.
LEMMA Greatest ==
  ASSUME NEW S, IsFiniteSet(S), S \subseteq Int, S # {}
  PROVE  Max(S) \in S
<1> DEFINE F == {T \in SUBSET S : T = {} \/ \E x \in T : \A y \in T : x >= y}
<1>1. {} \in F
  OBVIOUS
<1>2. \A T \in SUBSET S : \A x \in S \ T : T \in F => T \cup {x} \in F
  <2> SUFFICES ASSUME NEW T \in SUBSET S, NEW x \in S \ T, T \in F PROVE T \cup {x} \in F
    OBVIOUS
  <2>1. CASE T = {}
    <3>1. T \cup {x} = {x} /\ x >= x
      BY <2>1
    <3> QED BY <3>1
  <2>2. CASE T # {}
    <3>1. PICK m \in T : \A y \in T : m >= y
      BY <2>2
    <3>2. CASE m >= x
      BY <3>1, <3>2
    <3>3. CASE ~(m >= x)
      <4>1. x \in Int /\ \A y \in T : y \in Int
        OBVIOUS
      <4>2. \A y \in T \cup {x} : x >= y
        BY <3>1, <3>3, <4>1
      <4> QED BY <4>2
    <3> QED BY <3>2, <3>3
  <2> QED BY <2>1, <2>2
<1> HIDE DEF F
<1>3. S \in F
  BY <1>1, <1>2, SetInduction
<1>4. \E x \in S : \A y \in S : x >= y
  BY <1>3 DEF F
<1> QED BY <1>4 DEF Max

\* Names stand where they are found.
LEMMA PlaceOfName ==
  ASSUME NEW r \in NameSet
  PROVE  LET place == SelectInSeq(Names, LAMBDA x : x = r)
         IN  place \in Int /\ Names[place] = r
<1> DEFINE I == {i \in 1..Len(Names) : Names[i] = r}
           place == SelectInSeq(Names, LAMBDA x : x = r)
<1>1. Len(Names) \in Nat /\ DOMAIN Names = 1..Len(Names)
  BY ChartsAssumption
<1>2. PICK i \in DOMAIN Names : Names[i] = r
  BY DEF NameSet, ToSet
<1>3. I # {} /\ I \subseteq Nat
  BY <1>1, <1>2
<1>4. place = Min(I)
  BY <1>3 DEF SelectInSeq
<1>5. Min(I) \in I
  <2> HIDE DEF I
  <2>1. \E n \in I : \A m \in I : n <= m
    BY <1>3, LeastNat
  <2> QED BY <2>1 DEF Min
<1> QED BY <1>3, <1>4, <1>5

\* The latest release is one of the releases.
LEMMA LatestIsOne ==
  ASSUME CountsOK, NEW from, NEW to
  PROVE  Latest(from, to) # "" => Latest(from, to) \in NameSet
<1>0. HourStarts \subseteq Int
  <2>1. \A h \in HourStarts : h \in Nat
    BY ChartSets
  <2>2. \A n \in Nat : n \in Int
    OBVIOUS
  <2> QED BY <2>1, <2>2
<1> DEFINE active == {r \in NameSet \ {""} : SumOf(HoursIn(from, to), {r}, "events") > 0}
           last(r) == Max({h \in HoursIn(from, to) : counts[h][r].events > 0})
           place(r) == SelectInSeq(Names, LAMBDA x : x = r)
           Newer1(r, s) == last(r) > last(s) \/ (last(r) = last(s) /\ place(r) > place(s))
           R == {p \in active \X active : Newer1(p[1], p[2])}
<1>1. Latest(from, to) = IF active = {} THEN "" ELSE CHOOSE r \in active : \A s \in active \ {r} : Newer1(r, s)
  BY DEF Latest
<1>2. ASSUME NEW r \in active PROVE last(r) \in Int
  <2> DEFINE H == {h \in HoursIn(from, to) : counts[h][r].events > 0}
             hs == HoursIn(from, to)
  <2>1. hs \in SUBSET HourStarts /\ {r} \in SUBSET NameSet /\ r \in NameSet /\ "events" \in Columns
    BY DEF HoursIn, Columns
  <2>2. IsFiniteSet(H) /\ H \subseteq Int
    <3>1. H \subseteq HourStarts
      BY <2>1
    <3> HIDE DEF H
    <3>2. IsFiniteSet(H)
      BY <3>1, ChartSets, FS_Subset
    <3> QED BY <1>0, <3>1, <3>2
  <2>3. H # {}
    <3> SUFFICES ASSUME H = {} PROVE FALSE
      OBVIOUS
    <3> DEFINE T == hs \X {r}
    <3>1. /\ IsFiniteSet(T) /\ (\A x \in T : Cell("events")[x] \in Nat)
          /\ SumOf(hs, {r}, "events") = SumFunctionOnSet(Cell("events"), T)
      BY <2>1, SumOfIs
    <3>2. ASSUME NEW h \in hs PROVE Cell("events")[<<h, r>>] = 0
      <4>1. h \in HourStarts
        BY <2>1
      <4>2. Cell("events")[<<h, r>>] = counts[h][r].events /\ counts[h][r].events \in Nat
        <5>1. Cell("events")[<<h, r>>] = counts[h][r]["events"] /\ counts[h][r]["events"] \in Nat
          BY <2>1, <4>1, CellTyped
        <5> QED BY <5>1
      <4>3. ~(counts[h][r].events > 0)
        OBVIOUS
      <4> HIDE DEF active, hs, H
      <4> QED BY <4>2, <4>3
    <3>5. \A x \in T : Cell("events")[x] = 0
      <4> HIDE DEF hs, active, H
      <4> QED BY <3>2
    <3> HIDE DEF T
    <3>3. SumFunctionOnSet(Cell("events"), T) = 0
      BY <3>1, <3>5, SumZero
    <3>4. SumOf(hs, {r}, "events") > 0
      OBVIOUS
    <3> HIDE DEF hs, active
    <3> QED BY <3>1, <3>3, <3>4
  <2>4. Max(H) \in H
    <3> HIDE DEF H
    <3> QED BY <2>2, <2>3, Greatest
  <2>5. last(r) = Max(H)
    OBVIOUS
  <2> HIDE DEF H, last
  <2> QED BY <2>2, <2>4, <2>5
<1>3. ASSUME NEW r \in active PROVE place(r) \in Int /\ Names[place(r)] = r
  BY PlaceOfName
<1> HIDE DEF last, place, active
<1>4. IsFiniteSet(active) /\ active \subseteq NameSet
  <2>1. active \subseteq NameSet
    BY DEF active
  <2> QED BY <2>1, ChartSets, FS_Subset
<1>5. StrictlyOrders(R, active)
  <2>1. \A r, s \in active : <<r, s>> \in R <=> Newer1(r, s)
    OBVIOUS
  <2>2. \A r \in active : ~Newer1(r, r)
    BY <1>2, <1>3
  <2>3. \A r, s \in active : r # s => Newer1(r, s) \/ Newer1(s, r)
    BY <1>2, <1>3
  <2>4. \A r, s, t \in active : Newer1(r, s) /\ Newer1(s, t) => Newer1(r, t)
    BY <1>2, <1>3
  <2> HIDE DEF Newer1, R
  <2> QED BY <2>1, <2>2, <2>3, <2>4 DEF StrictlyOrders
<1>6. ASSUME active # {} PROVE \E r \in active : \A s \in active \ {r} : Newer1(r, s)
  <2>1. Cardinality(active) \in Nat /\ Cardinality(active) # 0
    BY <1>4, <1>6, FS_CardinalityType, FS_EmptySet
  <2>2. 0 \in 0..(Cardinality(active) - 1)
    BY <2>1
  <2>3. PICK r \in active : Cardinality(Below(R, active, r)) = 0
    <3> HIDE DEF R
    <3> QED BY <1>4, <1>5, <2>2, RankTaken
  <2>4. Below(R, active, r) = {}
    <3>1. IsFiniteSet(Below(R, active, r))
      BY <1>4, FS_Subset DEF Below
    <3> QED BY <2>3, <3>1, FS_EmptySet
  <2>5. ASSUME NEW s \in active \ {r} PROVE Newer1(r, s)
    <3>1. <<s, r>> \notin R
      BY <2>4 DEF Below
    <3>2. <<r, s>> \in R
      <4> HIDE DEF R
      <4> QED BY <1>5, <3>1 DEF StrictlyOrders
    <3> QED BY <3>2
  <2> QED BY <2>5
<1> HIDE DEF Newer1
<1> QED BY <1>1, <1>4, <1>6

\* The sum of the table t: SumOf is that of the counts.
SumIn(t, hs, rs, column) == SumFunction([x \in hs \X rs |-> t[x[1]][x[2]][column]])
Grown(t, u) == \A h \in HourStarts, r \in NameSet, column \in Columns : t[h][r][column] <= u[h][r][column]

LEMMA SumInGrows ==
  ASSUME NEW t, TableOK(t), NEW u, TableOK(u), Grown(t, u),
         NEW column \in Columns, NEW hs \in SUBSET HourStarts, NEW rs \in SUBSET NameSet
  PROVE  SumIn(t, hs, rs, column) \in Nat /\ SumIn(u, hs, rs, column) \in Nat
         /\ SumIn(t, hs, rs, column) <= SumIn(u, hs, rs, column)
<1> DEFINE T == hs \X rs
           f == [x \in T |-> t[x[1]][x[2]][column]]
           g == [x \in T |-> u[x[1]][x[2]][column]]
<1>1. IsFiniteSet(T)
  <2>1. IsFiniteSet(hs) /\ IsFiniteSet(rs)
    BY ChartSets, FS_Subset
  <2> QED BY <2>1, FS_Product
<1>2. ASSUME NEW h \in hs, NEW r \in rs
      PROVE  t[h][r][column] \in Nat /\ u[h][r][column] \in Nat /\ t[h][r][column] <= u[h][r][column]
  <2>1. h \in HourStarts /\ r \in NameSet
    OBVIOUS
  <2>2. t[h][r] \in CountRecord /\ u[h][r] \in CountRecord
    BY <2>1 DEF TableOK
  <2> QED BY <2>1, <2>2 DEF CountRecord, Columns, Grown
<1>3. \A x \in T : f[x] \in Nat /\ g[x] \in Nat /\ f[x] <= g[x]
  BY <1>2
<1>4. SumIn(t, hs, rs, column) = SumFunctionOnSet(f, T) /\ SumIn(u, hs, rs, column) = SumFunctionOnSet(g, T)
  BY DEF SumIn, SumFunction
<1> HIDE DEF f, g, T
<1>5. IntsOn(f, T) /\ IntsOn(g, T)
  BY <1>3 DEF IntsOn
<1>6. SumFunctionOnSet(f, T) <= SumFunctionOnSet(g, T)
  BY <1>1, <1>3, <1>5, SumAtMost
<1>7. SumFunctionOnSet(f, T) \in Nat /\ SumFunctionOnSet(g, T) \in Nat
  BY <1>1, <1>3, SumNat
<1> QED BY <1>4, <1>6, <1>7

RowShape == [events : Nat, unhandled : Nat, sessions : Nat, all : Nat]

\* What a row of counts shows is no more than is counted now.
RowWithin(t, pg, r, stat) ==
  /\ stat \in RowShape
  /\ stat.events <= SumIn(t, Hours(pg), {r}, "events")
  /\ stat.unhandled <= SumIn(t, Hours(pg), {r}, "unhandled")

RowsOK(t, pg) ==
  /\ DOMAIN pg.rows \subseteq NameSet \ {""}
  /\ \A r \in DOMAIN pg.rows : /\ RowWithin(t, pg, r, pg.rows[r])
                               /\ pg.rows[r].events > 0 /\ pg.rows[r].sessions = 0

\* What has been read of a page, against what is counted now: nothing read
\* exceeds what a later query can find.
PageOK(pg) ==
  /\ DOMAIN pg = DOMAIN NoPage /\ Windowed(pg)
  /\ pg.kind \in ReleasePages => pg.version \in NameSet

HalfRead(t, pg) ==
  pg.pc = "half" =>
    /\ pg.kind \in {"overview", "api"} => pg.total \in Nat /\ pg.total <= SumIn(t, Hours(pg), NameSet, "unhandled")
    /\ pg.latest # "" => pg.latest \in NameSet
    /\ pg.kind \in ReleasePages \cup {"releases"} => RowsOK(t, pg)

RowRead(t, pg) ==
  pg.pc \in {"row", "days"} =>
    /\ pg.kind \in ReleasePages
    /\ RowWithin(t, pg, pg.version, pg.row)
    /\ pg.row.sessions <= SumIn(t, Hours(pg), {pg.version}, "sessions")
    /\ pg.kind = "apirelease" => pg.row.sessions = 0

DaysRead(pg) == pg.pc = "days" => pg.row.sessions <= pg.rate[1] /\ pg.rate[2] <= pg.rate[1]

PageRead(t, pg) == PageOK(pg) /\ HalfRead(t, pg) /\ RowRead(t, pg) /\ DaysRead(pg)

LEMMA PageGrows ==
  ASSUME NEW t, TableOK(t), NEW u, TableOK(u), Grown(t, u), NEW pg, PageRead(t, pg)
  PROVE  PageRead(u, pg)
<1>1. Windowed(pg) /\ Hours(pg) \in SUBSET HourStarts /\ NameSet \in SUBSET NameSet
  BY HoursOfPage DEF PageRead, PageOK
<1>2. \A rs \in SUBSET NameSet, column \in Columns :
        /\ SumIn(t, Hours(pg), rs, column) \in Nat /\ SumIn(u, Hours(pg), rs, column) \in Nat
        /\ SumIn(t, Hours(pg), rs, column) <= SumIn(u, Hours(pg), rs, column)
  BY <1>1, SumInGrows
<1>3. ASSUME NEW r \in NameSet, NEW stat, RowWithin(t, pg, r, stat) PROVE RowWithin(u, pg, r, stat)
  <2>1. {r} \in SUBSET NameSet /\ "events" \in Columns /\ "unhandled" \in Columns
    BY DEF Columns
  <2>2. stat.events \in Nat /\ stat.unhandled \in Nat
    BY <1>3 DEF RowWithin, RowShape
  <2>3. /\ SumIn(t, Hours(pg), {r}, "events") \in Nat /\ SumIn(u, Hours(pg), {r}, "events") \in Nat
        /\ SumIn(t, Hours(pg), {r}, "events") <= SumIn(u, Hours(pg), {r}, "events")
    BY <1>2, <2>1
  <2>4. /\ SumIn(t, Hours(pg), {r}, "unhandled") \in Nat /\ SumIn(u, Hours(pg), {r}, "unhandled") \in Nat
        /\ SumIn(t, Hours(pg), {r}, "unhandled") <= SumIn(u, Hours(pg), {r}, "unhandled")
    BY <1>2, <2>1
  <2> QED BY <1>3, <2>2, <2>3, <2>4 DEF RowWithin
<1>4. RowsOK(t, pg) => RowsOK(u, pg)
  <2> SUFFICES ASSUME RowsOK(t, pg) PROVE RowsOK(u, pg)
    OBVIOUS
  <2>1. ASSUME NEW r \in DOMAIN pg.rows PROVE RowWithin(u, pg, r, pg.rows[r])
    <3>1. r \in NameSet /\ RowWithin(t, pg, r, pg.rows[r])
      BY DEF RowsOK
    <3> QED BY <1>3, <3>1
  <2> QED BY <2>1 DEF RowsOK
<1>5. HalfRead(u, pg)
  <2>1. /\ SumIn(t, Hours(pg), NameSet, "unhandled") \in Nat /\ SumIn(u, Hours(pg), NameSet, "unhandled") \in Nat
        /\ SumIn(t, Hours(pg), NameSet, "unhandled") <= SumIn(u, Hours(pg), NameSet, "unhandled")
    BY <1>1, <1>2 DEF Columns
  <2> SUFFICES ASSUME pg.pc = "half"
               PROVE  /\ pg.kind \in {"overview", "api"} =>
                           pg.total \in Nat /\ pg.total <= SumIn(u, Hours(pg), NameSet, "unhandled")
                      /\ pg.latest # "" => pg.latest \in NameSet
                      /\ pg.kind \in ReleasePages \cup {"releases"} => RowsOK(u, pg)
    BY DEF HalfRead
  <2>2. HalfRead(t, pg)
    BY DEF PageRead
  <2>3. pg.kind \in {"overview", "api"} => pg.total \in Nat /\ pg.total <= SumIn(t, Hours(pg), NameSet, "unhandled")
    BY <2>2 DEF HalfRead
  <2>4. (pg.latest # "" => pg.latest \in NameSet) /\ (pg.kind \in ReleasePages \cup {"releases"} => RowsOK(t, pg))
    BY <2>2 DEF HalfRead
  <2>5. pg.kind \in {"overview", "api"} => pg.total \in Nat /\ pg.total <= SumIn(u, Hours(pg), NameSet, "unhandled")
    <3> DEFINE a == SumIn(t, Hours(pg), NameSet, "unhandled")
               b == SumIn(u, Hours(pg), NameSet, "unhandled")
    <3>1. a \in Nat /\ b \in Nat /\ a <= b
      BY <2>1
    <3>2. pg.kind \in {"overview", "api"} => pg.total \in Nat /\ pg.total <= a
      BY <2>3
    <3> HIDE DEF a, b
    <3>3. pg.kind \in {"overview", "api"} => pg.total \in Nat /\ pg.total <= b
      BY <3>1, <3>2
    <3> QED BY <3>3 DEF b
  <2>6. pg.kind \in ReleasePages \cup {"releases"} => RowsOK(u, pg)
    BY <1>4, <2>4
  <2> QED BY <2>4, <2>5, <2>6
<1>6. RowRead(u, pg)
  <2> SUFFICES ASSUME pg.pc \in {"row", "days"} PROVE RowRead(u, pg)
    BY DEF RowRead
  <2>1. pg.kind \in ReleasePages /\ RowWithin(t, pg, pg.version, pg.row) /\ pg.version \in NameSet
    BY DEF PageRead, RowRead, PageOK
  <2>2. pg.row.sessions \in Nat
    BY <2>1 DEF RowWithin, RowShape
  <2>3. /\ SumIn(t, Hours(pg), {pg.version}, "sessions") \in Nat /\ SumIn(u, Hours(pg), {pg.version}, "sessions") \in Nat
        /\ SumIn(t, Hours(pg), {pg.version}, "sessions") <= SumIn(u, Hours(pg), {pg.version}, "sessions")
    <3>1. {pg.version} \in SUBSET NameSet /\ "sessions" \in Columns
      BY <2>1 DEF Columns
    <3> QED BY <1>2, <3>1
  <2>4. pg.row.sessions <= SumIn(t, Hours(pg), {pg.version}, "sessions")
    BY DEF PageRead, RowRead
  <2>5. pg.row.sessions <= SumIn(u, Hours(pg), {pg.version}, "sessions")
    BY <2>2, <2>3, <2>4
  <2>6. RowWithin(u, pg, pg.version, pg.row)
    BY <1>3, <2>1
  <2> QED BY <2>1, <2>5, <2>6 DEF PageRead, RowRead
<1> QED BY <1>5, <1>6 DEF PageRead

LEMMA SumOfIn ==
  ASSUME NEW hs, NEW rs, NEW column
  PROVE  SumOf(hs, rs, column) = SumIn(counts, hs, rs, column)
BY DEF SumOf, SumIn

\* The rows of a release list: what was counted when they were read.
LEMMA StatRowsIs ==
  ASSUME CountsOK, NEW pg, Windowed(pg)
  PROVE  /\ DOMAIN StatRows(pg) \subseteq NameSet \ {""}
         /\ \A r \in DOMAIN StatRows(pg) : /\ RowWithin(counts, pg, r, StatRows(pg)[r])
                                          /\ StatRows(pg)[r].events > 0 /\ StatRows(pg)[r].sessions = 0
<1>1. DOMAIN StatRows(pg) = Active(pg) \ {""} /\ Active(pg) \subseteq NameSet
  BY DEF StatRows, Active
<1>2. ASSUME NEW r \in DOMAIN StatRows(pg)
      PROVE  /\ RowWithin(counts, pg, r, StatRows(pg)[r])
             /\ StatRows(pg)[r].events > 0 /\ StatRows(pg)[r].sessions = 0
  <2> DEFINE e == SumIn(counts, Hours(pg), {r}, "events")
             u == SumIn(counts, Hours(pg), {r}, "unhandled")
             stat == StatRows(pg)[r]
  <2>1. e \in Nat /\ u \in Nat /\ e > 0
    <3>1. Hours(pg) \in SUBSET HourStarts /\ {r} \in SUBSET NameSet /\ "events" \in Columns /\ "unhandled" \in Columns
      BY <1>1, HoursOfPage DEF Columns
    <3>2. SumOf(Hours(pg), {r}, "events") > 0
      BY <1>1 DEF Active
    <3>3. SumOf(Hours(pg), {r}, "events") = e /\ SumOf(Hours(pg), {r}, "unhandled") = u
      BY SumOfIn
    <3>4. SumOf(Hours(pg), {r}, "events") \in Nat /\ SumOf(Hours(pg), {r}, "unhandled") \in Nat
      BY <3>1, SumOfIs
    <3> QED BY <3>2, <3>3, <3>4
  <2>2. stat = [NoRelease EXCEPT !.events = e, !.unhandled = u]
    BY <1>1, SumOfIn DEF StatRows
  <2> HIDE DEF e, u, stat
  <2>3. stat = [events |-> e, unhandled |-> u, sessions |-> 0, all |-> 0]
    BY <2>2 DEF NoRelease
  <2>4. stat \in RowShape /\ stat.events = e /\ stat.unhandled = u /\ stat.sessions = 0
    BY <2>1, <2>3 DEF RowShape
  <2>5. stat.events <= e /\ stat.unhandled <= u /\ stat.events > 0
    BY <2>1, <2>4
  <2>6. RowWithin(counts, pg, r, stat)
    BY <2>4, <2>5 DEF RowWithin, e, u
  <2> QED BY <2>4, <2>5, <2>6 DEF stat
<1> QED BY <1>1, <1>2

LEMMA EmptyFunction ==
  ASSUME NEW g, NEW D, D = {}, g = [x \in D |-> g[x]]
  PROVE  g = <<>>
OBVIOUS

\* The rows with the sessions of their releases; shares are of one total.
LEMMA HealthIs ==
  ASSUME CountsOK, NEW pg, Windowed(pg), RowsOK(counts, pg)
  PROVE  LET rows  == WithHealth(pg)
             hours == HoursIn(IF pg.kind = "release" THEN pg.from ELSE pg.health, pg.to)
         IN  /\ \A r \in DOMAIN rows : /\ r \in NameSet \ {""}
                                       /\ RowWithin(counts, pg, r, rows[r])
                                       /\ rows[r].sessions = SumOf(hours, {r}, "sessions")
                                       /\ rows[r].events + rows[r].sessions > 0
             /\ SumFunction([r \in DOMAIN rows |-> rows[r].sessions]) =
                  (IF rows = <<>> THEN 0 ELSE rows[CHOOSE r \in DOMAIN rows : TRUE].all)
<1> DEFINE hours  == HoursIn(IF pg.kind = "release" THEN pg.from ELSE pg.health, pg.to)
           health == {r \in NameSet \ {""} : SumOf(hours, {r}, "sessions") > 0}
           all    == SumOf(hours, health, "sessions")
           sess(r) == SumOf(hours, {r}, "sessions")
           D      == DOMAIN pg.rows \cup health
           base(r) == IF r \in DOMAIN pg.rows THEN pg.rows[r] ELSE NoRelease
           rows   == WithHealth(pg)
<1>0. hours \in SUBSET HourStarts /\ health \subseteq NameSet \ {""} /\ "sessions" \in Columns
      /\ "events" \in Columns /\ "unhandled" \in Columns /\ D \subseteq NameSet \ {""}
  BY DEF HoursIn, Columns, RowsOK
<1>1. rows = [r \in D |-> [base(r) EXCEPT !.sessions = sess(r), !.all = all]]
  BY DEF WithHealth
<1>2. all \in Nat /\ \A r \in D : sess(r) \in Nat
  <2> HIDE DEF hours
  <2>1. health \in SUBSET NameSet
    BY <1>0
  <2>2. ASSUME NEW r \in D PROVE {r} \in SUBSET NameSet
    BY <1>0
  <2> HIDE DEF D, health
  <2>3. SumOf(hours, health, "sessions") \in Nat
    BY <1>0, <2>1, SumOfIs
  <2>4. \A r \in D : SumOf(hours, {r}, "sessions") \in Nat
    BY <1>0, <2>2, SumOfIs
  <2> QED BY <2>3, <2>4
<1>3. ASSUME NEW r \in D PROVE base(r) \in RowShape /\ RowWithin(counts, pg, r, base(r)) /\ (r \notin health => base(r).events > 0)
  <2>1. CASE r \in DOMAIN pg.rows
    BY <2>1 DEF RowsOK, RowWithin
  <2>2. CASE r \notin DOMAIN pg.rows
    <3>1. base(r) = [events |-> 0, unhandled |-> 0, sessions |-> 0, all |-> 0] /\ r \in health
      BY <2>2 DEF NoRelease
    <3>2. Hours(pg) \in SUBSET HourStarts /\ {r} \in SUBSET NameSet
      BY <1>0, HoursOfPage
    <3>3. SumOf(Hours(pg), {r}, "events") \in Nat /\ SumOf(Hours(pg), {r}, "unhandled") \in Nat
      BY <1>0, <3>2, SumOfIs
    <3>4. SumIn(counts, Hours(pg), {r}, "events") \in Nat /\ SumIn(counts, Hours(pg), {r}, "unhandled") \in Nat
      BY <3>3, SumOfIn
    <3> HIDE DEF health, base
    <3> QED BY <3>1, <3>4 DEF RowWithin, RowShape
  <2> QED BY <2>1, <2>2
<1>4. ASSUME NEW r \in D
      PROVE  /\ rows[r].sessions = sess(r) /\ rows[r].all = all /\ rows[r] \in RowShape
             /\ rows[r].events = base(r).events /\ rows[r].unhandled = base(r).unhandled
  <2>1. rows[r] = [base(r) EXCEPT !.sessions = sess(r), !.all = all]
    BY <1>1
  <2>2. base(r) \in RowShape /\ sess(r) \in Nat /\ all \in Nat
    BY <1>2, <1>3
  <2> HIDE DEF base, sess, all, rows
  <2> QED BY <2>1, <2>2 DEF RowShape
<1>5. DOMAIN rows = D
  BY <1>1
<1>6. \A r \in D : r \in health => sess(r) > 0
  OBVIOUS
<1> HIDE DEF rows, base
<1>7. ASSUME NEW r \in D
      PROVE  /\ RowWithin(counts, pg, r, rows[r]) /\ rows[r].sessions = sess(r)
             /\ rows[r].events + rows[r].sessions > 0
  <2>1. RowWithin(counts, pg, r, rows[r]) /\ rows[r].events \in Nat
    <3> HIDE DEF sess, all, D, health
    <3> QED BY <1>3, <1>4 DEF RowWithin, RowShape
  <2>2. rows[r].sessions \in Nat /\ rows[r].sessions = sess(r) /\ rows[r].events = base(r).events
    BY <1>2, <1>4
  <2>3. (r \notin health => rows[r].events > 0) /\ (r \in health => rows[r].sessions > 0)
    <3> HIDE DEF sess, health, D
    <3> QED BY <1>3, <1>6, <2>2
  <2> HIDE DEF sess, health, D
  <2> QED BY <2>1, <2>2, <2>3
<1>8. SumFunction([r \in D |-> rows[r].sessions]) = all
  <2> DEFINE f == [r \in D |-> rows[r].sessions]
             place == [r \in D |-> r]
  <2>1. SumFunction(f) = SumFunctionOnSet(f, D)
    BY DEF SumFunction
  <2>2. PlacedIn(place, D, D)
    BY DEF PlacedIn
  <2>3. ASSUME NEW s \in D PROVE f[s] = SumOf(hours, {r \in D : place[r] = s}, "sessions")
    <3>1. {r \in D : place[r] = s} = {s}
      OBVIOUS
    <3>2. f[s] = sess(s)
      BY <1>4
    <3> QED BY <3>1, <3>2
  <2>4. IsFiniteSet(D) /\ D \in SUBSET NameSet /\ health \in SUBSET D
    <3>1. D \subseteq NameSet
      BY <1>0
    <3>2. health \in SUBSET D
      OBVIOUS
    <3> HIDE DEF D
    <3> QED BY <3>1, <3>2, ChartSets, FS_Subset
  <2>5. ASSUME NEW r \in D \ health PROVE SumOf(hours, {r}, "sessions") = 0
    <3>1. r \in NameSet \ {""} /\ r \in D /\ r \notin health
      BY <1>0
    <3>2. ~(sess(r) > 0)
      BY <3>1
    <3>3. sess(r) \in Nat
      BY <1>2, <3>1
    <3> DEFINE n == SumOf(hours, {r}, "sessions")
    <3>4. n \in Nat /\ ~(n > 0)
      BY <3>2, <3>3
    <3> HIDE DEF n, sess, health, D, hours, all, f, place
    <3>5. n = 0
      BY <3>4
    <3> QED BY <3>5 DEF n
  <2> HIDE DEF f, place, D, health, hours
  <2>6. NameParts(f, place, hours, D, "sessions", D)
    BY <2>3 DEF NameParts
  <2>7. SumFunctionOnSet(f, D) = SumOf(hours, D, "sessions")
    BY <1>0, <2>2, <2>4, <2>6, NamesSplit
  <2>8. SumOf(hours, health, "sessions") = SumOf(hours, D, "sessions")
    BY <1>0, <2>4, <2>5, NamesDrop
  <2> QED BY <2>1, <2>7, <2>8 DEF f
<1>9. SumFunction([r \in DOMAIN rows |-> rows[r].sessions]) =
        (IF rows = <<>> THEN 0 ELSE rows[CHOOSE r \in DOMAIN rows : TRUE].all)
  <2>1. CASE D = {}
    <3>1. rows = <<>>
      <4>1. rows = [r \in D |-> rows[r]]
        <5> HIDE DEF D
        <5> QED BY <1>1
      <4> HIDE DEF D
      <4> QED BY <2>1, <4>1, EmptyFunction
    <3>2. SumFunction([r \in D |-> rows[r].sessions]) = 0
      <4> DEFINE f == [r \in {} |-> rows[r].sessions]
      <4>1. DOMAIN f = {}
        OBVIOUS
      <4> HIDE DEF f
      <4>2. SumFunction(f) = 0
        BY <4>1, SumEmpty DEF SumFunction
      <4> HIDE DEF D
      <4> QED BY <2>1, <4>2 DEF f
    <3> HIDE DEF D
    <3> QED BY <1>5, <3>1, <3>2
  <2>2. CASE D # {}
    <3> DEFINE one == CHOOSE r \in D : TRUE
    <3>1. one \in D
      BY <2>2
    <3>2. rows[one].all = all
      <4> HIDE DEF one, D, all
      <4> QED BY <1>4, <3>1
    <3>3. rows # <<>>
      <4> HIDE DEF D
      <4>1. DOMAIN <<>> = {}
        OBVIOUS
      <4> QED BY <1>5, <2>2, <4>1
    <3>4. rows[CHOOSE r \in DOMAIN rows : TRUE].all = all
      <4> HIDE DEF D, all
      <4> QED BY <1>5, <3>2
    <3> HIDE DEF D, all
    <3> QED BY <1>5, <1>8, <3>3, <3>4
  <2> QED BY <2>1, <2>2
<1> HIDE DEF D
<1> QED BY <1>0, <1>5, <1>7, <1>9 DEF rows

ChartsInv == CountsOK /\ PageRead(counts, sheet) /\ ChartsAddUp

Fields == {"pc", "kind", "from", "to", "width", "health", "total", "bars", "rows", "latest", "rate", "drawn",
           "version", "row", "days"}

LEMMA NoPageIs ==
  /\ DOMAIN NoPage = Fields /\ Windowed(NoPage)
  /\ NoPage.pc = "none" /\ NoPage.kind = "none"
<1>1. DOMAIN NoPage = Fields /\ NoPage.pc = "none" /\ NoPage.kind = "none"
  BY DEF NoPage, Fields
<1>2. NoPage.width = Hour /\ NoPage.from = 0 /\ NoPage.to = 0 /\ NoPage.health = 0
  BY DEF NoPage
<1>3. Hour \in Nat \ {0} /\ 0 = 0 * Hour
  BY ChartsAssumption
<1> QED BY <1>1, <1>2, <1>3 DEF Windowed

LEMMA NoPageRead ==
  ASSUME NEW t, NEW pg, pg = NoPage
  PROVE  PageRead(t, pg)
BY NoPageIs DEF PageRead, PageOK, HalfRead, RowRead, DaysRead, ReleasePages

LEMMA ChartsInitInv == ASSUME ChartsInit PROVE ChartsInv
<1>1. Empty \in CountRecord /\ Empty.unhandled <= Empty.events /\ Empty.crashed <= Empty.sessions
  BY DEF Empty, CountRecord
<1>2. CountsOK
  BY <1>1 DEF CountsOK, TableOK, ChartsInit
<1>3. PageRead(counts, sheet) /\ sheet.pc # "done"
  BY NoPageRead, NoPageIs DEF ChartsInit
<1> QED BY <1>2, <1>3 DEF ChartsInv, ChartsAddUp

\* A page keeps its window while it is read.
LEMMA SamePage ==
  ASSUME NEW pg, PageOK(pg), NEW p2, DOMAIN p2 = DOMAIN pg,
         p2.from = pg.from, p2.to = pg.to, p2.width = pg.width, p2.health = pg.health,
         p2.kind = pg.kind, p2.version = pg.version
  PROVE  PageOK(p2) /\ Hours(p2) = Hours(pg)
BY DEF PageOK, Windowed, Hours

LEMMA WindowNumbers ==
  ASSUME NEW len \in Nat, NEW w \in Nat \ {0}, NEW now \in Nat
  PROVE  LET from == Aligned(now - len, w)
         IN  /\ from \in Int /\ \E q \in Int : from = q * w
             /\ from + len \in Int /\ from <= from
             /\ Aligned(from, Day) \in Int /\ Aligned(from, Day) <= from
<1> DEFINE a == now - len
           from == Aligned(a, w)
<1>1. a \in Int
  OBVIOUS
<1>2. from \in Int /\ \E q \in Int : from = q * w
  <2> HIDE DEF a
  <2>1. a \div w \in Int /\ (a \div w) * w \in Int
    BY <1>1, FloorIs
  <2>2. from = (a \div w) * w
    BY DEF Aligned, a
  <2> QED BY <2>1, <2>2
<1> HIDE DEF a, from
<1>3. Aligned(from, Day) \in Int /\ Aligned(from, Day) <= from
  <2>1. Day \in Nat \ {0}
    BY ChartsAssumption
  <2>2. (from \div Day) * Day \in Int /\ (from \div Day) * Day <= from
    BY <1>2, <2>1, FloorIs
  <2> QED BY <2>2 DEF Aligned
<1>4. from + len \in Int /\ from <= from
  BY <1>2
<1> QED BY <1>2, <1>3, <1>4 DEF from, a

\* The window a page is opened with.
LEMMA OpenStep ==
  ASSUME NEW kind \in {"portal", "overview", "api", "releases", "sparks"} \cup ReleasePages, NEW span \in Spans,
         NEW now \in Moments, NEW version, kind \in ReleasePages => version \in NameSet,
         Open(kind, span, now, version), PageRead(counts, sheet)
  PROVE  PageRead(counts, sheet') /\ sheet'.pc # "done" /\ counts' = counts
<1> DEFINE len  == span[1]
           w    == IF kind \in {"api", "apirelease"} THEN Hour ELSE span[2]
           from == Aligned(now - len, w)
           to   == IF kind = "sparks" THEN from + len ELSE now
           health == IF kind \in {"api", "portal", "release", "apirelease"} THEN Aligned(from, Day) ELSE from
           pg == sheet'
<1>1. len \in Nat /\ w \in Nat \ {0} /\ now \in Nat
  BY ChartsAssumption
<1>2. (to = from + len \/ to = now) /\ (health = Aligned(from, Day) \/ health = from)
  OBVIOUS
<1>3. pg = [Window(kind, span, now) EXCEPT !.version = version] /\ counts' = counts
  BY DEF Open
<1>4. Window(kind, span, now) = [NoPage EXCEPT !.pc = "opened", !.kind = kind, !.from = from, !.to = to,
                                               !.width = w, !.health = health]
  BY DEF Window
<1> HIDE DEF len, w, to, health, pg
<1>5. /\ from \in Int /\ \E q \in Int : from = q * w
      /\ from + len \in Int /\ from <= from
      /\ Aligned(from, Day) \in Int /\ Aligned(from, Day) <= from
  BY <1>1, WindowNumbers
<1> HIDE DEF from
<1>6. to \in Int /\ health \in Int /\ health <= from
  BY <1>1, <1>2, <1>5
<1>7. /\ DOMAIN pg = DOMAIN NoPage /\ pg.pc = "opened" /\ pg.kind = kind /\ pg.from = from /\ pg.to = to
      /\ pg.width = w /\ pg.health = health /\ pg.version = version
  BY <1>3, <1>4, NoPageIs DEF Fields
<1>8. PageOK(pg)
  BY <1>1, <1>5, <1>6, <1>7 DEF PageOK, Windowed
<1> QED BY <1>3, <1>7, <1>8 DEF PageRead, HalfRead, RowRead, DaysRead, pg

LEMMA FirstQueryStep ==
  ASSUME CountsOK, PageRead(counts, sheet), FirstQuery
  PROVE  PageRead(counts, sheet') /\ sheet'.pc # "done" /\ counts' = counts
<1> DEFINE pg == sheet'
<1>1. PageOK(sheet) /\ Windowed(sheet) /\ DOMAIN sheet = Fields
  BY NoPageIs DEF PageRead, PageOK
<1>2. /\ DOMAIN pg = DOMAIN sheet /\ pg.pc = "half" /\ pg.from = sheet.from /\ pg.to = sheet.to
      /\ pg.width = sheet.width /\ pg.health = sheet.health /\ pg.kind = sheet.kind /\ pg.version = sheet.version
      /\ pg.total  = (IF sheet.kind \in {"overview", "api"} THEN SumOf(Hours(sheet), NameSet, "unhandled") ELSE 0)
      /\ pg.latest = (IF sheet.kind = "portal" THEN Latest(sheet.health, sheet.to) ELSE "")
      /\ pg.rows   = (IF sheet.kind \in ReleasePages \cup {"releases"} THEN StatRows(sheet) ELSE <<>>)
      /\ counts' = counts
  BY <1>1 DEF FirstQuery, Fields
<1> HIDE DEF pg
<1>3. PageOK(pg) /\ Hours(pg) = Hours(sheet)
  BY <1>1, <1>2, SamePage
<1>4. ASSUME pg.kind \in {"overview", "api"}
      PROVE  pg.total \in Nat /\ pg.total <= SumIn(counts, Hours(pg), NameSet, "unhandled")
  <2> DEFINE s == SumIn(counts, Hours(pg), NameSet, "unhandled")
  <2>1. pg.total = SumOf(Hours(sheet), NameSet, "unhandled")
    BY <1>2, <1>4
  <2>2. pg.total = s
    BY <1>3, <2>1, SumOfIn
  <2>3. pg.total \in Nat
    <3> DEFINE hs == Hours(sheet)
    <3>1. hs \in SUBSET HourStarts /\ NameSet \in SUBSET NameSet /\ "unhandled" \in Columns
      BY <1>1, HoursOfPage DEF Columns
    <3> HIDE DEF hs
    <3>2. SumOf(hs, NameSet, "unhandled") \in Nat
      BY <3>1, SumOfIs
    <3> QED BY <2>1, <3>2 DEF hs
  <2> HIDE DEF s
  <2>4. pg.total <= s
    BY <2>2, <2>3
  <2> QED BY <2>3, <2>4 DEF s
<1>5. pg.latest # "" => pg.latest \in NameSet
  BY <1>2, LatestIsOne
<1>6. ASSUME pg.kind \in ReleasePages \cup {"releases"} PROVE RowsOK(counts, pg)
  <2>1. pg.rows = StatRows(sheet)
    BY <1>2, <1>6
  <2>2. \A r, stat : RowWithin(counts, sheet, r, stat) => RowWithin(counts, pg, r, stat)
    BY <1>3 DEF RowWithin
  <2> QED BY <1>1, <2>1, <2>2, StatRowsIs DEF RowsOK
<1>7. HalfRead(counts, pg)
  BY <1>4, <1>5, <1>6 DEF HalfRead
<1> QED BY <1>2, <1>3, <1>7 DEF PageRead, RowRead, DaysRead, pg

\* The second query of a page that is done with it.
LEMMA SecondQueryStep ==
  ASSUME CountsOK, PageRead(counts, sheet), SecondQuery
  PROVE  PageRead(counts, sheet') /\ ChartsAddUp' /\ counts' = counts
<1> DEFINE pg == sheet'
           S == SumOf(Hours(sheet), NameSet, "unhandled")
<1>1. PageOK(sheet) /\ Windowed(sheet) /\ DOMAIN sheet = Fields /\ sheet.pc = "half" /\ sheet.kind \notin ReleasePages
  BY NoPageIs DEF PageRead, PageOK, SecondQuery
<1>2. /\ DOMAIN pg = DOMAIN sheet /\ pg.pc = "done" /\ pg.from = sheet.from /\ pg.to = sheet.to
      /\ pg.width = sheet.width /\ pg.health = sheet.health /\ pg.kind = sheet.kind /\ pg.version = sheet.version
      /\ pg.total = sheet.total
      /\ pg.bars = (CASE sheet.kind \in {"overview", "api"} -> Chart(Timeline(sheet))
                      [] sheet.kind = "sparks" -> Spark(sheet)
                      [] OTHER -> <<>>)
      /\ pg.rate = (IF sheet.kind = "portal" /\ sheet.latest # "" THEN RateOf(sheet.latest, sheet.health, sheet.to) ELSE <<0, 0>>)
      /\ pg.rows = (IF sheet.kind = "releases" THEN WithHealth(sheet) ELSE <<>>)
      /\ pg.drawn = SumOf(Hours(sheet), NameSet, IF sheet.kind = "sparks" THEN "events" ELSE "unhandled")
      /\ counts' = counts
  BY <1>1 DEF SecondQuery, Fields
<1> HIDE DEF pg
<1>3. PageOK(pg)
  BY <1>1, <1>2, SamePage
<1>4. PageRead(counts, pg)
  BY <1>2, <1>3 DEF PageRead, HalfRead, RowRead, DaysRead
<1>5. ASSUME pg.kind \in {"overview", "api"} PROVE SumBars(pg.bars) = pg.drawn /\ pg.total <= SumBars(pg.bars)
  <2>1. SumBars(pg.bars) = S /\ pg.drawn = S
    BY <1>1, <1>2, <1>5, TimelineSum
  <2>2. sheet.total \in Nat /\ sheet.total <= SumIn(counts, Hours(sheet), NameSet, "unhandled")
    BY <1>1, <1>2, <1>5 DEF PageRead, HalfRead
  <2>3. SumIn(counts, Hours(sheet), NameSet, "unhandled") = S
    BY SumOfIn
  <2>4. pg.total <= S
    BY <1>2, <2>2, <2>3
  <2> QED BY <2>1, <2>4
<1>6. ASSUME pg.kind = "sparks" PROVE SumBars(pg.bars) = pg.drawn
  BY <1>1, <1>2, <1>6, SparkSum
<1>7. ASSUME pg.kind = "releases"
      PROVE  /\ \A r \in DOMAIN pg.rows : pg.rows[r].events + pg.rows[r].sessions > 0
             /\ SumFunction([r \in DOMAIN pg.rows |-> pg.rows[r].sessions]) =
                  (IF pg.rows = <<>> THEN 0 ELSE pg.rows[CHOOSE r \in DOMAIN pg.rows : TRUE].all)
  <2>1. RowsOK(counts, sheet)
    BY <1>1, <1>2, <1>7 DEF PageRead, HalfRead
  <2>2. pg.rows = WithHealth(sheet)
    BY <1>2, <1>7
  <2> QED BY <1>1, <2>1, <2>2, HealthIs
<1>8. sheet.latest \in NameSet =>
         RateOf(sheet.latest, sheet.health, sheet.to)[2] <= RateOf(sheet.latest, sheet.health, sheet.to)[1]
  BY RateIs
<1>9. pg.rate[2] <= pg.rate[1]
  <2>1. CASE sheet.kind = "portal" /\ sheet.latest # ""
    <3>1. sheet.latest \in NameSet
      BY <1>1, <2>1 DEF PageRead, HalfRead
    <3>2. pg.rate = RateOf(sheet.latest, sheet.health, sheet.to)
      BY <1>2, <2>1
    <3> QED BY <1>8, <3>1, <3>2
  <2>2. CASE ~(sheet.kind = "portal" /\ sheet.latest # "")
    <3>1. pg.rate = <<0, 0>>
      BY <1>2, <2>2
    <3> QED BY <3>1
  <2> QED BY <2>1, <2>2
<1>10. pg.kind \notin ReleasePages
  BY <1>1, <1>2
<1> QED BY <1>2, <1>4, <1>5, <1>6, <1>7, <1>9, <1>10 DEF ChartsAddUp, pg

LEMMA RowQueryStep ==
  ASSUME CountsOK, PageRead(counts, sheet), RowQuery
  PROVE  PageRead(counts, sheet') /\ sheet'.pc # "done" /\ counts' = counts
<1> DEFINE pg  == sheet'
           src == IF sheet.kind = "release" THEN WithHealth(sheet) ELSE sheet.rows
           v   == sheet.version
<1>1. /\ PageOK(sheet) /\ Windowed(sheet) /\ DOMAIN sheet = Fields /\ sheet.pc = "half" /\ sheet.kind \in ReleasePages
      /\ RowsOK(counts, sheet) /\ v \in NameSet
  BY NoPageIs DEF PageRead, PageOK, RowQuery, HalfRead
<1>2. /\ DOMAIN pg = DOMAIN sheet /\ pg.pc = "row" /\ pg.from = sheet.from /\ pg.to = sheet.to
      /\ pg.width = sheet.width /\ pg.health = sheet.health /\ pg.kind = sheet.kind /\ pg.version = sheet.version
      /\ pg.row = RowOf(src, v) /\ counts' = counts
  BY <1>1 DEF RowQuery, Fields
<1>3. PageOK(pg) /\ Hours(pg) = Hours(sheet)
  <2> HIDE DEF pg
  <2> QED BY <1>1, <1>2, SamePage
<1>4. \A column \in Columns : SumIn(counts, Hours(sheet), {v}, column) \in Nat
  <2>1. Hours(sheet) \in SUBSET HourStarts /\ {v} \in SUBSET NameSet
    BY <1>1, HoursOfPage
  <2>2. \A column \in Columns : SumOf(Hours(sheet), {v}, column) \in Nat
    BY <2>1, SumOfIs
  <2> QED BY <2>2, SumOfIn
<1>5. /\ RowWithin(counts, sheet, v, pg.row)
      /\ pg.row.sessions <= SumIn(counts, Hours(sheet), {v}, "sessions")
      /\ sheet.kind = "apirelease" => pg.row.sessions = 0
  <2> DEFINE s == SumIn(counts, Hours(sheet), {v}, "sessions")
  <2>0. s \in Nat
    BY <1>4 DEF Columns
  <2>1. CASE v \notin DOMAIN src
    <3>1. pg.row = [events |-> 0, unhandled |-> 0, sessions |-> 0, all |-> 0]
      BY <1>2, <2>1 DEF RowOf, NoRelease
    <3>2. SumIn(counts, Hours(sheet), {v}, "events") \in Nat /\ SumIn(counts, Hours(sheet), {v}, "unhandled") \in Nat
      BY <1>4 DEF Columns
    <3> HIDE DEF s, src, v, pg
    <3>3. pg.row \in RowShape /\ pg.row.events = 0 /\ pg.row.unhandled = 0 /\ pg.row.sessions = 0
      BY <3>1 DEF RowShape
    <3>4. pg.row.sessions <= s
      BY <2>0, <3>3
    <3> QED BY <3>2, <3>3, <3>4 DEF RowWithin, s
  <2>2. CASE v \in DOMAIN src /\ sheet.kind = "release"
    <3>1. src = WithHealth(sheet) /\ pg.row = src[v]
      BY <1>2, <2>2 DEF RowOf
    <3>2. /\ RowWithin(counts, sheet, v, src[v])
          /\ src[v].sessions = SumOf(HoursIn(sheet.from, sheet.to), {v}, "sessions")
      BY <1>1, <2>2, <3>1, HealthIs
    <3>3. src[v].sessions = s
      BY <3>2, SumOfIn DEF Hours
    <3> HIDE DEF s, src
    <3>4. src[v].sessions <= s
      BY <2>0, <3>3
    <3> QED BY <2>2, <3>1, <3>2, <3>4 DEF s
  <2>3. CASE v \in DOMAIN src /\ sheet.kind # "release"
    <3>1. src = sheet.rows /\ pg.row = src[v]
      BY <1>2, <2>3 DEF RowOf
    <3>2. RowWithin(counts, sheet, v, pg.row) /\ pg.row.sessions = 0
      BY <1>1, <2>3, <3>1 DEF RowsOK
    <3> HIDE DEF s, src
    <3>3. pg.row.sessions <= s
      BY <2>0, <3>2
    <3> QED BY <3>2, <3>3 DEF s
  <2> QED BY <2>1, <2>2, <2>3
<1> HIDE DEF pg
<1>6. RowRead(counts, pg)
  <2>1. RowWithin(counts, pg, pg.version, pg.row)
    BY <1>2, <1>3, <1>5 DEF RowWithin
  <2> QED BY <1>1, <1>2, <1>3, <1>5, <2>1 DEF RowRead
<1> QED BY <1>2, <1>3, <1>6 DEF PageRead, HalfRead, DaysRead, pg

LEMMA DaysQueryStep ==
  ASSUME CountsOK, PageRead(counts, sheet), NEW listed \in BOOLEAN, DaysQuery(listed)
  PROVE  PageRead(counts, sheet') /\ sheet'.pc # "done" /\ counts' = counts
<1> DEFINE pg   == sheet'
           days == DailyHealth(sheet)
           v    == sheet.version
<1>1. /\ PageOK(sheet) /\ Windowed(sheet) /\ DOMAIN sheet = Fields /\ sheet.pc = "row"
      /\ RowRead(counts, sheet) /\ sheet.kind \in ReleasePages /\ v \in NameSet
  BY NoPageIs DEF PageRead, PageOK, DaysQuery, RowRead
<1>2. counts' = counts /\ (pg = NoPage \/ pg = [sheet EXCEPT !.pc = "days", !.days = days, !.rate = <<SumDays(days, 1), SumDays(days, 2)>>])
  BY DEF DaysQuery
<1>3. CASE pg = NoPage
  <2>1. PageRead(counts, pg)
    BY <1>3, NoPageRead
  <2> QED BY <1>2, <1>3, <2>1, NoPageIs
<1>4. CASE pg = [sheet EXCEPT !.pc = "days", !.days = days, !.rate = <<SumDays(days, 1), SumDays(days, 2)>>]
  <2> DEFINE one == SumDays(days, 1)
             two == SumDays(days, 2)
  <2>0. pg = [sheet EXCEPT !.pc = "days", !.days = days, !.rate = <<one, two>>]
    BY <1>4
  <2>1. one \in Nat /\ two <= one /\ (sheet.kind = "release" => one = SumOf(HoursIn(sheet.health, sheet.to), {v}, "sessions"))
    BY <1>1, DaysSum
  <2> HIDE DEF one, two, days, pg
  <2>2. /\ DOMAIN pg = DOMAIN sheet /\ pg.pc = "days" /\ pg.from = sheet.from /\ pg.to = sheet.to
        /\ pg.width = sheet.width /\ pg.health = sheet.health /\ pg.kind = sheet.kind /\ pg.version = sheet.version
        /\ pg.row = sheet.row /\ pg.rate = <<one, two>>
    BY <1>1, <2>0 DEF Fields
  <2>3. PageOK(pg) /\ Hours(pg) = Hours(sheet)
    BY <1>1, <2>2, SamePage
  <2>4. RowRead(counts, pg)
    <3>1. /\ RowWithin(counts, sheet, v, sheet.row) /\ sheet.row.sessions <= SumIn(counts, Hours(sheet), {v}, "sessions")
          /\ sheet.kind = "apirelease" => sheet.row.sessions = 0
      BY <1>1 DEF RowRead
    <3>2. RowWithin(counts, pg, pg.version, pg.row)
      BY <2>2, <2>3, <3>1 DEF RowWithin
    <3> QED BY <1>1, <2>2, <2>3, <3>1, <3>2 DEF RowRead
  <2>5. sheet.row.sessions \in Nat
    BY <1>1 DEF RowRead, RowWithin, RowShape
  <2>6. sheet.row.sessions <= one
    <3>1. CASE sheet.kind = "release"
      <4> DEFINE all  == HoursIn(sheet.health, sheet.to)
                 some == Hours(sheet)
                 rs   == {v}
      <4>1. all \in SUBSET HourStarts /\ some \in SUBSET all /\ rs \in SUBSET NameSet /\ rs \in SUBSET rs
        <5>1. \A h \in HourStarts : h \in Int
          BY ChartSets
        <5>2. sheet.health \in Int /\ sheet.from \in Int /\ sheet.health <= sheet.from
          BY <1>1 DEF Windowed
        <5>3. \A h \in HourStarts : sheet.from <= h => sheet.health <= h
          BY <5>1, <5>2
        <5> QED BY <1>1, <5>3 DEF Hours, HoursIn
      <4>2. "sessions" \in Columns
        BY DEF Columns
      <4>3. sheet.row.sessions <= SumOf(some, rs, "sessions")
        BY <1>1, SumOfIn DEF RowRead
      <4>4. one = SumOf(all, rs, "sessions")
        BY <2>1, <3>1
      <4> HIDE DEF all, some, rs
      <4>5. SumOf(some, rs, "sessions") <= SumOf(all, rs, "sessions")
        BY <4>1, <4>2, SumOfWithin
      <4>6. SumOf(some, rs, "sessions") \in Nat
        <5>1. some \in SUBSET HourStarts
          BY <4>1
        <5> QED BY <4>1, <4>2, <5>1, SumOfIs
      <4> DEFINE x == SumOf(some, rs, "sessions")
      <4>7. x \in Nat /\ sheet.row.sessions <= x /\ x <= one
        BY <4>3, <4>4, <4>5, <4>6
      <4> HIDE DEF x
      <4> QED BY <2>1, <2>5, <4>7
    <3>2. CASE sheet.kind # "release"
      <4>1. sheet.row.sessions = 0
        BY <1>1, <3>2 DEF RowRead, ReleasePages
      <4> QED BY <2>1, <4>1
    <3> QED BY <3>1, <3>2
  <2>7. DaysRead(pg)
    BY <2>1, <2>2, <2>6 DEF DaysRead
  <2> QED BY <1>2, <2>2, <2>3, <2>4, <2>7 DEF PageRead, HalfRead, pg
<1> QED BY <1>2, <1>3, <1>4

LEMMA TimelineQueryStep ==
  ASSUME CountsOK, PageRead(counts, sheet), TimelineQuery
  PROVE  PageRead(counts, sheet') /\ ChartsAddUp' /\ counts' = counts
<1> DEFINE pg == sheet'
           v  == sheet.version
           e  == SumIn(counts, Hours(sheet), {v}, "events")
           u  == SumIn(counts, Hours(sheet), {v}, "unhandled")
<1>1. /\ PageOK(sheet) /\ Windowed(sheet) /\ DOMAIN sheet = Fields /\ sheet.pc = "days" /\ sheet.kind \in ReleasePages
      /\ v \in NameSet /\ RowWithin(counts, sheet, v, sheet.row)
      /\ sheet.row.sessions <= sheet.rate[1] /\ sheet.rate[2] <= sheet.rate[1]
  BY NoPageIs DEF PageRead, PageOK, TimelineQuery, RowRead, DaysRead
<1>2. /\ DOMAIN pg = DOMAIN sheet /\ pg.pc = "done" /\ pg.from = sheet.from /\ pg.to = sheet.to
      /\ pg.width = sheet.width /\ pg.health = sheet.health /\ pg.kind = sheet.kind /\ pg.version = sheet.version
      /\ pg.row = sheet.row /\ pg.rate = sheet.rate /\ pg.bars = ReleaseTimeline(sheet)
      /\ pg.drawn = SumOf(Hours(sheet), {v}, "unhandled") /\ counts' = counts
  BY <1>1 DEF TimelineQuery, Fields
<1> HIDE DEF pg
<1>3. PageOK(pg)
  BY <1>1, <1>2, SamePage
<1>4. PageRead(counts, pg)
  BY <1>2, <1>3 DEF PageRead, HalfRead, RowRead, DaysRead
<1>5. SeriesSum(pg.bars, "events") = e /\ SeriesSum(pg.bars, "unhandled") = u /\ pg.drawn = u
  <2>1. SeriesSum(pg.bars, "events") = SumOf(Hours(sheet), {v}, "events")
        /\ SeriesSum(pg.bars, "unhandled") = SumOf(Hours(sheet), {v}, "unhandled")
    BY <1>1, <1>2, SeriesSums
  <2> QED BY <1>2, <2>1, SumOfIn
<1>6. pg.row.events <= e /\ pg.row.unhandled <= u
  BY <1>1, <1>2 DEF RowWithin
<1>7. pg.kind \notin {"overview", "api", "sparks", "releases"} /\ pg.kind \in ReleasePages
  BY <1>1, <1>2 DEF ReleasePages
<1> HIDE DEF e, u
<1>8. /\ pg.row.sessions <= pg.rate[1] /\ pg.rate[2] <= pg.rate[1]
      /\ pg.row.events <= SeriesSum(pg.bars, "events") /\ pg.row.unhandled <= SeriesSum(pg.bars, "unhandled")
      /\ SeriesSum(pg.bars, "unhandled") = pg.drawn
  BY <1>1, <1>2, <1>5, <1>6
<1> QED BY <1>2, <1>4, <1>7, <1>8 DEF ChartsAddUp, pg

\* Counts only grow.
LEMMA CountsGrow ==
  ASSUME CountsOK, NEW m \in Mail, Arrive(m[1], m[2], m[3])
  PROVE  TableOK(counts') /\ Grown(counts, counts') /\ sheet' = sheet
<1> DEFINE h == m[1]
           r == m[2]
           old == counts[h][r]
           new == counts'[h][r]
           a == IF m[3] \in {"error", "crash"} THEN 1 ELSE 0
           b == IF m[3] = "crash" THEN 1 ELSE 0
           c == IF m[3] \in {"healthy", "crashed"} THEN 1 ELSE 0
           d == IF m[3] = "crashed" THEN 1 ELSE 0
<1>1. h \in HourStarts /\ r \in NameSet
  BY ChartsAssumption DEF HourStarts
<1>2. /\ counts' = [counts EXCEPT ![h][r] = [events |-> @.events + a, unhandled |-> @.unhandled + b, sessions |-> @.sessions + c, crashed |-> @.crashed + d]]
      /\ sheet' = sheet
  BY DEF Arrive
<1>3. a \in Nat /\ b \in Nat /\ c \in Nat /\ d \in Nat /\ b <= a /\ d <= c
  OBVIOUS
<1>4. counts \in [HourStarts -> [NameSet -> CountRecord]] /\ old \in CountRecord
      /\ old.unhandled <= old.events /\ old.crashed <= old.sessions
  BY <1>1 DEF CountsOK, TableOK
<1> DEFINE X == [events |-> old.events + a, unhandled |-> old.unhandled + b,
                sessions |-> old.sessions + c, crashed |-> old.crashed + d]
<1> HIDE DEF a, b, c, d, h, r
<1>5. counts' = [counts EXCEPT ![h] = [counts[h] EXCEPT ![r] = X]]
  BY <1>1, <1>2, <1>4
<1> HIDE DEF X
<1>6. new = X
  BY <1>1, <1>4, <1>5
<1>7. \A k \in HourStarts, s \in NameSet : <<k, s>> # <<h, r>> => counts'[k][s] = counts[k][s]
  BY <1>1, <1>4, <1>5
<1> HIDE DEF new
<1>8. old \in [events : Nat, unhandled : Nat, sessions : Nat, crashed : Nat]
  <2> HIDE DEF old
  <2> QED BY <1>4 DEF CountRecord
<1>9. /\ old.events \in Nat /\ old.unhandled \in Nat /\ old.sessions \in Nat /\ old.crashed \in Nat
      /\ new.events = old.events + a /\ new.unhandled = old.unhandled + b
      /\ new.sessions = old.sessions + c /\ new.crashed = old.crashed + d
  <2> HIDE DEF old
  <2> QED BY <1>6, <1>8 DEF X
<1>10. new \in CountRecord /\ new.unhandled <= new.events /\ new.crashed <= new.sessions
  <2> HIDE DEF old
  <2>1. new = [events |-> old.events + a, unhandled |-> old.unhandled + b,
               sessions |-> old.sessions + c, crashed |-> old.crashed + d]
    BY <1>6 DEF X
  <2> QED BY <1>3, <1>4, <1>9, <2>1 DEF CountRecord
<1>11. \A column \in Columns : old[column] <= new[column]
  <2> HIDE DEF old
  <2> QED BY <1>3, <1>9 DEF Columns
<1>12. counts' \in [HourStarts -> [NameSet -> CountRecord]]
  <2> HIDE DEF old
  <2>1. counts' = [counts EXCEPT ![h] = [counts[h] EXCEPT ![r] = new]]
    BY <1>5, <1>6
  <2> QED BY <1>1, <1>4, <1>10, <2>1
<1>13. ASSUME NEW k \in HourStarts, NEW s \in NameSet
       PROVE  /\ counts'[k][s].unhandled <= counts'[k][s].events /\ counts'[k][s].crashed <= counts'[k][s].sessions
              /\ \A column \in Columns : counts[k][s][column] <= counts'[k][s][column]
  <2>1. CASE k = h /\ s = r
    BY <1>10, <1>11, <2>1 DEF new
  <2>2. CASE <<k, s>> # <<h, r>>
    <3>1. counts'[k][s] = counts[k][s] /\ counts[k][s] \in CountRecord
      BY <1>4, <1>7, <2>2
    <3>2. \A column \in Columns : counts[k][s][column] \in Nat
      BY <3>1 DEF CountRecord, Columns
    <3>3. \A column \in Columns : counts[k][s][column] <= counts'[k][s][column]
      BY <3>1, <3>2
    <3> QED BY <3>1, <3>3 DEF CountsOK, TableOK
  <2> QED BY <2>1, <2>2
<1>14. TableOK(counts')
  BY <1>12, <1>13 DEF TableOK
<1>15. Grown(counts, counts')
  BY <1>13 DEF Grown
<1> QED BY <1>2, <1>14, <1>15

LEMMA ChartsStepInv == ASSUME ChartsInv, [ChartsNext]_chartVars PROVE ChartsInv'
<1> USE DEF ChartsInv
<1>0. ASSUME counts' = counts, PageRead(counts, sheet'), ChartsAddUp' \/ sheet'.pc # "done" PROVE ChartsInv'
  BY <1>0 DEF ChartsAddUp, CountsOK
<1>1. CASE FirstQuery
  BY <1>0, <1>1, FirstQueryStep
<1>2. CASE SecondQuery
  BY <1>0, <1>2, SecondQueryStep
<1>3. CASE RowQuery
  BY <1>0, <1>3, RowQueryStep
<1>4. CASE TimelineQuery
  BY <1>0, <1>4, TimelineQueryStep
<1>5. CASE Close
  <2>1. sheet' = NoPage /\ counts' = counts
    BY <1>5 DEF Close
  <2>2. PageRead(counts, sheet') /\ sheet'.pc # "done"
    BY <2>1, NoPageRead, NoPageIs
  <2> QED BY <1>0, <2>1, <2>2
<1>6. ASSUME NEW kind \in {"portal", "overview", "api", "releases", "sparks"}, NEW span \in Spans, NEW now \in Moments,
             Open(kind, span, now, "")
      PROVE  ChartsInv'
  <2>1. kind \in {"portal", "overview", "api", "releases", "sparks"} \cup ReleasePages /\ kind \notin ReleasePages
    BY DEF ReleasePages
  <2> QED BY <1>0, <1>6, <2>1, OpenStep
<1>7. ASSUME NEW kind \in ReleasePages, NEW span \in Spans, NEW now \in Moments, NEW r \in NameSet \ {""},
             Open(kind, span, now, r)
      PROVE  ChartsInv'
  BY <1>0, <1>7, OpenStep
<1>8. ASSUME NEW listed \in BOOLEAN, DaysQuery(listed) PROVE ChartsInv'
  BY <1>0, <1>8, DaysQueryStep
<1>9. ASSUME NEW m \in Mail, Arrive(m[1], m[2], m[3]) PROVE ChartsInv'
  <2>1. TableOK(counts') /\ Grown(counts, counts') /\ sheet' = sheet
    BY <1>9, CountsGrow
  <2>2. PageRead(counts', sheet)
    BY <2>1, PageGrows DEF CountsOK
  <2> QED BY <2>1, <2>2 DEF ChartsAddUp, CountsOK
<1>10. CASE UNCHANGED chartVars
  BY <1>10 DEF chartVars, ChartsAddUp, CountsOK
<1> QED BY <1>1, <1>2, <1>3, <1>4, <1>5, <1>6, <1>7, <1>8, <1>9, <1>10 DEF ChartsNext

\* Whatever arrives between the queries of a page, and for any counts,
\* windows and number of releases: every count of the window is in one bar,
\* no headline exceeds the chart under it, shares are of one total, and a
\* crash-free rate is a rate (state.go:196-216, internal/store/stats.go).
THEOREM StatisticsAddUp == ChartsSpec => []ChartsAddUp
<1>1. ChartsInv => ChartsAddUp
  BY DEF ChartsInv
<1> QED BY <1>1, ChartsInitInv, ChartsStepInv, PTL DEF ChartsSpec
=============================================================================
