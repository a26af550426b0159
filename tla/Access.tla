------------------------------- MODULE Access -------------------------------
(***************************************************************************)
(* Accounts and viewer sessions: the setup page, login and the account     *)
(* page (internal/web/account.go, internal/auth/access.go,                 *)
(* internal/store/auth.go) and the user command.  An account is its id; a  *)
(* client's cookie names at most one session row.                          *)
(***************************************************************************)
EXTENDS Integers, FiniteSets

CONSTANTS
  Ids,       \* ids of users rows, never used twice
  NoUser,
  Clients    \* browsers, one request at a time each

ASSUME AccessAssumption == NoUser \notin Ids

VARIABLES
  alone,    \* no two clients are on the account page at a time
  users,    \* ids of the users rows
  used,     \* ids given out so far
  session,  \* session[c]: the user of c's live session row, NoUser for none
  request,  \* request[c]: what c's request knows by now
  founded   \* history: accounts the setup page made since there were none

accessVars == <<alone, users, used, session, request, founded>>

NoRequest == [pc |-> "idle", id |-> NoUser]

AccessTypeOK ==
  /\ alone \in BOOLEAN
  /\ users \subseteq used /\ used \subseteq Ids
  /\ session \in [Clients -> users \cup {NoUser}]
  /\ request \in [Clients -> [pc : {"idle", "counted", "verified", "acting"}, id : used \cup {NoUser}]]
  /\ founded \in Nat

AccessInit ==
  /\ alone \in BOOLEAN
  /\ users = {} /\ used = {}
  /\ session = [c \in Clients |-> NoUser]
  /\ request = [c \in Clients |-> NoRequest]
  /\ founded = 0

Goes(c, pc, id) == request' = [request EXCEPT ![c] = [pc |-> pc, id |-> id]]
InUse           == {c \in Clients : request[c].pc = "acting"}

-----------------------------------------------------------------------------
(* The first user. *)

\* Faulty: the count is made with no lock.
SetupFreeAlways == TRUE

\* pg_advisory_xact_lock(LeaderSetup).
SetupFree == \A c \in Clients : request[c].pc # "counted"

\* CreateFirstUser up to its count; with a user there it ends.
CountUsers(c) ==
  /\ request[c].pc = "idle" /\ SetupFree /\ users = {}
  /\ Goes(c, "counted", NoUser)
  /\ UNCHANGED <<alone, users, used, session, founded>>

\* The insert and the commit; setup then logs the new user in.
CreateFirstUser(c, id) ==
  /\ request[c].pc = "counted" /\ id \notin used
  /\ users' = users \cup {id} /\ used' = used \cup {id}
  /\ founded' = founded + 1
  /\ Goes(c, "verified", id)
  /\ UNCHANGED <<alone, session>>

\* An error ends the transaction or the request.
Fail(c) ==
  /\ request[c].pc # "idle"
  /\ Goes(c, "idle", NoUser)
  /\ UNCHANGED <<alone, users, used, session, founded>>

-----------------------------------------------------------------------------
(* Sessions. *)

\* login: the account is read and its password verified.
VerifyPassword(c, id) ==
  /\ request[c].pc = "idle" /\ id \in users
  /\ Goes(c, "verified", id)
  /\ UNCHANGED <<alone, users, used, session, founded>>

\* Access.Login: the session row references the account, which may be gone.
Login(c) ==
  /\ request[c].pc = "verified"
  /\ session' = [session EXCEPT ![c] = IF request[c].id \in users THEN request[c].id ELSE @]
  /\ Goes(c, "idle", NoUser)
  /\ UNCHANGED <<alone, users, used, founded>>

\* Logout, or the row expires.
EndSession(c) ==
  /\ session[c] # NoUser
  /\ session' = [session EXCEPT ![c] = NoUser]
  /\ UNCHANGED <<alone, users, used, request, founded>>

\* Access.Session: a live row puts its user on the request.
Act(c) ==
  /\ request[c].pc = "idle" /\ session[c] # NoUser
  /\ alone => InUse = {}
  /\ Goes(c, "acting", session[c])
  /\ UNCHANGED <<alone, users, used, session, founded>>

-----------------------------------------------------------------------------
(* The account page and the command line. *)

\* accountUserAdd, or the user add command, which needs no session.
AddUser(id) ==
  /\ id \notin used
  /\ users' = users \cup {id} /\ used' = used \cup {id}
  /\ UNCHANGED <<alone, session, founded>>

AddByAccount(c, id) == request[c].pc = "acting" /\ AddUser(id) /\ Goes(c, "idle", NoUser)
AddByCommand(id)    == AddUser(id) /\ UNCHANGED request

Removable(c, id) == id \in users /\ id # request[c].id

\* accountUserDelete; the sessions go by cascade, requests under way do not.
RemoveUser(c, id) ==
  /\ request[c].pc = "acting" /\ Removable(c, id)
  /\ users' = users \ {id}
  /\ session' = [d \in Clients |-> IF session[d] = id THEN NoUser ELSE session[d]]
  /\ founded' = IF users' = {} THEN 0 ELSE founded
  /\ Goes(c, "idle", NoUser)
  /\ UNCHANGED <<alone, used>>

-----------------------------------------------------------------------------

AccessNext ==
  \E c \in Clients :
    \/ CountUsers(c) \/ Fail(c) \/ Login(c) \/ EndSession(c) \/ Act(c)
    \/ \E id \in Ids : \/ CreateFirstUser(c, id) \/ VerifyPassword(c, id)
                       \/ AddByAccount(c, id) \/ AddByCommand(id) \/ RemoveUser(c, id)

AccessSpec == AccessInit /\ [][AccessNext]_accessVars

-----------------------------------------------------------------------------

\* Two setup posts racing on a fresh install cannot both succeed
\* (account.go:117-119); and the page opens again only if people remove each
\* other at the same time, since nobody removes themselves (account.go:227).
SetupStaysShut ==
  /\ founded <= 1
  /\ alone /\ used # {} => users # {}
=============================================================================
