------------------------------- MODULE Arrival -------------------------------
(***************************************************************************)
(* When an event happened, and whether it is here already.  ParseEvent     *)
(* (internal/sentry/envelope.go) gives it an id and a time, Ingest         *)
(* (internal/ingest/ingest.go) corrects a time before the window and looks *)
(* for the ids of the envelope among the stored rows, by their times.      *)
(* Clients send an envelope again when an answer is lost, any time later,  *)
(* one after the other.                                                    *)
(***************************************************************************)
EXTENDS Integers, FiniteSets

CONSTANTS
  Mails,     \* envelopes: sets of events, at least one each
  Stamp,     \* Stamp[e]: the time the device gave event e, or NoStamp
  NoStamp,
  Slack,     \* how far ahead a time may lie: one minute
  Window,    \* RETENTION_DAYS
  LastNow    \* bound: the clock

Arriving == DOMAIN Stamp

ASSUME ArrivalAssumption ==
  /\ \A m \in Mails : m # {} /\ m \subseteq Arriving
  /\ NoStamp \notin Int
  /\ \A e \in Arriving : Stamp[e] \in Int \cup {NoStamp}
  /\ Slack \in Nat /\ Window \in Nat /\ LastNow \in Nat

VARIABLES
  now,      \* the server's clock
  rows,     \* rows of events: [id, at]
  guessed   \* history: events some delivery took for "now" that lay ahead or had no time

arrivalVars == <<now, rows, guessed>>

ArrivalTypeOK ==
  /\ now \in 0..LastNow
  /\ rows \subseteq [id : Arriving, at : Int]
  /\ guessed \subseteq Arriving

ArrivalInit == now = 0 /\ rows = {} /\ guessed = {}

ClockTicks == now < LastNow /\ now' = now + 1 /\ UNCHANGED <<rows, guessed>>

-----------------------------------------------------------------------------
(* The time of an event. *)

\* No usable time of its own: the header's sent_at, which is about now, or now.
Dated(e) == IF Stamp[e] = NoStamp THEN now ELSE Stamp[e]

Ahead(t) == t > now + Slack   \* clampFuture
Past(t)  == t < now - Window  \* clampPast

Clamped(e) == Ahead(Dated(e)) \/ Past(Dated(e))
Time(e)    == IF Clamped(e) THEN now ELSE Dated(e)

-----------------------------------------------------------------------------
(* Ingest. *)

\* ExistingEventIDs: the ids among the rows of the envelope's own time range.
FoundInRange(m) ==
  {e \in m : \E r \in rows : r.id = e /\ (\E f \in m : Time(f) <= r.at) /\ (\E f \in m : r.at <= Time(f))}

\* Faulty: all ids are looked for in the range.
FoundAnyTimeNever(m) == {}

\* ExistingEventIDsAnyTime, of those whose time is the server's.
FoundAnyTime(m) == {e \in m : Clamped(e) /\ \E r \in rows : r.id = e}

\* The ids of m that are news go to the table.
Deliver(m) ==
  LET news == m \ (FoundInRange(m) \cup FoundAnyTime(m)) IN
  /\ rows' = rows \cup {[id |-> e, at |-> Time(e)] : e \in news}
  /\ guessed' = guessed \cup {e \in m : Stamp[e] = NoStamp \/ Ahead(Dated(e))}
  /\ UNCHANGED now

\* Rows are dropped some time after they leave the window.
DropRow ==
  /\ \E r \in rows : r.at < now - Window /\ rows' = rows \ {r}
  /\ UNCHANGED <<now, guessed>>

ArrivalNext == ClockTicks \/ DropRow \/ \E m \in Mails : Deliver(m)

ArrivalSpec == ArrivalInit /\ [][ArrivalNext]_arrivalVars

-----------------------------------------------------------------------------

Twice(e) == \E r, s \in rows : r.id = e /\ s.id = e /\ r # s

\* An envelope the SDK sends again is not counted twice (ingest.go:351-353), at
\* any age, when the device gave its events a time that was not ahead.
ResendFound == \A e \in Arriving \ guessed : ~Twice(e)

\* The same of every event, as the comment on times replaced by the server's
\* has it (ingest.go:370-372).
ResendFoundAlways == \A e \in Arriving : ~Twice(e)
=============================================================================
