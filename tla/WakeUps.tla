------------------------------- MODULE WakeUps -------------------------------
(***************************************************************************)
(* From a committed change to the one who waits for it: pg_notify, the     *)
(* Listener with its reconnects and coalescing subscriptions               *)
(* (internal/store/listener.go), and the viewer's event stream             *)
(* (internal/web/stream.go), which polls as a fallback.                    *)
(*                                                                         *)
(* A stream shows two figures of its project; here they are one number,    *)
(* which every new issue and every regression changes.                     *)
(***************************************************************************)
EXTENDS Integers, Sequences

CONSTANTS
  Projects,
  Streams,    \* viewers' connections
  Figures,    \* bound: the figures are counted modulo this
  WireCap     \* bound: notifications under way

ASSUME WakeUpsAssumption ==
  /\ Figures \in Nat \ {0}
  /\ WireCap \in Nat \ {0}

VARIABLES
  figure,     \* figure[p]: what a count of p would find
  conn,       \* the LISTEN connection: "up", "dead" when nobody has noticed, "down"
  wire,       \* notifications under way on it
  stream,     \* stream[v]
  lossy       \* history: a notification may have been missed since v subscribed

wakeVars == <<figure, conn, wire, stream, lossy>>

Unset  == Figures     \* last = "": nothing was shown yet
Closed == [pc |-> "closed", of |-> "none", wake |-> FALSE, read |-> Unset, shown |-> Unset]

WakeTypeOK ==
  /\ figure \in [Projects -> 0..(Figures - 1)]
  /\ conn \in {"up", "dead", "down"}
  /\ wire \in Seq(Projects) /\ Len(wire) <= WireCap
  /\ stream \in [Streams -> [pc : {"closed", "waiting", "counting", "sending"},
                             of : Projects \cup {"none"}, wake : BOOLEAN,
                             read : 0..Figures, shown : 0..Figures]]
  /\ \A v \in Streams : stream[v].pc = "closed" => stream[v] = Closed
  /\ lossy \in [Streams -> BOOLEAN]

WakeInit ==
  /\ figure = [p \in Projects |-> 0]
  /\ conn = "up" /\ wire = <<>>
  /\ stream = [v \in Streams |-> Closed]
  /\ lossy = [v \in Streams |-> TRUE]

Open(v) == stream[v].pc # "closed"

\* A transaction that adds an issue or flips one to regression commits; the
\* trigger's notification goes to whoever listens then.
Change(p) ==
  /\ Len(wire) < WireCap
  /\ figure' = [figure EXCEPT ![p] = (@ + 1) % Figures]
  /\ wire' = IF conn = "up" THEN Append(wire, p) ELSE wire
  /\ lossy' = IF conn = "up" THEN lossy ELSE [v \in Streams |-> TRUE]
  /\ UNCHANGED <<conn, stream>>

\* listen: LISTEN on a connection of its own, after the backoff of Run.
Connect ==
  /\ conn = "down"
  /\ conn' = "up"
  /\ UNCHANGED <<figure, wire, stream, lossy>>

\* The connection breaks with what was on it; a proxy that drops it says so to
\* nobody.
Break ==
  /\ conn = "up"
  /\ conn' \in {"dead", "down"} /\ wire' = <<>>
  /\ lossy' = [v \in Streams |-> TRUE]
  /\ UNCHANGED <<figure, stream>>

\* The ping after ListenKeepalive finds it dead.
KeepAlive ==
  /\ conn = "dead"
  /\ conn' = "down"
  /\ UNCHANGED <<figure, wire, stream, lossy>>

TakesWake(v, p) == stream[v].of = p /\ Open(v)

\* deliver: one pending wake-up per subscription, which a second does not add to.
Deliver ==
  /\ wire # <<>>
  /\ wire' = Tail(wire)
  /\ stream' = [v \in Streams |-> IF TakesWake(v, Head(wire)) THEN [stream[v] EXCEPT !.wake = TRUE]
                                  ELSE stream[v]]
  /\ UNCHANGED <<figure, conn, lossy>>

\* The request subscribes before it counts anything; what changed since its
\* page was drawn is left to the first wake-up or poll.
OpenStream(v, p) ==
  /\ ~Open(v)
  /\ stream' = [stream EXCEPT ![v] = [Closed EXCEPT !.pc = "waiting", !.of = p]]
  /\ lossy' = [lossy EXCEPT ![v] = conn # "up"]
  /\ UNCHANGED <<figure, conn, wire>>

\* The viewer leaves, the server stops, or a count fails.
CloseStream(v) ==
  /\ Open(v)
  /\ stream' = [stream EXCEPT ![v] = Closed]
  /\ lossy' = [lossy EXCEPT ![v] = TRUE]
  /\ UNCHANGED <<figure, conn, wire>>

\* The select: a wake-up is consumed, then the figures are counted.
Wake(v) ==
  /\ stream[v].pc = "waiting" /\ stream[v].wake
  /\ stream' = [stream EXCEPT ![v].pc = "counting", ![v].wake = FALSE]
  /\ UNCHANGED <<figure, conn, wire, lossy>>

\* Faulty: with a listener the stream does not poll.
PollNever(v) == stream[v].pc = "waiting" /\ stream[v].wake /\ Wake(v)

Poll(v) ==
  /\ stream[v].pc = "waiting"
  /\ stream' = [stream EXCEPT ![v].pc = "counting"]
  /\ UNCHANGED <<figure, conn, wire, lossy>>

Count(v) ==
  /\ stream[v].pc = "counting"
  /\ stream' = [stream EXCEPT ![v].pc = "sending", ![v].read = figure[stream[v].of]]
  /\ UNCHANGED <<figure, conn, wire, lossy>>

\* Written when it differs from what was written last.
Emit(v) ==
  /\ stream[v].pc = "sending"
  /\ stream' = [stream EXCEPT ![v].pc = "waiting", ![v].shown = stream[v].read, ![v].read = Unset]
  /\ UNCHANGED <<figure, conn, wire, lossy>>

WakeNext ==
  \/ \E p \in Projects : Change(p)
  \/ Connect \/ Break \/ KeepAlive \/ Deliver
  \/ \E v \in Streams : CloseStream(v) \/ Wake(v) \/ Poll(v) \/ Count(v) \/ Emit(v)
                          \/ \E p \in Projects : OpenStream(v, p)

\* The tickers tick and the loops run.
WakeFairness ==
  /\ WF_wakeVars(Connect) /\ WF_wakeVars(KeepAlive) /\ WF_wakeVars(Deliver)
  /\ \A v \in Streams : WF_wakeVars(Wake(v) \/ Poll(v)) /\ WF_wakeVars(Count(v)) /\ WF_wakeVars(Emit(v))

WakeSpec == WakeInit /\ [][WakeNext]_wakeVars /\ WakeFairness

-----------------------------------------------------------------------------

\* A broken connection costs a few missed wake-ups only (listener.go:20-23):
\* once nothing changes any more, a stream that stays open shows the figures.
StreamsCatchUp ==
  \A v \in Streams, p \in Projects :
    <>[][figure' = figure /\ (stream[v].of = p => stream'[v].of = p)]_wakeVars
      => []<>(stream[v].of = p => stream[v].shown = figure[p])
=============================================================================
