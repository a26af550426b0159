------------------------------ MODULE Envelope ------------------------------
(***************************************************************************)
(* The framing of an envelope (Parse of internal/sentry/envelope.go) and   *)
(* the limits on one request (internal/ingest/ingest.go).  The body is a   *)
(* sequence of tokens: a newline, the envelope's header, an item's header, *)
(* or a piece of an item's body.  A piece that is a JSON object would do   *)
(* for an item's header of no type.                                        *)
(***************************************************************************)
EXTENDS Integers, SequencesExt, Functions

CONSTANTS
  Mailings,        \* sequences of items, as clients frame them
  MaxEvents,       \* events of one request
  MaxSessions,     \* session rows of one request
  MaxAttachments   \* attachments of one request

\* An item's kind, its body, and how it is framed: with an explicit length, with
\* a newline after the body.  good: the body parses and is not too large; rows: of sessions.
ItemContent == [kind : STRING, body : Seq({"nl", "object", "raw"}), length : BOOLEAN, ends : BOOLEAN, good : BOOLEAN, rows : Nat]

\* A body of several lines without a length: all but the first are taken for
\* headers, and are none.
Malformed(i) == "object" \notin ToSet(i.body) /\ ~i.good /\ i.kind # "attachment"

\* What SDKs send: a body without length is one line, and only the last item
\* may do without the newline.
WellFormed(items) ==
  \A i \in DOMAIN items :
    /\ items[i].length \/ "nl" \notin ToSet(items[i].body) \/ Malformed(items[i])
    /\ items[i].ends \/ i = Len(items)

ASSUME EnvelopeAssumption ==
  /\ MaxEvents \in Nat /\ MaxSessions \in Nat /\ MaxAttachments \in Nat
  /\ Mailings \subseteq Seq(ItemContent) /\ \A items \in Mailings : WellFormed(items)

VARIABLES
  mailing,  \* the items sent
  rest,     \* tokens not read yet
  parsed,   \* what Parse has made of the rest
  reply     \* "idle", "none" while a request is parsed, "refused", "ingested"

envelopeVars == <<mailing, rest, parsed, reply>>

Newline    == [is |-> "nl"]
Piece(n, i) == [is |-> i.body[n], item |-> i]
Header(i)  == [is |-> "header", item |-> i]

\* A length counts tokens here, bytes there.
BodyTokens(i) == [n \in DOMAIN i.body |-> IF i.body[n] = "nl" THEN Newline ELSE Piece(n, i)]
Tokens(i)     == <<Header(i), Newline>> \o BodyTokens(i) \o IF i.ends THEN <<Newline>> ELSE <<>>

NothingParsed == [events |-> <<>>, invalid |-> 0, rows |-> 0, attachments |-> <<>>,
                  report |-> <<>>, checkIn |-> <<>>, reports |-> 0, dropped |-> 0]

EnvelopeInit == mailing = <<>> /\ rest = <<>> /\ parsed = NothingParsed /\ reply = "idle"

\* The envelope's header parses; its line is cut off.
Receive(items) ==
  /\ reply = "idle"
  /\ mailing' = items
  /\ rest' = FlattenSeq([i \in DOMAIN items |-> Tokens(items[i])])
  /\ parsed' = NothingParsed
  /\ reply' = "none"

-----------------------------------------------------------------------------
(* Parse, an item at a time. *)

\* cutLine: the tokens before the first newline, and those after it.
LineLength(s) == SelectInSeq(s, LAMBDA t : t = Newline)
CutLine(s)    == IF LineLength(s) = 0 THEN s ELSE SubSeq(s, 1, LineLength(s) - 1)
AfterLine(s)  == IF LineLength(s) = 0 THEN <<>> ELSE SubSeq(s, LineLength(s) + 1, Len(s))
AfterNewline(s) == IF s # <<>> /\ Head(s) = Newline THEN Tail(s) ELSE s

\* A line that is empty or parses as no object is no header; an object that is
\* no header has no type and no length.
IsHeader(line) == Len(line) = 1 /\ line[1].is \in {"header", "object"}
TypeOf(token)  == IF token.is = "header" THEN token.item.kind ELSE ""

\* Faulty: a body that ends the envelope has lost its length.
TrustedBelow(token, s) == token.is = "header" /\ token.item.length /\ Len(token.item.body) < Len(s)

\* An explicit length wins, unless there is less left.
Trusted(token, s) == token.is = "header" /\ token.item.length /\ Len(token.item.body) <= Len(s)

BodyOf(token, s) == IF Trusted(token, s) THEN SubSeq(s, 1, Len(token.item.body)) ELSE CutLine(s)
AfterBody(token, s) ==
  IF Trusted(token, s) THEN AfterNewline(SubSeq(s, Len(token.item.body) + 1, Len(s))) ELSE AfterLine(s)

\* Whether the body handed to the item's parser is the item's, whole.
Whole(token, body)  == token.is = "header" /\ body = BodyTokens(token.item)
Parses(token, body) == Whole(token, body) /\ token.item.good

Drop(env, n) == [env EXCEPT !.dropped = @ + n]

TakeEvent(env, token, body) ==
  IF Len(env.events) > MaxEvents THEN Drop(env, 1)
  ELSE IF Parses(token, body) THEN [env EXCEPT !.events = Append(@, token.item)]
  ELSE [env EXCEPT !.invalid = @ + 1]

TakeSessions(env, token, body) ==
  IF env.rows >= MaxSessions THEN Drop(env, 1)
  ELSE IF ~Parses(token, body) THEN env
  ELSE LET fit == IF token.item.rows > MaxSessions - env.rows THEN MaxSessions - env.rows ELSE token.item.rows
       IN  Drop([env EXCEPT !.rows = @ + fit], token.item.rows - fit)

\* An attachment's bytes are taken as they are, unless they are too many.
TakeAttachment(env, token, body) ==
  IF Len(env.attachments) >= MaxAttachments \/ ~token.item.good THEN Drop(env, 1)
  ELSE [env EXCEPT !.attachments = Append(@, body)]

TakeReport(env, token, body) ==
  IF Parses(token, body) THEN [env EXCEPT !.report = <<token.item>>] ELSE Drop(env, 1)

TakeCheckIn(env, token, body) ==
  IF Parses(token, body) THEN [env EXCEPT !.checkIn = <<token.item>>] ELSE Drop(env, 1)

TakeClientReport(env, token, body) ==
  IF Parses(token, body) THEN [env EXCEPT !.reports = @ + 1] ELSE Drop(env, 1)

Take(env, token, body) ==
  CASE TypeOf(token) = "event"         -> TakeEvent(env, token, body)
    [] TypeOf(token) = "sessions"      -> TakeSessions(env, token, body)
    [] TypeOf(token) = "attachment"    -> TakeAttachment(env, token, body)
    [] TypeOf(token) = "user_report"   -> TakeReport(env, token, body)
    [] TypeOf(token) = "check_in"      -> TakeCheckIn(env, token, body)
    [] TypeOf(token) = "client_report" -> TakeClientReport(env, token, body)
    [] OTHER                           -> Drop(env, 1)

SkipLine ==
  /\ reply = "none" /\ rest # <<>> /\ ~IsHeader(CutLine(rest))
  /\ rest' = AfterLine(rest)
  /\ UNCHANGED <<mailing, parsed, reply>>

ParseItem ==
  /\ reply = "none" /\ rest # <<>> /\ IsHeader(CutLine(rest))
  /\ LET token == Head(rest)
         after == AfterLine(rest) IN
     /\ parsed' = Take(parsed, token, BodyOf(token, after))
     /\ rest' = AfterBody(token, after)
  /\ UNCHANGED <<mailing, reply>>

\* serveEnvelope: too many events refuse the request.
Serve ==
  /\ reply = "none" /\ rest = <<>>
  /\ reply' = IF Len(parsed.events) > MaxEvents THEN "refused" ELSE "ingested"
  /\ UNCHANGED <<mailing, rest, parsed>>

\* The answer is sent; requests share nothing.
Reply ==
  /\ reply \in {"refused", "ingested"}
  /\ mailing' = <<>> /\ rest' = <<>> /\ parsed' = NothingParsed /\ reply' = "idle"

EnvelopeNext == SkipLine \/ ParseItem \/ Serve \/ Reply \/ \E items \in Mailings : Receive(items)

EnvelopeSpec == EnvelopeInit /\ [][EnvelopeNext]_envelopeVars

-----------------------------------------------------------------------------

\* The good items of a kind among the first n sent.
Among(kind) ==
  LET among[n \in 0..Len(mailing)] ==
        IF n = 0 THEN <<>>
        ELSE IF mailing[n].kind = kind /\ mailing[n].good THEN Append(among[n - 1], mailing[n])
        ELSE among[n - 1]
  IN among

Sent(kind)   == Among(kind)[Len(mailing)]
AtMost(n, s) == SubSeq(s, 1, IF Len(s) < n THEN Len(s) ELSE n)
LastOf(s)    == IF s = <<>> THEN s ELSE <<s[Len(s)]>>
RowsIn(s)    == SumFunction([i \in DOMAIN s |-> s[i].rows])
Bodies(s)    == [i \in DOMAIN s |-> BodyTokens(s[i])]

\* A good item is not lost to its neighbours: bodies with newlines in them,
\* items of kinds unknown here, a body that does not parse, is too large or has
\* lost its length cost nothing but themselves (envelope.go:459-461, 491), and the
\* limits cut what is over them, neither less nor more.
EnvelopeRead ==
  reply \in {"refused", "ingested"} =>
    /\ (reply = "refused") = (Len(Sent("event")) > MaxEvents)
    /\ parsed.events = AtMost(MaxEvents + 1, Sent("event"))
    /\ parsed.rows = IF RowsIn(Sent("sessions")) > MaxSessions THEN MaxSessions ELSE RowsIn(Sent("sessions"))
    /\ parsed.attachments = Bodies(AtMost(MaxAttachments, Sent("attachment")))
    /\ parsed.report = LastOf(Sent("user_report")) /\ parsed.checkIn = LastOf(Sent("check_in"))
    /\ parsed.reports = Len(Sent("client_report"))
=============================================================================
