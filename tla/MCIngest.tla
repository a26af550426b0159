------------------------------ MODULE MCIngest ------------------------------
(***************************************************************************)
(* What a request to the ingest goes through: its key (FrontDoor), its     *)
(* framing (Envelope), the times and ids of its events (Arrival), their    *)
(* fingerprints (Grouping), its issues (IssueIngest) and the rest of what  *)
(* it writes (Reports).  The parts share no state: each hands the next a   *)
(* value.  A behaviour is one part's, while the others rest.               *)
(***************************************************************************)
EXTENDS IssueIngest, FrontDoor, MCArrival, Reports, Envelope, Grouping

VARIABLE part

-----------------------------------------------------------------------------
(* IssueIngest: two envelopes, each with an event of issue 1 and one of    *)
(* issue 2, the second of a later release; symbols move e1 to issue 2, and *)
(* the sampler may drop e4.                                                *)

CONSTANTS e1, e2, e3, e4, rel1, rel2

Both == {{e1, e2}, {e3, e4}}

MCRawFp     == [e \in Events |-> IF e \in {e2, e4} THEN 2 ELSE 1]
MCSymFp     == [e \in Events |-> IF e \in {e1, e2, e4} THEN 2 ELSE 1]
MCReleaseOf == [e \in Events |-> IF e \in {e3, e4} THEN rel2 ELSE rel1]

Symmetry == Permutations(Senders) \cup Permutations(Movers)

-----------------------------------------------------------------------------
(* Reports: the updates of one session, and an event from two platforms,   *)
(* with and without a release.                                             *)

Blank == [release |-> "r1", platform |-> "", at |-> 1, session |-> Absent, status |-> "", errors |-> 0,
          event |-> Absent, files |-> 0, words |-> Absent, lost |-> 0]
Update(st, errors) == [Blank EXCEPT !.session = "s1", !.status = st, !.errors = errors]

MCPosts ==
  {[Update("ok", 0) EXCEPT !.at = 2], [Update("ok", 1) EXCEPT !.lost = 1], Update("exited", 0),
   [Update("crashed", 0) EXCEPT !.event = "e1", !.platform = "a", !.files = 2],
   [Update("unknown", 0) EXCEPT !.words = "no event"],
   [Blank EXCEPT !.event = "e1", !.platform = "b", !.at = 3, !.words = "w1"],
   [Blank EXCEPT !.release = Absent, !.event = "e1", !.words = "w2", !.lost = 2]}

-----------------------------------------------------------------------------
(* Envelope: up to three items of every kind, with and without a length,   *)
(* bodies that are empty, hold newlines, with a length or without it, or   *)
(* do not parse.                                                           *)

MakeItem(kind, body, length, good, n) ==
  [kind |-> kind, body |-> body, length |-> length, ends |-> TRUE, good |-> good, rows |-> n]

MCItems ==
  {MakeItem("event", <<"object">>, FALSE, TRUE, 0), MakeItem("event", <<"object", "nl", "object">>, TRUE, TRUE, 0),
   MakeItem("event", <<"raw">>, FALSE, FALSE, 0), MakeItem("event", <<"raw", "nl", "nl", "raw">>, FALSE, FALSE, 0),
   MakeItem("sessions", <<"object">>, FALSE, TRUE, 2),
   MakeItem("attachment", <<"nl", "raw">>, TRUE, TRUE, 0), MakeItem("attachment", <<>>, TRUE, TRUE, 0),
   MakeItem("attachment", <<"object">>, FALSE, FALSE, 0), MakeItem("user_report", <<"object">>, TRUE, TRUE, 0),
   MakeItem("check_in", <<"object">>, FALSE, TRUE, 0), MakeItem("client_report", <<"raw">>, FALSE, FALSE, 0),
   MakeItem("client_report", <<"object">>, FALSE, TRUE, 0), MakeItem("span", <<"object">>, FALSE, TRUE, 0)}

Unended(s) == [s EXCEPT ![Len(s)].ends = FALSE]
Ended      == UNION {[1..n -> MCItems] : n \in 1..3}
MCMailings == Ended \cup {Unended(s) : s \in Ended}

-----------------------------------------------------------------------------
(* Grouping: stacks of up to two frames and of seven, chains of causes,    *)
(* threads in the place of a stack, fingerprints of the SDK.               *)

Frame(file, fn, kind, inApp, line, image, offset) ==
  [file |-> file, fn |-> fn, kind |-> kind, inApp |-> inApp, line |-> line, image |-> image, offset |-> offset]
Ours == Frame("a", "f", "named", TRUE, 3, 0, 0)

MCFrames ==
  {Ours, Frame("a", "g", "named", FALSE, 0, 0, 0), Frame("b", "closure", "anonymous", TRUE, 5, 0, 0),
   Frame("", "closure", "anonymous", FALSE, 0, 0, 0), Frame("", "", "named", TRUE, 0, 1, 2),
   Frame("", "", "named", FALSE, 0, 2, 1), Frame("", "", "named", FALSE, 0, 3, 4),
   Frame("s", "sentry", "sdk", FALSE, 9, 0, 0), Frame("", "", "named", FALSE, 0, 0, 0)}
Stacks == UNION {[1..n -> MCFrames] : n \in 0..2} \cup {<<f>> \o [i \in 1..5 |-> Ours] \o <<g>> : f, g \in MCFrames}

Exception(type, frames, id, parent) == [type |-> type, frames |-> frames, id |-> id, parent |-> parent]
Thread(crashed, running, frames)    == [crashed |-> crashed, current |-> running, frames |-> frames]
BareSite == [platform |-> "p", message |-> "", level |-> "error", sdk |-> <<>>, exceptions |-> <<>>, threads |-> <<>>]

MCCrashes ==
  {[BareSite EXCEPT !.exceptions = <<Exception("E", s, -1, -1)>>] : s \in Stacks} \cup
  {[BareSite EXCEPT !.exceptions = <<Exception("Outer", <<f>>, 0, -1), Exception("Cause", <<Ours>>, 1, 0)>>] : f \in MCFrames} \cup
  {[BareSite EXCEPT !.message = "m", !.sdk = keys,
      !.threads = <<Thread(FALSE, TRUE, <<>>), Thread(FALSE, TRUE, <<g>>), Thread(crashed, FALSE, <<f>>)>>] :
     f, g \in MCFrames, crashed \in BOOLEAN, keys \in {<<>>, <<"default">>, <<"key">>, <<"default", "key">>}} \cup
  {[BareSite EXCEPT !.exceptions = <<Exception("E", <<>>, -1, -1)>>, !.threads = <<Thread(TRUE, TRUE, <<f>>)>>] : f \in MCFrames}

MCImages  == <<[id |-> "i1", size |-> 10], [id |-> "i2", size |-> 10]>>
MCLayouts == {<<10, 20, 50>>, <<30, 20, 40>>, <<10, 40, 60>>}

-----------------------------------------------------------------------------

MCInit ==
  /\ part \in {"issues", "door", "arrival", "reports", "envelope", "grouping"}
  /\ Init /\ DoorInit /\ ArrivalInit /\ ReportsInit /\ EnvelopeInit /\ GroupingInit
  /\ part # "door" => current = CHOOSE k \in DsnKeys : TRUE

MCNext ==
  /\ UNCHANGED part
  /\ \/ part = "issues"   /\ Next         /\ UNCHANGED <<doorVars, arrivalVars, reportVars, envelopeVars, groupingVars>>
     \/ part = "door"     /\ DoorNext     /\ UNCHANGED <<vars, arrivalVars, reportVars, envelopeVars, groupingVars>>
     \/ part = "arrival"  /\ ArrivalNext  /\ UNCHANGED <<vars, doorVars, reportVars, envelopeVars, groupingVars>>
     \/ part = "reports"  /\ ReportsNext  /\ UNCHANGED <<vars, doorVars, arrivalVars, envelopeVars, groupingVars>>
     \/ part = "envelope" /\ EnvelopeNext /\ UNCHANGED <<vars, doorVars, arrivalVars, reportVars, groupingVars>>
     \/ part = "grouping" /\ GroupingNext /\ UNCHANGED <<vars, doorVars, arrivalVars, reportVars, envelopeVars>>

allVars == <<part, vars, doorVars, arrivalVars, reportVars, envelopeVars, groupingVars>>

MCSpec == MCInit /\ [][MCNext]_allVars
=============================================================================
