------------------------------- MODULE Charts -------------------------------
(***************************************************************************)
(* The pages of statistics: portal, overview, releases and a release, of   *)
(* the viewer (internal/web/pages.go, state.go) and of the API             *)
(* (internal/api/overview.go, releases.go), each a few queries of its own  *)
(* over the hourly counts (internal/store/stats.go, sessions.go, web.go)   *)
(* while events go on arriving.  Time is in ticks; counts are exact for    *)
(* every hour (ExactStats).                                                *)
(***************************************************************************)
EXTENDS Integers, SequencesExt

CONSTANTS
  Hour, Day,     \* ticks
  Spans,         \* what the selector offers: <<ticks, bucket width>>
  Names,         \* releases in their order, "" among them
  Top,           \* series a chart names
  Moments,       \* when a page is asked for
  Mail,          \* what may arrive: <<hour, release, what>>
  MaxArrivals    \* bound: events and sessions that arrive

NameSet == ToSet(Names)

\* Windows end at a moment; a grid has a width.
ASSUME ChartsAssumption ==
  /\ Hour \in Nat \ {0} /\ Day \in Nat \ {0}
  /\ Spans \subseteq Nat \X (Nat \ {0}) /\ Moments \subseteq Nat
  /\ Names \in Seq(STRING)
  /\ Mail \subseteq Nat \X NameSet \X {"error", "crash", "healthy", "crashed"} /\ IsFiniteSet(Mail)

VARIABLES
  counts,   \* counts[h][r]: [events, unhandled, sessions, crashed] of an hour
  sheet      \* the page being read

chartVars == <<counts, sheet>>

HourStarts == {m[1] : m \in Mail}
Empty      == [events |-> 0, unhandled |-> 0, sessions |-> 0, crashed |-> 0]
NoRelease  == [events |-> 0, unhandled |-> 0, sessions |-> 0, all |-> 0]
NoPage     == [pc |-> "none", kind |-> "none", from |-> 0, to |-> 0, width |-> Hour, health |-> 0,
               total |-> 0, bars |-> <<>>, rows |-> <<>>, latest |-> "", rate |-> <<0, 0>>, drawn |-> 0,
               version |-> "", row |-> NoRelease, days |-> <<>>]

ChartsInit ==
  /\ sheet = NoPage
  /\ counts = [h \in HourStarts |-> [r \in NameSet |-> Empty]]

SumOf(hs, rs, field) == SumFunction([x \in hs \X rs |-> counts[x[1]][x[2]][field]])
Arrivals == SumOf(HourStarts, NameSet, "events") + SumOf(HourStarts, NameSet, "sessions")

\* What is committed meanwhile (external to the pages).
Arrive(h, r, what) ==
  /\ Arrivals < MaxArrivals
  /\ counts' = [counts EXCEPT ![h][r] =
       [events    |-> @.events    + (IF what \in {"error", "crash"} THEN 1 ELSE 0),
        unhandled |-> @.unhandled + (IF what = "crash" THEN 1 ELSE 0),
        sessions  |-> @.sessions  + (IF what \in {"healthy", "crashed"} THEN 1 ELSE 0),
        crashed   |-> @.crashed   + (IF what = "crashed" THEN 1 ELSE 0)]]
  /\ UNCHANGED sheet

-----------------------------------------------------------------------------
(* Windows and buckets. *)

\* Faulty: the window starts where the selector says.
AlignedRaw(t, width) == t

\* Window.Bucket, and crashcart_bucket in SQL.
Aligned(t, width) == (t \div width) * width

Window(kind, span, now) ==
  LET width == IF kind \in {"api", "apirelease"} THEN Hour ELSE span[2]
      from  == Aligned(now - span[1], width)
  IN [NoPage EXCEPT !.pc = "opened", !.kind = kind, !.from = from,
        !.to     = IF kind = "sparks" THEN from + span[1] ELSE now,
        !.width  = width,
        !.health = IF kind \in {"api", "portal", "release", "apirelease"} THEN Aligned(from, Day) ELSE from]

\* Window.Buckets in Go; crashcart_buckets, the grid SQL fills, is the same sum.
Buckets(pg) == {pg.from + k * pg.width : k \in 0..(pg.to - pg.from)} \cap (pg.from..(pg.to - 1))
HoursIn(from, to) == {h \in HourStarts : from <= h /\ h < to}
Hours(pg) == HoursIn(pg.from, pg.to)

-----------------------------------------------------------------------------
(* The charts. *)

\* ORDER BY sum(unhandled) DESC, sum(events) DESC, release.
Before(pg, r, s) ==
  LET U(x) == SumOf(Hours(pg), {x}, "unhandled")
      E(x) == SumOf(Hours(pg), {x}, "events")
  IN \/ U(r) > U(s)
     \/ U(r) = U(s) /\ E(r) > E(s)
     \/ U(r) = U(s) /\ E(r) = E(s) /\ SelectInSeq(Names, LAMBDA x : x = r) < SelectInSeq(Names, LAMBDA x : x = s)

Active(pg)     == {r \in NameSet : SumOf(Hours(pg), {r}, "events") > 0}
RankOf(pg, r)  == 1 + Cardinality({s \in Active(pg) : Before(pg, s, r)})
SeriesOf(pg, r) == IF RankOf(pg, r) <= Top THEN r ELSE "other"

\* Timeline: hours folded to the grid's buckets, series past the top to one.
Timeline(pg) ==
  [b \in Buckets(pg) |-> [s \in {SeriesOf(pg, r) : r \in Active(pg)} |->
     SumOf({h \in Hours(pg) : (h \div pg.width) * pg.width = b}, {r \in Active(pg) : SeriesOf(pg, r) = s}, "unhandled")]]

\* unhandledChart and singleChart drop a series that is zero throughout.
Chart(timeline) ==
  LET shown == {s \in UNION {DOMAIN timeline[b] : b \in DOMAIN timeline} : \E b \in DOMAIN timeline : timeline[b][s] > 0}
  IN [b \in DOMAIN timeline |-> [s \in shown |-> timeline[b][s]]]

SumBars(bars) == SumFunction([b \in DOMAIN bars |-> SumFunction(bars[b])])

\* IssueSparklines: every event of the span, in one series.
Spark(pg) == [b \in Buckets(pg) |-> [events |-> SumOf({h \in Hours(pg) : (h \div pg.width) * pg.width = b}, NameSet, "events")]]

-----------------------------------------------------------------------------
(* The releases. *)

\* The most recently active release of the window, ties by the later name.
Latest(from, to) ==
  LET active == {r \in NameSet \ {""} : SumOf(HoursIn(from, to), {r}, "events") > 0}
      last(r) == Max({h \in HoursIn(from, to) : counts[h][r].events > 0})
      place(r) == SelectInSeq(Names, LAMBDA x : x = r)
      Newer(r, s) == last(r) > last(s) \/ (last(r) = last(s) /\ place(r) > place(s))
  IN IF active = {} THEN "" ELSE CHOOSE r \in active : \A s \in active \ {r} : Newer(r, s)

RateOf(r, from, to) == <<SumOf(HoursIn(from, to), {r}, "sessions"), SumOf(HoursIn(from, to), {r}, "crashed")>>

\* ReleaseStats and ReleaseHealth, joined by the handler: releases with
\* sessions and no events follow.
StatRows(pg) == [r \in Active(pg) \ {""} |-> 
  [NoRelease EXCEPT !.events = SumOf(Hours(pg), {r}, "events"), !.unhandled = SumOf(Hours(pg), {r}, "unhandled")]]

WithHealth(pg) ==
  LET hours  == HoursIn(IF pg.kind = "release" THEN pg.from ELSE pg.health, pg.to)
      health == {r \in NameSet \ {""} : SumOf(hours, {r}, "sessions") > 0}
      all    == SumOf(hours, health, "sessions")
  IN [r \in DOMAIN pg.rows \cup health |->
        [(IF r \in DOMAIN pg.rows THEN pg.rows[r] ELSE NoRelease) EXCEPT
           !.sessions = SumOf(hours, {r}, "sessions"), !.all = all]]

\* The row of the release asked for, if it has one.
RowOf(rows, version) == IF version \in DOMAIN rows THEN rows[version] ELSE NoRelease

\* ReleaseHealthDaily: the days with sessions; the viewer draws every day.
DailyHealth(pg) ==
  LET starts  == {pg.health + k * Day : k \in 0..(pg.to - pg.health)} \cap (pg.health..(pg.to - 1))
      OnDay(d) == RateOf(pg.version, d, IF d + Day < pg.to THEN d + Day ELSE pg.to)
  IN [d \in {x \in starts : pg.kind = "release" \/ OnDay(x)[1] > 0} |-> OnDay(d)]

SumDays(days, i) == SumFunction([d \in DOMAIN days |-> days[d][i]])

\* ReleaseTimeline: the hours of one release folded to the grid's buckets.
ReleaseTimeline(pg) ==
  [b \in Buckets(pg) |-> [s \in {"events", "unhandled"} |->
     SumOf({h \in Hours(pg) : (h \div pg.width) * pg.width = b}, {pg.version}, s)]]

SeriesSum(bars, s) == SumFunction([b \in DOMAIN bars |-> bars[b][s]])

-----------------------------------------------------------------------------
(* The pages: one query a step. *)

ReleasePages == {"release", "apirelease"}

Open(kind, span, now, version) ==
  /\ sheet.pc = "none"
  /\ sheet' = [Window(kind, span, now) EXCEPT !.version = version]
  /\ UNCHANGED counts

\* Totals of the overview, Latest of the portal, ReleaseStats.
FirstQuery ==
  /\ sheet.pc = "opened"
  /\ sheet' = [sheet EXCEPT !.pc = "half",
       !.total  = IF sheet.kind \in {"overview", "api"} THEN SumOf(Hours(sheet), NameSet, "unhandled") ELSE 0,
       !.latest = IF sheet.kind = "portal" THEN Latest(sheet.health, sheet.to) ELSE "",
       !.rows   = IF sheet.kind \in ReleasePages \cup {"releases"} THEN StatRows(sheet) ELSE <<>>]
  /\ UNCHANGED counts

\* Timeline, the portal's PortalReleaseHealth, ReleaseHealth, the sparklines.
SecondQuery ==
  /\ sheet.pc = "half" /\ sheet.kind \notin ReleasePages
  /\ sheet' = [sheet EXCEPT !.pc = "done",
       !.bars  = CASE sheet.kind \in {"overview", "api"} -> Chart(Timeline(sheet))
                   [] sheet.kind = "sparks" -> Spark(sheet)
                   [] OTHER -> <<>>,
       !.rate  = IF sheet.kind = "portal" /\ sheet.latest # "" THEN RateOf(sheet.latest, sheet.health, sheet.to) ELSE <<0, 0>>,
       !.rows  = IF sheet.kind = "releases" THEN WithHealth(sheet) ELSE <<>>,
       !.drawn = SumOf(Hours(sheet), NameSet, IF sheet.kind = "sparks" THEN "events" ELSE "unhandled")]
  /\ UNCHANGED counts

\* The row of a release: ReleaseHealth joins it in the viewer only.
RowQuery ==
  /\ sheet.pc = "half" /\ sheet.kind \in ReleasePages
  /\ sheet' = [sheet EXCEPT !.pc = "row", !.rows = <<>>,
       !.row = RowOf(IF sheet.kind = "release" THEN WithHealth(sheet) ELSE sheet.rows, sheet.version)]
  /\ UNCHANGED counts

\* The days of a release. The API answers 404 for a release without events
\* or sessions in the window and without issues at all (external: listed).
DaysQuery(listed) ==
  /\ sheet.pc = "row"
  /\ LET days == DailyHealth(sheet)
     IN IF sheet.kind = "apirelease" /\ sheet.row.events = 0 /\ days = <<>> /\ ~listed
        THEN sheet' = NoPage
        ELSE sheet' = [sheet EXCEPT !.pc = "days", !.days = days, !.rate = <<SumDays(days, 1), SumDays(days, 2)>>]
  /\ UNCHANGED counts

TimelineQuery ==
  /\ sheet.pc = "days"
  /\ sheet' = [sheet EXCEPT !.pc = "done", !.bars = ReleaseTimeline(sheet),
                            !.drawn = SumOf(Hours(sheet), {sheet.version}, "unhandled")]
  /\ UNCHANGED counts

Close == sheet.pc = "done" /\ sheet' = NoPage /\ UNCHANGED counts

ChartsNext ==
  \/ FirstQuery \/ SecondQuery \/ RowQuery \/ TimelineQuery \/ Close
  \/ \E kind \in {"portal", "overview", "api", "releases", "sparks"}, span \in Spans, now \in Moments : Open(kind, span, now, "")
  \/ \E kind \in ReleasePages, span \in Spans, now \in Moments, r \in NameSet \ {""} : Open(kind, span, now, r)
  \/ \E listed \in BOOLEAN : DaysQuery(listed)
  \/ \E m \in Mail : Arrive(m[1], m[2], m[3])

ChartsSpec == ChartsInit /\ [][ChartsNext]_chartVars

-----------------------------------------------------------------------------

\* A page of statistics adds up whatever arrives between its queries: every
\* count of the window is in one bar (the grid of Go, the grid of SQL and the
\* fold agree only on aligned windows, state.go:196-216), the headline never
\* exceeds the chart under it, shares of the sessions are shares of one
\* total, and a crash-free rate is a rate. On the page of a release the row
\* never exceeds the days and the bars under it, which are read after it, the
\* days from the start of a day.
ChartsAddUp ==
  sheet.pc = "done" =>
    /\ sheet.kind \in {"overview", "api", "sparks"} => SumBars(sheet.bars) = sheet.drawn
    /\ sheet.kind \in {"overview", "api"} => sheet.total <= SumBars(sheet.bars)
    /\ sheet.kind = "releases" => /\ \A r \in DOMAIN sheet.rows : sheet.rows[r].events + sheet.rows[r].sessions > 0
                                 /\ SumFunction([r \in DOMAIN sheet.rows |-> sheet.rows[r].sessions]) =
                                    (IF sheet.rows = <<>> THEN 0 ELSE sheet.rows[CHOOSE r \in DOMAIN sheet.rows : TRUE].all)
    /\ sheet.kind \in ReleasePages => /\ sheet.row.sessions <= sheet.rate[1]
                                     /\ sheet.row.events <= SeriesSum(sheet.bars, "events")
                                     /\ sheet.row.unhandled <= SeriesSum(sheet.bars, "unhandled")
                                     /\ SeriesSum(sheet.bars, "unhandled") = sheet.drawn
    /\ sheet.rate[2] <= sheet.rate[1]
=============================================================================
