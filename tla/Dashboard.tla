----------------------------- MODULE Dashboard -----------------------------
(***************************************************************************)
(* The operator's dashboard and delivery pages (internal/adminui:          *)
(* dashboard.go, delivery.go and the aggregate queries of store.go) over a *)
(* log that grows and ages while a page is being put together. Every card  *)
(* is one statement of its own, may fail on its own, and is drawn from     *)
(* counts; the charts take their axis from the admin UI's clock after the  *)
(* database has answered. Dropdowns, labels, colours, rates and SVG        *)
(* geometry are left out, and so are the resource counts, which are not    *)
(* about the log. Without a database configured the pages have no cards.   *)
(*                                                                         *)
(* Buckets have a fixed length; the calendar's uneven months do not.       *)
(***************************************************************************)
EXTENDS Integers, FiniteSets, FiniteSetsExt

CONSTANTS
    Kinds,      \* rows that are written: stage, app, trace, code (0 is NULL)
    Ranges,     \* chartRanges: bucket length and number of buckets
    Filters,    \* filters of the delivery page: days, app, stage, code
    Day,        \* the 24 hours of the rolling windows
    Slack,      \* the hour more that the latency query looks back
    MaxLag,     \* how far the admin UI's clock may be behind the database's
    topLineChartApps, pieFoldAfter, latencySampleLimit, recentFailureLimit,
    Start,      \* rows that are there to begin with
    MaxRows,    \* bound: rows in the log
    MaxTime     \* bound: the database clock

VARIABLES
    rows,    \* committed rows of audit_log
    now,     \* the database clock
    screen,  \* the page being put together and what was read for its next card
    shown    \* history: the card the latest step put on the page, if it did

dashVars == <<rows, now, screen, shown>>

All == -1       \* no filter on app or code
AnyStage == ""  \* no filter on stage

funnelStageOrder == <<"received", "validated", "dispatched", "delivered">>

FunnelStages == {funnelStageOrder[i] : i \in DOMAIN funnelStageOrder}

deliveryFunnelStages == FunnelStages \union {"denied", "retried", "deferred"}

deliveryFailureStages == {"denied", "telegram_auth_failed", "bot_not_admin",
                          "intrusion_kick", "intrusion_unmitigated"}

\* The limits and the ranges are not zero, and the page takes no stage filter
\* but one of its own; the first rows have the first ids, at time zero.
ASSUME DashAssumption ==
    /\ {Slack, MaxLag, topLineChartApps, pieFoldAfter} \subseteq Nat
    /\ {Day, latencySampleLimit, recentFailureLimit} \subseteq Nat \ {0}
    /\ \A spec \in Ranges : {spec.unit, spec.buckets} \subseteq Nat \ {0}
    /\ \A f \in Filters :
          /\ f.days \in Nat \ {0}
          /\ f.stage \in {AnyStage} \union deliveryFunnelStages \union deliveryFailureStages
    /\ IsFiniteSet(Start)
    /\ \A r \in Start : r.id \in 1..Cardinality(Start) /\ r.at = 0

-----------------------------------------------------------------------------
(* The queries, on the rows T that are committed at database time t. *)

Rolling(T, t, length) == {r \in T : r.at >= t - length}

Of(T, stages) == {r \in T : r.stage \in stages}

Bucket(t, unit) == t \div unit

\* Buckets up to the one t is in.
Axis(spec, t) == Bucket(t, spec.unit) - (spec.buckets - 1) .. Bucket(t, spec.unit)

\* date_trunc(now) minus all buckets but one.
Bucketed(T, t, spec) ==
    {r \in T : r.at >= (Bucket(t, spec.unit) - (spec.buckets - 1)) * spec.unit}

\* GROUP BY column, bucket.
CountsBy(T, unit, column) ==
    {[name |-> r[column], bucket |-> Bucket(r.at, unit),
      count |-> Cardinality({s \in T : /\ s[column] = r[column]
                                       /\ Bucket(s.at, unit) = Bucket(r.at, unit)})] :
        r \in T}

RequestBuckets(T, t, spec) ==
    CountsBy({r \in Of(Bucketed(T, t, spec), {"received"}) : r.app # 0},
             spec.unit, "app")

DaySpec(f) == [unit |-> Day, buckets |-> f.days]

OfApp(T, f) == {r \in T : f.app \in {All, r.app}}

Matching(T, f) ==
    {r \in OfApp(T, f) : f.stage \in {AnyStage, r.stage} /\ f.code \in {All, r.code}}

DeliveryDailyCounts(T, t, f) ==
    CountsBy(Matching(Of(Bucketed(T, t, DaySpec(f)),
                         deliveryFunnelStages \union deliveryFailureStages), f),
             Day, "stage")

StageCounts(T, t, f) ==
    {r \in OfApp(Of(Rolling(T, t, f.days * Day), deliveryFunnelStages), f) : r.app # 0}

\* ORDER BY id DESC LIMIT.
RecentFailures(T, t, f) ==
    LET R == Matching(Of(Rolling(T, t, f.days * Day), deliveryFailureStages), f)
    IN  {r \in R : Cardinality({s \in R : s.id > r.id}) < recentFailureLimit}

RecvRows(T, t) == Of(Rolling(T, t, Day + Slack), {"received"})

\* WITH deliv, recv, lat: one pair per trace that was received and delivered.
Pairs(T, t) ==
    LET deliv  == Of(Rolling(T, t, Day), {"delivered"})
        traces == {r.trace : r \in deliv} \intersect {r.trace : r \in RecvRows(T, t)}
        last(k)  == Max({r.at : r \in {d \in deliv : d.trace = k}})
        first(k) == Min({r.at : r \in {d \in RecvRows(T, t) : d.trace = k}})
    IN  {[trace |-> k, at |-> last(k), secs |-> last(k) - first(k)] :
            k \in {j \in traces \ {0} : last(j) >= first(j)}}

\* ORDER BY delivered_at DESC LIMIT: the database orders ties as it likes.
LatencySamples(T, t) ==
    {D \in SUBSET Pairs(T, t) :
        /\ Cardinality(D) <= latencySampleLimit
        /\ D = Pairs(T, t) \/ Cardinality(D) = latencySampleLimit
        /\ \A d \in D, e \in Pairs(T, t) \ D : d.at >= e.at}

-----------------------------------------------------------------------------
(* The cards. *)

Failed == [kind |-> "error"]
Empty  == [kind |-> "empty"]
Data(d) == [kind |-> "data", data |-> d]

buildKPIView(T) ==
    IF Of(T, {"received"}) = {} THEN Empty
    ELSE Data([received  |-> Cardinality(Of(T, {"received"})),
               delivered |-> Cardinality(Of(T, {"delivered"})),
               failed    |-> Cardinality(Of(T, deliveryFailureStages))])

\* Four boxes, and the drop from each to the next.
buildPipelineFlow(T) ==
    LET count == [i \in 1..4 |-> Cardinality(Of(T, {funnelStageOrder[i]}))]
    IN  IF Of(T, FunnelStages) = {} THEN Empty
        ELSE Data([count |-> count, drop |-> [i \in 1..3 |-> count[i] - count[i + 1]]])

\* How many names come before n: busier ones, and smaller ones among equals.
Place(total, n) ==
    Cardinality({m \in DOMAIN total :
                    total[m] > total[n] \/ (total[m] = total[n] /\ m < n)})

\* Mutant: the rest starts one place too late.
FoldedLosingOne(total, top) ==
    IF Cardinality(DOMAIN total) <= top + 1 THEN {{n} : n \in DOMAIN total}
    ELSE {{n} : n \in {m \in DOMAIN total : Place(total, m) < top}}
         \union {{n \in DOMAIN total : Place(total, n) > top}}

\* The first top names on their own and the rest together; one name left over
\* is not worth a fold.
Folded(total, top) ==
    IF Cardinality(DOMAIN total) <= top + 1 THEN {{n} : n \in DOMAIN total}
    ELSE {{n} : n \in {m \in DOMAIN total : Place(total, m) < top}}
         \union {{n \in DOMAIN total : Place(total, n) >= top}}

\* The sum of the counts f holds: there are f[x] pairs for every x.
Sum(f) == Cardinality(UNION {{x} \X (1..f[x]) : x \in DOMAIN f})

buildFailurePie(T) ==
    LET codes == {r.code : r \in T}
        total == [c \in codes |-> Cardinality({r \in T : r.code = c})]
    IN  IF codes = {} THEN Empty
        ELSE Data({[codes |-> g, count |-> Sum([c \in g |-> total[c]])] :
                      g \in Folded(total, pieFoldAfter)})

\* No dots, no card; the caption is the summary of the query before.
buildLatencyStrip(dots, stats) ==
    IF dots = {} THEN Empty ELSE Data([dots |-> dots, count |-> stats])

selectLineSeries(perApp, axis) ==
    LET total == [a \in DOMAIN perApp |-> Sum(perApp[a])]
    IN  {[names |-> g,
          counts |-> [b \in axis |-> Sum([a \in g |-> perApp[a][b]])]] :
            g \in Folded(total, topLineChartApps)}

\* The count of a name in a bucket; the series has at most one.
CountIn(series, n, b) ==
    Sum([p \in {q \in series : q.name = n /\ q.bucket = b} |-> p.count])

\* Counts outside the axis are skipped.
buildLineChart(series, spec, t) ==
    LET axis == Axis(spec, t)
        apps == {p.name : p \in {q \in series : q.bucket \in axis}}
        perApp == [a \in apps |-> [b \in axis |-> CountIn(series, a, b)]]
    IN  IF apps = {} THEN Empty ELSE Data(selectLineSeries(perApp, axis))

\* The stages that share a line.
trendSeriesDefs(f) ==
    IF f.stage # AnyStage THEN {{f.stage}}
    ELSE {{"received"}, {"delivered"}, deliveryFailureStages}

buildTrendChart(series, f, t) ==
    LET axis == Axis(DaySpec(f), t)
        matched == {p \in series : /\ p.bucket \in axis
                                   /\ p.name \in UNION trendSeriesDefs(f)}
    IN  IF matched = {} THEN Empty
        ELSE Data({[names |-> g,
                    counts |-> [b \in axis |-> Sum([s \in g |-> CountIn(series, s, b)])]] :
                      g \in trendSeriesDefs(f)})

\* One funnel for each app that has a row in any of the stages.
buildFunnels(T) ==
    IF T = {} THEN Empty
    ELSE Data({[app |-> a,
                count |-> [s \in deliveryFunnelStages |->
                             Cardinality({r \in T : r.app = a /\ r.stage = s})]] :
                  a \in {r.app : r \in T}})
-----------------------------------------------------------------------------
(* Putting a page together. *)

NoScreen == [step |-> "idle", ask |-> <<>>, got |-> <<>>, snap |-> {}, at |-> 0]
NoCard == [card |-> "none", view |-> Empty, ask |-> <<>>, snap |-> {}, at |-> 0, axis |-> 0]

Open(step, ask) ==
    /\ screen.step = "idle"
    /\ screen' = [NoScreen EXCEPT !.step = step, !.ask = ask]
    /\ shown' = NoCard
    /\ UNCHANGED <<rows, now>>

\* A card goes on the page; which rows there were when its query ran at time
\* at, and the time on its axis, are kept for the properties.
Settle(card, view, snap, at, axis, next) ==
    /\ shown' = [card |-> card, view |-> view, ask |-> screen.ask,
                 snap |-> snap, at |-> at, axis |-> axis]
    /\ screen' = IF next = "idle" THEN NoScreen
                 ELSE [NoScreen EXCEPT !.step = next, !.ask = screen.ask]
    /\ UNCHANGED <<rows, now>>

\* One query and its card: the view of what it read, or the warning.
Section(step, card, view, next) ==
    /\ screen.step = step
    /\ \E v \in {view, Failed} : Settle(card, v, rows, now, now, next)

\* A query whose answer g is only used later, or fails for good.
Fetch(step, card, g, next, end) ==
    /\ screen.step = step
    /\ \/ /\ screen' = [screen EXCEPT !.step = next, !.got = g, !.snap = rows, !.at = now]
          /\ shown' = NoCard
          /\ UNCHANGED <<rows, now>>
       \/ Settle(card, Failed, rows, now, now, end)

\* A chart is drawn from what was fetched, on the axis of the UI's own clock.
Draw(step, card, View(_)) ==
    /\ screen.step = step
    /\ \E lag \in 0..MaxLag :
          Settle(card, View(now - lag), screen.snap, screen.at, now - lag, "idle")

Recent == Rolling(rows, now, Day)

handleDashboard == \E spec \in Ranges : Open("kpi", spec)

KPICard == Section("kpi", "kpi", buildKPIView(Recent), "pipeline")

PipelineCard == Section("pipeline", "pipeline", buildPipelineFlow(Recent), "pie")

PieCard == Section("pie", "pie", buildFailurePie(Of(Recent, deliveryFailureStages)), "latency")

LatencyQuery ==
    Fetch("latency", "strip", Cardinality(Pairs(rows, now)), "samples", "requests")

StripCard ==
    \E dots \in LatencySamples(rows, now) :
        Section("samples", "strip", buildLatencyStrip(dots, screen.got), "requests")

RequestsQuery ==
    Fetch("requests", "chart", RequestBuckets(rows, now, screen.ask), "chart", "idle")

ChartCard == Draw("chart", "chart", LAMBDA t : buildLineChart(screen.got, screen.ask, t))

\* The delivery page runs the query of the screen that was chosen.
handleDeliveryPage == \E f \in Filters, view \in {"funnel", "trend", "failures"} : Open(view, f)

FunnelCard == Section("funnel", "funnel", buildFunnels(StageCounts(rows, now, screen.ask)), "idle")

TrendQuery ==
    Fetch("trend", "trend", DeliveryDailyCounts(rows, now, screen.ask), "trendChart", "idle")

TrendCard == Draw("trendChart", "trend", LAMBDA t : buildTrendChart(screen.got, screen.ask, t))

FailuresCard ==
    LET newest == RecentFailures(rows, now, screen.ask)
    IN  Section("failures", "failures", IF newest = {} THEN Empty ELSE Data(newest), "idle")

-----------------------------------------------------------------------------
(* The log meanwhile. *)

Trace(T, k) == {r \in T : r.trace = k /\ k # 0}

\* A row becomes visible; its transaction began now or a moment ago, and after
\* the rows that its request has written before, the first of them received.
WriteRow(k) ==
    /\ Cardinality(rows) < MaxRows
    /\ (k.stage = "received") = (Trace(rows, k.trace) = {}) \/ k.trace = 0
    /\ \E at \in {now - 1, now} \intersect Nat :
          /\ \A r \in Trace(rows, k.trace) : r.at <= at
          /\ rows' = rows \union
                {[id |-> Cardinality(rows) + 1, at |-> at, stage |-> k.stage,
                  app |-> k.app, trace |-> k.trace, code |-> k.code]}
    /\ shown' = NoCard /\ UNCHANGED <<now, screen>>

Tick == now < MaxTime /\ now' = now + 1 /\ shown' = NoCard /\ UNCHANGED <<rows, screen>>

-----------------------------------------------------------------------------
DashInit == rows = Start /\ now = 0 /\ screen = NoScreen /\ shown = NoCard

DashNext ==
    \/ handleDashboard \/ KPICard \/ PipelineCard \/ PieCard \/ LatencyQuery
    \/ StripCard \/ RequestsQuery \/ ChartCard
    \/ handleDeliveryPage \/ FunnelCard \/ TrendQuery \/ TrendCard \/ FailuresCard
    \/ Tick \/ \E k \in Kinds : WriteRow(k)

DashSpec == DashInit /\ [][DashNext]_dashVars

-----------------------------------------------------------------------------
(* Properties. *)

\* The part of the axis whose rows the query asked for: all of it unless a
\* bucket began on the database's clock and not yet on the UI's.
Drawn(spec) == Axis(spec, shown.axis) \intersect Axis(spec, shown.at)

InBuckets(T, spec, B) == {r \in T : Bucket(r.at, spec.unit) \in B}

\* The rows a chart or the strip is about, of those committed when its query
\* ran; for the trend of all stages those of the stages that have a line.
About ==
    LET snap   == shown.snap
        recent == {r \in snap : shown.at - r.at <= Day}
        ask    == shown.ask
    IN  CASE shown.card = "pie" -> Of(recent, deliveryFailureStages)
          [] shown.card = "strip" ->
                {d \in Of(recent, {"delivered"}) :
                    \E r \in Of(Trace(snap, d.trace), {"received"}) : d.at - r.at <= Slack}
          [] shown.card = "chart" ->
                {r \in InBuckets(Of(snap, {"received"}), ask, Drawn(ask)) : r.app # 0}
          [] shown.card = "trend" ->
                InBuckets(Matching(Of(snap, UNION trendSeriesDefs(ask)), ask),
                          DaySpec(ask), Drawn(DaySpec(ask)))
          [] OTHER -> {}

\* "A failed query must render as a warning, never as the empty-state note":
\* the chart, and the trend of one stage, say that nothing happened only when
\* nothing did.  The trend of all stages also says so when only stages without
\* a line have rows (TrendNoteIsTrue); the strip is in DotsTrue.
ChartNotesTrue ==
    shown.view = Empty /\ (shown.card = "chart"
                            \/ (shown.card = "trend" /\ shown.ask.stage # AnyStage))
        => About = {}

HasData(card) == shown.card = card /\ shown.view.kind = "data"

\* The groups of the fold share out the names, and no name lost in the crowd
\* has more rows than one that stands alone.
FairFold(groups, names, Rows(_)) ==
    /\ UNION groups = names
    /\ \A g, h \in groups : g # h => g \intersect h = {}
    /\ \A g, h \in groups : Cardinality(g) = 1 /\ Cardinality(h) > 1 =>
          \A a \in g, b \in h : Cardinality(Rows(a)) >= Cardinality(Rows(b))

\* Every line counts, in every bucket, exactly the rows of its names.
LinesExact(spec, Name(_)) ==
    \A l \in shown.view.data, b \in Axis(spec, shown.axis) :
        l.counts[b] = Cardinality({r \in About : Name(r) \in l.names
                                                 /\ Bucket(r.at, spec.unit) = b})

\* The chart of requests, the trend and the donut.
ChartsComplete ==
    /\ HasData("chart") =>
          /\ LinesExact(shown.ask, LAMBDA r : r.app)
          /\ FairFold({l.names : l \in shown.view.data}, {r.app : r \in About},
                      LAMBDA a : {r \in About : r.app = a})
    /\ HasData("trend") => LinesExact(DaySpec(shown.ask), LAMBDA r : r.stage)
    /\ HasData("pie") =>
          /\ \A p \in shown.view.data :
                p.count = Cardinality({r \in About : r.code \in p.codes})
          /\ FairFold({p.codes : p \in shown.view.data}, {r.code : r \in About},
                      LAMBDA c : {r \in About : r.code = c})

\* Every dot of the strip is the time from a request to its last recipient, and
\* only the limit leaves requests out, the oldest first.
DotsTrue ==
    shown.card = "strip" /\ shown.view # Failed =>
        LET dots == IF shown.view = Empty THEN {} ELSE shown.view.data.dots
            ends(k) == {r.at : r \in Of(Trace(shown.snap, k), {"delivered"})}
        IN  /\ \A d \in dots :
                  \E r \in Of(Trace(shown.snap, d.trace), {"received"}) :
                      d.secs = Max(ends(d.trace)) - r.at
            /\ \A k \in {r.trace : r \in About} \ {d.trace : d \in dots} :
                  /\ Cardinality(dots) = latencySampleLimit
                  /\ \A d \in dots : d.at >= Max(ends(k))

\* The cards lose no row and count none twice, whatever is folded into the rest
\* and wherever the hour or the day ends between the query and the axis. A
\* request delivered in the last 24 hours has its dot also when it was received
\* before them by no more than the slack, and a card whose second query failed
\* is not drawn as empty (selectLineSeries, buildLineChart, buildTrendChart,
\* buildFailurePie, DeliveryLatency, LatencySamples, handleDashboard).  Buckets
\* that one of the two clocks does not have yet are left out: see Drawn.
CardsExact == ChartsComplete /\ ChartNotesTrue /\ DotsTrue

\* The trend's note says that no event matches the filter (delivery.html;
\* buildTrendChart: "when the window matched nothing").
TrendNoteIsTrue ==
    shown.card = "trend" /\ shown.view.kind = "empty" =>
        InBuckets(Matching(Of(shown.snap, deliveryFunnelStages \union deliveryFailureStages),
                           shown.ask),
                  DaySpec(shown.ask), Drawn(DaySpec(shown.ask))) = {}
=============================================================================
