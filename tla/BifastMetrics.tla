----------------------------- MODULE BifastMetrics -----------------------------
(***************************************************************************)
(* What ElasticMetricClient makes of the dashboard it fetches: the samples *)
(* it takes from the rows, those it keeps, the window it looks at, and the *)
(* analyses of MetricConfig.                                               *)
(*                                                                         *)
(* A dashboard is a sequence of tables; those of response times have rows  *)
(* of every bank, those of errors are of one.  Names are in lower case and *)
(* cells without the heading that the page puts before them (stripKeyPrefix*)
(* and normalizeFilterValue take it away).  The names of the dashboard are *)
(* those of six banks, none within another: containing one is being it.    *)
(*                                                                         *)
(* Averages, slopes and their ratios are compared by cross-multiplication, *)
(* in integers, so nothing is rounded.  The coefficient of variation only  *)
(* chooses the second word of a trend ("increasing_gradual"), which nobody *)
(* reads, and is left out; "stable" and "unstable_or_spike" are "flat".    *)
(***************************************************************************)
EXTENDS Integers, Sequences, SequencesExt

CONSTANTS
    MetricWindow,   \* windowMs, 15 minutes
    DayLength       \* the minutes of a day

ASSUME MetricWindowAssumption == MetricWindow \in Nat
ASSUME DayLengthAssumption == DayLength \in Nat \ {0}

Levels == {"UNKNOWN", "NORMAL", "WARNING", "CRITICAL"}
Trends == {"insufficient_data", "increasing", "decreasing", "flat"}

NoTrend == [level |-> "UNKNOWN", trend |-> "insufficient_data"]

\* aggregateLevel of MetricConfig: the worst of the levels there are.
AggregateLevel(levels) ==
    IF "CRITICAL" \in levels THEN "CRITICAL"
    ELSE IF "WARNING" \in levels THEN "WARNING"
    ELSE IF "NORMAL" \in levels THEN "NORMAL" ELSE "UNKNOWN"

\* aggregateLevel of the client knows no UNKNOWN.
OverallLevel(levels) ==
    IF "CRITICAL" \in levels THEN "CRITICAL"
    ELSE IF "WARNING" \in levels THEN "WARNING" ELSE "NORMAL"

-----------------------------------------------------------------------------
\* Least squares over the positions 0 .. n-1 of the values y.

SumX(n) == (n * (n - 1)) \div 2
SumX2(n) == (n * (n - 1) * (2 * n - 1)) \div 6
SumXY(y) == SumFunction([i \in DOMAIN y |-> (i - 1) * y[i]])

Numerator(y) == Len(y) * SumXY(y) - SumX(Len(y)) * SumFunction(y)
Denominator(n) == n * SumX2(n) - SumX(n) * SumX(n)

\* relativeSlopePercent, slope / average * 100, against 8 and -8.
Trend(y) ==
    LET n == Len(y)
        slope == 100 * n * Numerator(y)
        bound == 8 * Denominator(n) * SumFunction(y)
    IN  IF SumFunction(y) = 0 THEN "flat"
        ELSE IF slope > bound THEN "increasing"
        ELSE IF slope < -bound THEN "decreasing" ELSE "flat"

\* An average above 2.5 percent, or from 1.5.
ErrorLevel(y) ==
    IF 2 * SumFunction(y) > 5 * Len(y) THEN "CRITICAL"
    ELSE IF 2 * SumFunction(y) >= 3 * Len(y) THEN "WARNING" ELSE "NORMAL"

-----------------------------------------------------------------------------
\* Samples are in the order of their timestamps, as they were fetched.

Within(samples, now) ==
    SelectSeq(samples, LAMBDA s : now - s.at <= MetricWindow)

OfCode(samples, code) == SelectSeq(samples, LAMBDA s : s.code = code)

ValuesOf(samples) == [i \in DOMAIN samples |-> samples[i].value]

\* inquiryDanaErrorConfig.analyze: one series for each error code, within the
\* window before the newest sample.
SeriesOfAllTime(samples, code) ==    \* mutant: the group is not filtered
    ValuesOf(OfCode(samples, code))

Series(samples, code) ==
    ValuesOf(Within(OfCode(samples, code), Last(samples).at))

AnalyzeSeries(y) ==
    IF Len(y) < 2 THEN NoTrend
    ELSE [level |-> ErrorLevel(y), trend |-> Trend(y)]

\* Of the codes whose level is the worst, the first that was sampled speaks.
AnalyzeErrors(samples) ==
    LET codes == {samples[i].code : i \in DOMAIN samples}
        result == [c \in codes |-> AnalyzeSeries(Series(samples, c))]
        worst == AggregateLevel({result[c].level : c \in codes})
        first == SelectInSeq(samples,
                             LAMBDA s : result[s.code].level = worst)
    IN  IF Len(samples) < 2 THEN NoTrend ELSE result[samples[first].code]

\* avgRespTimeConfig.analyze, in seconds: an average above 4, or from 2, of at
\* least three values that are not zero.  Its trend, which nobody reads, is left
\* out.
AnalyzeTimes(samples) ==
    LET y == SelectSeq(ValuesOf(samples), LAMBDA v : v > 0)
        level == IF SumFunction(y) > 4 * Len(y) THEN "CRITICAL"
                 ELSE IF SumFunction(y) >= 2 * Len(y) THEN "WARNING"
                 ELSE "NORMAL"
    IN  IF Len(y) < 3 THEN NoTrend ELSE [level |-> level, trend |-> "flat"]

-----------------------------------------------------------------------------
\* From rows to samples.

ErrorKinds == {"Error Inquiry", "Error Transfer"}

\* matchTable, and isErrorTable of the client.
IsErrorTable(title) == title.kind \in ErrorKinds

\* The time of day that a row shows is taken for today's.
parseMinute(timeOfDay, now) == (now \div DayLength) * DayLength + timeOfDay

\* getMaxDataPerMinute: of each bank and minute the slowest row, in the place of
\* the first.
SlowestAmong(rows, key) ==
    LET OfKey(i) == {j \in DOMAIN rows : key[j] = key[i]}
        firsts == SetToSortSeq({i \in DOMAIN rows : \A j \in OfKey(i) : i <= j},
                               LAMBDA i, j : i < j)
        Slowest(i) == CHOOSE j \in OfKey(i) :
                          \A k \in OfKey(i) : rows[k].value <= rows[j].value
    IN  [n \in DOMAIN firsts |-> rows[Slowest(firsts[n])]]

getMaxOfMinute(rows) ==         \* mutant: the key is the minute alone
    SlowestAmong(rows, [i \in DOMAIN rows |-> rows[i].minute])

getMaxDataPerMinute(rows) ==
    SlowestAmong(rows, [i \in DOMAIN rows |-> <<rows[i].minute, rows[i].filter>>])

\* callElastic thins the tables of response times.
callElastic(dashboard) ==
    [i \in DOMAIN dashboard |->
        IF IsErrorTable(dashboard[i].title) THEN dashboard[i]
        ELSE [dashboard[i] EXCEPT !.rows = getMaxDataPerMinute(@)]]

\* avgRespTimeConfig.extractSample, of the bank's rows.
TimeSamples(rows, entity, now) ==
    LET own == SelectSeq(rows, LAMBDA r : r.filter = entity)
    IN  [i \in DOMAIN own |->
            [code |-> "", value |-> own[i].value,
             at |-> parseMinute(own[i].minute, now)]]

\* inquiryDanaErrorConfig.extractSample: every code but U000 (success), now.
ErrorSamples(rows, now) ==
    LET errors == SelectSeq(rows, LAMBDA r : r.filter # "u000")
    IN  [i \in DOMAIN errors |->
            [code |-> errors[i].filter, value |-> errors[i].value, at |-> now]]

SamplesOf(table, entity, now) ==
    IF IsErrorTable(table.title) THEN ErrorSamples(table.rows, now)
    ELSE TimeSamples(table.rows, entity, now)

-----------------------------------------------------------------------------
\* ElasticMetricClient.fetch, for one bank.

\* The window is counted back from the sample at the index of the last of the
\* batch in the whole array, which is not one of the batch as a rule.
Analysed(kept, batch) ==
    LET all == kept \o batch
    IN  Within(all, all[Len(batch)].at)

Analyze(title, samples) ==
    IF IsErrorTable(title) THEN AnalyzeErrors(samples) ELSE AnalyzeTimes(samples)

\* The samples of a table are appended to those kept under its title; a table
\* without any is passed over and gives no signal.
WithTable(fetched, table, entity, now) ==
    LET batch == SamplesOf(table, entity, now)
        kept == fetched.samples[table.title]
        signal == [title |-> table.title,
                   trend |-> Analyze(table.title, Analysed(kept, batch))]
    IN  IF batch = <<>> THEN fetched
        ELSE [samples |-> [fetched.samples EXCEPT ![table.title] = @ \o batch],
              signals |-> fetched.signals \cup {signal}]

\* First the tables of response times, then the bank's own tables of errors.
Fetch(samples, dashboard, entity, now) ==
    LET Times(t) == ~IsErrorTable(t.title)
        Errors(t) == IsErrorTable(t.title) /\ t.title.of = entity
        tables == callElastic(dashboard)
    IN  FoldLeft(LAMBDA fetched, t : WithTable(fetched, t, entity, now),
                 [samples |-> samples, signals |-> {}],
                 SelectSeq(tables, Times) \o SelectSeq(tables, Errors))

=============================================================================
