----------------------------- MODULE UsageReports -----------------------------
(***************************************************************************)
(* The usage table and its readers: batches written in chunks and the      *)
(* retention sweep (usage/store_sqlite.go), the request log read page by   *)
(* page, the usage by period in the zone of the dashboard and the          *)
(* throughput chart (usage/reader_sqlite.go, throughput.go), behind the    *)
(* control API (control/handler_usage.go).                                 *)
(*                                                                         *)
(* A report is made of several queries, and the table changes between      *)
(* them.  What a query adds up is a function of the rows it selects, so a  *)
(* report holds those rows.  Instants are ticks; Hour and Day are numbers  *)
(* of ticks, a zone gives the offset of every instant.                     *)
(***************************************************************************)
EXTENDS Integers, Sequences, FiniteSets, SequencesExt

CONSTANTS
  Rows,        \* rows that may be written: [id, ts, model, path, labels, cacheType]
  Queries,     \* what clients ask: [report, range, path, model, cacheMode, zone]
  Hour, Day,   \* ticks
  Limit,       \* page size of the log
  Retention,   \* ticks a row is kept
  MaxChunk,    \* maxEntriesPerBatch
  MaxTick

\* An id is the primary key.
ASSUME ReportsAssumption ==
  /\ IsFiniteSet(Rows)
  /\ \A r \in Rows : r.id \in Nat /\ r.ts \in Nat
  /\ \A r, other \in Rows : r.id = other.id => r = other
  /\ Hour \in Nat \ {0} /\ Day \in Nat \ {0} /\ Limit \in Nat \ {0}
  /\ MaxChunk \in Nat \ {0} /\ Retention \in Nat \ {0} /\ MaxTick \in Nat

\* The offset of a zone is known at every instant of a report, and it does not change
\* and change back within an hour.
ASSUME ZonesAssumption ==
  \A q \in Queries :
    /\ 0 .. MaxTick \subseteq DOMAIN q.zone
    /\ \A t \in DOMAIN q.zone : q.zone[t] \in Int
    /\ q.range # <<>> =>
         q.range \in Nat \X Nat /\ q.range[1] .. q.range[2] - 1 \subseteq DOMAIN q.zone
    /\ \A t, u \in DOMAIN q.zone :
         t <= u /\ u <= t + Hour /\ q.zone[t] = q.zone[u]
           => \A v \in DOMAIN q.zone : t <= v /\ v <= u => q.zone[v] = q.zone[t]

VARIABLES
  tick,        \* the time
  table,       \* the rows of the usage table
  batch,       \* the entries WriteBatch still has to insert
  flushed,     \* the entries the logger has handed over, each one once
  query,       \* the report being made: <<>> or <<query>>
  result       \* what its queries have returned

reportVars == <<tick, table, batch, flushed, query, result>>

-----------------------------------------------------------------------------
(* Selecting rows. *)

cacheModeCondition(row, mode) ==
  CASE mode = "cached" -> row.cacheType # ""
    [] mode = "all" -> TRUE
    [] OTHER -> row.cacheType = ""

\* A range is <<>> or <<first, end>>, the end exclusive.
dateRangeConditions(row, range) ==
  range = <<>> \/ (range[1] <= row.ts /\ row.ts < range[2])

\* A path selects its subtree; paths are sequences of segments.
userPathCondition(row, path) == path = <<>> \/ IsPrefix(path, row.path)

sqliteUsageConditions(row, q) ==
  /\ dateRangeConditions(row, q.range)
  /\ userPathCondition(row, q.path)
  /\ q.model = <<>> \/ q.model[1] = row.model
  /\ cacheModeCondition(row, q.cacheMode)

Selected(q) == {r \in table : sqliteUsageConditions(r, q)}

-----------------------------------------------------------------------------
(* The log: newest first, then by id. *)

\* Mutant of logOrder: oldest first.
OldestFirst(a, b) == a.ts < b.ts \/ (a.ts = b.ts /\ a.id < b.id)

logOrder(a, b) == a.ts > b.ts \/ (a.ts = b.ts /\ a.id > b.id)

\* How many rows come before a row, and the rows at offset and after, Limit of them.
Rank(row, rows) == Cardinality({r \in rows : logOrder(r, row)})

Page(rows, offset) == {r \in rows : Rank(r, rows) \in offset .. offset + Limit - 1}

-----------------------------------------------------------------------------
(* Periods. *)

\* The first instant of the first hour, counted from start, whose last second has
\* another offset, at which the offset is another: <<>> when there is none.
sqliteNextOffsetTransition(start, end, zone) ==
  LET windows == {k \in 0 .. (end - start) \div Hour : start + k * Hour < end} IN
  LET first(k) == start + k * Hour IN
  LET last(k) == IF start + (k + 1) * Hour < end THEN start + (k + 1) * Hour - 1 ELSE end - 1 IN
  LET changed == {k \in windows : zone[last(k)] # zone[start]} IN
  LET at == {t \in first(Min(changed)) .. last(Min(changed)) : zone[t] # zone[start]} IN
  IF changed = {} THEN <<>> ELSE <<Min(at)>>

\* What is left of the range from each instant on, cut where the offset changes; the
\* last segment has no end.
segmentsFrom(start, end, zone) ==
  LET from[t \in start .. end] ==
        LET next == sqliteNextOffsetTransition(t, end, zone) IN
        IF t >= end THEN <<>>
        ELSE IF next = <<>> THEN <<[until |-> <<>>, offset |-> zone[t]]>>
        ELSE <<[until |-> next, offset |-> zone[t]]>> \o from[next[1]] IN
  from

sqliteTimeZoneSegments(start, end, zone) ==
  IF end <= start THEN <<>> ELSE segmentsFrom(start, end, zone)[start]

\* Mutant of sqliteGroupExpr: a segment includes the instant it ends at.
InclusiveUntil(segments, ts) ==
  LET holds(s) == s.until = <<>> \/ ts <= s.until[1] IN
  LET i == Min({j \in DOMAIN segments : holds(segments[j])}) IN
  IF segments = <<>> THEN ts \div Day ELSE (ts + segments[i].offset) \div Day

\* The CASE expression over the segments: the day of a row; UTC without segments.
sqliteGroupExpr(segments, ts) ==
  LET holds(s) == s.until = <<>> \/ ts < s.until[1] IN
  LET i == Min({j \in DOMAIN segments : holds(segments[j])}) IN
  IF segments = <<>> THEN ts \div Day ELSE (ts + segments[i].offset) \div Day

\* The range the zone is cut over: the dates of the query, else the extent of the
\* rows of its path at this moment.
sqliteGroupingRange(q) ==
  LET ts == {r.ts : r \in {x \in table : userPathCondition(x, q.path)}} IN
  IF q.range # <<>> THEN q.range
  ELSE IF ts = {} THEN <<>> ELSE <<Min(ts), Max(ts) + 1>>

-----------------------------------------------------------------------------
(* Throughput: buckets of one hour that end with the current one, aligned  *)
(* to the zone's offset now.                                               *)

WindowCount == 2

throughputBucketStart(ts, offset) == ((ts + offset) \div Hour) * Hour - offset

throughputWindow(end, offset) ==
  LET current == throughputBucketStart(end, offset) IN
  [first |-> current - (WindowCount - 1) * Hour, upper |-> current + Hour]

\* The index of the bucket of a row; a row outside the chart has none.
throughputBucket(ts, end, offset) ==
  LET i == (throughputBucketStart(ts, offset) - throughputWindow(end, offset).first) \div Hour IN
  IF i \in 0 .. WindowCount - 1 THEN <<i>> ELSE <<>>

-----------------------------------------------------------------------------
(* The table. *)

NoResult == [step |-> "idle", offset |-> 0, first |-> {}, shown |-> {},
             range |-> <<>>, periods |-> {}, split |-> {}, buckets |-> {}, groups |-> {}]

ReportsInit ==
  /\ tick = 0 /\ table = {} /\ batch = {} /\ flushed = {} /\ query = <<>> /\ result = NoResult

Tick ==
  /\ tick < MaxTick
  /\ tick' = tick + 1
  /\ UNCHANGED <<table, batch, flushed, query, result>>

\* The logger flushes entries of requests that ended earlier.
WriteBatch ==
  /\ batch = {}
  /\ \E entries \in SUBSET {r \in Rows \ flushed : r.ts <= tick} :
       /\ entries # {}
       /\ batch' = entries /\ flushed' = flushed \cup entries
  /\ UNCHANGED <<tick, table, query, result>>

\* One chunk is one INSERT OR IGNORE; the chunks before a failed one stay.
WriteChunk ==
  /\ batch # {}
  /\ \/ \E chunk \in SUBSET batch :
          /\ Cardinality(chunk) = IF Cardinality(batch) < MaxChunk THEN Cardinality(batch) ELSE MaxChunk
          /\ table' = table \cup chunk
          /\ batch' = batch \ chunk
     \/ table' = table /\ batch' = {}
  /\ UNCHANGED <<tick, flushed, query, result>>

\* The sweep deletes the rows older than the retention.
cleanup ==
  /\ table' = {r \in table : r.ts >= tick - Retention}
  /\ table' # table
  /\ UNCHANGED <<tick, batch, flushed, query, result>>

-----------------------------------------------------------------------------
(* Reports. *)

Ask ==
  /\ query = <<>>
  /\ \E q \in Queries : query' = <<q>>
  /\ result' = [NoResult EXCEPT !.step = CASE query'[1].report = "log" -> "count"
                                           [] query'[1].report = "daily" -> "range"
                                           [] query'[1].report = "summary" -> "totals"
                                           [] query'[1].report \in {"models", "paths", "labels"} -> "groups"
                                           [] OTHER -> "buckets"]
  /\ UNCHANGED <<tick, table, batch, flushed>>

Return == query' = <<>> /\ result' = NoResult /\ UNCHANGED <<tick, table, batch, flushed>>

Step(updated) == result' = updated /\ UNCHANGED <<tick, table, batch, flushed, query>>

\* GetUsageLog counts the rows and then selects a page of them.
CountLog ==
  /\ result.step = "count"
  /\ Step([result EXCEPT !.step = "page",
                         !.first = IF result.offset = 0 THEN Selected(query[1]) ELSE @])

\* The client asks for the next page until one is short.
PageLog ==
  /\ result.step = "page"
  /\ LET page == Page(Selected(query[1]), result.offset) IN
     Step([result EXCEPT !.shown = @ \cup page, !.offset = @ + Limit,
                         !.step = IF Cardinality(page) < Limit THEN "done" ELSE "count"])

\* GetDailyUsage: the range, the sums by period, then the split by the same periods.
RangeDaily ==
  /\ result.step = "range"
  /\ Step([result EXCEPT !.step = "sums", !.range = sqliteGroupingRange(query[1])])

PeriodOf(row) ==
  LET r == result.range IN
  sqliteGroupExpr(IF r = <<>> THEN <<>> ELSE sqliteTimeZoneSegments(r[1], r[2], query[1].zone), row.ts)

SumDaily ==
  /\ result.step = "sums"
  /\ Step([result EXCEPT !.step = "split", !.periods = {<<r, PeriodOf(r)>> : r \in Selected(query[1])}])

\* Rows the local cache answered are no provider input.
SplitDaily ==
  /\ result.step = "split"
  /\ Step([result EXCEPT !.step = "done",
             !.split = {<<r, PeriodOf(r)>> : r \in {x \in Selected(query[1]) : x.cacheType = ""}}])

\* GetSummary adds up the rows, then reads them again for the split.
SumSummary ==
  /\ result.step = "totals"
  /\ Step([result EXCEPT !.step = "segments", !.first = Selected(query[1])])

SplitSummary ==
  /\ result.step = "segments"
  /\ Step([result EXCEPT !.step = "done", !.shown = Selected(query[1])])

\* The groups of a row: one, or one for each of its labels.
groupsOf(row, report) ==
  CASE report = "models" -> {<<row.model>>} [] report = "paths" -> {row.path}
    [] OTHER -> {<<l>> : l \in row.labels}

\* The breakdowns are one query each.
GetUsageByGroup ==
  /\ result.step = "groups"
  /\ Step([result EXCEPT !.step = "done",
             !.groups = UNION {{<<g, r>> : g \in groupsOf(r, query[1].report)} : r \in Selected(query[1])}])

\* GetTokenThroughput selects the rows of the window and folds them.
GetTokenThroughput ==
  /\ result.step = "buckets"
  /\ LET offset == query[1].zone[tick] IN
     LET w == throughputWindow(tick, offset) IN
     Step([result EXCEPT !.step = "done",
             !.buckets = {<<r, throughputBucket(r.ts, tick, offset), w.first>> :
                            r \in {x \in table : w.first <= x.ts /\ x.ts < w.upper}}])

Answer == result.step = "done" /\ Return

ReportsNext ==
  \/ Tick \/ WriteBatch \/ WriteChunk \/ cleanup
  \/ Ask \/ CountLog \/ PageLog \/ RangeDaily \/ SumDaily \/ SplitDaily
  \/ SumSummary \/ SplitSummary \/ GetUsageByGroup \/ GetTokenThroughput \/ Answer

ReportsSpec == ReportsInit /\ [][ReportsNext]_reportVars

-----------------------------------------------------------------------------
(* Properties. *)

\* A client that reads the log page by page until a page is short has seen every
\* row that was there when it began and still is, although batches of older
\* requests are written and old rows swept between its pages (GetUsageLog).
PagingMissesNothing ==
  result.step = "done" /\ query[1].report = "log" =>
    result.first \cap table \subseteq result.shown

\* A row is counted in the period of its instant in the zone of the query, over a
\* change of the offset too, and in the bucket of the chart its instant lies in
\* (sqliteGroupExpr, throughputAccumulator.add).  A row written after an undated
\* query looked at the extent of the table may lie outside what it looked at.
RowsFallInTheirPeriod ==
  result.step = "done" =>
    /\ \A x \in result.periods \cup result.split :
         (result.range # <<>> /\ x[1].ts < result.range[2] /\ result.range[1] <= x[1].ts)
           => x[2] = (x[1].ts + query[1].zone[x[1].ts]) \div Day
    /\ \A x \in result.buckets :
         /\ x[2] # <<>>
         /\ x[3] + x[2][1] * Hour <= x[1].ts /\ x[1].ts < x[3] + (x[2][1] + 1) * Hour
=============================================================================
