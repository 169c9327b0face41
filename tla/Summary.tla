------------------------------- MODULE Summary -------------------------------
(***************************************************************************)
(* The summary of one experiment (summary.rs): as searches end, in the      *)
(* order of the sweep, their rows are collected; at the end the best row of *)
(* every precision bucket becomes the headline and the rows of one ef over  *)
(* several concurrency levels become a curve with its knee.                 *)
(*                                                                         *)
(* A row is [workload, ef, parallel, precision, qps, p95, saturated];        *)
(* precision is in ten-thousandths.                                         *)
(***************************************************************************)
EXTENDS Naturals, Sequences, TLC

CONSTANTS
    SummaryRows,   \* the rows searches end with
    MaxRows,       \* bound: searches of the experiment
    NoSummary

ASSUME SummaryAssumption ==
    \A r \in SummaryRows :
        /\ r.workload \in {"vector", "filter-only", "fulltext", "hybrid", "hybrid-rrf"}
        /\ r.parallel \in Nat /\ r.qps \in Nat /\ r.saturated \in BOOLEAN

VARIABLES
    entries,       \* search_entries
    summary        \* the summary file

summaryVars == <<entries, summary>>

-----------------------------------------------------------------------------
\* Two decimals below 0.97, steps of 0.0025 from there on: "0.97" and "0.9700" differ.
format_precision_key(p) ==
    IF p < 9700 THEN <<2, ((p + 50) \div 100) * 100>> ELSE <<4, ((2 * p + 25) \div 50) * 25>>

HigherQps(new, old) == new.qps > old.qps
Better(new, old) ==
    IF new.saturated # old.saturated THEN old.saturated ELSE new.qps > old.qps

\* What each key of `key`, a function of positions, holds after all rows: the first of
\* equals stays, and a row at no position of `key` is passed over.
Best(rows, key) ==
    LET held[n \in 0 .. Len(rows)] ==
            IF n = 0 THEN [k \in {} |-> 0]
            ELSE LET h == held[n - 1]
                 IN  IF n \notin DOMAIN key \/ (key[n] \in DOMAIN h /\ ~Better(rows[n], h[key[n]])) THEN h
                     ELSE [k \in DOMAIN h \union {key[n]} |-> IF k = key[n] THEN rows[n] ELSE h[k]]
    IN  held[Len(rows)]

has_ground_truth(w) == w \in {"vector", "hybrid", "hybrid-rrf"}
Workloads(rows) == {rows[i].workload : i \in DOMAIN rows}
Mixed(rows) == \E v, w \in Workloads(rows) : v # w

\* In a mixed configuration only rows with ground truth are quality rows.
QualityRows(rows) == {i \in DOMAIN rows : Mixed(rows) => has_ground_truth(rows[i].workload)}

analyze_precision_performance(rows, at) ==
    Best(rows, [i \in {j \in at : rows[j].workload \notin {"fulltext", "hybrid-rrf"}} |->
                    format_precision_key(rows[i].precision)])

\* precision_summary is removed from a summary that is all filter-only or all fulltext.
PrecisionSummary(rows) ==
    IF Workloads(rows) \in {{"filter-only"}, {"fulltext"}} THEN [k \in {} |-> 0]
    ELSE analyze_precision_performance(rows, QualityRows(rows))

\* The level of the peak, smallest on ties, and the knee below the highest level.
Curve(points) ==
    LET levels == DOMAIN points
        peak == CHOOSE p \in levels :
                    \A q \in levels : \/ points[p].qps > points[q].qps
                                      \/ points[p].qps = points[q].qps /\ p <= q
    IN  [points |-> points, max_qps_parallel |-> peak, knee |-> {peak} \intersect {p \in levels : \E q \in levels : p < q}]

concurrency_curves(rows, at) ==
    LET best(ef) == Best(rows, [i \in {j \in at : rows[j].ef = ef /\ rows[j].workload \notin {"filter-only", "fulltext"}} |->
                                    rows[i].parallel])
    IN  {[ef |-> ef, curve |-> Curve(best(ef))] :
            ef \in {e \in {rows[i].ef : i \in at} : \E p, q \in DOMAIN best(e) : p # q}}

\* Which level of an ef gained less than a tenth while its p95 rose.
saturation_warnings(rows) ==
    LET sorted(ef) == SortSeq(SelectSeq(rows, LAMBDA r : r.ef = ef), LAMBDA a, b : a.parallel < b.parallel)
        stalls(a, b) == /\ b.parallel > a.parallel
                        /\ a.qps > 0 /\ a.p95 > 0
                        /\ 10 * b.qps < 11 * a.qps
                        /\ b.p95 > a.p95
        stalled(ef) == {i \in 1 .. Len(sorted(ef)) - 1 : stalls(sorted(ef)[i], sorted(ef)[i + 1])}
    IN  UNION {{[ef |-> ef, from |-> sorted(ef)[i].parallel, to |-> sorted(ef)[i + 1].parallel] : i \in stalled(ef)} :
                    ef \in {rows[j].ef : j \in DOMAIN rows}}
        \union {[ef |-> rows[i].ef, from |-> rows[i].parallel, to |-> rows[i].parallel] :
                    i \in {j \in DOMAIN rows : rows[j].saturated}}

\* Quality keys leave the rows that have none to report.
RowShown(r) == IF r.workload \in {"filter-only", "fulltext"} THEN [r EXCEPT !.precision = 0] ELSE r

-----------------------------------------------------------------------------
EndSearch(r) ==
    /\ summary = NoSummary
    /\ Len(entries) < MaxRows
    /\ entries' = Append(entries, r)
    /\ UNCHANGED summary

save_summary ==
    /\ summary = NoSummary
    /\ entries # <<>>
    /\ summary' = [rows |-> [i \in DOMAIN entries |-> RowShown(entries[i])],
                   headline |-> PrecisionSummary(entries),
                   curves |-> concurrency_curves(entries, QualityRows(entries)),
                   warnings |-> saturation_warnings(entries)]
    /\ UNCHANGED entries

SummaryInit == entries = <<>> /\ summary = NoSummary
SummaryNext == (\E r \in SummaryRows : EndSearch(r)) \/ save_summary

-----------------------------------------------------------------------------
Rows == {entries[i] : i \in DOMAIN entries}

\* Whatever order the searches ended in, a headline is a row of its own bucket that was
\* scored against ground truth, saturated by the client only if every row of the bucket
\* was, and beaten by no row like it; every scored row has its bucket in the headline; and a
\* knee is a level beyond which no level of that curve was faster.
HeadlineIsEarned ==
    summary # NoSummary =>
        LET scored == {r \in Rows : r.workload \in {"vector", "hybrid"}}
            h == summary.headline
        IN  /\ DOMAIN h = {format_precision_key(r.precision) : r \in scored}
            /\ \A b \in DOMAIN h :
                    LET bucket == {r \in scored : format_precision_key(r.precision) = b}
                    IN  /\ h[b] \in bucket
                        /\ \A r \in bucket :
                                /\ h[b].saturated => r.saturated
                                /\ h[b].saturated = r.saturated => r.qps <= h[b].qps
            /\ \A c \in summary.curves :
                    \A k \in c.curve.knee :
                        \A p \in DOMAIN c.curve.points :
                            c.curve.points[p].qps <= c.curve.points[k].qps /\ \E q \in DOMAIN c.curve.points : q > k
==============================================================================
