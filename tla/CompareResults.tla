---------------------------- MODULE CompareResults ----------------------------
(***************************************************************************)
(* --dump-results and compare-results: two runs write one JSONL file per     *)
(* search point into a directory of their own, either may be killed, fail a  *)
(* write or still be running, and a third process pairs the files and gives  *)
(* a verdict (results_dump.rs, compare_results.rs, compare.rs).              *)
(*                                                                         *)
(* A point is [header, raw]: what write_query_dumps puts in the first line,  *)
(* and the captured attempts [query, seq, ok, rows], in no order.  A file is *)
(* a point and how many of its lines reached the disk.                       *)
(***************************************************************************)
EXTENDS Naturals, FiniteSets, Sequences

CONSTANTS
    Comparisons,   \* the points of each side: functions from Sides to sequences of points
    Truths,        \* ground truth: version -> query -> rows
    DocIds,        \* docid of a corpus row; a row outside the domain has none
    NoTruth,       \* a workload without ground truth
    NoReport

Elements(s) == {s[i] : i \in DOMAIN s}
Points == UNION {UNION {Elements(c[s]) : s \in DOMAIN c} : c \in Comparisons}

\* Each attempt has its place in the order of the queries, and its hits are a list.
ASSUME CompareAssumption ==
    /\ Comparisons \subseteq [{1, 2} -> Seq(Points)]
    /\ \A p \in Points :
        /\ p.header.top \in Nat /\ IsFiniteSet(p.raw)
        /\ \A r \in p.raw : r.seq \in Nat /\ r.ok \in BOOLEAN /\ Len(r.rows) \in Nat /\ DOMAIN r.rows = 1 .. Len(r.rows)

VARIABLES
    queue,         \* points a run still has to dump
    dir,           \* its files, in the order they were created
    writer,        \* "running", "done", "failed", "killed"
    report         \* what compare-results printed

compareVars == <<queue, dir, writer, report>>

\* The two directories, in the order of the command line.
Sides == {1, 2}

Upto(s, n) == SubSeq(s, 1, IF n < Len(s) THEN n ELSE Len(s))

-----------------------------------------------------------------------------
\* A row becomes its docid where the schema declares one; a row without one is an error.
CanResolve(space, row) == space = "row" \/ row \in DOMAIN DocIds
resolve(space, row) == IF space = "row" THEN row ELSE DocIds[row]

\* Every row a record needs: its hits, and the first `top` of its ground truth.
ExpectedRows(h, q) == IF h.truth = NoTruth THEN <<>> ELSE Upto(Truths[h.truth][q], h.top)
Resolvable(p) ==
    \A r \in p.raw :
        /\ \A i \in DOMAIN r.rows : CanResolve(p.header.space, r.rows[i])
        /\ p.header.truth # NoTruth => r.query \in DOMAIN Truths[p.header.truth]
        /\ \A i \in DOMAIN ExpectedRows(p.header, r.query) :
                CanResolve(p.header.space, ExpectedRows(p.header, r.query)[i])

\* The records; a dump has them in the order the queries were sent.
resolve_records(p) ==
    LET ids(rows) == [i \in DOMAIN rows |-> resolve(p.header.space, rows[i])]
        record(r) == [query |-> r.query, seq |-> r.seq, ok |-> r.ok, ids |-> ids(r.rows),
                      expected |-> ids(ExpectedRows(p.header, r.query))]
    IN  {record(r) : r \in p.raw}

\* sanitize maps every other character to one, so `token` is what a configuration keeps.
dump_file_name(h) == <<h.token, h.dataset, h.workload, h.parallel, h.search>>

-----------------------------------------------------------------------------
Whole(f) == f.lines = 1 + Cardinality(f.point.raw)
Open(s) == dir[s] # <<>> /\ ~Whole(dir[s][Len(dir[s])])

\* write_query_dumps: the next point's file, created anew; the first failure ends the dumps.
CreateDump(s) ==
    /\ writer[s] = "running"
    /\ queue[s] # <<>>
    /\ ~Open(s)
    /\ LET p == Head(queue[s])
           name == dump_file_name(p.header)
       IN  IF Resolvable(p) /\ \A i \in DOMAIN dir[s] : dump_file_name(dir[s][i].point.header) # name
           THEN /\ dir' = [dir EXCEPT ![s] = Append(@, [point |-> p, lines |-> 0, cut |-> FALSE])]
                /\ queue' = [queue EXCEPT ![s] = Tail(@)]
                /\ UNCHANGED writer
           ELSE /\ writer' = [writer EXCEPT ![s] = "failed"]
                /\ UNCHANGED <<dir, queue>>
    /\ UNCHANGED report

\* write_dump: the header, then the records, line after line.
WriteLine(s) ==
    /\ writer[s] = "running"
    /\ Open(s)
    /\ dir' = [dir EXCEPT ![s][Len(dir[s])].lines = @ + 1]
    /\ UNCHANGED <<queue, writer, report>>

FinishDumps(s) ==
    /\ writer[s] = "running"
    /\ queue[s] = <<>>
    /\ ~Open(s)
    /\ writer' = [writer EXCEPT ![s] = "done"]
    /\ UNCHANGED <<queue, dir, report>>

\* A full disk or a killed process; either may leave part of a line behind.
StopWriting(s) ==
    /\ writer[s] = "running"
    /\ writer' \in {[writer EXCEPT ![s] = w] : w \in {"failed", "killed"}}
    /\ \/ UNCHANGED dir
       \/ Open(s) /\ dir' = [dir EXCEPT ![s][Len(dir[s])].cut = TRUE]
    /\ UNCHANGED <<queue, report>>

-----------------------------------------------------------------------------
\* read_dump: one header, first, and every line parses.
Readable(f) == f.lines > 0 /\ ~f.cut
Dumps(s) == Elements(dir[s])
Header(f) == f.point.header
Attempts(f) ==
    LET records == resolve_records(f.point)
    IN  {r \in records : Cardinality({x \in records : x.seq < r.seq}) + 1 < f.lines}

\* The first answered record of each query.
AnsweredQueries(f) == {r.query : r \in {x \in Attempts(f) : x.ok}}
first_answers(f) ==
    [q \in AnsweredQueries(f) |->
        CHOOSE r \in Attempts(f) : /\ r.query = q /\ r.ok
                                   /\ \A x \in Attempts(f) : x.query = q /\ x.ok => r.seq <= x.seq]

FailedAttempts(f) == Cardinality({r \in Attempts(f) : ~r.ok})

\* The metrics over the first k distinct ids; a ratio is <<numerator, denominator>>.
top_k(ids, k) ==
    LET distinct[n \in 0 .. Len(ids)] ==
            IF n = 0 THEN <<>>
            ELSE LET seen == distinct[n - 1]
                 IN  IF ids[n] \in Elements(seen) THEN seen ELSE Append(seen, ids[n])
    IN  Upto(distinct[Len(ids)], k)
jaccard_at_k(r, c, k) ==
    LET R == Elements(top_k(r, k))
        C == Elements(top_k(c, k))
    IN  IF R \union C = {} THEN <<1, 1>> ELSE <<Cardinality(R \intersect C), Cardinality(R \union C)>>
IndexIn(s, x) == CHOOSE i \in DOMAIN s : s[i] = x
\* Pairs of shared ids in the same order, of all pairs: tau is 2a/b - 1.
rank_correlation(r, c, k) ==
    LET R == top_k(r, k)
        C == top_k(c, k)
        shared == {i \in DOMAIN R : R[i] \in Elements(C)}
        pairs == {p \in shared \X shared : p[1] < p[2]}
    IN  <<Cardinality({p \in pairs : IndexIn(C, R[p[1]]) < IndexIn(C, R[p[2]])}), Cardinality(pairs)>>
recall_at_k(r, k) == <<Cardinality(Elements(top_k(r.ids, k)) \intersect Elements(r.expected)),
                       Cardinality(Elements(r.expected))>>

\* What two dumps must share, and, on the queries both answered, the ground truth.
Comparable(r, c) ==
    LET R == Header(r)
        C == Header(c)
    IN  /\ R.identity = C.identity
        /\ R.dataset = C.dataset
        /\ R.workload = C.workload
        /\ R.space = C.space
        /\ R.top = C.top
        /\ \A q \in AnsweredQueries(r) \intersect AnsweredQueries(c) :
                /\ (R.truth = NoTruth) = (C.truth = NoTruth)
                /\ first_answers(r)[q].expected = first_answers(c)[q].expected

shape_report(r, c) ==
    LET k == Header(r).top
        both == AnsweredQueries(r) \intersect AnsweredQueries(c)
    IN  [q \in both |->
            LET a == first_answers(r)[q]
                b == first_answers(c)[q]
            IN  [jaccard |-> jaccard_at_k(a.ids, b.ids, k), tau |-> rank_correlation(a.ids, b.ids, k),
                 reference |-> recall_at_k(a, k), candidate |-> recall_at_k(b, k)]]

compare_pair(r, c) ==
    LET attempted == {x.query : x \in Attempts(r) \union Attempts(c)}
    IN  [reference |-> r, candidate |-> c, shapes |-> shape_report(r, c),
         one_sided |-> {q \in attempted : (q \in AnsweredQueries(r)) # (q \in AnsweredQueries(c))},
         failed |-> FailedAttempts(r) + FailedAttempts(c),
         layouts_differ |-> (Header(r).layout = "vector") # (Header(c).layout = "vector")]

names(f, engine) == engine \in {Header(f).engine, Header(f).config}
key(f) ==
    LET h == Header(f)
    IN  <<h.dataset, h.workload, h.parallel, h.top, h.space, IF h.identity = "none" THEN <<>> ELSE <<h.search>> >>
index(fs) == \A f, g \in fs : key(f) = key(g) => f = g

\* Single files are paired whatever their keys; directories by key, one file per key.
Pairing(R, C) ==
    IF Cardinality(R) = 1 /\ Cardinality(C) = 1 THEN R \X C
    ELSE {p \in R \X C : key(p[1]) = key(p[2])}

Refusal == [verdict |-> "refused", pairs |-> {}, unpaired |-> {}]

PassesIfPaired(ps, un, allow) ==
    /\ \A p \in ps : p.one_sided = {}
    /\ allow \/ un = {}
passed(ps, un, allow) ==
    /\ \A p \in ps : p.one_sided = {}
    /\ \A p \in ps : p.failed = 0
    /\ allow \/ un = {}

compare(A, B, engine, allow) ==
    LET R == IF \A f \in A : names(f, engine) THEN A ELSE B
        C == IF R = A THEN B ELSE A
        pairing == Pairing(R, C)
        paired == {p[1] : p \in pairing} \union {p[2] : p \in pairing}
        pairs == {compare_pair(p[1], p[2]) : p \in pairing}
        unpaired == (R \union C) \ paired
    IN  IF \/ A = {} \/ B = {}
           \/ \E f \in A \union B : ~Readable(f)
           \/ ~(\A f \in R : names(f, engine))
           \/ Cardinality(R) + Cardinality(C) > 2 /\ ~(index(R) /\ index(C))
           \/ pairing = {}
           \/ \E p \in pairing : ~Comparable(p[1], p[2])
        THEN Refusal
        ELSE [verdict |-> IF passed(pairs, unpaired, allow) THEN "pass" ELSE "fail",
              pairs |-> pairs, unpaired |-> unpaired]

\* compare-results may be started at any time, also while a run still writes.
CompareNow(engine, allow) ==
    /\ report' = [result |-> compare(Dumps(1), Dumps(2), engine, allow), strict |-> ~allow,
                   done |-> {s \in Sides : writer[s] = "done"}]
    /\ UNCHANGED <<queue, dir, writer>>

CompareInit ==
    /\ queue \in Comparisons
    /\ dir = [s \in Sides |-> <<>>]
    /\ writer = [s \in Sides |-> "running"]
    /\ report = NoReport

\* What the runs do after the report is of no consequence to it.
CompareNext ==
    /\ report = NoReport
    /\ \/ \E s \in Sides : CreateDump(s)
       \/ \E s \in Sides : WriteLine(s)
       \/ \E s \in Sides : FinishDumps(s)
       \/ \E s \in Sides : StopWriting(s)
       \/ \E engine \in {"ref", "cand"}, allow \in BOOLEAN : CompareNow(engine, allow)

-----------------------------------------------------------------------------
Perfect(ratio) == ratio[1] = ratio[2]
Subject(f) == <<Header(f).dataset, Header(f).workload, Header(f).top, Header(f).space, Header(f).identity>>

\* A comparison that passes compared what it says: the two dumps of a pair are of one
\* workload, corpus, k and id space; every query a run attempted and dumped to the end was
\* answered by both, at every attempt; and a pair reported as equal (a jaccard and a rank
\* correlation of 1) gave the same documents in the same order, so that neither side's
\* recall is the better one.  Without --allow-unpaired, no point of a run that dumped all
\* of its points is left out.
PassIsEvidence ==
    report # NoReport /\ report.result.verdict = "pass" =>
        /\ \A p \in report.result.pairs :
            LET r == p.reference
                c == p.candidate
                k == Header(r).top
            IN  /\ Subject(r) = Subject(c)
                /\ \A f \in {r, c} : Whole(f) =>
                        \A a \in f.point.raw : a.ok /\ a.query \in DOMAIN p.shapes
                /\ \A q \in DOMAIN p.shapes :
                        Perfect(p.shapes[q].jaccard) /\ Perfect(p.shapes[q].tau) =>
                            /\ top_k(first_answers(r)[q].ids, k) = top_k(first_answers(c)[q].ids, k)
                            /\ p.shapes[q].reference = p.shapes[q].candidate
        /\ report.strict =>
            \A f \in UNION {Dumps(s) : s \in report.done} :
                \E p \in report.result.pairs : f \in {p.reference, p.candidate}
==============================================================================
