------------------------------ MODULE Filters -------------------------------
(***************************************************************************)
(* How a search turns the filter conditions of a dataset's queries into    *)
(* the filters it sends: query after query, the search's builder is        *)
(* applied to the declared tree, and the first query it cannot express     *)
(* ends the search before it has measured anything.                        *)
(*                                                                         *)
(* A filter is its meaning: the set of valuations it accepts.  A valuation *)
(* says of each leaf of the tree whether a document satisfies it; index 0  *)
(* is what an inexact clause tests instead of its leaf.                    *)
(***************************************************************************)
EXTENDS FilterDialects, SequencesExt

CONSTANTS
  Searches,    \* the searches: records [name, parts, strict, binary, untranslatable], parts a set of dialects
  Queries     \* the sequences of declared conditions a dataset may hold

MaxLeaves  == 3
Valuations == [0..MaxLeaves -> BOOLEAN]

(* conditions a query may carry: absent or null, or a group.  A group maps *)
(* each arm it has to a sequence of entries; an entry is a group or holds  *)
(* leaves, in the order of their keys.                                     *)
Absent     == [tree |-> FALSE]
Tree(g)    == [tree |-> TRUE, group |-> g]
Entry(ls)  == [nested |-> FALSE, leaves |-> ls]
Nested(g)  == [nested |-> TRUE, group |-> g]
Leaf(k, f, n) == [kind |-> k, field |-> f, id |-> n]

-----------------------------------------------------------------------------
(* What the dataset declares. *)
Meaning(l) == IF l.kind \in {"anyEmpty", "blankText"} THEN {} ELSE {v \in Valuations : v[l.id]}

Meet(sets) == {v \in Valuations : \A s \in sets : v \in s}

RECURSIVE Declared(_)
Declared(g) ==
  LET EntryMeaning(e) == IF e.nested THEN Declared(e.group) ELSE Meet({Meaning(l) : l \in Range(e.leaves)})
      Arm(a) == {EntryMeaning(e) : e \in Range(g[a])}
      Conj == IF "and" \in DOMAIN g THEN Meet(Arm("and")) ELSE Valuations
      Disj == IF "or" \in DOMAIN g /\ g["or"] # <<>> THEN UNION Arm("or") ELSE Valuations
  IN  Conj \cap Disj

RECURSIVE LeavesOf(_)
LeavesOf(g) ==
  UNION {UNION {IF e.nested THEN LeavesOf(e.group) ELSE Range(e.leaves) : e \in Range(g[a])} : a \in DOMAIN g}

RECURSIVE GroupsOf(_)
GroupsOf(g) ==
  {g} \cup UNION {UNION {IF e.nested THEN GroupsOf(e.group) ELSE {} : e \in Range(g[a])} : a \in DOMAIN g}

-----------------------------------------------------------------------------
(* What a builder sends: {} when it has no clause, else a singleton. *)
Clause(l, img) ==
  CASE img = "exact"  -> {{v \in Valuations : v[l.id]}}
    [] img = "none"   -> {{}}
    [] img = "all"    -> {Valuations}
    [] img = "wide"   -> {{v \in Valuations : v[l.id] \/ v[0]}}
    [] img = "narrow" -> {{v \in Valuations : v[l.id] /\ v[0]}}
    [] img = "server" -> {{v \in Valuations : v[0]}}
    [] OTHER          -> {}

(* an entry of leaves: the clauses it adds to its arm *)
EntryClauses(d, ls) ==
  LET img(l)   == d.leaf[l.kind]
      kept     == SelectSeq(ls, LAMBDA l : Clause(l, img(l)) # {})
      clauses(i) == Clause(kept[i], img(kept[i]))
      last(i)  == \A j \in (i + 1)..Len(kept) : kept[j].field # kept[i].field
      Conj(is) == {Meet(UNION {clauses(i) : i \in is})}
  IN  IF kept = <<>> \/ \E l \in Range(ls) : img(l) = "entry" THEN {}
      ELSE CASE d.entry = "flat"  -> UNION {clauses(i) : i \in DOMAIN kept}
             [] d.entry = "and"   -> Conj(DOMAIN kept)
             [] d.entry = "first" -> clauses(1)
             [] d.entry = "last"  -> Conj({i \in DOMAIN kept : last(i)})

ArmsRead(d, g) ==
  CASE d.arms = "both"  -> DOMAIN g
    [] d.arms = "first" -> IF "and" \in DOMAIN g THEN {"and"} ELSE DOMAIN g
    [] d.arms = "and"   -> DOMAIN g \cap {"and"}

(* mistake: both arms joined the same way *)
JoinArmAsAnd(a, clauses) == IF clauses = {} THEN {} ELSE {Meet(clauses)}

(* a disjunction asks for one of its clauses at least *)
JoinArm(a, clauses) ==
  IF clauses = {} THEN {} ELSE {IF a = "and" THEN Meet(clauses) ELSE UNION clauses}

RECURSIVE BuildGroup(_, _)
BuildGroup(d, g) ==
  LET Clauses(e) ==
        IF ~e.nested THEN EntryClauses(d, e.leaves)
        ELSE IF d.nested = "build" THEN BuildGroup(d, e.group) ELSE {}
      parts == UNION {JoinArm(a, UNION {Clauses(e) : e \in Range(g[a])}) : a \in ArmsRead(d, g)}
  IN  IF parts = {} THEN {} ELSE {Meet(parts)}

(* the builder reports an error of its own *)
RECURSIVE BuilderFails(_, _)
BuilderFails(d, g) ==
  \/ d.arms = "and" /\ "and" \notin DOMAIN g
  \/ \E a \in ArmsRead(d, g) :
       \/ d.empty = "err" /\ g[a] = <<>>
       \/ \E e \in Range(g[a]) :
            \/ ~e.nested /\ \E l \in Range(e.leaves) : d.leaf[l.kind] = "err"
            \/ e.nested /\ d.nested = "err"
            \/ e.nested /\ d.nested = "build" /\ BuilderFails(d, e.group)
            \/ e.nested /\ d.empty = "err" /\ BuildGroup(d, e.group) = {}

(* one geo leaf anywhere, well formed or not, makes such a builder give up *)
ConditionsMentionGeo(g) == \E l \in LeavesOf(g) : l.kind \in GeoKinds

Built(d, g) == IF d.geo = "tree" /\ ConditionsMentionGeo(g) THEN {} ELSE BuildGroup(d, g)

(* the parts of a filter are tested together by the server *)
Parse(e, g) ==
  LET built == UNION {Built(d, g) : d \in e.parts}
  IN  [fails |-> \E d \in e.parts : BuilderFails(d, g),
       filter |-> IF built = {} THEN {} ELSE {Meet(built)}]

-----------------------------------------------------------------------------
VARIABLES
  search,    \* the engine whose builder is at work
  queries,   \* the conditions of the dataset's queries
  resolved,  \* what each query so far will carry: {} or {filter}
  status,    \* "resolving", "refused" or "ready"
  binary     \* the whole search goes over the binary protocol

filterVars == <<search, queries, resolved, status, binary>>

FilterInit ==
  /\ search \in Searches
  /\ queries \in Queries
  /\ resolved = <<>>
  /\ status = "resolving"
  /\ binary = FALSE

Query == queries[Len(resolved) + 1]

(* a declared filter is one that is there and not the empty object *)
IsDeclared(c) == c.tree /\ DOMAIN c.group # {}

Take(filter) ==
  /\ resolved' = Append(resolved, filter)
  /\ UNCHANGED <<search, queries, status, binary>>

ResolveUnfiltered ==
  /\ status = "resolving" /\ Len(resolved) < Len(queries)
  /\ ~IsDeclared(Query)
  /\ Take({})

ResolveFiltered ==
  /\ status = "resolving" /\ Len(resolved) < Len(queries)
  /\ IsDeclared(Query)
  /\ ~Parse(search, Query.group).fails
  /\ Parse(search, Query.group).filter # {}
  /\ Take(Parse(search, Query.group).filter)

(* an error of the builder, or no clause at all, ends the search *)
ResolveRefused ==
  /\ status = "resolving" /\ Len(resolved) < Len(queries)
  /\ IsDeclared(Query)
  /\ Parse(search, Query.group).fails \/ Parse(search, Query.group).filter = {}
  /\ status' = "refused"
  /\ UNCHANGED <<search, queries, resolved, binary>>

(* the binary protocol has no form for this query's filter *)
Untranslatable(i) ==
  IsDeclared(queries[i]) /\ \E l \in LeavesOf(queries[i].group) : l.kind \in search.untranslatable

(* one query the binary protocol cannot carry keeps them all off it, so    *)
(* that every query of a run is filtered by the same rules                 *)
AllResolved ==
  /\ status = "resolving" /\ Len(resolved) = Len(queries)
  /\ status' = "ready"
  /\ \E endpoint \in BOOLEAN :
       binary' = (endpoint /\ search.binary /\ \A i \in DOMAIN queries : ~Untranslatable(i))
  /\ UNCHANGED <<search, queries, resolved>>

FilterNext == ResolveUnfiltered \/ ResolveFiltered \/ ResolveRefused \/ AllResolved

FilterSpec == FilterInit /\ [][FilterNext]_filterVars

-----------------------------------------------------------------------------
Image(d, l) == d.leaf[l.kind]

(* The shapes a builder is known to get wrong without saying so: entries   *)
(* with several conditions, arms or groups it does not read, an `or` whose *)
(* alternatives go to different parts of the request, an arm or group that *)
(* holds nothing.                                                          *)
ShapeLost(e, g) ==
  \/ \E d \in e.parts, h \in GroupsOf(g) : ArmsRead(d, h) # DOMAIN h
  \/ \E d \in e.parts : d.nested # "build" /\ GroupsOf(g) # {g}
  \/ \E h \in GroupsOf(g) : DOMAIN h = {} \/ \E a \in DOMAIN h : h[a] = <<>>
  \/ \E d \in e.parts, h \in GroupsOf(g) : \E a \in DOMAIN h : \E x \in Range(h[a]) :
       /\ ~x.nested /\ Len(x.leaves) > 1
       /\ d.entry \in {"first", "last"} \/ (d.entry = "flat" /\ a = "or")
  \/ /\ Cardinality(e.parts) > 1
     /\ \E h \in GroupsOf(g) : "or" \in DOMAIN h
     /\ \E l, m \in LeavesOf(g) : l.kind \in TextKinds /\ m.kind \notin TextKinds

(* The leaves no part of the request carries with their meaning. *)
LeavesLost(e, g) ==
  {l \in LeavesOf(g) : \A d \in e.parts : Image(d, l) # "exact" /\ ~(Image(d, l) = "none" /\ Meaning(l) = {})}

Sent(i) == IF binary /\ Untranslatable(i) THEN {} ELSE resolved[i]
Filter(i) == CHOOSE f \in Sent(i) : TRUE

(* No query whose dataset declared a filter is searched without one, or    *)
(* with one that lets every document through: its ground truth was         *)
(* computed under the filter, so the recall would be of another question.  *)
(* The one clause that does accept everything is the empty range of the    *)
(* Lucene engines.                                                         *)
NeverUnfiltered ==
  \A i \in DOMAIN resolved :
    IsDeclared(queries[i]) =>
      /\ Sent(i) # {}
      /\ \/ Filter(i) # Valuations
         \/ \E d \in search.parts, l \in LeavesOf(queries[i].group) : Image(d, l) = "all"

(* When every leaf of a declared tree has an exact image and its shape is  *)
(* one the builder reads, the filter that is sent accepts exactly the      *)
(* documents the dataset declared: `or` needs one of its alternatives, the *)
(* two arms of a group are both required, groups nest.                     *)
FilterExact ==
  \A i \in DOMAIN resolved :
    (IsDeclared(queries[i]) /\ LeavesLost(search, queries[i].group) = {} /\ ~ShapeLost(search, queries[i].group))
      => Filter(i) = Declared(queries[i].group)

(* The builders that return errors (Qdrant, KiviDB) send no filter from    *)
(* which a leaf they could not express is missing; a radius Qdrant fills   *)
(* in is the one leaf whose meaning changes.                               *)
StrictRefuses ==
  \A i \in DOMAIN resolved :
    (search.strict /\ IsDeclared(queries[i])) =>
      \A l \in LeavesLost(search, queries[i].group) : l.kind = "geoNoRadius"

(* The filter a query is searched with is the one its dataset declared, or *)
(* the search refuses: it is never lost, weakened in silence by a builder  *)
(* that can report errors, or given another meaning.                       *)
FilterHonest == NeverUnfiltered /\ FilterExact /\ StrictRefuses

=============================================================================
