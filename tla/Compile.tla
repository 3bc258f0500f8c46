------------------------------- MODULE Compile -------------------------------
(***************************************************************************)
(* The compiler (src/qlsc/compile.py): a request resolved into blocks,     *)
(* each an aggregate over one fact table and the tables it joins to; what  *)
(* a block's SQL gives over the warehouse's rows, and what the Cypher of   *)
(* the same block gives on memory.                                         *)
(*                                                                         *)
(* A request is measures (agg, of a table's column; only: the conditions   *)
(* inside it; filters: its Computation's; per: the entity it is summed     *)
(* over), dimensions (the columns each may be read from, in the order they *)
(* are tried), filters, and a period.  A condition is on a column, or      *)
(* compares it with another.                                               *)
(***************************************************************************)
EXTENDS Catalogue, FiniteSetsExt, SequencesExt

\* A set's members one after another, each before the next.
InOrder(S, Before(_, _)) ==
  CHOOSE s \in [1 .. Cardinality(S) -> S] : \A i, k \in DOMAIN s : i < k => Before(s[i], s[k])

RefBefore(r, q) == r[1] < q[1] \/ (r[1] = q[1] /\ r[2] < q[2])
RefOf(c) == <<c.table, c.col>>
ReadsOf(c) == {RefOf(c)} \cup ({c.other} \ {Nil})
TablesOf(conditions) == {r[1] : r \in UNION {ReadsOf(c) : c \in conditions}}
FirstOf(seq, S) == LET i == SelectInSeq(seq, LAMBDA x : x \in S) IN IF i = 0 THEN Nil ELSE seq[i]

\* Every table a measure reads; whether it is the same over repeated rows.
MeasureTables(m) ==
  ({m.table} \ {Nil}) \cup TablesOf(m.only \cup m.filters) \cup {r[1] : r \in ToSet(m.per)}
Safe(m) == m.agg \in {"COUNT_DISTINCT", "MAX"}

\* What a request may be made of, and the requests.
Condition ==
  {c \in [table : Tables, col : Columns, op : {"=", ">=", "<>", "IS NULL"}, value : Nat, other : Refs \cup {Nil}] :
     c.op = "IS NULL" => c.other = Nil}
Measure ==
  {m \in [agg : {"COUNT", "COUNT_DISTINCT", "SUM", "MAX"}, table : Tables \cup {Nil}, col : Columns \cup {Nil},
          only : SUBSET Condition, filters : SUBSET Condition, per : Seq(Refs)] :
     m.table # Nil => m.col # Nil}
Options == Seq(Refs) \ {<<>>}
Request ==
  [measures : Seq(Measure), dims : Seq(Options), filters : Seq(Condition),
   period : [options : Options, from : Nat] \cup {Nil}]

-----------------------------------------------------------------------------
(* The measures into groups, in the request's order *)

\* Its group's fact reaches the measure's table, or none is settled yet ...
Stays(g, m, unique) ==
  m.table = Nil \/ g.fact = Nil \/ m.table = g.fact \/ Reaches(g.fact, m.table, unique)
\* ... or the fact moves to it: the group's measures survive a fan-out.
Moves(g, m, unique) ==
  /\ \A x \in ToSet(g.measures) : Safe(x) \/ x.table = m.table
  /\ Reaches(m.table, g.fact, unique)

Placed(groups, m, unique) ==
  LET fits == {i \in DOMAIN groups : /\ groups[i].per = m.per
                                     /\ Stays(groups[i], m, unique) \/ Moves(groups[i], m, unique)}
  IN  IF fits = {} THEN Append(groups, [fact |-> m.table, measures |-> <<m>>, per |-> m.per])
      ELSE LET i == Min(fits)
               g == groups[i]
               fact == IF Stays(g, m, unique) /\ g.fact # Nil THEN g.fact ELSE m.table
           IN  [groups EXCEPT ![i] = [g EXCEPT !.fact = fact, !.measures = Append(@, m)]]

Groups(request, unique) ==
  IF request.measures = <<>> THEN <<[fact |-> Nil, measures |-> <<>>, per |-> <<>>]>>
  ELSE FoldLeft(LAMBDA groups, m : Placed(groups, m, unique), <<>>, request.measures)

-----------------------------------------------------------------------------
(* A group resolved into a block *)

\* A column named for a dimension, then those a trusted join equates it to.
Alternatives(options) ==
  FlattenSeq([i \in DOMAIN options |->
    <<options[i]>> \o InOrder(Equivalents(options[i]), RefBefore)])

\* The routes to the tables used, one after another: a table is joined once.
JoinsOf(fact, used, unique) ==
  LET others == InOrder(used \ {fact}, <)
      steps == FlattenSeq([i \in DOMAIN others |-> Route(fact, others[i], unique)])
      joined(js) == {fact} \cup {js[i].to : i \in DOMAIN js}
  IN  FoldLeft(LAMBDA js, s : IF s.to \in joined(js) THEN js ELSE Append(js, s), <<>>, steps)

SharedByAny(measures) ==   \* mutant of Shared: what one measure is filtered by, all are
  UNION {m.filters : m \in ToSet(measures)}
\* The Computations' filters that every measure of the block has.
Shared(measures) ==
  {f \in UNION {m.filters : m \in ToSet(measures)} : \A m \in ToSet(measures) : f \in m.filters}

AppliesWhereReached(f, others, several, reached) ==   \* mutant of Applies: or not at all
  several => reached
\* A filter about another block's fact is that block's, unless it is reached.
Applies(f, others, several, reached) ==
  (several /\ TablesOf({f}) \cap others # {}) => reached

\* The block of these columns, filters and a period's column, or Nil: a table
\* it needs is out of reach.
Block(fact, g, dims, filters, period, from, unique) ==
  LET needed == (UNION {MeasureTables(m) : m \in ToSet(g.measures)}) \cup TablesOf(filters)
      since == {[table |-> r[1], col |-> r[2], op |-> ">=", value |-> from, other |-> Nil] : r \in period}
  IN  IF Nil \in ToSet(dims) \cup period \/ \E t \in needed : ~ Reaches(fact, t, unique) THEN Nil
      ELSE [fact |-> fact, joins |-> JoinsOf(fact, needed \cup {r[1] : r \in ToSet(dims) \cup period}, unique),
            where |-> Shared(g.measures) \cup filters \cup since,
            dims |-> dims, measures |-> g.measures, per |-> g.per]

\* One block at `fact`: each column where it is reached first.
ResolveAt(fact, g, request, others, several, unique) ==
  LET reach(t) == Reaches(fact, t, unique)
      found(refs) == FirstOf(refs, {r \in ToSet(refs) : reach(r[1])})
      filters == {f \in ToSet(request.filters) : Applies(f, others, several, \A t \in TablesOf({f}) : reach(t))}
  IN  Block(fact, g, [i \in DOMAIN request.dims |-> found(Alternatives(request.dims[i]))], filters,
            IF request.period = Nil THEN {} ELSE {found(request.period.options)},
            IF request.period = Nil THEN Nil ELSE request.period.from, unique)

\* A count of rows, or a list, takes the first table named that reaches the
\* rest; a group whose fact does not, another table named.
NamedInOrder(request) ==
  (IF request.period = Nil THEN <<>> ELSE <<request.period.options[1][1]>>)
  \o [i \in DOMAIN request.dims |-> request.dims[i][1][1]]
  \o [i \in DOMAIN request.filters |-> request.filters[i].table]
Named(request) ==
  {r[1] : r \in UNION {ToSet(options) : options \in ToSet(request.dims)}}
  \cup {f.table : f \in ToSet(request.filters)}

MayBeUnsafe(g, t) == \A m \in ToSet(g.measures) : m.table # Nil   \* mutant of MayBe: whatever it measures
\* Another table may be a group's fact: its measures survive the fan-out.
MayBe(g, t) == \A m \in ToSet(g.measures) : m.table # Nil /\ (Safe(m) \/ m.table = t)

Candidates(g, request) ==
  IF g.fact = Nil THEN NamedInOrder(request)
  ELSE LET tables == Named(request) \cup UNION {MeasureTables(m) : m \in ToSet(g.measures)}
       IN  <<g.fact>> \o InOrder({t \in tables \ {g.fact} : MayBe(g, t)}, <)

\* The first of the tables where there is a block.
FirstFound(tables, at) ==
  LET i == SelectInSeq(tables, LAMBDA t : at[t] # Nil) IN IF i = 0 THEN Nil ELSE at[tables[i]]
Resolve(g, request, facts, several, unique) ==
  LET tables == Candidates(g, request)
  IN  FirstFound(tables, [t \in ToSet(tables) |-> ResolveAt(t, g, request, facts \ {g.fact, t}, several, unique)])

AllOrNil(blocks) == IF Nil \in ToSet(blocks) THEN Nil ELSE blocks
\* The request's blocks, or Nil: it doesn't fit, and the route writes freely.
Plan(request, unique) ==
  LET groups == Groups(request, unique)
      facts == {groups[i].fact : i \in DOMAIN groups} \ {Nil}
  IN  IF request.measures = <<>> /\ request.dims = <<>> THEN Nil
      ELSE AllOrNil([i \in DOMAIN groups |-> Resolve(groups[i], request, facts, Len(groups) > 1, unique)])

-----------------------------------------------------------------------------
(* What a block's SQL gives: rows joined, kept, grouped and aggregated.  A *)
(* joined row is a function from each table to its row there, or 0.        *)

Value(data, e, ref) == IF e[ref[1]] = 0 THEN Nil ELSE data[ref[1]][e[ref[1]]][ref[2]]

\* Whether what is read of a row meets a condition: not where SQL's is NULL.
Holds(c, row) ==
  LET v == row[RefOf(c)]
      w == IF c.other = Nil THEN c.value ELSE row[c.other]
  IN  \/ c.op = "IS NULL" /\ v = Nil
      \/ /\ Nil \notin {v, w}
         /\ \/ c.op = "=" /\ v = w
            \/ c.op = ">=" /\ v >= w
            \/ c.op = "<>" /\ v # w

FactRows(data, b) == {[t \in Tables |-> IF t = b.fact THEN i ELSE 0] : i \in DOMAIN data[b.fact]}

Extended(data, rows, s, outer) ==
  UNION {LET found == Matches(data, s, Value(data, e, <<s.from, s.mine>>))
         IN  IF found = {} /\ outer THEN {e} ELSE {[e EXCEPT ![s.to] = i] : i \in found} : e \in rows}

JoinedRows(data, b) ==
  FoldLeft(LAMBDA rows, s : Extended(data, rows, s, Outer(s)), FactRows(data, b), b.joins)

\* An aggregate over rows, read as `read` says; NULL where SQL's is.
Aggregate(m, inside, rows, read) ==
  LET kept == {e \in rows : \A c \in inside : Holds(c, read[e])}
      of(e) == IF m.table = Nil THEN 1 ELSE read[e][<<m.table, m.col>>]
      taken == {e \in kept : of(e) # Nil}
  IN  CASE m.agg = "COUNT" -> Cardinality(taken)
        [] m.agg = "COUNT_DISTINCT" -> Cardinality({of(e) : e \in taken})
        [] m.agg = "SUM" /\ taken # {} -> MapThenSumSet(of, taken)
        [] m.agg = "MAX" /\ taken # {} -> Max({of(e) : e \in taken})
        [] OTHER -> Nil

\* Each group's measures: per entity first, then summed, where the block says.
Grouped(b, rows, read, none) ==
  LET key(e) == [i \in DOMAIN b.dims |-> read[e][b.dims[i]]]
      entity(e) == [i \in DOMAIN b.per |-> read[e][b.per[i]]]
      inside(m) == m.only \cup (m.filters \ Shared(b.measures))
      each(m, group) == {<<x, Aggregate(m, inside(m), {e \in group : entity(e) = x}, read)>> :
                           x \in {entity(e) : e \in group}}
      then(parts) == IF parts = {} THEN none ELSE MapThenSumSet(LAMBDA p : p[2], parts)
      measured(m, group) ==
        IF b.per = <<>> THEN Aggregate(m, inside(m), group, read)
        ELSE then({p \in each(m, group) : p[2] # Nil})
      keys == IF b.dims = <<>> THEN {<<>>} ELSE {key(e) : e \in rows}
  IN  [k \in keys |-> [i \in DOMAIN b.measures |->
                        measured(b.measures[i], {e \in rows : key(e) = k})]]

InSql(data, b) ==
  LET joined == JoinedRows(data, b)
      read == [e \in joined |-> [r \in Refs |-> Value(data, e, r)]]
  IN  Grouped(b, {e \in joined : \A c \in b.where : Holds(c, read[e])}, read, Nil)

-----------------------------------------------------------------------------
(* What the block's Cypher gives on memory, which has OPTIONAL MATCH *)

\* A column an outer join equates to its pointing column is read there.
Pointing(b) ==
  FoldLeft(LAMBDA at, s : IF Outer(s) THEN [at EXCEPT ![<<s.to, s.theirs>>] = at[<<s.from, s.mine>>]] ELSE at,
           [r \in Refs |-> r], b.joins)

Reads(b) ==
  ToSet(b.dims) \cup ToSet(b.per) \cup (UNION {ReadsOf(c) : c \in b.where})
  \cup UNION {(UNION {ReadsOf(c) : c \in m.only \cup m.filters}) \cup
              (IF m.table = Nil THEN {} ELSE {<<m.table, m.col>>}) : m \in ToSet(b.measures)}

\* The joins that something read is across: the others are not walked.
Needed(b) ==
  FoldLeft(LAMBDA ts, s : IF s.to \in ts THEN ts \cup {s.from} ELSE ts,
           {b.fact} \cup {Pointing(b)[r][1] : r \in Reads(b)}, Reverse(b.joins))
Walked(b) == LET needed == Needed(b) IN {s \in ToSet(b.joins) : s.to \in needed}

FilteredOn(b) == {Pointing(b)[r][1] : r \in UNION {ReadsOf(c) : c \in b.where}}

NoOptional(b) == {}   \* mutant of Optional: the virtual graph's, with no OPTIONAL MATCH
\* Reached by an outer join nothing filters on, or from one that is.
Optional(b) ==
  LET walked == Walked(b)
      filtered == FilteredOn(b)
  IN  FoldLeft(LAMBDA ts, s : IF s \in walked /\ (s.from \in ts \/ (Outer(s) /\ s.to \notin filtered))
                              THEN ts \cup {s.to} ELSE ts, {}, b.joins)

\* The rows with those of some of the joins, matched one after another.
Matched(data, rows, joins, some, optional) ==
  FoldLeft(LAMBDA rs, s : IF s \in some THEN Extended(data, rs, s, optional) ELSE rs, rows, joins)

\* WHERE stands before the OPTIONAL MATCHes: a filter on one is an error.
OnMemory(data, b) ==
  LET pointing == Pointing(b)
      read(rows) == [e \in rows |-> [r \in Refs |-> Value(data, e, pointing[r])]]
      optional == Optional(b)
      inner == {s \in Walked(b) : s.to \notin optional}
      matched == Matched(data, FactRows(data, b), b.joins, inner, FALSE)
      kept == {e \in matched : \A c \in b.where : Holds(c, read(matched)[e])}
      rows == Matched(data, kept, b.joins, Walked(b) \ inner, TRUE)
  IN  IF FilteredOn(b) \cap optional # {} THEN Nil ELSE Grouped(b, rows, read(rows), 0)
=============================================================================
