------------------------------- MODULE Recall -------------------------------
(***************************************************************************)
(* What a recalled context holds (src/qlsc/memory.py template, run_batch), *)
(* and which compiled questions are answered from it (answerable).  Who    *)
(* may see what, and until when, is Memory's: here a context is one that   *)
(* FRESH finds, of a reader whose model is the whole of it.                *)
(***************************************************************************)
EXTENDS Compile

CONSTANTS
  Key,        \* each table's key, a node's in the virtual graph
  Points,     \* its relationships: a column of a table that holds another's key
  Partition,  \* each table's partition column, or Nil
  Since,      \* the first day of the window (window_start)
  Cap,        \* memory.cap
  MemoryHops  \* memory.hops

ASSUME RecallAssumption ==
  /\ Key \in [Tables -> Columns]
  /\ Points \subseteq [start : Tables, col : Columns, end : Tables] /\ Nil \notin Points
  /\ Partition \in [Tables -> Columns \cup {Nil}]
  /\ Since \in Nat /\ Cap \in Nat /\ MemoryHops \in Nat \ {0}

-----------------------------------------------------------------------------
(* The template: the reads that fetch an anchor's context *)

\* Inward: the rows that point at the anchor; else the row a column names.
Read(r, inward, hop) == [rel |-> r, inward |-> inward, hop |-> hop]
Of(x) == IF x.inward THEN x.rel.start ELSE x.rel.end
Via(x) == IF x.inward THEN x.rel.end ELSE x.rel.start

\* Every relationship touching the anchor; then, hop by hop, those out of what
\* the hop before fetched, each relationship read once.
Touching(anchor) == {Read(r, r.start # anchor, 1) : r \in {p \in Points : anchor \in {p.start, p.end}}}
Onward(reads, hop) ==
  LET used == {x.rel : x \in reads}
      frontier == {Of(x) : x \in {y \in reads : y.hop = hop - 1}}
  IN  reads \cup {Read(r, FALSE, hop) : r \in {p \in Points \ used : p.start \in frontier}}
Template(anchor) == FoldLeft(Onward, Touching(anchor), [h \in 1 .. MemoryHops - 1 |-> h + 1])

-----------------------------------------------------------------------------
(* A context: of each table, the rows its reads fetched *)

InWindow(data, t, i) ==
  Partition[t] = Nil \/ (data[t][i][Partition[t]] # Nil /\ data[t][i][Partition[t]] >= Since)
\* The most recent first, then by key.
Recent(data, t, i, k) ==
  LET day(j) == IF Partition[t] = Nil THEN 0 ELSE data[t][j][Partition[t]]
  IN  day(i) > day(k) \/ (day(i) = day(k) /\ data[t][i][Key[t]] < data[t][k][Key[t]])

\* The rows a read is after, given those of the table it is keyed on.
Sought(data, x, keyed) ==
  LET r == x.rel
      named == {data[r.start][k][r.col] : k \in keyed} \ {Nil}
  IN  IF x.inward THEN {i \in DOMAIN data[r.start] : /\ InWindow(data, r.start, i)
                                                     /\ \E k \in keyed : data[r.start][i][r.col] = data[r.end][k][Key[r.end]]}
      ELSE {i \in DOMAIN data[r.end] : data[r.end][i][Key[r.end]] \in named}
Got(data, x, keyed) ==
  LET rows == Sought(data, x, keyed)
  IN  IF x.inward THEN {i \in rows : Cardinality({k \in rows \ {i} : Recent(data, Of(x), k, i)}) < Cap} ELSE rows

\* A hop's reads are concurrent: each is keyed on what the hops before fetched.
Hop(data, reads, rows, hop) ==
  [t \in Tables |-> rows[t] \cup UNION {Got(data, x, rows[Via(x)]) : x \in {y \in reads : y.hop = hop /\ Of(y) = t}}]

Context(data, anchor, key) ==
  LET reads == Template(anchor)
      itself == {i \in DOMAIN data[anchor] : data[anchor][i][Key[anchor]] = key}
      start == [t \in Tables |-> IF t = anchor THEN itself ELSE {}]
  IN  [table |-> anchor, key |-> key,
       rows |-> FoldLeft(LAMBDA rows, hop : Hop(data, reads, rows, hop), start, [h \in 1 .. MemoryHops |-> h]),
       capped |-> {x.rel : x \in {y \in reads : y.inward /\ Cardinality(Sought(data, y, itself)) > Cap}}]

\* What memory holds once these were recalled: their rows, merged by key.
Remembered(data, anchors) ==
  LET contexts == {Context(data, a[1], a[2]) : a \in anchors}
      held(t) == InOrder(UNION {c.rows[t] : c \in contexts}, <)
  IN  [rows |-> [t \in Tables |-> [n \in DOMAIN held(t) |-> data[t][held(t)[n]]]],
       contexts |-> {[table |-> c.table, key |-> c.key, capped |-> c.capped] :
                       c \in {d \in contexts : d.rows[d.table] # {}}}]

-----------------------------------------------------------------------------
(* Whether memory holds the whole answer to a block *)

\* The entity a condition is about: by its key, or by a fact's column.
Naming(c) ==
  IF c.op # "=" \/ c.other # Nil THEN {}
  ELSE IF c.col = Key[c.table] THEN {[table |-> c.table, key |-> c.value, by |-> Nil]}
  ELSE {[table |-> r.end, key |-> c.value, by |-> r] : r \in {p \in Points : p.start = c.table /\ p.col = c.col}}
Namings(b) == UNION {Naming(c) : c \in b.where}
Entities(b) == {<<n.table, n.key>> : n \in Namings(b)}

StartsWhenever(b, r) == TRUE   \* mutant of StartsInside: the period is not looked at
\* The block's period on a fact starts inside the window (of several lower
\* bounds any: the code looks at the last).
StartsInside(b, r) ==
  Partition[r.start] = Nil \/
  \E c \in b.where :
    RefOf(c) = <<r.start, Partition[r.start]>> /\ c.op = ">=" /\ c.other = Nil /\ c.value >= Since

\* The joins in order: to a dimension of what is covered, from one, or back to
\* the anchor.
Covered(b, anchor) ==
  LET reads == Template(anchor)
      reading(r, t) == \E x \in reads : x.rel = r /\ Via(x) = t
      by(t, col, u) == {p \in Points : p.start = t /\ p.col = col /\ p.end = u}
      named == {IF n.by = Nil THEN anchor ELSE n.by.start :
                  n \in {m \in Namings(b) : m.by = Nil \/ Read(m.by, TRUE, 1) \in reads}}
      next(ts, s) ==
        IF \/ s.from \in ts /\ \E r \in by(s.from, s.mine, s.to) : reading(r, s.from) \/ (s.to = anchor /\ reading(r, anchor))
        THEN ts \cup {s.to}
        ELSE IF s.to \in ts /\ \E r \in by(s.to, s.theirs, s.from) : reading(r, s.to) THEN ts \cup {s.from}
        ELSE ts
  IN  FoldLeft(next, named, b.joins)

TablesIn(b) == {b.fact} \cup {s.to : s \in ToSet(b.joins)}
IsPoint(s) ==
  \E r \in Points : \/ r.start = s.from /\ r.col = s.mine /\ r.end = s.to /\ s.theirs = Key[s.to]
                    \/ r.start = s.to /\ r.col = s.theirs /\ r.end = s.from /\ s.mine = Key[s.from]

Answerable(b, memory) ==
  /\ \E c \in memory.contexts :
       /\ Entities(b) = {<<c.table, c.key>>}
       /\ \A n \in Namings(b) : n.by # Nil => n.by \notin c.capped /\ StartsInside(b, n.by)
       /\ TablesIn(b) \subseteq Covered(b, c.table)
  /\ \A s \in Walked(b) : IsPoint(s)
=============================================================================
