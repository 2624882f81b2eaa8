-------------------------- MODULE MCSchemaPipeline --------------------------
(* Instances of SchemaPipeline: well-formed tables with all sorts of       *)
(* columns, pairs of tables, and documents that break the rules.           *)
EXTENDS SchemaPipeline

MCNames == {"a", "b", "x", "y"}
MCTypes == {"plain", "dep", "llm_text", "ghost"}   \* ghost is not registered

Col(n, type) == [name |-> n, type |-> type, nullable |-> FALSE]

(* A column llm_text implies x and y.  The columns of a thread table are    *)
(* one of these, or one that implies more, or one of the same names.        *)
Context(of_dep, refused, ofThread) ==
  [implied |-> [type \in {"plain", "dep", "llm_text"} |->
                  IF type = "llm_text" THEN <<Col("x", "plain"), Col("y", "plain")>> ELSE <<>>],
   depends |-> [type \in {"plain", "dep", "llm_text"} |-> IF type = "dep" THEN of_dep ELSE {}],
   refuses |-> refused,
   planned |-> [relation \in Relations |-> IF relation = "thread" THEN ofThread ELSE <<>>]]

MCContexts ==
  { Context({"a"}, {}, <<Col("y", "llm_text"), Col("b", "plain"), Col("y", "dep")>>),
    Context({"x"}, {}, <<Col("x", "llm_text")>>),
    Context({"a", "b"}, {"plain"}, <<Col("b", "ghost")>>) }

Declarable == {Col(n, type) : n \in {"a", "b", "x"}, type \in MCTypes}

RootTable(n, columns) ==
  [name |-> n, rows |-> TRUE, relation |-> "none", via |-> "a", thread |-> FALSE,
   composite |-> FALSE, key |-> {"a"}, columns |-> columns]

ThreadTable(n, columns) ==
  [RootTable(n, columns) EXCEPT !.rows = FALSE, !.relation = "thread", !.thread = TRUE]

OneTable ==
  {[tables |-> <<table>>, llm |-> TRUE] : table \in
     UNION {{RootTable("a", columns), ThreadTable("a", columns)} :
            columns \in [1..1 -> Declarable] \cup [1..2 -> Declarable]}}

Few == {<<Col("a", "llm_text")>>, <<Col("x", "llm_text")>>, <<Col("b", "plain"), Col("x", "dep")>>}

TwoTables ==
  {[tables |-> <<first, second>>, llm |-> llm] :
     first \in {RootTable("a", c) : c \in Few}, llm \in BOOLEAN,
     second \in UNION {{RootTable("b", c), ThreadTable("b", c), RootTable("a", c)} : c \in Few}}

(* Any shape of a table, with a column that may be null or twice there, in  *)
(* a schema with an llm_text column and no llm section.                     *)
Shapes ==
  {[tables |-> <<RootTable("b", <<Col("b", "llm_text")>>),
                 [name |-> "a", rows |-> rows, relation |-> relation, via |-> "b",
                  thread |-> thread, composite |-> composite, key |-> {"a"},
                  columns |-> <<Col("a", "plain"), [name |-> second, type |-> "plain", nullable |-> nullable]>>]>>,
    llm |-> FALSE] :
     rows \in BOOLEAN, relation \in Relations, thread \in BOOLEAN, composite \in BOOLEAN,
     second \in {"a", "b"}, nullable \in BOOLEAN}

TooMany ==
  {[tables |-> <<RootTable("a", [i \in 1..4 |-> Col("a", "plain")]), RootTable("b", <<Col("b", "plain")>>),
                 RootTable("b", <<Col("b", "plain")>>)>>, llm |-> FALSE]}

MCDocuments == OneTable \cup TwoTables \cup Shapes \cup TooMany
=============================================================================
