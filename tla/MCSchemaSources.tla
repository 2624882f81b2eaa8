-------------------------- MODULE MCSchemaSources ---------------------------
(* Instances of SchemaSources: the trees within a universe of paths, and     *)
(* lists of one or two flags of every sort.                                  *)
EXTENDS SchemaSources

Columns0 == <<"tables", "0", "columns">>
Column0  == Append(Columns0, "0")
Params0  == Append(Column0, "params")

(* All about tables and columns, or all about the params of one column.      *)
Shapes  == { <<>>, <<"0">>, <<"0", "token">>, <<"token">>, <<"tables">>,
             <<"tables", "0">>, <<"tables", "1">>, Columns0, Column0,
             Append(Columns0, "1"), Append(Columns0, "2") }
OneName == {SubSeq(Params0, 1, n) : n \in 0 .. Len(Params0)}
Inside  == {Params0 \o p : p \in {<<"a">>, <<"a", "0">>, <<"a", "0", "token">>, <<"b">>,
                                   <<"token">>, <<"token", "token">>}}

(* Sets of paths that are trees, with no index missing from a list. *)
IsTrunk(S) ==
  \A p \in S \ {<<>>} :
    /\ Front(p) \in S
    /\ Last(p) = "1" => Append(Front(p), "0") \in S
    /\ Last(p) = "2" => Append(Front(p), "1") \in S
Trunks == {S \in {{<<>>} \cup T : T \in SUBSET Shapes} \cup {OneName \cup T : T \in SUBSET Inside} : IsTrunk(S)}

Indexes == {"0", "1", "2"}
Strange == {<<"0">>, <<"tables">>, Columns0, Append(Params0, "a"), Append(Params0, "b")}

(* Where the kind of a node is not decided by its children, by turned and    *)
(* by strange: a list or a tuple if its keys are indexes, else what is odd.  *)
Tree(S, turned, strange) ==
  [p \in S |->
     LET children == {q \in S \ {<<>>} : Front(q) = p}
         isList   == children # {} /\ p \notin turned /\ \A q \in children : Last(q) \in Indexes
     IN  CASE p \in strange  -> IF isList THEN "tuple" ELSE "odd"
           [] p \notin strange /\ isList -> "list"
           [] p \notin strange /\ children = {} /\ p \notin turned -> "scalar"
           [] OTHER -> "map"]
Turnable(S) == {p \in S : {Last(q) : q \in {r \in S \ {<<>>} : Front(r) = p}} \subseteq Indexes}
Trees == UNION {{Tree(S, turned, strange) :
                   turned \in SUBSET Turnable(S), strange \in {{}} \cup {{p} : p \in S \cap Strange}} :
                S \in Trunks}

FromTree(given) == {[given |-> given, text |-> "fine", tree |-> t] : t \in Trees}
Unread == {[given |-> given, text |-> text, tree |-> <<>> :> "map"] : given \in {"text", "path"},
             text \in {"fine", "too long", "invalid", "anchor", "no date"}}
MCDocuments ==
  {d \in FromTree("text") \cup FromTree("dict") : d.given = "dict" => d.tree[<<>>] = "map"}
  \cup Unread
  \cup {[given |-> "path", text |-> text, tree |-> <<>> :> "map"] : text \in {"unreadable", "undecodable"}}

(* params: {x: [[a, {token: s}]]}, a list of lists, and the same under       *)
(* !!pairs: a list of tuples.                                                *)
Pair0 == Params0 \o <<"x", "0">>
PairsOf(kind) ==
  [p \in OneName \cup {Append(Params0, "x"), Pair0, Append(Pair0, "0"), Append(Pair0, "1"),
                        Pair0 \o <<"1", "token">>} |->
     CASE p \in {<<"tables">>, Columns0, Append(Params0, "x")}    -> "list"
       [] p = Pair0                                              -> kind
       [] p \in {Append(Pair0, "0"), Pair0 \o <<"1", "token">>} -> "scalar"
       [] OTHER                                                  -> "map"]
MCPairs == {[given |-> "text", text |-> "fine", tree |-> PairsOf(kind)] : kind \in {"list", "tuple"}}

Flag(k, v) == [key |-> k, value |-> v]
Flags == {Pk, Flag("bare", NoValue), Flag("", "0"), Flag("null_ratio", "0"), Flag("null_ratio", "1"),
          Flag("null_ratio", "7"), Flag("null_ratio", "x"), Flag("region", "x"), Flag("pk", "0")}
RawColumns ==
  [name : {"a"}, type : {"int"}, flags : SeqOf(Flags, 2)]
  \cup [name : {"", "a", "b", "1"}, type : {"", "int", "llm_text"}, flags : {<<>>, <<Pk>>}]
MCFlagLists == [given : {"flags"}, table : {TRUE}, cols : SeqOf(RawColumns, 2)]
               \cup [given : {"flags"}, table : {FALSE}, cols : SeqOf(RawColumns, 1)]

MCUnparsable == {<<"null_ratio", "x">>}
MCRefused    == {<<"null_ratio", "7">>, <<"name", "1">>}
=============================================================================
