-------------------------- MODULE DependencyOrder --------------------------
(***************************************************************************)
(* Layer 4 of validation, the dependencies among the columns of a table:   *)
(* _dependency_graph, _has_cycle and _validate_depends_on of               *)
(* src/src/dataipsum/schema/models.py.                                     *)
(*                                                                         *)
(* _has_cycle is a recursive depth-first search; its calls of visit are    *)
(* the frames of stack.  `any` stops at the first True, and each visit on  *)
(* the way out still moves its column from visiting to visited.  The       *)
(* recursion is Python's: FramesPerVisit frames of the interpreter for     *)
(* each visit, and RecursionError beyond RecursionLimit.                   *)
(***************************************************************************)
EXTENDS Naturals, Sequences

CONSTANTS
  Columns,         \* the columns of the table, whose types the registry knows
  Missing,         \* names that depends_on may return and the table lacks
  LLMColumns,      \* the columns of a type llm_*
  Graphs,          \* the dependency graphs: column to the list depends_on returned
  ColumnOrder,     \* the columns in the order of the schema
  RecursionLimit,  \* sys.getrecursionlimit(): 1000
  BaseFrames,      \* frames below the first visit
  FramesPerVisit   \* visit and the generator expression in its call of any: 2

Elements(seq) == {seq[i] : i \in DOMAIN seq}

ASSUME DependencyAssumption ==
  /\ Missing \cap Columns = {}
  /\ LLMColumns \subseteq Columns
  /\ Graphs \subseteq [Columns -> Seq(Columns \cup Missing)]
  /\ ColumnOrder \in Seq(Columns) /\ Columns \subseteq Elements(ColumnOrder)
  /\ RecursionLimit \in Nat /\ BaseFrames \in Nat /\ FramesPerVisit \in Nat

VARIABLES
  graph,     \* _dependency_graph of the table
  roots,     \* columns that the outermost any has yet to visit
  stack,     \* the calls of visit: the column and its dependencies to visit
  visiting,  \* as in _has_cycle
  visited,   \* as in _has_cycle
  found,     \* whether the last visit to return returned True
  pc,        \* "search", then "done" or "RecursionError"
  errors     \* the kinds of error that _validate_depends_on returned

vars == <<graph, roots, stack, visiting, visited, found, pc, errors>>

Frames == [column : Columns, deps : Seq(Columns \cup Missing)]

TypeOK ==
  /\ graph \in [Columns -> Seq(Columns \cup Missing)]
  /\ roots \in Seq(Columns)
  /\ stack \in Seq(Frames)
  /\ visiting \in SUBSET Columns
  /\ visited \in SUBSET Columns
  /\ found \in BOOLEAN
  /\ pc \in {"search", "done", "RecursionError"}
  /\ errors \in SUBSET {"missing", "llm", "cycle"}

Init ==
  /\ graph \in Graphs
  /\ roots = ColumnOrder
  /\ stack = <<>>
  /\ visiting = {}
  /\ visited = {}
  /\ found = FALSE
  /\ pc = "search"
  /\ errors = {}

-----------------------------------------------------------------------------
FitsInRecursionLimit(depth) == BaseFrames + FramesPerVisit * depth <= RecursionLimit

BugEnterOneSet(name, frames) ==   \* one set of seen columns for the two of _has_cycle
  \/ /\ name \in visiting \cup visited \/ name \notin Columns
     /\ stack' = frames
     /\ UNCHANGED <<visiting, found, pc>>
  \/ /\ name \in Columns \ (visiting \cup visited)
     /\ stack' = Append(frames, [column |-> name, deps |-> graph[name]])
     /\ visiting' = visiting \cup {name}
     /\ UNCHANGED <<found, pc>>

(* The call visit(name) under the given frames, up to its return or to its   *)
(* own call of any.                                                          *)
Enter(name, frames) ==
  \/ /\ name \in visiting
     /\ found' = TRUE
     /\ stack' = frames
     /\ UNCHANGED <<visiting, pc>>
  \/ /\ name \in visited \ visiting \/ name \notin Columns
     /\ stack' = frames
     /\ UNCHANGED <<visiting, found, pc>>
  \/ /\ name \in Columns \ (visiting \cup visited)
     /\ FitsInRecursionLimit(Len(frames) + 1)
     /\ stack' = Append(frames, [column |-> name, deps |-> graph[name]])
     /\ visiting' = visiting \cup {name}
     /\ UNCHANGED <<found, pc>>
  \/ /\ name \in Columns \ (visiting \cup visited)
     /\ ~FitsInRecursionLimit(Len(frames) + 1)
     /\ pc' = "RecursionError"
     /\ UNCHANGED <<stack, visiting, found>>

Top == stack[Len(stack)]

(* The calls once the last one has taken its next dependency. *)
Advanced ==
  [stack EXCEPT ![Len(stack)] = [column |-> Top.column, deps |-> Tail(Top.deps)]]

(* any(visit(node) for node in graph) *)
VisitRoot ==
  /\ pc = "search" /\ stack = <<>> /\ ~found /\ roots # <<>>
  /\ roots' = Tail(roots)
  /\ Enter(Head(roots), <<>>)
  /\ UNCHANGED <<graph, visited, errors>>

BugVisitDependencyPeeks ==   \* the dependency is looked at and never taken
  /\ pc = "search" /\ stack # <<>> /\ ~found /\ Top.deps # <<>>
  /\ Enter(Head(Top.deps), stack)
  /\ UNCHANGED <<graph, roots, visited, errors>>

(* any(visit(dep) for dep in graph[node]) *)
VisitDependency ==
  /\ pc = "search" /\ stack # <<>> /\ ~found /\ Top.deps # <<>>
  /\ Enter(Head(Top.deps), Advanced)
  /\ UNCHANGED <<graph, roots, visited, errors>>

BugLeaveKeepsVisiting ==   \* without visiting.discard(node)
  /\ pc = "search" /\ stack # <<>> /\ (found \/ Top.deps = <<>>)
  /\ stack' = SubSeq(stack, 1, Len(stack) - 1)
  /\ visited' = visited \cup {Top.column}
  /\ UNCHANGED <<graph, roots, visiting, found, pc, errors>>

LeaveVisit ==
  /\ pc = "search" /\ stack # <<>> /\ (found \/ Top.deps = <<>>)
  /\ stack' = SubSeq(stack, 1, Len(stack) - 1)
  /\ visiting' = visiting \ {Top.column}
  /\ visited' = visited \cup {Top.column}
  /\ UNCHANGED <<graph, roots, found, pc, errors>>

Dependencies(column) == Elements(graph[column])

(* _validate_depends_on: what it returns once _has_cycle has answered. *)
Answer ==
  /\ pc = "search" /\ stack = <<>> /\ (found \/ roots = <<>>)
  /\ pc' = "done"
  /\ errors' = {kind \in {"missing", "llm", "cycle"} :
       \/ kind = "missing" /\ \E c \in Columns : ~(Dependencies(c) \subseteq Columns)
       \/ kind = "llm"     /\ \E c \in Columns : Dependencies(c) \cap LLMColumns # {}
       \/ kind = "cycle"   /\ found}
  /\ UNCHANGED <<graph, roots, stack, visiting, visited, found>>

Search == VisitRoot \/ VisitDependency \/ LeaveVisit \/ Answer
Next   == Search

Spec     == Init /\ [][Next]_vars
FairSpec == Spec /\ WF_vars(Search)   \* the search is a loop of one thread

-----------------------------------------------------------------------------
(* A set of columns each of which depends on one of the set: there is a      *)
(* cycle exactly when there is such a set (walk along the dependencies).     *)
Cyclic(S) == S # {} /\ \A c \in S : Dependencies(c) \cap S # {}

HasCycle == \E S \in SUBSET Columns : Cyclic(S)

(* _has_cycle answers True exactly for the graphs with a cycle: columns that *)
(* it shares between paths, lists twice or leaves early do not mislead it.   *)
DecidesCycles == pc = "done" => (found <=> HasCycle)

(* A table without errors can be generated: the columns have an order in     *)
(* which each comes after those it depends on.                               *)
AcceptedIsOrderable ==
  pc = "done" /\ errors = {} =>
    \E place \in [Columns -> 1 .. Len(ColumnOrder)] :
      \A c \in Columns : \A d \in Dependencies(c) : d \in Columns /\ place[d] < place[c]

(* The search ends on every graph: no column is entered twice. *)
SearchEnds == <>(pc # "search")

(* The depth of a table within the limits of the schema (DD-00 3.3: 1 to 500 *)
(* columns) is no obstacle to its validation.                                *)
NoRecursionError == pc # "RecursionError"
=============================================================================
