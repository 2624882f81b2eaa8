----------------------- MODULE DependencyOrderProofs -----------------------
(***************************************************************************)
(* _has_cycle is right for every table: whatever the columns, their        *)
(* dependencies and the recursion limit, when the search ends without      *)
(* RecursionError it has found a cycle exactly if there is one, and the    *)
(* columns of a table without errors have an order to be generated in.     *)
(*                                                                         *)
(* The inductive invariant: the calls of visit are a path of dependencies  *)
(* whose columns are those of visiting (PathInv); no dependency has been   *)
(* left out (NoneSkipped); and no set of visited columns is cyclic, for a  *)
(* column is marked when all its dependencies are (VisitedAcyclic).        *)
(***************************************************************************)
EXTENDS DependencyOrder, SequenceTheorems, FiniteSetTheorems, TLAPS

Depth == Len(stack)

PathInv ==
  /\ visiting = {stack[i].column : i \in 1..Depth}
  /\ \A i, j \in 1..Depth : stack[i].column = stack[j].column => i = j
  /\ visiting \cap visited = {}
  /\ \A i \in 1..(Depth - 1) : stack[i + 1].column \in Dependencies(stack[i].column)
  /\ \A i \in 1..Depth : Elements(stack[i].deps) \subseteq Dependencies(stack[i].column)

DependenciesLeft ==
  \A i \in 1..Depth : \A d \in Dependencies(stack[i].column) \cap Columns :
    \/ d \in visited
    \/ d \in Elements(stack[i].deps)
    \/ i < Depth /\ d = stack[i + 1].column

RootsLeft ==
  \A c \in Columns :
    \/ c \in visited
    \/ c \in Elements(roots)
    \/ Depth > 0 /\ c = stack[1].column

VisitedClosed == \A c \in visited : Dependencies(c) \cap Columns \subseteq visited

NoneSkipped ==
  ~found /\ pc # "RecursionError" => DependenciesLeft /\ RootsLeft /\ VisitedClosed

VisitedAcyclic == ~found => \A S \in SUBSET visited : ~Cyclic(S)

FoundIsReal == found => HasCycle

AtEnd == pc = "done" => Depth = 0 /\ (found \/ roots = <<>>)

Inv ==
  /\ TypeOK /\ PathInv /\ NoneSkipped /\ VisitedAcyclic /\ FoundIsReal /\ AtEnd

-----------------------------------------------------------------------------
(* The elements of a sequence are its head and those of its tail. *)
LEMMA ElementsOfTail ==
  ASSUME NEW S, NEW s \in Seq(S), s # <<>>
  PROVE  /\ Head(s) \in Elements(s) /\ Head(s) \in S
         /\ Tail(s) \in Seq(S)
         /\ Elements(Tail(s)) \subseteq Elements(s)
         /\ \A x \in Elements(s) : x = Head(s) \/ x \in Elements(Tail(s))
<1>1. /\ Len(s) \in Nat \ {0} /\ DOMAIN s = 1..Len(s) /\ Head(s) = s[1]
  BY EmptySeq, LenProperties
<1>2. /\ Head(s) \in S /\ Tail(s) \in Seq(S) /\ Len(Tail(s)) = Len(s) - 1
      /\ \A i \in 1..Len(Tail(s)) : Tail(s)[i] = s[i + 1]
  BY HeadTailProperties
<1>3. DOMAIN Tail(s) = 1..(Len(s) - 1)
  BY <1>1, <1>2, LenProperties
<1>4. ASSUME NEW i \in 1..(Len(s) - 1) PROVE Tail(s)[i] = s[i + 1] /\ i + 1 \in DOMAIN s
  BY <1>1, <1>2
<1>5. ASSUME NEW x \in Elements(s) PROVE x = Head(s) \/ x \in Elements(Tail(s))
  <2>1. PICK i \in 1..Len(s) : x = s[i]
    BY <1>1, <1>5 DEF Elements
  <2>2. CASE i = 1
    BY <2>1, <2>2, <1>1
  <2>3. CASE i # 1
    <3>1. i - 1 \in 1..(Len(s) - 1) /\ (i - 1) + 1 = i
      BY <2>3, <1>1
    <3>2. Tail(s)[i - 1] = s[i]
      BY <3>1, <1>4
    <3>3. QED
      BY <3>1, <3>2, <2>1, <1>3 DEF Elements
  <2>4. QED
    BY <2>2, <2>3
<1>6. Elements(Tail(s)) \subseteq Elements(s)
  BY <1>3, <1>4 DEF Elements
<1>7. QED
  BY <1>1, <1>2, <1>5, <1>6 DEF Elements

LEMMA AdvancedFacts ==
  ASSUME TypeOK, stack # <<>>, Top.deps # <<>>
  PROVE  /\ Depth \in Nat \ {0} /\ Advanced \in Seq(Frames) /\ Len(Advanced) = Depth
         /\ \A i \in 1..Depth :
              /\ Advanced[i].column = stack[i].column
              /\ Elements(Advanced[i].deps) \subseteq Elements(stack[i].deps)
              /\ \A d \in Elements(stack[i].deps) :
                   d \in Elements(Advanced[i].deps) \/ (i = Depth /\ d = Head(Top.deps))
         /\ Head(Top.deps) \in Elements(stack[Depth].deps)
         /\ Head(Top.deps) \in Columns \cup Missing
<1>1. stack \in Seq(Frames) /\ Depth \in Nat \ {0} /\ DOMAIN stack = 1..Depth
  BY EmptySeq, LenProperties DEF TypeOK, Depth
<1>2. \A i \in 1..Depth : stack[i] \in Frames
  BY <1>1, ElementOfSeq DEF Depth
<1>3. Top = stack[Depth] /\ Top.deps \in Seq(Columns \cup Missing)
  BY <1>1, <1>2 DEF Top, Depth, Frames
<1>4. /\ Head(Top.deps) \in Elements(Top.deps) /\ Head(Top.deps) \in Columns \cup Missing
      /\ Tail(Top.deps) \in Seq(Columns \cup Missing)
      /\ Elements(Tail(Top.deps)) \subseteq Elements(Top.deps)
      /\ \A d \in Elements(Top.deps) : d = Head(Top.deps) \/ d \in Elements(Tail(Top.deps))
  BY <1>3, ElementsOfTail
<1> DEFINE frame == [column |-> Top.column, deps |-> Tail(Top.deps)]
<1>5. Advanced = [stack EXCEPT ![Depth] = frame]
  BY DEF Advanced, Depth
<1>6. /\ frame \in Frames /\ frame.column = stack[Depth].column
      /\ frame.deps = Tail(Top.deps)
  BY <1>1, <1>2, <1>3, <1>4 DEF Frames
<1> HIDE DEF frame
<1>7. Advanced \in Seq(Frames) /\ Len(Advanced) = Depth
  BY <1>1, <1>5, <1>6, ExceptSeq DEF Depth
<1>8. \A i \in 1..Depth : Advanced[i] = IF i = Depth THEN frame ELSE stack[i]
  BY <1>1, <1>5
<1>9. QED
  BY <1>1, <1>3, <1>4, <1>6, <1>7, <1>8

(* What a step that leaves visited alone keeps. *)
LEMMA VisitedAlone ==
  ASSUME VisitedAcyclic, FoundIsReal, UNCHANGED <<graph, visited, found>>
  PROVE  VisitedAcyclic' /\ FoundIsReal'
BY DEF VisitedAcyclic, FoundIsReal, HasCycle, Cyclic, Dependencies

(* The columns of the path from the one that is met again are a cycle. *)
LEMMA PathCloses ==
  ASSUME TypeOK, PathInv, NEW name \in visiting,
         Depth > 0 => name \in Dependencies(stack[Depth].column)
  PROVE  HasCycle
<1>1. Depth \in Nat /\ stack \in Seq(Frames)
  BY LenProperties DEF TypeOK, Depth
<1>2. PICK k \in 1..Depth : stack[k].column = name
  BY DEF PathInv
<1> DEFINE S == {stack[i].column : i \in k..Depth}
<1>3. ASSUME NEW i \in 1..Depth PROVE stack[i].column \in Columns
  <2>1. stack[i] \in Frames
    BY <1>1, ElementOfSeq DEF Depth
  <2>2. QED
    BY <2>1 DEF Frames
<1>4. S \in SUBSET Columns /\ S # {}
  BY <1>1, <1>2, <1>3
<1>5. ASSUME NEW i \in k..Depth PROVE Dependencies(stack[i].column) \cap S # {}
  <2>1. CASE i = Depth
    BY <2>1, <1>1, <1>2
  <2>2. CASE i # Depth
    <3>1. i \in 1..(Depth - 1) /\ i + 1 \in k..Depth
      BY <2>2, <1>1
    <3>2. stack[i + 1].column \in Dependencies(stack[i].column)
      BY <3>1 DEF PathInv
    <3>3. stack[i + 1].column \in S
      BY <3>1
    <3>4. QED
      BY <3>2, <3>3
  <2>3. QED
    BY <2>1, <2>2
<1>6. Cyclic(S)
  BY <1>4, <1>5 DEF Cyclic
<1>7. QED
  BY <1>4, <1>6 DEF HasCycle

(* A call of visit, from the path P that its caller leaves. *)
LEMMA EnterKeepsInv ==
  ASSUME Inv, pc = "search", ~found,
         NEW name \in Columns \cup Missing,
         Depth > 0 => name \in Dependencies(stack[Depth].column),
         NEW P \in Seq(Frames), Len(P) = Depth,
         \A i \in 1..Depth :
           /\ P[i].column = stack[i].column
           /\ Elements(P[i].deps) \subseteq Elements(stack[i].deps)
           /\ \A d \in Elements(stack[i].deps) :
                d \in Elements(P[i].deps) \/ (i = Depth /\ d = name),
         roots' \in Seq(Columns),
         \A c \in Elements(roots) : c \in Elements(roots') \/ (Depth = 0 /\ c = name),
         Enter(name, P),
         UNCHANGED <<graph, visited, errors>>
  PROVE  Inv'
<1>1. Depth \in Nat /\ stack \in Seq(Frames) /\ graph \in [Columns -> Seq(Columns \cup Missing)]
  BY LenProperties DEF Inv, TypeOK, Depth
<1>2. \A i \in 1..Depth : P[i] \in Frames /\ stack[i] \in Frames
  BY <1>1, ElementOfSeq DEF Depth
<1>3. \A c : Dependencies(c)' = Dependencies(c)
  BY DEF Dependencies
<1>4. DependenciesLeft /\ RootsLeft /\ VisitedClosed /\ VisitedClosed'
  BY <1>3 DEF Inv, NoneSkipped, VisitedClosed
<1>5. CASE stack' = P /\ UNCHANGED <<visiting, pc>>
  <2>1. Depth' = Depth
    BY <1>5 DEF Depth
  <2>2. PathInv'
    <3>1. visiting' = {stack[i].column : i \in 1..Depth}'
      <4>1. visiting = {stack[i].column : i \in 1..Depth}
        BY DEF Inv, PathInv
      <4>2. \A i \in 1..Depth : stack'[i].column = stack[i].column
        BY <1>5
      <4>3. QED
        BY <1>5, <2>1, <4>1, <4>2
    <3>2. \A i \in 1..Depth : Elements(P[i].deps) \subseteq Dependencies(P[i].column)
      BY DEF Inv, PathInv
    <3>3. \A i, j \in 1..Depth : P[i].column = P[j].column => i = j
      BY DEF Inv, PathInv
    <3>4. visiting' \cap visited' = {}
      BY <1>5 DEF Inv, PathInv
    <3>5. \A i \in 1..(Depth - 1) : P[i + 1].column \in Dependencies(P[i].column)
      <4>1. ASSUME NEW i \in 1..(Depth - 1)
            PROVE  P[i + 1].column \in Dependencies(P[i].column)
        <5>1. i \in 1..Depth /\ i + 1 \in 1..Depth
          BY <1>1
        <5>2. P[i].column = stack[i].column /\ P[i + 1].column = stack[i + 1].column
          BY <5>1
        <5>3. QED
          BY <5>2 DEF Inv, PathInv
      <4>2. QED
        BY <4>1
    <3>6. QED
      BY <1>3, <1>5, <2>1, <3>1, <3>2, <3>3, <3>4, <3>5 DEF PathInv
  <2>3. CASE found' /\ name \in visiting
    <3>1. HasCycle
      BY <2>3, PathCloses DEF Inv
    <3>2. HasCycle'
      BY <3>1, <1>3 DEF HasCycle, Cyclic
    <3>3. TypeOK'
      BY <1>5, <2>3 DEF Inv, TypeOK, Enter
    <3>4. QED
      BY <1>5, <2>2, <2>3, <3>2, <3>3
      DEF Inv, NoneSkipped, VisitedAcyclic, FoundIsReal, AtEnd
  <2>4. CASE UNCHANGED found /\ (name \in visited \/ name \notin Columns)
    <3>1. VisitedAcyclic' /\ FoundIsReal'
      BY <2>4, VisitedAlone DEF Inv
    <3>2. TypeOK'
      BY <1>5, <2>4 DEF Inv, TypeOK
    <3>3. DependenciesLeft'
      BY <1>3, <1>4, <1>5, <2>1, <2>4 DEF DependenciesLeft
    <3>4. RootsLeft'
      <4>1. ASSUME NEW c \in Columns
            PROVE  c \in visited \/ c \in Elements(roots') \/ (Depth > 0 /\ c = P[1].column)
        <5>1. CASE c \in visited
          BY <5>1
        <5>2. CASE c \in Elements(roots)
          BY <2>4, <5>2
        <5>3. CASE Depth > 0 /\ c = stack[1].column
          BY <1>1, <5>3
        <5>4. QED
          BY <1>4, <5>1, <5>2, <5>3 DEF RootsLeft
      <4>2. QED
        BY <1>5, <2>1, <4>1 DEF RootsLeft
    <3>5. QED
      BY <1>4, <1>5, <2>2, <2>4, <3>1, <3>2, <3>3, <3>4 DEF Inv, NoneSkipped, AtEnd
  <2>5. QED
    BY <1>5, <2>3, <2>4 DEF Enter
<1>6. CASE /\ name \in Columns \ (visiting \cup visited)
           /\ stack' = Append(P, [column |-> name, deps |-> graph[name]])
           /\ visiting' = visiting \cup {name}
           /\ UNCHANGED <<found, pc>>
  <2> DEFINE frame == [column |-> name, deps |-> graph[name]]
  <2>1. frame \in Frames /\ Elements(frame.deps) = Dependencies(name)
    BY <1>1, <1>6 DEF Frames, Dependencies
  <2>2. frame.column = name
    OBVIOUS
  <2> HIDE DEF frame
  <2>3. /\ stack' \in Seq(Frames) /\ Depth' = Depth + 1 /\ stack'[Depth + 1] = frame
        /\ \A i \in 1..Depth : stack'[i] = P[i]
    BY <1>6, <2>1, AppendProperties DEF Depth, frame
  <2>4. /\ stack'[Depth + 1].column = name
        /\ \A i \in 1..Depth : stack'[i].column = stack[i].column
    BY <2>2, <2>3
  <2>5. TypeOK'
    BY <1>6, <2>3 DEF Inv, TypeOK
  <2>6. PathInv'
    <3>1. visiting' = {stack[i].column : i \in 1..Depth}'
      <4>1. visiting = {stack[i].column : i \in 1..Depth}
        BY DEF Inv, PathInv
      <4>2. ASSUME NEW x \in visiting' PROVE \E i \in 1..(Depth + 1) : x = stack'[i].column
        <5>1. CASE x = name
          <6>1. Depth + 1 \in 1..(Depth + 1)
            BY <1>1
          <6>2. stack'[Depth + 1].column = x
            BY <2>4, <5>1
          <6>3. QED
            BY <6>1, <6>2
        <5>2. CASE x \in visiting
          <6>1. PICK i \in 1..Depth : x = stack[i].column
            BY <4>1, <5>2
          <6>2. i \in 1..(Depth + 1) /\ stack'[i].column = stack[i].column
            BY <1>1, <2>4
          <6>3. QED
            BY <6>1, <6>2
        <5>3. QED
          BY <1>6, <5>1, <5>2
      <4>3. ASSUME NEW i \in 1..(Depth + 1) PROVE stack'[i].column \in visiting'
        <5>1. CASE i = Depth + 1
          BY <1>6, <2>4, <5>1
        <5>2. CASE i \in 1..Depth
          BY <1>6, <2>4, <4>1, <5>2
        <5>3. QED
          BY <1>1, <5>1, <5>2
      <4>4. QED
        BY <2>3, <4>2, <4>3
    <3>2. \A i, j \in 1..(Depth + 1) : stack'[i].column = stack'[j].column => i = j
      <4>1. \A i \in 1..Depth : stack[i].column # name
        BY <1>6 DEF Inv, PathInv
      <4>2. \A i, j \in 1..Depth : stack'[i].column = stack'[j].column => i = j
        BY <2>4 DEF Inv, PathInv
      <4>3. \A i \in 1..(Depth + 1) : i = Depth + 1 \/ i \in 1..Depth
        BY <1>1
      <4>4. \A i \in 1..Depth : stack'[i].column # name
        BY <2>4, <4>1
      <4>5. QED
        BY <2>4, <4>2, <4>3, <4>4
    <3>3. visiting' \cap visited' = {}
      BY <1>6 DEF Inv, PathInv
    <3>4. \A i \in 1..Depth : stack'[i + 1].column \in Dependencies(stack'[i].column)
      <4>1. ASSUME NEW i \in 1..Depth
            PROVE  stack'[i + 1].column \in Dependencies(stack'[i].column)
        <5>1. CASE i = Depth
          BY <1>1, <2>4, <5>1
        <5>2. CASE i # Depth
          <6>1. i \in 1..(Depth - 1) /\ i + 1 \in 1..Depth
            BY <1>1, <5>2
          <6>2. stack'[i + 1].column = stack[i + 1].column /\ stack'[i].column = stack[i].column
            BY <2>4, <6>1
          <6>3. QED
            BY <6>1, <6>2 DEF Inv, PathInv
        <5>3. QED
          BY <5>1, <5>2
      <4>2. QED
        BY <4>1
    <3>5. \A i \in 1..(Depth + 1) : Elements(stack'[i].deps) \subseteq Dependencies(stack'[i].column)
      <4>1. ASSUME NEW i \in 1..(Depth + 1)
            PROVE  Elements(stack'[i].deps) \subseteq Dependencies(stack'[i].column)
        <5>1. CASE i = Depth + 1
          BY <2>1, <2>3, <2>4, <5>1
        <5>2. CASE i \in 1..Depth
          <6>1. Elements(stack[i].deps) \subseteq Dependencies(stack[i].column)
            BY <5>2 DEF Inv, PathInv
          <6>2. Elements(P[i].deps) \subseteq Elements(stack[i].deps)
            BY <5>2
          <6>3. stack'[i] = P[i] /\ stack'[i].column = stack[i].column
            BY <2>3, <2>4, <5>2
          <6>4. QED
            BY <6>1, <6>2, <6>3
        <5>3. QED
          BY <1>1, <5>1, <5>2
      <4>2. QED
        BY <4>1
    <3>6. (Depth' - 1) = Depth
      BY <1>1, <2>3
    <3>7. QED
      BY <1>3, <2>3, <3>1, <3>2, <3>3, <3>4, <3>5, <3>6 DEF PathInv
  <2>7. DependenciesLeft'
    <3>1. ASSUME NEW i \in 1..Depth, NEW d \in Dependencies(stack[i].column) \cap Columns
          PROVE  \/ d \in visited \/ d \in Elements(P[i].deps)
                 \/ i < Depth + 1 /\ d = stack'[i + 1].column
      <4>1. CASE d \in visited
        BY <4>1
      <4>2. CASE d \in Elements(stack[i].deps)
        <5>1. d \in Elements(P[i].deps) \/ (i = Depth /\ d = name)
          BY <4>2
        <5>2. i < Depth + 1
          BY <1>1
        <5>3. QED
          BY <2>4, <5>1, <5>2
      <4>3. CASE i < Depth /\ d = stack[i + 1].column
        <5>1. i + 1 \in 1..Depth /\ i < Depth + 1
          BY <1>1, <4>3
        <5>2. stack'[i + 1].column = stack[i + 1].column
          BY <2>4, <5>1
        <5>3. QED
          BY <4>3, <5>1, <5>2
      <4>4. QED
        BY <1>4, <4>1, <4>2, <4>3 DEF DependenciesLeft
    <3>2. \A d \in Dependencies(stack'[Depth + 1].column) : d \in Elements(stack'[Depth + 1].deps)
      BY <2>1, <2>2, <2>3
    <3>3. ASSUME NEW i \in 1..(Depth + 1), NEW d \in Dependencies(stack'[i].column) \cap Columns
          PROVE  \/ d \in visited \/ d \in Elements(stack'[i].deps)
                 \/ i < Depth + 1 /\ d = stack'[i + 1].column
      <4>1. CASE i = Depth + 1
        BY <3>2, <3>3, <4>1
      <4>2. CASE i \in 1..Depth
        <5>1. stack'[i] = P[i] /\ Dependencies(stack'[i].column) = Dependencies(stack[i].column)
          BY <2>3, <2>4, <4>2
        <5>2. QED
          BY <3>1, <3>3, <4>2, <5>1
      <4>3. QED
        BY <1>1, <4>1, <4>2
    <3>4. QED
      BY <1>3, <2>3, <3>3 DEF DependenciesLeft
  <2>8. RootsLeft'
    <3>1. ASSUME NEW c \in Columns
          PROVE  c \in visited \/ c \in Elements(roots') \/ c = stack'[1].column
      <4>1. CASE c \in visited
        BY <4>1
      <4>2. CASE c \in Elements(roots)
        BY <2>4, <4>2
      <4>3. CASE Depth > 0 /\ c = stack[1].column
        BY <1>1, <2>4, <4>3
      <4>4. QED
        BY <1>4, <4>1, <4>2, <4>3 DEF RootsLeft
    <3>2. QED
      BY <1>1, <2>3, <3>1 DEF RootsLeft
  <2>9. VisitedAcyclic' /\ FoundIsReal'
    BY <1>6, VisitedAlone DEF Inv
  <2>10. QED
    BY <1>4, <1>6, <2>5, <2>6, <2>7, <2>8, <2>9 DEF Inv, NoneSkipped, AtEnd
<1>7. CASE pc' = "RecursionError" /\ UNCHANGED <<stack, visiting, found>>
  <2>1. PathInv'
    <3>1. PathInv /\ Depth' = Depth
      BY <1>7 DEF Inv, Depth
    <3>2. visiting' = {stack[i].column : i \in 1..Depth}'
      BY <1>7, <3>1 DEF PathInv
    <3>3. /\ (\A i, j \in 1..Depth : stack[i].column = stack[j].column => i = j)'
          /\ visiting' \cap visited' = {}
      BY <1>7, <3>1 DEF PathInv
    <3>4. (\A i \in 1..(Depth - 1) : stack[i + 1].column \in Dependencies(stack[i].column))'
      BY <1>3, <1>7, <3>1 DEF PathInv
    <3>5. (\A i \in 1..Depth : Elements(stack[i].deps) \subseteq Dependencies(stack[i].column))'
      BY <1>3, <1>7, <3>1 DEF PathInv
    <3>6. QED
      BY <3>2, <3>3, <3>4, <3>5 DEF PathInv
  <2>2. TypeOK'
    BY <1>7 DEF Inv, TypeOK
  <2>3. VisitedAcyclic' /\ FoundIsReal'
    BY <1>7, VisitedAlone DEF Inv
  <2>4. QED
    BY <1>7, <2>1, <2>2, <2>3 DEF Inv, NoneSkipped, AtEnd
<1>8. QED
  BY <1>5, <1>6, <1>7 DEF Enter

(* A column is marked when its dependencies are: marking it closes no cycle. *)
LEMMA MarkingKeepsAcyclic ==
  ASSUME VisitedAcyclic, VisitedClosed, ~found, visited \subseteq Columns,
         NEW column \in Columns, column \notin visited,
         Dependencies(column) \cap Columns \subseteq visited
  PROVE  \A S \in SUBSET (visited \cup {column}) : ~Cyclic(S)
<1> SUFFICES ASSUME NEW S \in SUBSET (visited \cup {column}), Cyclic(S) PROVE FALSE
  OBVIOUS
<1>1. CASE column \notin S
  BY <1>1 DEF VisitedAcyclic
<1>2. CASE column \in S
  <2> DEFINE T == S \ {column}
  <2>1. T \in SUBSET visited
    OBVIOUS
  <2>2. ASSUME NEW c \in S PROVE Dependencies(c) \cap T # {}
    <3>1. PICK d \in S : d \in Dependencies(c)
      BY DEF Cyclic
    <3>2. Dependencies(c) \cap Columns \subseteq visited
      BY DEF VisitedClosed
    <3>3. d \in visited
      BY <3>1, <3>2
    <3>4. QED
      BY <3>1, <3>3
  <2>3. Cyclic(T)
    BY <1>2, <2>2 DEF Cyclic
  <2>4. QED
    BY <2>1, <2>3 DEF VisitedAcyclic
<1>3. QED
  BY <1>1, <1>2

LEMMA InitInv == Init => Inv
<1> SUFFICES ASSUME Init PROVE Inv
  OBVIOUS
<1>1. Depth = 0
  BY DEF Init, Depth
<1>2. TypeOK
  <2>1. graph \in [Columns -> Seq(Columns \cup Missing)] /\ roots \in Seq(Columns)
    BY DependencyAssumption DEF Init
  <2>2. stack \in Seq(Frames)
    BY DEF Init
  <2>3. QED
    BY <2>1, <2>2 DEF Init, TypeOK
<1>3. PathInv
  BY <1>1 DEF Init, PathInv
<1>4. NoneSkipped
  BY <1>1, DependencyAssumption
  DEF Init, NoneSkipped, DependenciesLeft, RootsLeft, VisitedClosed
<1>5. VisitedAcyclic
  BY DEF Init, VisitedAcyclic, Cyclic
<1>6. QED
  BY <1>2, <1>3, <1>4, <1>5 DEF Init, Inv, FoundIsReal, AtEnd

LEMMA VisitRootKeepsInv == Inv /\ VisitRoot => Inv'
<1> SUFFICES ASSUME Inv, VisitRoot PROVE Inv'
  OBVIOUS
<1>1. /\ pc = "search" /\ ~found /\ stack = <<>> /\ roots # <<>> /\ roots' = Tail(roots)
      /\ Enter(Head(roots), <<>>) /\ UNCHANGED <<graph, visited, errors>>
  BY DEF VisitRoot
<1>2. Depth = 0 /\ <<>> \in Seq(Frames) /\ Len(<<>>) = 0
  BY <1>1 DEF Depth
<1>3. roots \in Seq(Columns)
  BY DEF Inv, TypeOK
<1>4. /\ Head(roots) \in Columns /\ Tail(roots) \in Seq(Columns)
      /\ \A c \in Elements(roots) : c = Head(roots) \/ c \in Elements(Tail(roots))
  BY <1>1, <1>3, ElementsOfTail
<1> DEFINE name == Head(roots)
           P == <<>>
<1>5. /\ name \in Columns \cup Missing
      /\ roots' \in Seq(Columns)
      /\ \A c \in Elements(roots) : c \in Elements(roots') \/ (Depth = 0 /\ c = name)
  BY <1>1, <1>2, <1>4
<1>6. /\ P \in Seq(Frames) /\ Len(P) = Depth /\ Depth = 0 /\ 1..Depth = {}
      /\ Enter(name, P) /\ ~(Depth > 0)
  BY <1>1, <1>2
<1> HIDE DEF name, P
<1>7. QED
  BY <1>1, <1>5, <1>6, EnterKeepsInv

LEMMA VisitDependencyKeepsInv == Inv /\ VisitDependency => Inv'
<1> SUFFICES ASSUME Inv, VisitDependency PROVE Inv'
  OBVIOUS
<1>1. /\ pc = "search" /\ ~found /\ stack # <<>> /\ Top.deps # <<>>
      /\ Enter(Head(Top.deps), Advanced) /\ UNCHANGED <<graph, visited, errors, roots>>
  BY DEF VisitDependency
<1> DEFINE name == Head(Top.deps)
           P == Advanced
<1>2. /\ Depth \in Nat \ {0} /\ P \in Seq(Frames) /\ Len(P) = Depth
      /\ \A i \in 1..Depth :
           /\ P[i].column = stack[i].column
           /\ Elements(P[i].deps) \subseteq Elements(stack[i].deps)
           /\ \A d \in Elements(stack[i].deps) :
                d \in Elements(P[i].deps) \/ (i = Depth /\ d = name)
      /\ name \in Elements(stack[Depth].deps)
      /\ name \in Columns \cup Missing
  BY <1>1, AdvancedFacts DEF Inv
<1>3. Enter(name, P)
  BY <1>1
<1> HIDE DEF name, P
<1>4. Depth > 0 => name \in Dependencies(stack[Depth].column)
  <2>1. Depth \in 1..Depth
    BY <1>2
  <2>2. QED
    BY <1>2, <2>1 DEF Inv, PathInv
<1>5. /\ roots' \in Seq(Columns)
      /\ \A c \in Elements(roots) : c \in Elements(roots') \/ (Depth = 0 /\ c = name)
  BY <1>1 DEF Inv, TypeOK
<1>6. QED
  BY <1>1, <1>2, <1>3, <1>4, <1>5, EnterKeepsInv

LEMMA LeaveVisitKeepsInv == Inv /\ LeaveVisit => Inv'
<1> SUFFICES ASSUME Inv, LeaveVisit PROVE Inv'
  OBVIOUS
<1>1. /\ stack # <<>> /\ pc = "search" /\ (found \/ Top.deps = <<>>)
      /\ stack' = SubSeq(stack, 1, Depth - 1)
      /\ UNCHANGED <<graph, roots, found, pc, errors>>
  BY DEF LeaveVisit, Depth
<1>2. /\ stack \in Seq(Frames) /\ Depth \in Nat \ {0}
  BY <1>1, EmptySeq, LenProperties DEF Inv, TypeOK, Depth
<1> DEFINE column == stack[Depth].column
<1>3. /\ stack[Depth] \in Frames /\ Top = stack[Depth]
  BY <1>2, ElementOfSeq DEF Depth, Top
<1>4. /\ column \in Columns /\ visiting' = visiting \ {column} /\ visited' = visited \cup {column}
  BY <1>3 DEF LeaveVisit, Frames
<1>5. /\ stack' \in Seq(Frames) /\ Depth' = Depth - 1
      /\ \A i \in 1..(Depth - 1) : stack'[i] = stack[i]
  <2>1. \A i \in 1..(Depth - 1) : stack[i] \in Frames
    BY <1>2, ElementOfSeq DEF Depth
  <2>2. /\ SubSeq(stack, 1, Depth - 1) \in Seq(Frames)
        /\ Len(SubSeq(stack, 1, Depth - 1)) = IF 1 <= Depth - 1 THEN (Depth - 1) - 1 + 1 ELSE 0
        /\ \A i \in 1..((Depth - 1) - 1 + 1) : SubSeq(stack, 1, Depth - 1)[i] = stack[1 + i - 1]
    BY <1>2, <2>1, SubSeqProperties
  <2>3. QED
    <3>1. (Depth - 1) - 1 + 1 = Depth - 1
      BY <1>2
    <3>2. Len(SubSeq(stack, 1, Depth - 1)) = Depth - 1
      BY <1>2, <2>2
    <3>3. ASSUME NEW i \in 1..(Depth - 1) PROVE SubSeq(stack, 1, Depth - 1)[i] = stack[i]
      <4>1. 1 + i - 1 = i
        OBVIOUS
      <4>2. QED
        BY <2>2, <3>1, <4>1
    <3>4. Depth' = Len(stack')
      BY DEF Depth
    <3>5. QED
      BY <1>1, <2>2, <3>2, <3>3, <3>4
<1>6. \A c : Dependencies(c)' = Dependencies(c)
  BY <1>1 DEF Dependencies
<1>7. Depth - 1 \in Nat /\ \A i \in 1..(Depth - 1) : i \in 1..Depth /\ i # Depth
  BY <1>2
<1>8. Depth \in 1..Depth
  BY <1>2
<1>9. column \in visiting /\ column \notin visited
  BY <1>8 DEF Inv, PathInv
<1> HIDE DEF column
<1>10. TypeOK'
  BY <1>1, <1>4, <1>5 DEF Inv, TypeOK
<1>11. PathInv'
  <2>1. ASSUME NEW i \in 1..(Depth - 1)
        PROVE  /\ stack'[i] = stack[i] /\ stack[i].column # column
               /\ stack[i].column \in visiting
    BY <1>5, <1>7, <1>8 DEF Inv, PathInv, column
  <2>2. visiting' = {stack[i].column : i \in 1..Depth}'
    <3>1. ASSUME NEW x \in visiting' PROVE \E i \in 1..(Depth - 1) : x = stack'[i].column
      <4>1. PICK i \in 1..Depth : x = stack[i].column
        BY <1>4 DEF Inv, PathInv
      <4>2. i # Depth
        BY <1>4, <4>1 DEF column
      <4>3. i \in 1..(Depth - 1)
        BY <1>2, <4>2
      <4>4. QED
        BY <2>1, <4>1, <4>3
    <3>2. ASSUME NEW i \in 1..(Depth - 1) PROVE stack'[i].column \in visiting'
      BY <1>4, <2>1
    <3>3. QED
      BY <1>5, <3>1, <3>2
  <2>3. \A i, j \in 1..(Depth - 1) : stack'[i].column = stack'[j].column => i = j
    BY <1>7, <2>1 DEF Inv, PathInv
  <2>4. visiting' \cap visited' = {}
    BY <1>4 DEF Inv, PathInv
  <2>5. ASSUME NEW i \in 1..((Depth - 1) - 1)
        PROVE  stack'[i + 1].column \in Dependencies(stack'[i].column)
    <3>1. i \in 1..(Depth - 1) /\ i + 1 \in 1..(Depth - 1)
      BY <1>2
    <3>2. stack'[i] = stack[i] /\ stack'[i + 1] = stack[i + 1]
      BY <1>5, <3>1
    <3>3. QED
      BY <3>1, <3>2 DEF Inv, PathInv
  <2>6. ASSUME NEW i \in 1..(Depth - 1)
        PROVE  Elements(stack'[i].deps) \subseteq Dependencies(stack'[i].column)
    BY <1>7, <2>1 DEF Inv, PathInv
  <2>7. QED
    BY <1>5, <1>6, <2>2, <2>3, <2>4, <2>5, <2>6 DEF PathInv
<1>12. ASSUME ~found PROVE Dependencies(column) \cap Columns \subseteq visited
  <2>1. Elements(stack[Depth].deps) = {}
    BY <1>1, <1>3, <1>12 DEF Elements
  <2>2. DependenciesLeft
    BY <1>1, <1>12 DEF Inv, NoneSkipped
  <2>3. ~(Depth < Depth)
    BY <1>2
  <2>4. QED
    BY <1>8, <2>1, <2>2, <2>3 DEF DependenciesLeft, column
<1>13. NoneSkipped'
  <2> SUFFICES ASSUME ~found PROVE DependenciesLeft' /\ RootsLeft' /\ VisitedClosed'
    BY <1>1 DEF NoneSkipped
  <2>1. DependenciesLeft /\ RootsLeft /\ VisitedClosed
    BY <1>1 DEF Inv, NoneSkipped
  <2>2. ASSUME NEW i \in 1..(Depth - 1), NEW d \in Dependencies(stack[i].column) \cap Columns
        PROVE  \/ d \in visited' \/ d \in Elements(stack[i].deps)
               \/ i < Depth - 1 /\ d = stack'[i + 1].column
    <3>1. CASE d \in visited \/ d \in Elements(stack[i].deps)
      BY <1>4, <3>1
    <3>2. CASE i + 1 = Depth /\ d = stack[i + 1].column
      BY <1>4, <3>2 DEF column
    <3>3. CASE i + 1 # Depth /\ d = stack[i + 1].column
      <4>1. i + 1 \in 1..(Depth - 1) /\ i < Depth - 1
        BY <1>2, <3>3
      <4>2. QED
        BY <1>5, <3>3, <4>1
    <3>4. QED
      BY <1>7, <2>1, <3>1, <3>2, <3>3 DEF DependenciesLeft
  <2>3. DependenciesLeft'
    <3>1. \A i \in 1..(Depth - 1) : Dependencies(stack'[i].column) = Dependencies(stack[i].column)
      BY <1>5
    <3>2. QED
      BY <1>5, <1>6, <2>2, <3>1 DEF DependenciesLeft
  <2>4. ASSUME NEW c \in Columns
        PROVE  \/ c \in visited' \/ c \in Elements(roots)
               \/ Depth - 1 > 0 /\ c = stack'[1].column
    <3>1. CASE c \in visited \/ c \in Elements(roots)
      BY <1>4, <3>1
    <3>2. CASE Depth = 1 /\ c = stack[1].column
      BY <1>4, <3>2 DEF column
    <3>3. CASE Depth # 1 /\ c = stack[1].column
      <4>1. 1 \in 1..(Depth - 1) /\ Depth - 1 > 0
        BY <1>2, <3>3
      <4>2. QED
        BY <1>5, <3>3, <4>1
    <3>4. QED
      BY <2>1, <3>1, <3>2, <3>3 DEF RootsLeft
  <2>5. RootsLeft'
    BY <1>1, <1>5, <2>4 DEF RootsLeft
  <2>6. VisitedClosed'
    BY <1>4, <1>6, <1>12, <2>1 DEF VisitedClosed
  <2>7. QED
    BY <2>3, <2>5, <2>6
<1>14. VisitedAcyclic'
  <2> SUFFICES ASSUME ~found PROVE \A S \in SUBSET (visited \cup {column}) : ~Cyclic(S)
    BY <1>1, <1>4, <1>6 DEF VisitedAcyclic, Cyclic
  <2>1. VisitedClosed /\ visited \subseteq Columns
    BY <1>1 DEF Inv, NoneSkipped, TypeOK
  <2>2. QED
    BY <1>4, <1>9, <1>12, <2>1, MarkingKeepsAcyclic DEF Inv
<1>15. FoundIsReal'
  BY <1>1, <1>6 DEF Inv, FoundIsReal, HasCycle, Cyclic
<1>16. QED
  BY <1>1, <1>10, <1>11, <1>13, <1>14, <1>15 DEF Inv, AtEnd

LEMMA AnswerKeepsInv == Inv /\ Answer => Inv'
<1> SUFFICES ASSUME Inv, Answer PROVE Inv'
  OBVIOUS
<1>1. /\ stack = <<>> /\ (found \/ roots = <<>>) /\ pc' = "done" /\ pc = "search"
      /\ errors' \in SUBSET {"missing", "llm", "cycle"}
      /\ UNCHANGED <<graph, roots, stack, visiting, visited, found>>
  BY DEF Answer
<1>2. \A c : Dependencies(c)' = Dependencies(c)
  BY <1>1 DEF Dependencies
<1>3. Depth = 0 /\ Depth' = 0
  BY <1>1 DEF Depth
<1>4. PathInv' /\ TypeOK'
  BY <1>1, <1>2, <1>3 DEF Inv, PathInv, TypeOK
<1>5. NoneSkipped'
  BY <1>1, <1>2, <1>3
  DEF Inv, NoneSkipped, DependenciesLeft, RootsLeft, VisitedClosed
<1>6. VisitedAcyclic' /\ FoundIsReal'
  BY <1>1, VisitedAlone DEF Inv
<1>7. QED
  BY <1>1, <1>3, <1>4, <1>5, <1>6 DEF Inv, AtEnd

(* The invariant of the search, for every table and every recursion limit. *)
THEOREM DependencyInvariance == Spec => []Inv
<1>1. Inv /\ [Next]_vars => Inv'
  <2> SUFFICES ASSUME Inv, [Next]_vars PROVE Inv'
    OBVIOUS
  <2>1. CASE UNCHANGED vars
    <3>1. UNCHANGED <<graph, roots, stack, visiting, visited, found, pc, errors>>
      BY <2>1 DEF vars
    <3>2. (\A c : Dependencies(c)' = Dependencies(c)) /\ Depth' = Depth
      BY <3>1 DEF Dependencies, Depth
    <3>3. TypeOK' /\ PathInv' /\ AtEnd'
      BY <3>1, <3>2 DEF Inv, TypeOK, PathInv, AtEnd
    <3>4. NoneSkipped'
      BY <3>1, <3>2
      DEF Inv, NoneSkipped, DependenciesLeft, RootsLeft, VisitedClosed
    <3>5. VisitedAcyclic' /\ FoundIsReal'
      BY <3>1, VisitedAlone DEF Inv
    <3>6. QED
      BY <3>3, <3>4, <3>5 DEF Inv
  <2>2. QED
    BY <2>1, VisitRootKeepsInv, VisitDependencyKeepsInv, LeaveVisitKeepsInv, AnswerKeepsInv
    DEF Next, Search
<1>2. QED
  BY InitInv, <1>1, PTL DEF Spec

(* The search answers True exactly for the dependencies with a cycle. *)
THEOREM CyclesAreDecided == Spec => []DecidesCycles
<1>1. Inv => DecidesCycles
  <2> SUFFICES ASSUME Inv, pc = "done" PROVE found <=> HasCycle
    BY DEF DecidesCycles
  <2>1. found => HasCycle
    BY DEF Inv, FoundIsReal
  <2>2. ASSUME ~found, NEW S \in SUBSET Columns, Cyclic(S) PROVE FALSE
    <3>1. Depth = 0 /\ Elements(roots) = {}
      BY <2>2 DEF Inv, AtEnd, Elements
    <3>2. Columns \subseteq visited
      BY <2>2, <3>1 DEF Inv, NoneSkipped, RootsLeft
    <3>3. QED
      BY <2>2, <3>2 DEF Inv, VisitedAcyclic
  <2>3. QED
    BY <2>1, <2>2 DEF HasCycle
<1>2. QED
  BY DependencyInvariance, <1>1, PTL

-----------------------------------------------------------------------------
(* The order in which the search leaves the columns is one in which they     *)
(* can be generated, as long as no cycle has been met.                       *)
Ordered(S) ==
  \E place \in [S -> 1..Cardinality(S)] :
    \A c \in S : \A d \in Dependencies(c) \cap Columns : d \in S /\ place[d] < place[c]

VisitedOrdered == ~found => Ordered(visited)

(* What an answer without errors says. *)
NothingMissing ==
  pc = "done" /\ errors = {} => ~found /\ \A c \in Columns : Dependencies(c) \subseteq Columns

OrderInv == VisitedOrdered /\ NothingMissing

(* There are no more columns than entries in the schema's list of them. *)
LEMMA FinitelyManyColumns ==
  /\ IsFiniteSet(Columns)
  /\ Cardinality(Columns) \in Nat /\ Len(ColumnOrder) \in Nat
  /\ Cardinality(Columns) <= Len(ColumnOrder)
<1>1. /\ ColumnOrder \in Seq(Columns) /\ Columns \subseteq Elements(ColumnOrder)
      /\ Len(ColumnOrder) \in Nat /\ DOMAIN ColumnOrder = 1..Len(ColumnOrder)
      /\ ColumnOrder \in [1..Len(ColumnOrder) -> Columns]
  BY DependencyAssumption, LenProperties
<1>2. ColumnOrder \in Surjection(1..Len(ColumnOrder), Columns)
  BY <1>1 DEF Surjection, Elements
<1>3. /\ IsFiniteSet(1..Len(ColumnOrder))
      /\ Cardinality(1..Len(ColumnOrder)) = Len(ColumnOrder)
  <2>1. /\ IsFiniteSet(1..Len(ColumnOrder))
        /\ Cardinality(1..Len(ColumnOrder))
             = IF 1 > Len(ColumnOrder) THEN 0 ELSE Len(ColumnOrder) - 1 + 1
    BY <1>1, FS_Interval
  <2>2. QED
    BY <1>1, <2>1
<1>4. IsFiniteSet(Columns) /\ Cardinality(Columns) <= Len(ColumnOrder)
  BY <1>2, <1>3, FS_Surjection
<1>5. QED
  BY <1>1, <1>4, FS_CardinalityType

(* A column whose dependencies all have a place can be placed after them.    *)
LEMMA PlacedLast ==
  ASSUME NEW S \in SUBSET Columns, Ordered(S), NEW column \in Columns, column \notin S,
         Dependencies(column) \cap Columns \subseteq S
  PROVE  Ordered(S \cup {column})
<1> DEFINE n == Cardinality(S)
           T == S \cup {column}
<1>1. IsFiniteSet(S) /\ n \in Nat
  BY FinitelyManyColumns, FS_Subset, FS_CardinalityType
<1>2. Cardinality(T) = n + 1
  BY <1>1, FS_AddElement
<1>3. PICK place \in [S -> 1..n] :
        \A c \in S : \A d \in Dependencies(c) \cap Columns : d \in S /\ place[d] < place[c]
  BY DEF Ordered
<1> HIDE DEF n
<1> DEFINE last == [c \in T |-> IF c = column THEN n + 1 ELSE place[c]]
<1>4. /\ \A c \in S : last[c] = place[c] /\ last[c] \in 1..n
      /\ last[column] = n + 1
  BY <1>3
<1>5. last \in [T -> 1..(n + 1)]
  <2>1. \A c \in T : (IF c = column THEN n + 1 ELSE place[c]) \in 1..(n + 1)
    BY <1>1, <1>3
  <2>2. QED
    BY <2>1
<1> HIDE DEF last
<1>6. ASSUME NEW c \in T, NEW d \in Dependencies(c) \cap Columns
      PROVE  d \in T /\ last[d] < last[c]
  <2>1. CASE c = column
    <3>1. d \in S
      BY <2>1, <1>6
    <3>2. QED
      BY <1>1, <1>4, <2>1, <3>1
  <2>2. CASE c \in S
    BY <1>3, <1>4, <1>6, <2>2
  <2>3. QED
    BY <1>6, <2>1, <2>2
<1>7. QED
  BY <1>2, <1>5, <1>6 DEF Ordered

LEMMA InitOrderInv == Init => OrderInv
<1> SUFFICES ASSUME Init PROVE OrderInv
  OBVIOUS
<1>1. visited = {} /\ pc = "search"
  BY DEF Init
<1>2. Ordered({})
  <2>1. [c \in {} |-> 0] \in [{} -> 1..Cardinality({})]
    OBVIOUS
  <2>2. QED
    BY <2>1 DEF Ordered
<1>3. QED
  BY <1>1, <1>2 DEF OrderInv, VisitedOrdered, NothingMissing

(* A step keeps the order of the visited columns, and an answer without      *)
(* errors has looked at all dependencies.                                    *)
LEMMA NextKeepsOrderInv == Inv /\ OrderInv /\ [Next]_vars => OrderInv'
<1> SUFFICES ASSUME Inv, OrderInv, [Next]_vars PROVE OrderInv'
  OBVIOUS
<1>1. graph' = graph /\ \A c : Dependencies(c)' = Dependencies(c)
  BY DEF Next, Search, VisitRoot, VisitDependency, LeaveVisit, Answer, vars, Dependencies
<1>2. \A S : Ordered(S)' = Ordered(S)
  BY <1>1 DEF Ordered
<1>3. ASSUME visited' = visited, found' = found \/ found' PROVE VisitedOrdered'
  BY <1>2, <1>3 DEF OrderInv, VisitedOrdered
<1>4. ASSUME pc = "search", pc' = pc \/ pc' = "RecursionError" PROVE NothingMissing'
  BY <1>4 DEF NothingMissing
<1>5. CASE VisitRoot \/ VisitDependency
  <2>1. /\ visited' = visited /\ (found' = found \/ found')
        /\ pc = "search" /\ (pc' = pc \/ pc' = "RecursionError")
    BY <1>5 DEF VisitRoot, VisitDependency, Enter
  <2>2. QED
    BY <2>1, <1>3, <1>4 DEF OrderInv
<1>6. CASE LeaveVisit
  <2>1. /\ pc = "search" /\ pc' = pc /\ found' = found
        /\ stack # <<>> /\ (found \/ Top.deps = <<>>)
        /\ visited' = visited \cup {Top.column}
    BY <1>6 DEF LeaveVisit
  <2>2. ASSUME ~found PROVE Ordered(visited \cup {Top.column})
    <3>1. /\ Depth \in 1..Depth /\ ~(Depth < Depth) /\ Top = stack[Depth]
          /\ stack[Depth] \in Frames
      BY <2>1, EmptySeq, LenProperties, ElementOfSeq DEF Inv, TypeOK, Depth, Top
    <3>2. Top.column \in Columns /\ Top.column \in visiting /\ visited \in SUBSET Columns
      BY <3>1 DEF Inv, PathInv, TypeOK, Frames
    <3>3. Dependencies(Top.column) \cap Columns \subseteq visited
      <4>1. Elements(stack[Depth].deps) = {} /\ DependenciesLeft
        BY <2>1, <2>2, <3>1 DEF Inv, NoneSkipped, Elements
      <4>2. QED
        BY <3>1, <4>1 DEF DependenciesLeft
    <3>4. Top.column \notin visited /\ Ordered(visited)
      BY <2>2, <3>2 DEF Inv, PathInv, OrderInv, VisitedOrdered
    <3>5. QED
      BY <3>2, <3>3, <3>4, PlacedLast
  <2>3. VisitedOrdered'
    BY <1>2, <2>1, <2>2 DEF VisitedOrdered
  <2>4. QED
    BY <1>4, <2>1, <2>3 DEF OrderInv
<1>7. CASE Answer
  <2>1. visited' = visited /\ found' = found
    BY <1>7 DEF Answer
  <2>2. NothingMissing'
    <3> SUFFICES ASSUME errors' = {}
                 PROVE  ~found' /\ \A c \in Columns : Dependencies(c)' \subseteq Columns
      BY DEF NothingMissing
    <3>1. "cycle" \notin errors' /\ "missing" \notin errors'
      OBVIOUS
    <3>2. ~found /\ \A c \in Columns : Dependencies(c) \subseteq Columns
      BY <1>7, <3>1 DEF Answer
    <3>3. QED
      BY <1>1, <2>1, <3>2
  <2>3. QED
    BY <1>3, <2>1, <2>2 DEF OrderInv
<1>8. CASE UNCHANGED vars
  <2>1. UNCHANGED <<visited, found, pc, errors>>
    BY <1>8 DEF vars
  <2>2. NothingMissing'
    BY <1>1, <2>1 DEF OrderInv, NothingMissing
  <2>3. QED
    BY <1>3, <2>1, <2>2 DEF OrderInv
<1>9. QED
  BY <1>5, <1>6, <1>7, <1>8 DEF Next, Search

(* A table that _validate_depends_on finds no error in can be generated,     *)
(* column by column: there is an order in which each column comes after      *)
(* those that it depends on, and it depends on columns of the table only.    *)
THEOREM AcceptedCanBeOrdered == Spec => []AcceptedIsOrderable
<1>1. Inv /\ OrderInv => AcceptedIsOrderable
  <2> SUFFICES ASSUME Inv, OrderInv, pc = "done", errors = {}
               PROVE  \E place \in [Columns -> 1 .. Len(ColumnOrder)] :
                        \A c \in Columns : \A d \in Dependencies(c) :
                          d \in Columns /\ place[d] < place[c]
    BY DEF AcceptedIsOrderable
  <2>1. ~found /\ \A c \in Columns : Dependencies(c) \subseteq Columns
    BY DEF OrderInv, NothingMissing
  <2>2. visited = Columns
    <3>1. Depth = 0 /\ Elements(roots) = {}
      BY <2>1 DEF Inv, AtEnd, Elements
    <3>2. RootsLeft
      BY <2>1 DEF Inv, NoneSkipped
    <3>3. Columns \subseteq visited
      BY <3>1, <3>2 DEF RootsLeft
    <3>4. visited \subseteq Columns
      BY DEF Inv, TypeOK
    <3>5. QED
      BY <3>3, <3>4
  <2>3. PICK place \in [Columns -> 1..Cardinality(Columns)] :
          \A c \in Columns : \A d \in Dependencies(c) \cap Columns : place[d] < place[c]
    BY <2>1, <2>2 DEF OrderInv, VisitedOrdered, Ordered
  <2>4. place \in [Columns -> 1..Len(ColumnOrder)]
    <3>1. 1..Cardinality(Columns) \subseteq 1..Len(ColumnOrder)
      BY FinitelyManyColumns
    <3>2. QED
      BY <3>1
  <2>5. QED
    BY <2>1, <2>3, <2>4
<1>2. Spec => []OrderInv
  BY DependencyInvariance, InitOrderInv, NextKeepsOrderInv, PTL DEF Spec
<1>3. QED
  BY DependencyInvariance, <1>1, <1>2, PTL

(* Every variable of the search keeps its type, also when the recursion      *)
(* limit ends it.                                                            *)
THEOREM TypeCorrect == Spec => []TypeOK
<1>1. Inv => TypeOK
  BY DEF Inv
<1>2. QED
  BY DependencyInvariance, <1>1, PTL
=============================================================================
