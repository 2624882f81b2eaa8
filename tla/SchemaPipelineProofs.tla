------------------------ MODULE SchemaPipelineProofs ------------------------
(***************************************************************************)
(* Theorems of SchemaPipeline for all documents, registries and planners:  *)
(* what is declared is kept, names stay unique although nothing validates  *)
(* the normalised copy, all collisions are reported, a schema that has     *)
(* grown never grows again, a normalised schema has every implied column,  *)
(* and one that was accepted is accepted again once normalised.            *)
(*                                                                         *)
(* The inductive invariant follows normalize_schema: the implied columns   *)
(* looked at are those of the columns asked (AskInv), the tables behind    *)
(* are grown or reported (CopyInv), and the schema held is the loaded one  *)
(* or its growth (HeldInv).  That a second growth is impossible rests on   *)
(* ImpliedNames being monotonic: a grown table implies what it has.        *)
(* Completeness needs to know where each column came from (SourceInv);     *)
(* lasting acceptance, that what acceptance promised of the loaded schema  *)
(* is kept when well-behaved columns are appended (AcceptInv).             *)
(***************************************************************************)
EXTENDS SchemaPipeline, SequenceTheorems, TLAPS

-----------------------------------------------------------------------------
(* Names in sequences. *)

LEMMA NamesInConcat ==
  ASSUME NEW S, NEW a \in Seq(S), NEW b \in Seq(S)
  PROVE  NamesIn(a \o b) = NamesIn(a) \cup NamesIn(b)
<1>1. /\ Len(a) \in Nat /\ Len(b) \in Nat
      /\ DOMAIN a = 1..Len(a) /\ DOMAIN b = 1..Len(b)
  BY LenProperties
<1>2. /\ DOMAIN (a \o b) = 1..(Len(a) + Len(b))
      /\ \A i \in 1..(Len(a) + Len(b)) :
           (a \o b)[i] = IF i <= Len(a) THEN a[i] ELSE b[i - Len(a)]
  BY ConcatProperties, LenProperties
<1>3. ASSUME NEW n \in NamesIn(a \o b) PROVE n \in NamesIn(a) \cup NamesIn(b)
  <2>1. PICK i \in 1..(Len(a) + Len(b)) : n = (a \o b)[i].name
    BY <1>2 DEF NamesIn
  <2>2. CASE i <= Len(a)
    BY <1>1, <1>2, <2>1, <2>2 DEF NamesIn
  <2>3. CASE i > Len(a)
    <3>1. i - Len(a) \in DOMAIN b /\ n = b[i - Len(a)].name
      BY <1>1, <1>2, <2>1, <2>3
    <3>2. QED
      BY <3>1 DEF NamesIn
  <2>4. QED
    BY <1>1, <2>1, <2>2, <2>3
<1>4. ASSUME NEW n \in NamesIn(a) PROVE n \in NamesIn(a \o b)
  <2>1. PICK i \in DOMAIN a : n = a[i].name
    BY DEF NamesIn
  <2>2. i \in DOMAIN (a \o b) /\ (a \o b)[i] = a[i]
    BY <1>1, <1>2, <2>1
  <2>3. QED
    BY <2>1, <2>2 DEF NamesIn
<1>5. ASSUME NEW n \in NamesIn(b) PROVE n \in NamesIn(a \o b)
  <2>1. PICK i \in DOMAIN b : n = b[i].name
    BY DEF NamesIn
  <2>2. Len(a) + i \in DOMAIN (a \o b) /\ (a \o b)[Len(a) + i] = b[i]
    BY <1>1, <1>2, <2>1
  <2>3. QED
    BY <2>1, <2>2 DEF NamesIn
<1>6. QED
  BY <1>3, <1>4, <1>5

LEMMA UniqueConcat ==
  ASSUME NEW S, NEW a \in Seq(S), NEW b \in Seq(S),
         Unique(a), Unique(b), NamesIn(a) \cap NamesIn(b) = {}
  PROVE  Unique(a \o b)
<1>1. /\ Len(a) \in Nat /\ Len(b) \in Nat
      /\ DOMAIN a = 1..Len(a) /\ DOMAIN b = 1..Len(b)
  BY LenProperties
<1>2. /\ DOMAIN (a \o b) = 1..(Len(a) + Len(b))
      /\ \A i \in 1..(Len(a) + Len(b)) :
           (a \o b)[i] = IF i <= Len(a) THEN a[i] ELSE b[i - Len(a)]
  BY ConcatProperties, LenProperties
<1>3. \A i \in DOMAIN (a \o b) :
        \/ i \in DOMAIN a /\ (a \o b)[i] = a[i]
        \/ i - Len(a) \in DOMAIN b /\ (a \o b)[i] = b[i - Len(a)]
  BY <1>1, <1>2
<1>4. \A i \in DOMAIN a, j \in DOMAIN b : a[i].name # b[j].name
  BY DEF NamesIn
<1>5. SUFFICES ASSUME NEW i \in DOMAIN (a \o b), NEW j \in DOMAIN (a \o b),
                      (a \o b)[i].name = (a \o b)[j].name
               PROVE  i = j
  BY DEF Unique
<1>6. i \in Int /\ j \in Int
  BY <1>1, <1>2
<1>7. CASE i \in DOMAIN a /\ (a \o b)[i] = a[i]
  BY <1>3, <1>4, <1>5, <1>7 DEF Unique
<1>8. CASE i - Len(a) \in DOMAIN b /\ (a \o b)[i] = b[i - Len(a)]
  <2>1. j - Len(a) \in DOMAIN b /\ (a \o b)[j] = b[j - Len(a)]
    BY <1>3, <1>4, <1>5, <1>8
  <2>2. i - Len(a) = j - Len(a)
    BY <1>5, <1>8, <2>1 DEF Unique
  <2>3. QED
    BY <1>1, <1>6, <2>2
<1>9. QED
  BY <1>3, <1>7, <1>8

LEMMA OneElement ==
  ASSUME NEW S, NEW x \in S
  PROVE  <<x>> \in Seq(S) /\ NamesIn(<<x>>) = {x.name} /\ Unique(<<x>>)
<1>1. <<x>> \in Seq(S) /\ DOMAIN <<x>> = {1} /\ <<x>>[1] = x
  OBVIOUS
<1>2. QED
  BY <1>1 DEF NamesIn, Unique

(* seen.setdefault: one more name at most, and never twice. *)
LEMMA KeepProperties ==
  ASSUME NEW S, NEW kept \in Seq(S), NEW spec \in S, Unique(kept)
  PROVE  /\ Keep(kept, spec) \in Seq(S)
         /\ Unique(Keep(kept, spec))
         /\ NamesIn(Keep(kept, spec)) = NamesIn(kept) \cup {spec.name}
<1>1. CASE spec.name \in NamesIn(kept)
  BY <1>1 DEF Keep
<1>2. CASE spec.name \notin NamesIn(kept)
  <2>1. Keep(kept, spec) = kept \o <<spec>>
    BY <1>2, AppendIsConcat DEF Keep
  <2>2. NamesIn(kept) \cap NamesIn(<<spec>>) = {}
    BY <1>2, OneElement
  <2>3. <<spec>> \in Seq(S) /\ Unique(<<spec>>) /\ NamesIn(<<spec>>) = {spec.name}
    BY OneElement
  <2>4. kept \o <<spec>> \in Seq(S)
    BY <2>3, ConcatProperties
  <2>5. Unique(kept \o <<spec>>)
    BY <2>2, <2>3, UniqueConcat
  <2> DEFINE one == <<spec>>
  <2>6. NamesIn(kept \o <<spec>>) = NamesIn(kept) \cup NamesIn(<<spec>>)
    <3>1. one \in Seq(S)
      BY <2>3
    <3> HIDE DEF one
    <3>2. NamesIn(kept \o one) = NamesIn(kept) \cup NamesIn(one)
      BY <3>1, NamesInConcat
    <3>3. QED
      BY <3>2 DEF one
  <2>7. QED
    BY <2>1, <2>3, <2>4, <2>5, <2>6
<1>3. QED
  BY <1>1, <1>2

LEMMA HeadAndTail ==
  ASSUME NEW S, NEW s \in Seq(S), s # <<>>
  PROVE  /\ Head(s) \in S /\ Tail(s) \in Seq(S)
         /\ NamesIn(s) = {Head(s).name} \cup NamesIn(Tail(s))
<1>1. /\ Head(s) \in S /\ Tail(s) \in Seq(S) /\ Head(s) = s[1]
      /\ Len(s) \in Nat \ {0} /\ Len(Tail(s)) = Len(s) - 1
      /\ \A i \in 1 .. Len(Tail(s)) : Tail(s)[i] = s[i + 1]
  BY HeadTailProperties, EmptySeq
<1>2. <<Head(s)>> \in Seq(S) /\ Len(<<Head(s)>>) = 1 /\ <<Head(s)>>[1] = Head(s)
  BY <1>1
<1>3. s = <<Head(s)>> \o Tail(s)
  <2> DEFINE t == <<Head(s)>> \o Tail(s)
  <2>1. /\ t \in Seq(S) /\ Len(t) = Len(s)
        /\ \A i \in 1 .. Len(s) : t[i] = IF i <= 1 THEN Head(s) ELSE Tail(s)[i - 1]
    BY <1>1, <1>2, ConcatProperties
  <2>2. \A i \in 1 .. Len(s) : t[i] = s[i]
    BY <1>1, <2>1
  <2> HIDE DEF t
  <2>3. t = s
    BY <2>1, <2>2, SeqEqual
  <2>4. QED
    BY <2>3 DEF t
<1>4. NamesIn(s) = NamesIn(<<Head(s)>>) \cup NamesIn(Tail(s))
  <2> DEFINE one  == <<Head(s)>>
             rest == Tail(s)
  <2>1. one \in Seq(S) /\ rest \in Seq(S) /\ s = one \o rest
    BY <1>1, <1>2, <1>3
  <2> HIDE DEF one, rest
  <2>2. NamesIn(one \o rest) = NamesIn(one) \cup NamesIn(rest)
    BY <2>1, NamesInConcat
  <2>3. NamesIn(s) = NamesIn(one) \cup NamesIn(rest)
    BY <2>1, <2>2
  <2>4. QED
    BY <2>3 DEF one, rest
<1>5. QED
  BY <1>1, <1>4, OneElement

LEMMA NoNames == NamesIn(<<>>) = {} /\ Unique(<<>>)
BY DEF NamesIn, Unique

LEMMA NamesInNone ==
  ASSUME NEW S, NEW s \in Seq(S), NamesIn(s) = {}
  PROVE  s = <<>>
<1>1. ASSUME s # <<>> PROVE FALSE
  <2>1. NamesIn(s) = {Head(s).name} \cup NamesIn(Tail(s))
    BY <1>1, HeadAndTail
  <2>2. QED
    BY <2>1
<1>2. QED
  BY <1>1

-----------------------------------------------------------------------------
(* What a context implies: Implied and ImpliedNames of any context c. *)

ImpliedBy(c, spec) == IF spec.type \in DOMAIN c.implied THEN c.implied[spec.type] ELSE <<>>

NamesByFirst(c, columns, k) == UNION {NamesIn(ImpliedBy(c, columns[i])) : i \in 1..k}

NamesByAll(c, columns) == UNION {NamesIn(ImpliedBy(c, columns[i])) : i \in DOMAIN columns}

NamesImplied(c, table) == NamesByAll(c, table.columns) \cup NamesIn(c.planned[table.relation])

LEMMA ImpliedName ==
  ASSUME NEW c, NEW table, NEW n
  PROVE  n \in NamesImplied(c, table) <=>
           \/ \E i \in DOMAIN table.columns : n \in NamesIn(ImpliedBy(c, table.columns[i]))
           \/ n \in NamesIn(c.planned[table.relation])
<1> DEFINE by(i) == NamesIn(ImpliedBy(c, table.columns[i]))
           D == DOMAIN table.columns
<1>1. NamesByAll(c, table.columns) = UNION {by(i) : i \in D}
  BY DEF NamesByAll
<1> HIDE DEF by, D
<1>2. n \in UNION {by(i) : i \in D} <=> \E i \in D : n \in by(i)
  OBVIOUS
<1>3. n \in NamesByAll(c, table.columns) <=> \E i \in D : n \in by(i)
  BY <1>1, <1>2
<1>4. n \in NamesImplied(c, table) <=>
        n \in NamesByAll(c, table.columns) \/ n \in NamesIn(c.planned[table.relation])
  BY DEF NamesImplied
<1>5. QED
  BY <1>3, <1>4 DEF by, D

LEMMA ContextTypes ==
  ASSUME NEW c \in Contexts
  PROVE  /\ \A spec : ImpliedBy(c, spec) \in Seq(ColumnSpecs)
         /\ \A table \in TableSpecs : c.planned[table.relation] \in Seq(ColumnSpecs)
<1>1. /\ c.implied \in [DOMAIN c.implied -> Seq(ColumnSpecs)]
      /\ c.planned \in [Relations -> Seq(ColumnSpecs)]
  BY PipelineAssumption
<1>2. \A spec : ImpliedBy(c, spec) \in Seq(ColumnSpecs)
  BY <1>1, EmptySeq DEF ImpliedBy
<1>3. \A table \in TableSpecs : table.relation \in Relations
  BY DEF TableSpecs
<1>4. QED
  BY <1>1, <1>2, <1>3

LEMMA ImpliedNamesAre ==
  ASSUME NEW table
  PROVE  ImpliedNames(table) = NamesImplied(ctx, table)
<1>1. \A spec : Implied(spec) = ImpliedBy(ctx, spec)
  BY DEF Implied, ImpliedBy, Registered
<1>2. SUFFICES ASSUME NEW n
               PROVE  n \in ImpliedNames(table) <=> n \in NamesImplied(ctx, table)
  OBVIOUS
<1>3. n \in ImpliedNames(table) <=>
        \E spec \in ByGenerators(table) \cup ByPlanner(table) : n = spec.name
  BY DEF ImpliedNames
<1>4. ASSUME NEW s
      PROVE  n \in NamesIn(s) <=> \E spec \in Elements(s) : n = spec.name
  BY DEF NamesIn, Elements
<1>5. \A spec : spec \in ByGenerators(table) <=>
        \E i \in DOMAIN table.columns : spec \in Elements(ImpliedBy(ctx, table.columns[i]))
  <2>1. \A spec : spec \in ByGenerators(table) <=>
          \E e \in Elements(table.columns) : spec \in Elements(Implied(e))
    BY DEF ByGenerators
  <2>2. \A e : e \in Elements(table.columns) <=> \E i \in DOMAIN table.columns : e = table.columns[i]
    BY DEF Elements
  <2>3. QED
    BY <1>1, <2>1, <2>2
<1>6. n \in ImpliedNames(table) <=>
        \/ \E i \in DOMAIN table.columns : n \in NamesIn(ImpliedBy(ctx, table.columns[i]))
        \/ n \in NamesIn(ctx.planned[table.relation])
  BY <1>3, <1>4, <1>5 DEF ByPlanner
<1>7. QED
  BY <1>6, ImpliedName

(* A table that has more columns implies more. *)
LEMMA MoreColumnsImplyMore ==
  ASSUME NEW c \in Contexts, NEW old \in TableSpecs, NEW s \in Seq(ColumnSpecs)
  PROVE  NamesImplied(c, old) \subseteq NamesImplied(c, Grown(old, s))
<1> DEFINE new == Grown(old, s)
<1>1. old.columns \in Seq(ColumnSpecs)
  BY DEF TableSpecs
<1>2. new.columns = old.columns \o s /\ new.relation = old.relation
  BY DEF Grown, TableSpecs
<1>3. \A i \in DOMAIN old.columns : i \in DOMAIN new.columns /\ new.columns[i] = old.columns[i]
  <2>1. /\ Len(old.columns) \in Nat /\ Len(s) \in Nat
        /\ DOMAIN old.columns = 1..Len(old.columns)
    BY <1>1, LenProperties
  <2>2. /\ DOMAIN (old.columns \o s) = 1..(Len(old.columns) + Len(s))
        /\ \A i \in 1..(Len(old.columns) + Len(s)) :
             (old.columns \o s)[i] = IF i <= Len(old.columns) THEN old.columns[i]
                                     ELSE s[i - Len(old.columns)]
    BY <1>1, ConcatProperties, LenProperties
  <2>3. QED
    BY <1>2, <2>1, <2>2
<1> HIDE DEF new
<1>4. ASSUME NEW n \in NamesImplied(c, old) PROVE n \in NamesImplied(c, new)
  <2>1. CASE \E i \in DOMAIN old.columns : n \in NamesIn(ImpliedBy(c, old.columns[i]))
    BY <1>3, <2>1, ImpliedName
  <2>2. CASE n \in NamesIn(c.planned[old.relation])
    BY <1>2, <2>2, ImpliedName
  <2>3. QED
    BY <1>4, <2>1, <2>2, ImpliedName
<1>5. QED
  BY <1>4 DEF new

(* What normalize_schema makes of a table that does not collide. *)
GrowthOf(c, old, s) ==
  /\ s \in Seq(ColumnSpecs)
  /\ Unique(s)
  /\ NamesIn(s) = NamesImplied(c, old)
  /\ NamesIn(s) \cap NamesIn(old.columns) = {}

GrownFrom(c, old, new) == \E s \in Seq(ColumnSpecs) : GrowthOf(c, old, s) /\ new = Grown(old, s)

Colliding(c, table) == NamesIn(table.columns) \cap NamesImplied(c, table) # {}

LEMMA GrownTable ==
  ASSUME NEW old \in TableSpecs, NEW s \in Seq(ColumnSpecs)
  PROVE  /\ Grown(old, s) \in TableSpecs
         /\ Grown(old, s).columns = old.columns \o s
         /\ Grown(old, s).name = old.name
         /\ old.columns \in Seq(ColumnSpecs)
<1>1. old.columns \in Seq(ColumnSpecs)
  BY DEF TableSpecs
<1>2. old.columns \o s \in Seq(ColumnSpecs)
  BY <1>1, ConcatProperties
<1>3. QED
  BY <1>1, <1>2 DEF Grown, TableSpecs

(* A table that has grown collides with what it implies. *)
LEMMA GrownCollides ==
  ASSUME NEW c \in Contexts, NEW old \in TableSpecs, NEW new, GrownFrom(c, old, new), ~Colliding(c, new)
  PROVE  new = old
<1>1. PICK s \in Seq(ColumnSpecs) : GrowthOf(c, old, s) /\ new = Grown(old, s)
  BY DEF GrownFrom
<1>2. NamesIn(s) \subseteq NamesImplied(c, new)
  BY <1>1, MoreColumnsImplyMore DEF GrowthOf
<1>3. NamesIn(s) \subseteq NamesIn(new.columns)
  <2>1. new.columns = old.columns \o s /\ old.columns \in Seq(ColumnSpecs)
    BY <1>1, GrownTable
  <2>2. NamesIn(old.columns \o s) = NamesIn(old.columns) \cup NamesIn(s)
    BY <2>1, NamesInConcat
  <2>3. QED
    BY <2>1, <2>2
<1>4. NamesIn(s) = {}
  BY <1>2, <1>3 DEF Colliding
<1>5. s = <<>>
  BY <1>4, NamesInNone
<1>6. old.columns \o <<>> = old.columns
  BY GrownTable, ConcatEmptySeq
<1>7. new = [old EXCEPT !.columns = old.columns]
  BY <1>1, <1>5, <1>6 DEF Grown
<1>8. [old EXCEPT !.columns = old.columns] = old
  BY DEF TableSpecs
<1>9. QED
  BY <1>7, <1>8

(* A table that has grown keeps what is declared, and has no name twice. *)
LEMMA GrownKeeps ==
  ASSUME NEW c \in Contexts, NEW old \in TableSpecs, NEW new, GrownFrom(c, old, new)
  PROVE  /\ new \in TableSpecs
         /\ new.name = old.name
         /\ new = [old EXCEPT !.columns = new.columns]
         /\ Len(old.columns) <= Len(new.columns)
         /\ SubSeq(new.columns, 1, Len(old.columns)) = old.columns
         /\ Unique(old.columns) => Unique(new.columns)
<1>1. PICK s \in Seq(ColumnSpecs) : GrowthOf(c, old, s) /\ new = Grown(old, s)
  BY DEF GrownFrom
<1>2. /\ new \in TableSpecs /\ new.columns = old.columns \o s /\ new.name = old.name
      /\ old.columns \in Seq(ColumnSpecs)
  BY <1>1, GrownTable
<1>3. new = [old EXCEPT !.columns = new.columns]
  BY <1>1, <1>2 DEF Grown
<1>4. Len(old.columns) <= Len(new.columns)
  BY <1>2, ConcatProperties, LenProperties
<1>5. SubSeq(new.columns, 1, Len(old.columns)) = old.columns
  <2> DEFINE o == old.columns
             d == new.columns
             sub == SubSeq(d, 1, Len(o))
  <2>1. o \in Seq(ColumnSpecs) /\ d = o \o s /\ d \in Seq(ColumnSpecs)
    BY <1>2, ConcatProperties
  <2>2. Len(o) \in Nat /\ Len(s) \in Nat /\ Len(d) = Len(o) + Len(s)
    BY <2>1, LenProperties, ConcatProperties
  <2>3. \A i \in 1..Len(o) : d[i] = o[i]
    BY <2>1, <2>2, ConcatProperties
  <2> HIDE DEF o, d
  <2>4. \A i \in 1..Len(o) : i \in 1..Len(d)
    BY <2>2
  <2>5. \A i \in 1..Len(o) : d[i] \in ColumnSpecs
    BY <2>1, <2>4, ElementOfSeq
  <2>6. sub \in Seq(ColumnSpecs) /\ Len(sub) = Len(o) /\ \A i \in 1..Len(o) : sub[i] = d[i]
    BY <2>1, <2>2, <2>5, SubSeqProperties
  <2> HIDE DEF sub
  <2>7. sub = o
    BY <2>1, <2>3, <2>6, SeqEqual
  <2>8. QED
    BY <2>7 DEF sub, o, d
<1>6. ASSUME Unique(old.columns) PROVE Unique(new.columns)
  BY <1>1, <1>2, <1>6, UniqueConcat DEF GrowthOf
<1>7. QED
  BY <1>2, <1>3, <1>4, <1>5, <1>6

(* The columns asked so far, one more, and all. *)
LEMMA NamesByOneMore ==
  ASSUME NEW c, NEW columns, NEW k \in Nat \ {0}
  PROVE  NamesByFirst(c, columns, k) = NamesByFirst(c, columns, k - 1) \cup NamesIn(ImpliedBy(c, columns[k]))
<1> DEFINE by(i) == NamesIn(ImpliedBy(c, columns[i]))
<1>1. \A m : NamesByFirst(c, columns, m) = UNION {by(i) : i \in 1..m}
  BY DEF NamesByFirst
<1> HIDE DEF by
<1>2. 1..k = (1..(k - 1)) \cup {k}
  OBVIOUS
<1> DEFINE U(m) == UNION {by(i) : i \in 1..m}
<1>3. ASSUME NEW n, NEW m
      PROVE  n \in U(m) <=> \E i \in 1..m : n \in by(i)
  OBVIOUS
<1> HIDE DEF U
<1>4. U(k) = U(k - 1) \cup by(k)
  <2>1. ASSUME NEW n
        PROVE  n \in U(k) <=> n \in U(k - 1) \/ n \in by(k)
    <3>1. (\E i \in 1..k : n \in by(i)) <=> (\E i \in 1..(k - 1) : n \in by(i)) \/ n \in by(k)
      BY <1>2
    <3>2. QED
      BY <1>3, <3>1
  <2>2. QED
    BY <2>1
<1>5. NamesByFirst(c, columns, k) = NamesByFirst(c, columns, k - 1) \cup by(k)
  BY <1>1, <1>4 DEF U
<1>6. QED
  BY <1>5 DEF by

LEMMA NamesByNone ==
  ASSUME NEW c, NEW columns
  PROVE  NamesByFirst(c, columns, 0) = {}
<1>1. 1..0 = {}
  OBVIOUS
<1>2. QED
  BY <1>1 DEF NamesByFirst

LEMMA NamesByEvery ==
  ASSUME NEW c, NEW columns \in Seq(ColumnSpecs)
  PROVE  NamesByAll(c, columns) = NamesByFirst(c, columns, Len(columns))
<1>1. DOMAIN columns = 1..Len(columns)
  BY LenProperties
<1>2. QED
  BY <1>1 DEF NamesByAll, NamesByFirst

-----------------------------------------------------------------------------
(* What load_schema lets through, and the type of what is reported. *)

LEMMA LoadedIsUnique ==
  ASSUME document \in Documents, LoadErrors = {}
  PROVE  /\ Unique(document.tables)
         /\ \A t \in DOMAIN document.tables : Unique(document.tables[t].columns)
<1>1. StructureErrors(document) = {}
  BY DEF LoadErrors
<1>2. \A rules \in SUBSET (1..5) : First(rules) = {} => rules = {}
  <2>1. SUFFICES ASSUME NEW rules \in SUBSET (1..5), First(rules) = {} PROVE rules = {}
    OBVIOUS
  <2>2. \A r \in rules : \E q \in rules : ~(r <= q)
    BY <2>1 DEF First
  <2>3. 1 \notin rules /\ 2 \notin rules /\ 3 \notin rules /\ 4 \notin rules /\ 5 \notin rules
    BY <2>2
  <2>4. QED
    BY <2>3
<1>3. DOMAIN TableRules = 1..5 /\ TableRules[4] = "duplicates"
  BY DEF TableRules
<1>4. DOMAIN SchemaRules = 1..2 /\ SchemaRules[1] = "names"
  BY DEF SchemaRules
<1> DEFINE ofTables == UNION {TableErrors(t, First(BrokenRules(document.tables[t]))) :
                              t \in DOMAIN document.tables}
<1>5. ofTables = {} /\ SchemaErrors(First(BrokenSchemaRules(document))) = {}
  BY <1>1 DEF StructureErrors
<1>6. ASSUME NEW t \in DOMAIN document.tables
      PROVE  Unique(document.tables[t].columns)
  <2>1. TableErrors(t, First(BrokenRules(document.tables[t]))) = {}
    BY <1>5
  <2>2. First(BrokenRules(document.tables[t])) = {}
    BY <2>1 DEF TableErrors
  <2>3. BrokenRules(document.tables[t]) = {}
    <3>1. BrokenRules(document.tables[t]) \in SUBSET (1..5)
      BY <1>3 DEF BrokenRules
    <3>2. QED
      BY <1>2, <2>2, <3>1
  <2>4. ~TableBreaks(document.tables[t], "duplicates")
    BY <1>3, <2>3 DEF BrokenRules
  <2>5. QED
    BY <2>4 DEF TableBreaks
<1>7. Unique(document.tables)
  <2>1. First(BrokenSchemaRules(document)) = {}
    BY <1>5 DEF SchemaErrors
  <2>2. BrokenSchemaRules(document) = {}
    <3>1. BrokenSchemaRules(document) \in SUBSET (1..5)
      BY <1>4 DEF BrokenSchemaRules
    <3>2. QED
      BY <1>2, <2>1, <3>1
  <2>3. ~SchemaBreaks(document, "names")
    BY <1>4, <2>2 DEF BrokenSchemaRules
  <2>4. QED
    BY <2>3 DEF SchemaBreaks
<1>8. QED
  BY <1>6, <1>7

Placed(errors) == \A e \in errors : e.table \in Nat /\ e.column \in Nat

LEMMA LoadErrorsPlaced ==
  ASSUME document \in Documents
  PROVE  Placed(LoadErrors)
<1>1. document.tables \in Seq(TableSpecs)
  BY PipelineAssumption DEF Schemas
<1>2. \A t \in DOMAIN document.tables : t \in Nat
  BY <1>1, LenProperties
<1>3. Placed(LimitErrors(document))
  BY <1>2 DEF LimitErrors, Error, Placed
<1>4. \A rules : \A t \in DOMAIN document.tables : Placed(TableErrors(t, rules))
  BY <1>2 DEF TableErrors, Error, Placed
<1>5. \A rules : Placed(SchemaErrors(rules))
  BY DEF SchemaErrors, Error, Placed
<1>6. Placed(StructureErrors(document))
  BY <1>4, <1>5 DEF StructureErrors, Placed
<1>7. QED
  BY <1>3, <1>6 DEF LoadErrors

LEMMA RegistryErrorsPlaced ==
  ASSUME NEW ts \in Seq(TableSpecs)
  PROVE  Placed(RegistryErrors(ts))
<1>1. \A t \in DOMAIN ts : t \in Nat /\ \A i \in DOMAIN ts[t].columns : i \in Nat
  <2>1. \A t \in DOMAIN ts : t \in Nat /\ ts[t] \in TableSpecs
    BY LenProperties, ElementOfSeq
  <2>2. \A table \in TableSpecs : \A i \in DOMAIN table.columns : i \in Nat
    BY LenProperties DEF TableSpecs
  <2>3. QED
    BY <2>1, <2>2
<1>2. ASSUME NEW t \in DOMAIN ts
      PROVE  Placed(ColumnReports(ts[t].columns, t)) /\ Placed(CycleReports(ts[t].columns, t))
  <2> DEFINE columns == ts[t].columns
  <2>1. t \in Nat /\ \A i \in DOMAIN columns : i \in Nat
    BY <1>1
  <2> HIDE DEF columns
  <2>2. \A i \in DOMAIN columns : Placed({Error(t, i, kind) : kind \in ColumnErrors(columns, i)})
    BY <2>1 DEF Error, Placed
  <2>3. Placed(ColumnReports(columns, t))
    BY <2>2 DEF ColumnReports, Placed
  <2>4. Placed(CycleReports(columns, t))
    BY <2>1 DEF CycleReports, Error, Placed
  <2>5. QED
    BY <2>3, <2>4 DEF columns
<1>3. QED
  BY <1>2 DEF Placed, RegistryErrors

-----------------------------------------------------------------------------
(* The inductive invariant. *)

(* A schema has tables only once layers 1 and 2 found nothing. *)
LoadedInv == tables # <<>> => LoadErrors = {}

Growths(c, olds, news) ==
  /\ Len(news) = Len(olds)
  /\ \A t \in 1..Len(olds) : GrownFrom(c, olds[t], news[t])

(* The schema held is the one loaded, or its growth. *)
HeldInv ==
  tables # <<>> =>
    \/ tables = document.tables
    \/ ctx \in Contexts /\ Growths(ctx, document.tables, tables)

CollisionsOf(c, ts, k) == {Error(t, 0, "collision") : t \in {u \in 1..k : Colliding(c, ts[u])}}

(* The tables behind are grown, or those that collide are reported. *)
CopyInv ==
  pc # "idle" =>
    /\ ctx \in Contexts
    /\ tables # <<>>
    /\ outcome = "none"
    /\ reported = CollisionsOf(ctx, tables, index - 1)
    /\ reported = {} =>
         /\ Len(normalized) = index - 1
         /\ \A t \in 1..(index - 1) : GrownFrom(ctx, tables[t], normalized[t])

(* What is to be looked at and what is kept are the names implied so far.  *)
AskInv ==
  /\ Unique(seen)
  /\ pc = "generators" => seen = <<>>
  /\ pc = "generators" /\ index <= Len(tables) =>
       /\ column <= Len(tables[index].columns) + 1
       /\ NamesIn(combined) = NamesByFirst(ctx, tables[index].columns, column - 1)
  /\ pc = "dedup" =>
       /\ index <= Len(tables)
       /\ NamesIn(seen) \cup NamesIn(combined) = NamesImplied(ctx, tables[index])

(* A schema that was refused was refused for all its collisions. *)
RefusedInv ==
  pc = "idle" /\ outcome = "SchemaError" /\ tables # <<>> =>
    ctx \in Contexts /\ reported = CollisionsOf(ctx, tables, Len(tables))

Inv == TypeOK /\ LoadedInv /\ HeldInv /\ CopyInv /\ AskInv /\ RefusedInv

LEMMA InitInv == Init => Inv
<1> SUFFICES ASSUME Init PROVE Inv
  OBVIOUS
<1> USE DEF Init
<1>1. TypeOK
  <2>1. tables \in Seq(TableSpecs) /\ normalized \in Seq(TableSpecs) /\ index \in 1 .. Len(tables) + 1
    BY EmptySeq
  <2>2. combined \in Seq(ColumnSpecs) /\ seen \in Seq(ColumnSpecs)
    BY EmptySeq
  <2>3. accepted \in BOOLEAN
    OBVIOUS
  <2>4. ctx \in Contexts \cup {NoContext} /\ document \in Documents
    OBVIOUS
  <2>5. outcome \in {"none", "ok", "report", "SchemaError"} /\ pc \in {"idle", "generators", "dedup"}
    OBVIOUS
  <2>6. column \in Nat \ {0}
    OBVIOUS
  <2>7. \A e \in reported : e.table \in Nat /\ e.column \in Nat
    OBVIOUS
  <2> HIDE DEF Init
  <2>8. QED
    BY <2>1, <2>2, <2>3, <2>4, <2>5, <2>6, <2>7 DEF TypeOK
<1>2. AskInv
  BY NoNames DEF AskInv, Unique
<1>3. LoadedInv /\ HeldInv /\ CopyInv /\ RefusedInv
  BY DEF LoadedInv, HeldInv, CopyInv, RefusedInv
<1>4. QED
  BY <1>1, <1>2, <1>3 DEF Inv

LEMMA Documented ==
  ASSUME document \in Documents
  PROVE  /\ document.tables \in Seq(TableSpecs) /\ document.tables # <<>>
         /\ Len(document.tables) \in Nat \ {0}
BY PipelineAssumption, EmptySeq DEF Schemas

(* The calls that leave the loop alone. *)
LEMMA CallStep ==
  ASSUME Inv, LoadSchema \/ Validate \/ NormalizeWithoutContext
  PROVE  Inv'
<1> USE DEF Inv, call, loop
<1>1. CASE LoadSchema
  <2> USE <1>1 DEF LoadSchema
  <2>1. document \in Documents /\ document' = document /\ LoadErrors' = LoadErrors
    BY DEF TypeOK, LoadErrors
  <2>2. TypeOK'
    <3>1. /\ tables' \in Seq(TableSpecs)
          /\ index' \in 1 .. Len(tables') + 1
      <4>1. index = 1 /\ index' = index
        BY EmptySeq DEF TypeOK
      <4>2. CASE LoadErrors = {}
        BY <2>1, <4>1, <4>2, Documented
      <4>3. CASE LoadErrors # {}
        BY <4>1, <4>3 DEF TypeOK
      <4>4. QED
        BY <4>2, <4>3
    <3>2. \A e \in reported' : e.table \in Nat /\ e.column \in Nat
      BY <2>1, LoadErrorsPlaced DEF Placed
    <3>3. QED
      BY <2>1, <3>1, <3>2 DEF TypeOK
  <2>3. LoadedInv'
    BY <2>1 DEF LoadedInv
  <2>4. HeldInv'
    BY DEF HeldInv
  <2>5. CopyInv'
    BY DEF CopyInv
  <2>6. AskInv'
    BY DEF AskInv
  <2>7. RefusedInv'
    BY DEF RefusedInv
  <2>8. QED
    BY <2>2, <2>3, <2>4, <2>5, <2>6, <2>7
<1>2. CASE Validate \/ NormalizeWithoutContext
  <2>1. /\ pc = "idle" /\ outcome' \in {"ok", "report"}
        /\ UNCHANGED <<ctx, document, tables, pc, index, column, combined, seen, normalized>>
    BY <1>2 DEF Validate, NormalizeWithoutContext
  <2>2. TypeOK'
    <3>1. \A e \in reported' : e.table \in Nat /\ e.column \in Nat
      <4>1. Placed(RegistryErrors(tables))
        BY RegistryErrorsPlaced DEF TypeOK
      <4>2. \A ofPlanner \in SUBSET {Error(0, 0, "planner")} : Placed(ofPlanner)
        BY DEF Placed, Error
      <4>3. CASE Validate
        BY <4>1, <4>2, <4>3 DEF Validate, Placed
      <4>4. CASE NormalizeWithoutContext
        BY <4>4 DEF NormalizeWithoutContext
      <4>5. QED
        BY <1>2, <4>3, <4>4
    <3>2. accepted' \in BOOLEAN
      BY <1>2 DEF Validate, NormalizeWithoutContext, TypeOK
    <3>3. QED
      BY <2>1, <3>1, <3>2 DEF TypeOK
  <2>3. LoadErrors' = LoadErrors
    BY <2>1 DEF LoadErrors
  <2>4. LoadedInv' /\ HeldInv'
    BY <2>1, <2>3 DEF LoadedInv, HeldInv
  <2>5. CopyInv' /\ AskInv' /\ RefusedInv'
    BY <2>1 DEF CopyInv, AskInv, RefusedInv
  <2>6. QED
    BY <2>2, <2>4, <2>5
<1>3. QED
  BY <1>1, <1>2

LEMMA NoCollisions ==
  ASSUME NEW c, NEW ts
  PROVE  CollisionsOf(c, ts, 0) = {}
<1>1. 1..0 = {}
  OBVIOUS
<1>2. QED
  BY <1>1 DEF CollisionsOf

LEMMA CallNormalizeStep ==
  ASSUME Inv, CallNormalize
  PROVE  Inv'
<1> USE DEF Inv, CallNormalize
<1>1. ctx \in Contexts /\ tables \in Seq(TableSpecs) /\ Len(tables) \in Nat
  BY LenProperties DEF TypeOK
<1>2. TypeOK'
  <2>1. /\ index' \in 1 .. Len(tables') + 1 /\ column' \in Nat \ {0}
        /\ combined' \in Seq(ColumnSpecs) /\ seen' \in Seq(ColumnSpecs)
        /\ normalized' \in Seq(TableSpecs)
    BY <1>1, EmptySeq
  <2>2. /\ ctx' \in Contexts \cup {NoContext} /\ document' \in Documents
        /\ tables' \in Seq(TableSpecs) /\ accepted' \in BOOLEAN
        /\ \A e \in reported' : e.table \in Nat /\ e.column \in Nat
    BY DEF TypeOK
  <2>3. outcome' = "none" /\ pc' = "generators"
    OBVIOUS
  <2> HIDE DEF CallNormalize
  <2>4. QED
    BY <2>1, <2>2, <2>3 DEF TypeOK
<1>3. LoadErrors' = LoadErrors
  BY DEF LoadErrors
<1>4. LoadedInv' /\ HeldInv'
  BY <1>3 DEF LoadedInv, HeldInv
<1>5. CopyInv'
  <2>1. index' - 1 = 0 /\ Len(normalized') = 0 /\ 1..0 = {}
    BY EmptySeq
  <2>2. reported' = CollisionsOf(ctx, tables, 0)
    BY NoCollisions
  <2>3. QED
    BY <1>1, <2>1, <2>2 DEF CopyInv
<1>6. AskInv'
  <2>1. column' - 1 = 0 /\ index' = 1
    OBVIOUS
  <2>2. ASSUME NEW columns PROVE NamesByFirst(ctx, columns, 0) = {}
    BY NamesByNone
  <2>3. NamesIn(combined') = {} /\ Unique(seen')
    BY NoNames
  <2>4. 1 <= Len(tables[1].columns) + 1
    <3>1. tables[1].columns \in Seq(ColumnSpecs)
      <4>1. 1 \in 1..Len(tables)
        BY <1>1, EmptySeq
      <4>2. tables[1] \in TableSpecs
        BY <1>1, <4>1, ElementOfSeq
      <4>3. QED
        BY <4>2 DEF TableSpecs
    <3>2. QED
      BY <3>1, LenProperties
  <2>5. QED
    BY <2>1, <2>2, <2>3, <2>4 DEF AskInv
<1>7. RefusedInv'
  BY DEF RefusedInv
<1>8. QED
  BY <1>2, <1>4, <1>5, <1>6, <1>7

(* Steps inside the loop over the columns of a table. *)
LEMMA ColumnsStep ==
  ASSUME Inv, AskGenerator \/ AskPlanner \/ KeepImplied
  PROVE  Inv'
<1> USE DEF Inv
<1>1. /\ pc # "idle" /\ pc' # "idle" /\ outcome = "none"
      /\ ctx \in Contexts
      /\ UNCHANGED <<ctx, document, tables, accepted, outcome, reported, index, normalized>>
  BY DEF AskGenerator, AskPlanner, KeepImplied, CopyInv, call
<1>2. /\ tables \in Seq(TableSpecs) /\ Len(tables) \in Nat /\ index \in 1..Len(tables) + 1
      /\ index \in Nat
  BY LenProperties DEF TypeOK
<1>3. /\ index <= Len(tables)
      /\ Table \in TableSpecs
      /\ Table.columns \in Seq(ColumnSpecs)
      /\ Len(Table.columns) \in Nat
      /\ DOMAIN Table.columns = 1..Len(Table.columns)
      /\ tables'[index'] = Table
  <2>1. index <= Len(tables)
    BY DEF AskGenerator, AskPlanner, KeepImplied, AskInv
  <2>2. index \in 1..Len(tables)
    BY <1>2, <2>1
  <2>3. Table \in TableSpecs
    BY <1>2, <2>2, ElementOfSeq DEF Table
  <2>4. Table.columns \in Seq(ColumnSpecs)
    BY <2>3 DEF TableSpecs
  <2>5. tables'[index'] = Table
    BY <1>1 DEF Table
  <2>6. QED
    BY <2>1, <2>3, <2>4, <2>5, LenProperties
<1>4. LoadErrors' = LoadErrors
  BY <1>1 DEF LoadErrors
<1>5. LoadedInv' /\ HeldInv' /\ CopyInv' /\ RefusedInv'
  BY <1>1, <1>4 DEF LoadedInv, HeldInv, CopyInv, RefusedInv
<1>6. ASSUME /\ pc' \in {"idle", "generators", "dedup"}
             /\ column' \in Nat \ {0}
             /\ combined' \in Seq(ColumnSpecs)
             /\ seen' \in Seq(ColumnSpecs)
      PROVE  TypeOK'
  BY <1>1, <1>6 DEF TypeOK
<1>7. combined \in Seq(ColumnSpecs) /\ seen \in Seq(ColumnSpecs) /\ column \in Nat \ {0}
  BY DEF TypeOK
<1>8. CASE AskGenerator
  <2> USE DEF AskGenerator
  <2>1. /\ pc = "generators" /\ pc' = "generators" /\ seen = <<>> /\ seen' = <<>>
        /\ column' = column + 1 /\ column <= Len(Table.columns)
        /\ NamesIn(combined) = NamesByFirst(ctx, Table.columns, column - 1)
    BY <1>3, <1>8 DEF AskInv, Table
  <2> DEFINE more == ImpliedBy(ctx, Table.columns[column])
  <2>2. combined' = combined \o more
    BY <1>8 DEF Implied, ImpliedBy, Registered
  <2>3. more \in Seq(ColumnSpecs)
    BY <1>1, ContextTypes
  <2>4. combined' \in Seq(ColumnSpecs) /\ NamesIn(combined') = NamesIn(combined) \cup NamesIn(more)
    BY <1>7, <2>2, <2>3, NamesInConcat, ConcatProperties
  <2>5. NamesByFirst(ctx, Table.columns, column) =
          NamesByFirst(ctx, Table.columns, column - 1) \cup NamesIn(more)
    BY <1>7, NamesByOneMore
  <2>6. TypeOK'
    BY <1>6, <1>7, <2>1, <2>4
  <2>7. /\ column' - 1 = column
        /\ column' <= Len(Table.columns) + 1
    BY <1>3, <1>7, <2>1
  <2>8. AskInv'
    BY <1>1, <1>3, <2>1, <2>4, <2>5, <2>7, NoNames DEF AskInv
  <2>9. QED
    BY <1>5, <2>6, <2>8
<1>9. CASE AskPlanner
  <2> USE DEF AskPlanner
  <2>1. /\ pc' = "dedup" /\ seen = <<>> /\ seen' = <<>> /\ column' = column
        /\ column - 1 = Len(Table.columns)
        /\ NamesIn(combined) = NamesByFirst(ctx, Table.columns, column - 1)
    BY <1>3, <1>7, <1>9 DEF AskInv, Table
  <2> DEFINE more == ctx.planned[Table.relation]
  <2>2. combined' = combined \o more
    BY <1>9
  <2>3. more \in Seq(ColumnSpecs)
    BY <1>1, <1>3, ContextTypes
  <2>4. combined' \in Seq(ColumnSpecs) /\ NamesIn(combined') = NamesIn(combined) \cup NamesIn(more)
    BY <1>7, <2>2, <2>3, NamesInConcat, ConcatProperties
  <2>5. NamesIn(combined) = NamesByAll(ctx, Table.columns)
    BY <1>3, <2>1, NamesByEvery
  <2>6. NamesIn(combined') = NamesImplied(ctx, Table)
    BY <2>4, <2>5 DEF NamesImplied
  <2>7. TypeOK'
    BY <1>6, <1>7, <2>1, <2>4
  <2>8. AskInv'
    BY <1>1, <1>3, <2>1, <2>6, NoNames DEF AskInv
  <2>9. QED
    BY <1>5, <2>7, <2>8
<1>10. CASE KeepImplied
  <2> USE DEF KeepImplied
  <2>1. /\ pc = "dedup" /\ pc' = "dedup" /\ column' = column /\ combined # <<>>
        /\ seen' = Keep(seen, Head(combined)) /\ combined' = Tail(combined)
        /\ Unique(seen)
        /\ NamesIn(seen) \cup NamesIn(combined) = NamesImplied(ctx, Table)
    BY <1>10 DEF AskInv, Table
  <2>2. /\ Head(combined) \in ColumnSpecs /\ combined' \in Seq(ColumnSpecs)
        /\ NamesIn(combined) = {Head(combined).name} \cup NamesIn(combined')
    BY <1>7, <2>1, HeadAndTail
  <2>3. /\ seen' \in Seq(ColumnSpecs) /\ Unique(seen')
        /\ NamesIn(seen') = NamesIn(seen) \cup {Head(combined).name}
    <3>1. Unique(seen) /\ seen \in Seq(ColumnSpecs) /\ Head(combined) \in ColumnSpecs
      BY <1>7, <2>1, <2>2
    <3> HIDE DEF Inv, KeepImplied
    <3>2. /\ Keep(seen, Head(combined)) \in Seq(ColumnSpecs)
          /\ Unique(Keep(seen, Head(combined)))
          /\ NamesIn(Keep(seen, Head(combined))) = NamesIn(seen) \cup {Head(combined).name}
      BY <3>1, KeepProperties
    <3>3. QED
      BY <2>1, <3>2
  <2>4. NamesIn(seen') \cup NamesIn(combined') = NamesImplied(ctx, Table)
    BY <2>1, <2>2, <2>3
  <2>5. TypeOK'
    BY <1>6, <1>7, <2>1, <2>2, <2>3
  <2>6. AskInv'
    BY <1>1, <1>3, <2>1, <2>3, <2>4 DEF AskInv
  <2>7. QED
    BY <1>5, <2>5, <2>6
<1>11. QED
  BY <1>8, <1>9, <1>10

LEMMA CollisionsOneMore ==
  ASSUME NEW c, NEW ts, NEW k \in Nat \ {0}
  PROVE  /\ Colliding(c, ts[k]) =>
              CollisionsOf(c, ts, k) = CollisionsOf(c, ts, k - 1) \cup {Error(k, 0, "collision")}
         /\ ~Colliding(c, ts[k]) => CollisionsOf(c, ts, k) = CollisionsOf(c, ts, k - 1)
<1> DEFINE of(m) == {u \in 1..m : Colliding(c, ts[u])}
           Err(t) == Error(t, 0, "collision")
<1>1. 1..k = (1..(k - 1)) \cup {k}
  OBVIOUS
<1>2. /\ Colliding(c, ts[k])  => of(k) = of(k - 1) \cup {k}
      /\ ~Colliding(c, ts[k]) => of(k) = of(k - 1)
  BY <1>1
<1>3. \A m : CollisionsOf(c, ts, m) = {Err(t) : t \in of(m)}
  BY DEF CollisionsOf
<1> HIDE DEF of, Err
<1>4. {Err(t) : t \in of(k - 1) \cup {k}} = {Err(t) : t \in of(k - 1)} \cup {Err(k)}
  OBVIOUS
<1>5. QED
  BY <1>2, <1>3, <1>4 DEF Err

LEMMA EndTableStep ==
  ASSUME Inv, EndTable
  PROVE  Inv'
<1> USE DEF Inv
<1>1. /\ pc = "dedup" /\ combined = <<>> /\ combined' = combined
      /\ pc' = "generators" /\ index' = index + 1 /\ column' = 1 /\ seen' = <<>>
      /\ UNCHANGED <<ctx, document, tables, accepted, outcome>>
  BY DEF EndTable
<1>2. /\ ctx \in Contexts /\ tables # <<>> /\ outcome = "none"
      /\ reported = CollisionsOf(ctx, tables, index - 1)
      /\ reported = {} => /\ Len(normalized) = index - 1
                         /\ \A t \in 1..(index - 1) : GrownFrom(ctx, tables[t], normalized[t])
  BY <1>1 DEF CopyInv
<1>3. /\ index <= Len(tables) /\ Unique(seen) /\ NamesIn(seen) = NamesImplied(ctx, Table)
  <2>1. /\ index <= Len(tables) /\ Unique(seen)
        /\ NamesIn(seen) \cup NamesIn(combined) = NamesImplied(ctx, Table)
    BY <1>1 DEF AskInv, Table
  <2>2. NamesIn(combined) = {}
    BY <1>1, NoNames
  <2>3. QED
    BY <2>1, <2>2
<1>4. /\ tables \in Seq(TableSpecs) /\ normalized \in Seq(TableSpecs) /\ seen \in Seq(ColumnSpecs)
      /\ combined \in Seq(ColumnSpecs)
      /\ Len(tables) \in Nat /\ Len(normalized) \in Nat
      /\ index \in Nat \ {0} /\ index \in 1..Len(tables)
  BY <1>3, LenProperties DEF TypeOK
<1>5. Table \in TableSpecs /\ Table = tables[index]
  BY <1>4, ElementOfSeq DEF Table
<1>6. Collides(Table, seen) <=> Colliding(ctx, Table)
  BY <1>3 DEF Collides, Colliding
<1>7. LoadErrors' = LoadErrors
  BY <1>1 DEF LoadErrors
<1>8. LoadedInv' /\ HeldInv' /\ RefusedInv'
  BY <1>1, <1>2, <1>7 DEF LoadedInv, HeldInv, RefusedInv
<1>9. AskInv'
  <2>1. Unique(seen') /\ NamesIn(combined') = {}
    BY <1>1, NoNames
  <2>2. ASSUME index' <= Len(tables')
        PROVE  /\ column' <= Len(tables'[index'].columns) + 1
               /\ NamesIn(combined') = NamesByFirst(ctx', tables'[index'].columns, column' - 1)
    <3>1. tables[index'] \in TableSpecs
      <4>1. index' \in 1..Len(tables)
        BY <1>1, <1>4, <2>2
      <4>2. QED
        BY <1>4, <4>1, ElementOfSeq
    <3>2. Len(tables[index'].columns) \in Nat
      BY <3>1, LenProperties DEF TableSpecs
    <3>3. column' = 1 /\ column' - 1 = 0
      BY <1>1
    <3>4. NamesByFirst(ctx', tables'[index'].columns, column' - 1) = {}
      BY <3>3, NamesByNone
    <3>5. column' <= Len(tables'[index'].columns) + 1
      BY <1>1, <3>2, <3>3
    <3>6. QED
      BY <2>1, <3>4, <3>5
  <2>3. QED
    BY <1>1, <2>1, <2>2 DEF AskInv
<1>10. ASSUME /\ normalized' \in Seq(TableSpecs)
              /\ Placed(reported')
       PROVE  TypeOK'
  <2>1. index' \in 1 .. Len(tables') + 1
    BY <1>1, <1>4
  <2>2. /\ seen' \in Seq(ColumnSpecs) /\ combined' \in Seq(ColumnSpecs)
        /\ pc' \in {"idle", "generators", "dedup"} /\ column' \in Nat \ {0}
    BY <1>1, <1>4, EmptySeq
  <2>3. /\ ctx' \in Contexts \cup {NoContext} /\ document' \in Documents
        /\ tables' \in Seq(TableSpecs) /\ accepted' \in BOOLEAN
        /\ outcome' \in {"none", "ok", "report", "SchemaError"}
    BY <1>1 DEF TypeOK
  <2>4. \A e \in reported' : e.table \in Nat /\ e.column \in Nat
    BY <1>10 DEF Placed
  <2> HIDE DEF Inv
  <2>5. QED
    BY <1>10, <2>1, <2>2, <2>3, <2>4 DEF TypeOK
<1>11. index' - 1 = index
  BY <1>1, <1>4
<1>12. Placed(reported)
  BY DEF TypeOK, Placed
<1>13. CASE Collides(Table, seen)
  <2>1. reported' = reported \cup {Error(index, 0, "collision")} /\ normalized' = normalized
    BY <1>13 DEF EndTable
  <2>2. reported' = CollisionsOf(ctx, tables, index)
    BY <1>2, <1>4, <1>5, <1>6, <1>13, <2>1, CollisionsOneMore
  <2>3. CopyInv'
    BY <1>1, <1>2, <1>11, <2>1, <2>2 DEF CopyInv
  <2>4. Placed({Error(index, 0, "collision")})
    BY <1>4 DEF Placed, Error
  <2>5. TypeOK'
    BY <1>4, <1>10, <1>12, <2>1, <2>4 DEF Placed
  <2>6. QED
    BY <1>8, <1>9, <2>3, <2>5
<1>14. CASE ~Collides(Table, seen)
  <2> DEFINE new == Grown(Table, seen)
  <2>1. reported' = reported /\ normalized' = Append(normalized, new)
    BY <1>14 DEF EndTable
  <2>2. reported' = CollisionsOf(ctx, tables, index)
    BY <1>2, <1>4, <1>5, <1>6, <1>14, <2>1, CollisionsOneMore
  <2>3. GrownFrom(ctx, Table, new)
    BY <1>3, <1>4, <1>14 DEF GrownFrom, GrowthOf, Collides
  <2>4. new \in TableSpecs
    BY <1>4, <1>5, GrownTable
  <2> HIDE DEF new
  <2>5. /\ normalized' \in Seq(TableSpecs) /\ Len(normalized') = Len(normalized) + 1
        /\ \A t \in 1..Len(normalized) : normalized'[t] = normalized[t]
        /\ normalized'[Len(normalized) + 1] = new
    <3> HIDE DEF Inv
    <3>1. \A t \in 1..Len(normalized) : Append(normalized, new)[t] = normalized[t]
      BY <1>4, <2>4, AppendProperties
    <3>2. QED
      BY <1>4, <2>1, <2>4, <3>1, AppendProperties
  <2>6. ASSUME reported' = {}
        PROVE  /\ Len(normalized') = index
               /\ \A t \in 1..index : GrownFrom(ctx, tables[t], normalized'[t])
    <3>1. /\ Len(normalized) = index - 1
          /\ \A t \in 1..(index - 1) : GrownFrom(ctx, tables[t], normalized[t])
      BY <1>2, <2>1, <2>6
    <3>2. Len(normalized') = index /\ normalized'[index] = new
      BY <1>4, <2>5, <3>1
    <3>3. \A t \in 1..(index - 1) : GrownFrom(ctx, tables[t], normalized'[t])
      BY <2>5, <3>1
    <3>4. GrownFrom(ctx, tables[index], normalized'[index])
      BY <1>5, <2>3, <3>2
    <3>5. \A t \in 1..index : t \in 1..(index - 1) \/ t = index
      BY <1>4
    <3>6. QED
      BY <3>2, <3>3, <3>4, <3>5
  <2>7. CopyInv'
    BY <1>1, <1>2, <1>11, <2>2, <2>6 DEF CopyInv
  <2>8. TypeOK'
    BY <1>10, <1>12, <2>1, <2>5
  <2>9. QED
    BY <1>8, <1>9, <2>7, <2>8
<1>15. QED
  BY <1>13, <1>14

(* A normalisation returns only what has not grown before. *)
LEMMA ReturnsFresh ==
  ASSUME Inv, ReturnNormalized
  PROVE  /\ tables = document.tables
         /\ ctx \in Contexts
         /\ Growths(ctx, tables, normalized)
<1> USE DEF Inv
<1>1. /\ pc = "generators" /\ index > Len(tables) /\ reported = {}
  BY DEF ReturnNormalized
<1>2. /\ tables \in Seq(TableSpecs) /\ Len(tables) \in Nat /\ index \in 1..Len(tables) + 1
      /\ document.tables \in Seq(TableSpecs)
  BY LenProperties, Documented DEF TypeOK
<1>3. index - 1 = Len(tables)
  BY <1>1, <1>2
<1>4. /\ ctx \in Contexts /\ tables # <<>>
      /\ CollisionsOf(ctx, tables, Len(tables)) = {}
      /\ Growths(ctx, tables, normalized)
  BY <1>1, <1>3 DEF CopyInv, Growths
<1>5. \A t \in 1..Len(tables) : ~Colliding(ctx, tables[t])
  BY <1>4 DEF CollisionsOf
<1>6. CASE Growths(ctx, document.tables, tables)
  <2>1. Len(tables) = Len(document.tables)
    BY <1>6 DEF Growths
  <2>2. ASSUME NEW t \in 1..Len(tables)
        PROVE  tables[t] = document.tables[t]
    <3>1. GrownFrom(ctx, document.tables[t], tables[t]) /\ ~Colliding(ctx, tables[t])
      BY <1>5, <1>6, <2>1 DEF Growths
    <3>2. document.tables[t] \in TableSpecs
      BY <1>2, <2>1, ElementOfSeq
    <3>3. QED
      BY <1>4, <3>1, <3>2, GrownCollides
  <2>3. tables = document.tables
    BY <1>2, <2>1, <2>2, SeqEqual
  <2>4. QED
    BY <1>4, <2>3
<1>7. QED
  BY <1>4, <1>6 DEF HeldInv

LEMMA EndStep ==
  ASSUME Inv, RaiseCollisions \/ ReturnNormalized
  PROVE  Inv'
<1> USE DEF Inv
<1>1. /\ pc = "generators" /\ pc' = "idle" /\ index > Len(tables)
      /\ outcome' \in {"ok", "SchemaError"}
      /\ UNCHANGED <<ctx, document, accepted, reported, index, column, combined, seen, normalized>>
  BY DEF RaiseCollisions, ReturnNormalized, loop
<1>2. /\ tables \in Seq(TableSpecs) /\ normalized \in Seq(TableSpecs)
      /\ Len(tables) \in Nat /\ Len(normalized) \in Nat /\ index = Len(tables) + 1
  <2>1. tables \in Seq(TableSpecs) /\ normalized \in Seq(TableSpecs) /\ index \in 1..Len(tables) + 1
    BY DEF TypeOK
  <2>2. Len(tables) \in Nat /\ Len(normalized) \in Nat
    BY <2>1, LenProperties
  <2>3. QED
    BY <1>1, <2>1, <2>2
<1>3. /\ ctx \in Contexts /\ tables # <<>>
      /\ reported = CollisionsOf(ctx, tables, Len(tables))
  <2>1. index - 1 = Len(tables)
    BY <1>2
  <2>2. QED
    BY <1>1, <2>1 DEF CopyInv
<1>4. CopyInv' /\ AskInv'
  BY <1>1 DEF CopyInv, AskInv
<1>5. LoadErrors' = LoadErrors /\ LoadErrors = {}
  BY <1>1, <1>3 DEF LoadErrors, LoadedInv
<1>6. LoadedInv'
  BY <1>5 DEF LoadedInv
<1>7. ASSUME tables' \in Seq(TableSpecs), Len(tables') = Len(tables)
      PROVE  TypeOK'
  <2>1. index' \in 1 .. Len(tables') + 1
    BY <1>1, <1>2, <1>7
  <2>2. outcome' \in {"none", "ok", "report", "SchemaError"}
    BY <1>1
  <2>3. /\ ctx' \in Contexts \cup {NoContext} /\ document' \in Documents /\ accepted' \in BOOLEAN
        /\ column' \in Nat \ {0} /\ combined' \in Seq(ColumnSpecs) /\ seen' \in Seq(ColumnSpecs)
        /\ normalized' \in Seq(TableSpecs)
        /\ \A e \in reported' : e.table \in Nat /\ e.column \in Nat
    BY <1>1 DEF TypeOK
  <2>4. pc' \in {"idle", "generators", "dedup"}
    BY <1>1
  <2> HIDE DEF Inv
  <2>5. QED
    BY <1>7, <2>1, <2>2, <2>3, <2>4 DEF TypeOK
<1>8. CASE RaiseCollisions
  <2>1. tables' = tables
    BY <1>8 DEF RaiseCollisions
  <2>2. TypeOK'
    BY <1>2, <1>7, <2>1
  <2>3. HeldInv' /\ RefusedInv'
    BY <1>1, <1>3, <2>1 DEF HeldInv, RefusedInv
  <2>4. QED
    BY <1>4, <1>6, <2>2, <2>3
<1>9. CASE ReturnNormalized
  <2>1. tables' = normalized /\ outcome' = "ok"
    BY <1>9 DEF ReturnNormalized
  <2>2. tables = document.tables /\ Growths(ctx, tables, normalized)
    BY <1>9, ReturnsFresh
  <2>3. Len(normalized) = Len(tables)
    BY <2>2 DEF Growths
  <2>4. TypeOK'
    BY <1>2, <1>7, <2>1, <2>3
  <2>5. HeldInv'
    BY <1>1, <1>3, <2>1, <2>2 DEF HeldInv
  <2>6. RefusedInv'
    BY <2>1 DEF RefusedInv
  <2>7. QED
    BY <1>4, <1>6, <2>4, <2>5, <2>6
<1>10. QED
  BY <1>8, <1>9

LEMMA NextInv ==
  ASSUME Inv, [Next]_vars
  PROVE  Inv'
<1>1. CASE Next
  BY <1>1, CallStep, CallNormalizeStep, ColumnsStep, EndTableStep, EndStep DEF Next, Normalize
<1>2. CASE UNCHANGED vars
  <2> USE <1>2 DEF vars, call, loop
  <2>1. TypeOK'
    BY DEF Inv, TypeOK
  <2>2. LoadErrors' = LoadErrors
    BY DEF LoadErrors
  <2>3. LoadedInv' /\ HeldInv' /\ CopyInv' /\ RefusedInv' /\ AskInv'
    BY <2>2 DEF Inv, LoadedInv, HeldInv, CopyInv, RefusedInv, AskInv
  <2>4. QED
    BY <2>1, <2>3 DEF Inv
<1>3. QED
  BY <1>1, <1>2

(* The parts of the inductive invariant hold together. *)
THEOREM Invariance == Spec => []Inv
<1>1. Init => Inv
  BY InitInv
<1>2. Inv /\ [Next]_vars => Inv'
  BY NextInv
<1>3. QED
  BY <1>1, <1>2, PTL DEF Spec

-----------------------------------------------------------------------------
(* What follows from it. *)

LEMMA HeldTables ==
  ASSUME Inv, tables # <<>>
  PROVE  /\ document.tables \in Seq(TableSpecs) /\ tables \in Seq(TableSpecs)
         /\ DOMAIN tables = DOMAIN document.tables
         /\ \A t \in DOMAIN tables :
              /\ document.tables[t] \in TableSpecs
              /\ \/ tables[t] = document.tables[t]
                 \/ ctx \in Contexts /\ GrownFrom(ctx, document.tables[t], tables[t])
<1>1. /\ document.tables \in Seq(TableSpecs) /\ tables \in Seq(TableSpecs)
  BY Documented DEF Inv, TypeOK
<1>2. /\ DOMAIN document.tables = 1..Len(document.tables) /\ DOMAIN tables = 1..Len(tables)
  BY <1>1, LenProperties
<1>3. \A t \in DOMAIN document.tables : document.tables[t] \in TableSpecs
  BY <1>1, <1>2, ElementOfSeq
<1>4. \/ tables = document.tables
      \/ ctx \in Contexts /\ Growths(ctx, document.tables, tables)
  BY DEF Inv, HeldInv
<1>5. DOMAIN tables = DOMAIN document.tables
  BY <1>2, <1>4 DEF Growths
<1>6. ASSUME NEW t \in DOMAIN tables
      PROVE  \/ tables[t] = document.tables[t]
             \/ ctx \in Contexts /\ GrownFrom(ctx, document.tables[t], tables[t])
  <2>1. t \in 1..Len(document.tables)
    BY <1>2, <1>5, <1>6
  <2>2. CASE tables = document.tables
    BY <2>2
  <2>3. CASE ctx \in Contexts /\ Growths(ctx, document.tables, tables)
    BY <2>1, <2>3 DEF Growths
  <2>4. QED
    BY <1>4, <2>2, <2>3
<1>7. QED
  BY <1>1, <1>3, <1>5, <1>6

LEMMA AllOfIt ==
  ASSUME NEW c \in Seq(ColumnSpecs)
  PROVE  SubSeq(c, 1, Len(c)) = c
<1> DEFINE sub == SubSeq(c, 1, Len(c))
<1>1. Len(c) \in Nat /\ \A i \in 1..Len(c) : c[i] \in ColumnSpecs
  BY LenProperties, ElementOfSeq
<1>2. sub \in Seq(ColumnSpecs) /\ Len(sub) = Len(c) /\ \A i \in 1..Len(c) : sub[i] = c[i]
  BY <1>1, SubSeqProperties
<1> HIDE DEF sub
<1>3. sub = c
  BY <1>2, SeqEqual
<1>4. QED
  BY <1>3 DEF sub

(* Whatever the registry and the planner imply, what is declared is kept.  *)
THEOREM KeepsWhatIsDeclared == Spec => []DeclaredKept
<1>1. Inv => DeclaredKept
  <2> SUFFICES ASSUME Inv, tables # <<>>
               PROVE  /\ DOMAIN tables = DOMAIN document.tables
                      /\ \A t \in DOMAIN tables :
                           /\ tables[t] = [document.tables[t] EXCEPT !.columns = tables[t].columns]
                           /\ Len(document.tables[t].columns) <= Len(tables[t].columns)
                           /\ SubSeq(tables[t].columns, 1, Len(document.tables[t].columns)) =
                                document.tables[t].columns
    BY DEF DeclaredKept
  <2>1. DOMAIN tables = DOMAIN document.tables
    BY HeldTables
  <2>2. ASSUME NEW t \in DOMAIN tables
        PROVE  /\ tables[t] = [document.tables[t] EXCEPT !.columns = tables[t].columns]
               /\ Len(document.tables[t].columns) <= Len(tables[t].columns)
               /\ SubSeq(tables[t].columns, 1, Len(document.tables[t].columns)) =
                    document.tables[t].columns
    <3> DEFINE old == document.tables[t]
               new == tables[t]
    <3>1. old \in TableSpecs /\ (new = old \/ (ctx \in Contexts /\ GrownFrom(ctx, old, new)))
      BY HeldTables
    <3> HIDE DEF old, new
    <3>2. CASE new = old
      <4>1. old.columns \in Seq(ColumnSpecs) /\ [old EXCEPT !.columns = old.columns] = old
        BY <3>1 DEF TableSpecs
      <4>2. Len(old.columns) \in Nat /\ SubSeq(old.columns, 1, Len(old.columns)) = old.columns
        BY <4>1, LenProperties, AllOfIt
      <4>3. QED
        BY <3>2, <4>1, <4>2 DEF old, new
    <3>3. CASE ctx \in Contexts /\ GrownFrom(ctx, old, new)
      <4>1. /\ new = [old EXCEPT !.columns = new.columns]
            /\ Len(old.columns) <= Len(new.columns)
            /\ SubSeq(new.columns, 1, Len(old.columns)) = old.columns
        BY <3>1, <3>3, GrownKeeps
      <4>2. QED
        BY <4>1 DEF old, new
    <3>4. QED
      BY <3>1, <3>2, <3>3
  <2>3. QED
    BY <2>1, <2>2
<1>2. QED
  BY <1>1, Invariance, PTL

(* No column of a normalised table has the name of another.                *)
THEOREM NamesAreUnique == Spec => []NamesStayUnique
<1>1. Inv => NamesStayUnique
  <2> SUFFICES ASSUME Inv
               PROVE  /\ Unique(tables)
                      /\ \A t \in DOMAIN tables : Unique(tables[t].columns)
    BY DEF NamesStayUnique
  <2>1. CASE tables = <<>>
    BY <2>1, NoNames
  <2>2. CASE tables # <<>>
    <3>1. /\ Unique(document.tables)
          /\ \A t \in DOMAIN document.tables : Unique(document.tables[t].columns)
      BY <2>2, LoadedIsUnique DEF Inv, LoadedInv, TypeOK
    <3>2. ASSUME NEW t \in DOMAIN tables
          PROVE  tables[t].name = document.tables[t].name /\ Unique(tables[t].columns)
      <4>1. CASE tables[t] = document.tables[t]
        BY <2>2, <3>1, <4>1, HeldTables
      <4>2. CASE ctx \in Contexts /\ GrownFrom(ctx, document.tables[t], tables[t])
        <5>1. document.tables[t] \in TableSpecs /\ Unique(document.tables[t].columns)
          BY <2>2, <3>1, HeldTables
        <5>2. QED
          BY <4>2, <5>1, GrownKeeps
      <4>3. QED
        BY <2>2, <4>1, <4>2, HeldTables
    <3>3. DOMAIN tables = DOMAIN document.tables
      BY <2>2, HeldTables
    <3>4. QED
      BY <3>1, <3>2, <3>3 DEF Unique
  <2>3. QED
    BY <2>1, <2>2
<1>2. QED
  BY <1>1, Invariance, PTL

(* A refusal of normalize_schema names every table that collides.          *)
THEOREM RefusalIsComplete == Spec => []CollisionsAreAll
<1>1. Inv => CollisionsAreAll
  <2> SUFFICES ASSUME Inv, pc = "idle", outcome = "SchemaError", tables # <<>>
               PROVE  reported = {Error(t, 0, "collision") : t \in
                        {u \in DOMAIN tables : NamesIn(tables[u].columns) \cap ImpliedNames(tables[u]) # {}}}
    BY DEF CollisionsAreAll
  <2>1. reported = CollisionsOf(ctx, tables, Len(tables))
    BY DEF Inv, RefusedInv
  <2>2. DOMAIN tables = 1..Len(tables)
    BY LenProperties DEF Inv, TypeOK
  <2>3. {u \in DOMAIN tables : NamesIn(tables[u].columns) \cap ImpliedNames(tables[u]) # {}}
          = {u \in 1..Len(tables) : Colliding(ctx, tables[u])}
    BY <2>2, ImpliedNamesAre DEF Colliding
  <2>4. QED
    BY <2>1, <2>3 DEF CollisionsOf
<1>2. QED
  BY <1>1, Invariance, PTL

(* A schema that has grown never changes again.                            *)
THEOREM SchemaGrowsOnce == Spec => GrowsOnce
<1>1. ASSUME Inv, [Next]_vars, tables # <<>>, tables # document.tables
      PROVE  tables' = tables
  <2>1. CASE ReturnNormalized
    BY <1>1, <2>1, ReturnsFresh
  <2>2. CASE LoadSchema
    BY <1>1, <2>2 DEF LoadSchema
  <2>3. CASE Validate \/ NormalizeWithoutContext \/ CallNormalize \/ AskGenerator
             \/ AskPlanner \/ KeepImplied \/ EndTable \/ RaiseCollisions
    BY <2>3 DEF Validate, NormalizeWithoutContext, CallNormalize, AskGenerator, AskPlanner,
                KeepImplied, EndTable, RaiseCollisions
  <2>4. CASE UNCHANGED vars
    BY <2>4 DEF vars
  <2>5. QED
    BY <1>1, <2>1, <2>2, <2>3, <2>4 DEF Next, Normalize
<1>2. Inv /\ [Next]_vars => [tables # <<>> /\ tables # document.tables => tables' = tables]_vars
  BY <1>1
<1>3. QED
  BY <1>2, Invariance, PTL DEF Spec, GrowsOnce

-----------------------------------------------------------------------------
(* The declared columns after normalisation. *)

(* Column i of the columns given is one that layers 3 and 4 have nothing     *)
(* against, with the context c.                                              *)
Good(c, columns, i) ==
  LET type == columns[i].type
  IN  /\ type \in DOMAIN c.implied
      /\ type \notin c.refuses
      /\ c.depends[type] \subseteq NamesIn(columns)
      /\ \A j \in DOMAIN columns :
           columns[j].name \in c.depends[type] => columns[j].type \notin LLMTypes

DeclaredGood(c, doc) ==
  \A t \in DOMAIN doc.tables :
    \A i \in DOMAIN doc.tables[t].columns : Good(c, doc.tables[t].columns, i)

(* What validate has accepted is all good: every dependency is declared.     *)
AcceptInv ==
  accepted => tables # <<>> /\ ctx \in Contexts /\ DeclaredGood(ctx, document)

LEMMA GoodHasNoErrors ==
  ASSUME NEW columns, NEW i
  PROVE  ColumnErrors(columns, i) = {} <=> Good(ctx, columns, i)
<1> DEFINE type == columns[i].type
<1>1. CASE type \notin DOMAIN ctx.implied
  BY <1>1 DEF ColumnErrors, Good, Registered
<1>2. CASE type \in DOMAIN ctx.implied
  <2>1. ColumnErrors(columns, i) =
          {kind \in {"params", "missing", "llm"} :
              \/ kind = "params"  /\ type \in ctx.refuses
              \/ kind = "missing" /\ Missing(columns, ctx.depends[type])
              \/ kind = "llm"     /\ \E j \in DOMAIN columns :
                   columns[j].name \in ctx.depends[type] /\ columns[j].type \in LLMTypes}
    BY <1>2 DEF ColumnErrors, Registered
  <2>2. /\ "params" \in ColumnErrors(columns, i) <=> type \in ctx.refuses
        /\ "missing" \in ColumnErrors(columns, i) <=> ~(ctx.depends[type] \subseteq NamesIn(columns))
        /\ "llm" \in ColumnErrors(columns, i) <=>
             \E j \in DOMAIN columns :
               columns[j].name \in ctx.depends[type] /\ columns[j].type \in LLMTypes
        /\ ColumnErrors(columns, i) \subseteq {"params", "missing", "llm"}
    BY <2>1 DEF Missing
  <2>3. ColumnErrors(columns, i) = {} <=>
          /\ type \notin ctx.refuses
          /\ ctx.depends[type] \subseteq NamesIn(columns)
          /\ ~\E j \in DOMAIN columns :
                columns[j].name \in ctx.depends[type] /\ columns[j].type \in LLMTypes
    BY <2>2
  <2>4. QED
    BY <1>2, <2>3 DEF Good
<1>3. QED
  BY <1>1, <1>2

(* The columns that a table gains have other names than those declared, so   *)
(* they take no dependency away from a declared column and give it none.     *)
LEMMA GrownStaysGood ==
  ASSUME NEW c \in Contexts, NEW old \in TableSpecs, NEW new, GrownFrom(c, old, new),
         NEW i \in DOMAIN old.columns, Good(c, old.columns, i)
  PROVE  Good(c, new.columns, i)
<1>1. PICK s \in Seq(ColumnSpecs) : GrowthOf(c, old, s) /\ new = Grown(old, s)
  BY DEF GrownFrom
<1> DEFINE o == old.columns
           n == new.columns
<1>2. o \in Seq(ColumnSpecs) /\ n = o \o s
  BY <1>1, GrownTable
<1>3. NamesIn(n) = NamesIn(o) \cup NamesIn(s)
  BY <1>2, NamesInConcat
<1>4. NamesIn(o) \cap NamesIn(s) = {}
  BY <1>1 DEF GrowthOf
<1>5. Good(c, o, i) /\ i \in DOMAIN o
  OBVIOUS
<1> HIDE DEF o, n
<1>6. \A j \in DOMAIN n :
        \/ j \in DOMAIN o /\ n[j] = o[j]
        \/ n[j].name \in NamesIn(s)
  <2>1. /\ Len(o) \in Nat /\ Len(s) \in Nat
        /\ DOMAIN o = 1..Len(o) /\ DOMAIN s = 1..Len(s)
    BY <1>2, LenProperties
  <2>2. /\ DOMAIN n = 1..(Len(o) + Len(s))
        /\ \A j \in 1..(Len(o) + Len(s)) : n[j] = IF j <= Len(o) THEN o[j] ELSE s[j - Len(o)]
    BY <1>2, ConcatProperties, LenProperties
  <2>3. SUFFICES ASSUME NEW j \in DOMAIN n, ~(j <= Len(o)) PROVE n[j].name \in NamesIn(s)
    BY <2>1, <2>2
  <2>4. j - Len(o) \in DOMAIN s /\ n[j] = s[j - Len(o)]
    BY <2>1, <2>2, <2>3
  <2>5. QED
    BY <2>4 DEF NamesIn
<1>7. n[i] = o[i]
  <2>1. i \in DOMAIN n /\ n[i] = o[i]
    <3>1. /\ Len(o) \in Nat /\ Len(s) \in Nat /\ DOMAIN o = 1..Len(o)
          /\ DOMAIN n = 1..(Len(o) + Len(s))
          /\ \A j \in 1..(Len(o) + Len(s)) : n[j] = IF j <= Len(o) THEN o[j] ELSE s[j - Len(o)]
      BY <1>2, ConcatProperties, LenProperties
    <3>2. QED
      BY <1>5, <3>1
  <2>2. QED
    BY <2>1
<1>8. c.depends[o[i].type] \subseteq NamesIn(o)
  BY <1>5 DEF Good
<1>9. ASSUME NEW j \in DOMAIN n, n[j].name \in c.depends[o[i].type]
      PROVE  n[j].type \notin LLMTypes
  <2>1. n[j].name \notin NamesIn(s)
    BY <1>4, <1>8, <1>9
  <2>2. j \in DOMAIN o /\ n[j] = o[j]
    BY <1>6, <2>1
  <2>3. QED
    BY <1>5, <1>9, <2>2 DEF Good
<1>10. Good(c, n, i)
  BY <1>3, <1>5, <1>7, <1>9 DEF Good
<1>11. QED
  BY <1>10 DEF n

LEMMA AcceptStep ==
  ASSUME Inv, AcceptInv, [Next]_vars
  PROVE  AcceptInv'
<1>1. ctx' = ctx /\ document' = document /\ (tables # <<>> => tables' # <<>>)
  <2>1. CASE ReturnNormalized
    <3>1. tables = document.tables /\ Len(normalized) = Len(tables) /\ tables' = normalized
      BY <2>1, ReturnsFresh DEF Growths, ReturnNormalized
    <3>2. document \in Documents
      BY DEF Inv, TypeOK
    <3>3. Len(tables) # 0
      BY <3>1, <3>2, Documented
    <3>4. tables' # <<>>
      BY <3>1, <3>3
    <3>5. QED
      BY <2>1, <3>4 DEF ReturnNormalized
  <2>2. CASE LoadSchema
    BY <2>2 DEF LoadSchema
  <2>3. CASE Validate \/ NormalizeWithoutContext \/ CallNormalize \/ AskGenerator
             \/ AskPlanner \/ KeepImplied \/ EndTable \/ RaiseCollisions
    BY <2>3 DEF Validate, NormalizeWithoutContext, CallNormalize, AskGenerator, AskPlanner,
                KeepImplied, EndTable, RaiseCollisions
  <2>4. CASE UNCHANGED vars
    BY <2>4 DEF vars
  <2>5. QED
    BY <2>1, <2>2, <2>3, <2>4 DEF Next, Normalize
<1>2. CASE Validate
  <2>1. CASE accepted' = accepted
    BY <1>1, <2>1 DEF AcceptInv
  <2>2. CASE accepted' # accepted
    <3>1. ctx # NoContext /\ tables = document.tables /\ tables # <<>> /\ RegistryErrors(tables) = {}
      BY <1>2, <2>2 DEF Validate, Inv, TypeOK
    <3>2. ctx \in Contexts
      BY <3>1 DEF Inv, TypeOK
    <3>3. ASSUME NEW t \in DOMAIN document.tables, NEW i \in DOMAIN document.tables[t].columns
          PROVE  Good(ctx, document.tables[t].columns, i)
      <4> DEFINE columns == document.tables[t].columns
      <4>1. ColumnReports(columns, t) = {}
        BY <3>1, <3>3 DEF RegistryErrors
      <4> HIDE DEF columns
      <4>2. ColumnErrors(columns, i) = {}
        <5>1. i \in DOMAIN columns
          BY <3>3 DEF columns
        <5>2. {Error(t, i, kind) : kind \in ColumnErrors(columns, i)} = {}
          BY <4>1, <5>1 DEF ColumnReports
        <5>3. QED
          BY <5>2
      <4>3. QED
        BY <4>2, GoodHasNoErrors DEF columns
    <3>4. DeclaredGood(ctx, document)
      BY <3>3 DEF DeclaredGood
    <3>5. QED
      BY <1>1, <3>1, <3>2, <3>4 DEF AcceptInv
  <2>3. QED
    BY <2>1, <2>2
<1>3. CASE ~Validate
  <2>1. accepted' = accepted
    BY <1>3 DEF Next, Normalize, LoadSchema, NormalizeWithoutContext, CallNormalize, AskGenerator,
                AskPlanner, KeepImplied, EndTable, RaiseCollisions, ReturnNormalized, vars
  <2>2. QED
    BY <1>1, <2>1 DEF AcceptInv
<1>4. QED
  BY <1>2, <1>3

(* A schema that validate has accepted before its normalisation has, after   *)
(* it, no error at a declared column that it had not: validate need not be   *)
(* called again for them.                                                    *)
THEOREM AcceptanceLasts == Spec => []AcceptedStaysAccepted
<1>1. Init => AcceptInv
  BY DEF Init, AcceptInv
<1>2. Inv /\ AcceptInv /\ [Next]_vars => AcceptInv'
  BY AcceptStep
<1>3. Inv /\ AcceptInv => AcceptedStaysAccepted
  <2> SUFFICES ASSUME Inv, AcceptInv, accepted, NEW e \in RegistryErrors(tables)
               PROVE  e.kind = "cycle" \/ e.column > Len(document.tables[e.table].columns)
    BY DEF AcceptedStaysAccepted
  <2>1. tables # <<>> /\ ctx \in Contexts /\ DeclaredGood(ctx, document)
    BY DEF AcceptInv
  <2>2. PICK t \in DOMAIN tables :
          \/ e \in ColumnReports(tables[t].columns, t)
          \/ e \in CycleReports(tables[t].columns, t)
    BY DEF RegistryErrors
  <2>3. CASE e \in CycleReports(tables[t].columns, t)
    BY <2>3 DEF CycleReports, Error
  <2>4. CASE e \in ColumnReports(tables[t].columns, t)
    <3> DEFINE columns == tables[t].columns
               old     == document.tables[t]
    <3>1. PICK i \in DOMAIN columns : \E kind \in ColumnErrors(columns, i) : e = Error(t, i, kind)
      BY <2>4 DEF ColumnReports
    <3>2. e.table = t /\ e.column = i
      BY <3>1 DEF Error
    <3>3. ~Good(ctx, columns, i)
      BY <3>1, GoodHasNoErrors
    <3>4. /\ old \in TableSpecs /\ t \in DOMAIN document.tables
          /\ tables[t] = old \/ GrownFrom(ctx, old, tables[t])
          /\ tables[t] \in TableSpecs
      <4>1. /\ old \in TableSpecs /\ t \in DOMAIN document.tables
            /\ tables[t] = old \/ GrownFrom(ctx, old, tables[t])
        BY <2>1, HeldTables
      <4>2. tables[t] \in TableSpecs
        BY <2>1, <4>1, GrownKeeps
      <4>3. QED
        BY <4>1, <4>2
    <3>5. old.columns \in Seq(ColumnSpecs) /\ columns \in Seq(ColumnSpecs)
      BY <3>4 DEF TableSpecs
    <3>6. /\ DOMAIN old.columns = 1..Len(old.columns) /\ Len(old.columns) \in Nat
          /\ i \in Nat \ {0}
      BY <3>5, LenProperties
    <3>7. ASSUME i <= Len(old.columns) PROVE FALSE
      <4>1. i \in DOMAIN old.columns
        BY <3>6, <3>7
      <4>2. Good(ctx, old.columns, i)
        BY <2>1, <3>4, <4>1 DEF DeclaredGood
      <4>3. Good(ctx, columns, i)
        BY <2>1, <3>4, <4>1, <4>2, GrownStaysGood
      <4>4. QED
        BY <3>3, <4>3
    <3>8. QED
      BY <3>2, <3>6, <3>7
  <2>5. QED
    BY <2>2, <2>3, <2>4
<1>4. QED
  BY <1>1, <1>2, <1>3, Invariance, PTL DEF Spec

-----------------------------------------------------------------------------
(* Where the columns that a table gains come from. *)

FromGenerator(c, columns, spec) ==
  \E i \in DOMAIN columns : spec \in Elements(ImpliedBy(c, columns[i]))

FromPlanner(c, table, spec) == spec \in Elements(c.planned[table.relation])

(* The generators have precedence over the planner. *)
Sourced(c, table, spec) ==
  \/ FromGenerator(c, table.columns, spec)
  \/ FromPlanner(c, table, spec) /\ spec.name \notin NamesByAll(c, table.columns)

SourcedTable(c, old, new) ==
  \A x \in Elements(new.columns) : x \in Elements(old.columns) \/ Sourced(c, old, x)

(* While the generators are asked, all is theirs. *)
AskedInv ==
  pc = "generators" /\ index <= Len(tables) =>
    \A x \in Elements(combined) : FromGenerator(ctx, tables[index].columns, x)

(* A column of the planner has its turn when those of the generators had.   *)
TurnInv ==
  pc = "dedup" =>
    /\ \A x \in Elements(seen) : Sourced(ctx, tables[index], x)
    /\ \A j \in DOMAIN combined :
         \/ FromGenerator(ctx, tables[index].columns, combined[j])
         \/ /\ FromPlanner(ctx, tables[index], combined[j])
            /\ \A n \in NamesByAll(ctx, tables[index].columns) :
                 n \in NamesIn(seen) \/ \E i \in DOMAIN combined : i < j /\ combined[i].name = n

SourcedInv ==
  pc # "idle" /\ reported = {} =>
    \A t \in 1..(index - 1) : SourcedTable(ctx, tables[t], normalized[t])

(* The tables are those that a normalisation has just returned. *)
Returned == pc = "idle" /\ outcome = "ok" /\ ctx # NoContext /\ index > Len(tables)

ReturnedInv ==
  Returned =>
    \A t \in DOMAIN tables :
      /\ GrownFrom(ctx, document.tables[t], tables[t])
      /\ SourcedTable(ctx, document.tables[t], tables[t])

SourceInv ==
  /\ tables = <<>> => index = 1
  /\ AskedInv /\ TurnInv /\ SourcedInv /\ ReturnedInv

LEMMA ElementsOfConcat ==
  ASSUME NEW S, NEW a \in Seq(S), NEW b \in Seq(S)
  PROVE  /\ DOMAIN a = 1..Len(a) /\ DOMAIN b = 1..Len(b)
         /\ Len(a) \in Nat /\ Len(b) \in Nat
         /\ DOMAIN (a \o b) = 1..(Len(a) + Len(b))
         /\ \A i \in DOMAIN (a \o b) :
              \/ i \in DOMAIN a /\ (a \o b)[i] = a[i]
              \/ i > Len(a) /\ (a \o b)[i] \in Elements(b)
         /\ \A i \in DOMAIN a : i \in DOMAIN (a \o b) /\ (a \o b)[i] = a[i]
<1>1. /\ Len(a) \in Nat /\ Len(b) \in Nat
      /\ DOMAIN a = 1..Len(a) /\ DOMAIN b = 1..Len(b)
  BY LenProperties
<1>2. /\ DOMAIN (a \o b) = 1..(Len(a) + Len(b))
      /\ \A i \in 1..(Len(a) + Len(b)) :
           (a \o b)[i] = IF i <= Len(a) THEN a[i] ELSE b[i - Len(a)]
  BY ConcatProperties, LenProperties
<1>3. \A i \in 1..(Len(a) + Len(b)) : i > Len(a) => i - Len(a) \in 1..Len(b)
  BY <1>1
<1>4. \A i \in DOMAIN (a \o b) : i > Len(a) => (a \o b)[i] \in Elements(b)
  BY <1>1, <1>2, <1>3 DEF Elements
<1>5. QED
  BY <1>1, <1>2, <1>4

LEMMA NoElements == Elements(<<>>) = {} /\ DOMAIN <<>> = {}
BY DEF Elements

(* What seen.setdefault keeps: what it had, and the column if its name is    *)
(* new.                                                                      *)
LEMMA KeptElements ==
  ASSUME NEW S, NEW kept \in Seq(S), NEW spec \in S, NEW x \in Elements(Keep(kept, spec))
  PROVE  x \in Elements(kept) \/ (x = spec /\ spec.name \notin NamesIn(kept))
<1>1. CASE spec.name \in NamesIn(kept)
  BY <1>1 DEF Keep
<1>2. CASE spec.name \notin NamesIn(kept)
  <2> DEFINE more == Append(kept, spec)
  <2>1. x \in Elements(more)
    BY <1>2 DEF Keep
  <2>2. /\ Len(more) = Len(kept) + 1 /\ more[Len(kept) + 1] = spec /\ more \in Seq(S)
        /\ \A i \in 1..Len(kept) : more[i] = kept[i]
    BY AppendProperties
  <2>3. /\ Len(kept) \in Nat /\ DOMAIN kept = 1..Len(kept) /\ DOMAIN more = 1..(Len(kept) + 1)
    BY <2>2, LenProperties
  <2> HIDE DEF more
  <2>4. PICK i \in 1..(Len(kept) + 1) : x = more[i]
    BY <2>1, <2>3 DEF Elements
  <2>5. CASE i = Len(kept) + 1
    BY <1>2, <2>2, <2>4, <2>5
  <2>6. CASE i # Len(kept) + 1
    <3>1. i \in DOMAIN kept /\ more[i] = kept[i]
      BY <2>2, <2>3, <2>6
    <3>2. QED
      BY <2>4, <3>1 DEF Elements
  <2>7. QED
    BY <2>5, <2>6
<1>3. QED
  BY <1>1, <1>2

(* The steps of normalize_schema that leave the loop, or have not begun it. *)
LEMMA OutsideLoop ==
  ASSUME Inv, SourceInv,
         LoadSchema \/ Validate \/ NormalizeWithoutContext \/ CallNormalize \/ RaiseCollisions
  PROVE  SourceInv'
<1>1. CASE LoadSchema
  <2>1. /\ pc = "idle" /\ pc' = "idle" /\ index = 1 /\ index' = 1
    BY <1>1 DEF LoadSchema, SourceInv, loop
  <2>2. Len(tables') > 0 \/ tables' = <<>>
    <3>1. document \in Documents
      BY DEF Inv, TypeOK
    <3>2. tables' = document.tables \/ tables' = <<>>
      BY <1>1 DEF LoadSchema
    <3>3. QED
      BY <3>1, <3>2, Documented
  <2>3. AskedInv' /\ TurnInv' /\ SourcedInv'
    BY <2>1 DEF AskedInv, TurnInv, SourcedInv
  <2>4. ReturnedInv'
    <3>1. CASE tables' = <<>>
      BY <3>1 DEF ReturnedInv
    <3>2. CASE Len(tables') > 0
      <4>1. Len(tables') \in Nat
        <5>1. document \in Documents
          BY DEF Inv, TypeOK
        <5>2. CASE tables' = document.tables
          BY <5>1, <5>2, Documented
        <5>3. CASE tables' = tables
          BY <1>1, <5>3 DEF LoadSchema
        <5>4. QED
          BY <1>1, <5>2, <5>3 DEF LoadSchema
      <4>2. ~(index' > Len(tables'))
        BY <2>1, <3>2, <4>1
      <4>3. QED
        BY <4>2 DEF ReturnedInv, Returned
    <3>3. QED
      BY <2>2, <3>1, <3>2
  <2>5. QED
    BY <2>1, <2>3, <2>4 DEF SourceInv
<1>2. CASE Validate \/ NormalizeWithoutContext
  <2>1. /\ pc = "idle" /\ pc' = "idle" /\ index' = index /\ tables' = tables
        /\ ~Returned'
    BY <1>2 DEF Validate, NormalizeWithoutContext, loop, Returned
  <2>2. QED
    BY <2>1 DEF SourceInv, AskedInv, TurnInv, SourcedInv, ReturnedInv
<1>3. CASE CallNormalize
  <2>1. /\ pc' = "generators" /\ index' = 1 /\ combined' = <<>> /\ tables' = tables
    BY <1>3 DEF CallNormalize
  <2>2. 1..(index' - 1) = {}
    BY <2>1
  <2>3. AskedInv'
    BY <2>1, NoElements DEF AskedInv
  <2>4. TurnInv' /\ SourcedInv' /\ ReturnedInv'
    BY <2>1, <2>2 DEF TurnInv, SourcedInv, ReturnedInv, Returned
  <2>5. QED
    BY <2>1, <2>3, <2>4 DEF SourceInv
<1>4. CASE RaiseCollisions
  <2>1. pc' = "idle" /\ outcome' = "SchemaError" /\ tables' = tables /\ index' = index
    BY <1>4 DEF RaiseCollisions, loop
  <2>2. QED
    BY <2>1 DEF SourceInv, AskedInv, TurnInv, SourcedInv, ReturnedInv, Returned
<1>5. QED
  BY <1>1, <1>2, <1>3, <1>4

(* What the steps inside the loop over a table's columns leave alone. *)
LEMMA InsideLoop ==
  ASSUME Inv, SourceInv, AskGenerator \/ AskPlanner \/ KeepImplied
  PROVE  /\ UNCHANGED <<ctx, document, tables, index, normalized, reported>>
         /\ index \in 1..Len(tables) /\ Len(tables) \in Nat
         /\ ctx \in Contexts
         /\ Table \in TableSpecs /\ Table.columns \in Seq(ColumnSpecs)
         /\ combined \in Seq(ColumnSpecs) /\ seen \in Seq(ColumnSpecs)
         /\ pc # "idle" /\ pc' # "idle"
         /\ (tables = <<>> => index = 1)' /\ SourcedInv' /\ ReturnedInv'
<1>1. /\ UNCHANGED <<ctx, document, tables, index, normalized, reported>>
      /\ pc # "idle" /\ pc' # "idle"
  BY DEF AskGenerator, AskPlanner, KeepImplied, call
<1>2. /\ tables \in Seq(TableSpecs) /\ index \in 1..Len(tables) + 1
      /\ combined \in Seq(ColumnSpecs) /\ seen \in Seq(ColumnSpecs)
  BY DEF Inv, TypeOK
<1>3. Len(tables) \in Nat /\ index <= Len(tables)
  <2>1. index <= Len(tables)
    BY DEF AskGenerator, AskPlanner, KeepImplied, Inv, AskInv
  <2>2. QED
    BY <1>2, <2>1, LenProperties
<1>4. index \in 1..Len(tables)
  BY <1>2, <1>3
<1>5. Table \in TableSpecs
  BY <1>2, <1>4, ElementOfSeq DEF Table
<1>6. Table.columns \in Seq(ColumnSpecs)
  BY <1>5 DEF TableSpecs
<1>7. ctx \in Contexts
  BY <1>1 DEF Inv, CopyInv
<1>8. (tables = <<>> => index = 1)'
  BY <1>1 DEF SourceInv
<1>9. SourcedInv'
  BY <1>1 DEF SourceInv, SourcedInv
<1>10. ReturnedInv'
  BY <1>1 DEF ReturnedInv, Returned
<1>11. QED
  BY <1>1, <1>2, <1>3, <1>4, <1>5, <1>6, <1>7, <1>8, <1>9, <1>10

LEMMA AskGeneratorSourced ==
  ASSUME Inv, SourceInv, AskGenerator
  PROVE  SourceInv'
<1>1. /\ UNCHANGED <<ctx, tables, index>>
      /\ index \in 1..Len(tables) /\ Len(tables) \in Nat
      /\ ctx \in Contexts /\ Table.columns \in Seq(ColumnSpecs)
      /\ combined \in Seq(ColumnSpecs)
      /\ (tables = <<>> => index = 1)' /\ SourcedInv' /\ ReturnedInv'
  BY InsideLoop
<1> DEFINE more == ImpliedBy(ctx, Table.columns[column])
<1>2. /\ pc = "generators" /\ pc' = "generators" /\ column <= Len(Table.columns)
      /\ combined' = combined \o more
  BY DEF AskGenerator, Implied, ImpliedBy, Registered
<1>3. more \in Seq(ColumnSpecs)
  BY <1>1, ContextTypes
<1>4. column \in DOMAIN Table.columns
  <2>1. column \in Nat \ {0}
    BY DEF Inv, TypeOK
  <2>2. QED
    BY <1>1, <1>2, <2>1, LenProperties
<1>5. \A x \in Elements(more) : FromGenerator(ctx, Table.columns, x)
  BY <1>4 DEF FromGenerator
<1> HIDE DEF more
<1>6. \A x \in Elements(combined) : FromGenerator(ctx, Table.columns, x)
  BY <1>1, <1>2 DEF SourceInv, AskedInv, Table
<1>7. ASSUME NEW x \in Elements(combined \o more) PROVE FromGenerator(ctx, Table.columns, x)
  <2>1. PICK i \in DOMAIN (combined \o more) : x = (combined \o more)[i]
    BY DEF Elements
  <2>2. x \in Elements(combined) \/ x \in Elements(more)
    BY <1>1, <1>3, <2>1, ElementsOfConcat DEF Elements
  <2>3. QED
    BY <1>5, <1>6, <2>2
<1>8. AskedInv'
  BY <1>1, <1>2, <1>7 DEF AskedInv, Table
<1>9. TurnInv'
  BY <1>2 DEF TurnInv
<1>10. QED
  BY <1>1, <1>8, <1>9 DEF SourceInv

LEMMA AskPlannerSourced ==
  ASSUME Inv, SourceInv, AskPlanner
  PROVE  SourceInv'
<1>1. /\ UNCHANGED <<ctx, tables, index>>
      /\ index \in 1..Len(tables) /\ Len(tables) \in Nat
      /\ ctx \in Contexts /\ Table \in TableSpecs /\ Table.columns \in Seq(ColumnSpecs)
      /\ combined \in Seq(ColumnSpecs)
      /\ (tables = <<>> => index = 1)' /\ SourcedInv' /\ ReturnedInv'
  BY InsideLoop
<1> DEFINE more == ctx.planned[Table.relation]
<1>2. /\ pc = "generators" /\ pc' = "dedup" /\ column > Len(Table.columns)
      /\ combined' = combined \o more /\ seen' = seen /\ seen = <<>>
  BY DEF AskPlanner, Inv, AskInv
<1>3. more \in Seq(ColumnSpecs)
  BY <1>1, ContextTypes
<1>4. \A x \in Elements(more) : FromPlanner(ctx, Table, x)
  BY DEF FromPlanner
<1> HIDE DEF more
<1>5. \A x \in Elements(combined) : FromGenerator(ctx, Table.columns, x)
  BY <1>1, <1>2 DEF SourceInv, AskedInv, Table
<1>6. NamesIn(combined) = NamesByAll(ctx, Table.columns)
  <2>1. /\ column <= Len(Table.columns) + 1
        /\ NamesIn(combined) = NamesByFirst(ctx, Table.columns, column - 1)
    BY <1>1, <1>2 DEF Inv, AskInv, Table
  <2>2. column \in Nat /\ Len(Table.columns) \in Nat
    BY <1>1, LenProperties DEF Inv, TypeOK
  <2>3. column - 1 = Len(Table.columns)
    BY <1>2, <2>1, <2>2
  <2>4. QED
    BY <1>1, <2>1, <2>3, NamesByEvery
<1>7. ASSUME NEW j \in DOMAIN (combined \o more)
      PROVE  \/ FromGenerator(ctx, Table.columns, (combined \o more)[j])
             \/ /\ FromPlanner(ctx, Table, (combined \o more)[j])
                /\ \A n \in NamesByAll(ctx, Table.columns) :
                     \E i \in DOMAIN (combined \o more) : i < j /\ (combined \o more)[i].name = n
  <2>1. CASE j \in DOMAIN combined /\ (combined \o more)[j] = combined[j]
    BY <1>5, <2>1 DEF Elements
  <2>2. CASE j > Len(combined) /\ (combined \o more)[j] \in Elements(more)
    <3>1. ASSUME NEW n \in NamesByAll(ctx, Table.columns)
          PROVE  \E i \in DOMAIN (combined \o more) : i < j /\ (combined \o more)[i].name = n
      <4>1. PICK i \in DOMAIN combined : n = combined[i].name
        BY <1>6 DEF NamesIn
      <4>2. /\ i \in DOMAIN (combined \o more) /\ (combined \o more)[i] = combined[i]
            /\ DOMAIN combined = 1..Len(combined) /\ Len(combined) \in Nat
            /\ DOMAIN (combined \o more) = 1..(Len(combined) + Len(more)) /\ Len(more) \in Nat
        BY <1>1, <1>3, <4>1, ElementsOfConcat
      <4>3. i < j
        BY <1>7, <2>2, <4>1, <4>2
      <4>4. QED
        BY <4>1, <4>2, <4>3
    <3>2. QED
      BY <1>4, <2>2, <3>1
  <2>3. QED
    BY <1>1, <1>3, <2>1, <2>2, ElementsOfConcat
<1>8. TurnInv'
  <2>1. Elements(seen') = {}
    BY <1>2, NoElements
  <2>2. tables'[index'] = Table /\ ctx' = ctx
    BY <1>1 DEF Table
  <2>3. QED
    BY <1>2, <1>7, <2>1, <2>2 DEF TurnInv
<1>9. AskedInv'
  BY <1>2 DEF AskedInv
<1>10. QED
  BY <1>1, <1>8, <1>9 DEF SourceInv

LEMMA KeepImpliedSourced ==
  ASSUME Inv, SourceInv, KeepImplied
  PROVE  SourceInv'
<1>1. /\ UNCHANGED <<ctx, tables, index>>
      /\ combined \in Seq(ColumnSpecs) /\ seen \in Seq(ColumnSpecs)
      /\ (tables = <<>> => index = 1)' /\ SourcedInv' /\ ReturnedInv'
  BY InsideLoop
<1> DEFINE head == Head(combined)
           rest == Tail(combined)
           Gen(x) == FromGenerator(ctx, Table.columns, x)
           Plan(x) == FromPlanner(ctx, Table, x)
           Theirs == NamesByAll(ctx, Table.columns)
<1>2. /\ pc = "dedup" /\ pc' = "dedup" /\ combined # <<>>
      /\ seen' = Keep(seen, head) /\ combined' = rest
      /\ Unique(seen)
  BY DEF KeepImplied, Inv, AskInv
<1>3. /\ \A x \in Elements(seen) : Gen(x) \/ (Plan(x) /\ x.name \notin Theirs)
      /\ \A j \in DOMAIN combined :
           \/ Gen(combined[j])
           \/ /\ Plan(combined[j])
              /\ \A n \in Theirs :
                   n \in NamesIn(seen) \/ \E i \in DOMAIN combined : i < j /\ combined[i].name = n
  BY <1>2 DEF SourceInv, TurnInv, Table, Sourced
<1>4. /\ head \in ColumnSpecs /\ rest \in Seq(ColumnSpecs) /\ head = combined[1]
      /\ Len(combined) \in Nat \ {0} /\ DOMAIN combined = 1..Len(combined)
      /\ DOMAIN rest = 1..(Len(combined) - 1)
      /\ \A i \in 1..(Len(combined) - 1) : rest[i] = combined[i + 1]
  <2>1. /\ head \in ColumnSpecs /\ rest \in Seq(ColumnSpecs) /\ head = combined[1]
        /\ Len(rest) = Len(combined) - 1
        /\ \A i \in 1..Len(rest) : rest[i] = combined[i + 1]
    BY <1>1, <1>2, HeadTailProperties
  <2>2. Len(combined) \in Nat \ {0} /\ DOMAIN combined = 1..Len(combined) /\ DOMAIN rest = 1..Len(rest)
    BY <1>1, <1>2, <2>1, EmptySeq, LenProperties
  <2>3. QED
    BY <2>1, <2>2
<1>5. \A x \in Elements(seen') : Sourced(ctx, Table, x)
  <2>1. Gen(head) \/ (Plan(head) /\ Theirs \subseteq NamesIn(seen))
    <3>1. 1 \in DOMAIN combined /\ \A i \in DOMAIN combined : ~(i < 1)
      BY <1>4
    <3>2. QED
      BY <1>3, <1>4, <3>1
  <2>2. ASSUME NEW x \in Elements(seen') PROVE Gen(x) \/ (Plan(x) /\ x.name \notin Theirs)
    <3>1. x \in Elements(seen) \/ (x = head /\ head.name \notin NamesIn(seen))
      BY <1>1, <1>2, <1>4, KeptElements
    <3>2. QED
      BY <1>3, <2>1, <3>1
  <2>3. QED
    BY <2>2 DEF Sourced
<1>6. NamesIn(seen') = NamesIn(seen) \cup {head.name}
  BY <1>1, <1>2, <1>4, KeepProperties
<1> HIDE DEF head, rest, Gen, Plan, Theirs
<1>7. ASSUME NEW j \in DOMAIN rest
      PROVE  \/ Gen(rest[j])
             \/ /\ Plan(rest[j])
                /\ \A n \in Theirs :
                     n \in NamesIn(seen') \/ \E i \in DOMAIN rest : i < j /\ rest[i].name = n
  <2>1. j + 1 \in DOMAIN combined /\ rest[j] = combined[j + 1] /\ j \in Nat
    BY <1>4
  <2>2. ASSUME NEW n,
               n \in NamesIn(seen) \/ \E i \in DOMAIN combined : i < j + 1 /\ combined[i].name = n
        PROVE  n \in NamesIn(seen') \/ \E i \in DOMAIN rest : i < j /\ rest[i].name = n
    <3>1. CASE n \in NamesIn(seen)
      BY <1>6, <3>1
    <3>2. ASSUME NEW i \in DOMAIN combined, i < j + 1, combined[i].name = n
          PROVE  n \in NamesIn(seen') \/ \E k \in DOMAIN rest : k < j /\ rest[k].name = n
      <4>1. CASE i = 1
        BY <1>4, <1>6, <3>2, <4>1
      <4>2. CASE i # 1
        <5>1. i - 1 \in DOMAIN rest /\ i - 1 < j /\ (i - 1) + 1 = i
          BY <1>4, <2>1, <3>2, <4>2
        <5>2. rest[i - 1] = combined[i]
          BY <1>4, <5>1
        <5>3. QED
          BY <3>2, <5>1, <5>2
      <4>3. QED
        BY <4>1, <4>2
    <3>3. QED
      BY <2>2, <3>1, <3>2
  <2>3. QED
    BY <1>3, <2>1, <2>2
<1>8. TurnInv'
  <2>1. tables'[index'] = Table /\ ctx' = ctx /\ combined' = rest
    BY <1>1, <1>2 DEF Table
  <2>2. QED
    BY <1>5, <1>7, <2>1 DEF TurnInv, Gen, Plan, Theirs
<1>9. AskedInv'
  BY <1>2 DEF AskedInv
<1>10. QED
  BY <1>1, <1>8, <1>9 DEF SourceInv

LEMMA EndTableSourced ==
  ASSUME Inv, SourceInv, EndTable
  PROVE  SourceInv'
<1>1. /\ pc = "dedup" /\ combined = <<>> /\ combined' = <<>>
      /\ pc' = "generators" /\ index' = index + 1
      /\ UNCHANGED <<ctx, document, tables>>
  BY DEF EndTable
<1>2. /\ index <= Len(tables) /\ ctx \in Contexts /\ tables # <<>>
      /\ reported = {} => Len(normalized) = index - 1
  BY <1>1 DEF Inv, AskInv, CopyInv
<1>3. /\ tables \in Seq(TableSpecs) /\ normalized \in Seq(TableSpecs) /\ seen \in Seq(ColumnSpecs)
      /\ Len(tables) \in Nat /\ index \in Nat \ {0} /\ index \in 1..Len(tables)
  <2>1. /\ tables \in Seq(TableSpecs) /\ normalized \in Seq(TableSpecs) /\ seen \in Seq(ColumnSpecs)
        /\ index \in 1..Len(tables) + 1
    BY DEF Inv, TypeOK
  <2>2. Len(tables) \in Nat
    BY <2>1, LenProperties
  <2>3. QED
    BY <1>2, <2>1, <2>2
<1>4. Table \in TableSpecs /\ Table = tables[index]
  BY <1>3, ElementOfSeq DEF Table
<1>5. AskedInv' /\ TurnInv' /\ ReturnedInv' /\ (tables = <<>> => index = 1)'
  BY <1>1, <1>2, NoElements DEF AskedInv, TurnInv, ReturnedInv, Returned
<1>6. SourcedInv'
  <2> SUFFICES ASSUME reported' = {}, NEW t \in 1..(index' - 1)
               PROVE  SourcedTable(ctx, tables[t], normalized'[t])
    BY <1>1 DEF SourcedInv
  <2> DEFINE new == Grown(Table, seen)
  <2>1. reported = {} /\ normalized' = Append(normalized, new)
    BY DEF EndTable
  <2>2. new \in TableSpecs /\ new.columns = Table.columns \o seen /\ Table.columns \in Seq(ColumnSpecs)
    BY <1>3, <1>4, GrownTable
  <2> HIDE DEF new
  <2>3. /\ \A u \in 1..(index - 1) : normalized'[u] = normalized[u]
        /\ normalized'[index] = new
    BY <1>2, <1>3, <2>1, <2>2, AppendProperties
  <2>4. CASE t \in 1..(index - 1)
    BY <1>1, <2>1, <2>3, <2>4 DEF SourceInv, SourcedInv
  <2>5. CASE t = index
    <3>1. ASSUME NEW x \in Elements(new.columns)
          PROVE  x \in Elements(Table.columns) \/ Sourced(ctx, Table, x)
      <4> DEFINE own == Table.columns
      <4>1. own \in Seq(ColumnSpecs) /\ new.columns = own \o seen
        BY <2>2
      <4> HIDE DEF own
      <4>2. x \in Elements(own) \/ x \in Elements(seen)
        <5>1. PICK i \in DOMAIN (own \o seen) : x = (own \o seen)[i]
          BY <3>1, <4>1 DEF Elements
        <5>2. QED
          BY <1>3, <4>1, <5>1, ElementsOfConcat DEF Elements
      <4>3. \A y \in Elements(seen) : Sourced(ctx, Table, y)
        BY <1>1, <1>4 DEF SourceInv, TurnInv
      <4>4. QED
        BY <4>2, <4>3 DEF own
    <3>2. QED
      BY <1>4, <2>3, <2>5, <3>1 DEF SourcedTable
  <2>6. QED
    BY <1>1, <1>3, <2>4, <2>5
<1>7. QED
  BY <1>5, <1>6 DEF SourceInv

LEMMA ReturnNormalizedSourced ==
  ASSUME Inv, SourceInv, ReturnNormalized
  PROVE  SourceInv'
<1>1. /\ pc = "generators" /\ pc' = "idle" /\ index > Len(tables) /\ reported = {}
      /\ tables' = normalized /\ UNCHANGED <<ctx, document, index>>
  BY DEF ReturnNormalized, loop
<1>2. /\ tables = document.tables /\ ctx \in Contexts
      /\ Len(normalized) = Len(tables)
      /\ \A t \in 1..Len(tables) : GrownFrom(ctx, tables[t], normalized[t])
  BY ReturnsFresh DEF Growths
<1>3. /\ normalized \in Seq(TableSpecs) /\ Len(tables) \in Nat \ {0} /\ index = Len(tables) + 1
      /\ DOMAIN normalized = 1..Len(tables)
  <2>1. /\ normalized \in Seq(TableSpecs) /\ index \in 1..Len(tables) + 1 /\ document \in Documents
    BY DEF Inv, TypeOK
  <2>2. Len(tables) \in Nat \ {0}
    BY <1>2, <2>1, Documented
  <2>3. DOMAIN normalized = 1..Len(normalized)
    BY <2>1, LenProperties
  <2>4. index = Len(tables) + 1
    BY <1>1, <2>1, <2>2
  <2>5. QED
    BY <1>2, <2>1, <2>2, <2>3, <2>4
<1>4. \A t \in 1..Len(tables) : SourcedTable(ctx, tables[t], normalized[t])
  <2>1. index - 1 = Len(tables)
    BY <1>3
  <2>2. QED
    BY <1>1, <2>1 DEF SourceInv, SourcedInv
<1>5. ReturnedInv'
  BY <1>1, <1>2, <1>3, <1>4 DEF ReturnedInv
<1>6. tables' # <<>>
  <2>1. Len(tables') # 0
    BY <1>1, <1>2, <1>3
  <2>2. QED
    BY <2>1
<1>7. QED
  BY <1>1, <1>5, <1>6 DEF SourceInv, AskedInv, TurnInv, SourcedInv

LEMMA ByGeneratorsAre ==
  ASSUME NEW table, NEW spec
  PROVE  spec \in ByGenerators(table) <=> FromGenerator(ctx, table.columns, spec)
<1>1. \A e : Implied(e) = ImpliedBy(ctx, e)
  BY DEF Implied, ImpliedBy, Registered
<1>2. spec \in ByGenerators(table) <=>
        \E e \in Elements(table.columns) : spec \in Elements(Implied(e))
  BY DEF ByGenerators
<1>3. \A e : e \in Elements(table.columns) <=> \E i \in DOMAIN table.columns : e = table.columns[i]
  BY DEF Elements
<1>4. QED
  BY <1>1, <1>2, <1>3 DEF FromGenerator

(* What normalize_schema returns has all the columns that are implied, and   *)
(* nothing else; where a generator and the planner imply a name, it has the  *)
(* generator's column.                                                       *)
THEOREM NormalizedIsComplete == Spec => []ImpliedComplete
<1>1. Init => SourceInv
  BY DEF Init, SourceInv, AskedInv, TurnInv, SourcedInv, ReturnedInv, Returned
<1>2. Inv /\ SourceInv /\ [Next]_vars => SourceInv'
  <2> SUFFICES ASSUME Inv, SourceInv, [Next]_vars PROVE SourceInv'
    OBVIOUS
  <2>1. CASE UNCHANGED vars
    BY <2>1 DEF vars, loop, call, SourceInv, AskedInv, TurnInv, SourcedInv, ReturnedInv, Returned
  <2>2. QED
    BY <2>1, OutsideLoop, AskGeneratorSourced, AskPlannerSourced, KeepImpliedSourced,
       EndTableSourced, ReturnNormalizedSourced DEF Next, Normalize
<1>3. Inv /\ SourceInv => ImpliedComplete
  <2> SUFFICES ASSUME Inv, SourceInv, Returned, NEW t \in DOMAIN tables
               PROVE  LET declared == document.tables[t]
                          added    == Elements(tables[t].columns) \ Elements(declared.columns)
                      IN  /\ NamesIn(tables[t].columns) =
                               NamesIn(declared.columns) \cup ImpliedNames(declared)
                          /\ \A spec \in added :
                               \/ spec \in ByGenerators(declared)
                               \/ spec \in ByPlanner(declared)
                                  /\ \A other \in ByGenerators(declared) : other.name # spec.name
    BY DEF ImpliedComplete, Returned
  <2> DEFINE old == document.tables[t]
             new == tables[t]
  <2>1. tables # <<>> /\ old \in TableSpecs
    <3>1. tables # <<>>
      BY NoElements
    <3>2. QED
      BY <3>1, HeldTables
  <2>2. GrownFrom(ctx, old, new) /\ SourcedTable(ctx, old, new)
    BY DEF SourceInv, ReturnedInv
  <2> HIDE DEF old, new
  <2>3. NamesIn(new.columns) = NamesIn(old.columns) \cup ImpliedNames(old)
    <3>1. PICK s \in Seq(ColumnSpecs) : GrowthOf(ctx, old, s) /\ new = Grown(old, s)
      BY <2>2 DEF GrownFrom
    <3>2. new.columns = old.columns \o s /\ old.columns \in Seq(ColumnSpecs)
      BY <2>1, <3>1, GrownTable
    <3>3. NamesIn(old.columns \o s) = NamesIn(old.columns) \cup NamesIn(s)
      BY <3>2, NamesInConcat
    <3>4. NamesIn(s) = ImpliedNames(old)
      BY <3>1, ImpliedNamesAre DEF GrowthOf
    <3>5. QED
      BY <3>2, <3>3, <3>4
  <2>4. ASSUME NEW spec \in Elements(new.columns) \ Elements(old.columns)
        PROVE  \/ spec \in ByGenerators(old)
               \/ spec \in ByPlanner(old)
                  /\ \A other \in ByGenerators(old) : other.name # spec.name
    <3>1. Sourced(ctx, old, spec)
      BY <2>2 DEF SourcedTable
    <3>2. CASE FromGenerator(ctx, old.columns, spec)
      BY <3>2, ByGeneratorsAre
    <3>3. CASE FromPlanner(ctx, old, spec) /\ spec.name \notin NamesByAll(ctx, old.columns)
      <4>1. ASSUME NEW other \in ByGenerators(old) PROVE other.name \in NamesByAll(ctx, old.columns)
        <5>1. PICK i \in DOMAIN old.columns : other \in Elements(ImpliedBy(ctx, old.columns[i]))
          BY ByGeneratorsAre DEF FromGenerator
        <5>2. other.name \in NamesIn(ImpliedBy(ctx, old.columns[i]))
          BY <5>1 DEF Elements, NamesIn
        <5>3. QED
          BY <5>2 DEF NamesByAll
      <4>2. QED
        BY <3>3, <4>1 DEF FromPlanner, ByPlanner
    <3>4. QED
      BY <3>1, <3>2, <3>3 DEF Sourced
  <2>5. QED
    BY <2>3, <2>4 DEF old, new
<1>4. QED
  BY <1>1, <1>2, <1>3, Invariance, PTL DEF Spec

(* The schema, its copy in the making and the reports keep their types,      *)
(* whatever the caller loads, validates and normalises.                      *)
THEOREM TypeCorrect == Spec => []TypeOK
<1>1. Inv => TypeOK
  BY DEF Inv
<1>2. QED
  BY Invariance, <1>1, PTL
=============================================================================
