---------------------------- MODULE ScriptProofs ----------------------------
(***************************************************************************)
(* The two scripts that gate a commit, for any values of their constants.  *)
(*                                                                         *)
(* The hooks of SecurityHooks, for any findings, exceptions and sources,   *)
(* any number of edits and days: a hook that ends with 0 has reasons that  *)
(* it has read itself, the exceptions are as it says, and the hook of the  *)
(* exceptions refuses only what is wrong.  The inductive invariant (Inv):  *)
(* each phase belongs to its hooks, and a run that has not ended has no    *)
(* exit status (PhaseInv); what the tool is told to ignore comes from the  *)
(* entries that the run has read, whatever is in the working tree from     *)
(* earlier runs (ReasonInv); and what the check has found is still so      *)
(* unless the run was disturbed (CheckInv).                                *)
(*                                                                         *)
(* The rendering of DockerfileRender, for any areas, any tidy template and *)
(* any fragments: a main that ends with 1 leaves its cause to be seen, and *)
(* after one that ends with 0 docker build runs what the files mean.  That *)
(* is first a fact about texts (BuiltAsIntended), by induction over the    *)
(* areas and over the lines of the template; then RenderInv says how far   *)
(* the blocks of a run have come and carries it through the interleavings. *)
(***************************************************************************)
EXTENDS SecurityHooks, DockerfileRender, SequenceTheorems, WellFoundedInduction, TLAPS

-----------------------------------------------------------------------------
(* The hooks: the inductive invariant. *)
AfterCheck == {"key", "read", "suppress", "export", "scan", "clean"}
AfterRead  == {"suppress", "export", "scan", "clean"}

PhaseInv ==
  /\ pc # "idle" => exit = 2
  /\ pc \in AfterCheck => hook \in KNOWN_TOOLS
  /\ pc \in {"key", "suppress", "clean"} => hook = "dependency-check"

ReasonInv ==
  /\ pc \in AfterRead => ids = IgnoredBy(readFile, hook)
  /\ pc \in {"export", "scan", "clean"} /\ hook = "dependency-check" /\ ids # {} =>
       suppression = ids
  /\ pc = "clean" /\ status = 0 => found \subseteq ids
  /\ exit = 0 /\ hook \in KNOWN_TOOLS => found \subseteq IgnoredBy(readFile, hook)

CheckInv ==
  /\ (pc \in AfterCheck \/ exit = 0) /\ ~disturbed => Errors = {}
  /\ exit = 1 /\ hook = "security-exceptions" /\ ~disturbed => Errors # {}

Inv == TypeOK /\ PhaseInv /\ ReasonInv /\ CheckInv

-----------------------------------------------------------------------------
(* What parse_exceptions lets through names findings. *)
LEMMA IgnoredAreIds ==
  ASSUME NEW f \in SUBSET Entries, NEW tool
  PROVE  IgnoredBy(f, tool) \subseteq Ids
BY DEF IgnoredBy, Parsed, Entries

(* What a tool is told to ignore is registered for it, and the other way     *)
(* round for a tool that is known.                                           *)
LEMMA IgnoredAreRegistered ==
  ASSUME NEW f, NEW tool, NEW id
  PROVE  /\ id \in IgnoredBy(f, tool) => Registered(f, tool, id)
         /\ tool \in KNOWN_TOOLS /\ Registered(f, tool, id) => id \in IgnoredBy(f, tool)
BY DEF IgnoredBy, Parsed, EntryErrors, Registered

LEMMA FilesAndSources ==
  ASSUME TypeOK
  PROVE  /\ file \subseteq Entries /\ source \subseteq Comments
         /\ today \in Nat
BY HooksAssumption DEF TypeOK

(* Without errors every entry is complete, for a known tool and not past its *)
(* day.                                                                      *)
LEMMA NoErrorsIsCurrent ==
  ASSUME TypeOK, Errors = {}
  PROVE  /\ \A e \in file : e.complete /\ e.tool \in KNOWN_TOOLS /\ e.expires >= today
         /\ hook = "security-exceptions" =>
              \A c \in source : c.ids # {} /\ \A id \in c.ids : Registered(file, c.tool, id)
<1>1. EntryErrors(file) = {} /\ Expired(file) = {}
  BY DEF Errors
<1>2. \A e \in file : e.complete /\ e.tool \in KNOWN_TOOLS
  BY <1>1 DEF EntryErrors
<1>3. ASSUME NEW e \in file PROVE e.expires >= today
  <2>1. ~(e.expires < today)
    BY <1>1, <1>3 DEF Expired, Parsed
  <2>2. e.expires \in Nat /\ today \in Nat
    BY <1>3, FilesAndSources, HooksAssumption DEF Entries, NotADate
  <2>3. QED
    BY <2>1, <2>2
<1>4. ASSUME hook = "security-exceptions", NEW c \in source
      PROVE  c.ids # {} /\ \A id \in c.ids : Registered(file, c.tool, id)
  <2>1. c \notin Unregistered(file, source)
    BY <1>4 DEF Errors
  <2>2. c.ids # {} /\ c.ids \subseteq IgnoredBy(file, c.tool)
    BY <1>4, <2>1 DEF Unregistered
  <2>3. QED
    BY <2>2, IgnoredAreRegistered
<1>5. QED
  BY <1>2, <1>3, <1>4

(* An error has a cause in the exceptions or in the sources. *)
LEMMA ErrorsHaveCause ==
  ASSUME TypeOK, Errors # {}, hook = "security-exceptions"
  PROVE  \/ \E e \in file : ~e.complete \/ e.tool \notin KNOWN_TOOLS \/ e.expires < today
         \/ \E c \in source : c.ids = {} \/ \E id \in c.ids : ~Registered(file, c.tool, id)
<1>1. CASE EntryErrors(file) # {}
  BY <1>1 DEF EntryErrors
<1>2. CASE Expired(file) # {}
  BY <1>2 DEF Expired, Parsed
<1>3. CASE Unregistered(file, source) # {}
  <2>1. PICK c \in source : c.ids = {} \/ c.ids \ IgnoredBy(file, c.tool) # {}
    BY <1>3 DEF Unregistered
  <2>2. c.tool \in KNOWN_TOOLS
    BY FilesAndSources DEF Comments, KNOWN_TOOLS
  <2>3. QED
    BY <2>1, <2>2, IgnoredAreRegistered
<1>4. QED
  BY <1>1, <1>2, <1>3 DEF Errors

-----------------------------------------------------------------------------
LEMMA InitInv == Init => Inv
<1> SUFFICES ASSUME Init PROVE Inv
  OBVIOUS
<1>1. TypeOK
  <2>1. today \in 1..LastDay /\ edits \in 0..MaxEdits
    BY HooksAssumption DEF Init
  <2>2. /\ file \in Files /\ source \in Sources /\ hook \in Hooks
        /\ pc = "idle" /\ status = 0 /\ exit = 2
        /\ present = FALSE /\ exported = FALSE /\ disturbed = FALSE
        /\ ids = {} /\ suppression = {} /\ readFile = {} /\ found = {}
    BY DEF Init
  <2>3. QED
    BY <2>1, <2>2 DEF TypeOK
<1>2. PhaseInv /\ ReasonInv /\ CheckInv
  BY DEF Init, PhaseInv, ReasonInv, CheckInv, AfterCheck, AfterRead
<1>3. QED
  BY <1>1, <1>2 DEF Inv

(* What was found wrong stays so while the world and the hook stay.         *)
LEMMA SameErrors ==
  ASSUME UNCHANGED <<file, source, today, hook>>
  PROVE  Errors' = Errors
BY DEF Errors, EntryErrors, Expired, Parsed, Unregistered, IgnoredBy

LEMMA TypeStep ==
  ASSUME Inv, [Next]_vars
  PROVE  TypeOK'
<1> USE DEF Inv
<1>1. CASE Start
  BY <1>1 DEF Start, TypeOK, world, tree
<1>2. CASE CheckExceptions
  BY <1>2 DEF CheckExceptions, EndWith, Quiet, TypeOK, world, observed, tree
<1>3. CASE LookForKey
  BY <1>3 DEF LookForKey, EndWith, Quiet, TypeOK, world, observed, tree
<1>4. CASE ReadExceptions
  <2>1. file \subseteq Entries /\ IgnoredBy(file, hook) \subseteq Ids
    BY FilesAndSources, IgnoredAreIds
  <2>2. ids' \subseteq Ids /\ readFile' \subseteq Entries
    BY <1>4, <2>1 DEF ReadExceptions, TypeOK
  <2>3. pc' \in {"idle", "suppress", "export", "scan"} /\ exit' \in {0, 1, 2}
    BY <1>4 DEF ReadExceptions, EndWith, TypeOK
  <2>4. UNCHANGED <<file, source, today, edits, hook, found, disturbed, suppression, present,
                    exported, status>>
    BY <1>4 DEF ReadExceptions, world, tree
  <2>5. QED
    BY <2>2, <2>3, <2>4 DEF TypeOK
<1>5. CASE WriteSuppressionFile
  BY <1>5 DEF WriteSuppressionFile, Quiet, TypeOK, world, observed
<1>6. CASE Export
  BY <1>6 DEF Export, EndWith, Quiet, TypeOK, world, observed
<1>7. CASE Scan
  <2>1. /\ found' \subseteq Ids /\ status' \in {0, 1}
        /\ pc' \in {"clean", "idle"} /\ exit' \in {0, 1, 2}
    BY <1>7 DEF Scan, EndWith, TypeOK
  <2>2. UNCHANGED <<file, source, today, edits, hook, readFile, disturbed, ids, suppression,
                    present, exported>>
    BY <1>7 DEF Scan, world, tree
  <2>3. QED
    BY <2>1, <2>2 DEF TypeOK
<1>8. CASE Clean
  BY <1>8 DEF Clean, EndWith, Quiet, TypeOK, world, observed
<1>9. CASE Kill
  BY <1>9 DEF Kill, EndWith, Quiet, TypeOK, world, observed, tree
<1>10. CASE Edit
  BY <1>10, HooksAssumption DEF Edit, Disturb, TypeOK, tree
<1>11. CASE Midnight
  BY <1>11, HooksAssumption DEF Midnight, Disturb, TypeOK, tree
<1>12. CASE UNCHANGED vars
  BY <1>12 DEF vars, world, tree, observed, TypeOK
<1>13. QED
  BY <1>1, <1>2, <1>3, <1>4, <1>5, <1>6, <1>7, <1>8, <1>9, <1>10, <1>11, <1>12 DEF Next

LEMMA PhaseStep ==
  ASSUME Inv, [Next]_vars
  PROVE  PhaseInv'
<1> USE DEF Inv, PhaseInv, AfterCheck
<1>1. CASE Start
  BY <1>1 DEF Start
<1>2. CASE CheckExceptions
  BY <1>2 DEF CheckExceptions, EndWith, Quiet, TypeOK, Hooks, KNOWN_TOOLS
<1>3. CASE LookForKey
  BY <1>3 DEF LookForKey, EndWith, Quiet
<1>4. CASE ReadExceptions
  BY <1>4 DEF ReadExceptions, EndWith, KNOWN_TOOLS
<1>5. CASE WriteSuppressionFile
  BY <1>5 DEF WriteSuppressionFile, Quiet
<1>6. CASE Export
  BY <1>6 DEF Export, EndWith, Quiet
<1>7. CASE Scan
  BY <1>7 DEF Scan, EndWith
<1>8. CASE Clean
  BY <1>8 DEF Clean, EndWith, Quiet
<1>9. CASE Kill
  BY <1>9 DEF Kill, EndWith, Quiet
<1>10. CASE Edit \/ Midnight
  BY <1>10 DEF Edit, Midnight
<1>11. CASE UNCHANGED vars
  BY <1>11 DEF vars
<1>12. QED
  BY <1>1, <1>2, <1>3, <1>4, <1>5, <1>6, <1>7, <1>8, <1>9, <1>10, <1>11 DEF Next

(* What the tool is told to ignore comes from what the run has read; a file  *)
(* that an earlier run has left is not given to the tool.                    *)
LEMMA ReasonStep ==
  ASSUME Inv, [Next]_vars
  PROVE  ReasonInv'
<1> USE DEF Inv
<1>1. ASSUME pc' \notin AfterRead, exit' # 0 PROVE ReasonInv'
  BY <1>1 DEF ReasonInv, AfterRead
<1>2. CASE Start
  BY <1>1, <1>2 DEF Start, AfterRead
<1>3. CASE CheckExceptions
  <2>1. hook' = hook /\ pc' \notin AfterRead
    BY <1>3 DEF CheckExceptions, EndWith, Quiet, AfterRead
  <2>2. exit' = 0 => hook \notin KNOWN_TOOLS
    BY <1>3 DEF CheckExceptions, EndWith, PhaseInv, KNOWN_TOOLS
  <2>3. QED
    BY <2>1, <2>2 DEF ReasonInv, AfterRead
<1>4. CASE LookForKey
  BY <1>1, <1>4 DEF LookForKey, EndWith, AfterRead, PhaseInv
<1>5. CASE ReadExceptions
  <2>1. exit' = 2 /\ hook' = hook
    BY <1>5 DEF ReadExceptions, EndWith, PhaseInv
  <2>2. CASE pc' = "idle"
    BY <1>1, <2>1, <2>2 DEF AfterRead
  <2>3. CASE pc' # "idle"
    <3>1. /\ ids' = IgnoredBy(file, hook) /\ readFile' = file
          /\ pc' \in {"suppress", "export", "scan"}
          /\ hook = "dependency-check" => pc' = "suppress"
      BY <1>5, <2>3 DEF ReadExceptions, EndWith
    <3>2. ids' = IgnoredBy(readFile, hook)'
      BY <2>1, <3>1
    <3>3. QED
      BY <2>1, <3>1, <3>2 DEF ReasonInv
  <2>4. QED
    BY <2>2, <2>3
<1>6. CASE WriteSuppressionFile
  <2>1. /\ pc = "suppress" /\ pc' = "export" /\ exit' = 2
        /\ UNCHANGED <<ids, readFile, hook>>
        /\ ids # {} => suppression' = ids
    BY <1>6 DEF WriteSuppressionFile, Quiet, observed, PhaseInv
  <2>2. ids = IgnoredBy(readFile, hook) /\ IgnoredBy(readFile, hook)' = IgnoredBy(readFile, hook)
    BY <2>1 DEF ReasonInv, AfterRead, IgnoredBy, Parsed, EntryErrors
  <2>3. QED
    BY <2>1, <2>2 DEF ReasonInv
<1>7. CASE Export
  <2>1. /\ pc = "export" /\ pc' \in {"scan", "idle"} /\ exit' = 2
        /\ UNCHANGED <<ids, readFile, hook, suppression>>
    BY <1>7 DEF Export, EndWith, Quiet, observed, PhaseInv
  <2>2. IgnoredBy(readFile, hook)' = IgnoredBy(readFile, hook)
    BY <2>1 DEF IgnoredBy, Parsed, EntryErrors
  <2>3. QED
    BY <2>1, <2>2 DEF ReasonInv, AfterRead
<1>8. CASE Scan
  <2>1. /\ pc = "scan" /\ UNCHANGED <<ids, readFile, hook, suppression>>
        /\ status' = 0 => found' \subseteq Ignored
        /\ hook = "dependency-check" => pc' = "clean" /\ exit' = exit
        /\ hook # "dependency-check" => pc' = "idle" /\ exit' = status'
    BY <1>8 DEF Scan, EndWith, tree
  <2>2. ids = IgnoredBy(readFile, hook) /\ exit = 2
    BY <2>1 DEF ReasonInv, PhaseInv, AfterRead
  <2>3. IgnoredBy(readFile, hook)' = IgnoredBy(readFile, hook)
    BY <2>1 DEF IgnoredBy, Parsed, EntryErrors
  <2>4. Ignored = ids
    BY <2>1 DEF Ignored, ReasonInv
  <2>5. QED
    BY <2>1, <2>2, <2>3, <2>4 DEF ReasonInv
<1>9. CASE Clean
  <2>1. /\ pc = "clean" /\ pc' = "idle" /\ exit' = status
        /\ UNCHANGED <<ids, readFile, hook, found>>
    BY <1>9 DEF Clean, EndWith, Quiet, observed
  <2>2. IgnoredBy(readFile, hook)' = IgnoredBy(readFile, hook)
    BY <2>1 DEF IgnoredBy, Parsed, EntryErrors
  <2>3. QED
    BY <2>1, <2>2 DEF ReasonInv, AfterRead
<1>10. CASE Kill
  BY <1>1, <1>10 DEF Kill, EndWith, AfterRead
<1>11. CASE Edit \/ Midnight
  <2>1. exit' = 2 /\ UNCHANGED <<pc, ids, readFile, hook, suppression, status, found>>
    BY <1>11 DEF Edit, Midnight, tree
  <2>2. IgnoredBy(readFile, hook)' = IgnoredBy(readFile, hook)
    BY <2>1 DEF IgnoredBy, Parsed, EntryErrors
  <2>3. QED
    BY <2>1, <2>2 DEF ReasonInv
<1>12. CASE UNCHANGED vars
  <2>1. UNCHANGED <<pc, exit, ids, readFile, hook, suppression, status, found>>
    BY <1>12 DEF vars, tree, observed
  <2>2. IgnoredBy(readFile, hook)' = IgnoredBy(readFile, hook)
    BY <2>1 DEF IgnoredBy, Parsed, EntryErrors
  <2>3. QED
    BY <2>1, <2>2 DEF ReasonInv
<1>13. QED
  BY <1>2, <1>3, <1>4, <1>5, <1>6, <1>7, <1>8, <1>9, <1>10, <1>11, <1>12 DEF Next

(* What check has found holds of the files until one of them or the day      *)
(* changes: during a run that is a disturbance, after it the exit status is  *)
(* forgotten.                                                                *)
LEMMA CheckStep ==
  ASSUME Inv, [Next]_vars
  PROVE  CheckInv'
<1> USE DEF Inv
<1>1. CASE Start
  BY <1>1 DEF Start, CheckInv, AfterCheck
<1>2. CASE CheckExceptions
  <2>1. Errors' = Errors
    BY <1>2, SameErrors DEF CheckExceptions, Quiet, world
  <2>2. /\ pc' \in AfterCheck \/ exit' = 0 => Errors = {}
        /\ exit' = 1 => Errors # {}
    BY <1>2 DEF CheckExceptions, EndWith, PhaseInv, AfterCheck
  <2>3. QED
    BY <2>1, <2>2 DEF CheckInv
<1>3. CASE Edit \/ Midnight
  <2>1. exit' = 2 /\ pc' = pc /\ (pc # "idle" => disturbed')
    BY <1>3 DEF Edit, Midnight, Disturb
  <2>2. QED
    BY <2>1 DEF CheckInv, AfterCheck
<1>4. CASE LookForKey \/ ReadExceptions \/ WriteSuppressionFile \/ Export \/ Scan \/ Clean
  <2>1. pc \in AfterCheck /\ hook \in KNOWN_TOOLS /\ hook # "security-exceptions"
    BY <1>4 DEF LookForKey, ReadExceptions, WriteSuppressionFile, Export, Scan, Clean,
                AfterCheck, PhaseInv, KNOWN_TOOLS
  <2>2. UNCHANGED <<file, source, today, hook, disturbed>>
    BY <1>4 DEF LookForKey, ReadExceptions, WriteSuppressionFile, Export, Scan, Clean, Quiet,
                world, observed
  <2>3. Errors' = Errors
    BY <2>2, SameErrors
  <2>4. QED
    BY <2>1, <2>2, <2>3 DEF CheckInv
<1>5. CASE Kill
  BY <1>5 DEF Kill, EndWith, CheckInv, AfterCheck
<1>6. CASE UNCHANGED vars
  <2>1. UNCHANGED <<file, source, today, hook, disturbed, pc, exit>>
    BY <1>6 DEF vars, world, observed
  <2>2. Errors' = Errors
    BY <2>1, SameErrors
  <2>3. QED
    BY <2>1, <2>2 DEF CheckInv
<1>7. QED
  BY <1>1, <1>2, <1>3, <1>4, <1>5, <1>6 DEF Next

(* The parts of the inductive invariant hold together, whatever is edited,   *)
(* killed or left behind.                                                    *)
THEOREM Invariance == Spec => []Inv
<1>1. Inv /\ [Next]_vars => Inv'
  BY TypeStep, PhaseStep, ReasonStep, CheckStep DEF Inv
<1>2. QED
  BY InitInv, <1>1, PTL DEF Spec

-----------------------------------------------------------------------------
(* A tool's hook ends with 0 only if all that the tool has found is          *)
(* registered for this tool in the exceptions that the run has read: neither *)
(* an entry for another tool nor a suppression file that a killed run has    *)
(* left makes it green.                                                      *)
THEOREM GreenOnlyWithReasons == Spec => []GreenHasReasons
<1>1. Inv => GreenHasReasons
  BY IgnoredAreRegistered DEF Inv, ReasonInv, GreenHasReasons
<1>2. QED
  BY Invariance, <1>1, PTL

(* After an undisturbed run that ended with 0 the exceptions are all         *)
(* complete, for known tools and in date, and, after the hook of the         *)
(* exceptions, the comments of src/ name registered findings only.           *)
THEOREM GreenOnlyIfCurrent == Spec => []GreenIsCurrent
<1>1. Inv => GreenIsCurrent
  BY NoErrorsIsCurrent DEF Inv, CheckInv, GreenIsCurrent
<1>2. QED
  BY Invariance, <1>1, PTL

(* An undisturbed run of the hook of the exceptions that ended with 1 has    *)
(* something to refuse.                                                      *)
THEOREM RefusedOnlyForCause == Spec => []RefusedForCause
<1>1. Inv => RefusedForCause
  BY ErrorsHaveCause DEF Inv, CheckInv, RefusedForCause
<1>2. QED
  BY Invariance, <1>1, PTL

(* Every variable of the hooks and of the working tree keeps its type.       *)
THEOREM TypeCorrect == Spec => []TypeOK
<1>1. Inv => TypeOK
  BY DEF Inv
<1>2. QED
  BY Invariance, <1>1, PTL

-----------------------------------------------------------------------------
(* The rendering.  Induction over numbers and over sequences is stated     *)
(* with sets: a set that is closed under the step has them all.            *)

(* A set of numbers has a least one.                                       *)
LEMMA Least ==
  ASSUME NEW S \in SUBSET Nat, S # {}
  PROVE  \E n \in S : \A m \in S : n <= m
<1>1. \E n \in S : \A m \in S : <<m, n>> \notin OpToRel(<, Nat)
  BY NatLessThanWellFounded, WFMin
<1>2. \A m, n \in Nat : <<m, n>> \notin OpToRel(<, Nat) => n <= m
  BY DEF OpToRel
<1>3. QED
  BY <1>1, <1>2

(* A set with 0 and the successors of its numbers has all.                 *)
LEMMA AllNumbers ==
  ASSUME NEW B, 0 \in B, \A n \in Nat : n \in B => n + 1 \in B
  PROVE  Nat \subseteq B
<1> DEFINE Others == {n \in Nat : n \notin B}
<1>1. SUFFICES ASSUME Others # {} PROVE FALSE
  OBVIOUS
<1>2. PICK n \in Others : \A m \in Others : n <= m
  BY <1>1, Least
<1>3. n # 0 /\ n - 1 \in Nat /\ n - 1 \notin Others
  BY <1>2
<1>4. QED
  BY <1>3

(* A set with the empty sequence and all that it is extended to has all.   *)
LEMMA AllSequences ==
  ASSUME NEW S, NEW B, << >> \in B,
         \A s \in Seq(S), e \in S : s \in B => Append(s, e) \in B
  PROVE  Seq(S) \subseteq B
<1> DEFINE Lengths == {n \in Nat : \E s \in Seq(S) : s \notin B /\ Len(s) = n}
<1>1. SUFFICES ASSUME NEW u \in Seq(S), u \notin B PROVE FALSE
  OBVIOUS
<1>2. Len(u) \in Lengths
  BY <1>1
<1>3. PICK n \in Lengths : \A m \in Lengths : n <= m
  BY <1>2, Least
<1>4. PICK t \in Seq(S) : t \notin B /\ Len(t) = n
  BY <1>3
<1>5. PICK s \in Seq(S), e \in S : t = Append(s, e)
  BY <1>4, SequenceEmptyOrAppend
<1>6. Len(t) = Len(s) + 1 /\ Len(s) \in Nat
  BY <1>5, AppendProperties, LenProperties
<1>7. s \in B
  BY <1>3, <1>4, <1>6
<1>8. QED
  BY <1>4, <1>5, <1>7

-----------------------------------------------------------------------------
(* FlattenSeq *)
IsFlat(s, f) ==
  f = [i \in 1..Len(s) |-> IF i = 1 THEN s[i] ELSE f[i - 1] \o s[i]]
Flat(s) == CHOOSE f : IsFlat(s, f)

(* The choice in FlattenSeq, unfolded.                                     *)
LEMMA FlatIs ==
  ASSUME NEW s, NEW f, IsFlat(s, f)
  PROVE  /\ f = [i \in 1..Len(s) |-> f[i]]
         /\ \A i \in 1..Len(s) : f[i] = IF i = 1 THEN s[i] ELSE f[i - 1] \o s[i]
BY Zenon DEF IsFlat

(* What two of them make of the same beginning is the same.                *)
LEMMA FlatAgree ==
  ASSUME NEW s, NEW t, NEW f, NEW g, IsFlat(s, f), IsFlat(t, g),
         Len(s) \in Nat, Len(t) \in Nat, Len(s) <= Len(t), \A i \in 1..Len(s) : s[i] = t[i]
  PROVE  \A i \in 1..Len(s) : f[i] = g[i]
<1> DEFINE Differ == {i \in 1..Len(s) : f[i] # g[i]}
<1>1. Len(s) \in Nat /\ Len(t) \in Nat
  OBVIOUS
<1>2. /\ \A i \in 1..Len(s) : f[i] = IF i = 1 THEN s[i] ELSE f[i - 1] \o s[i]
      /\ \A i \in 1..Len(t) : g[i] = IF i = 1 THEN t[i] ELSE g[i - 1] \o t[i]
  BY FlatIs
<1>3. SUFFICES ASSUME Differ # {} PROVE FALSE
  OBVIOUS
<1>4. Differ \in SUBSET Nat
  BY <1>1
<1>5. PICK i \in Differ : \A j \in Differ : i <= j
  BY <1>3, <1>4, Least
<1>6. i \in 1..Len(s) /\ i \in 1..Len(t) /\ s[i] = t[i]
  BY <1>1
<1>7. CASE i = 1
  BY <1>2, <1>5, <1>6, <1>7
<1>8. CASE i # 1
  <2>1. i - 1 \in 1..Len(s) /\ ~(i <= i - 1)
    BY <1>1, <1>6, <1>8
  <2>2. f[i - 1] = g[i - 1]
    BY <1>5, <2>1
  <2>3. QED
    BY <1>2, <1>5, <1>6, <1>8, <2>2
<1>9. QED
  BY <1>7, <1>8

(* There is one: FlattenSeq is defined.                                    *)
LEMMA FlatExists ==
  ASSUME NEW X
  PROVE  \A s \in Seq(Seq(X)) : \E f \in [1..Len(s) -> Seq(X)] : IsFlat(s, f)
<1> DEFINE B == {s \in Seq(Seq(X)) : \E f \in [1..Len(s) -> Seq(X)] : IsFlat(s, f)}
<1>1. << >> \in B
  <2>1. << >> \in Seq(Seq(X)) /\ Len(<< >>) = 0
    BY EmptySeq
  <2> DEFINE f == [i \in 1..0 |-> << >>]
  <2>2. f = [i \in 1..0 |-> IF i = 1 THEN << >>[i] ELSE f[i - 1] \o << >>[i]]
    OBVIOUS
  <2>3. f \in [1..0 -> Seq(X)]
    OBVIOUS
  <2>4. QED
    BY <2>1, <2>2, <2>3, Zenon DEF IsFlat
<1>2. ASSUME NEW s \in Seq(Seq(X)), NEW e \in Seq(X), s \in B PROVE Append(s, e) \in B
  <2> DEFINE n == Len(s)   t == Append(s, e)
  <2>1. /\ n \in Nat /\ t \in Seq(Seq(X)) /\ Len(t) = n + 1
        /\ t[n + 1] = e /\ \A i \in 1..n : t[i] = s[i] /\ s[i] \in Seq(X)
    BY AppendProperties, LenProperties, ElementOfSeq
  <2>2. PICK f \in [1..n -> Seq(X)] : IsFlat(s, f)
    BY <1>2
  <2>3. \A i \in 1..n : f[i] = IF i = 1 THEN s[i] ELSE f[i - 1] \o s[i]
    BY <2>2, FlatIs
  <2> HIDE DEF t, n
  <2> DEFINE last == IF n = 0 THEN e ELSE f[n] \o e
             g == [i \in 1..n + 1 |-> IF i = n + 1 THEN last ELSE f[i]]
  <2>4. last \in Seq(X)
    BY <2>1, <2>2, ConcatProperties
  <2>5. g \in [1..Len(t) -> Seq(X)]
    BY <2>1, <2>2, <2>4
  <2>6. ASSUME NEW i \in 1..n + 1 PROVE g[i] = IF i = 1 THEN t[i] ELSE g[i - 1] \o t[i]
    <3>1. CASE i = n + 1
      BY <2>1, <3>1
    <3>2. CASE i \in 1..n
      <4>1. g[i] = f[i] /\ t[i] = s[i]
        BY <2>1, <3>2
      <4>2. i # 1 => g[i - 1] = f[i - 1]
        <5>1. \A j \in 1..n : g[j] = f[j]
          BY <2>1
        <5>2. i # 1 => i - 1 \in 1..n
          BY <2>1, <3>2
        <5>3. QED
          BY <5>1, <5>2
      <4>3. QED
        BY <2>3, <3>2, <4>1, <4>2
    <3>3. QED
      BY <2>1, <3>1, <3>2
  <2>7. g = [i \in 1..Len(t) |-> IF i = 1 THEN t[i] ELSE g[i - 1] \o t[i]]
    BY <2>1, <2>6
  <2>8. IsFlat(t, g)
    BY <2>7, Zenon DEF IsFlat
  <2>9. QED
    BY <2>1, <2>5, <2>8 DEF t
<1>3. QED
  BY <1>1, <1>2, AllSequences

(* FlattenSeq, as an induction needs it.                                   *)
LEMMA FlatSteps ==
  ASSUME NEW X
  PROVE  /\ FlattenSeq(<< >>) = << >>
         /\ \A s \in Seq(Seq(X)) : FlattenSeq(s) \in Seq(X)
         /\ \A s \in Seq(Seq(X)), e \in Seq(X) : FlattenSeq(Append(s, e)) = FlattenSeq(s) \o e
<1>1. \A s : FlattenSeq(s) = IF Len(s) = 0 THEN s ELSE Flat(s)[Len(s)]
  BY Zenon DEF FlattenSeq, IsFlat, Flat
<1>2. \A s \in Seq(Seq(X)) : IsFlat(s, Flat(s))
  BY FlatExists DEF Flat
<1>3. \A s \in Seq(Seq(X)) : Flat(s) \in [1..Len(s) -> Seq(X)]
  <2>1. SUFFICES ASSUME NEW s \in Seq(Seq(X)) PROVE Flat(s) \in [1..Len(s) -> Seq(X)]
    OBVIOUS
  <2>2. PICK f \in [1..Len(s) -> Seq(X)] : IsFlat(s, f)
    BY FlatExists
  <2>3. \A i \in 1..Len(s) : Flat(s)[i] = f[i]
    <3>1. Len(s) \in Nat /\ Len(s) <= Len(s)
      BY LenProperties
    <3>2. IsFlat(s, Flat(s))
      BY <1>2
    <3>3. QED
      BY <2>2, <3>1, <3>2, FlatAgree
  <2>4. Flat(s) = [i \in 1..Len(s) |-> Flat(s)[i]]
    BY <1>2, FlatIs
  <2>5. QED
    BY <2>2, <2>3, <2>4
<1>4. FlattenSeq(<< >>) = << >>
  BY <1>1, EmptySeq
<1>5. ASSUME NEW s \in Seq(Seq(X)) PROVE FlattenSeq(s) \in Seq(X)
  <2>1. Len(s) \in Nat
    BY LenProperties
  <2>2. CASE Len(s) = 0
    BY <1>1, <2>2, EmptySeq
  <2>3. CASE Len(s) # 0
    <3>1. Len(s) \in 1..Len(s) /\ FlattenSeq(s) = Flat(s)[Len(s)]
      BY <1>1, <2>1, <2>3
    <3>2. QED
      BY <1>3, <3>1
  <2>4. QED
    BY <2>2, <2>3
<1>6. ASSUME NEW s \in Seq(Seq(X)), NEW e \in Seq(X)
      PROVE  FlattenSeq(Append(s, e)) = FlattenSeq(s) \o e
  <2> DEFINE n == Len(s)   t == Append(s, e)
  <2>1. /\ n \in Nat /\ t \in Seq(Seq(X)) /\ Len(t) = n + 1
        /\ t[n + 1] = e /\ \A i \in 1..n : s[i] = t[i]
    BY AppendProperties, LenProperties
  <2> HIDE DEF t
  <2>2. FlattenSeq(t) = Flat(t)[n + 1]
    BY <1>1, <2>1
  <2>3. Flat(t)[n + 1] = IF n + 1 = 1 THEN t[n + 1] ELSE Flat(t)[n + 1 - 1] \o t[n + 1]
    <3>1. IsFlat(t, Flat(t))
      BY <1>2, <2>1
    <3>2. \A i \in 1..Len(t) : Flat(t)[i] = IF i = 1 THEN t[i] ELSE Flat(t)[i - 1] \o t[i]
      BY <3>1, FlatIs
    <3>3. QED
      BY <2>1, <3>2
  <2>4. CASE n = 0
    <3>1. FlattenSeq(s) = << >>
      BY <1>1, <2>4, EmptySeq
    <3>2. QED
      BY <2>1, <2>2, <2>3, <2>4, <3>1, ConcatEmptySeq DEF t
  <2>5. CASE n # 0
    <3>1. Flat(s)[n] = Flat(t)[n]
      <4>1. /\ n \in 1..n
            /\ Len(s) \in Nat /\ Len(t) \in Nat /\ Len(s) <= Len(t)
            /\ \A i \in 1..Len(s) : s[i] = t[i]
        BY <2>1, <2>5
      <4>2. IsFlat(s, Flat(s)) /\ IsFlat(t, Flat(t))
        BY <1>2, <2>1
      <4>3. \A i \in 1..Len(s) : Flat(s)[i] = Flat(t)[i]
        BY <4>1, <4>2, FlatAgree
      <4>4. QED
        BY <4>1, <4>3
    <3>2. FlattenSeq(s) = Flat(s)[n]
      BY <1>1, <2>5
    <3>3. n + 1 - 1 = n /\ n + 1 # 1
      BY <2>1, <2>5
    <3>4. QED
      BY <2>1, <2>2, <2>3, <3>1, <3>2, <3>3 DEF t
  <2>6. QED
    BY <2>4, <2>5
<1>7. QED
  BY <1>4, <1>5, <1>6

-----------------------------------------------------------------------------
(* Divided *)
Accs == [done : Seq(Seq(Lines)), buffer : Seq(Lines)]

(* A line is collected.                                                    *)
LEMMA CollectIs ==
  ASSUME NEW acc \in Accs, NEW line \in Lines
  PROVE  /\ Append(acc.buffer, line) \in Seq(Lines)
         /\ Collect(acc, line) \in Accs
         /\ line.continues => Collect(acc, line) = [done |-> acc.done, buffer |-> Append(acc.buffer, line)]
         /\ ~line.continues =>
              Collect(acc, line) = [done |-> Append(acc.done, Append(acc.buffer, line)), buffer |-> << >>]
<1> DEFINE b == Append(acc.buffer, line)
<1>1. acc.done \in Seq(Seq(Lines)) /\ acc.buffer \in Seq(Lines)
  BY DEF Accs
<1>2. b \in Seq(Lines) /\ Append(acc.done, b) \in Seq(Seq(Lines)) /\ << >> \in Seq(Lines)
  BY <1>1, AppendProperties, EmptySeq
<1> HIDE DEF b
<1>3. [acc EXCEPT !.buffer = b] = [done |-> acc.done, buffer |-> b]
  BY DEF Accs
<1>4. Collect(acc, line) = IF line.continues THEN [acc EXCEPT !.buffer = b]
                           ELSE [done |-> Append(acc.done, b), buffer |-> << >>]
  BY DEF Collect, b
<1>5. Collect(acc, line) \in Accs
  BY <1>1, <1>2, <1>3, <1>4 DEF Accs
<1>6. QED
  BY <1>2, <1>3, <1>4, <1>5 DEF b

(* A reader keeps a list of instructions and an open one.                  *)
LEMMA AdvanceTyped ==
  ASSUME NEW r, NEW acc \in Accs, NEW line \in Lines
  PROVE  Advance(r, acc, line) \in Accs
BY CollectIs DEF Advance

IsDivided(r, t, f) ==
  f = [n \in 0..Len(t) |-> IF n = 0 THEN EmptyBuffer ELSE Advance(r, f[n - 1], t[n])]
Division(r, t) == CHOOSE f : IsDivided(r, t, f)

(* The recursion of Divided, unfolded.                                     *)
LEMMA DivisionIs ==
  ASSUME NEW r, NEW t, NEW f, IsDivided(r, t, f)
  PROVE  \A n \in 0..Len(t) : f[n] = IF n = 0 THEN EmptyBuffer ELSE Advance(r, f[n - 1], t[n])
BY Zenon DEF IsDivided

(* Two texts are read alike as far as they are alike.                      *)
LEMMA DivisionsAgree ==
  ASSUME NEW r, NEW s, NEW t, NEW f, NEW g, IsDivided(r, s, f), IsDivided(r, t, g),
         Len(s) \in Nat, Len(t) \in Nat, Len(s) <= Len(t), \A i \in 1..Len(s) : s[i] = t[i]
  PROVE  \A n \in 0..Len(s) : f[n] = g[n]
<1> DEFINE Differ == {n \in 0..Len(s) : f[n] # g[n]}
<1>1. /\ \A n \in 0..Len(s) : f[n] = IF n = 0 THEN EmptyBuffer ELSE Advance(r, f[n - 1], s[n])
      /\ \A n \in 0..Len(t) : g[n] = IF n = 0 THEN EmptyBuffer ELSE Advance(r, g[n - 1], t[n])
  BY DivisionIs
<1>2. SUFFICES ASSUME Differ # {} PROVE FALSE
  OBVIOUS
<1>3. Differ \in SUBSET Nat
  OBVIOUS
<1>4. PICK n \in Differ : \A m \in Differ : n <= m
  BY <1>2, <1>3, Least
<1>5. n \in 0..Len(s) /\ n \in 0..Len(t) /\ n \in Nat
  OBVIOUS
<1>6. CASE n = 0
  BY <1>1, <1>4, <1>5, <1>6
<1>7. CASE n # 0
  <2>1. n - 1 \in 0..Len(s) /\ ~(n <= n - 1) /\ n \in 1..Len(s)
    BY <1>5, <1>7
  <2>2. f[n - 1] = g[n - 1] /\ s[n] = t[n]
    BY <1>4, <2>1
  <2>3. QED
    BY <1>1, <1>4, <1>5, <1>7, <2>2
<1>8. QED
  BY <1>6, <1>7

(* A text can be read: Divided is defined.                                 *)
LEMMA DivisionExists ==
  ASSUME NEW r
  PROVE  \A t \in Seq(Lines) : \E f \in [0..Len(t) -> Accs] : IsDivided(r, t, f)
<1> DEFINE B == {t \in Seq(Lines) : \E f \in [0..Len(t) -> Accs] : IsDivided(r, t, f)}
<1>0. EmptyBuffer \in Accs
  BY EmptySeq DEF EmptyBuffer, Accs
<1>1. << >> \in B
  <2>1. << >> \in Seq(Lines) /\ Len(<< >>) = 0
    BY EmptySeq
  <2> DEFINE f == [n \in 0..0 |-> EmptyBuffer]
  <2>2. f = [n \in 0..0 |-> IF n = 0 THEN EmptyBuffer ELSE Advance(r, f[n - 1], << >>[n])]
    OBVIOUS
  <2>3. f \in [0..0 -> Accs]
    BY <1>0
  <2>4. QED
    BY <2>1, <2>2, <2>3, Zenon DEF IsDivided
<1>2. ASSUME NEW s \in Seq(Lines), NEW e \in Lines, s \in B PROVE Append(s, e) \in B
  <2> DEFINE n == Len(s)   t == Append(s, e)
  <2>1. /\ n \in Nat /\ t \in Seq(Lines) /\ Len(t) = n + 1
        /\ t[n + 1] = e /\ \A i \in 1..n : t[i] = s[i]
    BY AppendProperties, LenProperties
  <2>2. PICK f \in [0..n -> Accs] : IsDivided(r, s, f)
    BY <1>2
  <2>3. \A i \in 0..n : f[i] = IF i = 0 THEN EmptyBuffer ELSE Advance(r, f[i - 1], s[i])
    BY <2>2, DivisionIs
  <2> HIDE DEF t, n
  <2> DEFINE last == Advance(r, f[n], e)
             g == [i \in 0..n + 1 |-> IF i = n + 1 THEN last ELSE f[i]]
  <2>4. last \in Accs
    <3>1. f[n] \in Accs
      BY <2>1, <2>2
    <3>2. QED
      BY <3>1, AdvanceTyped
  <2>5. \A j \in 0..n : g[j] = f[j]
    BY <2>1
  <2>6. g[n + 1] = last
    BY <2>1
  <2>7. g \in [0..Len(t) -> Accs]
    BY <2>1, <2>2, <2>4
  <2>8. ASSUME NEW i \in 0..n + 1
        PROVE  g[i] = IF i = 0 THEN EmptyBuffer ELSE Advance(r, g[i - 1], t[i])
    <3> HIDE DEF g
    <3>1. CASE i = n + 1
      BY <2>1, <2>5, <2>6, <3>1
    <3>2. CASE i = 0
      BY <2>1, <2>3, <2>5, <3>2
    <3>3. CASE i \in 1..n
      <4>1. i - 1 \in 0..n /\ i \in 0..n /\ i # 0
        BY <2>1, <3>3
      <4>2. QED
        BY <2>1, <2>3, <2>5, <3>3, <4>1
    <3>4. QED
      BY <2>1, <3>1, <3>2, <3>3
  <2>9. g = [i \in 0..Len(t) |-> IF i = 0 THEN EmptyBuffer ELSE Advance(r, g[i - 1], t[i])]
    BY <2>1, <2>8
  <2>10. IsDivided(r, t, g)
    BY <2>9, Zenon DEF IsDivided
  <2>11. QED
    BY <2>1, <2>7, <2>10 DEF t
<1>3. QED
  BY <1>1, <1>2, AllSequences

(* Divided, as an induction needs it.                                      *)
LEMMA DividedSteps ==
  ASSUME NEW r
  PROVE  /\ Divided(r, << >>) = EmptyBuffer
         /\ \A t \in Seq(Lines) : Divided(r, t) \in Accs
         /\ \A t \in Seq(Lines), l \in Lines :
              Divided(r, Append(t, l)) = Advance(r, Divided(r, t), l)
<1>1. \A t : Divided(r, t) = Division(r, t)[Len(t)]
  BY Zenon DEF Divided, Division, IsDivided
<1>2. \A t \in Seq(Lines) : IsDivided(r, t, Division(r, t))
  BY DivisionExists DEF Division
<1>3. ASSUME NEW t \in Seq(Lines) PROVE Divided(r, t) \in Accs
  <2>1. PICK f \in [0..Len(t) -> Accs] : IsDivided(r, t, f)
    BY DivisionExists
  <2>2. Len(t) \in Nat /\ Len(t) <= Len(t) /\ Len(t) \in 0..Len(t)
    BY LenProperties
  <2>3. IsDivided(r, t, Division(r, t))
    BY <1>2
  <2>4. \A n \in 0..Len(t) : Division(r, t)[n] = f[n]
    BY <2>1, <2>2, <2>3, DivisionsAgree
  <2>5. QED
    BY <1>1, <2>1, <2>2, <2>4
<1>4. Divided(r, << >>) = EmptyBuffer
  <2>1. << >> \in Seq(Lines) /\ Len(<< >>) = 0
    BY EmptySeq
  <2>2. IsDivided(r, << >>, Division(r, << >>))
    BY <1>2, <2>1
  <2>3. QED
    BY <1>1, <2>1, <2>2, DivisionIs
<1>5. ASSUME NEW s \in Seq(Lines), NEW l \in Lines
      PROVE  Divided(r, Append(s, l)) = Advance(r, Divided(r, s), l)
  <2> DEFINE n == Len(s)   t == Append(s, l)
  <2>1. /\ n \in Nat /\ t \in Seq(Lines) /\ Len(t) = n + 1
        /\ t[n + 1] = l /\ \A i \in 1..n : s[i] = t[i]
    BY AppendProperties, LenProperties
  <2> HIDE DEF t
  <2>2. IsDivided(r, s, Division(r, s)) /\ IsDivided(r, t, Division(r, t))
    BY <1>2, <2>1
  <2>3. Division(r, t)[n + 1] = Advance(r, Division(r, t)[n], l)
    <3>1. n + 1 \in 0..Len(t) /\ n + 1 # 0 /\ n + 1 - 1 = n
      BY <2>1
    <3>2. \A i \in 0..Len(t) : Division(r, t)[i] = IF i = 0 THEN EmptyBuffer
                                                 ELSE Advance(r, Division(r, t)[i - 1], t[i])
      BY <2>2, DivisionIs
    <3>3. QED
      BY <2>1, <3>1, <3>2
  <2>4. Division(r, t)[n] = Division(r, s)[n]
    <3>1. /\ n \in 0..n
          /\ Len(s) \in Nat /\ Len(t) \in Nat /\ Len(s) <= Len(t)
          /\ \A i \in 1..Len(s) : s[i] = t[i]
      BY <2>1
    <3>2. \A i \in 0..Len(s) : Division(r, s)[i] = Division(r, t)[i]
      BY <2>2, <3>1, DivisionsAgree
    <3>3. QED
      BY <3>1, <3>2
  <2>5. QED
    BY <1>1, <2>1, <2>3, <2>4 DEF t
<1>6. QED
  BY <1>3, <1>4, <1>5

-----------------------------------------------------------------------------
(* docker build *)
Docker(t) == Divided("docker", t)

(* Concatenation of a sequence and an extended one.                        *)
LEMMA ConcatAppend ==
  ASSUME NEW S, NEW s \in Seq(S), NEW t \in Seq(S), NEW e \in S
  PROVE  s \o Append(t, e) = Append(s \o t, e)
<1>1. Append(t, e) = t \o <<e>> /\ s \o t \in Seq(S) /\ <<e>> \in Seq(S)
  BY AppendIsConcat, ConcatProperties
<1>2. Append(s \o t, e) = (s \o t) \o <<e>>
  BY <1>1, AppendIsConcat
<1>3. QED
  BY <1>1, <1>2, ConcatAssociative

(* docker build reads one line more.                                       *)
LEMMA DockerSteps ==
  /\ Docker(<< >>) = EmptyBuffer
  /\ \A t \in Seq(Lines) : Docker(t) \in Accs
  /\ \A t \in Seq(Lines), l \in Lines :
       Docker(Append(t, l)) = IF IsCode(l) THEN Collect(Docker(t), l) ELSE Docker(t)
<1>1. \A acc, l : Advance("docker", acc, l) = IF IsCode(l) THEN Collect(acc, l) ELSE acc
  BY DEF Advance, Skips
<1>2. QED
  BY <1>1, DividedSteps DEF Docker

(* A text that leaves no instruction open does not touch what follows it.  *)
LEMMA DockerConcat ==
  ASSUME NEW t \in Seq(Lines), Docker(t).buffer = << >>
  PROVE  \A u \in Seq(Lines) : /\ t \o u \in Seq(Lines)
                               /\ Docker(t \o u).done = Docker(t).done \o Docker(u).done
                               /\ Docker(t \o u).buffer = Docker(u).buffer
<1> DEFINE B == {u \in Seq(Lines) : /\ t \o u \in Seq(Lines)
                                    /\ Docker(t \o u).done = Docker(t).done \o Docker(u).done
                                    /\ Docker(t \o u).buffer = Docker(u).buffer}
<1>0. \A v \in Seq(Lines) : Docker(v).done \in Seq(Seq(Lines)) /\ Docker(v).buffer \in Seq(Lines)
  BY DockerSteps DEF Accs
<1>1. << >> \in B
  <2>1. << >> \in Seq(Lines) /\ t \o << >> = t
    BY EmptySeq, ConcatEmptySeq
  <2>2. Docker(<< >>).done = << >> /\ Docker(<< >>).buffer = << >>
    BY DockerSteps DEF EmptyBuffer
  <2>3. Docker(t).done \o << >> = Docker(t).done
    BY <1>0, ConcatEmptySeq
  <2>4. QED
    BY <2>1, <2>2, <2>3
<1>2. ASSUME NEW u \in Seq(Lines), NEW l \in Lines, u \in B PROVE Append(u, l) \in B
  <2> DEFINE v == Append(u, l)   tu == t \o u
  <2>1. v \in Seq(Lines) /\ tu \in Seq(Lines) /\ t \o v = Append(tu, l) /\ t \o v \in Seq(Lines)
    BY ConcatAppend, ConcatProperties, AppendProperties
  <2>2. Docker(tu).done = Docker(t).done \o Docker(u).done /\ Docker(tu).buffer = Docker(u).buffer
    BY <1>2
  <2>3. /\ Docker(t \o v) = IF IsCode(l) THEN Collect(Docker(tu), l) ELSE Docker(tu)
        /\ Docker(v) = IF IsCode(l) THEN Collect(Docker(u), l) ELSE Docker(u)
        /\ Docker(u) \in Accs /\ Docker(tu) \in Accs
    BY <2>1, DockerSteps
  <2> HIDE DEF v, tu
  <2>4. CASE ~IsCode(l)
    BY <2>1, <2>2, <2>3, <2>4 DEF v
  <2>5. CASE IsCode(l) /\ l.continues
    <3>1. /\ Docker(t \o v) = [done |-> Docker(tu).done, buffer |-> Append(Docker(tu).buffer, l)]
          /\ Docker(v) = [done |-> Docker(u).done, buffer |-> Append(Docker(u).buffer, l)]
      BY <2>3, <2>5, CollectIs
    <3>2. Docker(t \o v).done = Docker(tu).done /\ Docker(v).done = Docker(u).done
      BY <3>1
    <3>3. Docker(t \o v).buffer = Docker(v).buffer
      BY <2>2, <3>1
    <3>4. Docker(t \o v).done = Docker(t).done \o Docker(v).done
      BY <2>2, <3>2
    <3>5. v \in B
      BY <2>1, <3>3, <3>4
    <3>6. QED
      BY <3>5 DEF v
  <2>6. CASE IsCode(l) /\ ~l.continues
    <3> DEFINE b == Append(Docker(u).buffer, l)
    <3>1. /\ Docker(t \o v) = [done |-> Append(Docker(tu).done, b), buffer |-> << >>]
          /\ Docker(v) = [done |-> Append(Docker(u).done, b), buffer |-> << >>]
          /\ b \in Seq(Lines)
      BY <2>2, <2>3, <2>6, CollectIs
    <3> HIDE DEF b
    <3>2. Append(Docker(t).done \o Docker(u).done, b) = Docker(t).done \o Append(Docker(u).done, b)
      <4>1. Docker(t).done \in Seq(Seq(Lines)) /\ Docker(u).done \in Seq(Seq(Lines))
        BY <1>0
      <4>2. \A x, y \in Seq(Seq(Lines)), e \in Seq(Lines) :
              x \o Append(y, e) = Append(x \o y, e)
        BY ConcatAppend
      <4>3. QED
        BY <3>1, <4>1, <4>2
    <3>3. Docker(t \o v).done = Append(Docker(tu).done, b) /\ Docker(v).done = Append(Docker(u).done, b)
      BY <3>1
    <3>4. Docker(t \o v).buffer = << >> /\ Docker(v).buffer = << >>
      BY <3>1
    <3>5. Docker(t \o v).done = Docker(t).done \o Docker(v).done
      BY <2>2, <3>2, <3>3
    <3>6. v \in B
      BY <2>1, <3>4, <3>5
    <3>7. QED
      BY <3>6 DEF v
  <2>7. QED
    BY <2>4, <2>5, <2>6
<1>3. QED
  BY <1>1, <1>2, AllSequences

(* A line that is no code is as good as none, at either end of a text.     *)
LEMMA ProseIsSkipped ==
  ASSUME NEW l \in Lines, ~IsCode(l)
  PROVE  <<l>> \in Seq(Lines) /\ Docker(<<l>>) = EmptyBuffer
<1>1. <<l>> = Append(<< >>, l) /\ << >> \in Seq(Lines)
  BY EmptySeq
<1>2. <<l>> \in Seq(Lines)
  BY <1>1, AppendProperties
<1>3. QED
  BY <1>1, <1>2, DockerSteps

-----------------------------------------------------------------------------
(* Tidy texts *)

(* As Tidy, but for the last line.                                         *)
Fair(t) == \A i \in DOMAIN t : IsCode(t[i]) /\ t[i].continues /\ i < Len(t) => IsCode(t[i + 1])
Open(t) == t # << >> /\ IsCode(t[Len(t)]) /\ t[Len(t)].continues

(* A text without its last line is fair as well.                           *)
LEMMA FairPrefix ==
  ASSUME NEW t \in Seq(Lines), NEW l \in Lines, Fair(Append(t, l))
  PROVE  Fair(t) /\ (Open(t) => IsCode(l))
<1> DEFINE u == Append(t, l)   n == Len(t)
<1>1. /\ n \in Nat /\ Len(u) = n + 1 /\ DOMAIN u = 1..n + 1 /\ DOMAIN t = 1..n
      /\ u[n + 1] = l /\ \A i \in 1..n : u[i] = t[i]
      /\ t # << >> => n # 0
  BY AppendProperties, LenProperties, EmptySeq
<1> HIDE DEF u, n
<1>2. \A i \in 1..n + 1 : IsCode(u[i]) /\ u[i].continues /\ i < n + 1 => IsCode(u[i + 1])
  BY <1>1 DEF Fair, u
<1>3. ASSUME NEW i \in 1..n, IsCode(t[i]), t[i].continues, i < n PROVE IsCode(t[i + 1])
  <2>1. i \in 1..n + 1 /\ i < n + 1 /\ i + 1 \in 1..n
    BY <1>1, <1>3
  <2>2. QED
    BY <1>1, <1>2, <1>3, <2>1
<1>4. ASSUME Open(t) PROVE IsCode(l)
  <2>1. n \in 1..n /\ n \in 1..n + 1 /\ n < n + 1 /\ IsCode(t[n]) /\ t[n].continues
    BY <1>1, <1>4 DEF Open, n
  <2>2. IsCode(u[n + 1])
    BY <1>1, <1>2, <2>1
  <2>3. QED
    BY <1>1, <2>2
<1>5. QED
  BY <1>1, <1>3, <1>4 DEF Fair, n

(* A tidy text is fair, and ends between two instructions.                 *)
LEMMA TidyIsFair ==
  ASSUME NEW t \in Seq(Lines), Tidy(t)
  PROVE  Fair(t) /\ ~Open(t)
<1>1. Len(t) \in Nat /\ DOMAIN t = 1..Len(t) /\ (t # << >> => Len(t) \in 1..Len(t))
  BY LenProperties, EmptySeq
<1>2. QED
  BY <1>1 DEF Tidy, Fair, Open

(* The script reads one line more.                                         *)
LEMMA ScriptSteps ==
  /\ Divided("script", << >>) = EmptyBuffer
  /\ \A t \in Seq(Lines) : Divided("script", t) \in Accs
  /\ \A t \in Seq(Lines), l \in Lines :
       Divided("script", Append(t, l)) =
         IF Divided("script", t).buffer = << >> /\ ~IsCode(l) THEN Divided("script", t)
         ELSE Collect(Divided("script", t), l)
<1>1. \A acc, l : Advance("script", acc, l) = IF acc.buffer = << >> /\ ~IsCode(l) THEN acc
                                              ELSE Collect(acc, l)
  BY DEF Advance, Skips
<1>2. QED
  BY <1>1, DividedSteps

(* What is left in the buffer.                                             *)
LEMMA CollectOpens ==
  ASSUME NEW acc \in Accs, NEW t \in Seq(Lines), NEW l \in Lines, IsCode(l)
  PROVE  Collect(acc, l).buffer # << >> => Open(Append(t, l))
<1>1. Collect(acc, l).buffer # << >> => l.continues
  BY CollectIs
<1>2. /\ Append(t, l) # << >> /\ Len(Append(t, l)) = Len(t) + 1
      /\ Append(t, l)[Len(t) + 1] = l
  BY AppendProperties
<1>3. QED
  BY <1>1, <1>2 DEF Open

(* On a text where nothing interrupts an instruction the script and docker *)
(* build agree, and the last line tells whether an instruction is open.    *)
LEMMA ScriptIsDocker ==
  \A t \in Seq(Lines) : Fair(t) => /\ Divided("script", t) = Docker(t)
                                   /\ Docker(t).buffer # << >> => Open(t)
<1> DEFINE B == {t \in Seq(Lines) : Fair(t) => /\ Divided("script", t) = Docker(t)
                                               /\ Docker(t).buffer # << >> => Open(t)}
<1>1. << >> \in B
  BY EmptySeq, ScriptSteps, DockerSteps DEF EmptyBuffer
<1>2. ASSUME NEW t \in Seq(Lines), NEW l \in Lines, t \in B PROVE Append(t, l) \in B
  <2> DEFINE u == Append(t, l)
  <2>1. SUFFICES ASSUME Fair(u) PROVE /\ Divided("script", u) = Docker(u)
                                      /\ Docker(u).buffer # << >> => Open(u)
    BY AppendProperties
  <2>2. Fair(t) /\ (Open(t) => IsCode(l))
    BY <2>1, FairPrefix
  <2>3. Divided("script", t) = Docker(t) /\ (Docker(t).buffer # << >> => Open(t))
    BY <1>2, <2>2
  <2>4. /\ Docker(u) = IF IsCode(l) THEN Collect(Docker(t), l) ELSE Docker(t)
        /\ Divided("script", u) = IF Docker(t).buffer = << >> /\ ~IsCode(l) THEN Docker(t)
                                  ELSE Collect(Docker(t), l)
        /\ Docker(t) \in Accs
    BY <2>3, ScriptSteps, DockerSteps
  <2>5. CASE IsCode(l)
    BY <2>4, <2>5, CollectOpens
  <2>6. CASE ~IsCode(l)
    BY <2>2, <2>3, <2>4, <2>6
  <2>7. QED
    BY <2>5, <2>6
<1>3. QED
  BY <1>1, <1>2, AllSequences

(* Of a tidy fragment the script sees what docker build runs.              *)
LEMMA TidyFragment ==
  ASSUME NEW t \in Seq(Lines), Tidy(t)
  PROVE  /\ Docker(t).buffer = << >>
         /\ LogicalInstructions(t) = Docker(t).done
BY TidyIsFair, ScriptIsDocker DEF LogicalInstructions, Closed

-----------------------------------------------------------------------------
(* RStrip *)
Kept(t, n) == /\ n = 0 \/ t[n] # Blank
              /\ \A i \in n + 1..Len(t) : t[i] = Blank

(* rstrip has a last line to keep, or none.                                *)
LEMMA KeptExists ==
  \A t \in Seq(Lines) : \E n \in 0..Len(t) : Kept(t, n)
<1> DEFINE B == {t \in Seq(Lines) : \E n \in 0..Len(t) : Kept(t, n)}
<1>1. << >> \in B
  <2>1. << >> \in Seq(Lines) /\ Len(<< >>) = 0
    BY EmptySeq
  <2>2. Kept(<< >>, 0)
    BY <2>1 DEF Kept
  <2>3. QED
    BY <2>1, <2>2
<1>2. ASSUME NEW t \in Seq(Lines), NEW l \in Lines, t \in B PROVE Append(t, l) \in B
  <2> DEFINE u == Append(t, l)   n == Len(t)
  <2>1. /\ n \in Nat /\ u \in Seq(Lines) /\ Len(u) = n + 1
        /\ u[n + 1] = l /\ \A i \in 1..n : u[i] = t[i]
    BY AppendProperties, LenProperties
  <2> HIDE DEF u, n
  <2>2. CASE l # Blank
    <3>1. n + 1 \in 0..Len(u) /\ Kept(u, n + 1)
      BY <2>1, <2>2 DEF Kept
    <3>2. QED
      BY <2>1, <3>1 DEF u
  <2>3. CASE l = Blank
    <3>1. PICK k \in 0..n : Kept(t, k)
      BY <1>2 DEF n
    <3>2. k = 0 \/ u[k] # Blank
      <4>1. k = 0 \/ t[k] # Blank
        BY <3>1 DEF Kept
      <4>2. QED
        BY <2>1, <4>1
    <3>3. ASSUME NEW i \in k + 1..n + 1 PROVE u[i] = Blank
      <4>1. \A j \in k + 1..n : t[j] = Blank
        BY <3>1 DEF Kept, n
      <4>2. i = n + 1 \/ (i \in k + 1..n /\ i \in 1..n)
        BY <2>1
      <4>3. QED
        BY <2>1, <2>3, <4>1, <4>2
    <3>4. k \in 0..Len(u) /\ Kept(u, k)
      BY <2>1, <3>2, <3>3 DEF Kept
    <3>5. QED
      BY <2>1, <3>4 DEF u
  <2>4. QED
    BY <2>2, <2>3
<1>3. QED
  BY <1>1, <1>2, AllSequences

(* A blank line and a comment are not code.                                *)
LEMMA BlankIsProse == Blank \in Lines /\ ~IsCode(Blank) /\ Comment \in Lines /\ ~IsCode(Comment)
BY DEF Blank, Comment, Lines, Words, Flaws, IsCode, Markers

(* What rstrip drops is nothing to docker build.                           *)
LEMMA RStripIs ==
  ASSUME NEW t \in Seq(Lines)
  PROVE  RStrip(t) \in Seq(Lines) /\ Docker(RStrip(t)) = Docker(t)
<1> DEFINE m == CHOOSE n \in 0..Len(t) : Kept(t, n)
<1>1. m \in 0..Len(t) /\ Kept(t, m) /\ Len(t) \in Nat
  BY KeptExists, LenProperties
<1>2. RStrip(t) = SubSeq(t, 1, m)
  BY Zenon DEF RStrip, Kept
<1> HIDE DEF m
<1>3. \A k \in 0..Len(t) : SubSeq(t, 1, k) \in Seq(Lines)
  <2>1. \A i \in 1..Len(t) : t[i] \in Lines
    BY ElementOfSeq
  <2>2. QED
    BY <2>1, SubSeqProperties
<1> DEFINE B == {k \in Nat : m <= k /\ k <= Len(t) => Docker(SubSeq(t, 1, k)) = Docker(SubSeq(t, 1, m))}
<1>4. 0 \in B
  BY <1>1
<1>5. ASSUME NEW k \in Nat, k \in B PROVE k + 1 \in B
  <2>1. SUFFICES ASSUME m <= k + 1, k + 1 <= Len(t)
                 PROVE  Docker(SubSeq(t, 1, k + 1)) = Docker(SubSeq(t, 1, m))
    OBVIOUS
  <2>2. CASE m = k + 1
    BY <2>2
  <2>3. CASE m # k + 1
    <3>1. m <= k /\ k <= Len(t) /\ k + 1 \in m + 1..Len(t) /\ k \in 0..Len(t) /\ k + 1 \in 1..Len(t)
      BY <1>1, <2>1, <2>3
    <3>2. t[k + 1] = Blank
      BY <1>1, <3>1 DEF Kept
    <3>3. SubSeq(t, 1, k + 1) = Append(SubSeq(t, 1, k), t[k + 1])
      BY <1>1, <3>1
    <3>4. Docker(SubSeq(t, 1, k + 1)) = Docker(SubSeq(t, 1, k))
      BY <1>3, <3>1, <3>2, <3>3, BlankIsProse, DockerSteps
    <3>5. QED
      BY <1>5, <3>1, <3>4
  <2>4. QED
    BY <2>2, <2>3
<1>6. Len(t) \in B
  BY <1>1, <1>4, <1>5, AllNumbers
<1>7. SubSeq(t, 1, Len(t)) = t
  BY SubSeqFull
<1>8. Docker(SubSeq(t, 1, Len(t))) = Docker(SubSeq(t, 1, m))
  BY <1>1, <1>6
<1> HIDE DEF B
<1>9. QED
  BY <1>1, <1>2, <1>3, <1>7, <1>8

-----------------------------------------------------------------------------
(* The blocks *)
N == Len(AREAS)
Text(stage, i)  == fragment[<<AREAS[i], stage>>]
Empty(stage, i) == FragmentIsEmpty(Text(stage, i))
Ready(stage, k) == \A i \in 1..k : Text(stage, i) \in Seq(Lines)

Prefix(f, k)    == [i \in 1..k |-> f[i]]
Parts(stage)    == [i \in DOMAIN AREAS |-> Part(stage, i)]
UpTo(stage, k)  == FlattenSeq(Prefix(Parts(stage), k))

(* The areas are numbered.                                                 *)
LEMMA AreasAre == N \in Nat /\ DOMAIN AREAS = 1..N /\ \A i \in 1..N : AREAS[i] \in Areas
<1>1. AREAS \in Seq(Areas)
  BY DockerfileAssumption
<1>2. QED
  BY <1>1, LenProperties, ElementOfSeq DEF N

(* A beginning grows by one.                                               *)
LEMMA PrefixSteps ==
  ASSUME NEW X, NEW f, NEW k \in Nat, \A i \in 1..k + 1 : f[i] \in Seq(X)
  PROVE  /\ Prefix(f, 0) = << >>
         /\ Prefix(f, k) \in Seq(Seq(X)) /\ Prefix(f, k + 1) \in Seq(Seq(X))
         /\ Prefix(f, k + 1) = Append(Prefix(f, k), f[k + 1])
<1>1. Prefix(f, k) \in Seq(Seq(X)) /\ Prefix(f, k + 1) \in Seq(Seq(X)) /\ f[k + 1] \in Seq(X)
  <2>1. \A i \in 1..k : f[i] \in Seq(X)
    OBVIOUS
  <2>2. Prefix(f, k) \in [1..k -> Seq(X)] /\ Prefix(f, k + 1) \in [1..k + 1 -> Seq(X)]
    BY <2>1 DEF Prefix
  <2>3. QED
    BY <2>2, SeqDef
<1>2. Prefix(f, 0) = << >>
  BY DEF Prefix
<1>3. Len(Prefix(f, k)) = k /\ Len(Prefix(f, k + 1)) = k + 1
  BY DEF Prefix
<1>4. /\ Append(Prefix(f, k), f[k + 1]) \in Seq(Seq(X))
      /\ Len(Append(Prefix(f, k), f[k + 1])) = k + 1
      /\ \A i \in 1..k : Append(Prefix(f, k), f[k + 1])[i] = Prefix(f, k)[i]
      /\ Append(Prefix(f, k), f[k + 1])[k + 1] = f[k + 1]
  BY <1>1, <1>3, AppendProperties
<1>5. \A i \in 1..k + 1 : Append(Prefix(f, k), f[k + 1])[i] = Prefix(f, k + 1)[i]
  <2>1. \A i \in 1..k : Prefix(f, k)[i] = f[i]
    BY DEF Prefix
  <2>2. \A i \in 1..k + 1 : Prefix(f, k + 1)[i] = f[i]
    BY DEF Prefix
  <2>3. \A i \in 1..k + 1 : i \in 1..k \/ i = k + 1
    OBVIOUS
  <2>4. QED
    BY <1>4, <2>1, <2>2, <2>3
<1>6. Prefix(f, k + 1) = Append(Prefix(f, k), f[k + 1])
  <2>1. \A s, t \in Seq(Seq(X)) : Len(s) = Len(t) /\ (\A i \in 1..Len(s) : s[i] = t[i]) => s = t
    BY SeqEqual
  <2>2. QED
    BY <1>1, <1>3, <1>4, <1>5, <2>1
<1>7. QED
  BY <1>1, <1>2, <1>6

(* The header and what stands before it.                                   *)
Header(stage, i) == (IF \A j \in 1..i - 1 : Empty(stage, j) THEN << >> ELSE <<Blank>>) \o <<Comment>>

(* The header of a part is nothing to docker build.                        *)
LEMMA HeaderIs ==
  ASSUME NEW stage, NEW i
  PROVE  Header(stage, i) \in Seq(Lines) /\ Docker(Header(stage, i)) = EmptyBuffer
<1>1. /\ <<Blank>> \in Seq(Lines) /\ <<Comment>> \in Seq(Lines) /\ << >> \in Seq(Lines)
      /\ Docker(<<Blank>>) = EmptyBuffer /\ Docker(<<Comment>>) = EmptyBuffer
  BY BlankIsProse, ProseIsSkipped, EmptySeq
<1>2. << >> \o <<Comment>> = <<Comment>>
  BY <1>1, ConcatEmptySeq
<1>3. <<Blank>> \o <<Comment>> = Append(<<Blank>>, Comment)
  BY <1>1, BlankIsProse, AppendIsConcat
<1>4. Docker(<<Blank>> \o <<Comment>>) = EmptyBuffer /\ <<Blank>> \o <<Comment>> \in Seq(Lines)
  BY <1>1, <1>3, BlankIsProse, DockerSteps, ConcatProperties
<1>5. QED
  BY <1>1, <1>2, <1>4 DEF Header

(* A part is empty only for a fragment that is.                            *)
LEMMA PartIs ==
  ASSUME NEW stage, NEW i, Text(stage, i) \in Seq(Lines)
  PROVE  /\ Part(stage, i) = IF Empty(stage, i) THEN << >>
                             ELSE Header(stage, i) \o RStrip(Text(stage, i))
         /\ Part(stage, i) \in Seq(Lines)
         /\ Part(stage, i) = << >> <=> Empty(stage, i)
<1> DEFINE pre == IF \A j \in 1..i - 1 : Empty(stage, j) THEN << >> ELSE <<Blank>>
           r   == RStrip(Text(stage, i))
<1>1. r \in Seq(Lines) /\ <<Comment>> \in Seq(Lines) /\ pre \in Seq(Lines) /\ << >> \in Seq(Lines)
  BY RStripIs, BlankIsProse, ProseIsSkipped, EmptySeq
<1>2. Part(stage, i) = IF Empty(stage, i) THEN << >> ELSE pre \o <<Comment>> \o r
  BY DEF Part, Empty, Text
<1> HIDE DEF pre, r
<1>3. Header(stage, i) = pre \o <<Comment>>
  BY DEF Header, pre
<1>4. /\ Header(stage, i) \o r \in Seq(Lines)
      /\ Len(Header(stage, i) \o r) = Len(Header(stage, i)) + Len(r)
      /\ Len(Header(stage, i)) = Len(pre) + 1
  <2>1. Len(<<Comment>>) = 1
    OBVIOUS
  <2>2. QED
    BY <1>1, <1>3, <2>1, HeaderIs, ConcatProperties
<1>5. Header(stage, i) \o r # << >>
  BY <1>1, <1>4, LenProperties, EmptySeq
<1>6. QED
  BY <1>1, <1>2, <1>3, <1>4, <1>5 DEF r

(* Appending parts is what Joined does.                                    *)
LEMMA UpToIs ==
  ASSUME NEW stage
  PROVE  /\ UpTo(stage, 0) = << >>
         /\ UpTo(stage, N) = StageText(stage)
         /\ \A k \in 0..N : Ready(stage, k) =>
              /\ UpTo(stage, k) \in Seq(Lines)
              /\ UpTo(stage, k) = << >> <=> \A j \in 1..k : Empty(stage, j)
         /\ \A k \in 0..N - 1 : Ready(stage, k + 1) =>
              /\ UpTo(stage, k + 1) = UpTo(stage, k) \o Part(stage, k + 1)
              /\ UpTo(stage, k + 1) = Joined(UpTo(stage, k), Text(stage, k + 1))
<1> DEFINE Good(k) == k <= N /\ Ready(stage, k) =>
             /\ UpTo(stage, k) \in Seq(Lines)
             /\ UpTo(stage, k) = << >> <=> \A j \in 1..k : Empty(stage, j)
<1>1. UpTo(stage, 0) = << >>
  <2>1. Prefix(Parts(stage), 0) = << >>
    BY DEF Prefix
  <2>2. QED
    BY <2>1, FlatSteps DEF UpTo
<1>2. ASSUME NEW k \in 0..N - 1, Ready(stage, k + 1)
      PROVE  /\ Ready(stage, k)
             /\ Part(stage, k + 1) \in Seq(Lines)
             /\ UpTo(stage, k) \in Seq(Lines)
             /\ UpTo(stage, k + 1) = UpTo(stage, k) \o Part(stage, k + 1)
  <2>1. Ready(stage, k) /\ k \in Nat
    BY <1>2, AreasAre DEF Ready
  <2>2. \A i \in 1..k + 1 : Parts(stage)[i] = Part(stage, i) /\ Part(stage, i) \in Seq(Lines)
    <3>1. \A i \in 1..k + 1 : i \in DOMAIN AREAS
      BY <2>1, AreasAre
    <3>2. \A i \in 1..k + 1 : Part(stage, i) \in Seq(Lines)
      BY <1>2, PartIs DEF Ready
    <3>3. QED
      BY <3>1, <3>2 DEF Parts
  <2>3. k + 1 \in 1..k + 1
    BY <2>1
  <2>4. /\ Prefix(Parts(stage), k) \in Seq(Seq(Lines))
        /\ Prefix(Parts(stage), k + 1) = Append(Prefix(Parts(stage), k), Part(stage, k + 1))
    <3> DEFINE f == Parts(stage)
    <3>1. \A i \in 1..k + 1 : f[i] \in Seq(Lines)
      BY <2>2
    <3>2. f[k + 1] = Part(stage, k + 1)
      BY <2>2, <2>3
    <3> HIDE DEF f
    <3>3. /\ Prefix(f, k) \in Seq(Seq(Lines))
          /\ Prefix(f, k + 1) = Append(Prefix(f, k), f[k + 1])
      BY <2>1, <3>1, PrefixSteps
    <3>4. QED
      BY <3>2, <3>3 DEF f
  <2>5. QED
    BY <2>1, <2>2, <2>3, <2>4, FlatSteps DEF UpTo
<1>3. Good(0)
  <2>1. UpTo(stage, 0) \in Seq(Lines)
    BY <1>1, EmptySeq
  <2>2. \A j \in 1..0 : Empty(stage, j)
    OBVIOUS
  <2>3. QED
    BY <1>1, <2>1, <2>2
<1>4. ASSUME NEW k \in Nat, Good(k) PROVE Good(k + 1)
  <2>1. SUFFICES ASSUME k + 1 <= N, Ready(stage, k + 1)
                 PROVE  /\ UpTo(stage, k + 1) \in Seq(Lines)
                        /\ UpTo(stage, k + 1) = << >> <=> \A j \in 1..k + 1 : Empty(stage, j)
    OBVIOUS
  <2>2. k \in 0..N - 1 /\ k <= N
    BY <2>1, AreasAre
  <2>3. /\ Ready(stage, k) /\ Part(stage, k + 1) \in Seq(Lines) /\ UpTo(stage, k) \in Seq(Lines)
        /\ UpTo(stage, k + 1) = UpTo(stage, k) \o Part(stage, k + 1)
    BY <1>2, <2>1, <2>2
  <2>4. UpTo(stage, k) = << >> <=> \A j \in 1..k : Empty(stage, j)
    BY <1>4, <2>2, <2>3
  <2>5. Part(stage, k + 1) = << >> <=> Empty(stage, k + 1)
    BY <2>1, PartIs DEF Ready
  <2>6. UpTo(stage, k + 1) = << >> <=> UpTo(stage, k) = << >> /\ Part(stage, k + 1) = << >>
    BY <2>3, ConcatEqualIffEmpty
  <2>7. (\A j \in 1..k + 1 : Empty(stage, j)) <=> (\A j \in 1..k : Empty(stage, j)) /\ Empty(stage, k + 1)
    OBVIOUS
  <2>8. UpTo(stage, k + 1) \in Seq(Lines)
    BY <2>3, ConcatProperties
  <2>9. QED
    BY <2>4, <2>5, <2>6, <2>7, <2>8
<1>5. \A k \in Nat : Good(k)
  <2> DEFINE B == {k \in Nat : Good(k)}
  <2> HIDE DEF Good
  <2>1. 0 \in B /\ \A k \in Nat : k \in B => k + 1 \in B
    BY <1>3, <1>4
  <2>2. Nat \subseteq B
    BY <2>1, AllNumbers
  <2>3. QED
    BY <2>2
<1>6. ASSUME NEW k \in 0..N - 1, Ready(stage, k + 1)
      PROVE  UpTo(stage, k + 1) = Joined(UpTo(stage, k), Text(stage, k + 1))
  <2> DEFINE u == UpTo(stage, k)   r == RStrip(Text(stage, k + 1))
  <2>1. /\ Ready(stage, k) /\ u \in Seq(Lines)
        /\ UpTo(stage, k + 1) = u \o Part(stage, k + 1)
    BY <1>2, <1>6
  <2>2. k \in Nat /\ k <= N /\ k + 1 \in 1..k + 1 /\ k + 1 - 1 = k
    BY AreasAre
  <2>3. u = << >> <=> \A j \in 1..k : Empty(stage, j)
    BY <1>5, <2>1, <2>2
  <2>4. Text(stage, k + 1) \in Seq(Lines)
    BY <1>6, <2>2 DEF Ready
  <2>5. Part(stage, k + 1) = IF Empty(stage, k + 1) THEN << >> ELSE Header(stage, k + 1) \o r
    BY <2>4, PartIs
  <2>6. r \in Seq(Lines) /\ <<Comment>> \in Seq(Lines) /\ <<Blank>> \in Seq(Lines)
    BY <2>4, RStripIs, BlankIsProse, ProseIsSkipped
  <2>7. Header(stage, k + 1) = (IF u = << >> THEN << >> ELSE <<Blank>>) \o <<Comment>>
    BY <2>2, <2>3 DEF Header
  <2>8. Joined(u, Text(stage, k + 1)) =
          IF Empty(stage, k + 1) THEN u
          ELSE IF u = << >> THEN <<Comment>> \o r
          ELSE u \o <<Blank, Comment>> \o r
    BY DEF Joined, Empty
  <2> HIDE DEF u, r
  <2>9. CASE Empty(stage, k + 1)
    BY <2>1, <2>5, <2>8, <2>9, ConcatEmptySeq DEF u
  <2>10. CASE ~Empty(stage, k + 1) /\ u = << >>
    <3>1. Header(stage, k + 1) = <<Comment>>
      BY <2>6, <2>7, <2>10, ConcatEmptySeq
    <3>2. <<Comment>> \o r \in Seq(Lines)
      BY <2>6, ConcatProperties
    <3>3. << >> \o (<<Comment>> \o r) = <<Comment>> \o r
      BY <3>2, ConcatEmptySeq
    <3>4. QED
      BY <2>1, <2>5, <2>8, <2>10, <3>1, <3>3 DEF u
  <2>11. CASE ~Empty(stage, k + 1) /\ u # << >>
    <3>1. Header(stage, k + 1) = <<Blank, Comment>>
      BY <2>7, <2>11
    <3>2. Header(stage, k + 1) \in Seq(Lines)
      BY HeaderIs
    <3>3. u \o (Header(stage, k + 1) \o r) = (u \o Header(stage, k + 1)) \o r
      BY <2>1, <2>6, <3>2, ConcatAssociative
    <3>4. QED
      BY <2>1, <2>5, <2>8, <2>11, <3>1, <3>3 DEF u
  <2>12. QED
    BY <2>9, <2>10, <2>11
<1>7. UpTo(stage, N) = StageText(stage)
  <2>1. Prefix(Parts(stage), N) = [i \in DOMAIN AREAS |-> Part(stage, i)]
    BY AreasAre DEF Prefix, Parts
  <2>2. QED
    BY <2>1 DEF UpTo, StageText
<1>8. QED
  BY <1>1, <1>2, <1>5, <1>6, <1>7

(* docker build meets in a part the instructions of its fragment.          *)
LEMMA DockerPart ==
  ASSUME NEW stage, NEW i, Text(stage, i) \in Seq(Lines), Tidy(Text(stage, i))
  PROVE  /\ LogicalInstructions(Text(stage, i)) \in Seq(Seq(Lines))
         /\ Docker(Part(stage, i)).done = LogicalInstructions(Text(stage, i))
         /\ Docker(Part(stage, i)).buffer = << >>
<1> DEFINE t == Text(stage, i)   r == RStrip(t)   h == Header(stage, i)
<1>1. /\ Docker(t).buffer = << >> /\ LogicalInstructions(t) = Docker(t).done
      /\ Docker(t).done \in Seq(Seq(Lines))
  BY TidyFragment, DockerSteps DEF Accs
<1>2. r \in Seq(Lines) /\ Docker(r) = Docker(t)
  BY RStripIs
<1>3. h \in Seq(Lines) /\ Docker(h).done = << >> /\ Docker(h).buffer = << >>
  BY HeaderIs DEF EmptyBuffer
<1>4. CASE Empty(stage, i)
  <2>1. Part(stage, i) = << >> /\ LogicalInstructions(t) = << >>
    BY <1>4, PartIs DEF Empty, FragmentIsEmpty
  <2>2. QED
    BY <1>1, <2>1, DockerSteps DEF EmptyBuffer
<1>5. CASE ~Empty(stage, i)
  <2>1. Part(stage, i) = h \o r
    BY <1>5, PartIs
  <2> HIDE DEF h, r, t
  <2>2. Docker(h \o r).done = Docker(h).done \o Docker(r).done /\ Docker(h \o r).buffer = Docker(r).buffer
    BY <1>2, <1>3, DockerConcat
  <2>3. << >> \o Docker(t).done = Docker(t).done
    BY <1>1, ConcatEmptySeq
  <2>4. QED
    BY <1>1, <1>2, <1>3, <2>1, <2>2, <2>3 DEF t
<1>6. QED
  BY <1>4, <1>5

Calls(stage)       == [i \in DOMAIN AREAS |-> LogicalInstructions(Text(stage, i))]
CallsUpTo(stage, k) == FlattenSeq(Prefix(Calls(stage), k))

(* And in a block those of the fragments of its stage.                     *)
LEMMA DockerStage ==
  ASSUME NEW stage, Ready(stage, N), \A i \in 1..N : Tidy(Text(stage, i))
  PROVE  /\ StageText(stage) \in Seq(Lines)
         /\ StageInstructions(stage) \in Seq(Seq(Lines))
         /\ Docker(StageText(stage)).done = StageInstructions(stage)
         /\ Docker(StageText(stage)).buffer = << >>
<1> DEFINE Good(k) == k <= N =>
             /\ UpTo(stage, k) \in Seq(Lines)
             /\ CallsUpTo(stage, k) \in Seq(Seq(Lines))
             /\ Docker(UpTo(stage, k)).done = CallsUpTo(stage, k)
             /\ Docker(UpTo(stage, k)).buffer = << >>
<1>1. Good(0)
  <2>1. Prefix(Calls(stage), 0) = << >>
    BY DEF Prefix
  <2>2. CallsUpTo(stage, 0) = << >> /\ << >> \in Seq(Seq(Lines)) /\ << >> \in Seq(Lines)
    BY <2>1, FlatSteps, EmptySeq DEF CallsUpTo
  <2>3. UpTo(stage, 0) = << >>
    BY UpToIs
  <2>4. Docker(UpTo(stage, 0)).done = << >> /\ Docker(UpTo(stage, 0)).buffer = << >>
    BY <2>3, DockerSteps DEF EmptyBuffer
  <2>5. QED
    BY <2>2, <2>3, <2>4
<1>2. ASSUME NEW k \in Nat, Good(k) PROVE Good(k + 1)
  <2>1. SUFFICES ASSUME k + 1 <= N
                 PROVE  /\ UpTo(stage, k + 1) \in Seq(Lines)
                        /\ CallsUpTo(stage, k + 1) \in Seq(Seq(Lines))
                        /\ Docker(UpTo(stage, k + 1)).done = CallsUpTo(stage, k + 1)
                        /\ Docker(UpTo(stage, k + 1)).buffer = << >>
    OBVIOUS
  <2>2. k \in 0..N - 1 /\ k <= N /\ k + 1 \in 1..N /\ k + 1 \in 1..k + 1
    BY <2>1, AreasAre
  <2>3. Ready(stage, k + 1)
    BY <2>2, AreasAre DEF Ready
  <2>4. UpTo(stage, k + 1) = UpTo(stage, k) \o Part(stage, k + 1)
    BY <2>2, <2>3, UpToIs
  <2> DEFINE f == Calls(stage)   c == LogicalInstructions(Text(stage, k + 1))   p == Part(stage, k + 1)
  <2>5. /\ \A i \in 1..k + 1 : f[i] \in Seq(Seq(Lines))
        /\ f[k + 1] = c
    <3>1. \A i \in 1..k + 1 : i \in DOMAIN AREAS /\ i \in 1..N
      BY <2>2, AreasAre
    <3>2. \A i \in 1..k + 1 : LogicalInstructions(Text(stage, i)) \in Seq(Seq(Lines))
      BY <2>3, <3>1, DockerPart DEF Ready
    <3>3. QED
      BY <2>2, <3>1, <3>2 DEF Calls
  <2>6. p \in Seq(Lines) /\ Docker(p).done = c /\ Docker(p).buffer = << >>
    BY <2>2, <2>3, DockerPart, PartIs DEF Ready
  <2> HIDE DEF f, c, p
  <2>7. /\ Prefix(f, k) \in Seq(Seq(Seq(Lines)))
        /\ Prefix(f, k + 1) = Append(Prefix(f, k), c)
    BY <2>5, PrefixSteps
  <2>8. c \in Seq(Seq(Lines))
    BY <2>2, <2>5
  <2>9. CallsUpTo(stage, k + 1) = CallsUpTo(stage, k) \o c
    <3>1. FlattenSeq(Append(Prefix(f, k), c)) = FlattenSeq(Prefix(f, k)) \o c
      BY <2>7, <2>8, FlatSteps
    <3>2. QED
      BY <2>7, <3>1 DEF CallsUpTo, f
  <2>10. /\ UpTo(stage, k) \in Seq(Lines) /\ CallsUpTo(stage, k) \in Seq(Seq(Lines))
         /\ Docker(UpTo(stage, k)).done = CallsUpTo(stage, k)
         /\ Docker(UpTo(stage, k)).buffer = << >>
    BY <1>2, <2>2
  <2>11. CallsUpTo(stage, k + 1) \in Seq(Seq(Lines))
    BY <2>8, <2>9, <2>10, ConcatProperties
  <2>12. UpTo(stage, k + 1) = UpTo(stage, k) \o p
    BY <2>4 DEF p
  <2>13. /\ UpTo(stage, k) \o p \in Seq(Lines)
         /\ Docker(UpTo(stage, k) \o p).done = Docker(UpTo(stage, k)).done \o Docker(p).done
         /\ Docker(UpTo(stage, k) \o p).buffer = Docker(p).buffer
    BY <2>6, <2>10, DockerConcat
  <2>14. QED
    BY <2>6, <2>9, <2>10, <2>11, <2>12, <2>13
<1>3. Good(N)
  <2> DEFINE B == {k \in Nat : Good(k)}
  <2> HIDE DEF Good
  <2>1. 0 \in B /\ \A k \in Nat : k \in B => k + 1 \in B
    BY <1>1, <1>2
  <2>2. Nat \subseteq B
    BY <2>1, AllNumbers
  <2>3. QED
    BY <2>2, AreasAre
<1>4. CallsUpTo(stage, N) = StageInstructions(stage)
  <2>1. Prefix(Calls(stage), N) = [i \in DOMAIN AREAS |-> LogicalInstructions(fragment[<<AREAS[i], stage>>])]
    BY AreasAre DEF Prefix, Calls, Text
  <2>2. QED
    BY <2>1 DEF CallsUpTo, StageInstructions
<1>5. UpTo(stage, N) = StageText(stage) /\ N <= N
  BY UpToIs, AreasAre
<1>6. QED
  BY <1>3, <1>4, <1>5

-----------------------------------------------------------------------------
(* The template *)
Mapped(s, f)  == [i \in DOMAIN s |-> f[s[i]]]
FlatMap(s, f) == FlattenSeq(Mapped(s, f))

(* A function on 1..n is a sequence of length n.                           *)
LEMMA FunctionIsSeq ==
  ASSUME NEW S, NEW n \in Nat, NEW g \in [1..n -> S]
  PROVE  g \in Seq(S) /\ Len(g) = n
<1>1. g \in Seq(S)
  BY SeqDef
<1>2. QED
  BY <1>1, LenProperties

(* Mapping and flattening, one element at a time.                          *)
LEMMA FlatMapSteps ==
  ASSUME NEW X, NEW Y, NEW f \in [X -> Seq(Y)]
  PROVE  /\ FlatMap(<< >>, f) = << >>
         /\ \A s \in Seq(X) : FlatMap(s, f) \in Seq(Y)
         /\ \A s \in Seq(X), e \in X : FlatMap(Append(s, e), f) = FlatMap(s, f) \o f[e]
<1>1. Mapped(<< >>, f) = << >>
  BY DEF Mapped
<1>2. ASSUME NEW s \in Seq(X) PROVE Mapped(s, f) \in Seq(Seq(Y)) /\ Len(Mapped(s, f)) = Len(s)
  <2>1. Len(s) \in Nat /\ DOMAIN s = 1..Len(s) /\ \A i \in 1..Len(s) : s[i] \in X
    BY LenProperties, ElementOfSeq
  <2>2. Mapped(s, f) \in [1..Len(s) -> Seq(Y)]
    BY <2>1 DEF Mapped
  <2>3. QED
    BY <2>1, <2>2, FunctionIsSeq
<1>3. ASSUME NEW s \in Seq(X), NEW e \in X PROVE Mapped(Append(s, e), f) = Append(Mapped(s, f), f[e])
  <2> DEFINE u == Append(s, e)   n == Len(s)   a == Append(Mapped(s, f), f[e])
  <2>1. /\ n \in Nat /\ u \in Seq(X) /\ Len(u) = n + 1 /\ DOMAIN u = 1..n + 1 /\ DOMAIN s = 1..n
        /\ u[n + 1] = e /\ \A i \in 1..n : u[i] = s[i]
    BY AppendProperties, LenProperties
  <2>2. f[e] \in Seq(Y) /\ Mapped(s, f) \in Seq(Seq(Y)) /\ Len(Mapped(s, f)) = n
    BY <1>2
  <2>3. /\ a \in Seq(Seq(Y)) /\ Len(a) = n + 1 /\ a[n + 1] = f[e]
        /\ \A i \in 1..n : a[i] = Mapped(s, f)[i]
    BY <2>2, AppendProperties
  <2>4. Mapped(u, f) \in Seq(Seq(Y)) /\ Len(Mapped(u, f)) = n + 1
    BY <1>2, <2>1
  <2>5. /\ \A i \in 1..n : Mapped(s, f)[i] = f[s[i]]
        /\ \A i \in 1..n + 1 : Mapped(u, f)[i] = f[u[i]]
    BY <2>1 DEF Mapped
  <2> HIDE DEF a, u, n
  <2>6. \A i \in 1..n + 1 : Mapped(u, f)[i] = a[i]
    <3>1. \A i \in 1..n + 1 : i \in 1..n \/ i = n + 1
      BY <2>1
    <3>2. Mapped(u, f)[n + 1] = f[e] /\ n + 1 \in 1..n + 1
      BY <2>1, <2>5
    <3>3. \A i \in 1..n : Mapped(u, f)[i] = Mapped(s, f)[i]
      BY <2>1, <2>5
    <3>4. QED
      BY <2>3, <3>1, <3>2, <3>3
  <2>7. \A x, y \in Seq(Seq(Y)) : Len(x) = Len(y) /\ (\A i \in 1..Len(x) : x[i] = y[i]) => x = y
    BY SeqEqual
  <2>8. Mapped(u, f) = a
    BY <2>3, <2>4, <2>6, <2>7
  <2>9. QED
    BY <2>8 DEF u, a
<1>4. FlatMap(<< >>, f) = << >>
  BY <1>1, FlatSteps DEF FlatMap
<1>5. ASSUME NEW s \in Seq(X) PROVE FlatMap(s, f) \in Seq(Y)
  BY <1>2, FlatSteps DEF FlatMap
<1>6. ASSUME NEW s \in Seq(X), NEW e \in X PROVE FlatMap(Append(s, e), f) = FlatMap(s, f) \o f[e]
  <2>1. Mapped(s, f) \in Seq(Seq(Y)) /\ f[e] \in Seq(Y)
    BY <1>2
  <2>2. QED
    BY <1>3, <2>1, FlatSteps DEF FlatMap
<1>7. QED
  BY <1>4, <1>5, <1>6

Blocks     == [stage \in Stages |-> StageText(stage)]
PutLine    == [l \in Lines |-> Put(l, Blocks)]
MeantBy    == [s \in Seq(Lines) |-> Meant(s)]
Author(t)  == Divided("author", t)
Markings   == {Markers["build"], Markers["runtime"]}

BlocksAreRead == \A stage \in Stages :
                   /\ StageText(stage) \in Seq(Lines)
                   /\ StageInstructions(stage) \in Seq(Seq(Lines))
                   /\ Docker(StageText(stage)).done = StageInstructions(stage)
                   /\ Docker(StageText(stage)).buffer = << >>

(* A marker is a line that does not continue; what is not a marker is code *)
(* or prose.                                                               *)
LEMMA MarkersAre ==
  /\ Markers["build"] = "# @fragments build" /\ Markers["runtime"] = "# @fragments runtime"
  /\ \A l \in Lines : l.word \in Markings => ~l.continues
  /\ \A l \in Lines : IsCode(l) <=> l.word \notin {"#", ""} /\ l.word \notin Markings
  /\ \A m \in Markings : m \notin {"#", ""}
BY DEF Markers, Markings, Lines, IsCode

(* A line of the template is put in as it is, unless it is a marker.       *)
LEMMA PutIs ==
  ASSUME BlocksAreRead
  PROVE  /\ PutLine \in [Lines -> Seq(Lines)]
         /\ \A l \in Lines :
              /\ l.word \notin Markings => PutLine[l] = <<l>>
              /\ l.word \in Markings => \E stage \in Stages :
                   PutLine[l] = StageText(stage) /\ Meant(<<l>>) = StageInstructions(stage)
<1>1. ASSUME NEW l \in Lines
      PROVE  /\ l.word \notin Markings => Put(l, Blocks) = <<l>>
             /\ l.word = Markers["build"] => Put(l, Blocks) = StageText("build")
             /\ l.word = Markers["runtime"] => Put(l, Blocks) = StageText("runtime")
  BY MarkersAre DEF Put, Blocks, Stages, Markings
<1>2. ASSUME NEW l \in Lines PROVE <<l>> \in Seq(Lines)
  BY EmptySeq, AppendProperties
<1>3. ASSUME NEW l \in Lines
      PROVE  /\ l.word = Markers["build"] => Meant(<<l>>) = StageInstructions("build")
             /\ l.word = Markers["runtime"] => Meant(<<l>>) = StageInstructions("runtime")
  BY MarkersAre DEF Meant, Keyword
<1>4. "build" \in Stages /\ "runtime" \in Stages
  BY DEF Stages
<1>5. \A l \in Lines : Put(l, Blocks) \in Seq(Lines)
  BY <1>1, <1>2, <1>4 DEF BlocksAreRead, Markings
<1>6. QED
  BY <1>1, <1>3, <1>4, <1>5 DEF PutLine, Markings

(* An instruction of the template is meant as it is, unless it is a        *)
(* marker.                                                                 *)
LEMMA MeantIs ==
  ASSUME BlocksAreRead
  PROVE  /\ MeantBy \in [Seq(Lines) -> Seq(Seq(Lines))]
         /\ \A s \in Seq(Lines) : s[1].word \notin Markings => MeantBy[s] = <<s>>
<1>1. "build" \in Stages /\ "runtime" \in Stages
  BY DEF Stages
<1>2. ASSUME NEW s \in Seq(Lines) PROVE <<s>> \in Seq(Seq(Lines))
  BY EmptySeq, AppendProperties
<1>3. ASSUME NEW s \in Seq(Lines)
      PROVE  /\ Meant(s) \in {StageInstructions("build"), StageInstructions("runtime"), <<s>>}
             /\ s[1].word \notin Markings => Meant(s) = <<s>>
  BY DEF Meant, Keyword, Markings
<1>4. \A s \in Seq(Lines) : Meant(s) \in Seq(Seq(Lines))
  BY <1>1, <1>2, <1>3 DEF BlocksAreRead
<1>5. QED
  BY <1>3, <1>4 DEF MeantBy

(* The author reads one line more.                                         *)
LEMMA AuthorSteps ==
  /\ Author(<< >>) = EmptyBuffer
  /\ \A t \in Seq(Lines) : Author(t) \in Accs
  /\ \A t \in Seq(Lines), l \in Lines :
       Author(Append(t, l)) = IF l.word \in {"#", ""} THEN Author(t) ELSE Collect(Author(t), l)
<1>1. \A acc, l : Advance("author", acc, l) = IF l.word \in {"#", ""} THEN acc ELSE Collect(acc, l)
  BY DEF Advance, Skips
<1>2. QED
  BY <1>1, DividedSteps DEF Author

(* Line by line of the template, docker build meets what its author meant. *)
AsMeant(t) ==
  /\ Docker(FlatMap(t, PutLine)).done = FlatMap(Author(t).done, MeantBy)
  /\ Docker(FlatMap(t, PutLine)).buffer = Author(t).buffer
  /\ Author(t).buffer # << >> => Open(t)
  /\ \A i \in DOMAIN Author(t).buffer : Author(t).buffer[i].word \notin Markings

(* Both readings of the template have their types.                         *)
LEMMA TypesOfBoth ==
  ASSUME BlocksAreRead, NEW t \in Seq(Lines)
  PROVE  /\ FlatMap(t, PutLine) \in Seq(Lines)
         /\ Author(t).done \in Seq(Seq(Lines)) /\ Author(t).buffer \in Seq(Lines)
         /\ FlatMap(Author(t).done, MeantBy) \in Seq(Seq(Lines))
         /\ Docker(FlatMap(t, PutLine)) \in Accs
<1>1. Author(t).done \in Seq(Seq(Lines)) /\ Author(t).buffer \in Seq(Lines)
  BY AuthorSteps DEF Accs
<1>2. PutLine \in [Lines -> Seq(Lines)] /\ MeantBy \in [Seq(Lines) -> Seq(Seq(Lines))]
  BY PutIs, MeantIs
<1>3. FlatMap(t, PutLine) \in Seq(Lines)
  BY <1>2, FlatMapSteps
<1>4. FlatMap(Author(t).done, MeantBy) \in Seq(Seq(Lines))
  <2>1. \A s \in Seq(Seq(Lines)) : FlatMap(s, MeantBy) \in Seq(Seq(Lines))
    BY <1>2, FlatMapSteps
  <2>2. QED
    BY <1>1, <2>1
<1>5. QED
  BY <1>1, <1>3, <1>4, DockerSteps

(* Rendering goes on line by line.                                         *)
LEMMA OneLineMore ==
  ASSUME BlocksAreRead, NEW t \in Seq(Lines), NEW l \in Lines
  PROVE  FlatMap(Append(t, l), PutLine) = FlatMap(t, PutLine) \o PutLine[l]
<1>1. PutLine \in [Lines -> Seq(Lines)]
  BY PutIs
<1>2. \A s \in Seq(Lines), e \in Lines :
        FlatMap(Append(s, e), PutLine) = FlatMap(s, PutLine) \o PutLine[e]
  BY <1>1, FlatMapSteps
<1>3. QED
  BY <1>2

(* A line of prose or of code stays.                                       *)
LEMMA OneLineStays ==
  ASSUME BlocksAreRead, NEW t \in Seq(Lines), NEW l \in Lines, l.word \notin Markings
  PROVE  FlatMap(Append(t, l), PutLine) = Append(FlatMap(t, PutLine), l)
<1>1. PutLine[l] = <<l>>
  BY PutIs
<1>2. FlatMap(Append(t, l), PutLine) = FlatMap(t, PutLine) \o <<l>>
  BY <1>1, OneLineMore
<1>3. QED
  BY <1>2, TypesOfBoth, AppendIsConcat

(* Meaning goes on instruction by instruction.                             *)
LEMMA OneInstructionMore ==
  ASSUME BlocksAreRead, NEW t \in Seq(Lines), NEW b \in Seq(Lines)
  PROVE  FlatMap(Append(Author(t).done, b), MeantBy) = FlatMap(Author(t).done, MeantBy) \o MeantBy[b]
<1>1. Author(t).done \in Seq(Seq(Lines)) /\ MeantBy \in [Seq(Lines) -> Seq(Seq(Lines))]
  BY TypesOfBoth, MeantIs
<1>2. \A s \in Seq(Seq(Lines)), e \in Seq(Lines) :
        FlatMap(Append(s, e), MeantBy) = FlatMap(s, MeantBy) \o MeantBy[e]
  BY <1>1, FlatMapSteps
<1>3. QED
  BY <1>1, <1>2

(* A marker brings the instructions of its stage, to both.                 *)
LEMMA MarkerStep ==
  ASSUME BlocksAreRead, NEW t \in Seq(Lines), NEW l \in Lines,
         l.word \in Markings, AsMeant(t), Author(t).buffer = << >>
  PROVE  AsMeant(Append(t, l))
<1> DEFINE u == Append(t, l)   r == FlatMap(t, PutLine)   m == FlatMap(Author(t).done, MeantBy)
<1>1. PICK stage \in Stages : PutLine[l] = StageText(stage) /\ Meant(<<l>>) = StageInstructions(stage)
  BY PutIs
<1>2. /\ StageText(stage) \in Seq(Lines)
      /\ Docker(StageText(stage)).done = StageInstructions(stage)
      /\ Docker(StageText(stage)).buffer = << >>
  BY DEF BlocksAreRead
<1>3. /\ r \in Seq(Lines) /\ Docker(r).done = m /\ Docker(r).buffer = << >>
  BY TypesOfBoth DEF AsMeant
<1>4. FlatMap(u, PutLine) = r \o StageText(stage)
  BY <1>1, OneLineMore
<1> HIDE DEF r
<1>5. Docker(FlatMap(u, PutLine)).done = m \o StageInstructions(stage)
      /\ Docker(FlatMap(u, PutLine)).buffer = << >>
  BY <1>2, <1>3, <1>4, DockerConcat
<1>6. Author(u).done = Append(Author(t).done, <<l>>) /\ Author(u).buffer = << >>
  <2>1. Author(u) = Collect(Author(t), l) /\ ~l.continues /\ Author(t) \in Accs
    BY AuthorSteps, MarkersAre
  <2>2. Author(u) = [done |-> Append(Author(t).done, Append(Author(t).buffer, l)), buffer |-> << >>]
    BY <2>1, CollectIs
  <2>3. Append(Author(t).buffer, l) = <<l>>
    OBVIOUS
  <2>4. QED
    BY <2>2, <2>3
<1>7. <<l>> \in Seq(Lines) /\ MeantBy[<<l>>] = StageInstructions(stage)
  <2>1. <<l>> \in Seq(Lines)
    BY EmptySeq, AppendProperties
  <2>2. QED
    BY <1>1, <2>1 DEF MeantBy
<1>8. FlatMap(Author(u).done, MeantBy) = m \o StageInstructions(stage)
  BY <1>6, <1>7, OneInstructionMore
<1>9. \A i \in DOMAIN Author(u).buffer : FALSE
  BY <1>6
<1> HIDE DEF u, m
<1>10. AsMeant(u)
  BY <1>5, <1>6, <1>8, <1>9 DEF AsMeant
<1>11. QED
  BY <1>10 DEF u

(* A line of code goes into the same instruction, for both.                *)
LEMMA CodeStep ==
  ASSUME BlocksAreRead, NEW t \in Seq(Lines), NEW l \in Lines, IsCode(l), AsMeant(t)
  PROVE  AsMeant(Append(t, l))
<1> DEFINE u == Append(t, l)   r == FlatMap(t, PutLine)   b == Append(Author(t).buffer, l)
           m == FlatMap(Author(t).done, MeantBy)
<1>1. l.word \notin Markings /\ l.word \notin {"#", ""}
  BY MarkersAre
<1>2. /\ r \in Seq(Lines) /\ Docker(r) \in Accs /\ Docker(r).done = m
      /\ Docker(r).buffer = Author(t).buffer
      /\ Author(t).buffer \in Seq(Lines) /\ Author(t).done \in Seq(Seq(Lines))
      /\ m \in Seq(Seq(Lines))
  BY TypesOfBoth DEF AsMeant
<1>3. /\ FlatMap(u, PutLine) = Append(r, l)
      /\ Docker(Append(r, l)) = Collect(Docker(r), l)
      /\ Author(u) = Collect(Author(t), l) /\ Author(t) \in Accs
  BY <1>1, <1>2, OneLineStays, DockerSteps, AuthorSteps
<1>4. b \in Seq(Lines) /\ \A i \in DOMAIN b : b[i].word \notin Markings
  <2> DEFINE n == Len(Author(t).buffer)
  <2>1. /\ b \in Seq(Lines) /\ n \in Nat /\ Len(b) = n + 1 /\ b[n + 1] = l
        /\ DOMAIN b = 1..n + 1 /\ DOMAIN Author(t).buffer = 1..n
        /\ \A i \in 1..n : b[i] = Author(t).buffer[i]
    BY <1>2, AppendProperties, LenProperties
  <2>2. \A i \in 1..n : Author(t).buffer[i].word \notin Markings
    BY <2>1 DEF AsMeant
  <2> HIDE DEF b, n
  <2>3. \A i \in 1..n + 1 : i \in 1..n \/ i = n + 1
    BY <2>1
  <2>4. QED
    BY <1>1, <2>1, <2>2, <2>3
<1>5. Author(u).buffer # << >> => Open(u)
  BY <1>3, CollectOpens
<1> HIDE DEF r, m, u
<1>6. CASE l.continues
  <2>1. /\ Docker(Append(r, l)) = [done |-> m, buffer |-> b]
        /\ Author(u) = [done |-> Author(t).done, buffer |-> b]
    BY <1>2, <1>3, <1>6, CollectIs
  <2> HIDE DEF b
  <2>2. /\ Docker(Append(r, l)).done = m /\ Docker(Append(r, l)).buffer = b
        /\ Author(u).done = Author(t).done /\ Author(u).buffer = b
    BY <2>1
  <2>3. AsMeant(u)
    BY <1>3, <1>4, <1>5, <2>2 DEF AsMeant, m
  <2>4. QED
    BY <2>3 DEF u
<1>7. CASE ~l.continues
  <2>1. /\ Docker(Append(r, l)) = [done |-> Append(m, b), buffer |-> << >>]
        /\ Author(u) = [done |-> Append(Author(t).done, b), buffer |-> << >>]
    BY <1>2, <1>3, <1>7, CollectIs
  <2>2. b # << >> /\ 1 \in DOMAIN b
    <3>1. Len(b) = Len(Author(t).buffer) + 1 /\ Len(Author(t).buffer) \in Nat /\ DOMAIN b = 1..Len(b)
      BY <1>2, <1>4, AppendProperties, LenProperties
    <3> HIDE DEF b
    <3>2. QED
      BY <1>4, <3>1, EmptySeq
  <2> HIDE DEF b
  <2>3. MeantBy[b] = <<b>>
    BY <1>4, <2>2, MeantIs
  <2>4. FlatMap(Append(Author(t).done, b), MeantBy) = m \o <<b>>
    BY <1>4, <2>3, OneInstructionMore DEF m
  <2>5. Append(m, b) = m \o <<b>>
    <3>1. \A s \in Seq(Seq(Lines)), e \in Seq(Lines) : Append(s, e) = s \o <<e>>
      BY AppendIsConcat
    <3>2. QED
      BY <1>2, <1>4, <3>1
  <2>6. /\ Docker(Append(r, l)).done = Append(m, b) /\ Docker(Append(r, l)).buffer = << >>
        /\ Author(u).done = Append(Author(t).done, b) /\ Author(u).buffer = << >>
    BY <2>1
  <2>7. \A i \in DOMAIN Author(u).buffer : FALSE
    BY <2>6
  <2>8. AsMeant(u)
    BY <1>3, <1>5, <2>4, <2>5, <2>6, <2>7 DEF AsMeant
  <2>9. QED
    BY <2>8 DEF u
<1>8. QED
  BY <1>6, <1>7

(* So the rendering of any fair template is read as it is meant.           *)
LEMMA TemplateIsMeant ==
  ASSUME BlocksAreRead
  PROVE  \A t \in Seq(Lines) : Fair(t) => AsMeant(t)
<1> DEFINE B == {t \in Seq(Lines) : Fair(t) => AsMeant(t)}
<1>1. << >> \in B
  <2>1. << >> \in Seq(Lines) /\ Author(<< >>).done = << >> /\ Author(<< >>).buffer = << >>
        /\ Docker(<< >>).done = << >> /\ Docker(<< >>).buffer = << >>
    <3>1. << >> \in Seq(Lines)
      BY EmptySeq
    <3>2. Author(<< >>).done = << >> /\ Author(<< >>).buffer = << >>
      <4>1. Author(<< >>) = EmptyBuffer
        BY AuthorSteps
      <4>2. QED
        BY <4>1 DEF EmptyBuffer
    <3>3. Docker(<< >>).done = << >> /\ Docker(<< >>).buffer = << >>
      BY DockerSteps DEF EmptyBuffer
    <3>4. QED
      BY <3>1, <3>2, <3>3
  <2>2. FlatMap(<< >>, PutLine) = << >> /\ FlatMap(<< >>, MeantBy) = << >>
    BY PutIs, MeantIs, FlatMapSteps
  <2>3. \A i \in DOMAIN Author(<< >>).buffer : FALSE
    BY <2>1
  <2>4. AsMeant(<< >>)
    BY <2>1, <2>2, <2>3 DEF AsMeant
  <2>5. QED
    BY <2>1, <2>4
<1>2. ASSUME NEW t \in Seq(Lines), NEW l \in Lines, t \in B PROVE Append(t, l) \in B
  <2>1. SUFFICES ASSUME Fair(Append(t, l)) PROVE AsMeant(Append(t, l))
    BY AppendProperties
  <2>2. Fair(t) /\ (Open(t) => IsCode(l)) /\ AsMeant(t)
    BY <1>2, <2>1, FairPrefix
  <2>3. CASE IsCode(l)
    BY <2>2, <2>3, CodeStep
  <2>4. CASE l.word \in Markings
    <3>1. Author(t).buffer = << >>
      BY <2>2, <2>4, MarkersAre DEF AsMeant
    <3>2. QED
      BY <2>2, <2>4, <3>1, MarkerStep
  <2>5. CASE l.word \in {"#", ""}
    <3>1. ~IsCode(l) /\ l.word \notin Markings
      BY <2>5, MarkersAre
    <3>2. Author(t).buffer = << >>
      BY <2>2, <3>1 DEF AsMeant
    <3>3. Author(Append(t, l)) = Author(t)
      BY <2>5, AuthorSteps
    <3>4. FlatMap(Append(t, l), PutLine) = Append(FlatMap(t, PutLine), l)
      BY <3>1, OneLineStays
    <3>5. Docker(Append(FlatMap(t, PutLine), l)) = Docker(FlatMap(t, PutLine))
      BY <3>1, TypesOfBoth, DockerSteps
    <3>6. QED
      BY <2>2, <3>2, <3>3, <3>4, <3>5 DEF AsMeant
  <2>6. QED
    BY <2>3, <2>4, <2>5, MarkersAre
<1>3. QED
  BY <1>1, <1>2, AllSequences

(* The Dockerfile of tidy fragments is built as intended.                  *)
LEMMA BuiltAsIntended ==
  ASSUME \A stage \in Stages : Ready(stage, N),
         \A where \in Areas \X Stages : Tidy(fragment[where])
  PROVE  DockerInstructions(Rendered(Blocks)) = Intended
<1>1. BlocksAreRead
  <2>1. ASSUME NEW stage \in Stages PROVE \A i \in 1..N : Tidy(Text(stage, i))
    BY AreasAre DEF Text
  <2>2. QED
    BY <2>1, DockerStage DEF BlocksAreRead
<1>2. Template \in Seq(Lines) /\ Fair(Template) /\ ~Open(Template)
  BY DockerfileAssumption, TidyIsFair
<1>3. AsMeant(Template) /\ Author(Template).buffer = << >>
  BY <1>1, <1>2, TemplateIsMeant DEF AsMeant
<1>4. Rendered(Blocks) = FlatMap(Template, PutLine)
  <2>1. \A i \in DOMAIN Template : Template[i] \in Lines
    BY <1>2, LenProperties, ElementOfSeq
  <2>2. [i \in DOMAIN Template |-> Put(Template[i], Blocks)] = Mapped(Template, PutLine)
    BY <2>1 DEF Mapped, PutLine
  <2>3. QED
    BY <2>2 DEF Rendered, FlatMap
<1>5. Closed(Author(Template)) = Author(Template).done
  BY <1>3 DEF Closed
<1>6. Intended = FlatMap(Author(Template).done, MeantBy)
  <2> DEFINE d == Author(Template).done
  <2>1. d \in Seq(Seq(Lines))
    BY <1>1, <1>2, TypesOfBoth
  <2>2. Intended = FlattenSeq([i \in DOMAIN d |-> Meant(d[i])])
    BY <1>5 DEF Intended, Author
  <2> HIDE DEF d
  <2>3. \A i \in DOMAIN d : d[i] \in Seq(Lines)
    BY <2>1, LenProperties, ElementOfSeq
  <2>4. [i \in DOMAIN d |-> Meant(d[i])] = Mapped(d, MeantBy)
    BY <2>3 DEF Mapped, MeantBy
  <2>5. QED
    BY <2>2, <2>4 DEF FlatMap, d
<1>7. DockerInstructions(Rendered(Blocks)) = Docker(Rendered(Blocks)).done
  BY <1>3, <1>4 DEF DockerInstructions, Docker, Closed, AsMeant
<1>8. QED
  BY <1>3, <1>4, <1>6, <1>7 DEF AsMeant

-----------------------------------------------------------------------------
(* Runs of main *)
BuildRead(k)   == IF k <= N THEN k ELSE N
RuntimeRead(k) == IF k <= N THEN 0 ELSE k - N

SoFar(k) ==
  /\ todo = SubSeq(Order, k + 1, Len(Order))
  /\ \A i \in 1..k : FragmentIsValid(Order[i][2], fragment[Order[i]])
  /\ blocks["build"]   = UpTo("build", BuildRead(k))
  /\ blocks["runtime"] = UpTo("runtime", RuntimeRead(k))

RunInv ==
  /\ phase # "idle" => returned = 2
  /\ phase = "assemble" => \E k \in 0..Len(Order) : SoFar(k)
  /\ phase \in {"compare", "truncate", "write"} => AllValid /\ blocks = Blocks
  /\ phase = "compare" => check
  /\ returned = 0 => AllValid /\ dockerfile = Rendered(Blocks)
  /\ RedHasCause

RenderInv == RenderTypeOK /\ RunInv

(* Two sequences of the same length, one after the other.                  *)
LEMMA TwoHalves ==
  ASSUME NEW X, NEW n \in Nat, NEW b \in [1..n -> X], NEW r \in [1..n -> X]
  PROVE  /\ b \o r \in Seq(X) /\ Len(b \o r) = n + n
         /\ \A i \in 1..n : (b \o r)[i] = b[i] /\ (b \o r)[i + n] = r[i]
<1>1. b \in Seq(X) /\ r \in Seq(X) /\ Len(b) = n /\ Len(r) = n
  BY FunctionIsSeq
<1>2. /\ b \o r \in Seq(X) /\ Len(b \o r) = Len(b) + Len(r)
      /\ \A i \in 1..Len(b) + Len(r) :
           (b \o r)[i] = IF i <= Len(b) THEN b[i] ELSE r[i - Len(b)]
  BY <1>1, ConcatProperties
<1> DEFINE c == b \o r
<1> HIDE DEF c
<1>3. \A i \in 1..n + n : c[i] = IF i <= n THEN b[i] ELSE r[i - n]
  BY <1>1, <1>2 DEF c
<1>4. ASSUME NEW i \in 1..n PROVE c[i] = b[i] /\ c[i + n] = r[i]
  <2>1. i \in 1..n + n /\ i + n \in 1..n + n /\ i <= n /\ ~(i + n <= n) /\ i + n - n = i
    OBVIOUS
  <2>2. c[i] = b[i]
    BY <1>3, <2>1
  <2>3. c[i + n] = r[(i + n) - n]
    BY <1>3, <2>1
  <2>4. QED
    BY <2>1, <2>2, <2>3
<1>5. QED
  BY <1>1, <1>2, <1>4 DEF c

(* render reads the areas for build, then the areas for runtime.           *)
LEMMA OrderIs ==
  /\ Order \in Seq(Areas \X Stages) /\ Len(Order) = N + N
  /\ \A i \in 1..N : Order[i] = <<AREAS[i], "build">> /\ Order[i + N] = <<AREAS[i], "runtime">>
<1> DEFINE b == [i \in 1..N |-> <<AREAS[i], "build">>]
           r == [i \in 1..N |-> <<AREAS[i], "runtime">>]
<1>1. b \in [1..N -> Areas \X Stages] /\ r \in [1..N -> Areas \X Stages]
  BY AreasAre DEF Stages
<1>2. Order = b \o r
  BY DEF Order, N
<1>3. \A i \in 1..N : b[i] = <<AREAS[i], "build">> /\ r[i] = <<AREAS[i], "runtime">>
  OBVIOUS
<1> HIDE DEF b, r
<1>4. /\ b \o r \in Seq(Areas \X Stages) /\ Len(b \o r) = N + N
      /\ \A i \in 1..N : (b \o r)[i] = b[i] /\ (b \o r)[i + N] = r[i]
  <2> DEFINE X == Areas \X Stages   n == N
  <2>1. n \in Nat /\ b \in [1..n -> X] /\ r \in [1..n -> X]
    BY <1>1, AreasAre
  <2> HIDE DEF X, n
  <2>2. /\ b \o r \in Seq(X) /\ Len(b \o r) = n + n
        /\ \A i \in 1..n : (b \o r)[i] = b[i] /\ (b \o r)[i + n] = r[i]
    BY <2>1, TwoHalves
  <2>3. QED
    BY <2>2 DEF X, n
<1>5. ASSUME NEW i \in 1..N
      PROVE  Order[i] = <<AREAS[i], "build">> /\ Order[i + N] = <<AREAS[i], "runtime">>
  <2>1. Order[i] = b[i] /\ Order[i + N] = r[i]
    BY <1>2, <1>4
  <2>2. QED
    BY <1>3, <2>1
<1>6. QED
  BY <1>2, <1>4, <1>5

(* A valid fragment is there, and its text is one of lines.                *)
LEMMA ValidIsText ==
  ASSUME RenderTypeOK, NEW where \in Areas \X Stages, NEW stage, FragmentIsValid(stage, fragment[where])
  PROVE  fragment[where] \in Seq(Lines)
BY DockerfileAssumption DEF RenderTypeOK, FragmentIsValid

(* A block with one fragment more is a text.                               *)
LEMMA JoinedTyped ==
  ASSUME NEW u \in Seq(Lines), NEW t \in Seq(Lines)
  PROVE  Joined(u, t) \in Seq(Lines)
<1>1. RStrip(t) \in Seq(Lines) /\ <<Comment>> \in Seq(Lines) /\ <<Blank>> \in Seq(Lines)
  BY RStripIs, BlankIsProse, ProseIsSkipped
<1>2. <<Blank, Comment>> = Append(<<Blank>>, Comment)
  OBVIOUS
<1>3. <<Blank, Comment>> \in Seq(Lines)
  BY <1>1, <1>2, BlankIsProse, AppendProperties
<1>4. <<Comment>> \o RStrip(t) \in Seq(Lines) /\ u \o <<Blank, Comment>> \o RStrip(t) \in Seq(Lines)
  BY <1>1, <1>3, ConcatProperties
<1>5. QED
  BY <1>4 DEF Joined

(* A rendering is a text.                                                  *)
LEMMA RenderedTyped ==
  ASSUME NEW b \in [Stages -> Seq(Lines)]
  PROVE  Rendered(b) \in Seq(Lines)
<1> DEFINE f == [l \in Lines |-> Put(l, b)]
<1>1. Template \in Seq(Lines)
  BY DockerfileAssumption
<1>2. ASSUME NEW l \in Lines PROVE Put(l, b) \in Seq(Lines)
  <2>1. <<l>> \in Seq(Lines) /\ b["build"] \in Seq(Lines) /\ b["runtime"] \in Seq(Lines)
    BY EmptySeq, AppendProperties DEF Stages
  <2>2. QED
    BY <2>1 DEF Put
<1>3. f \in [Lines -> Seq(Lines)]
  BY <1>2
<1>4. \A i \in DOMAIN Template : Template[i] \in Lines
  BY <1>1, LenProperties, ElementOfSeq
<1>5. [i \in DOMAIN Template |-> Put(Template[i], b)] = Mapped(Template, f)
  BY <1>4 DEF Mapped
<1> HIDE DEF f
<1>6. FlatMap(Template, f) \in Seq(Lines)
  BY <1>1, <1>3, FlatMapSteps
<1>7. QED
  BY <1>5, <1>6 DEF Rendered, FlatMap

(* What is said of the fragments stays while they do.                      *)
LEMMA SameFragments ==
  ASSUME fragment' = fragment
  PROVE  /\ AllValid' = AllValid /\ Blocks' = Blocks
         /\ \A stage, k : UpTo(stage, k)' = UpTo(stage, k)
<1>1. \A stage, i : Part(stage, i)' = Part(stage, i)
  BY DEF Part, FragmentIsEmpty
<1>2. \A stage : StageText(stage)' = StageText(stage)
  BY <1>1 DEF StageText
<1>3. \A stage, k : UpTo(stage, k)' = UpTo(stage, k)
  <2>1. \A stage : Parts(stage)' = Parts(stage)
    BY <1>1 DEF Parts
  <2>2. \A stage, k : Prefix(Parts(stage), k)' = Prefix(Parts(stage), k)
    BY <2>1 DEF Prefix
  <2>3. QED
    BY <2>2 DEF UpTo
<1>4. AllValid' = AllValid
  BY DEF AllValid, FragmentIsValid
<1>5. QED
  BY <1>2, <1>3, <1>4 DEF Blocks

(* All fragments read are all fragments valid and all blocks complete.     *)
LEMMA AllRead ==
  ASSUME RenderTypeOK, SoFar(Len(Order))
  PROVE  AllValid /\ blocks = Blocks
<1>1. N \in Nat /\ Len(Order) = N + N
  BY AreasAre, OrderIs
<1>2. ASSUME NEW where \in Areas \X Stages PROVE FragmentIsValid(where[2], fragment[where])
  <2>1. PICK a \in Areas, stage \in Stages : where = <<a, stage>>
    OBVIOUS
  <2>2. PICK j \in 1..N : AREAS[j] = a
    BY DockerfileAssumption, AreasAre DEF ToSet
  <2>3. j \in 1..N + N /\ j + N \in 1..N + N
    BY <1>1
  <2>4. where = Order[j] \/ where = Order[j + N]
    BY <2>1, <2>2, OrderIs DEF Stages
  <2>5. QED
    BY <1>1, <2>3, <2>4 DEF SoFar, BuildRead, RuntimeRead
<1>3. AllValid
  BY <1>2 DEF AllValid
<1>4. blocks["build"] = UpTo("build", N) /\ blocks["runtime"] = UpTo("runtime", N)
  <2>1. CASE N = 0
    BY <1>1, <2>1 DEF SoFar, BuildRead, RuntimeRead
  <2>2. CASE N # 0
    <3>1. ~(N + N <= N) /\ N + N - N = N
      BY <1>1, <2>2
    <3>2. QED
      BY <1>1, <3>1 DEF SoFar, BuildRead, RuntimeRead
  <2>3. QED
    BY <2>1, <2>2
<1>5. blocks["build"] = StageText("build") /\ blocks["runtime"] = StageText("runtime")
  BY <1>4, UpToIs
<1>6. \A stage \in Stages : blocks[stage] = Blocks[stage]
  BY <1>5 DEF Stages, Blocks
<1>7. QED
  BY <1>3, <1>6 DEF RenderTypeOK, Blocks

(* One fragment more is read.                                              *)
LEMMA OneFragmentMore ==
  ASSUME RenderTypeOK, NEW k \in 0..Len(Order), SoFar(k), todo # << >>
  PROVE  /\ k + 1 \in 0..Len(Order)
         /\ Head(todo) = Order[k + 1] /\ Head(todo) \in Areas \X Stages
         /\ Tail(todo) = SubSeq(Order, k + 2, Len(Order))
         /\ Tail(todo) \in Seq(Areas \X Stages)
<1>1. Order \in Seq(Areas \X Stages) /\ Len(Order) \in Nat
  BY OrderIs, AreasAre
<1>2. k # Len(Order)
  BY <1>1, SubSeqEmpty DEF SoFar, BuildRead, RuntimeRead
<1>3. k + 1 \in 1..Len(Order) /\ Len(Order) \in k + 1..Len(Order) /\ k + 1 + 1 = k + 2
  BY <1>1, <1>2
<1>4. Head(todo) = Order[k + 1] /\ Tail(todo) = SubSeq(Order, k + 1 + 1, Len(Order))
  <2>1. todo = SubSeq(Order, k + 1, Len(Order))
    BY DEF SoFar, BuildRead, RuntimeRead
  <2>2. QED
    BY <1>1, <1>3, <2>1, HeadTailOfSubSeq
<1>5. Tail(todo) \in Seq(Areas \X Stages) /\ Head(todo) \in Areas \X Stages
  BY HeadTailProperties DEF RenderTypeOK
<1>6. QED
  BY <1>3, <1>4, <1>5

(* It is added to the block of its stage, and to no other.                 *)
LEMMA BlocksOneMore ==
  ASSUME RenderTypeOK, NEW k \in 0..Len(Order), SoFar(k), k + 1 \in 0..Len(Order),
         FragmentIsValid(Order[k + 1][2], fragment[Order[k + 1]]),
         NEW b, b = [blocks EXCEPT ![Order[k + 1][2]] = Joined(@, fragment[Order[k + 1]])]
  PROVE  /\ b \in [Stages -> Seq(Lines)]
         /\ b["build"]   = UpTo("build", BuildRead(k + 1))
         /\ b["runtime"] = UpTo("runtime", RuntimeRead(k + 1))
<1>1. /\ N \in Nat /\ k \in 0..N + N /\ k + 1 \in 1..N + N
      /\ blocks \in [Stages -> Seq(Lines)]
  BY AreasAre, OrderIs DEF RenderTypeOK
<1>2. \A i \in 1..k + 1 : FragmentIsValid(Order[i][2], fragment[Order[i]])
  <2>1. \A i \in 1..k + 1 : i \in 1..k \/ i = k + 1
    BY <1>1
  <2>2. QED
    BY <2>1 DEF SoFar, BuildRead, RuntimeRead
<1>3. ASSUME NEW i \in 1..k + 1 PROVE fragment[Order[i]] \in Seq(Lines)
  <2>1. i \in 1..Len(Order)
    BY <1>1, OrderIs
  <2>2. Order[i] \in Areas \X Stages
    BY <2>1, OrderIs, ElementOfSeq
  <2>3. QED
    BY <1>2, <2>2, ValidIsText
<1>4. CASE k + 1 <= N
  <2>1. Order[k + 1] = <<AREAS[k + 1], "build">>
    BY <1>1, <1>4, OrderIs
  <2>2. Ready("build", k + 1)
    <3>1. \A i \in 1..k + 1 : i \in 1..N
      BY <1>1, <1>4
    <3>2. \A i \in 1..k + 1 : Order[i] = <<AREAS[i], "build">>
      BY <3>1, OrderIs
    <3>3. QED
      BY <1>3, <3>2 DEF Ready, Text
  <2>3. UpTo("build", k + 1) = Joined(UpTo("build", k), Text("build", k + 1))
    <3>1. k \in 0..N - 1
      BY <1>1, <1>4
    <3>2. QED
      BY <2>2, <3>1, UpToIs
  <2>4. UpTo("build", k) = blocks["build"] /\ blocks["runtime"] = UpTo("runtime", 0)
    <3>1. k <= N
      BY <1>1, <1>4
    <3>2. QED
      BY <3>1 DEF SoFar, BuildRead, RuntimeRead
  <2>5. fragment[Order[k + 1]] = Text("build", k + 1) /\ Order[k + 1][2] = "build"
    BY <2>1 DEF Text
  <2>6. Joined(blocks["build"], Text("build", k + 1)) \in Seq(Lines)
    <3>1. blocks["build"] \in Seq(Lines)
      BY <1>1 DEF Stages
    <3>2. Text("build", k + 1) \in Seq(Lines)
      BY <1>1, <1>3, <2>5
    <3>3. QED
      BY <3>1, <3>2, JoinedTyped
  <2>7. b = [blocks EXCEPT !["build"] = Joined(blocks["build"], Text("build", k + 1))]
    BY <2>5
  <2>8. /\ b \in [Stages -> Seq(Lines)]
        /\ b["build"] = Joined(blocks["build"], Text("build", k + 1))
        /\ b["runtime"] = blocks["runtime"]
    BY <1>1, <2>6, <2>7 DEF Stages
  <2>9. QED
    BY <1>4, <2>3, <2>4, <2>8 DEF BuildRead, RuntimeRead
<1>5. CASE ~(k + 1 <= N)
  <2> DEFINE n == k - N
  <2>1. n \in 0..N - 1 /\ n + 1 \in 1..N /\ k + 1 = (n + 1) + N /\ k + 1 - N = n + 1
    BY <1>1, <1>5
  <2>2. Order[k + 1] = <<AREAS[n + 1], "runtime">>
    BY <2>1, OrderIs
  <2>3. Ready("runtime", n + 1)
    <3>1. \A i \in 1..n + 1 : i \in 1..N /\ i + N \in 1..k + 1
      BY <1>1, <2>1
    <3>2. \A i \in 1..n + 1 : Order[i + N] = <<AREAS[i], "runtime">>
      BY <3>1, OrderIs
    <3>3. QED
      BY <1>3, <3>1, <3>2 DEF Ready, Text
  <2>4. UpTo("runtime", n + 1) = Joined(UpTo("runtime", n), Text("runtime", n + 1))
    BY <2>1, <2>3, UpToIs
  <2>5. UpTo("runtime", n) = blocks["runtime"] /\ blocks["build"] = UpTo("build", N)
    <3>1. CASE k = N
      <4>1. k <= N /\ n = 0
        BY <1>1, <3>1
      <4>2. QED
        BY <3>1, <4>1 DEF SoFar, BuildRead, RuntimeRead
    <3>2. CASE k # N
      <4>1. ~(k <= N)
        BY <1>1, <1>5, <3>2
      <4>2. QED
        BY <4>1 DEF SoFar, BuildRead, RuntimeRead
    <3>3. QED
      BY <3>1, <3>2
  <2>6. fragment[Order[k + 1]] = Text("runtime", n + 1) /\ Order[k + 1][2] = "runtime"
    BY <2>2 DEF Text
  <2>7. Joined(blocks["runtime"], Text("runtime", n + 1)) \in Seq(Lines)
    <3>1. blocks["runtime"] \in Seq(Lines)
      BY <1>1 DEF Stages
    <3>2. Text("runtime", n + 1) \in Seq(Lines)
      BY <1>1, <1>3, <2>6
    <3>3. QED
      BY <3>1, <3>2, JoinedTyped
  <2>8. b = [blocks EXCEPT !["runtime"] = Joined(blocks["runtime"], Text("runtime", n + 1))]
    BY <2>6
  <2> HIDE DEF n
  <2>9. /\ b \in [Stages -> Seq(Lines)]
        /\ b["runtime"] = Joined(blocks["runtime"], Text("runtime", n + 1))
        /\ b["build"] = blocks["build"]
    BY <1>1, <2>7, <2>8 DEF Stages
  <2>10. BuildRead(k + 1) = N /\ RuntimeRead(k + 1) = n + 1
    BY <1>1, <1>5, <2>1 DEF BuildRead, RuntimeRead
  <2>11. QED
    BY <2>4, <2>5, <2>9, <2>10
<1>6. QED
  BY <1>4, <1>5

(* A new main has read nothing.                                            *)
LEMMA NothingRead ==
  ASSUME todo = Order, blocks = NoBlocks
  PROVE  0 \in 0..Len(Order) /\ SoFar(0)
<1>1. N \in Nat /\ Order \in Seq(Areas \X Stages) /\ Len(Order) \in Nat
  BY AreasAre, OrderIs
<1>2. Order = SubSeq(Order, 0 + 1, Len(Order))
  BY <1>1, SubSeqFull
<1>3. blocks["build"] = UpTo("build", 0) /\ blocks["runtime"] = UpTo("runtime", 0)
  BY UpToIs DEF NoBlocks, Stages
<1>4. QED
  BY <1>1, <1>2, <1>3 DEF SoFar, BuildRead, RuntimeRead

(* The text called for stays while the fragments do.                       *)
LEMMA SameText ==
  ASSUME fragment' = fragment
  PROVE  Rendered(Blocks)' = Rendered(Blocks)
BY SameFragments DEF Rendered, Put

(* The cause of a red main stays while the files do.                       *)
LEMMA SameRedness ==
  ASSUME fragment' = fragment, dockerfile' = dockerfile, check' = check, RedHasCause, returned' = 1 => returned = 1
  PROVE  RedHasCause'
BY SameFragments, SameText DEF RedHasCause, Blocks

(* What has been read stays so while the fragments do.                     *)
LEMMA SameReadings ==
  ASSUME fragment' = fragment, todo' = todo, blocks' = blocks, NEW k, SoFar(k)
  PROVE  SoFar(k)'
<1>1. \A i : FragmentIsValid(Order[i][2], fragment[Order[i]])' = FragmentIsValid(Order[i][2], fragment[Order[i]])
  BY DEF FragmentIsValid, Order
<1>2. Order' = Order /\ N' = N
  BY DEF Order, N
<1>3. QED
  BY <1>1, <1>2, SameFragments DEF SoFar, BuildRead, RuntimeRead

(* The invariant holds at first.                                           *)
LEMMA AtTheStart == RenderInit => RenderInv
<1> SUFFICES ASSUME RenderInit PROVE RenderInv
  OBVIOUS
<1>1. RenderTypeOK
  <2>1. fragment \in [Areas \X Stages -> Texts]
    BY DockerfileAssumption DEF RenderInit
  <2>2. blocks \in [Stages -> Seq(Lines)] /\ todo \in Seq(Areas \X Stages)
    BY EmptySeq DEF RenderInit, NoBlocks
  <2>3. check \in BOOLEAN
    BY DEF RenderInit
  <2>4. changes \in 0..MaxChanges
    BY DockerfileAssumption DEF RenderInit
  <2>5. dockerfile \in Seq(Lines) \cup {Missing} /\ returned \in {0, 1, 2}
        /\ phase \in {"idle", "assemble", "compare", "truncate", "write"}
    BY DEF RenderInit
  <2>6. QED
    BY <2>1, <2>2, <2>3, <2>4, <2>5 DEF RenderTypeOK
<1>2. RunInv
  BY DEF RenderInit, RunInv, RedHasCause
<1>3. QED
  BY <1>1, <1>2 DEF RenderInv

(* An edit takes the exit status back, which is all that was claimed.      *)
LEMMA EditsKeep ==
  ASSUME RenderInv, EditFragment \/ EditByHand
  PROVE  RenderInv'
<1>1. RenderTypeOK'
  <2>1. fragment' \in [Areas \X Stages -> Texts] /\ dockerfile' \in Seq(Lines) \cup {Missing}
    <3>1. CASE EditFragment
      BY <3>1 DEF RenderInv, RenderTypeOK, EditFragment
    <3>2. CASE EditByHand
      BY <3>2, DockerfileAssumption DEF RenderInv, RenderTypeOK, EditByHand
    <3>3. QED
      BY <3>1, <3>2
  <2>2. changes' \in 0..MaxChanges
    BY DockerfileAssumption DEF RenderInv, RenderTypeOK, EditFragment, EditByHand
  <2>3. check' = check /\ todo' = todo /\ blocks' = blocks /\ phase' = "idle" /\ returned' = 2
    BY DEF EditFragment, EditByHand, run
  <2>4. QED
    BY <2>1, <2>2, <2>3 DEF RenderInv, RenderTypeOK
<1>2. phase' = "idle" /\ returned' = 2
  BY DEF EditFragment, EditByHand
<1>3. QED
  BY <1>1, <1>2 DEF RenderInv, RunInv, RedHasCause

(* main begins with nothing read and both blocks empty.                    *)
LEMMA MainKeeps ==
  ASSUME RenderInv, Main
  PROVE  RenderInv'
<1>1. RenderTypeOK'
  <2>1. blocks' \in [Stages -> Seq(Lines)] /\ todo' \in Seq(Areas \X Stages)
    BY EmptySeq, OrderIs DEF Main, NoBlocks
  <2>2. QED
    BY <2>1 DEF RenderInv, RenderTypeOK, Main, files
<1>2. phase' = "assemble" /\ returned' = 2
  BY DEF Main
<1>3. (\E k \in 0..Len(Order) : SoFar(k))'
  <2>1. (todo = Order /\ blocks = NoBlocks)'
    BY DEF Main, Order, NoBlocks
  <2>2. (0 \in 0..Len(Order) /\ SoFar(0))'
    BY <2>1, NothingRead, PTL
  <2>3. QED
    BY <2>2
<1>4. QED
  BY <1>1, <1>2, <1>3 DEF RenderInv, RunInv, RedHasCause

(* A fragment is refused, and that is the cause; or it is one more.        *)
LEMMA AssemblyKeeps ==
  ASSUME RenderInv, AssembleFragment
  PROVE  RenderInv'
<1> DEFINE stage == Head(todo)[2]   text == fragment[Head(todo)]
<1>1. RenderTypeOK /\ returned = 2 /\ phase = "assemble" /\ todo # << >>
  BY DEF RenderInv, RunInv, AssembleFragment
<1>2. PICK k \in 0..Len(Order) : SoFar(k)
  BY <1>1 DEF RenderInv, RunInv
<1>3. /\ k + 1 \in 0..Len(Order)
      /\ Head(todo) = Order[k + 1] /\ Head(todo) \in Areas \X Stages
      /\ Tail(todo) = SubSeq(Order, k + 2, Len(Order))
      /\ Tail(todo) \in Seq(Areas \X Stages)
  BY <1>1, <1>2, OneFragmentMore
<1>4. CASE ~FragmentIsValid(stage, text) /\ ExitWith(1)
  <2>1. RenderTypeOK'
    BY <1>1, <1>4 DEF RenderTypeOK, ExitWith, files, run
  <2>2. ~AllValid
    BY <1>3, <1>4 DEF AllValid
  <2>3. ~AllValid'
    BY <1>4, <2>2, SameFragments DEF ExitWith, files
  <2>4. returned' = 1 /\ phase' = "idle"
    BY <1>4 DEF ExitWith
  <2>5. QED
    BY <2>1, <2>3, <2>4 DEF RenderInv, RunInv, RedHasCause
<1>5. CASE /\ FragmentIsValid(stage, text)
           /\ blocks' = [blocks EXCEPT ![stage] = Joined(@, text)]
           /\ todo' = Tail(todo)
           /\ UNCHANGED <<files, phase, check, returned, changes>>
  <2>1. /\ blocks' \in [Stages -> Seq(Lines)]
        /\ blocks'["build"]   = UpTo("build", BuildRead(k + 1))
        /\ blocks'["runtime"] = UpTo("runtime", RuntimeRead(k + 1))
    BY <1>1, <1>2, <1>3, <1>5, BlocksOneMore
  <2>2. RenderTypeOK'
    BY <1>1, <1>3, <1>5, <2>1 DEF RenderTypeOK, files
  <2>3. ASSUME NEW n, n = k + 1 PROVE SoFar(n)'
    <3>1. \A i \in 1..k + 1 : FragmentIsValid(Order[i][2], fragment[Order[i]])
      <4>1. \A i \in 1..k + 1 : i \in 1..k \/ i = k + 1
        BY <1>2
      <4>2. QED
        BY <1>2, <1>3, <1>5, <4>1 DEF SoFar, BuildRead, RuntimeRead
    <3>2. \A i \in 1..k + 1 : FragmentIsValid(Order[i][2], fragment[Order[i]])'
      BY <1>5, <3>1 DEF FragmentIsValid, Order, files
    <3>3. todo' = SubSeq(Order, (k + 1) + 1, Len(Order))
      BY <1>2, <1>3, <1>5
    <3>4. /\ blocks'["build"]   = UpTo("build", BuildRead(n))
          /\ blocks'["runtime"] = UpTo("runtime", RuntimeRead(n))
      BY <2>1, <2>3
    <3>5. /\ UpTo("build", BuildRead(n))' = UpTo("build", BuildRead(n))
          /\ UpTo("runtime", RuntimeRead(n))'
               = UpTo("runtime", RuntimeRead(n))
      BY <1>5, SameFragments DEF files, N
    <3>6. Order' = Order
      BY DEF Order
    <3>7. (todo = SubSeq(Order, n + 1, Len(Order)))'
      BY <2>3, <3>3, <3>6
    <3>8. (blocks["build"] = UpTo("build", BuildRead(n)))'
      BY <3>4, <3>5
    <3>9. (blocks["runtime"] = UpTo("runtime", RuntimeRead(n)))'
      BY <3>4, <3>5
    <3>10. (\A i \in 1..n : FragmentIsValid(Order[i][2], fragment[Order[i]]))'
      BY <2>3, <3>2
    <3>11. QED
      BY <3>7, <3>8, <3>9, <3>10 DEF SoFar, BuildRead, RuntimeRead
  <2>4. (\E n \in 0..Len(Order) : SoFar(n))'
    BY <1>3, <2>3 DEF Order
  <2>5. phase' = "assemble" /\ returned' = 2
    BY <1>1, <1>5
  <2>6. QED
    BY <2>2, <2>4, <2>5 DEF RenderInv, RunInv, RedHasCause
<1>6. QED
  BY <1>4, <1>5 DEF AssembleFragment

(* Nothing left to read: the blocks are those the files call for.          *)
LEMMA AssembledKeeps ==
  ASSUME RenderInv, Assembled
  PROVE  RenderInv'
<1>1. RenderTypeOK /\ returned = 2 /\ phase = "assemble" /\ todo = << >>
  BY DEF RenderInv, RunInv, Assembled
<1>2. PICK k \in 0..Len(Order) : SoFar(k)
  BY <1>1 DEF RenderInv, RunInv
<1>3. k = Len(Order)
  <2>1. Order \in Seq(Areas \X Stages) /\ Len(Order) \in Nat
    BY OrderIs, AreasAre
  <2>2. todo = SubSeq(Order, k + 1, Len(Order))
    BY <1>2 DEF SoFar, BuildRead, RuntimeRead
  <2>3. SUFFICES ASSUME k # Len(Order) PROVE FALSE
    OBVIOUS
  <2>4. k + 1 \in 1..Len(Order) /\ Len(Order) \in k + 1..Len(Order)
    BY <2>1, <2>3
  <2>5. todo # << >>
    <3>1. Len(SubSeq(Order, k + 1, Len(Order))) = Len(Order) - (k + 1) + 1
      <4> DEFINE m == k + 1   n == Len(Order)   X == Areas \X Stages
      <4>1. m \in Int /\ n \in Int /\ m <= n /\ Order \in Seq(X) /\ \A i \in m..n : i \in 1..Len(Order)
        BY <2>1, <2>4
      <4> HIDE DEF m, n, X
      <4>2. \A i \in m..n : Order[i] \in X
        BY <4>1, ElementOfSeq
      <4>3. Len(SubSeq(Order, m, n)) = n - m + 1
        BY <4>1, <4>2, SubSeqProperties
      <4>4. QED
        BY <4>3 DEF m, n
    <3>2. Len(todo) >= 1
      BY <2>1, <2>2, <2>4, <3>1
    <3>3. QED
      BY <3>2
  <2>6. QED
    BY <1>1, <2>5
<1>4. AllValid /\ blocks = Blocks
  BY <1>1, <1>2, <1>3, AllRead
<1>5. (AllValid /\ blocks = Blocks)'
  BY <1>4, SameFragments DEF Assembled, files, run
<1>6. /\ phase' \in {"compare", "truncate"} /\ returned' = 2
      /\ phase' = "compare" => check'
  BY <1>1 DEF Assembled, run
<1>7. RenderTypeOK'
  BY <1>1, <1>6 DEF RenderTypeOK, Assembled, files, run
<1>8. QED
  BY <1>5, <1>6, <1>7 DEF RenderInv, RunInv, RedHasCause

(* --check ends with 0 or 1 as the Dockerfile is that text or not.         *)
LEMMA CompareKeeps ==
  ASSUME RenderInv, Compare
  PROVE  RenderInv'
<1> DEFINE code == IF dockerfile = Rendered(blocks) THEN 0 ELSE 1
<1>1. RenderTypeOK /\ AllValid /\ blocks = Blocks /\ check
  BY DEF RenderInv, RunInv, Compare
<1>2. returned' = code /\ phase' = "idle" /\ fragment' = fragment /\ dockerfile' = dockerfile
      /\ UNCHANGED <<run, changes>>
  BY DEF Compare, ExitWith, files
<1>3. /\ code = 0 => dockerfile = Rendered(Blocks)
      /\ code = 1 => dockerfile # Rendered(Blocks) /\ check
  BY <1>1
<1>4. AllValid' /\ Rendered(Blocks)' = Rendered(Blocks)
  BY <1>1, <1>2, SameFragments, SameText
<1>5. RenderTypeOK'
  BY <1>1, <1>2 DEF RenderTypeOK, run
<1> HIDE DEF code
<1>6. RedHasCause'
  BY <1>2, <1>3, <1>4 DEF RedHasCause, Blocks, run
<1>7. returned' = 0 => AllValid' /\ dockerfile' = Rendered(Blocks)'
  BY <1>2, <1>3, <1>4
<1>8. QED
  BY <1>2, <1>5, <1>6, <1>7 DEF RenderInv, RunInv

(* The Dockerfile is empty while no status claims anything.                *)
LEMMA TruncateKeeps ==
  ASSUME RenderInv, Truncate
  PROVE  RenderInv'
<1>1. RenderTypeOK /\ AllValid /\ blocks = Blocks /\ returned = 2
  BY DEF RenderInv, RunInv, Truncate
<1>2. (AllValid /\ blocks = Blocks)'
  BY <1>1, SameFragments DEF Truncate, run
<1>3. phase' = "write" /\ returned' = 2
  BY <1>1 DEF Truncate
<1>4. dockerfile' \in Seq(Lines)
  BY EmptySeq DEF Truncate
<1>5. RenderTypeOK'
  BY <1>1, <1>3, <1>4 DEF RenderTypeOK, Truncate, run
<1>6. QED
  BY <1>2, <1>3, <1>5 DEF RenderInv, RunInv, RedHasCause

(* What is written is what the files call for.                             *)
LEMMA WriteKeeps ==
  ASSUME RenderInv, Write
  PROVE  RenderInv'
<1>1. RenderTypeOK /\ AllValid /\ blocks = Blocks
  BY DEF RenderInv, RunInv, Write
<1>2. /\ dockerfile' = Rendered(Blocks) /\ returned' = 0 /\ phase' = "idle"
      /\ fragment' = fragment /\ UNCHANGED <<run, changes>>
  BY <1>1 DEF Write
<1>3. AllValid' /\ Rendered(Blocks)' = Rendered(Blocks)
  BY <1>1, <1>2, SameFragments, SameText
<1>4. dockerfile' \in Seq(Lines)
  BY <1>1, RenderedTyped DEF RenderTypeOK, Write
<1>5. RenderTypeOK'
  BY <1>1, <1>2, <1>4 DEF RenderTypeOK, run
<1>6. QED
  BY <1>2, <1>3, <1>5 DEF RenderInv, RunInv, RedHasCause

(* A killed main leaves no status, whatever it has written.                *)
LEMMA KillKeeps ==
  ASSUME RenderInv, KillRender
  PROVE  RenderInv'
<1>1. RenderTypeOK
  BY DEF RenderInv
<1>2. /\ returned' = 2 /\ phase' = "idle" /\ fragment' = fragment
      /\ UNCHANGED <<run, changes>>
  BY DEF KillRender
<1>3. dockerfile' \in Seq(Lines) \cup {Missing}
  <2>1. CASE phase = "write"
    <3>1. PICK n \in 0..Len(Rendered(blocks)) : dockerfile' = SubSeq(Rendered(blocks), 1, n)
      BY <2>1 DEF KillRender
    <3>2. Rendered(blocks) \in Seq(Lines)
      BY <1>1, RenderedTyped DEF RenderTypeOK
    <3> DEFINE t == Rendered(blocks)
    <3> HIDE DEF t
    <3>3. t \in Seq(Lines) /\ n \in 0..Len(t) /\ Len(t) \in Nat
      BY <3>1, <3>2, LenProperties DEF t
    <3>4. \A i \in 1..n : i \in 1..Len(t)
      BY <3>3
    <3>5. \A i \in 1..n : t[i] \in Lines
      BY <3>3, <3>4, ElementOfSeq
    <3>6. SubSeq(t, 1, n) \in Seq(Lines)
      BY <3>3, <3>5, SubSeqProperties
    <3>7. QED
      BY <3>1, <3>6 DEF t
  <2>2. CASE phase # "write"
    BY <1>1, <2>2 DEF KillRender, RenderTypeOK
  <2>3. QED
    BY <2>1, <2>2
<1>4. RenderTypeOK'
  BY <1>1, <1>2, <1>3 DEF RenderTypeOK, run
<1>5. QED
  BY <1>2, <1>4 DEF RenderInv, RunInv, RedHasCause

(* Nothing happens.                                                        *)
LEMMA StutteringKeeps ==
  ASSUME RenderInv, UNCHANGED renderVars
  PROVE  RenderInv'
<1>1. /\ UNCHANGED <<fragment, dockerfile, phase, check, todo, blocks, returned, changes>>
      /\ RenderTypeOK /\ RunInv
  BY DEF renderVars, files, run, RenderInv
<1>2. RenderTypeOK'
  BY <1>1 DEF RenderTypeOK
<1>3. RedHasCause'
  BY <1>1, SameRedness DEF RunInv
<1>4. ASSUME phase = "assemble" PROVE (\E k \in 0..Len(Order) : SoFar(k))'
  <2>1. PICK k \in 0..Len(Order) : SoFar(k)
    BY <1>1, <1>4 DEF RunInv
  <2>2. SoFar(k)'
    BY <1>1, <2>1, SameReadings
  <2>3. QED
    BY <2>1, <2>2 DEF Order
<1>5. AllValid' = AllValid /\ Blocks' = Blocks /\ Rendered(Blocks)' = Rendered(Blocks)
  BY <1>1, SameFragments, SameText
<1>6. RunInv'
  BY <1>1, <1>3, <1>4, <1>5 DEF RunInv
<1>7. QED
  BY <1>2, <1>6 DEF RenderInv

(* All runs together.                                                      *)
LEMMA RenderInvariance == RenderSpec => []RenderInv
<1>1. RenderInv /\ [RenderNext]_renderVars => RenderInv'
  BY EditsKeep, MainKeeps, AssemblyKeeps, AssembledKeeps, CompareKeeps, TruncateKeeps,
     WriteKeeps, KillKeeps, StutteringKeeps DEF RenderNext
<1>2. QED
  BY <1>1, AtTheStart, PTL DEF RenderSpec

(* The files, the blocks and the exit status keep their types, whatever    *)
(* the areas, the template and the edits (render_dockerfile.py 151-269).   *)
THEOREM RenderTypeCorrect == RenderSpec => []RenderTypeOK
<1>1. RenderInv => RenderTypeOK
  BY DEF RenderInv
<1>2. QED
  BY <1>1, RenderInvariance, PTL

(* A main that ends with 1 leaves its cause to be seen.                    *)
THEOREM RedOnlyWithCause == RenderSpec => []RedHasCause
<1>1. RenderInv => RedHasCause
  BY DEF RenderInv, RunInv
<1>2. QED
  BY <1>1, RenderInvariance, PTL

(* A main that ends with 0 leaves a Dockerfile that docker build runs as   *)
(* the files mean it, for any template and any number of areas.            *)
THEOREM GreenBuildsTheIntended == RenderSpec => []GreenIsBuiltAsIntended
<1>1. ASSUME RenderInv PROVE GreenIsBuiltAsIntended
  <2>1. SUFFICES ASSUME returned = 0
                 PROVE  /\ AllValid
                        /\ (\A where \in Areas \X Stages : Tidy(fragment[where])) =>
                             DockerInstructions(dockerfile) = Intended
    BY DEF GreenIsBuiltAsIntended
  <2>2. RenderTypeOK /\ AllValid /\ dockerfile = Rendered(Blocks)
    BY <1>1, <2>1 DEF RenderInv, RunInv
  <2>3. ASSUME NEW stage \in Stages PROVE Ready(stage, N)
    <3>1. ASSUME NEW i \in 1..N PROVE Text(stage, i) \in Seq(Lines)
      <4>1. <<AREAS[i], stage>> \in Areas \X Stages
        BY <2>3, <3>1, AreasAre
      <4>2. FragmentIsValid(<<AREAS[i], stage>>[2], fragment[<<AREAS[i], stage>>])
        BY <2>2, <4>1 DEF AllValid
      <4>3. QED
        BY <2>2, <4>1, <4>2, ValidIsText DEF Text
    <3>2. QED
      BY <3>1 DEF Ready
  <2>4. QED
    BY <2>2, <2>3, BuiltAsIntended
<1>2. QED
  BY <1>1, RenderInvariance, PTL
=============================================================================
