--------------------------- MODULE SecurityHooks ----------------------------
(***************************************************************************)
(* The hooks that run security tools with the registered exceptions, and   *)
(* the hook that checks the exceptions: check_security_exceptions.py and   *)
(* run_*.py of src/scripts.                                                *)
(*                                                                         *)
(* Each run_* script reads security/exceptions.yaml twice, to check it and *)
(* to take from it what the tool is to ignore; the Dependency-Check also   *)
(* gets it through a file in the working tree.  A run may be killed, or    *)
(* end in an exception of a program it calls; files change at any time.    *)
(***************************************************************************)
EXTENDS Naturals

CONSTANTS
  Ids,       \* identifiers of findings
  Files,     \* contents that security/exceptions.yaml may have
  Sources,   \* contents that src/ may have: sets of comments
  LastDay,   \* bound: the last day of a behaviour
  MaxEdits   \* bound: edits of the two

KNOWN_TOOLS == {"bandit", "semgrep", "pip-audit", "dependency-check"}
Hooks       == KNOWN_TOOLS \cup {"security-exceptions"}

(* An entry: complete if none of REQUIRED_FIELDS is absent or empty;       *)
(* expires is a day, or NotADate.  An absent file is one without entries.  *)
NotADate == 0
Entries  == [id : Ids, tool : KNOWN_TOOLS \cup {"eslint"}, complete : BOOLEAN,
             expires : {NotADate} \cup 1..LastDay]

(* A comment "nosec" or "nosemgrep", by the tool that it is for, and its   *)
(* identifiers, perhaps none.                                              *)
Comments == [tool : {"bandit", "semgrep"}, ids : SUBSET Ids]

ASSUME HooksAssumption ==
  /\ \A f \in Files : f \subseteq Entries
  /\ \A s \in Sources : s \subseteq Comments
  /\ Files # {} /\ Sources # {}
  /\ LastDay \in Nat \ {0} /\ MaxEdits \in Nat

VARIABLES
  file,         \* security/exceptions.yaml
  source,       \* the comments in src/
  today,
  hook,         \* the hook that runs, or ran last
  pc,           \* "idle", "check", "key", "read", "suppress", "export", "scan"
                \* or "clean"
  ids,          \* what the tool is told to ignore
  suppression,  \* dependency-check-suppressions.xml: the identifiers in it
  present,      \* whether that file exists
  exported,     \* whether requirements-export.txt exists
  status,       \* the tool's own return code
  exit,         \* what main returned, 0 or 1; 2 when it did not return (an
                \* exception, a kill), has yet to, or the world changed since
  readFile,     \* observation: what the run read the second time
  found,        \* observation: what the tool found
  disturbed,    \* observation: a file or the day changed during the run
  edits

tree     == <<suppression, present, exported>>
world    == <<file, source, today, edits>>
observed == <<readFile, found, disturbed>>
vars     == <<world, hook, pc, ids, tree, status, exit, observed>>

TypeOK ==
  /\ file \in Files /\ source \in Sources
  /\ today \in 1..LastDay
  /\ hook \in Hooks
  /\ pc \in {"idle", "check", "key", "read", "suppress", "export", "scan", "clean"}
  /\ ids \subseteq Ids /\ suppression \subseteq Ids
  /\ present \in BOOLEAN /\ exported \in BOOLEAN
  /\ status \in {0, 1} /\ exit \in {0, 1, 2}
  /\ readFile \subseteq Entries
  /\ found \subseteq Ids /\ disturbed \in BOOLEAN
  /\ edits \in 0..MaxEdits

Init ==
  /\ file \in Files /\ source \in Sources
  /\ today = 1
  /\ hook \in Hooks
  /\ pc = "idle"
  /\ ids = {} /\ suppression = {}
  /\ present = FALSE /\ exported = FALSE
  /\ status = 0 /\ exit = 2
  /\ readFile = {} /\ found = {} /\ disturbed = FALSE
  /\ edits = 0

-----------------------------------------------------------------------------
(* _validate_entry: the entries that are reported. *)
EntryErrors(f) == {e \in f : ~e.complete \/ e.tool \notin KNOWN_TOOLS}

(* parse_exceptions: the others, and ValueError if a date is none. *)
Parsed(f) == f \ EntryErrors(f)
ParseRaises(f) == \E e \in Parsed(f) : e.expires = NotADate

BugExpired(f) == {e \in Parsed(f) : e.expires <= today}  \* a day too early
(* find_expired: the day of expiry itself is still good. *)
Expired(f) == {e \in Parsed(f) : e.expires < today}

(* pip_audit_ignore_args, bandit_skip_ids and their like. *)
IgnoredBy(f, tool) == {e.id : e \in {x \in Parsed(f) : x.tool = tool}}

BugUnregistered(f, s) ==                           \* no identifier, nothing to look up
  {c \in s : c.ids \ IgnoredBy(f, c.tool) # {}}
(* find_unregistered_suppressions. *)
Unregistered(f, s) == {c \in s : c.ids = {} \/ c.ids \ IgnoredBy(f, c.tool) # {}}

(* check: src/ is looked at only by the hook of the exceptions. *)
Errors == EntryErrors(file) \cup Expired(file)
          \cup (IF hook = "security-exceptions" THEN Unregistered(file, source) ELSE {})

-----------------------------------------------------------------------------
Quiet == UNCHANGED <<world, hook, observed>>

EndWith(code) == pc' = "idle" /\ exit' = code

Start ==
  /\ pc = "idle"
  /\ hook' \in Hooks
  /\ pc' = "check"
  /\ exit' = 2
  /\ ids' = {} /\ status' = 0
  /\ readFile' = {} /\ found' = {} /\ disturbed' = FALSE
  /\ UNCHANGED <<world, tree>>

(* check, and the answer of main to its errors. *)
CheckExceptions ==
  /\ pc = "check"
  /\ \/ /\ ParseRaises(file)
        /\ EndWith(2)
     \/ /\ ~ParseRaises(file) /\ Errors # {}
        /\ EndWith(1)
     \/ /\ ~ParseRaises(file) /\ Errors = {}
        /\ CASE hook = "security-exceptions" -> EndWith(0)
             [] hook = "dependency-check"    -> pc' = "key" /\ UNCHANGED exit
             [] OTHER                        -> pc' = "read" /\ UNCHANGED exit
  /\ Quiet /\ UNCHANGED <<ids, tree, status>>

BugKeyOfItsOwnCode ==                              \* a code of its own
  /\ pc = "key"
  /\ \/ pc' = "read" /\ UNCHANGED exit
     \/ EndWith(3)
  /\ Quiet /\ UNCHANGED <<ids, tree, status>>

(* NVD_API_KEY is set or is not. *)
LookForKey ==
  /\ pc = "key"
  /\ \/ pc' = "read" /\ UNCHANGED exit
     \/ EndWith(1)
  /\ Quiet /\ UNCHANGED <<ids, tree, status>>

(* The second reading: errors are not looked at, a bad date still raises.  *)
ReadExceptions ==
  /\ pc = "read"
  /\ \/ /\ ParseRaises(file)
        /\ EndWith(2)
        /\ UNCHANGED <<ids, readFile>>
     \/ /\ ~ParseRaises(file)
        /\ ids' = IgnoredBy(file, hook)
        /\ readFile' = file
        /\ pc' = CASE hook = "dependency-check" -> "suppress"
                   [] hook = "pip-audit"        -> "export"
                   [] OTHER                     -> "scan"
        /\ UNCHANGED exit
  /\ UNCHANGED <<world, hook, found, disturbed, tree, status>>

WriteSuppressionFile ==
  /\ pc = "suppress"
  /\ IF ids = {} THEN UNCHANGED <<suppression, present>>
     ELSE suppression' = ids /\ present' = TRUE
  /\ pc' = "export"
  /\ Quiet /\ UNCHANGED <<ids, exported, status, exit>>

(* uv export with check=True; pip-audit's copy is in a directory of its    *)
(* own, which goes when the scan ends.                                     *)
Export ==
  /\ pc = "export"
  /\ \/ pc' = "scan" /\ exported' = (exported \/ hook = "dependency-check") /\ UNCHANGED exit
     \/ EndWith(2) /\ UNCHANGED exported
  /\ Quiet /\ UNCHANGED <<ids, suppression, present, status>>

BugIgnored ==                                      \* whatever file is there
  IF hook = "dependency-check" THEN IF present THEN suppression ELSE {} ELSE ids

(* What the tool ignores: the Dependency-Check is given the file only if   *)
(* this run has written one.                                               *)
Ignored ==
  IF hook = "dependency-check" THEN IF ids # {} THEN suppression ELSE {} ELSE ids

(* The tool finds what it finds, and may fail on its own account. *)
Scan ==
  /\ pc = "scan"
  /\ found' \in SUBSET Ids
  /\ status' \in IF found' \subseteq Ignored THEN {0, 1} ELSE {1}
  /\ IF hook = "dependency-check" THEN pc' = "clean" /\ UNCHANGED exit
     ELSE EndWith(status')
  /\ UNCHANGED <<world, hook, readFile, disturbed, ids, tree>>

Clean ==
  /\ pc = "clean"
  /\ exported' = FALSE
  /\ present' = (present /\ ids = {})
  /\ EndWith(status)
  /\ Quiet /\ UNCHANGED <<ids, suppression, status>>

Kill ==
  /\ pc # "idle"
  /\ EndWith(2)
  /\ Quiet /\ UNCHANGED <<ids, tree, status>>

-----------------------------------------------------------------------------
(* The world goes on: the registered exceptions and the sources are        *)
(* edited, and days pass.                                                  *)
Disturb == disturbed' = (disturbed \/ pc # "idle")

Edit ==
  /\ edits < MaxEdits
  /\ file' \in Files /\ source' \in Sources
  /\ <<file', source'>> # <<file, source>>
  /\ edits' = edits + 1
  /\ exit' = 2
  /\ Disturb
  /\ UNCHANGED <<today, hook, pc, ids, tree, status, readFile, found>>

Midnight ==
  /\ today < LastDay
  /\ today' = today + 1
  /\ exit' = 2
  /\ Disturb
  /\ UNCHANGED <<file, source, edits, hook, pc, ids, tree, status, readFile, found>>

Next == \/ Start \/ CheckExceptions \/ LookForKey \/ ReadExceptions
        \/ WriteSuppressionFile \/ Export \/ Scan \/ Clean \/ Kill
        \/ Edit \/ Midnight

Spec == Init /\ [][Next]_vars

-----------------------------------------------------------------------------
Registered(f, tool, id) == \E e \in f : e.complete /\ e.tool = tool /\ e.id = id

(* A tool's hook ends with 0 only if everything that the tool found is in  *)
(* an entry for this tool that the run itself has read: not in one for     *)
(* another tool, and not in a suppression file that an earlier run left in *)
(* the working tree when it was killed or its export failed                *)
(* (run_dependency_check.py 57-101).                                       *)
GreenHasReasons ==
  exit = 0 /\ hook \in KNOWN_TOOLS =>
    \A id \in found : Registered(readFile, hook, id)

(* After a run that nothing disturbed and that ended with 0, no entry is   *)
(* incomplete, for an unknown tool, or past its day, and, if it was the    *)
(* hook of the exceptions, every comment in src/ names registered findings *)
(* of its tool (check_security_exceptions.py 147-166).                     *)
GreenIsCurrent ==
  exit = 0 /\ ~disturbed =>
    /\ \A e \in file : e.complete /\ e.tool \in KNOWN_TOOLS /\ e.expires >= today
    /\ hook = "security-exceptions" =>
         \A c \in source : c.ids # {} /\ \A id \in c.ids : Registered(file, c.tool, id)

(* The hook of the exceptions refuses only what is wrong: an entry is good *)
(* to the end of its day (find_expired, 74-75).                            *)
RefusedForCause ==
  exit = 1 /\ hook = "security-exceptions" /\ ~disturbed =>
    \/ \E e \in file : ~e.complete \/ e.tool \notin KNOWN_TOOLS \/ e.expires < today
    \/ \E c \in source : c.ids = {} \/ \E id \in c.ids : ~Registered(file, c.tool, id)
=============================================================================
