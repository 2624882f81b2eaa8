-------------------------- MODULE DockerfileRender --------------------------
(***************************************************************************)
(* The Dockerfile made of a template and of the fragments of each area:    *)
(* src/scripts/render_dockerfile.py, which writes it or, with --check,     *)
(* compares it with the one there is.                                      *)
(*                                                                         *)
(* A text is a sequence of lines.  The script divides a fragment into      *)
(* instructions to validate them; docker build divides the Dockerfile into *)
(* instructions to run them.  The two divisions are not the same.          *)
(***************************************************************************)
EXTENDS Integers, Sequences, SequencesExt

CONSTANTS
  AREAS,      \* the areas, in the order of the script
  Template,   \* docker/Dockerfile.in
  Texts,      \* what the fragments may hold
  Areas,      \* the areas as a set
  MaxChanges  \* bound: edits of fragments and of the Dockerfile

STAGES == << "build", "runtime" >>
Stages == {"build", "runtime"}

(* word is the first word of a line, "#" for a comment, "" for a blank     *)
(* line; continues says that it ends in a backslash; flaw is what else a   *)
(* rule could object to in it.  A marker is a whole line, and a blank line *)
(* has nothing in it.                                                      *)
FORBIDDEN_INSTRUCTIONS == {"FROM", "USER", "ENTRYPOINT", "CMD", "EXPOSE", "VOLUME",
                           "SHELL", "HEALTHCHECK", "ADD"}
ALLOWED_INSTRUCTIONS   == {"ARG", "ENV", "RUN", "COPY", "LABEL"}
Markers == [build |-> "# @fragments build", runtime |-> "# @fragments runtime"]
Words   == FORBIDDEN_INSTRUCTIONS \cup ALLOWED_INSTRUCTIONS
           \cup {"WORKDIR", "#", "", Markers["build"], Markers["runtime"]}
Flaws   == {"none", "apt-get", "compiler", "secret", "not from build"}
Lines   == { line \in [word : Words, continues : BOOLEAN, flaw : Flaws] :
               line.word \in {"", Markers["build"], Markers["runtime"]} =>
                 ~line.continues /\ line.flaw = "none" }

Missing == << [word |-> "missing", continues |-> FALSE, flaw |-> "none"] >>   \* no file
Comment == [word |-> "#", continues |-> FALSE, flaw |-> "none"]
Blank   == [word |-> "", continues |-> FALSE, flaw |-> "none"]

IsCode(line) == line.word \notin {"#", "", Markers["build"], Markers["runtime"]}

(* In a tidy text what continues is continued: by another line of code.    *)
Tidy(text) ==
  \A i \in DOMAIN text :
    IsCode(text[i]) /\ text[i].continues => i < Len(text) /\ IsCode(text[i + 1])

ASSUME DockerfileAssumption ==
  /\ AREAS \in Seq(Areas) /\ ToSet(AREAS) = Areas /\ IsInjective(AREAS)
  /\ Template \in Seq(Lines) /\ Tidy(Template)      \* as docker/Dockerfile.in is
  /\ \A text \in Texts : text \in Seq(Lines) \cup {Missing}
  /\ << Comment >> \in Texts
  /\ MaxChanges \in Nat

-----------------------------------------------------------------------------
(* Lines are collected in a buffer until one does not continue. *)
EmptyBuffer == [done |-> <<>>, buffer |-> <<>>]

Collect(acc, line) ==
  LET buffer == Append(acc.buffer, line)
  IN IF line.continues THEN [acc EXCEPT !.buffer = buffer]
     ELSE [done |-> Append(acc.done, buffer), buffer |-> <<>>]

Closed(acc) == IF acc.buffer = <<>> THEN acc.done ELSE Append(acc.done, acc.buffer)

(* Who reads skips some lines.  The script: a comment or a blank line      *)
(* between two instructions, while inside one it is a line like any other. *)
(* docker build: comments and blank lines wherever they are.  The author   *)
(* of a template: the same, but for the markers.                           *)
Skips(reader, buffer, line) ==
  CASE reader = "script" -> buffer = <<>> /\ ~IsCode(line)
    [] reader = "docker" -> ~IsCode(line)
    [] reader = "author" -> line.word \in {"#", ""}

Advance(reader, acc, line) ==
  IF Skips(reader, acc.buffer, line) THEN acc ELSE Collect(acc, line)

Divided(reader, text) ==
  LET acc[n \in 0..Len(text)] ==
        IF n = 0 THEN EmptyBuffer ELSE Advance(reader, acc[n - 1], text[n])
  IN acc[Len(text)]

(* _logical_instructions *)
LogicalInstructions(text) == Closed(Divided("script", text))

(* What docker build runs. *)
DockerInstructions(text) == Closed(Divided("docker", text))

-----------------------------------------------------------------------------
Keyword(instruction) == instruction[1].word
HasFlaw(instruction, flaw) == \E i \in DOMAIN instruction : instruction[i].flaw = flaw

(* validate_fragment, for one instruction; the name of a secret is looked  *)
(* for in the first line.                                                  *)
InstructionIsValid(stage, instruction) ==
  /\ Keyword(instruction) \notin FORBIDDEN_INSTRUCTIONS
  /\ Keyword(instruction) \in ALLOWED_INSTRUCTIONS
  /\ Keyword(instruction) = "COPY" => instruction[1].flaw # "not from build"
  /\ Keyword(instruction) = "RUN" =>
       /\ ~HasFlaw(instruction, "apt-get")
       /\ stage = "runtime" => ~HasFlaw(instruction, "compiler")
  /\ Keyword(instruction) \in {"ENV", "ARG"} => instruction[1].flaw # "secret"

FragmentIsValid(stage, text) ==
  /\ text # Missing
  /\ \A i \in DOMAIN LogicalInstructions(text) :
       InstructionIsValid(stage, LogicalInstructions(text)[i])

FragmentIsEmpty(text) == LogicalInstructions(text) = <<>>

(* text.rstrip(): the blank lines at the end are dropped. *)
RStrip(text) ==
  SubSeq(text, 1, CHOOSE n \in 0..Len(text) :
                    /\ n = 0 \/ text[n] # Blank
                    /\ \A i \in n + 1..Len(text) : text[i] = Blank)

BugJoinedOverwrites(block, text) ==      \* = for +=
  IF FragmentIsEmpty(text) THEN block ELSE << Comment >> \o RStrip(text)

(* A part is a header and the text; a blank line stands between two parts. *)
Joined(block, text) ==
  IF FragmentIsEmpty(text) THEN block
  ELSE IF block = <<>> THEN << Comment >> \o RStrip(text)
  ELSE block \o << Blank, Comment >> \o RStrip(text)

(* render: the blocks in the place of the markers. *)
Put(line, block) ==
  CASE line.word = Markers["build"]   -> block["build"]
    [] line.word = Markers["runtime"] -> block["runtime"]
    [] OTHER                          -> << line >>

Rendered(block) == FlattenSeq([i \in DOMAIN Template |-> Put(Template[i], block)])

-----------------------------------------------------------------------------
VARIABLES
  fragment,    \* the fragment files: area and stage to a text
  dockerfile,  \* the Dockerfile at the root
  phase,       \* "idle", "assemble", "compare", "truncate" or "write"
  check,       \* whether main runs with --check
  todo,        \* fragments that render has yet to read
  blocks,      \* stage to its _assembled_block so far
  returned,    \* exit status of the last main; 2 when it was killed, while one
               \* runs, when an edit came after it, and before the first
  changes      \* edits so far

files      == <<fragment, dockerfile>>
run        == <<check, todo, blocks>>
renderVars == <<files, phase, run, returned, changes>>

Order == [i \in 1..Len(AREAS) |-> <<AREAS[i], "build">>]
         \o [i \in 1..Len(AREAS) |-> <<AREAS[i], "runtime">>]
NoBlocks == [stage \in Stages |-> <<>>]

RenderTypeOK ==
  /\ fragment \in [Areas \X Stages -> Texts]
  /\ dockerfile \in Seq(Lines) \cup {Missing}
  /\ phase \in {"idle", "assemble", "compare", "truncate", "write"}
  /\ check \in BOOLEAN
  /\ todo \in Seq(Areas \X Stages)
  /\ blocks \in [Stages -> Seq(Lines)]
  /\ returned \in {0, 1, 2}
  /\ changes \in 0..MaxChanges

RenderInit ==
  /\ fragment = [where \in Areas \X Stages |-> << Comment >>]
  /\ dockerfile = Missing
  /\ phase = "idle"
  /\ check = FALSE
  /\ todo = <<>>
  /\ blocks = NoBlocks
  /\ returned = 2
  /\ changes = 0

(* A track edits a fragment of its own. *)
EditFragment ==
  /\ phase = "idle" /\ changes < MaxChanges
  /\ \E where \in Areas \X Stages, text \in Texts \ {<< Comment >>} :
       fragment' = [fragment EXCEPT ![where] = text]
  /\ changes' = changes + 1 /\ returned' = 2
  /\ UNCHANGED <<dockerfile, phase, run>>

(* Somebody edits the Dockerfile itself. *)
EditByHand ==
  /\ phase = "idle" /\ changes < MaxChanges
  /\ \E text \in Texts \ {Missing} : dockerfile' = text
  /\ changes' = changes + 1 /\ returned' = 2
  /\ UNCHANGED <<fragment, phase, run>>

Main ==
  /\ phase = "idle"
  /\ check' \in BOOLEAN
  /\ todo' = Order
  /\ blocks' = NoBlocks
  /\ phase' = "assemble"
  /\ returned' = 2
  /\ UNCHANGED <<files, changes>>

BugExitWithNegated(code) ==              \* as a return code of subprocess
  /\ returned' = 0 - code
  /\ phase' = "idle"
  /\ UNCHANGED <<files, run, changes>>

ExitWith(code) ==
  /\ returned' = code
  /\ phase' = "idle"
  /\ UNCHANGED <<files, run, changes>>

BugAssembleByRuntimeRules ==             \* the stage of a fragment is not passed on
  /\ phase = "assemble" /\ todo # <<>>
  /\ LET stage == Head(todo)[2]
         text  == fragment[Head(todo)]
     IN \/ /\ ~FragmentIsValid("runtime", text)
           /\ ExitWith(1)
        \/ /\ FragmentIsValid("runtime", text)
           /\ blocks' = [blocks EXCEPT ![stage] = Joined(@, text)]
           /\ todo' = Tail(todo)
           /\ UNCHANGED <<files, phase, check, returned, changes>>

(* One fragment is read, validated and added to the block of its stage; a  *)
(* FragmentError ends main.                                                *)
AssembleFragment ==
  /\ phase = "assemble" /\ todo # <<>>
  /\ LET stage == Head(todo)[2]
         text  == fragment[Head(todo)]
     IN \/ /\ ~FragmentIsValid(stage, text)
           /\ ExitWith(1)
        \/ /\ FragmentIsValid(stage, text)
           /\ blocks' = [blocks EXCEPT ![stage] = Joined(@, text)]
           /\ todo' = Tail(todo)
           /\ UNCHANGED <<files, phase, check, returned, changes>>

Assembled ==
  /\ phase = "assemble" /\ todo = <<>>
  /\ phase' = IF check THEN "compare" ELSE "truncate"
  /\ UNCHANGED <<files, run, returned, changes>>

Compare ==
  /\ phase = "compare"
  /\ ExitWith(IF dockerfile = Rendered(blocks) THEN 0 ELSE 1)

(* output_path.write_text opens the file, which empties it, and writes. *)
Truncate ==
  /\ phase = "truncate"
  /\ dockerfile' = <<>>
  /\ phase' = "write"
  /\ UNCHANGED <<fragment, run, returned, changes>>

Write ==
  /\ phase = "write"
  /\ dockerfile' = Rendered(blocks)
  /\ returned' = 0
  /\ phase' = "idle"
  /\ UNCHANGED <<fragment, run, changes>>

(* The process is ended in the middle, the Dockerfile perhaps half written. *)
KillRender ==
  /\ phase # "idle"
  /\ IF phase = "write"
     THEN \E n \in 0..Len(Rendered(blocks)) : dockerfile' = SubSeq(Rendered(blocks), 1, n)
     ELSE UNCHANGED dockerfile
  /\ returned' = 2
  /\ phase' = "idle"
  /\ UNCHANGED <<fragment, run, changes>>

RenderNext == \/ EditFragment \/ EditByHand \/ Main \/ AssembleFragment \/ Assembled
              \/ Compare \/ Truncate \/ Write \/ KillRender

RenderSpec == RenderInit /\ [][RenderNext]_renderVars

-----------------------------------------------------------------------------
(* What the files call for, instruction by instruction: those of the       *)
(* template, with those of the fragments of a stage, in the order of the   *)
(* areas, in the place of its marker.                                      *)
StageInstructions(stage) ==
  FlattenSeq([i \in DOMAIN AREAS |-> LogicalInstructions(fragment[<<AREAS[i], stage>>])])

Meant(instruction) ==
  CASE Keyword(instruction) = Markers["build"]   -> StageInstructions("build")
    [] Keyword(instruction) = Markers["runtime"] -> StageInstructions("runtime")
    [] OTHER                                     -> << instruction >>

Intended ==
  LET instructions == Closed(Divided("author", Template))
  IN FlattenSeq([i \in DOMAIN instructions |-> Meant(instructions[i])])

AllValid == \A where \in Areas \X Stages : FragmentIsValid(where[2], fragment[where])

(* If main ends with 0, having written or only checked, then after any     *)
(* edits and any killed runs all fragments are valid and docker build      *)
(* meets exactly the intended instructions, provided the fragments are     *)
(* tidy (render_dockerfile.py 193-230 and 251-269).                        *)
GreenIsBuiltAsIntended ==
  returned = 0 =>
    /\ AllValid
    /\ (\A where \in Areas \X Stages : Tidy(fragment[where])) =>
         DockerInstructions(dockerfile) = Intended

(* The text that the files call for: the parts that are not empty, a       *)
(* header before each and a blank line between two.                        *)
Part(stage, i) ==
  LET Empty(j) == FragmentIsEmpty(fragment[<<AREAS[j], stage>>])
  IN IF Empty(i) THEN <<>>
     ELSE (IF \A j \in 1..i - 1 : Empty(j) THEN <<>> ELSE << Blank >>)
          \o << Comment >> \o RStrip(fragment[<<AREAS[i], stage>>])

StageText(stage) == FlattenSeq([i \in DOMAIN AREAS |-> Part(stage, i)])

(* If main ends with 1 there is something to repair, and it is still there *)
(* however the run was interleaved with edits and kills before: a fragment *)
(* that is missing or invalid, or, for --check, a Dockerfile that is not   *)
(* the text that the fragments call for (render_dockerfile.py 251-266).    *)
RedHasCause ==
  returned = 1 =>
    \/ ~AllValid
    \/ check /\ dockerfile # Rendered([stage \in Stages |-> StageText(stage)])
=============================================================================
