------------------------- MODULE MCDockerfileRender -------------------------
(* Two areas; fragments that are empty, missing, right, refused by one rule *)
(* or another, and such as leave an instruction open at their end or       *)
(* around a comment or a blank line.                                       *)
EXTENDS DockerfileRender

Line(word, continues, flaw) == [word |-> word, continues |-> continues, flaw |-> flaw]

MCAREAS == << "tipos", "contrato" >>
MCAreas == {"tipos", "contrato"}

(* The template of the tests, two stages, each with its marker, and an     *)
(* instruction of two lines as docker/Dockerfile.in has.                   *)
MCTemplate ==
  << Line("FROM", FALSE, "none"), Line("RUN", TRUE, "none"), Line("RUN", FALSE, "none"),
     Line(Markers["build"], FALSE, "none"), Line("FROM", FALSE, "none"),
     Line(Markers["runtime"], FALSE, "none"), Blank, Line("USER", FALSE, "none") >>

Run  == Line("RUN", FALSE, "none")
Open == Line("RUN", TRUE, "none")
Env  == Line("ENV", FALSE, "none")

MCTexts ==
  { Missing, << Comment >>, << Run >>, << Run, Env, Blank >>, << Comment, Open, Run >>,
    << Line("USER", FALSE, "none") >>, << Run, Line("WORKDIR", FALSE, "none") >>,
    << Line("RUN", FALSE, "compiler") >>, << Line("ENV", FALSE, "secret") >>,
    << Open >>, << Open, Comment, Env >>, << Open, Blank, Env >> }
=============================================================================
