-------------------------- MODULE MCSecurityHooks ---------------------------
(* Two findings; files of no, one and two entries: good ones, and one for  *)
(* each thing that can be wrong with an entry; comments likewise.          *)
EXTENDS SecurityHooks

Entry(id, tool, complete, expires) ==
  [id |-> id, tool |-> tool, complete |-> complete, expires |-> expires]

Good(tool) == Entry("a", tool, TRUE, 2)

MCFiles ==
  { {}, {Entry("a", "bandit", FALSE, 2)}, {Entry("a", "eslint", TRUE, 2)},
    {Entry("b", "bandit", TRUE, NotADate)}, {Entry("a", "eslint", TRUE, NotADate)},
    {Entry("b", "pip-audit", TRUE, 1), Entry("a", "bandit", FALSE, NotADate)},
    {Good("dependency-check"), Entry("b", "dependency-check", TRUE, 1)} }
  \cup { {Good(tool)} : tool \in KNOWN_TOOLS }
  \cup { {Good("bandit"), Good("semgrep")}, {Good("dependency-check"), Good("pip-audit")} }

Comment(tool, named) == [tool |-> tool, ids |-> named]

MCSources == { {}, {Comment("bandit", {"a"})}, {Comment("semgrep", {})},
               {Comment("bandit", {"a", "b"}), Comment("semgrep", {"a"})} }
=============================================================================
