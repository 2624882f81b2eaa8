---------------------------- MODULE MCRegistry -----------------------------
(* Four entry points of two distributions: the same name from both, a name *)
(* in both groups, and one that does not import.                           *)
EXTENDS Registry

EP(group, n, d, v, b) ==
  [namespace |-> group, name |-> n, dist |-> d, value |-> v, breaks |-> b]

MCGeneratorPlugins == << EP("generators", "n1", "d1", "v1", FALSE),
                         EP("generators", "n1", "d2", "v2", FALSE) >>

MCSinkPlugins == << EP("sinks", "n1", "d2", "v2", FALSE),
                    EP("sinks", "n2", "d1", "v1", TRUE) >>

MCNamespaces == {"generators", "sinks"}
=============================================================================
