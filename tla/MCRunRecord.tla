---------------------------- MODULE MCRunRecord -----------------------------
(* An instance of RunRecord: a schema in two orders of its keys and another  *)
(* one, two releases of a major version and one of another, an option of     *)
(* each kind.  One call of generate stands for all, since the documents and  *)
(* the releases are interchangeable but for Canonical and their majors.      *)
EXTENDS RunRecord

MCReleases  == {<<0, 9>>, <<0, 10>>, <<1, 9>>}
MCCanonical == [users |-> "u", users_reordered |-> "u", orders |-> "o"]

MCGenerateCalls == {[schema |-> "users", release |-> <<0, 9>>]}
MCResumeCalls   == {[schema |-> "users_reordered", release |-> <<0, 10>>],
                    [schema |-> NotGiven, release |-> <<0, 9>>],
                    [schema |-> NotGiven, release |-> <<1, 9>>],
                    [schema |-> "orders", release |-> <<0, 9>>]}
=============================================================================
