-------------------------- MODULE OptionPrecedence --------------------------
(***************************************************************************)
(* What the resolution of options promises, whatever the order in which it *)
(* looks at them: a call is either answered with, for every field, what    *)
(* the highest layer that speaks of it says, all of it acceptable, or      *)
(* refused, and then some layer says something that is not acceptable.     *)
(***************************************************************************)
EXTENDS Naturals

CONSTANTS
  Fields,
  Values,
  Silent,      \* what a layer says of a field that it does not mention
  Depth,       \* number of layers, 1 being the highest
  Acceptable   \* field to the set of its acceptable values

VARIABLES
  says,    \* layer and field to a value, or to Silent
  answer,  \* field to a value, or to Silent when nobody speaks of it
  verdict  \* "open", "answered" or "refused"

Unanswered == [f \in Fields |-> Silent]

(* v is what the highest layer that speaks of f says. *)
IsHighest(f, v) ==
  \/ v = Silent /\ \A l \in 1..Depth : says[l][f] = Silent
  \/ v # Silent /\ \E l \in 1..Depth :
       /\ says[l][f] = v
       /\ \A higher \in 1..l - 1 : says[higher][f] = Silent

Init ==
  /\ says \in [1..Depth -> [Fields -> Values \cup {Silent}]]
  /\ answer = Unanswered
  /\ verdict = "open"

Answer ==
  /\ verdict = "open"
  /\ verdict' = "answered"
  /\ answer' \in [Fields -> Values \cup {Silent}]
  /\ \A f \in Fields : /\ IsHighest(f, answer'[f])
                       /\ answer'[f] \in Acceptable[f] \cup {Silent}
  /\ UNCHANGED says

Refuse ==
  /\ verdict = "open"
  /\ \E l \in 1..Depth, f \in Fields : says[l][f] \notin Acceptable[f] \cup {Silent}
  /\ verdict' = "refused"
  /\ UNCHANGED <<says, answer>>

Next == Answer \/ Refuse

Spec == Init /\ [][Next]_<<says, answer, verdict>>
=============================================================================
