------------------------------ MODULE FourEyes ------------------------------
(***************************************************************************)
(* What the remediation board promises: an item is its trail of            *)
(* transitions, each by one actor.  The last transition says which can     *)
(* follow, and nobody decides on a submission of their own.                *)
(***************************************************************************)
EXTENDS Sequences, Naturals

CONSTANTS Items, Users

VARIABLE trail  \* Items -> the transitions of the item so far, oldest first

Transitions == {"create", "assign", "submit", "approve", "reject"}

\* Which transition may come after which.
Follows == [assign |-> {"create"}, submit |-> {"assign", "reject"},
            approve |-> {"submit"}, reject |-> {"submit"}]

Latest(s) == s[Len(s)]

\* The actor who submitted an item does not approve or reject it.
SeparateActors(s, kind, u) == kind \in {"approve", "reject"} => Latest(s).actor # u

Init == trail = [i \in Items |-> << >>]

Record(i, kind, u) ==
  trail' = [trail EXCEPT ![i] = Append(@, [transition |-> kind, actor |-> u])]

Create(i, u) == trail[i] = << >> /\ Record(i, "create", u)

Transition(i, kind, u) ==
  /\ trail[i] # << >>
  /\ Latest(trail[i]).transition \in Follows[kind]
  /\ SeparateActors(trail[i], kind, u)
  /\ Record(i, kind, u)

Next ==
  \E i \in Items, u \in Users :
    \/ Create(i, u)
    \/ \E kind \in DOMAIN Follows : Transition(i, kind, u)

Spec == Init /\ [][Next]_trail
=============================================================================
