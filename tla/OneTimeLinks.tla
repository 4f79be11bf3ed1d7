---------------------------- MODULE OneTimeLinks ----------------------------
(***************************************************************************)
(* What a mailed sign-in link promises, without Redis, challenges or       *)
(* handlers: it is offered once, taken by one click, and opens a session   *)
(* for that click or for nobody; whatever ends it ends it for good.        *)
(***************************************************************************)
EXTENDS Naturals

CONSTANT Links

VARIABLES
  state,  \* "blank", "open", "taken", "used" or "void", per link
  opened  \* sessions each link has opened

vars == <<state, opened>>

Init ==
  /\ state = [l \in Links |-> "blank"]
  /\ opened = [l \in Links |-> 0]

\* A blank link is offered, or its mail goes out without one; an offered link is taken, or it
\* is superseded, expires or dies with its challenge; a click is served, or cut short.
Life == { <<"blank", "open">>, <<"blank", "void">>, <<"open", "taken">>, <<"open", "void">>,
          <<"taken", "used">>, <<"taken", "void">> }

Moves(l) ==
  /\ <<state[l], state'[l]>> \in Life
  /\ state' = [state EXCEPT ![l] = state'[l]]
  /\ opened' = IF state'[l] = "used" THEN [opened EXCEPT ![l] = @ + 1] ELSE opened

Next == \E l \in Links : Moves(l)

Spec == Init /\ [][Next]_vars
=============================================================================
