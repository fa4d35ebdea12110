---------------------------- MODULE MCDualFold ----------------------------
(***************************************************************************)
(* Instances of DualFold for TLC: a few calls of the environment at a      *)
(* time, on a running phone (with and without an SCB) and on one that      *)
(* boots.                                                                  *)
(***************************************************************************)
EXTENDS DualFold

B(m, r, t, p, c, l, x, s, d) ==
  [modes |-> m, reports |-> r, tents |-> t, powers |-> p, casts |-> c,
   locks |-> l, strays |-> x, slow |-> s, deep |-> d]

Phone(b)  == [cold |-> FALSE, scb |-> TRUE, budget |-> b]
NoScb(b)  == [cold |-> FALSE, scb |-> FALSE, budget |-> b]
Cold(b)   == [cold |-> TRUE, scb |-> TRUE, budget |-> b]

MCScenarios ==
  {Phone(B(2, 0, 0, 0, 0, 0, 0, 0, 1)),  \* overlaps, to their end
   Phone(B(0, 2, 0, 0, 0, 0, 0, 0, 1)),
   Phone(B(0, 1, 0, 1, 0, 0, 0, 0, 1)),
   Phone(B(1, 0, 0, 2, 0, 0, 0, 0, 0)),
   Phone(B(1, 0, 0, 1, 1, 0, 0, 0, 0)),
   Phone(B(1, 0, 1, 0, 0, 1, 0, 0, 0)),
   Phone(B(0, 1, 1, 0, 0, 0, 0, 0, 0)),
   Phone(B(0, 0, 2, 1, 0, 0, 0, 0, 0)),
   Phone(B(1, 1, 0, 0, 0, 1, 0, 0, 0)),
   Phone(B(2, 0, 0, 0, 1, 0, 0, 1, 0)),
   NoScb(B(1, 0, 0, 0, 0, 0, 1, 0, 0)),
   Cold(B(1, 0, 0, 0, 0, 0, 0, 1, 0)),
   Cold(B(0, 1, 0, 0, 0, 0, 0, 1, 0)),
   [Cold(B(0, 1, 0, 0, 0, 0, 0, 0, 0)) EXCEPT !.scb = FALSE],
   Cold(B(1, 3, 0, 0, 1, 0, 0, 0, 2)),
   Phone(B(2, 0, 0, 2, 1, 0, 0, 1, 2))}

\* Two changes at once multiply the states: most scenarios end there.  Long
\* scenarios have one call at a time.
Followed ==
  /\ budget.deep = 1 \/ upset \cap {"overlap", "exitRaces"} = {}
  /\ budget.deep = 2 => \A t, u \in Threads : ~Idle(t) /\ ~Idle(u) => t = u
=============================================================================
