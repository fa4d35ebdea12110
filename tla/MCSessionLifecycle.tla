------------------------ MODULE MCSessionLifecycle ------------------------
(***************************************************************************)
(* Instances of SessionLifecycle for TLC: a few requests from outside at a *)
(* time.                                                                   *)
(***************************************************************************)
EXTENDS SessionLifecycle

CONSTANTS b1

None == [starts |-> 0, clears |-> 0, taps |-> 0, visible |-> 0, stops |-> 0,
         requests |-> 0, clients |-> 0, deaths |-> 0, expiries |-> 0]

Bounds ==
  {\* tasks that lose their place
   [None EXCEPT !.starts = 2, !.stops = 1, !.visible = 1, !.expiries = 1],
   \* a second client while the first one still asks
   [None EXCEPT !.starts = 2, !.requests = 3, !.clients = 2],
   \* a client that dies
   [None EXCEPT !.starts = 1, !.taps = 1, !.clients = 2, !.deaths = 1],
   \* stops from two threads
   [None EXCEPT !.starts = 1, !.clears = 1, !.stops = 1, !.clients = 1],
   \* requests of SCB's own
   [None EXCEPT !.taps = 2, !.stops = 1, !.clients = 1, !.requests = 1]}
=============================================================================
