---------------------------- MODULE DisplayState ----------------------------
(***************************************************************************)
(* What SetDisplayState promises: three copies of the display state that   *)
(* change together or not at all.  A screen-off may be refused, and then   *)
(* nothing has changed; the clients are told the outcome.                  *)
(***************************************************************************)
CONSTANTS
  States,   \* the display states that are asked for
  Copies    \* who keeps the display state

NoTarget == "NONE"

VARIABLES
  copies,   \* the display state that each of Copies holds
  target,   \* the state of the call under way, or NoTarget
  told      \* what the clients were told last

vars == <<copies, target, told>>

Init ==
  /\ copies = [c \in Copies |-> "UNKNOWN"]
  /\ target = NoTarget
  /\ told = "UNKNOWN"

Request(s) ==
  /\ target = NoTarget
  /\ target' = s
  /\ UNCHANGED <<copies, told>>

\* A display that goes off may be told as suspended.
Take ==
  /\ target # NoTarget
  /\ copies' = [c \in Copies |-> target]
  /\ \/ told' = target
     \/ target = "OFF" /\ told' = "ON_SUSPEND"
  /\ target' = NoTarget

Refuse ==
  /\ target = "OFF"
  /\ told' = "UNKNOWN"
  /\ target' = NoTarget
  /\ UNCHANGED copies

Next ==
  \/ \E s \in States : Request(s)
  \/ Take
  \/ Refuse

Spec == Init /\ [][Next]_vars
=============================================================================
