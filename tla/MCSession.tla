------------------------------ MODULE MCSession ------------------------------
(***************************************************************************)
(* Values of Session's constants for TLC: one or two users and groups, and *)
(* for each run a budget that buys the faults the run is about.            *)
(***************************************************************************)
EXTENDS Session

CONSTANTS u1, u2, g1

OneUser == {u1}
TwoUsers == {u1, u2}
OneGroup == {g1}

NoFaults == [f \in Faults |-> 0]

(* The gateway speaks first: kicks and pushes cross the client's calls. *)
Pushes ==
  [NoFaults EXCEPT !["call"] = 3, !["kick"] = 1, !["push"] = 1,
                   !["garble"] = 1]

(* The link breaks under two calls, and a thread may stall. *)
Drops ==
  [NoFaults EXCEPT !["call"] = 2, !["drop"] = 1, !["stall"] = 1]

(* Answers refuse, and packets cannot be encoded. *)
Refusals ==
  [NoFaults EXCEPT !["call"] = 3, !["drop"] = 1, !["refuse"] = 1,
                   !["codec"] = 1]

(* A Login that times out with its packet still queued, then another. *)
GivesUp ==
  [NoFaults EXCEPT !["call"] = 4, !["push"] = 1, !["stall"] = 1]

(* What the session must recover from: a break and a kick under two calls, *)
(* or a second break, with a retry that outlives its timeout, under one.   *)
Recovery ==
  [NoFaults EXCEPT !["call"] = 2, !["drop"] = 1, !["kick"] = 1]
Retry ==
  [NoFaults EXCEPT !["call"] = 1, !["drop"] = 2, !["slow"] = 1]

AllScenarios == {Pushes, Drops, Refusals, GivesUp, Recovery, Retry}
RecoveryScenarios == {Recovery, Retry}

(* The smallest budgets that show the findings. *)
OneLogin == {[NoFaults EXCEPT !["call"] = 1, !["drop"] = 1]}
StaleRefusal ==
  {[NoFaults EXCEPT !["call"] = 2, !["drop"] = 1, !["refuse"] = 1,
                    !["kick"] = 1]}
=============================================================================
