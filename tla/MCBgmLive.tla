------------------------------ MODULE MCBgmLive ------------------------------
(***************************************************************************)
(* The liveness of BgmPlayback in two scenarios that together are cheap    *)
(* enough: "serve", two handles that wait for their start, both workers    *)
(* running and nobody closing the game; and "stop", one handle, every      *)
(* outcome of the start of the workers, and a shutdown at any moment.      *)
(* Fairness is BgmPlayback's.                                              *)
(***************************************************************************)
EXTENDS BgmPlayback

VARIABLE scenario

\* What the script and the main thread may do in "serve" ...
Serving ==
  /\ main_pc' \in {"down", "up"}
  /\ main_pc # main_pc' => update_pc' = "wait" /\ loader_pc' = "wait"
  /\ \A h \in owned' \ owned : track'[h].delayed

\* ... and in "stop".
Stopping == slots' <= 1

LiveInit == Init /\ scenario \in {"serve", "stop"}

LiveNext ==
  /\ Next
  /\ UNCHANGED scenario
  /\ scenario = "serve" => Serving
  /\ scenario = "stop" => Stopping

LiveSpec == LiveInit /\ [][LiveNext]_<<vars, scenario>> /\ Fairness
=============================================================================
