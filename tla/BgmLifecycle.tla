---------------------------- MODULE BgmLifecycle ----------------------------
(***************************************************************************)
(* What the playback manager promises of a background-music request, with  *)
(* no threads, queues, fades or clock: each request is made once, is the   *)
(* selected one, is perhaps replaced, is retired, and is then freed.  A    *)
(* new selection and the departure of the old one are one step, so at most *)
(* one request is ever meant to stay.  Shutdown forgets everything.        *)
(***************************************************************************)
EXTENDS Integers

CONSTANTS MaxSlots   \* as in BgmPlayback

VARIABLES
  phase,   \* handle -> where its request is
  chosen   \* the selected request, 0 when none

lifecycle_vars == <<phase, chosen>>

Requests == 1..MaxSlots
Phases == {"unused", "playing", "leaving", "retired", "freed"}

\* The phases once the chosen request has to leave, if it still plays.
Replaced ==
  [h \in Requests |->
     IF h = chosen /\ phase[h] = "playing" THEN "leaving" ELSE phase[h]]

\* Requests are taken in order and never taken again.
NextUnused(h) == phase[h] = "unused" /\ \A g \in 1..(h - 1) : phase[g] # "unused"

\* A new request replaces the chosen one; it plays, or is retired unheard.
Choose(h) ==
  /\ NextUnused(h)
  /\ chosen' = h
  /\ \E start \in {"playing", "retired"} : phase' = [Replaced EXCEPT ![h] = start]

\* With no request left the chosen one leaves all the same.
ChooseNone ==
  /\ \A h \in Requests : phase[h] # "unused"
  /\ chosen' = 0
  /\ phase' = Replaced

\* Requests end: played to the end, faded out, or both at once.
Expire(S) ==
  /\ S # {}
  /\ \A h \in S : phase[h] \in {"playing", "leaving"}
  /\ phase' = [h \in Requests |-> IF h \in S THEN "retired" ELSE phase[h]]
  /\ UNCHANGED chosen

\* The chosen request is stopped.
Stop ==
  /\ chosen # 0
  /\ chosen' = 0
  /\ phase' = [phase EXCEPT ![chosen] = "retired"]

\* All that is retired is freed together; a freed request is not chosen.
Free ==
  /\ \E h \in Requests : phase[h] = "retired"
  /\ phase' = [h \in Requests |-> IF phase[h] = "retired" THEN "freed" ELSE phase[h]]
  /\ chosen' = IF chosen # 0 /\ phase[chosen] = "retired" THEN 0 ELSE chosen

Forget ==
  /\ phase' = [h \in Requests |-> "unused"]
  /\ chosen' = 0

LifecycleInit ==
  /\ phase = [h \in Requests |-> "unused"]
  /\ chosen = 0

LifecycleNext ==
  \/ \E h \in Requests : Choose(h)
  \/ ChooseNone
  \/ \E S \in SUBSET Requests : Expire(S)
  \/ Stop
  \/ Free
  \/ Forget

LifecycleSpec == LifecycleInit /\ [][LifecycleNext]_lifecycle_vars
=============================================================================
