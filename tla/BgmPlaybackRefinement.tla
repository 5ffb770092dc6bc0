------------------------ MODULE BgmPlaybackRefinement ------------------------
(***************************************************************************)
(* BgmPlayback implements BgmLifecycle.  A handle's phase is read off the  *)
(* handle table, the retired queue and the selection: an unselected stream *)
(* that is not retired yet is leaving.                                     *)
(***************************************************************************)
EXTENDS BgmPlayback

PhaseOf(h) ==
  IF h > slots THEN "unused"
  ELSE IF h \notin records THEN "freed"
  ELSE IF h \in retired THEN "retired"
  ELSE IF h = selected THEN "playing"
  ELSE "leaving"

Lifecycle == INSTANCE BgmLifecycle WITH
  phase <- [h \in Handles |-> PhaseOf(h)],
  chosen <- selected

(* Every step of the commands, the workers and the shutdown is one step of the
   life of the requests, or none: a replacement and the departure of the old
   track are never seen apart, retirement is final, and only retired requests
   are freed while playback is up. *)
ImplementsLifecycle == Lifecycle!LifecycleSpec
=============================================================================
