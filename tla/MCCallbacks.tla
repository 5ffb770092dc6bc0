----------------------------- MODULE MCCallbacks ----------------------------
(***************************************************************************)
(* Two parts that share no state, each checked by itself in one run: the   *)
(* actor pool, whose destructors run release hooks that acquire and retire,*)
(* and an ACT runtime, whose loops run callbacks that end the stage.       *)
(***************************************************************************)
EXTENDS ActorPool, ActRuntime

VARIABLE subject   \* the part this behaviour is of

callback_vars == <<vars, act_vars, subject>>

CallbacksInit == subject \in {"pool", "act"} /\ Init /\ ActInit

PoolStep == subject = "pool" /\ Next /\ UNCHANGED <<act_vars, subject>>
ActStep == subject = "act" /\ ActNext /\ UNCHANGED <<vars, subject>>

CallbacksSpec == CallbacksInit /\ [][PoolStep \/ ActStep]_callback_vars

\* The variables of both parts have their types.
CallbacksTypeOK == TypeOK /\ ActTypeOK
=============================================================================
