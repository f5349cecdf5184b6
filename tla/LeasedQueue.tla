---------------------------- MODULE LeasedQueue ----------------------------
(***************************************************************************)
(* What a PostgreSQL-backed work queue of this repository promises,        *)
(* whatever its rows carry.  A job is published, leased to a worker under  *)
(* a generation number that grows with every lease, and leaves the leased  *)
(* phase in one of four ways: it is settled, buried, put back, or leased   *)
(* again after its lease expired.  Only the generation that holds the job  *)
(* when it is settled is recorded as the one that did it, and settled and  *)
(* buried jobs never move again.                                           *)
(*                                                                         *)
(* Workers do not appear: a worker that believes in an old lease has no    *)
(* effect on this module's variables, and a queue implements this          *)
(* specification only if that is so.                                       *)
(***************************************************************************)
EXTENDS Naturals

CONSTANT Job            \* everything that may ever be published

VARIABLES
    phase,              \* Job -> "absent", "ready", "leased", "settled", "buried"
    generation,         \* Job -> number of leases granted so far
    settledBy           \* Job -> generation that settled the job, 0 while none has

abstractVars == <<phase, generation, settledBy>>

AbstractInit ==
    /\ phase = [j \in Job |-> "absent"]
    /\ generation = [j \in Job |-> 0]
    /\ settledBy = [j \in Job |-> 0]

\* A batch of jobs may be published, or leased, in one transaction.
Publish ==
    \E S \in SUBSET {j \in Job : phase[j] = "absent"} :
        /\ phase' = [j \in Job |-> IF j \in S THEN "ready" ELSE phase[j]]
        /\ UNCHANGED <<generation, settledBy>>

Lease ==
    \E S \in SUBSET {j \in Job : phase[j] \in {"ready", "leased"}} :
        /\ phase' = [j \in Job |-> IF j \in S THEN "leased" ELSE phase[j]]
        /\ generation' = [j \in Job |-> generation[j] + IF j \in S THEN 1 ELSE 0]
        /\ UNCHANGED settledBy

Settle(j) ==
    /\ phase[j] = "leased"
    /\ phase' = [phase EXCEPT ![j] = "settled"]
    /\ settledBy' = [settledBy EXCEPT ![j] = generation[j]]
    /\ UNCHANGED generation

Bury(j) ==
    /\ phase[j] = "leased"
    /\ phase' = [phase EXCEPT ![j] = "buried"]
    /\ UNCHANGED <<generation, settledBy>>

PutBack(j) ==
    /\ phase[j] = "leased"
    /\ phase' = [phase EXCEPT ![j] = "ready"]
    /\ UNCHANGED <<generation, settledBy>>

AbstractNext ==
    \/ Publish
    \/ Lease
    \/ \E j \in Job : Settle(j) \/ Bury(j) \/ PutBack(j)

AbstractSpec == AbstractInit /\ [][AbstractNext]_abstractVars
=============================================================================
