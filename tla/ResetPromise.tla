---------------------------- MODULE ResetPromise ----------------------------
(***************************************************************************)
(* What the ResetAndDeleteService promises the rest of the zone, without   *)
(* records, lists, stages or callbacks: an object has at most one pending  *)
(* reason, which only grows until the object is done; only an object that  *)
(* was asked to go away goes away, and never comes back; and the master    *)
(* controller is kept waiting until nothing is pending.                    *)
(***************************************************************************)
EXTENDS Integers

CONSTANT Obj

VARIABLES
    pending,   \* the strongest reason asked for, 0 when none is pending
    alive,     \* objects that were not destroyed
    busy       \* the master controller was told to wait

promiseVars == <<pending, alive, busy>>

Destroy == 3

PromiseInit ==
    /\ pending = [o \in Obj |-> 0]
    /\ alive = Obj
    /\ busy = FALSE

\* A request for a live object counts if it is stronger than the pending one.
Request(o, r) ==
    /\ o \in alive
    /\ pending[o] < r
    /\ pending' = [pending EXCEPT ![o] = r]
    /\ UNCHANGED alive

\* A destroyed object may survive: an exception on the way is only logged.
Complete(o) ==
    /\ busy
    /\ pending[o] # 0
    /\ pending' = [pending EXCEPT ![o] = 0]
    /\ \/ alive' = alive
       \/ pending[o] = Destroy /\ alive' = alive \ {o}
    /\ busy' = busy

Begin   == ~busy /\ busy' = TRUE /\ UNCHANGED <<pending, alive>>
Release ==
    /\ busy
    /\ \A o \in Obj : pending[o] = 0
    /\ busy' = FALSE
    /\ UNCHANGED <<pending, alive>>

\* A request on a pending object may be the one that starts the reset.
PromiseNext ==
    \/ \E o \in Obj, r \in 1..Destroy :
          Request(o, r) /\ (busy' = busy \/ busy' = TRUE)
    \/ \E o \in Obj : Complete(o)
    \/ Begin
    \/ Release

PromiseSpec == PromiseInit /\ [][PromiseNext]_promiseVars
=============================================================================
