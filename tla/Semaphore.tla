------------------------------ MODULE Semaphore ------------------------------
(***************************************************************************)
(* What a concurrency cap promises (apps/web/lib/rateLimit/leases.ts): "at *)
(* most N of these at once".  A permit that ran out is one that was given  *)
(* back.                                                                   *)
(***************************************************************************)
EXTENDS Naturals, FiniteSets

CONSTANTS
    Holders,   \* those who may hold a permit
    Permits    \* how many there are

VARIABLE held  \* who holds one

SemaphoreInit == held = {}

Take(h) ==
    /\ h \notin held
    /\ Cardinality(held) < Permits
    /\ held' = held \cup {h}

Give(h) ==
    /\ h \in held
    /\ held' = held \ {h}

SemaphoreNext == \E h \in Holders : Take(h) \/ Give(h)

SemaphoreSpec == SemaphoreInit /\ [][SemaphoreNext]_held
=============================================================================
