---------------------------- MODULE LockService -----------------------------
(***************************************************************************)
(* What module Psci takes a power domain lock to be: psci_lock_get() waits *)
(* until nobody holds the lock and then holds it, psci_lock_release()      *)
(* gives it up, and no CPU that waits is passed over for ever.             *)
(***************************************************************************)
CONSTANTS CPUs, None

VARIABLES
    owner,    \* the CPU that holds the lock, or None
    waiting   \* the CPUs inside psci_lock_get()

lockVars == <<owner, waiting>>

Init == owner = None /\ waiting = {}

Request(c) ==
    /\ c \notin waiting /\ owner # c
    /\ waiting' = waiting \cup {c}
    /\ UNCHANGED owner

Grant(c) ==
    /\ c \in waiting /\ owner = None
    /\ owner' = c
    /\ waiting' = waiting \ {c}

Release(c) ==
    /\ owner = c
    /\ owner' = None
    /\ UNCHANGED waiting

Next == \E c \in CPUs : Request(c) \/ Grant(c) \/ Release(c)

Spec == Init /\ [][Next]_lockVars

FairSpec == Spec /\ \A c \in CPUs : SF_lockVars(Grant(c))
=============================================================================
