------------------------------- MODULE Bakery -------------------------------
(***************************************************************************)
(* The bakery lock of lib/locks/bakery/bakery_lock_coherent.c, which       *)
(* guards the power domains of PSCI.  lock_data[c] is one 16 bit word: the *)
(* choosing flag and a 15 bit ticket, written together.  Every access to   *)
(* the lock_data of some CPU is a step.  wfe and sev are modelled: a CPU   *)
(* sleeps until its event register is set.                                 *)
(***************************************************************************)
EXTENDS Naturals

CONSTANTS
    NCpus,        \* BAKERY_LOCK_MAX_CPUS
    TicketLimit,  \* the number of values of the ticket field, 2^15
    TicketBound,  \* bound: no CPU asks for the lock above this ticket
    None          \* no CPU

ASSUME BakeryAssumption ==
    /\ NCpus \in 1 .. 256
    /\ TicketLimit \in Nat \ {0}
    /\ TicketBound \in Nat

CPUs == 0 .. NCpus - 1

ASSUME NoneAssumption == None \notin CPUs

VARIABLES
    pc,            \* pc[c]: the next step of CPU c
    they,          \* they[c]: the loop index of bakery_lock_get()
    my_ticket,     \* my_ticket[c]: unsigned int, wider than the field
    their_ticket,  \* their_ticket[c]: the ticket whose end c waits for
    choosing,      \* choosing[c]: bit 0 of lock_data[c]
    ticket,        \* ticket[c]: bits 1 to 15 of lock_data[c]
    event,         \* event[c]: the event register that ends a wfe
    ahead          \* history: CPUs that had a ticket when c came, still served

vars == <<pc, they, my_ticket, their_ticket, choosing, ticket, event, ahead>>

Pcs == {"idle", "scan", "compare", "wfe", "check", "held", "sev"}

\* CPU c has taken its ticket and not yet given it back.
HasTicket(c) == pc[c] \in {"compare", "wfe", "check", "held"}

Init ==
    /\ pc = [c \in CPUs |-> "idle"]
    /\ they = [c \in CPUs |-> 0]
    /\ my_ticket = [c \in CPUs |-> 0]
    /\ their_ticket = [c \in CPUs |-> 0]
    /\ choosing = [c \in CPUs |-> FALSE]
    /\ ticket = [c \in CPUs |-> 0]
    /\ event = [c \in CPUs |-> FALSE]
    /\ ahead = [c \in CPUs |-> {}]

\* A lower value is a higher priority: the ticket first, then the position.
bakery_get_priority(t, pos) == t * 256 + pos

Goto(c, l) == pc' = [pc EXCEPT ![c] = l]
NextCpu(c) == they' = [they EXCEPT ![c] = @ + 1]

-----------------------------------------------------------------------------
\* Mutant: the choosing flag is not set while the tickets are read.
GetWithoutChoosing(c) ==
    /\ pc[c] = "idle"
    /\ \A d \in CPUs : my_ticket[d] <= TicketBound
    /\ ticket' = [ticket EXCEPT ![c] = 0]
    /\ my_ticket' = [my_ticket EXCEPT ![c] = 0]
    /\ they' = [they EXCEPT ![c] = 0]
    /\ ahead' = [ahead EXCEPT ![c] = {d \in CPUs : HasTicket(d)}]
    /\ Goto(c, "scan")
    /\ UNCHANGED <<choosing, their_ticket, event>>

(* bakery_lock_get() is called; bakery_get_ticket() announces that a ticket *)
(* is being chosen.                                                         *)
bakery_lock_get(c) ==
    /\ pc[c] = "idle"
    /\ \A d \in CPUs : my_ticket[d] <= TicketBound
    /\ choosing' = [choosing EXCEPT ![c] = TRUE]
    /\ ticket' = [ticket EXCEPT ![c] = 0]
    /\ my_ticket' = [my_ticket EXCEPT ![c] = 0]
    /\ they' = [they EXCEPT ![c] = 0]
    /\ ahead' = [ahead EXCEPT ![c] = {d \in CPUs : HasTicket(d)}]
    /\ Goto(c, "scan")
    /\ UNCHANGED <<their_ticket, event>>

\* bakery_get_ticket(), one iteration: the highest ticket seen so far
bakery_get_ticket(c) ==
    /\ pc[c] = "scan"
    /\ they[c] \in CPUs
    /\ my_ticket' = [my_ticket EXCEPT ![c] =
          IF ticket[they[c]] > @ THEN ticket[they[c]] ELSE @]
    /\ NextCpu(c)
    /\ UNCHANGED <<pc, their_ticket, choosing, ticket, event, ahead>>

\* Mutant: the highest ticket seen is taken as it is.
ChooseSameTicket(c) ==
    /\ pc[c] = "scan"
    /\ they[c] = NCpus
    /\ ticket' = [ticket EXCEPT ![c] =
          IF my_ticket[c] = 0 THEN 1 ELSE my_ticket[c]]
    /\ my_ticket' = [my_ticket EXCEPT ![c] = IF @ = 0 THEN 1 ELSE @]
    /\ choosing' = [choosing EXCEPT ![c] = FALSE]
    /\ they' = [they EXCEPT ![c] = 0]
    /\ Goto(c, "compare")
    /\ UNCHANGED <<their_ticket, event, ahead>>

(* One more than the highest ticket, cut to 15 bits by make_bakery_data(),  *)
(* while my_ticket keeps all its bits.                                      *)
Chosen(c) ==
    /\ pc[c] = "scan"
    /\ they[c] = NCpus
    /\ my_ticket' = [my_ticket EXCEPT ![c] = @ + 1]
    /\ choosing' = [choosing EXCEPT ![c] = FALSE]
    /\ ticket' = [ticket EXCEPT ![c] = (my_ticket[c] + 1) % TicketLimit]
    /\ they' = [they EXCEPT ![c] = 0]
    /\ Goto(c, "compare")
    /\ UNCHANGED <<their_ticket, event, ahead>>

\* CPU d is a contender of higher priority than c.
Precedes(d, c) ==
    /\ ticket[d] # 0
    /\ bakery_get_priority(ticket[d], d) < bakery_get_priority(my_ticket[c], c)

(* bakery_lock_get(), one iteration: read the word of CPU they[c] until it  *)
(* is not choosing, then pass it or wait for its ticket to change.          *)
Compare(c) ==
    /\ pc[c] = "compare"
    /\ they[c] \in CPUs
    /\ they[c] # c => ~choosing[they[c]]
    /\ \/ /\ they[c] # c /\ Precedes(they[c], c)
          /\ their_ticket' = [their_ticket EXCEPT ![c] = ticket[they[c]]]
          /\ Goto(c, "wfe")
          /\ UNCHANGED they
       \/ /\ they[c] = c \/ ~Precedes(they[c], c)
          /\ NextCpu(c)
          /\ UNCHANGED <<pc, their_ticket>>
    /\ UNCHANGED <<my_ticket, choosing, ticket, event, ahead>>

\* wfe returns when the event register is set, and clears it.
Wfe(c) ==
    /\ pc[c] = "wfe"
    /\ event[c]
    /\ event' = [event EXCEPT ![c] = FALSE]
    /\ Goto(c, "check")
    /\ UNCHANGED <<they, my_ticket, their_ticket, choosing, ticket, ahead>>

\* The end of the wait: their ticket is no longer the one that was read.
CheckTicket(c) ==
    /\ pc[c] = "check"
    /\ \/ /\ ticket[they[c]] = their_ticket[c]
          /\ Goto(c, "wfe")
          /\ UNCHANGED <<they, their_ticket>>
       \/ /\ ticket[they[c]] # their_ticket[c]
          /\ their_ticket' = [their_ticket EXCEPT ![c] = 0]
          /\ Goto(c, "compare")
          /\ NextCpu(c)
    /\ UNCHANGED <<my_ticket, choosing, ticket, event, ahead>>

\* Every other CPU is passed: the lock is held.
Acquired(c) ==
    /\ pc[c] = "compare"
    /\ they[c] = NCpus
    /\ Goto(c, "held")
    /\ UNCHANGED <<they, my_ticket, their_ticket, choosing, ticket, event,
                   ahead>>

\* Mutant: the other CPUs are not woken.
ReleaseWithoutSev(c) ==
    /\ pc[c] = "held"
    /\ choosing' = [choosing EXCEPT ![c] = FALSE]
    /\ ticket' = [ticket EXCEPT ![c] = 0]
    /\ my_ticket' = [my_ticket EXCEPT ![c] = 0]
    /\ they' = [they EXCEPT ![c] = 0]
    /\ ahead' = [d \in CPUs |-> ahead[d] \ {c}]
    /\ Goto(c, "idle")
    /\ UNCHANGED <<their_ticket, event>>

\* bakery_lock_release(): the ticket is given back, then the others are woken.
bakery_lock_release(c) ==
    /\ pc[c] = "held"
    /\ choosing' = [choosing EXCEPT ![c] = FALSE]
    /\ ticket' = [ticket EXCEPT ![c] = 0]
    /\ my_ticket' = [my_ticket EXCEPT ![c] = 0]
    /\ they' = [they EXCEPT ![c] = 0]
    /\ ahead' = [d \in CPUs |-> ahead[d] \ {c}]
    /\ Goto(c, "sev")
    /\ UNCHANGED <<their_ticket, event>>

Sev(c) ==
    /\ pc[c] = "sev"
    /\ event' = [d \in CPUs |-> TRUE]
    /\ Goto(c, "idle")
    /\ UNCHANGED <<they, my_ticket, their_ticket, choosing, ticket, ahead>>

-----------------------------------------------------------------------------
\* The steps of bakery_lock_get() and bakery_lock_release() themselves
Step(c) ==
    \/ bakery_get_ticket(c) \/ Chosen(c) \/ Compare(c) \/ Wfe(c)
    \/ CheckTicket(c) \/ Acquired(c) \/ Sev(c)

Next ==
    \E c \in CPUs : bakery_lock_get(c) \/ bakery_lock_release(c) \/ Step(c)

Spec == Init /\ [][Next]_vars

(* Every CPU executes its steps, and gives the lock back; nobody has to ask *)
(* for it.                                                                  *)
FairSpec ==
    Spec /\ \A c \in CPUs : WF_vars(Step(c)) /\ WF_vars(bakery_lock_release(c))

-----------------------------------------------------------------------------
(* Properties *)

TypeOK ==
    /\ pc \in [CPUs -> Pcs]
    /\ they \in [CPUs -> 0 .. NCpus]
    /\ my_ticket \in [CPUs -> Nat]
    /\ their_ticket \in [CPUs -> Nat]
    /\ choosing \in [CPUs -> BOOLEAN]
    /\ ticket \in [CPUs -> Nat]
    /\ event \in [CPUs -> BOOLEAN]
    /\ ahead \in [CPUs -> SUBSET CPUs]

\* No ticket has outgrown the 15 bits of its field.
NoOverflow == \A c \in CPUs : my_ticket[c] < TicketLimit

(* At most one CPU holds the lock, although no two accesses of the lock are *)
(* atomic and two CPUs may choose the same ticket.                          *)
MutualExclusion ==
    \A c, d \in CPUs : pc[c] = "held" /\ pc[d] = "held" => c = d

(* First come, first served: a CPU holds the lock only when every CPU that  *)
(* had its ticket before it called bakery_lock_get() has been served.       *)
FirstComeFirstServed == \A c \in CPUs : pc[c] = "held" => ahead[c] = {}

(* A CPU inside bakery_lock_get() gets the lock: no wake-up is lost between *)
(* the comparison of the tickets and wfe.                                   *)
EveryGetReturns ==
    \A c \in CPUs : pc[c] = "scan" ~> pc[c] = "held"

\* What the CPUs see of the lock: its holder, and who is waiting
Holder == IF \E c \in CPUs : pc[c] = "held"
          THEN CHOOSE c \in CPUs : pc[c] = "held" ELSE None
Waiting == {c \in CPUs : pc[c] \in {"scan", "compare", "wfe", "check"}}

Service == INSTANCE LockService WITH owner <- Holder, waiting <- Waiting

(* The bakery lock is a lock as module Psci assumes it, fairness included.  *)
ImplementsLockService == Service!FairSpec

-----------------------------------------------------------------------------
(* The inductive invariant behind mutual exclusion *)

\* CPU d comes after c, which has its ticket: d will get a lower priority.
After(d, c) ==
    \/ pc[d] \in {"idle", "sev"}
    \/ pc[d] = "scan" /\ (c < they[d] => my_ticket[d] >= my_ticket[c])
    \/ /\ HasTicket(d)
       /\ bakery_get_priority(my_ticket[c], c)
             < bakery_get_priority(my_ticket[d], d)

\* The ticket of a CPU is the one it chose, and there is one only in use.
TicketInv ==
    \A c \in CPUs :
        /\ HasTicket(c) => ticket[c] = my_ticket[c] /\ my_ticket[c] > 0
        /\ ~HasTicket(c) => ticket[c] = 0
        /\ choosing[c] <=> pc[c] = "scan"
        /\ pc[c] \in {"wfe", "check"} => they[c] \in CPUs \ {c}
        /\ pc[c] = "held" => they[c] = NCpus

\* Whom c has passed, and whom it waits for unless he has given up his ticket
PassedInv ==
    \A c \in CPUs : HasTicket(c) =>
        \A d \in CPUs \ {c} :
            /\ d < they[c] => After(d, c)
            /\ pc[c] \in {"wfe", "check"} /\ d = they[c]
                  => (HasTicket(d) /\ ticket[d] = their_ticket[c]) \/ After(d, c)

\* Who came before c has a lower ticket, and c has not passed him.
AheadInv ==
    \A c \in CPUs : \A d \in ahead[c] :
        /\ HasTicket(d) /\ d # c
        /\ pc[c] = "scan" => (d < they[c] => my_ticket[c] >= my_ticket[d])
        /\ HasTicket(c) => my_ticket[c] > my_ticket[d] /\ they[c] <= d
        /\ pc[c] \in {"wfe", "check"} /\ they[c] = d
              => their_ticket[c] = my_ticket[d]
        /\ pc[c] \notin {"idle", "sev"}

BakeryInv == TypeOK /\ TicketInv /\ PassedInv /\ AheadInv
=============================================================================
