---------------------------- MODULE BakeryProofs ----------------------------
(***************************************************************************)
(* The bakery lock excludes, serves in order of arrival and implements the *)
(* lock that PSCI assumes, for every number of CPUs up to 256, as long as  *)
(* no ticket outgrows its field.                                           *)
(***************************************************************************)
EXTENDS Bakery, TLAPS

(* make_bakery_data() keeps a ticket that fits into the field.              *)
LEMMA SmallTicket ==
    ASSUME NEW t \in Nat, NEW m \in Nat, t < m PROVE t % m = t
  BY SMT

(* The loop index after a CPU is in range, and past that CPU only.          *)
LEMMA NextIndex ==
    /\ \A d \in CPUs : d \in 0 .. NCpus /\ d + 1 \in 0 .. NCpus /\ d \in Nat
    /\ \A d \in CPUs : d < NCpus
    /\ \A d, e \in CPUs : d < e + 1 <=> d < e \/ d = e
    /\ \A d \in CPUs : ~(d < 0) /\ ~(NCpus <= d)
    /\ NCpus \in Nat /\ 0 \in 0 .. NCpus
  BY BakeryAssumption DEF CPUs

(* The values of all variables stay in range.                               *)
LEMMA TypeStep ==
    ASSUME TypeOK, TicketInv, [Next]_vars PROVE TypeOK'
  <1> USE DEF TypeOK, Pcs, Goto, NextCpu
  <1>1. ASSUME NEW c \in CPUs, bakery_lock_get(c) PROVE TypeOK'
    BY <1>1, NextIndex DEF bakery_lock_get
  <1>2. ASSUME NEW c \in CPUs, bakery_get_ticket(c) PROVE TypeOK'
    BY <1>2, NextIndex DEF bakery_get_ticket
  <1>3. ASSUME NEW c \in CPUs, Chosen(c) PROVE TypeOK'
    <2>1. (my_ticket[c] + 1) % TicketLimit \in Nat
      BY BakeryAssumption
    <2>. QED
      BY <1>3, <2>1, NextIndex DEF Chosen
  <1>4. ASSUME NEW c \in CPUs, Compare(c) PROVE TypeOK'
    BY <1>4, NextIndex DEF Compare
  <1>5. ASSUME NEW c \in CPUs, Wfe(c) PROVE TypeOK'
    BY <1>5 DEF Wfe
  <1>6. ASSUME NEW c \in CPUs, CheckTicket(c) PROVE TypeOK'
    <2>1. they[c] \in CPUs
      BY <1>6 DEF CheckTicket, TicketInv
    <2>. QED
      BY <1>6, <2>1, NextIndex DEF CheckTicket
  <1>7. ASSUME NEW c \in CPUs, Acquired(c) PROVE TypeOK'
    BY <1>7 DEF Acquired
  <1>8. ASSUME NEW c \in CPUs, bakery_lock_release(c) PROVE TypeOK'
    BY <1>8, NextIndex DEF bakery_lock_release
  <1>9. ASSUME NEW c \in CPUs, Sev(c) PROVE TypeOK'
    BY <1>9 DEF Sev
  <1>10. CASE UNCHANGED vars
    BY <1>10 DEF vars
  <1>. QED
    BY <1>1, <1>2, <1>3, <1>4, <1>5, <1>6, <1>7, <1>8, <1>9, <1>10
       DEF Next, Step

(* The ticket of a CPU is the one it chose, unless it overflowed.           *)
LEMMA TicketStep ==
    ASSUME TypeOK, TicketInv, NoOverflow', [Next]_vars PROVE TicketInv'
  <1> USE DEF TypeOK, TicketInv, HasTicket, Goto, NextCpu
  <1>1. ASSUME NEW c \in CPUs, bakery_lock_get(c) PROVE TicketInv'
    BY <1>1 DEF bakery_lock_get
  <1>2. ASSUME NEW c \in CPUs, bakery_get_ticket(c) PROVE TicketInv'
    BY <1>2 DEF bakery_get_ticket
  <1>3. ASSUME NEW c \in CPUs, Chosen(c) PROVE TicketInv'
    <2>1. my_ticket'[c] = my_ticket[c] + 1 /\ my_ticket'[c] < TicketLimit
      BY <1>3 DEF Chosen, NoOverflow
    <2>2. (my_ticket[c] + 1) % TicketLimit = my_ticket[c] + 1
      BY <2>1, SmallTicket, BakeryAssumption
    <2>. QED
      BY <1>3, <2>1, <2>2 DEF Chosen
  <1>4. ASSUME NEW c \in CPUs, Compare(c) PROVE TicketInv'
    BY <1>4 DEF Compare
  <1>5. ASSUME NEW c \in CPUs, Wfe(c) PROVE TicketInv'
    BY <1>5 DEF Wfe
  <1>6. ASSUME NEW c \in CPUs, CheckTicket(c) PROVE TicketInv'
    BY <1>6 DEF CheckTicket
  <1>7. ASSUME NEW c \in CPUs, Acquired(c) PROVE TicketInv'
    BY <1>7 DEF Acquired
  <1>8. ASSUME NEW c \in CPUs, bakery_lock_release(c) PROVE TicketInv'
    BY <1>8 DEF bakery_lock_release
  <1>9. ASSUME NEW c \in CPUs, Sev(c) PROVE TicketInv'
    BY <1>9 DEF Sev
  <1>10. CASE UNCHANGED vars
    BY <1>10 DEF vars
  <1>. QED
    BY <1>1, <1>2, <1>3, <1>4, <1>5, <1>6, <1>7, <1>8, <1>9, <1>10
       DEF Next, Step

(* A higher ticket is a lower priority; priorities of CPUs differ.          *)
LEMMA Priorities ==
    ASSUME NEW c \in CPUs, NEW d \in CPUs, NEW t \in Nat, NEW u \in Nat
    PROVE  /\ t < u => bakery_get_priority(t, c) < bakery_get_priority(u, d)
           /\ bakery_get_priority(t, c) \in Nat
           /\ bakery_get_priority(t, c) = bakery_get_priority(u, d) => c = d
  BY BakeryAssumption DEF CPUs, bakery_get_priority

(* Whoever c has passed comes after it, and stays after it.                 *)
LEMMA PassedStep ==
    ASSUME TypeOK, TicketInv, TicketInv', PassedInv, [Next]_vars
    PROVE  PassedInv'
  <1> USE DEF TypeOK, TicketInv, PassedInv, HasTicket, After, Goto, NextCpu
  <1>1. ASSUME NEW c \in CPUs, bakery_lock_get(c) PROVE PassedInv'
    BY <1>1, NextIndex DEF bakery_lock_get
  <1>2. ASSUME NEW c \in CPUs, bakery_get_ticket(c) PROVE PassedInv'
    BY <1>2, NextIndex DEF bakery_get_ticket
  <1>3. ASSUME NEW c \in CPUs, Chosen(c) PROVE PassedInv'
    <2>1. HasTicket(c)' /\ they'[c] = 0 /\ my_ticket'[c] = my_ticket[c] + 1
          /\ pc'[c] = "compare"
      BY <1>3 DEF Chosen
    <2>2. \A d \in CPUs : d # c => /\ pc'[d] = pc[d] /\ they'[d] = they[d]
                                   /\ my_ticket'[d] = my_ticket[d]
                                   /\ ticket'[d] = ticket[d]
                                   /\ their_ticket'[d] = their_ticket[d]
      BY <1>3 DEF Chosen
    <2>3. ASSUME NEW d \in CPUs, d # c, HasTicket(d), After(c, d)
          PROVE  After(c, d)'
      <3>1. my_ticket[c] >= my_ticket[d]
        BY <1>3, <2>3, NextIndex DEF Chosen
      <3>2. my_ticket'[d] < my_ticket'[c]
        BY <2>1, <2>2, <2>3, <3>1
      <3>. QED
        BY <2>1, <2>2, <2>3, <3>2, Priorities
    <2>4. ~HasTicket(c)
      BY <1>3 DEF Chosen
    <2>5. ASSUME NEW d \in CPUs, d # c, NEW e \in CPUs, e # c, After(e, d)
          PROVE  After(e, d)'
      BY <2>2, <2>5
    <2>6. ASSUME NEW d \in CPUs, HasTicket(d)' PROVE PassedInv!(d)'
      BY <2>1, <2>2, <2>3, <2>4, <2>5, <2>6, NextIndex
    <2>. QED
      BY <2>6
  <1>4. ASSUME NEW c \in CPUs, Compare(c) PROVE PassedInv'
    <2>1. UNCHANGED <<my_ticket, ticket>> /\ HasTicket(c) /\ HasTicket(c)'
          /\ they[c] \in CPUs
      BY <1>4 DEF Compare
    <2>2. \A d \in CPUs : d # c => /\ pc'[d] = pc[d] /\ they'[d] = they[d]
                                   /\ their_ticket'[d] = their_ticket[d]
      BY <1>4 DEF Compare
    <2>3. \A d, e \in CPUs : After(e, d)' <=> After(e, d)
      BY <2>1, <2>2
    <2>4. ASSUME NEW d \in CPUs, d # c, HasTicket(d)' PROVE PassedInv!(d)'
      BY <2>1, <2>2, <2>3, <2>4
    <2>5. CASE they[c] # c /\ Precedes(they[c], c)
      <3>1. /\ they' = they /\ their_ticket'[c] = ticket[they[c]]
            /\ HasTicket(they[c])
        BY <1>4, <2>1, <2>5 DEF Compare, Precedes
      <3>2. PassedInv!(c)'
        BY <2>1, <2>2, <2>3, <2>5, <3>1
      <3>. QED
        BY <2>4, <3>2
    <2>6. CASE they[c] = c \/ ~Precedes(they[c], c)
      <3>1. they'[c] = they[c] + 1 /\ pc'[c] = "compare"
        BY <1>4, <2>1, <2>6 DEF Compare
      <3>2. they[c] # c => After(they[c], c)
        <4>1. they[c] # c => ~choosing[they[c]]
          BY <1>4 DEF Compare
        <4>2. ASSUME they[c] # c, HasTicket(they[c])
              PROVE  bakery_get_priority(my_ticket[c], c)
                        < bakery_get_priority(my_ticket[they[c]], they[c])
          <5>1. /\ ticket[they[c]] = my_ticket[they[c]] /\ ticket[they[c]] # 0
                /\ my_ticket[c] \in Nat /\ my_ticket[they[c]] \in Nat
            BY <2>1, <4>2
          <5>2. ~(bakery_get_priority(my_ticket[they[c]], they[c])
                     < bakery_get_priority(my_ticket[c], c))
            BY <2>6, <4>2, <5>1 DEF Precedes
          <5>3. /\ bakery_get_priority(my_ticket[c], c) \in Nat
                /\ bakery_get_priority(my_ticket[they[c]], they[c]) \in Nat
            BY <2>1, <5>1, Priorities
          <5>4. bakery_get_priority(my_ticket[c], c)
                   # bakery_get_priority(my_ticket[they[c]], they[c])
            BY <2>1, <4>2, <5>1, Priorities
          <5>. QED
            BY <5>2, <5>3, <5>4
        <4>3. pc[they[c]] \in Pcs
          BY <2>1
        <4>. QED
          BY <2>1, <4>1, <4>2, <4>3 DEF Pcs
      <3>3. PassedInv!(c)'
        BY <2>1, <2>3, <3>1, <3>2, NextIndex
      <3>. QED
        BY <2>4, <3>3
    <2>. QED
      BY <2>5, <2>6
  <1>5. ASSUME NEW c \in CPUs, Wfe(c) PROVE PassedInv'
    BY <1>5 DEF Wfe
  <1>6. ASSUME NEW c \in CPUs, CheckTicket(c) PROVE PassedInv'
    BY <1>6, NextIndex DEF CheckTicket
  <1>7. ASSUME NEW c \in CPUs, Acquired(c) PROVE PassedInv'
    BY <1>7, NextIndex DEF Acquired
  <1>8. ASSUME NEW c \in CPUs, bakery_lock_release(c) PROVE PassedInv'
    BY <1>8 DEF bakery_lock_release
  <1>9. ASSUME NEW c \in CPUs, Sev(c) PROVE PassedInv'
    BY <1>9 DEF Sev
  <1>10. CASE UNCHANGED vars
    BY <1>10 DEF vars
  <1>. QED
    BY <1>1, <1>2, <1>3, <1>4, <1>5, <1>6, <1>7, <1>8, <1>9, <1>10
       DEF Next, Step

(* Whoever was there before c keeps the lower ticket until he is served.    *)
LEMMA AheadStep ==
    ASSUME TypeOK, TicketInv, TicketInv', AheadInv, [Next]_vars
    PROVE  AheadInv'
  <1> USE DEF TypeOK, TicketInv, AheadInv, HasTicket, Goto, NextCpu
  <1>1. ASSUME NEW c \in CPUs, bakery_lock_get(c) PROVE AheadInv'
    BY <1>1, NextIndex DEF bakery_lock_get
  <1>2. ASSUME NEW c \in CPUs, bakery_get_ticket(c) PROVE AheadInv'
    BY <1>2, NextIndex DEF bakery_get_ticket
  <1>3. ASSUME NEW c \in CPUs, Chosen(c) PROVE AheadInv'
    BY <1>3, NextIndex DEF Chosen
  <1>4. ASSUME NEW c \in CPUs, Compare(c) PROVE AheadInv'
    <2>1. UNCHANGED <<my_ticket, ticket, ahead>> /\ HasTicket(c) /\ HasTicket(c)'
          /\ they[c] \in CPUs
      BY <1>4 DEF Compare
    <2>2. \A d \in CPUs : d # c => /\ pc'[d] = pc[d] /\ they'[d] = they[d]
                                   /\ their_ticket'[d] = their_ticket[d]
      BY <1>4 DEF Compare
    <2>3. \A d \in CPUs : HasTicket(d)' <=> HasTicket(d)
      BY <2>1, <2>2
    <2>4. ASSUME NEW d \in CPUs, d # c PROVE AheadInv!(d)'
      BY <2>1, <2>2, <2>3, <2>4
    <2>5. AheadInv!(c)'
      <3>1. ASSUME they[c] \in ahead[c]
            PROVE  they[c] # c /\ Precedes(they[c], c)
        BY <2>1, <3>1, Priorities DEF Precedes
      <3>2. CASE they[c] # c /\ Precedes(they[c], c)
        <4>1. they' = they /\ their_ticket'[c] = ticket[they[c]] /\ pc'[c] = "wfe"
          BY <1>4, <2>1, <3>2 DEF Compare
        <4>. QED
          BY <2>1, <2>3, <4>1
      <3>3. CASE ~(they[c] # c /\ Precedes(they[c], c))
        <4>1. they'[c] = they[c] + 1 /\ pc'[c] = "compare"
          BY <1>4, <2>1, <3>3 DEF Compare
        <4>2. \A d \in ahead[c] : d \in CPUs /\ they[c] <= d /\ they[c] # d
          BY <2>1, <3>1, <3>3
        <4>3. \A d \in ahead[c] : they[c] + 1 <= d
          BY <2>1, <4>2 DEF CPUs
        <4>. QED
          BY <2>1, <2>3, <4>1, <4>3
      <3>. QED
        BY <3>2, <3>3
    <2>. QED
      BY <2>4, <2>5
  <1>5. ASSUME NEW c \in CPUs, Wfe(c) PROVE AheadInv'
    BY <1>5 DEF Wfe
  <1>6. ASSUME NEW c \in CPUs, CheckTicket(c) PROVE AheadInv'
    BY <1>6, NextIndex DEF CheckTicket
  <1>7. ASSUME NEW c \in CPUs, Acquired(c) PROVE AheadInv'
    BY <1>7, NextIndex DEF Acquired
  <1>8. ASSUME NEW c \in CPUs, bakery_lock_release(c) PROVE AheadInv'
    <2>1. ahead[c] = {}
      BY <1>8, NextIndex DEF bakery_lock_release
    <2>2. ahead'[c] = {}
      BY <1>8, <2>1 DEF bakery_lock_release
    <2>3. ASSUME NEW d \in CPUs, d # c PROVE AheadInv!(d)'
      BY <1>8, <2>3 DEF bakery_lock_release
    <2>. QED
      BY <2>2, <2>3
  <1>9. ASSUME NEW c \in CPUs, Sev(c) PROVE AheadInv'
    BY <1>9 DEF Sev
  <1>10. CASE UNCHANGED vars
    BY <1>10 DEF vars
  <1>. QED
    BY <1>1, <1>2, <1>3, <1>4, <1>5, <1>6, <1>7, <1>8, <1>9, <1>10
       DEF Next, Step

(* The invariant holds at the start, and as long as no ticket overflows.    *)
LEMMA InitInv == Init => BakeryInv
  BY NextIndex
     DEF Init, BakeryInv, TypeOK, TicketInv, PassedInv, AheadInv, HasTicket, Pcs

LEMMA InvStep == BakeryInv /\ NoOverflow' /\ [Next]_vars => BakeryInv'
  BY TypeStep, TicketStep, PassedStep, AheadStep DEF BakeryInv

(* The invariant of the lock: who has passed whom, and who came first.      *)
THEOREM BakeryInvariance == Spec /\ []NoOverflow => []BakeryInv
  BY InitInv, InvStep, PTL DEF Spec

(* Of two holders each would have passed the other, and come after him.     *)
LEMMA InvExcludes == BakeryInv => MutualExclusion
  <1> SUFFICES ASSUME BakeryInv, NEW c \in CPUs, NEW d \in CPUs,
                      pc[c] = "held", pc[d] = "held", c # d
               PROVE  FALSE
    BY DEF MutualExclusion
  <1>1. HasTicket(c) /\ HasTicket(d) /\ c < they[d] /\ d < they[c]
    BY NextIndex DEF BakeryInv, TicketInv, HasTicket
  <1>2. After(c, d) /\ After(d, c)
    BY <1>1 DEF BakeryInv, PassedInv
  <1>3. my_ticket[c] \in Nat /\ my_ticket[d] \in Nat
    BY DEF BakeryInv, TypeOK
  <1>. QED
    BY <1>2, <1>3, Priorities DEF After

(* bakery_lock_get() excludes: no two CPUs hold the lock, as long as no     *)
(* ticket outgrows its 15 bits.                                             *)
THEOREM Exclusion == Spec /\ []NoOverflow => []MutualExclusion
  BY BakeryInvariance, InvExcludes, PTL

(* bakery_lock_get() serves its callers in the order in which they got      *)
(* their tickets.                                                           *)
THEOREM ServesInOrder == Spec /\ []NoOverflow => []FirstComeFirstServed
  <1>1. BakeryInv => FirstComeFirstServed
    BY NextIndex
       DEF BakeryInv, TypeOK, TicketInv, AheadInv, HasTicket,
           FirstComeFirstServed
  <1>. QED
    BY <1>1, BakeryInvariance, PTL

(* The owner of the lock is the CPU at "held".                              *)
LEMMA HolderIs ==
    ASSUME MutualExclusion
    PROVE  /\ \A c \in CPUs : pc[c] = "held" <=> Holder = c
           /\ Holder = None <=> \A c \in CPUs : pc[c] # "held"
  BY NoneAssumption DEF MutualExclusion, Holder

(* The same after a step *)
LEMMA HolderIsNext ==
    ASSUME MutualExclusion'
    PROVE  /\ \A c \in CPUs : pc'[c] = "held" <=> Holder' = c
           /\ Holder' = None <=> \A c \in CPUs : pc'[c] # "held"
  BY NoneAssumption DEF MutualExclusion, Holder

(* A step that nobody begins or ends to hold the lock in keeps its owner.   *)
LEMMA SameHolder ==
    ASSUME MutualExclusion, MutualExclusion',
           \A c \in CPUs : pc'[c] = "held" <=> pc[c] = "held"
    PROVE  Holder' = Holder
  <1>1. CASE \E c \in CPUs : pc[c] = "held"
    BY <1>1, HolderIs, HolderIsNext
  <1>2. CASE \A c \in CPUs : pc[c] # "held"
    BY <1>2, HolderIs, HolderIsNext
  <1>. QED
    BY <1>1, <1>2

(* Every step of the bakery lock is a step of the lock service, or none:    *)
(* psci_lock_get() and psci_lock_release() behave as module Psci assumes.   *)
THEOREM BakeryIsALock == Spec /\ []NoOverflow => Service!Spec
  <1>1. Init => Service!Init
    BY DEF Init, Service!Init, Holder, Waiting
  <1>2. BakeryInv /\ MutualExclusion /\ MutualExclusion' /\ [Next]_vars
           => [Service!Next]_(Service!lockVars)
    <2> SUFFICES ASSUME BakeryInv, MutualExclusion, MutualExclusion',
                        [Next]_vars
                 PROVE  [Service!Next]_(Service!lockVars)
      OBVIOUS
    <2> USE DEF BakeryInv, TypeOK, Goto, Service!lockVars
    <2>1. ASSUME NEW c \in CPUs, bakery_lock_get(c) PROVE Service!Request(c)
      <3>1. Holder' = Holder
        BY <2>1, SameHolder DEF bakery_lock_get
      <3>2. Waiting' = Waiting \cup {c} /\ c \notin Waiting
        BY <2>1 DEF bakery_lock_get, Waiting
      <3>3. Holder # c
        BY <2>1, HolderIs DEF bakery_lock_get
      <3>. QED
        BY <3>1, <3>2, <3>3 DEF Service!Request
    <2>2. ASSUME NEW c \in CPUs, Acquired(c) PROVE Service!Grant(c)
      <3>1. Holder' = c
        BY <2>2, HolderIsNext DEF Acquired
      <3>2. Holder = None
        <4>1. \A d \in CPUs : pc[d] # "held"
          BY <2>2 DEF Acquired, MutualExclusion
        <4>. QED
          BY <4>1, HolderIs
      <3>3. Waiting' = Waiting \ {c} /\ c \in Waiting
        BY <2>2 DEF Acquired, Waiting
      <3>. QED
        BY <3>1, <3>2, <3>3 DEF Service!Grant
    <2>3. ASSUME NEW c \in CPUs, bakery_lock_release(c) PROVE Service!Release(c)
      <3>1. Holder = c
        BY <2>3, HolderIs DEF bakery_lock_release
      <3>2. Holder' = None
        <4>1. \A d \in CPUs : pc'[d] # "held"
          BY <2>3 DEF bakery_lock_release, MutualExclusion
        <4>. QED
          BY <4>1, HolderIsNext
      <3>3. Waiting' = Waiting
        BY <2>3 DEF bakery_lock_release, Waiting
      <3>. QED
        BY <3>1, <3>2, <3>3 DEF Service!Release
    <2>4. ASSUME NEW c \in CPUs,
                 \/ bakery_get_ticket(c) \/ Chosen(c) \/ Compare(c) \/ Wfe(c)
                 \/ CheckTicket(c) \/ Sev(c)
          PROVE  UNCHANGED Service!lockVars
      <3>1. \A d \in CPUs : /\ pc'[d] = "held" <=> pc[d] = "held"
                            /\ d \in Waiting' <=> d \in Waiting
        BY <2>4 DEF bakery_get_ticket, Chosen, Compare, Wfe, CheckTicket, Sev,
                    Waiting
      <3>2. Waiting' = Waiting
        BY <3>1 DEF Waiting
      <3>. QED
        BY <3>1, <3>2, SameHolder
    <2>5. CASE UNCHANGED vars
      BY <2>5 DEF vars, Holder, Waiting
    <2>. QED
      BY <2>1, <2>2, <2>3, <2>4, <2>5 DEF Next, Step, Service!Next
  <1>. QED
    BY <1>1, <1>2, BakeryInvariance, Exclusion, PTL DEF Spec, Service!Spec
=============================================================================
