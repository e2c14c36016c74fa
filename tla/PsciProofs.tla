----------------------------- MODULE PsciProofs -----------------------------
(***************************************************************************)
(* The inductive invariant of module Psci, for every number of CPUs and    *)
(* every tree of power domains, and the properties that follow from it.    *)
(* Each named part of IInv has a lemma that says what a step preserves it  *)
(* from; the theorems are at the end.                                      *)
(***************************************************************************)
EXTENDS PsciTypes

(* The steps of the specification, one by one *)
LEMMA NextCases ==
    ASSUME [Next]_vars
    PROVE  \/ UNCHANGED vars
           \/ \E c \in CPUs :
                 \/ \E t \in CPUs, e \in Entries \cup BadEntries :
                       psci_cpu_on(c, t, e)
                 \/ OnLock(c)
                 \/ cpu_on_validate_state(c)
                 \/ OnSetPending(c)
                 \/ OnPlat(c)
                 \/ OnUnlock(c)
                 \/ psci_cpu_off(c)
                 \/ \E k \in 0 .. MaxLvl, e \in Entries \cup BadEntries :
                       pc[c] \in {"ns", "scan"} /\ SuspendTo(c, k, e)
                 \/ Standby(c)
                 \/ StandbyExit(c)
                 \/ psci_system_suspend(c)
                 \/ psci_is_last_on_cpu(c)
                 \/ psci_acquire_pwr_domain_locks(c)
                 \/ Acquired(c)
                 \/ SuspendCheckIsr(c)
                 \/ psci_do_state_coordination(c)
                 \/ Coordinated(c)
                 \/ psci_set_target_local_pwr_states(c)
                 \/ PlatPowerDown(c)
                 \/ psci_release_pwr_domain_locks(c)
                 \/ Released(c)
                 \/ SetAffOff(c)
                 \/ PowerDownWfi(c)
                 \/ PowerUp(c)
                 \/ psci_warmboot_entrypoint(c)
                 \/ WarmbootFinish(c)
                 \/ psci_cpu_on_finish(c)
                 \/ WarmbootContext(c)
                 \/ psci_set_pwr_domains_to_run(c)
  BY SizeAssumption
     DEF Next, Call, Handle, Hardware, Halted, psci_cpu_suspend,
         SystemSuspendStart

(* Every step keeps the control points, the operation and the loop index in   *)
(* step with each other.                                                    *)
LEMMA ControlStep ==
    ASSUME TypeOK, ControlInv, [Next]_vars
    PROVE  ControlInv'
  <1> USE SizeAssumption DEF TypeOK, CallTypeOK, StateTypeOK, ControlInv,
     DownCritical, BootCritical, OnCritical, cpuVars, domVars, hwVars
  <1>1. ASSUME NEW c \in CPUs, NEW t \in CPUs, NEW e \in Entries \cup
              BadEntries, psci_cpu_on(c, t, e)
        PROVE  ControlInv'
    BY <1>1 DEF psci_cpu_on, psci_get_ns_ep_info, callVars, Goto
  <1>2. ASSUME NEW c \in CPUs, OnLock(c) PROVE ControlInv'
    BY <1>2 DEF OnLock, Goto
  <1>3. ASSUME NEW c \in CPUs, cpu_on_validate_state(c) PROVE ControlInv'
    BY <1>3 DEF cpu_on_validate_state, Goto
  <1>4. ASSUME NEW c \in CPUs, OnSetPending(c) PROVE ControlInv'
    BY <1>4 DEF OnSetPending, Goto
  <1>5. ASSUME NEW c \in CPUs, OnPlat(c) PROVE ControlInv'
    BY <1>5 DEF OnPlat, spmc_cpu_corex_onoff, Goto
  <1>6. ASSUME NEW c \in CPUs, OnUnlock(c) PROVE ControlInv'
    BY <1>6 DEF OnUnlock, Return, Goto
  <1>7. ASSUME NEW c \in CPUs, psci_cpu_off(c) PROVE ControlInv'
    BY <1>7 DEF psci_cpu_off, StartDomainOp, Goto
  <1>8. ASSUME NEW c \in CPUs, NEW k \in 0 .. MaxLvl, NEW e \in Entries \cup
              BadEntries, pc[c] \in {"ns", "scan"}, SuspendTo(c, k, e)
        PROVE  ControlInv'
    <2>1. CASE Return(c)
      BY <2>1 DEF Return, Goto
    <2>2. CASE StartDomainOp(c, "suspend", k, OffUpTo(k))
      BY <2>2 DEF StartDomainOp, Goto
    <2>. QED
      BY <1>8, <2>1, <2>2 DEF SuspendTo
  <1>9. ASSUME NEW c \in CPUs, Standby(c) PROVE ControlInv'
    BY <1>9 DEF Standby, Goto
  <1>10. ASSUME NEW c \in CPUs, StandbyExit(c) PROVE ControlInv'
    BY <1>10 DEF StandbyExit, Goto
  <1>11. ASSUME NEW c \in CPUs, psci_system_suspend(c) PROVE ControlInv'
    BY <1>11 DEF psci_system_suspend, Goto
  <1>12. ASSUME NEW c \in CPUs, psci_is_last_on_cpu(c) PROVE ControlInv'
    <2>1. CASE Return(c)
      BY <2>1 DEF Return, Goto
    <2>2. CASE i' = [i EXCEPT ![c] = @ + 1]
               /\ UNCHANGED <<pc, op, end_pwrlvl, state_info, target, arg>>
      <3>1. i[c] + 1 \in 0 .. NCpus
        <4>1. i[c] \in 0 .. NCpus - 1
          BY <1>12 DEF psci_is_last_on_cpu, CPUs
        <4>. QED
          BY <4>1, SizeAssumption
      <3>. QED
        BY <1>12, <2>2, <3>1 DEF psci_is_last_on_cpu
    <2>. QED
      BY <1>12, <2>1, <2>2 DEF psci_is_last_on_cpu
  <1>13. ASSUME NEW c \in CPUs, psci_acquire_pwr_domain_locks(c)
        PROVE  ControlInv'
    BY <1>13 DEF psci_acquire_pwr_domain_locks
  <1>14. ASSUME NEW c \in CPUs, Acquired(c) PROVE ControlInv'
    BY <1>14 DEF Acquired, Goto
  <1>15. ASSUME NEW c \in CPUs, SuspendCheckIsr(c) PROVE ControlInv'
    BY <1>15 DEF SuspendCheckIsr, Goto
  <1>16. ASSUME NEW c \in CPUs, psci_do_state_coordination(c) PROVE ControlInv'
    BY <1>16 DEF psci_do_state_coordination
  <1>17. ASSUME NEW c \in CPUs, Coordinated(c) PROVE ControlInv'
    BY <1>17 DEF Coordinated, Goto
  <1>18. ASSUME NEW c \in CPUs, psci_set_target_local_pwr_states(c)
        PROVE  ControlInv'
    BY <1>18 DEF psci_set_target_local_pwr_states,
       psci_suspend_to_pwrdown_start, Goto
  <1>19. ASSUME NEW c \in CPUs, PlatPowerDown(c) PROVE ControlInv'
    BY <1>19 DEF PlatPowerDown, spmc_cpu_corex_onoff, Goto
  <1>20. ASSUME NEW c \in CPUs, psci_release_pwr_domain_locks(c)
        PROVE  ControlInv'
    BY <1>20 DEF psci_release_pwr_domain_locks
  <1>21. ASSUME NEW c \in CPUs, Released(c) PROVE ControlInv'
    BY <1>21 DEF Released, Return, Goto
  <1>22. ASSUME NEW c \in CPUs, SetAffOff(c) PROVE ControlInv'
    BY <1>22 DEF SetAffOff, Goto
  <1>23. ASSUME NEW c \in CPUs, PowerDownWfi(c) PROVE ControlInv'
    BY <1>23 DEF PowerDownWfi, Goto
  <1>24. ASSUME NEW c \in CPUs, PowerUp(c) PROVE ControlInv'
    BY <1>24 DEF PowerUp, Goto
  <1>25. ASSUME NEW c \in CPUs, psci_warmboot_entrypoint(c) PROVE ControlInv'
    BY <1>25 DEF psci_warmboot_entrypoint, StartDomainOp, Goto
  <1>26. ASSUME NEW c \in CPUs, WarmbootFinish(c) PROVE ControlInv'
    BY <1>26 DEF WarmbootFinish, Goto
  <1>27. ASSUME NEW c \in CPUs, psci_cpu_on_finish(c) PROVE ControlInv'
    BY <1>27 DEF psci_cpu_on_finish, Goto
  <1>28. ASSUME NEW c \in CPUs, WarmbootContext(c) PROVE ControlInv'
    BY <1>28 DEF WarmbootContext, Goto
  <1>29. ASSUME NEW c \in CPUs, psci_set_pwr_domains_to_run(c)
        PROVE  ControlInv'
    BY <1>29 DEF psci_set_pwr_domains_to_run, Goto
  <1>30. CASE UNCHANGED vars
    BY <1>30 DEF vars
  <1>. QED
    BY <1>1, <1>2, <1>3, <1>4, <1>5, <1>6, <1>7, <1>8, <1>9, <1>10, <1>11,
       <1>12, <1>13, <1>14, <1>15, <1>16, <1>17, <1>18, <1>19, <1>20, <1>21,
       <1>22, <1>23, <1>24, <1>25, <1>26, <1>27, <1>28, <1>29, <1>30, NextCases

(* A node's lock is held by the one CPU that took it: the locks exclude.       *)
LEMMA LockStep ==
    ASSUME TypeOK, ControlInv, LockInv, [Next]_vars
    PROVE  LockInv'
  <1> USE DEF TypeOK, CallTypeOK, ControlInv, DownCritical, BootCritical,
     OnCritical, hwVars
  <1>1. ASSUME NEW c \in CPUs, NEW t \in CPUs, NEW e \in Entries \cup
              BadEntries, psci_cpu_on(c, t, e)
        PROVE  LockInv'
    BY <1>1 DEF LockInv, Holds, psci_cpu_on, psci_get_ns_ep_info, callVars, Goto
  <1>2. ASSUME NEW c \in CPUs, OnLock(c) PROVE LockInv'
    BY <1>2 DEF LockInv, Holds, OnLock, Goto
  <1>3. ASSUME NEW c \in CPUs, cpu_on_validate_state(c) PROVE LockInv'
    BY <1>3 DEF LockInv, Holds, cpu_on_validate_state, Goto
  <1>4. ASSUME NEW c \in CPUs, OnSetPending(c) PROVE LockInv'
    BY <1>4 DEF LockInv, Holds, OnSetPending, Goto
  <1>5. ASSUME NEW c \in CPUs, OnPlat(c) PROVE LockInv'
    BY <1>5 DEF LockInv, Holds, OnPlat, spmc_cpu_corex_onoff, Goto
  <1>6. ASSUME NEW c \in CPUs, OnUnlock(c) PROVE LockInv'
    BY <1>6 DEF LockInv, Holds, OnUnlock, Return, Goto
  <1>7. ASSUME NEW c \in CPUs, psci_cpu_off(c) PROVE LockInv'
    <2>1. \A d \in CPUs, l \in Levels : Holds(d, l)' => Holds(d, l)
      BY <1>7 DEF Holds, psci_cpu_off, StartDomainOp, Goto, Levels
    <2>2. UNCHANGED lock
      BY <1>7 DEF psci_cpu_off
    <2>. QED
      BY <2>1, <2>2 DEF LockInv
  <1>8. ASSUME NEW c \in CPUs, NEW k \in 0 .. MaxLvl, NEW e \in Entries \cup
              BadEntries, pc[c] \in {"ns", "scan"}, SuspendTo(c, k, e)
        PROVE  LockInv'
    <2>1. \A d \in CPUs, l \in Levels : Holds(d, l)' => Holds(d, l)
      <3>1. CASE Return(c)
        BY <3>1 DEF Holds, Return, Goto
      <3>2. CASE StartDomainOp(c, "suspend", k, OffUpTo(k))
        BY <3>2 DEF Holds, StartDomainOp, Goto, Levels
      <3>. QED
        BY <1>8, <3>1, <3>2 DEF SuspendTo
    <2>2. UNCHANGED lock
      BY <1>8 DEF SuspendTo
    <2>. QED
      BY <2>1, <2>2 DEF LockInv
  <1>9. ASSUME NEW c \in CPUs, Standby(c) PROVE LockInv'
    BY <1>9 DEF LockInv, Holds, Standby, Goto
  <1>10. ASSUME NEW c \in CPUs, StandbyExit(c) PROVE LockInv'
    BY <1>10 DEF LockInv, Holds, StandbyExit, Goto
  <1>11. ASSUME NEW c \in CPUs, psci_system_suspend(c) PROVE LockInv'
    BY <1>11 DEF LockInv, Holds, psci_system_suspend, Goto
  <1>12. ASSUME NEW c \in CPUs, psci_is_last_on_cpu(c) PROVE LockInv'
    <2>1. \A d \in CPUs, l \in Levels : Holds(d, l)' => Holds(d, l)
      <3>1. CASE Return(c)
        BY <3>1 DEF Holds, Return, Goto
      <3>2. CASE i' = [i EXCEPT ![c] = @ + 1] /\ UNCHANGED <<pc, end_pwrlvl>>
        BY <1>12, <3>2 DEF Holds, psci_is_last_on_cpu
      <3>. QED
        BY <1>12, <3>1, <3>2 DEF psci_is_last_on_cpu
    <2>2. UNCHANGED lock
      BY <1>12 DEF psci_is_last_on_cpu
    <2>. QED
      BY <2>1, <2>2 DEF LockInv
  <1>13. ASSUME NEW c \in CPUs, psci_acquire_pwr_domain_locks(c) PROVE LockInv'
    <2> USE DEF psci_acquire_pwr_domain_locks
    <2>1. i[c] \in Levels
      BY <1>13, SizeAssumption DEF Levels
    <2>2. \A d \in CPUs, l \in Levels :
             Holds(d, l)' => Holds(d, l) \/ (d = c /\ l = i[c])
      BY <1>13 DEF Holds, Levels
    <2>3. \A d \in CPUs, l \in Levels :
             Holds(d, l) => NodeAt(d, l) # NodeAt(c, i[c])
      BY <1>13, BootAssumption DEF LockInv
    <2>4. \A d \in CPUs, l \in Levels : NodeAt(d, l) \in Nodes
      BY TreeAssumption DEF NodeAt
    <2>. QED
      BY <1>13, <2>1, <2>2, <2>3, <2>4 DEF LockInv, StateTypeOK
  <1>14. ASSUME NEW c \in CPUs, Acquired(c) PROVE LockInv'
    <2>1. \A d \in CPUs, l \in Levels : Holds(d, l)' => Holds(d, l)
      BY <1>14, SizeAssumption DEF Holds, Acquired, Goto, Levels
    <2>2. UNCHANGED lock
      BY <1>14 DEF Acquired
    <2>. QED
      BY <2>1, <2>2 DEF LockInv
  <1>15. ASSUME NEW c \in CPUs, SuspendCheckIsr(c) PROVE LockInv'
    BY <1>15 DEF LockInv, Holds, SuspendCheckIsr, Goto
  <1>16. ASSUME NEW c \in CPUs, psci_do_state_coordination(c) PROVE LockInv'
    BY <1>16 DEF LockInv, Holds, psci_do_state_coordination
  <1>17. ASSUME NEW c \in CPUs, Coordinated(c) PROVE LockInv'
    BY <1>17 DEF LockInv, Holds, Coordinated, Goto
  <1>18. ASSUME NEW c \in CPUs, psci_set_target_local_pwr_states(c)
        PROVE  LockInv'
    BY <1>18 DEF LockInv, Holds, psci_set_target_local_pwr_states,
       psci_suspend_to_pwrdown_start, Goto
  <1>19. ASSUME NEW c \in CPUs, PlatPowerDown(c) PROVE LockInv'
    BY <1>19 DEF LockInv, Holds, PlatPowerDown, spmc_cpu_corex_onoff, Goto
  <1>20. ASSUME NEW c \in CPUs, psci_release_pwr_domain_locks(c) PROVE LockInv'
    <2> USE DEF psci_release_pwr_domain_locks
    <2>1. i[c] \in Levels /\ Holds(c, i[c])
      BY <1>20, SizeAssumption DEF Levels, Holds
    <2>2. \A d \in CPUs, l \in Levels :
             Holds(d, l)' => Holds(d, l) /\ (d = c => l # i[c])
      BY <1>20, SizeAssumption DEF Holds, Levels
    <2>3. \A d \in CPUs, l \in Levels :
             NodeAt(d, l) = NodeAt(c, i[c]) => l = i[c]
      BY <2>1, TreeAssumption DEF NodeAt
    <2>4. \A d \in CPUs, l \in Levels : NodeAt(d, l) \in Nodes
      BY TreeAssumption DEF NodeAt
    <2>5. lock[NodeAt(c, i[c])] = c
      BY <2>1 DEF LockInv
    <2>6. ASSUME NEW d \in CPUs, NEW l \in Levels, Holds(d, l)'
          PROVE  lock'[NodeAt(d, l)] = d
      <3>1. Holds(d, l) /\ lock[NodeAt(d, l)] = d
        BY <2>2, <2>6 DEF LockInv
      <3>2. NodeAt(d, l) # NodeAt(c, i[c])
        BY <2>2, <2>3, <2>5, <2>6, <3>1
      <3>. QED
        BY <1>20, <2>1, <2>4, <3>1, <3>2 DEF StateTypeOK
    <2>. QED
      BY <2>6 DEF LockInv, NodeAt
  <1>21. ASSUME NEW c \in CPUs, Released(c) PROVE LockInv'
    BY <1>21 DEF LockInv, Holds, Released, Return, Goto
  <1>22. ASSUME NEW c \in CPUs, SetAffOff(c) PROVE LockInv'
    BY <1>22 DEF LockInv, Holds, SetAffOff, Goto
  <1>23. ASSUME NEW c \in CPUs, PowerDownWfi(c) PROVE LockInv'
    BY <1>23 DEF LockInv, Holds, PowerDownWfi, Goto
  <1>24. ASSUME NEW c \in CPUs, PowerUp(c) PROVE LockInv'
    BY <1>24 DEF LockInv, Holds, PowerUp, Goto
  <1>25. ASSUME NEW c \in CPUs, psci_warmboot_entrypoint(c) PROVE LockInv'
    <2>1. \A d \in CPUs, l \in Levels : Holds(d, l)' => Holds(d, l)
      <3>1. CASE Goto(c, "panic") /\ UNCHANGED <<i, end_pwrlvl>>
        BY <1>25, <3>1 DEF Holds, Goto
      <3>2. CASE StartDomainOp(c, "warmboot", target_pwrlvl[c], AllRun)
        BY <1>25, <3>2 DEF Holds, StartDomainOp, Goto, Levels
      <3>. QED
        BY <1>25, <3>1, <3>2 DEF psci_warmboot_entrypoint
    <2>2. UNCHANGED lock
      BY <1>25 DEF psci_warmboot_entrypoint
    <2>. QED
      BY <2>1, <2>2 DEF LockInv
  <1>26. ASSUME NEW c \in CPUs, WarmbootFinish(c) PROVE LockInv'
    BY <1>26 DEF LockInv, Holds, WarmbootFinish, Goto
  <1>27. ASSUME NEW c \in CPUs, psci_cpu_on_finish(c) PROVE LockInv'
    BY <1>27 DEF LockInv, Holds, psci_cpu_on_finish, Goto
  <1>28. ASSUME NEW c \in CPUs, WarmbootContext(c) PROVE LockInv'
    BY <1>28 DEF LockInv, Holds, WarmbootContext, Goto
  <1>29. ASSUME NEW c \in CPUs, psci_set_pwr_domains_to_run(c) PROVE LockInv'
    BY <1>29 DEF LockInv, Holds, psci_set_pwr_domains_to_run, Goto
  <1>30. CASE UNCHANGED vars
    BY <1>30 DEF vars, LockInv, Holds
  <1>. QED
    BY <1>1, <1>2, <1>3, <1>4, <1>5, <1>6, <1>7, <1>8, <1>9, <1>10, <1>11,
       <1>12, <1>13, <1>14, <1>15, <1>16, <1>17, <1>18, <1>19, <1>20, <1>21,
       <1>22, <1>23, <1>24, <1>25, <1>26, <1>27, <1>28, <1>29, <1>30, NextCases

(* So does the spin lock of a CPU, between the callers of CPU_ON.             *)
LEMMA CpuLockStep ==
    ASSUME TypeOK, ControlInv, CpuLockInv, [Next]_vars
    PROVE  CpuLockInv'
  <1> USE BootAssumption DEF TypeOK, CallTypeOK, StateTypeOK, ControlInv,
     CpuLockInv, OnCritical, cpuVars, domVars, hwVars
  <1>1. ASSUME NEW c \in CPUs, NEW t \in CPUs, NEW e \in Entries \cup
              BadEntries, psci_cpu_on(c, t, e)
        PROVE  CpuLockInv'
    BY <1>1 DEF psci_cpu_on, psci_get_ns_ep_info, callVars, Goto
  <1>2. ASSUME NEW c \in CPUs, OnLock(c) PROVE CpuLockInv'
    BY <1>2 DEF OnLock, Goto
  <1>3. ASSUME NEW c \in CPUs, cpu_on_validate_state(c) PROVE CpuLockInv'
    BY <1>3 DEF cpu_on_validate_state, Goto
  <1>4. ASSUME NEW c \in CPUs, OnSetPending(c) PROVE CpuLockInv'
    BY <1>4 DEF OnSetPending, Goto
  <1>5. ASSUME NEW c \in CPUs, OnPlat(c) PROVE CpuLockInv'
    BY <1>5 DEF OnPlat, spmc_cpu_corex_onoff, Goto
  <1>6. ASSUME NEW c \in CPUs, OnUnlock(c) PROVE CpuLockInv'
    BY <1>6 DEF OnUnlock, Return, Goto
  <1>7. ASSUME NEW c \in CPUs, psci_cpu_off(c) PROVE CpuLockInv'
    BY <1>7 DEF psci_cpu_off, StartDomainOp, Goto
  <1>8. ASSUME NEW c \in CPUs, NEW k \in 0 .. MaxLvl, NEW e \in Entries \cup
              BadEntries, pc[c] \in {"ns", "scan"}, SuspendTo(c, k, e)
        PROVE  CpuLockInv'
    BY <1>8 DEF SuspendTo, StartDomainOp, Return, psci_get_ns_ep_info, Goto
  <1>9. ASSUME NEW c \in CPUs, Standby(c) PROVE CpuLockInv'
    BY <1>9 DEF Standby, Goto
  <1>10. ASSUME NEW c \in CPUs, StandbyExit(c) PROVE CpuLockInv'
    BY <1>10 DEF StandbyExit, Goto
  <1>11. ASSUME NEW c \in CPUs, psci_system_suspend(c) PROVE CpuLockInv'
    BY <1>11 DEF psci_system_suspend, Goto
  <1>12. ASSUME NEW c \in CPUs, psci_is_last_on_cpu(c) PROVE CpuLockInv'
    <2>1. cpu_lock' = cpu_lock
      BY <1>12 DEF psci_is_last_on_cpu
    <2>2. pc'[c] \in {"scan", "ns"}
      BY <1>12 DEF psci_is_last_on_cpu, Return, Goto
    <2>3. \A d \in CPUs \ {c} : pc'[d] = pc[d] /\ target'[d] = target[d]
      BY <1>12 DEF psci_is_last_on_cpu, Return, Goto
    <2>. QED
      BY <2>1, <2>2, <2>3
  <1>13. ASSUME NEW c \in CPUs, psci_acquire_pwr_domain_locks(c)
        PROVE  CpuLockInv'
    BY <1>13 DEF psci_acquire_pwr_domain_locks
  <1>14. ASSUME NEW c \in CPUs, Acquired(c) PROVE CpuLockInv'
    BY <1>14 DEF Acquired, Goto
  <1>15. ASSUME NEW c \in CPUs, SuspendCheckIsr(c) PROVE CpuLockInv'
    BY <1>15 DEF SuspendCheckIsr, Goto
  <1>16. ASSUME NEW c \in CPUs, psci_do_state_coordination(c) PROVE CpuLockInv'
    BY <1>16 DEF psci_do_state_coordination
  <1>17. ASSUME NEW c \in CPUs, Coordinated(c) PROVE CpuLockInv'
    BY <1>17 DEF Coordinated, Goto
  <1>18. ASSUME NEW c \in CPUs, psci_set_target_local_pwr_states(c)
        PROVE  CpuLockInv'
    BY <1>18 DEF psci_set_target_local_pwr_states,
       psci_suspend_to_pwrdown_start, Goto
  <1>19. ASSUME NEW c \in CPUs, PlatPowerDown(c) PROVE CpuLockInv'
    BY <1>19 DEF PlatPowerDown, spmc_cpu_corex_onoff, Goto
  <1>20. ASSUME NEW c \in CPUs, psci_release_pwr_domain_locks(c)
        PROVE  CpuLockInv'
    BY <1>20 DEF psci_release_pwr_domain_locks
  <1>21. ASSUME NEW c \in CPUs, Released(c) PROVE CpuLockInv'
    BY <1>21 DEF Released, Return, Goto
  <1>22. ASSUME NEW c \in CPUs, SetAffOff(c) PROVE CpuLockInv'
    BY <1>22 DEF SetAffOff, Goto
  <1>23. ASSUME NEW c \in CPUs, PowerDownWfi(c) PROVE CpuLockInv'
    BY <1>23 DEF PowerDownWfi, Goto
  <1>24. ASSUME NEW c \in CPUs, PowerUp(c) PROVE CpuLockInv'
    BY <1>24 DEF PowerUp, Goto
  <1>25. ASSUME NEW c \in CPUs, psci_warmboot_entrypoint(c) PROVE CpuLockInv'
    BY <1>25 DEF psci_warmboot_entrypoint, StartDomainOp, Goto
  <1>26. ASSUME NEW c \in CPUs, WarmbootFinish(c) PROVE CpuLockInv'
    BY <1>26 DEF WarmbootFinish, Goto
  <1>27. ASSUME NEW c \in CPUs, psci_cpu_on_finish(c) PROVE CpuLockInv'
    BY <1>27 DEF psci_cpu_on_finish, Goto
  <1>28. ASSUME NEW c \in CPUs, WarmbootContext(c) PROVE CpuLockInv'
    BY <1>28 DEF WarmbootContext, Goto
  <1>29. ASSUME NEW c \in CPUs, psci_set_pwr_domains_to_run(c)
        PROVE  CpuLockInv'
    BY <1>29 DEF psci_set_pwr_domains_to_run, Goto
  <1>30. CASE UNCHANGED vars
    BY <1>30 DEF vars
  <1>. QED
    BY <1>1, <1>2, <1>3, <1>4, <1>5, <1>6, <1>7, <1>8, <1>9, <1>10, <1>11,
       <1>12, <1>13, <1>14, <1>15, <1>16, <1>17, <1>18, <1>19, <1>20, <1>21,
       <1>22, <1>23, <1>24, <1>25, <1>26, <1>27, <1>28, <1>29, <1>30, NextCases

(* The level at which a CPU went down is still there when it comes back.      *)
LEMMA LevelStep ==
    ASSUME TypeOK, ControlInv, LevelInv, AffInv, [Next]_vars
    PROVE  LevelInv'
  <1> USE SizeAssumption DEF TypeOK, CallTypeOK, StateTypeOK, ControlInv,
     LevelInv, AffInv, Running, Low, DownCritical, BootCritical, OnCritical,
     cpuVars, domVars, hwVars
  <1>1. ASSUME NEW c \in CPUs, NEW t \in CPUs, NEW e \in Entries \cup
              BadEntries, psci_cpu_on(c, t, e)
        PROVE  LevelInv'
    BY <1>1 DEF psci_cpu_on, psci_get_ns_ep_info, callVars, Goto
  <1>2. ASSUME NEW c \in CPUs, OnLock(c) PROVE LevelInv'
    BY <1>2 DEF OnLock, Goto
  <1>3. ASSUME NEW c \in CPUs, cpu_on_validate_state(c) PROVE LevelInv'
    BY <1>3 DEF cpu_on_validate_state, Goto
  <1>4. ASSUME NEW c \in CPUs, OnSetPending(c) PROVE LevelInv'
    BY <1>4 DEF OnSetPending, Goto
  <1>5. ASSUME NEW c \in CPUs, OnPlat(c) PROVE LevelInv'
    BY <1>5 DEF OnPlat, spmc_cpu_corex_onoff, Goto
  <1>6. ASSUME NEW c \in CPUs, OnUnlock(c) PROVE LevelInv'
    BY <1>6 DEF OnUnlock, Return, Goto
  <1>7. ASSUME NEW c \in CPUs, psci_cpu_off(c) PROVE LevelInv'
    BY <1>7 DEF psci_cpu_off, StartDomainOp, Goto
  <1>8. ASSUME NEW c \in CPUs, NEW k \in 0 .. MaxLvl, NEW e \in Entries \cup
              BadEntries, pc[c] \in {"ns", "scan"}, SuspendTo(c, k, e)
        PROVE  LevelInv'
    BY <1>8 DEF SuspendTo, StartDomainOp, Return, psci_get_ns_ep_info, Goto
  <1>9. ASSUME NEW c \in CPUs, Standby(c) PROVE LevelInv'
    BY <1>9 DEF Standby, Goto
  <1>10. ASSUME NEW c \in CPUs, StandbyExit(c) PROVE LevelInv'
    BY <1>10 DEF StandbyExit, Goto
  <1>11. ASSUME NEW c \in CPUs, psci_system_suspend(c) PROVE LevelInv'
    BY <1>11 DEF psci_system_suspend, Goto
  <1>12. ASSUME NEW c \in CPUs, psci_is_last_on_cpu(c) PROVE LevelInv'
    BY <1>12 DEF psci_is_last_on_cpu, Return, Goto
  <1>13. ASSUME NEW c \in CPUs, psci_acquire_pwr_domain_locks(c)
        PROVE  LevelInv'
    BY <1>13 DEF psci_acquire_pwr_domain_locks
  <1>14. ASSUME NEW c \in CPUs, Acquired(c) PROVE LevelInv'
    BY <1>14 DEF Acquired, Goto
  <1>15. ASSUME NEW c \in CPUs, SuspendCheckIsr(c) PROVE LevelInv'
    BY <1>15 DEF SuspendCheckIsr, Goto
  <1>16. ASSUME NEW c \in CPUs, psci_do_state_coordination(c) PROVE LevelInv'
    BY <1>16 DEF psci_do_state_coordination
  <1>17. ASSUME NEW c \in CPUs, Coordinated(c) PROVE LevelInv'
    BY <1>17 DEF Coordinated, Goto
  <1>18. ASSUME NEW c \in CPUs, psci_set_target_local_pwr_states(c)
        PROVE  LevelInv'
    BY <1>18 DEF psci_set_target_local_pwr_states,
       psci_suspend_to_pwrdown_start, Goto
  <1>19. ASSUME NEW c \in CPUs, PlatPowerDown(c) PROVE LevelInv'
    BY <1>19 DEF PlatPowerDown, spmc_cpu_corex_onoff, Goto
  <1>20. ASSUME NEW c \in CPUs, psci_release_pwr_domain_locks(c)
        PROVE  LevelInv'
    BY <1>20 DEF psci_release_pwr_domain_locks
  <1>21. ASSUME NEW c \in CPUs, Released(c) PROVE LevelInv'
    BY <1>21 DEF Released, Return, Goto
  <1>22. ASSUME NEW c \in CPUs, SetAffOff(c) PROVE LevelInv'
    BY <1>22 DEF SetAffOff, Goto
  <1>23. ASSUME NEW c \in CPUs, PowerDownWfi(c) PROVE LevelInv'
    BY <1>23 DEF PowerDownWfi, Goto
  <1>24. ASSUME NEW c \in CPUs, PowerUp(c) PROVE LevelInv'
    BY <1>24 DEF PowerUp, Goto
  <1>25. ASSUME NEW c \in CPUs, psci_warmboot_entrypoint(c) PROVE LevelInv'
    BY <1>25 DEF psci_warmboot_entrypoint, StartDomainOp, Goto
  <1>26. ASSUME NEW c \in CPUs, WarmbootFinish(c) PROVE LevelInv'
    <2>1. CASE Goto(c, "on_sync") /\ UNCHANGED target_pwrlvl
      BY <1>26, <2>1 DEF WarmbootFinish, Goto
    <2>2. CASE /\ target_pwrlvl' = [target_pwrlvl EXCEPT ![c] = MaxLvl]
               /\ aff_info_state[c] # "ON_PENDING"
               /\ Goto(c, "wb_context")
      BY <1>26, <2>2 DEF WarmbootFinish, Goto
    <2>. QED
      BY <1>26, <2>1, <2>2 DEF WarmbootFinish
  <1>27. ASSUME NEW c \in CPUs, psci_cpu_on_finish(c) PROVE LevelInv'
    BY <1>27 DEF psci_cpu_on_finish, Goto
  <1>28. ASSUME NEW c \in CPUs, WarmbootContext(c) PROVE LevelInv'
    BY <1>28 DEF WarmbootContext, Goto
  <1>29. ASSUME NEW c \in CPUs, psci_set_pwr_domains_to_run(c) PROVE LevelInv'
    BY <1>29 DEF psci_set_pwr_domains_to_run, Goto
  <1>30. CASE UNCHANGED vars
    BY <1>30 DEF vars
  <1>. QED
    BY <1>1, <1>2, <1>3, <1>4, <1>5, <1>6, <1>7, <1>8, <1>9, <1>10, <1>11,
       <1>12, <1>13, <1>14, <1>15, <1>16, <1>17, <1>18, <1>19, <1>20, <1>21,
       <1>22, <1>23, <1>24, <1>25, <1>26, <1>27, <1>28, <1>29, <1>30, NextCases

(* A CPU whose affinity state is OFF executes nothing: it is in its last wfi,  *)
(* without power, or has panicked in that wfi.                                *)
LEMMA OffIsDown ==
    ASSUME TypeOK, ControlInv, AffInv, NEW t \in CPUs, aff_info_state[t] = "OFF"
    PROVE  pc[t] \in {"off_wfi", "down", "panic"}
  <1>1. pc[t] \in Pcs
    BY DEF TypeOK, CallTypeOK
  <1>2. pc[t] # "acquire"
    BY DEF ControlInv, AffInv, Running
  <1>3. ~Running(t) /\ pc[t] \notin DownCritical \cup {"set_off", "sus_wfi",
                 "suspended", "release"}
    BY DEF AffInv
  <1>4. pc[t] \notin {"warmboot"} \cup BootCritical
    BY DEF AffInv
  <1>. QED
    BY <1>1, <1>2, <1>3, <1>4 DEF Pcs, Running, DownCritical, BootCritical

(* The affinity state, PWR_ON and the local state of a CPU follow its control  *)
(* point, although CPU_ON changes two of them from another CPU.               *)
LEMMA AffStep ==
    ASSUME TypeOK, ControlInv, CpuLockInv, LevelInv, AffInv, InfoInv,
       [Next]_vars
    PROVE  AffInv'
  <1> USE DEF TypeOK, CallTypeOK, StateTypeOK, ControlInv, CpuLockInv, AffInv,
     Running, Low, DownCritical, BootCritical, OnCritical, cpuVars, domVars,
     hwVars
  <1>1. ASSUME NEW c \in CPUs, NEW t \in CPUs, NEW e \in Entries \cup
              BadEntries, psci_cpu_on(c, t, e)
        PROVE  AffInv'
    BY <1>1 DEF psci_cpu_on, psci_get_ns_ep_info, callVars, Goto
  <1>2. ASSUME NEW c \in CPUs, OnLock(c) PROVE AffInv'
    BY <1>2 DEF OnLock, Goto
  <1>3. ASSUME NEW c \in CPUs, cpu_on_validate_state(c) PROVE AffInv'
    <2> USE DEF Goto
    <2>1. CASE aff_info_state[target[c]] = "OFF" /\ Goto(c, "on_set")
      BY <1>3, <2>1 DEF cpu_on_validate_state
    <2>2. CASE Goto(c, "on_unlock")
      BY <1>3, <2>2 DEF cpu_on_validate_state
    <2>. QED
      BY <1>3, <2>1, <2>2 DEF cpu_on_validate_state
  <1>4. ASSUME NEW c \in CPUs, OnSetPending(c) PROVE AffInv'
    <2> USE DEF OnSetPending, Goto
    <2>1. target[c] \in CPUs /\ aff_info_state[target[c]] = "OFF"
      BY <1>4
    <2>2. pc[target[c]] \in {"off_wfi", "down", "panic"}
      BY <2>1, OffIsDown
    <2>3. ~pwr_on[target[c]]
      BY <1>4, <2>1, <2>2
    <2>4. \A d \in CPUs : d # c /\ pc[d] \in OnCritical => target[d] # target[c]
      BY <1>4
    <2>5. ASSUME NEW d \in CPUs PROVE AffInv!(d)'
      BY <1>4, <2>1, <2>2, <2>3, <2>4
    <2>. QED
      BY <2>5
  <1>5. ASSUME NEW c \in CPUs, OnPlat(c) PROVE AffInv'
    <2> USE DEF OnPlat, spmc_cpu_corex_onoff, Goto
    <2>1. target[c] \in CPUs /\ aff_info_state[target[c]] = "ON_PENDING"
      BY <1>5
    <2>2. pc[target[c]] \in {"off_wfi", "down", "panic"}
      BY <1>5, <2>1 DEF Pcs
    <2>3. ~pwr_on[target[c]]
      BY <1>5, <2>1, <2>2
    <2>4. \A d \in CPUs : d # c /\ pc[d] \in OnCritical => target[d] # target[c]
      BY <1>5
    <2>5. ASSUME NEW d \in CPUs PROVE AffInv!(d)'
      BY <1>5, <2>1, <2>2, <2>3, <2>4
    <2>. QED
      BY <2>5
  <1>6. ASSUME NEW c \in CPUs, OnUnlock(c) PROVE AffInv'
    BY <1>6 DEF OnUnlock, Return, Goto
  <1>7. ASSUME NEW c \in CPUs, psci_cpu_off(c) PROVE AffInv'
    BY <1>7 DEF psci_cpu_off, StartDomainOp, Goto
  <1>8. ASSUME NEW c \in CPUs, NEW k \in 0 .. MaxLvl, NEW e \in Entries \cup
              BadEntries, pc[c] \in {"ns", "scan"}, SuspendTo(c, k, e)
        PROVE  AffInv'
    <2> USE DEF Goto
    <2>1. CASE Return(c)
      BY <1>8, <2>1 DEF SuspendTo, Return
    <2>2. CASE StartDomainOp(c, "suspend", k, OffUpTo(k))
      BY <1>8, <2>2 DEF SuspendTo, StartDomainOp
    <2>. QED
      BY <1>8, <2>1, <2>2 DEF SuspendTo
  <1>9. ASSUME NEW c \in CPUs, Standby(c) PROVE AffInv'
    BY <1>9 DEF Standby, Goto
  <1>10. ASSUME NEW c \in CPUs, StandbyExit(c) PROVE AffInv'
    BY <1>10 DEF StandbyExit, Goto
  <1>11. ASSUME NEW c \in CPUs, psci_system_suspend(c) PROVE AffInv'
    BY <1>11 DEF psci_system_suspend, Goto
  <1>12. ASSUME NEW c \in CPUs, psci_is_last_on_cpu(c) PROVE AffInv'
    <2> USE DEF Goto
    <2>1. CASE Return(c)
      BY <1>12, <2>1 DEF psci_is_last_on_cpu, Return
    <2>2. CASE UNCHANGED <<pc, op, end_pwrlvl, state_info, target, arg>>
      BY <1>12, <2>2 DEF psci_is_last_on_cpu
    <2>. QED
      BY <1>12, <2>1, <2>2 DEF psci_is_last_on_cpu
  <1>13. ASSUME NEW c \in CPUs, psci_acquire_pwr_domain_locks(c) PROVE AffInv'
    BY <1>13 DEF psci_acquire_pwr_domain_locks
  <1>14. ASSUME NEW c \in CPUs, Acquired(c) PROVE AffInv'
    <2> USE DEF Goto
    <2>1. CASE op[c] = "off" /\ Goto(c, "coord")
      BY <1>14, <2>1 DEF Acquired
    <2>2. CASE op[c] = "suspend" /\ Goto(c, "isr")
      BY <1>14, <2>2 DEF Acquired
    <2>3. CASE op[c] = "warmboot" /\ Goto(c, "wb_finish")
      BY <1>14, <2>3 DEF Acquired
    <2>. QED
      BY <1>14, <2>1, <2>2, <2>3 DEF Acquired
  <1>15. ASSUME NEW c \in CPUs, SuspendCheckIsr(c) PROVE AffInv'
    <2> USE DEF Goto
    <2>1. CASE Goto(c, "coord") /\ UNCHANGED <<op, i>>
      BY <1>15, <2>1 DEF SuspendCheckIsr
    <2>2. CASE Goto(c, "release") /\ op' = [op EXCEPT ![c] = "abort"]
      BY <1>15, <2>2 DEF SuspendCheckIsr
    <2>. QED
      BY <1>15, <2>1, <2>2 DEF SuspendCheckIsr
  <1>16. ASSUME NEW c \in CPUs, psci_do_state_coordination(c) PROVE AffInv'
    BY <1>16 DEF psci_do_state_coordination
  <1>17. ASSUME NEW c \in CPUs, Coordinated(c) PROVE AffInv'
    BY <1>17 DEF Coordinated, Goto
  <1>18. ASSUME NEW c \in CPUs, psci_set_target_local_pwr_states(c)
        PROVE  AffInv'
    <2>1. state_info[c][0] = OFF
      BY <1>18 DEF InfoInv, psci_set_target_local_pwr_states
    <2>. QED
      BY <1>18, <2>1 DEF psci_set_target_local_pwr_states, Goto
  <1>19. ASSUME NEW c \in CPUs, PlatPowerDown(c) PROVE AffInv'
    BY <1>19 DEF PlatPowerDown, spmc_cpu_corex_onoff, Goto
  <1>20. ASSUME NEW c \in CPUs, psci_release_pwr_domain_locks(c) PROVE AffInv'
    BY <1>20 DEF psci_release_pwr_domain_locks
  <1>21. ASSUME NEW c \in CPUs, Released(c) PROVE AffInv'
    <2> USE DEF Goto
    <2>1. CASE Return(c)
      BY <1>21, <2>1 DEF Released, Return
    <2>2. CASE Goto(c, "set_off") /\ op[c] = "off" /\ UNCHANGED <<op, i, end_pwrlvl, state_info, target, arg>>
      BY <1>21, <2>2 DEF Released
    <2>3. CASE Goto(c, "sus_wfi") /\ op[c] = "suspend" /\ UNCHANGED <<op, i, end_pwrlvl, state_info, target, arg>>
      BY <1>21, <2>3 DEF Released
    <2>. QED
      BY <1>21, <2>1, <2>2, <2>3 DEF Released
  <1>22. ASSUME NEW c \in CPUs, SetAffOff(c) PROVE AffInv'
    BY <1>22 DEF SetAffOff, Goto
  <1>23. ASSUME NEW c \in CPUs, PowerDownWfi(c) PROVE AffInv'
    <2> USE DEF Goto
    <2>1. CASE pc[c] = "off_wfi" /\ Goto(c, "down")
      BY <1>23, <2>1 DEF PowerDownWfi
    <2>2. CASE pc[c] = "sus_wfi" /\ Goto(c, "suspended")
      BY <1>23, <2>2 DEF PowerDownWfi
    <2>3. CASE pc[c] \in {"off_wfi", "sus_wfi"} /\ Goto(c, "panic")
      BY <1>23, <2>3 DEF PowerDownWfi
    <2>. QED
      BY <1>23, <2>1, <2>2, <2>3 DEF PowerDownWfi
  <1>24. ASSUME NEW c \in CPUs, PowerUp(c) PROVE AffInv'
    BY <1>24 DEF PowerUp, Goto
  <1>25. ASSUME NEW c \in CPUs, psci_warmboot_entrypoint(c) PROVE AffInv'
    <2> USE DEF Goto
    <2>1. CASE aff_info_state[c] = "OFF"
      BY <1>25, <2>1 DEF psci_warmboot_entrypoint
    <2>2. CASE StartDomainOp(c, "warmboot", target_pwrlvl[c], AllRun)
      BY <1>25, <2>2 DEF psci_warmboot_entrypoint, StartDomainOp
    <2>. QED
      BY <1>25, <2>1, <2>2 DEF psci_warmboot_entrypoint
  <1>26. ASSUME NEW c \in CPUs, WarmbootFinish(c) PROVE AffInv'
    <2> USE DEF Goto
    <2>1. CASE aff_info_state[c] = "ON_PENDING" /\ Goto(c, "on_sync")
      BY <1>26, <2>1 DEF WarmbootFinish
    <2>2. CASE aff_info_state[c] # "ON_PENDING" /\ Goto(c, "wb_context")
      BY <1>26, <2>2 DEF WarmbootFinish
    <2>. QED
      BY <1>26, <2>1, <2>2 DEF WarmbootFinish
  <1>27. ASSUME NEW c \in CPUs, psci_cpu_on_finish(c) PROVE AffInv'
    BY <1>27 DEF psci_cpu_on_finish, Goto
  <1>28. ASSUME NEW c \in CPUs, WarmbootContext(c) PROVE AffInv'
    BY <1>28 DEF WarmbootContext, Goto
  <1>29. ASSUME NEW c \in CPUs, psci_set_pwr_domains_to_run(c) PROVE AffInv'
    BY <1>29 DEF psci_set_pwr_domains_to_run, Goto
  <1>30. CASE UNCHANGED vars
    BY <1>30 DEF vars
  <1>. QED
    BY <1>1, <1>2, <1>3, <1>4, <1>5, <1>6, <1>7, <1>8, <1>9, <1>10, <1>11,
       <1>12, <1>13, <1>14, <1>15, <1>16, <1>17, <1>18, <1>19, <1>20, <1>21,
       <1>22, <1>23, <1>24, <1>25, <1>26, <1>27, <1>28, <1>29, <1>30, NextCases

(* What a CPU requests of a level is known from its control point alone.       *)
LEMMA ReqStep ==
    ASSUME TypeOK, ControlInv, LevelInv, InfoInv, ReqInv, [Next]_vars
    PROVE  ReqInv'
  <1> USE DEF TypeOK, CallTypeOK, ControlInv, DownCritical, BootCritical,
     OnCritical, domVars
  <1>1. ASSUME NEW c \in CPUs, NEW t \in CPUs, NEW e \in Entries \cup
              BadEntries, psci_cpu_on(c, t, e)
        PROVE  ReqInv'
    <2>1. UNCHANGED req
      BY <1>1 DEF psci_cpu_on, callVars
    <2>2. \A d \in CPUs, l \in Levels : Lowered(d, l)' <=> Lowered(d, l)
      <3>1. CASE UNCHANGED callVars
        BY <1>1, <3>1 DEF Lowered, Low, callVars
      <3>2. CASE Goto(c, "on_lock") /\ UNCHANGED <<op, i, end_pwrlvl>>
        BY <1>1, <3>2 DEF Lowered, Low, psci_cpu_on, Goto
      <3>. QED
        BY <1>1, <3>1, <3>2 DEF psci_cpu_on
    <2>. QED
      BY <2>1, <2>2 DEF ReqInv
  <1>2. ASSUME NEW c \in CPUs, OnLock(c) PROVE ReqInv'
    <2>1. UNCHANGED req
      BY <1>2 DEF OnLock
    <2>2. \A d \in CPUs, l \in Levels : Lowered(d, l)' <=> Lowered(d, l)
      BY <1>2 DEF Lowered, Low, OnLock, Goto
    <2>. QED
      BY <2>1, <2>2 DEF ReqInv
  <1>3. ASSUME NEW c \in CPUs, cpu_on_validate_state(c) PROVE ReqInv'
    <2>1. UNCHANGED req
      BY <1>3 DEF cpu_on_validate_state
    <2>2. \A d \in CPUs, l \in Levels : Lowered(d, l)' <=> Lowered(d, l)
      <3>1. CASE Goto(c, "on_set")
        BY <1>3, <3>1 DEF Lowered, Low, cpu_on_validate_state, Goto
      <3>2. CASE Goto(c, "on_unlock")
        BY <1>3, <3>2 DEF Lowered, Low, cpu_on_validate_state, Goto
      <3>. QED
        BY <1>3, <3>1, <3>2 DEF cpu_on_validate_state
    <2>. QED
      BY <2>1, <2>2 DEF ReqInv
  <1>4. ASSUME NEW c \in CPUs, OnSetPending(c) PROVE ReqInv'
    <2>1. UNCHANGED req
      BY <1>4 DEF OnSetPending
    <2>2. \A d \in CPUs, l \in Levels : Lowered(d, l)' <=> Lowered(d, l)
      BY <1>4 DEF Lowered, Low, OnSetPending, Goto
    <2>. QED
      BY <2>1, <2>2 DEF ReqInv
  <1>5. ASSUME NEW c \in CPUs, OnPlat(c) PROVE ReqInv'
    <2>1. UNCHANGED req
      BY <1>5 DEF OnPlat
    <2>2. \A d \in CPUs, l \in Levels : Lowered(d, l)' <=> Lowered(d, l)
      BY <1>5 DEF Lowered, Low, OnPlat, spmc_cpu_corex_onoff, Goto
    <2>. QED
      BY <2>1, <2>2 DEF ReqInv
  <1>6. ASSUME NEW c \in CPUs, OnUnlock(c) PROVE ReqInv'
    <2>1. UNCHANGED req
      BY <1>6 DEF OnUnlock
    <2>2. \A d \in CPUs, l \in Levels : Lowered(d, l)' <=> Lowered(d, l)
      BY <1>6 DEF Lowered, Low, OnUnlock, Return, Goto
    <2>. QED
      BY <2>1, <2>2 DEF ReqInv
  <1>7. ASSUME NEW c \in CPUs, psci_cpu_off(c) PROVE ReqInv'
    <2>1. UNCHANGED req
      BY <1>7 DEF psci_cpu_off
    <2>2. \A d \in CPUs, l \in Levels : Lowered(d, l)' <=> Lowered(d, l)
      BY <1>7 DEF Lowered, Low, psci_cpu_off, StartDomainOp, Goto
    <2>. QED
      BY <2>1, <2>2 DEF ReqInv
  <1>8. ASSUME NEW c \in CPUs, NEW k \in 0 .. MaxLvl, NEW e \in Entries \cup
              BadEntries, pc[c] \in {"ns", "scan"}, SuspendTo(c, k, e)
        PROVE  ReqInv'
    <2>1. UNCHANGED req
      BY <1>8 DEF SuspendTo
    <2>2. \A d \in CPUs, l \in Levels : Lowered(d, l)' <=> Lowered(d, l)
      <3>1. CASE Return(c)
        BY <1>8, <3>1 DEF Lowered, Low, Return, Goto
      <3>2. CASE StartDomainOp(c, "suspend", k, OffUpTo(k))
        BY <1>8, <3>2 DEF Lowered, Low, StartDomainOp, Goto
      <3>. QED
        BY <1>8, <3>1, <3>2 DEF SuspendTo
    <2>. QED
      BY <2>1, <2>2 DEF ReqInv
  <1>9. ASSUME NEW c \in CPUs, Standby(c) PROVE ReqInv'
    <2>1. UNCHANGED req
      BY <1>9 DEF Standby
    <2>2. \A d \in CPUs, l \in Levels : Lowered(d, l)' <=> Lowered(d, l)
      BY <1>9 DEF Lowered, Low, Standby, Goto
    <2>. QED
      BY <2>1, <2>2 DEF ReqInv
  <1>10. ASSUME NEW c \in CPUs, StandbyExit(c) PROVE ReqInv'
    <2>1. UNCHANGED req
      BY <1>10 DEF StandbyExit
    <2>2. \A d \in CPUs, l \in Levels : Lowered(d, l)' <=> Lowered(d, l)
      BY <1>10 DEF Lowered, Low, StandbyExit, Goto
    <2>. QED
      BY <2>1, <2>2 DEF ReqInv
  <1>11. ASSUME NEW c \in CPUs, psci_system_suspend(c) PROVE ReqInv'
    <2>1. UNCHANGED req
      BY <1>11 DEF psci_system_suspend
    <2>2. \A d \in CPUs, l \in Levels : Lowered(d, l)' <=> Lowered(d, l)
      BY <1>11 DEF Lowered, Low, psci_system_suspend, Goto
    <2>. QED
      BY <2>1, <2>2 DEF ReqInv
  <1>12. ASSUME NEW c \in CPUs, psci_is_last_on_cpu(c) PROVE ReqInv'
    <2>1. UNCHANGED req
      BY <1>12 DEF psci_is_last_on_cpu
    <2>2. \A d \in CPUs, l \in Levels : Lowered(d, l)' <=> Lowered(d, l)
      <3>1. CASE Return(c)
        BY <1>12, <3>1 DEF Lowered, Low, psci_is_last_on_cpu, Return, Goto
      <3>2. CASE i' = [i EXCEPT ![c] = @ + 1] /\ UNCHANGED <<pc, op, end_pwrlvl>>
        BY <1>12, <3>2 DEF Lowered, Low, psci_is_last_on_cpu
      <3>. QED
        BY <1>12, <3>1, <3>2 DEF psci_is_last_on_cpu
    <2>. QED
      BY <2>1, <2>2 DEF ReqInv
  <1>13. ASSUME NEW c \in CPUs, psci_acquire_pwr_domain_locks(c) PROVE ReqInv'
    <2>1. UNCHANGED req
      BY <1>13 DEF psci_acquire_pwr_domain_locks
    <2>2. \A d \in CPUs, l \in Levels : Lowered(d, l)' <=> Lowered(d, l)
      BY <1>13 DEF Lowered, Low, psci_acquire_pwr_domain_locks
    <2>. QED
      BY <2>1, <2>2 DEF ReqInv
  <1>14. ASSUME NEW c \in CPUs, Acquired(c) PROVE ReqInv'
    <2>1. UNCHANGED req
      BY <1>14 DEF Acquired
    <2>2. \A d \in CPUs, l \in Levels : Lowered(d, l)' <=> Lowered(d, l)
      <3>1. \A l \in Levels : l <= end_pwrlvl[c] => ~(l < 1)
        BY DEF Levels
      <3>2. pc'[c] \in {"coord", "isr"} \/ (op[c] = "warmboot" /\ pc'[c] = "wb_finish")
        BY <1>14 DEF Acquired, Goto
      <3>3. i'[c] = 1
        BY <1>14 DEF Acquired
      <3>. QED
        BY <1>14, <3>1, <3>2, <3>3 DEF Lowered, Low, Acquired, Goto
    <2>. QED
      BY <2>1, <2>2 DEF ReqInv
  <1>15. ASSUME NEW c \in CPUs, SuspendCheckIsr(c) PROVE ReqInv'
    <2>1. UNCHANGED req
      BY <1>15 DEF SuspendCheckIsr
    <2>2. \A d \in CPUs, l \in Levels : Lowered(d, l)' <=> Lowered(d, l)
      <3>1. CASE Goto(c, "coord") /\ UNCHANGED <<op, i>>
        BY <1>15, <3>1 DEF Lowered, Low, SuspendCheckIsr, Levels, Goto
      <3>2. CASE Goto(c, "release") /\ op' = [op EXCEPT ![c] = "abort"]
        BY <1>15, <3>2 DEF Lowered, Low, SuspendCheckIsr, Goto
      <3>. QED
        BY <1>15, <3>1, <3>2 DEF SuspendCheckIsr
    <2>. QED
      BY <2>1, <2>2 DEF ReqInv
  <1>16. ASSUME NEW c \in CPUs, psci_do_state_coordination(c) PROVE ReqInv'
    <2> USE DEF psci_do_state_coordination
    <2>1. i[c] \in Levels /\ state_info[c][i[c]] = OFF
      <3>1. i[c] \in Levels
        BY <1>16, SizeAssumption DEF Levels
      <3>2. op[c] \in {"off", "suspend"} /\ pc[c] = "coord" /\ i[c] <= end_pwrlvl[c]
        BY <1>16
      <3>. QED
        BY <3>1, <3>2 DEF InfoInv, Levels
    <2>2. \A d \in CPUs, l \in Levels :
             Lowered(d, l)' <=> Lowered(d, l) \/ (d = c /\ l = i[c])
      BY <1>16, <2>1 DEF Lowered, Low, Levels
    <2>3. \A d \in CPUs, l \in Levels :
             req'[l][d] = IF d = c /\ l = i[c] THEN OFF ELSE req[l][d]
      BY <1>16, <2>1 DEF StateTypeOK
    <2>. QED
      BY <2>2, <2>3 DEF ReqInv
  <1>17. ASSUME NEW c \in CPUs, Coordinated(c) PROVE ReqInv'
    <2>1. UNCHANGED req
      BY <1>17 DEF Coordinated
    <2>2. \A d \in CPUs, l \in Levels : Lowered(d, l)' <=> Lowered(d, l)
      BY <1>17, SizeAssumption DEF Lowered, Low, Coordinated, Goto, Levels
    <2>. QED
      BY <2>1, <2>2 DEF ReqInv
  <1>18. ASSUME NEW c \in CPUs, psci_set_target_local_pwr_states(c)
        PROVE  ReqInv'
    <2>1. UNCHANGED req
      BY <1>18 DEF psci_set_target_local_pwr_states
    <2>2. \A d \in CPUs, l \in Levels : Lowered(d, l)' <=> Lowered(d, l)
      BY <1>18 DEF Lowered, Low, psci_set_target_local_pwr_states,
         psci_suspend_to_pwrdown_start, Goto
    <2>. QED
      BY <2>1, <2>2 DEF ReqInv
  <1>19. ASSUME NEW c \in CPUs, PlatPowerDown(c) PROVE ReqInv'
    <2>1. UNCHANGED req
      BY <1>19 DEF PlatPowerDown
    <2>2. \A d \in CPUs, l \in Levels : Lowered(d, l)' <=> Lowered(d, l)
      BY <1>19 DEF Lowered, Low, PlatPowerDown, spmc_cpu_corex_onoff, Goto
    <2>. QED
      BY <2>1, <2>2 DEF ReqInv
  <1>20. ASSUME NEW c \in CPUs, psci_release_pwr_domain_locks(c) PROVE ReqInv'
    <2>1. UNCHANGED req
      BY <1>20 DEF psci_release_pwr_domain_locks
    <2>2. \A d \in CPUs, l \in Levels : Lowered(d, l)' <=> Lowered(d, l)
      BY <1>20 DEF Lowered, Low, psci_release_pwr_domain_locks
    <2>. QED
      BY <2>1, <2>2 DEF ReqInv
  <1>21. ASSUME NEW c \in CPUs, Released(c) PROVE ReqInv'
    <2>1. UNCHANGED req
      BY <1>21 DEF Released
    <2>2. \A d \in CPUs, l \in Levels : Lowered(d, l)' <=> Lowered(d, l)
      <3>1. CASE Return(c)
        BY <1>21, <3>1 DEF Lowered, Low, Released, Return, Goto
      <3>2. CASE op[c] = "off" /\ Goto(c, "set_off") /\ UNCHANGED <<op, i, end_pwrlvl>>
        BY <1>21, <3>2 DEF Lowered, Low, Released, Goto
      <3>3. CASE op[c] = "suspend" /\ Goto(c, "sus_wfi") /\ UNCHANGED <<op, i, end_pwrlvl>>
        BY <1>21, <3>3 DEF Lowered, Low, Released, Goto
      <3>. QED
        BY <1>21, <3>1, <3>2, <3>3 DEF Released
    <2>. QED
      BY <2>1, <2>2 DEF ReqInv
  <1>22. ASSUME NEW c \in CPUs, SetAffOff(c) PROVE ReqInv'
    <2>1. UNCHANGED req
      BY <1>22 DEF SetAffOff
    <2>2. \A d \in CPUs, l \in Levels : Lowered(d, l)' <=> Lowered(d, l)
      BY <1>22 DEF Lowered, Low, SetAffOff, Goto
    <2>. QED
      BY <2>1, <2>2 DEF ReqInv
  <1>23. ASSUME NEW c \in CPUs, PowerDownWfi(c) PROVE ReqInv'
    <2>1. UNCHANGED req
      BY <1>23 DEF PowerDownWfi
    <2>2. \A d \in CPUs, l \in Levels : Lowered(d, l)' <=> Lowered(d, l)
      <3>1. CASE \E p \in {"down", "suspended", "panic"} : Goto(c, p)
        BY <1>23, <3>1 DEF Lowered, Low, PowerDownWfi, Goto
      <3>. QED
        BY <1>23, <3>1 DEF PowerDownWfi
    <2>. QED
      BY <2>1, <2>2 DEF ReqInv
  <1>24. ASSUME NEW c \in CPUs, PowerUp(c) PROVE ReqInv'
    <2>1. UNCHANGED req
      BY <1>24 DEF PowerUp
    <2>2. \A d \in CPUs, l \in Levels : Lowered(d, l)' <=> Lowered(d, l)
      BY <1>24 DEF Lowered, Low, PowerUp, Goto
    <2>. QED
      BY <2>1, <2>2 DEF ReqInv
  <1>25. ASSUME NEW c \in CPUs, psci_warmboot_entrypoint(c) PROVE ReqInv'
    <2>1. UNCHANGED req
      BY <1>25 DEF psci_warmboot_entrypoint
    <2>2. \A d \in CPUs, l \in Levels : Lowered(d, l)' <=> Lowered(d, l)
      <3>1. CASE Goto(c, "panic") /\ UNCHANGED <<op, i, end_pwrlvl>>
        BY <1>25, <3>1 DEF Lowered, Low, psci_warmboot_entrypoint, Goto
      <3>2. CASE StartDomainOp(c, "warmboot", target_pwrlvl[c], AllRun)
        BY <1>25, <3>2 DEF Lowered, Low, psci_warmboot_entrypoint, LevelInv,
           StartDomainOp, Goto
      <3>. QED
        BY <1>25, <3>1, <3>2 DEF psci_warmboot_entrypoint
    <2>. QED
      BY <2>1, <2>2 DEF ReqInv
  <1>26. ASSUME NEW c \in CPUs, WarmbootFinish(c) PROVE ReqInv'
    <2>1. UNCHANGED req
      BY <1>26 DEF WarmbootFinish
    <2>2. \A d \in CPUs, l \in Levels : Lowered(d, l)' <=> Lowered(d, l)
      <3>1. CASE \E p \in {"on_sync", "wb_context"} : Goto(c, p)
        BY <1>26, <3>1 DEF Lowered, Low, WarmbootFinish, Goto
      <3>. QED
        BY <1>26, <3>1 DEF WarmbootFinish
    <2>. QED
      BY <2>1, <2>2 DEF ReqInv
  <1>27. ASSUME NEW c \in CPUs, psci_cpu_on_finish(c) PROVE ReqInv'
    <2>1. UNCHANGED req
      BY <1>27 DEF psci_cpu_on_finish
    <2>2. \A d \in CPUs, l \in Levels : Lowered(d, l)' <=> Lowered(d, l)
      BY <1>27 DEF Lowered, Low, psci_cpu_on_finish, Goto
    <2>. QED
      BY <2>1, <2>2 DEF ReqInv
  <1>28. ASSUME NEW c \in CPUs, WarmbootContext(c) PROVE ReqInv'
    <2>1. UNCHANGED req
      BY <1>28 DEF WarmbootContext
    <2>2. \A d \in CPUs, l \in Levels : Lowered(d, l)' <=> Lowered(d, l)
      BY <1>28 DEF Lowered, Low, WarmbootContext, Goto
    <2>. QED
      BY <2>1, <2>2 DEF ReqInv
  <1>29. ASSUME NEW c \in CPUs, psci_set_pwr_domains_to_run(c) PROVE ReqInv'
    <2>1. \A d \in CPUs, l \in Levels :
             Lowered(d, l)' <=> Lowered(d, l) /\ d # c
      BY <1>29 DEF Lowered, Low, psci_set_pwr_domains_to_run, Goto
    <2>2. \A l \in Levels : Lowered(c, l) => l <= end_pwrlvl[c]
      BY DEF Lowered
    <2>3. \A d \in CPUs, l \in Levels :
             req'[l][d] = IF d = c /\ l <= end_pwrlvl[c] THEN RUN ELSE req[l][d]
      BY <1>29 DEF StateTypeOK, psci_set_pwr_domains_to_run
    <2>. QED
      BY <2>1, <2>2, <2>3 DEF ReqInv
  <1>30. CASE UNCHANGED vars
    BY <1>30 DEF vars, ReqInv, Lowered, Low
  <1>. QED
    BY <1>1, <1>2, <1>3, <1>4, <1>5, <1>6, <1>7, <1>8, <1>9, <1>10, <1>11,
       <1>12, <1>13, <1>14, <1>15, <1>16, <1>17, <1>18, <1>19, <1>20, <1>21,
       <1>22, <1>23, <1>24, <1>25, <1>26, <1>27, <1>28, <1>29, <1>30, NextCases

(* State coordination gives a level RUN exactly when a CPU below it still runs. *)
LEMMA InfoStep ==
    ASSUME TypeOK, ControlInv, LockInv, ReqInv, InfoInv, [Next]_vars
    PROVE  InfoInv'
  <1> USE DEF TypeOK, CallTypeOK, ControlInv, DownCritical, BootCritical,
     domVars
  <1>1. ASSUME NEW c \in CPUs, NEW t \in CPUs, NEW e \in Entries \cup
              BadEntries, psci_cpu_on(c, t, e)
        PROVE  InfoInv'
    <2>1. \A d \in CPUs, l \in Levels : Wanted(d, l)' = Wanted(d, l)
      BY <1>1 DEF Wanted, psci_cpu_on, callVars
    <2>. QED
      BY <1>1, <2>1 DEF InfoInv, Dirty, psci_cpu_on, psci_get_ns_ep_info,
         callVars, Goto
  <1>2. ASSUME NEW c \in CPUs, OnLock(c) PROVE InfoInv'
    <2>1. \A d \in CPUs, l \in Levels : Wanted(d, l)' = Wanted(d, l)
      BY <1>2 DEF Wanted, OnLock
    <2>. QED
      BY <1>2, <2>1 DEF InfoInv, Dirty, OnLock, Goto
  <1>3. ASSUME NEW c \in CPUs, cpu_on_validate_state(c) PROVE InfoInv'
    <2>1. \A d \in CPUs, l \in Levels : Wanted(d, l)' = Wanted(d, l)
      BY <1>3 DEF Wanted, cpu_on_validate_state
    <2>. QED
      BY <1>3, <2>1 DEF InfoInv, Dirty, cpu_on_validate_state, Goto
  <1>4. ASSUME NEW c \in CPUs, OnSetPending(c) PROVE InfoInv'
    <2>1. \A d \in CPUs, l \in Levels : Wanted(d, l)' = Wanted(d, l)
      BY <1>4 DEF Wanted, OnSetPending
    <2>. QED
      BY <1>4, <2>1 DEF InfoInv, Dirty, OnSetPending, Goto
  <1>5. ASSUME NEW c \in CPUs, OnPlat(c) PROVE InfoInv'
    <2>1. \A d \in CPUs, l \in Levels : Wanted(d, l)' = Wanted(d, l)
      BY <1>5 DEF Wanted, OnPlat
    <2>. QED
      BY <1>5, <2>1 DEF InfoInv, Dirty, OnPlat, spmc_cpu_corex_onoff, Goto
  <1>6. ASSUME NEW c \in CPUs, OnUnlock(c) PROVE InfoInv'
    <2>1. \A d \in CPUs, l \in Levels : Wanted(d, l)' = Wanted(d, l)
      BY <1>6 DEF Wanted, OnUnlock
    <2>. QED
      BY <1>6, <2>1 DEF InfoInv, Dirty, OnUnlock, Return, Goto
  <1>7. ASSUME NEW c \in CPUs, psci_cpu_off(c) PROVE InfoInv'
    <2>1. \A l \in 0 .. MaxLvl : l <= MaxLvl => OffUpTo(MaxLvl)[l] = OFF
      BY DEF OffUpTo
    <2>2. \A l \in Levels : l \in 0 .. MaxLvl /\ l >= 1
      BY SizeAssumption DEF Levels
    <2>3. \A d \in CPUs, l \in Levels : Wanted(d, l)' = Wanted(d, l)
      BY <1>7 DEF Wanted, psci_cpu_off
    <2>4. ASSUME NEW d \in CPUs, d # c PROVE InfoInv!(d)'
      BY <1>7, <2>3, <2>4 DEF InfoInv, Dirty, psci_cpu_off, StartDomainOp, Goto
    <2>5. InfoInv!(c)'
      BY <1>7, <2>1, <2>2, SizeAssumption DEF Dirty, psci_cpu_off, StartDomainOp, Goto
    <2>. QED
      BY <2>4, <2>5 DEF InfoInv
  <1>8. ASSUME NEW c \in CPUs, NEW k \in 0 .. MaxLvl, NEW e \in Entries \cup
              BadEntries, pc[c] \in {"ns", "scan"}, SuspendTo(c, k, e)
        PROVE  InfoInv'
    <2>1. \A l \in 0 .. MaxLvl : l <= k => OffUpTo(k)[l] = OFF
      BY DEF OffUpTo
    <2>2. \A l \in Levels : l \in 0 .. MaxLvl /\ l >= 1
      BY SizeAssumption DEF Levels
    <2>3. \A d \in CPUs, l \in Levels : Wanted(d, l)' = Wanted(d, l)
      BY <1>8 DEF Wanted, SuspendTo
    <2>4. CASE Return(c)
      BY <1>8, <2>3, <2>4 DEF InfoInv, Dirty, SuspendTo, Return, Goto
    <2>5. CASE StartDomainOp(c, "suspend", k, OffUpTo(k))
      <3>1. ASSUME NEW d \in CPUs, d # c PROVE InfoInv!(d)'
        BY <2>3, <2>5, <3>1 DEF InfoInv, Dirty, StartDomainOp, Goto
      <3>2. InfoInv!(c)'
        BY <2>1, <2>2, <2>5, SizeAssumption DEF Dirty, StartDomainOp, Goto
      <3>. QED
        BY <3>1, <3>2 DEF InfoInv
    <2>. QED
      BY <1>8, <2>4, <2>5 DEF SuspendTo
  <1>9. ASSUME NEW c \in CPUs, Standby(c) PROVE InfoInv'
    <2>1. \A d \in CPUs, l \in Levels : Wanted(d, l)' = Wanted(d, l)
      BY <1>9 DEF Wanted, Standby
    <2>. QED
      BY <1>9, <2>1 DEF InfoInv, Dirty, Standby, Goto
  <1>10. ASSUME NEW c \in CPUs, StandbyExit(c) PROVE InfoInv'
    <2>1. \A d \in CPUs, l \in Levels : Wanted(d, l)' = Wanted(d, l)
      BY <1>10 DEF Wanted, StandbyExit
    <2>. QED
      BY <1>10, <2>1 DEF InfoInv, Dirty, StandbyExit, Goto
  <1>11. ASSUME NEW c \in CPUs, psci_system_suspend(c) PROVE InfoInv'
    <2>1. \A d \in CPUs, l \in Levels : Wanted(d, l)' = Wanted(d, l)
      BY <1>11 DEF Wanted, psci_system_suspend
    <2>. QED
      BY <1>11, <2>1 DEF InfoInv, Dirty, psci_system_suspend, Goto
  <1>12. ASSUME NEW c \in CPUs, psci_is_last_on_cpu(c) PROVE InfoInv'
    <2>1. \A d \in CPUs, l \in Levels : Wanted(d, l)' = Wanted(d, l)
      BY <1>12 DEF Wanted, psci_is_last_on_cpu
    <2>2. CASE Return(c)
      BY <1>12, <2>1, <2>2 DEF InfoInv, Dirty, psci_is_last_on_cpu, Return, Goto
    <2>3. CASE i' = [i EXCEPT ![c] = @ + 1]
               /\ UNCHANGED <<pc, op, end_pwrlvl, state_info>>
      BY <1>12, <2>1, <2>3 DEF InfoInv, Dirty, psci_is_last_on_cpu
    <2>. QED
      BY <1>12, <2>2, <2>3 DEF psci_is_last_on_cpu
  <1>13. ASSUME NEW c \in CPUs, psci_acquire_pwr_domain_locks(c) PROVE InfoInv'
    <2>1. \A d \in CPUs, l \in Levels : Wanted(d, l)' = Wanted(d, l)
      BY <1>13 DEF Wanted, psci_acquire_pwr_domain_locks
    <2>. QED
      BY <1>13, <2>1 DEF InfoInv, Dirty, psci_acquire_pwr_domain_locks
  <1>14. ASSUME NEW c \in CPUs, Acquired(c) PROVE InfoInv'
    <2>1. \A l \in Levels : l >= 1 /\ ~(l < 1)
      BY DEF Levels
    <2>2. \A d \in CPUs, l \in Levels : Wanted(d, l)' = Wanted(d, l)
      BY <1>14 DEF Wanted, Acquired
    <2>3. CASE op[c] = "off" /\ Goto(c, "coord")
      BY <1>14, <2>1, <2>2, <2>3 DEF InfoInv, Dirty, Acquired, Goto
    <2>4. CASE op[c] = "suspend" /\ Goto(c, "isr")
      BY <1>14, <2>1, <2>2, <2>4 DEF InfoInv, Dirty, Acquired, Goto
    <2>5. CASE op[c] = "warmboot" /\ Goto(c, "wb_finish")
      BY <1>14, <2>2, <2>5 DEF InfoInv, Dirty, Acquired, Goto
    <2>. QED
      BY <1>14, <2>3, <2>4, <2>5 DEF Acquired
  <1>15. ASSUME NEW c \in CPUs, SuspendCheckIsr(c) PROVE InfoInv'
    <2>1. \A l \in Levels : l >= 1 /\ ~(l < 1)
      BY DEF Levels
    <2>2. \A d \in CPUs, l \in Levels : Wanted(d, l)' = Wanted(d, l)
      BY <1>15 DEF Wanted, SuspendCheckIsr
    <2>3. CASE Goto(c, "coord") /\ UNCHANGED <<op, i>>
      <3>1. i[c] = 1 /\ pc[c] = "isr"
        BY <1>15 DEF SuspendCheckIsr
      <3>2. UNCHANGED <<end_pwrlvl, state_info>>
        BY <1>15 DEF SuspendCheckIsr
      <3>. QED
        BY <2>1, <2>2, <2>3, <3>1, <3>2 DEF InfoInv, Dirty, Goto
    <2>4. CASE Goto(c, "release") /\ op' = [op EXCEPT ![c] = "abort"]
      BY <1>15, <2>2, <2>4 DEF InfoInv, Dirty, SuspendCheckIsr, Goto
    <2>. QED
      BY <1>15, <2>3, <2>4 DEF SuspendCheckIsr
  <1>16. ASSUME NEW c \in CPUs, psci_do_state_coordination(c) PROVE InfoInv'
    <2> USE DEF psci_do_state_coordination
    <2>1. i[c] \in Levels /\ i[c] - 1 \in 0 .. MaxLvl /\ i[c] \in 0 .. MaxLvl
      BY <1>16, SizeAssumption DEF Levels
    <2>2. op[c] \in {"off", "suspend"} /\ state_info[c][i[c]] = OFF
      <3>1. op[c] \in {"off", "suspend"}
        BY <1>16
      <3>. QED
        BY <1>16, <2>1, <3>1 DEF InfoInv, Levels
    <2>3. \A d \in CPUs, l \in Levels :
             req'[l][d] = IF d = c /\ l = i[c] THEN OFF ELSE req[l][d]
      BY <1>16, <2>1, <2>2 DEF StateTypeOK
    <2>4. state_info'[c][i[c]] =
             IF \E d \in Siblings(c, i[c]) : req'[i[c]][d] = RUN
             THEN RUN ELSE OFF
      <3> DEFINE S == {req'[i[c]][d] : d \in Siblings(c, i[c])}
      <3>1. S \in SUBSET {RUN, OFF} /\ S # {}
        <4>1. c \in Siblings(c, i[c]) /\ Siblings(c, i[c]) \subseteq CPUs
          BY DEF Siblings
        <4>2. \A d \in CPUs : req'[i[c]][d] \in {RUN, OFF}
          BY <2>1, <2>3 DEF ReqInv
        <4>. QED
          BY <4>1, <4>2
      <3>2. CASE state_info[c][i[c] - 1] # RUN
        <4>1. state_info'[c][i[c]] = plat_get_target_pwr_state(S)
          BY <1>16, <2>1, <3>2
        <4>2. plat_get_target_pwr_state(S) = IF RUN \in S THEN RUN ELSE OFF
          <5> HIDE DEF S
          <5>. QED
            BY <3>1, TargetState
        <4>. QED
          BY <4>1, <4>2
      <3>3. CASE state_info[c][i[c] - 1] = RUN
        <4>1. i[c] - 1 \in Levels
          BY <1>16, <2>1, <2>2, <3>3 DEF InfoInv, Levels, RUN, OFF
        <4>2. Dirty(c, i[c] - 1)
          BY <1>16, <4>1 DEF Dirty, Levels
        <4>3. PICK d \in Siblings(c, i[c] - 1) : req[i[c] - 1][d] = RUN
          <5>1. state_info[c][i[c] - 1] = Wanted(c, i[c] - 1)
            BY <2>2, <4>1, <4>2 DEF InfoInv, Dirty
          <5>. QED
            BY <3>3, <5>1 DEF Wanted, RUN, OFF
        <4>4. d \in CPUs /\ d \in Siblings(c, i[c])
          BY <2>1, <4>1, <4>3, TreeAssumption DEF Siblings, Levels
        <4>5. ~Lowered(d, i[c] - 1) /\ Lowered(c, i[c] - 1)
          BY <1>16, <4>1, <4>2, <4>3, <4>4 DEF ReqInv, Lowered, Dirty, RUN, OFF
        <4>6. ~Lowered(d, i[c])
          BY <2>1, <4>1, <4>4, <4>5 DEF Lowered, Levels
        <4>7. req'[i[c]][d] = RUN
          BY <2>1, <2>3, <4>4, <4>5, <4>6 DEF ReqInv
        <4>8. state_info'[c][i[c]] = RUN
          BY <1>16, <2>1, <3>3
        <4>. QED
          BY <4>4, <4>7, <4>8
      <3>. QED
        BY <3>2, <3>3
    <2>5. ASSUME NEW d \in CPUs, NEW l \in Levels, Dirty(d, l), d # c \/ l # i[c]
          PROVE  \A x \in Siblings(d, l) : req'[l][x] = req[l][x]
      <3>1. CASE l # i[c]
        BY <2>3, <3>1 DEF Siblings
      <3>2. CASE d # c /\ l = i[c]
        <4>1. Holds(d, l) /\ Holds(c, l)
          BY <1>16, <2>5, <3>2 DEF Dirty, Holds
        <4>2. c \notin Siblings(d, l)
          BY <3>2, <4>1, <2>1 DEF LockInv, Siblings, NodeAt
        <4>. QED
          BY <2>3, <4>2 DEF Siblings
      <3>. QED
        BY <2>5, <3>1, <3>2
    <2>6. \A d \in CPUs, l \in Levels :
             Dirty(d, l)' => Dirty(d, l) \/ (d = c /\ l = i[c])
      BY <1>16, <2>1 DEF Dirty, Levels
    <2>7. \A d \in CPUs : d # c => state_info'[d] = state_info[d]
      BY <1>16
    <2>8. \A l \in 0 .. MaxLvl : l # i[c] => state_info'[c][l] = state_info[c][l]
      BY <1>16
    <2>9. ASSUME NEW d \in CPUs, d # c PROVE InfoInv!(d)'
      <3>1. ASSUME NEW l \in Levels, Dirty(d, l)'
            PROVE  Dirty(d, l) /\ Wanted(d, l)' = Wanted(d, l)
        <4>1. Dirty(d, l)
          BY <2>6, <2>9, <3>1
        <4>2. \A x \in Siblings(d, l) : req'[l][x] = req[l][x]
          BY <2>5, <2>9, <4>1
        <4>3. Siblings(d, l)' = Siblings(d, l)
          BY DEF Siblings
        <4>. QED
          BY <4>1, <4>2, <4>3 DEF Wanted
      <3>. QED
        <4>1. /\ pc'[d] = pc[d] /\ i'[d] = i[d] /\ op'[d] = op[d]
              /\ end_pwrlvl'[d] = end_pwrlvl[d]
          BY <1>16, <2>9
        <4>2. InfoInv!(d)
          BY DEF InfoInv
        <4>. QED
          BY <2>7, <2>9, <3>1, <4>1, <4>2
    <2>10. InfoInv!(c)'
      <3>1. pc'[c] = "coord" /\ i'[c] = i[c] + 1 /\ end_pwrlvl'[c] = end_pwrlvl[c]
        BY <1>16
      <3>2. state_info'[c][0] = OFF
        BY <1>16, <2>1, <2>2, <2>8, SizeAssumption DEF InfoInv, Levels
      <3>3. ASSUME NEW l \in Levels, l <= end_pwrlvl[c], l >= i'[c]
            PROVE  state_info'[c][l] = OFF
        BY <1>16, <2>1, <2>2, <2>8, <3>1, <3>3, SizeAssumption DEF InfoInv, Levels
      <3>4. ASSUME NEW l \in Levels, Dirty(c, l)'
            PROVE  state_info'[c][l] = Wanted(c, l)'
        <4>1. CASE l = i[c]
          BY <2>4, <4>1 DEF Wanted
        <4>2. CASE l # i[c]
          <5>1. Dirty(c, l) /\ l <= end_pwrlvl[c]
            BY <2>6, <3>4, <4>2 DEF Dirty
          <5>2. state_info'[c][l] = state_info[c][l]
            BY <2>8, <4>2, SizeAssumption DEF Levels
          <5>3. \A x \in Siblings(c, l) : req'[l][x] = req[l][x]
            BY <2>5, <4>2, <5>1
          <5>4. Wanted(c, l)' = Wanted(c, l)
            BY <5>3 DEF Wanted
          <5>5. state_info[c][l] = Wanted(c, l)
            BY <1>16, <2>1, <2>2, <5>1 DEF InfoInv
          <5>. QED
            BY <5>2, <5>4, <5>5
        <4>. QED
          BY <4>1, <4>2
      <3>. QED
        BY <3>1, <3>2, <3>3, <3>4 DEF Dirty
    <2>. QED
      BY <2>9, <2>10 DEF InfoInv
  <1>17. ASSUME NEW c \in CPUs, Coordinated(c) PROVE InfoInv'
    <2>1. \A d \in CPUs, l \in Levels : Dirty(d, l)' => Dirty(d, l)
      BY <1>17, SizeAssumption DEF Dirty, Coordinated, Goto, Levels
    <2>2. \A d \in CPUs, l \in Levels : Wanted(d, l)' = Wanted(d, l)
      BY <1>17 DEF Wanted, Coordinated
    <2>. QED
      BY <1>17, <2>1, <2>2 DEF InfoInv, Coordinated, Goto
  <1>18. ASSUME NEW c \in CPUs, psci_set_target_local_pwr_states(c)
        PROVE  InfoInv'
    <2>1. \A d \in CPUs, l \in Levels : Wanted(d, l)' = Wanted(d, l)
      BY <1>18 DEF Wanted, psci_set_target_local_pwr_states
    <2>. QED
      BY <1>18, <2>1 DEF InfoInv, Dirty, psci_set_target_local_pwr_states,
         psci_suspend_to_pwrdown_start, Goto
  <1>19. ASSUME NEW c \in CPUs, PlatPowerDown(c) PROVE InfoInv'
    <2>1. \A d \in CPUs, l \in Levels : Wanted(d, l)' = Wanted(d, l)
      BY <1>19 DEF Wanted, PlatPowerDown
    <2>. QED
      BY <1>19, <2>1 DEF InfoInv, Dirty, PlatPowerDown, spmc_cpu_corex_onoff, Goto
  <1>20. ASSUME NEW c \in CPUs, psci_release_pwr_domain_locks(c) PROVE InfoInv'
    <2>1. \A d \in CPUs, l \in Levels : Wanted(d, l)' = Wanted(d, l)
      BY <1>20 DEF Wanted, psci_release_pwr_domain_locks
    <2>. QED
      BY <1>20, <2>1 DEF InfoInv, Dirty, psci_release_pwr_domain_locks
  <1>21. ASSUME NEW c \in CPUs, Released(c) PROVE InfoInv'
    <2>1. \A d \in CPUs, l \in Levels : Wanted(d, l)' = Wanted(d, l)
      BY <1>21 DEF Wanted, Released
    <2>2. CASE Return(c)
      BY <1>21, <2>1, <2>2 DEF InfoInv, Dirty, Released, Return, Goto
    <2>3. CASE Goto(c, "set_off") /\ UNCHANGED <<op, i, end_pwrlvl, state_info>>
      BY <1>21, <2>1, <2>3 DEF InfoInv, Dirty, Released, Goto
    <2>4. CASE Goto(c, "sus_wfi") /\ UNCHANGED <<op, i, end_pwrlvl, state_info>>
      BY <1>21, <2>1, <2>4 DEF InfoInv, Dirty, Released, Goto
    <2>. QED
      BY <1>21, <2>2, <2>3, <2>4 DEF Released
  <1>22. ASSUME NEW c \in CPUs, SetAffOff(c) PROVE InfoInv'
    <2>1. \A d \in CPUs, l \in Levels : Wanted(d, l)' = Wanted(d, l)
      BY <1>22 DEF Wanted, SetAffOff
    <2>. QED
      BY <1>22, <2>1 DEF InfoInv, Dirty, SetAffOff, Goto
  <1>23. ASSUME NEW c \in CPUs, PowerDownWfi(c) PROVE InfoInv'
    <2>1. \A d \in CPUs, l \in Levels : Wanted(d, l)' = Wanted(d, l)
      BY <1>23 DEF Wanted, PowerDownWfi
    <2>. QED
      BY <1>23, <2>1 DEF InfoInv, Dirty, PowerDownWfi, Goto
  <1>24. ASSUME NEW c \in CPUs, PowerUp(c) PROVE InfoInv'
    <2>1. \A d \in CPUs, l \in Levels : Wanted(d, l)' = Wanted(d, l)
      BY <1>24 DEF Wanted, PowerUp
    <2>. QED
      BY <1>24, <2>1 DEF InfoInv, Dirty, PowerUp, Goto
  <1>25. ASSUME NEW c \in CPUs, psci_warmboot_entrypoint(c) PROVE InfoInv'
    <2>1. \A d \in CPUs, l \in Levels : Wanted(d, l)' = Wanted(d, l)
      BY <1>25 DEF Wanted, psci_warmboot_entrypoint
    <2>. QED
      BY <1>25, <2>1 DEF InfoInv, Dirty, psci_warmboot_entrypoint, StartDomainOp,
         Goto
  <1>26. ASSUME NEW c \in CPUs, WarmbootFinish(c) PROVE InfoInv'
    <2>1. \A d \in CPUs, l \in Levels : Wanted(d, l)' = Wanted(d, l)
      BY <1>26 DEF Wanted, WarmbootFinish
    <2>. QED
      BY <1>26, <2>1 DEF InfoInv, Dirty, WarmbootFinish, Goto
  <1>27. ASSUME NEW c \in CPUs, psci_cpu_on_finish(c) PROVE InfoInv'
    <2>1. \A d \in CPUs, l \in Levels : Wanted(d, l)' = Wanted(d, l)
      BY <1>27 DEF Wanted, psci_cpu_on_finish
    <2>. QED
      BY <1>27, <2>1 DEF InfoInv, Dirty, psci_cpu_on_finish, Goto
  <1>28. ASSUME NEW c \in CPUs, WarmbootContext(c) PROVE InfoInv'
    <2>1. \A d \in CPUs, l \in Levels : Wanted(d, l)' = Wanted(d, l)
      BY <1>28 DEF Wanted, WarmbootContext
    <2>. QED
      BY <1>28, <2>1 DEF InfoInv, Dirty, WarmbootContext, Goto
  <1>29. ASSUME NEW c \in CPUs, psci_set_pwr_domains_to_run(c) PROVE InfoInv'
    <2> USE DEF psci_set_pwr_domains_to_run, Goto
    <2>1. \A d \in CPUs, l \in Levels : Dirty(d, l)' => Dirty(d, l) /\ d # c
      BY <1>29 DEF Dirty
    <2>2. ASSUME NEW d \in CPUs, NEW l \in Levels, Dirty(d, l), d # c
          PROVE  \A x \in Siblings(d, l) : req'[l][x] = req[l][x]
      <3>1. c \notin Siblings(d, l) \/ ~(l <= end_pwrlvl[c])
        <4>1. Holds(d, l) /\ (l <= end_pwrlvl[c] => Holds(c, l))
          BY <1>29, <2>2 DEF Dirty, Holds
        <4>. QED
          BY <4>1, <2>2 DEF LockInv, Siblings, NodeAt
      <3>. QED
        BY <1>29, <3>1 DEF StateTypeOK, Siblings
    <2>3. ASSUME NEW d \in CPUs, NEW l \in Levels, Dirty(d, l)'
          PROVE  Wanted(d, l)' = Wanted(d, l)
      <3>1. \A x \in Siblings(d, l) : req'[l][x] = req[l][x]
        BY <2>1, <2>2, <2>3
      <3>. QED
        BY <3>1 DEF Wanted
    <2>. QED
      BY <1>29, <2>1, <2>3 DEF InfoInv
  <1>30. CASE UNCHANGED vars
    BY <1>30 DEF vars, InfoInv, Dirty, Wanted
  <1>. QED
    BY <1>1, <1>2, <1>3, <1>4, <1>5, <1>6, <1>7, <1>8, <1>9, <1>10, <1>11,
       <1>12, <1>13, <1>14, <1>15, <1>16, <1>17, <1>18, <1>19, <1>20, <1>21,
       <1>22, <1>23, <1>24, <1>25, <1>26, <1>27, <1>28, <1>29, <1>30, NextCases

(* Where an ancestor of x lies on the path of c *)
LEMMA PathLevel ==
    ASSUME NEW c \in CPUs, NEW x \in CPUs, NEW l \in Levels,
           NEW k \in 0 .. MaxLvl
    PROVE  /\ NodeAt(x, l) \in Nodes
           /\ OnPath(c, NodeAt(x, l), k) =
                 IF NodeAt(x, l) = NodeAt(c, l) /\ l <= k THEN {l} ELSE {}
  <1>1. NodeAt(x, l) \in Nodes
    BY TreeAssumption DEF NodeAt
  <1>2. \A j \in 1 .. k : j \in Levels
    BY SizeAssumption DEF Levels
  <1>3. ASSUME NEW j \in 1 .. k PROVE NodeAt(c, j) = NodeAt(x, l) => j = l
    BY <1>2, TreeAssumption DEF NodeAt
  <1>4. l <= k => l \in 1 .. k
    BY SizeAssumption DEF Levels
  <1>5. \A j \in 1 .. k : j <= k
    OBVIOUS
  <1>. QED
    BY <1>1, <1>3, <1>4, <1>5 DEF OnPath, NodeAt

(* A step that leaves requests and domain states alone, and ends no            *)
(* coordination, keeps the two in agreement.                                   *)
LEMMA DomainFrame ==
    ASSUME DomainInv, UNCHANGED <<req, node_state>>,
           \A d \in CPUs, l \in Levels : Dirty(d, l) => Dirty(d, l)'
    PROVE  DomainInv'
  <1>1. ASSUME NEW x \in CPUs, NEW l \in Levels PROVE DomainInv!(x, l)'
    <2>1. \A d \in Siblings(x, l) : d \in CPUs
      BY DEF Siblings
    <2>. QED
      BY <2>1 DEF DomainInv
  <1>. QED
    BY <1>1 DEF DomainInv

(* The state of a domain follows what the CPUs below it request.               *)
LEMMA DomainStep ==
    ASSUME TypeOK, ControlInv, InfoInv, DomainInv, [Next]_vars
    PROVE  DomainInv'
  <1> USE DEF TypeOK, CallTypeOK, ControlInv, DownCritical, BootCritical,
     OnCritical, domVars
  <1>1. ASSUME NEW c \in CPUs, NEW t \in CPUs, NEW e \in Entries \cup
              BadEntries, psci_cpu_on(c, t, e)
        PROVE  DomainInv'
    <2>1. \A d \in CPUs, l \in Levels : Dirty(d, l) => Dirty(d, l)'
      BY <1>1 DEF Dirty, psci_cpu_on, psci_get_ns_ep_info, callVars, Goto
    <2>. QED
      BY <1>1, <2>1, DomainFrame DEF psci_cpu_on
  <1>2. ASSUME NEW c \in CPUs, OnLock(c) PROVE DomainInv'
    <2>1. \A d \in CPUs, l \in Levels : Dirty(d, l) => Dirty(d, l)'
      BY <1>2 DEF Dirty, OnLock, Goto
    <2>. QED
      BY <1>2, <2>1, DomainFrame DEF OnLock
  <1>3. ASSUME NEW c \in CPUs, cpu_on_validate_state(c) PROVE DomainInv'
    <2>1. \A d \in CPUs, l \in Levels : Dirty(d, l) => Dirty(d, l)'
      BY <1>3 DEF Dirty, cpu_on_validate_state, Goto
    <2>. QED
      BY <1>3, <2>1, DomainFrame DEF cpu_on_validate_state
  <1>4. ASSUME NEW c \in CPUs, OnSetPending(c) PROVE DomainInv'
    <2>1. \A d \in CPUs, l \in Levels : Dirty(d, l) => Dirty(d, l)'
      BY <1>4 DEF Dirty, OnSetPending, Goto
    <2>. QED
      BY <1>4, <2>1, DomainFrame DEF OnSetPending
  <1>5. ASSUME NEW c \in CPUs, OnPlat(c) PROVE DomainInv'
    <2>1. \A d \in CPUs, l \in Levels : Dirty(d, l) => Dirty(d, l)'
      BY <1>5 DEF Dirty, OnPlat, spmc_cpu_corex_onoff, Goto
    <2>. QED
      BY <1>5, <2>1, DomainFrame DEF OnPlat
  <1>6. ASSUME NEW c \in CPUs, OnUnlock(c) PROVE DomainInv'
    <2>1. \A d \in CPUs, l \in Levels : Dirty(d, l) => Dirty(d, l)'
      BY <1>6 DEF Dirty, OnUnlock, Return, Goto
    <2>. QED
      BY <1>6, <2>1, DomainFrame DEF OnUnlock
  <1>7. ASSUME NEW c \in CPUs, psci_cpu_off(c) PROVE DomainInv'
    <2>1. \A d \in CPUs, l \in Levels : Dirty(d, l) => Dirty(d, l)'
      BY <1>7 DEF Dirty, psci_cpu_off, StartDomainOp, Goto
    <2>. QED
      BY <1>7, <2>1, DomainFrame DEF psci_cpu_off
  <1>8. ASSUME NEW c \in CPUs, NEW k \in 0 .. MaxLvl, NEW e \in Entries \cup
              BadEntries, pc[c] \in {"ns", "scan"}, SuspendTo(c, k, e)
        PROVE  DomainInv'
    <2>1. \A d \in CPUs, l \in Levels : Dirty(d, l) => Dirty(d, l)'
      <3>1. CASE Return(c)
        BY <1>8, <3>1 DEF Dirty, SuspendTo, Return, Goto
      <3>2. CASE StartDomainOp(c, "suspend", k, OffUpTo(k))
        BY <1>8, <3>2 DEF Dirty, SuspendTo, StartDomainOp, Goto
      <3>. QED
        BY <1>8, <3>1, <3>2 DEF SuspendTo
    <2>. QED
      BY <1>8, <2>1, DomainFrame DEF SuspendTo
  <1>9. ASSUME NEW c \in CPUs, Standby(c) PROVE DomainInv'
    <2>1. \A d \in CPUs, l \in Levels : Dirty(d, l) => Dirty(d, l)'
      BY <1>9 DEF Dirty, Standby, Goto
    <2>. QED
      BY <1>9, <2>1, DomainFrame DEF Standby
  <1>10. ASSUME NEW c \in CPUs, StandbyExit(c) PROVE DomainInv'
    <2>1. \A d \in CPUs, l \in Levels : Dirty(d, l) => Dirty(d, l)'
      BY <1>10 DEF Dirty, StandbyExit, Goto
    <2>. QED
      BY <1>10, <2>1, DomainFrame DEF StandbyExit
  <1>11. ASSUME NEW c \in CPUs, psci_system_suspend(c) PROVE DomainInv'
    <2>1. \A d \in CPUs, l \in Levels : Dirty(d, l) => Dirty(d, l)'
      BY <1>11 DEF Dirty, psci_system_suspend, Goto
    <2>. QED
      BY <1>11, <2>1, DomainFrame DEF psci_system_suspend
  <1>12. ASSUME NEW c \in CPUs, psci_is_last_on_cpu(c) PROVE DomainInv'
    <2>1. \A d \in CPUs, l \in Levels : Dirty(d, l) => Dirty(d, l)'
      <3>1. pc[c] = "scan" /\ \A d \in CPUs : d # c =>
               pc'[d] = pc[d] /\ i'[d] = i[d] /\ end_pwrlvl'[d] = end_pwrlvl[d]
        BY <1>12 DEF psci_is_last_on_cpu, Return, Goto
      <3>. QED
        BY <3>1 DEF Dirty
    <2>. QED
      BY <1>12, <2>1, DomainFrame DEF psci_is_last_on_cpu
  <1>13. ASSUME NEW c \in CPUs, psci_acquire_pwr_domain_locks(c)
        PROVE  DomainInv'
    <2>1. \A d \in CPUs, l \in Levels : Dirty(d, l) => Dirty(d, l)'
      BY <1>13 DEF Dirty, psci_acquire_pwr_domain_locks
    <2>. QED
      BY <1>13, <2>1, DomainFrame DEF psci_acquire_pwr_domain_locks
  <1>14. ASSUME NEW c \in CPUs, Acquired(c) PROVE DomainInv'
    <2>1. \A d \in CPUs, l \in Levels : Dirty(d, l) => Dirty(d, l)'
      BY <1>14 DEF Dirty, Acquired, Goto
    <2>. QED
      BY <1>14, <2>1, DomainFrame DEF Acquired
  <1>15. ASSUME NEW c \in CPUs, SuspendCheckIsr(c) PROVE DomainInv'
    <2>1. \A d \in CPUs, l \in Levels : Dirty(d, l) => Dirty(d, l)'
      BY <1>15 DEF Dirty, SuspendCheckIsr, Goto
    <2>. QED
      BY <1>15, <2>1, DomainFrame DEF SuspendCheckIsr
  <1>16. ASSUME NEW c \in CPUs, psci_do_state_coordination(c) PROVE DomainInv'
    <2> USE DEF psci_do_state_coordination
    <2>1. i[c] \in Levels /\ i[c] \in 0 .. MaxLvl
      BY <1>16, SizeAssumption DEF Levels
    <2>2. state_info[c][i[c]] = OFF
      <3>1. op[c] \in {"off", "suspend"} /\ pc[c] = "coord" /\ i[c] <= end_pwrlvl[c]
        BY <1>16
      <3>2. i[c] >= i[c]
        BY <2>1 DEF Levels
      <3>. QED
        BY <2>1, <3>1, <3>2 DEF InfoInv
    <2>3. \A d \in CPUs, l \in Levels :
             req'[l][d] = IF d = c /\ l = i[c] THEN OFF ELSE req[l][d]
      BY <1>16, <2>1, <2>2 DEF StateTypeOK
    <2>4. \A d \in CPUs, l \in Levels : Dirty(d, l) => Dirty(d, l)'
      BY <1>16, <2>1 DEF Dirty, Levels
    <2>5. \A l \in Levels : l = i[c] => Dirty(c, l)'
      BY <1>16, <2>1 DEF Dirty, Levels
    <2>6. node_state' = node_state
      BY <1>16
    <2>7. ASSUME NEW x \in CPUs, NEW l \in Levels
          PROVE  DomainInv!(x, l)'
      <3>1. req'[l][x] = RUN => node_state'[NodeAt(x, l)] = RUN
        <4>1. req'[l][x] = RUN => req[l][x] = RUN
          BY <2>3 DEF RUN, OFF
        <4>. QED
          BY <2>6, <4>1 DEF DomainInv
      <3>2. ASSUME \A d \in Siblings(x, l) : req'[l][d] = OFF /\ ~Dirty(d, l)'
            PROVE  node_state'[NodeAt(x, l)] = OFF
        <4>1. \A d \in Siblings(x, l) : req[l][d] = OFF /\ ~Dirty(d, l)
          <5>1. ~(c \in Siblings(x, l) /\ l = i[c])
            BY <2>5, <3>2
          <5>2. \A d \in Siblings(x, l) : d \in CPUs
            BY DEF Siblings
          <5>. QED
            BY <2>3, <2>4, <3>2, <5>1, <5>2
        <4>. QED
          BY <2>6, <4>1 DEF DomainInv
      <3>. QED
        BY <3>1, <3>2
    <2>. QED
      BY <2>7 DEF DomainInv
  <1>17. ASSUME NEW c \in CPUs, Coordinated(c) PROVE DomainInv'
    <2>1. \A d \in CPUs, l \in Levels : Dirty(d, l) => Dirty(d, l)'
      BY <1>17 DEF Dirty, Coordinated, Goto
    <2>. QED
      BY <1>17, <2>1, DomainFrame DEF Coordinated
  <1>18. ASSUME NEW c \in CPUs, psci_set_target_local_pwr_states(c)
        PROVE  DomainInv'
    <2> USE DEF psci_set_target_local_pwr_states, Goto
    <2>1. \A d \in CPUs, l \in Levels : d # c /\ Dirty(d, l) => Dirty(d, l)'
      BY <1>18 DEF Dirty
    <2>2. req' = req
      BY <1>18
    <2>3. ASSUME NEW x \in CPUs, NEW l \in Levels
          PROVE  DomainInv!(x, l)'
      <3>1. CASE NodeAt(x, l) = NodeAt(c, l) /\ l <= end_pwrlvl[c]
        <4>1. OnPath(c, NodeAt(x, l), end_pwrlvl[c]) = {l}
          BY <3>1, PathLevel
        <4>2. node_state'[NodeAt(x, l)] = state_info[c][l]
          BY <1>18, <4>1, PathLevel
        <4>3. state_info[c][l] = Wanted(c, l)
          BY <1>18, <3>1 DEF InfoInv, Dirty
        <4>4. Siblings(x, l) = Siblings(c, l) /\ x \in Siblings(c, l)
          BY <3>1 DEF Siblings, NodeAt
        <4>. QED
          BY <2>2, <4>2, <4>3, <4>4 DEF Wanted, RUN, OFF
      <3>2. CASE ~(NodeAt(x, l) = NodeAt(c, l) /\ l <= end_pwrlvl[c])
        <4>1. OnPath(c, NodeAt(x, l), end_pwrlvl[c]) = {}
          BY <3>2, PathLevel
        <4>2. node_state'[NodeAt(x, l)] = node_state[NodeAt(x, l)]
          BY <1>18, <4>1, PathLevel
        <4>3. c \in Siblings(x, l) => ~Dirty(c, l)
          BY <3>2 DEF Siblings, NodeAt, Dirty
        <4>4. (\A d \in Siblings(x, l) : req'[l][d] = OFF /\ ~Dirty(d, l)')
                 => \A d \in Siblings(x, l) : req[l][d] = OFF /\ ~Dirty(d, l)
          BY <2>1, <2>2, <4>3 DEF Siblings
        <4>. QED
          BY <2>2, <4>2, <4>4 DEF DomainInv
      <3>. QED
        BY <3>1, <3>2
    <2>. QED
      BY <2>3 DEF DomainInv
  <1>19. ASSUME NEW c \in CPUs, PlatPowerDown(c) PROVE DomainInv'
    <2>1. \A d \in CPUs, l \in Levels : Dirty(d, l) => Dirty(d, l)'
      BY <1>19 DEF Dirty, PlatPowerDown, spmc_cpu_corex_onoff, Goto
    <2>. QED
      BY <1>19, <2>1, DomainFrame DEF PlatPowerDown
  <1>20. ASSUME NEW c \in CPUs, psci_release_pwr_domain_locks(c)
        PROVE  DomainInv'
    <2>1. \A d \in CPUs, l \in Levels : Dirty(d, l) => Dirty(d, l)'
      BY <1>20 DEF Dirty, psci_release_pwr_domain_locks
    <2>. QED
      BY <1>20, <2>1, DomainFrame DEF psci_release_pwr_domain_locks
  <1>21. ASSUME NEW c \in CPUs, Released(c) PROVE DomainInv'
    <2>1. \A d \in CPUs, l \in Levels : Dirty(d, l) => Dirty(d, l)'
      <3>1. CASE Return(c)
        BY <1>21, <3>1 DEF Dirty, Released, Return, Goto
      <3>2. CASE Goto(c, "set_off") /\ UNCHANGED <<op, i, end_pwrlvl, state_info, target, arg>>
        BY <1>21, <3>2 DEF Dirty, Released, Goto
      <3>3. CASE Goto(c, "sus_wfi") /\ UNCHANGED <<op, i, end_pwrlvl, state_info, target, arg>>
        BY <1>21, <3>3 DEF Dirty, Released, Goto
      <3>. QED
        BY <1>21, <3>1, <3>2, <3>3 DEF Released
    <2>. QED
      BY <1>21, <2>1, DomainFrame DEF Released
  <1>22. ASSUME NEW c \in CPUs, SetAffOff(c) PROVE DomainInv'
    <2>1. \A d \in CPUs, l \in Levels : Dirty(d, l) => Dirty(d, l)'
      BY <1>22 DEF Dirty, SetAffOff, Goto
    <2>. QED
      BY <1>22, <2>1, DomainFrame DEF SetAffOff
  <1>23. ASSUME NEW c \in CPUs, PowerDownWfi(c) PROVE DomainInv'
    <2>1. \A d \in CPUs, l \in Levels : Dirty(d, l) => Dirty(d, l)'
      BY <1>23 DEF Dirty, PowerDownWfi, Goto
    <2>. QED
      BY <1>23, <2>1, DomainFrame DEF PowerDownWfi
  <1>24. ASSUME NEW c \in CPUs, PowerUp(c) PROVE DomainInv'
    <2>1. \A d \in CPUs, l \in Levels : Dirty(d, l) => Dirty(d, l)'
      BY <1>24 DEF Dirty, PowerUp, Goto
    <2>. QED
      BY <1>24, <2>1, DomainFrame DEF PowerUp
  <1>25. ASSUME NEW c \in CPUs, psci_warmboot_entrypoint(c) PROVE DomainInv'
    <2>1. \A d \in CPUs, l \in Levels : Dirty(d, l) => Dirty(d, l)'
      <3>1. CASE aff_info_state[c] = "OFF"
        BY <1>25, <3>1 DEF Dirty, psci_warmboot_entrypoint, Goto
      <3>2. CASE StartDomainOp(c, "warmboot", target_pwrlvl[c], AllRun)
        BY <1>25, <3>2 DEF Dirty, psci_warmboot_entrypoint, StartDomainOp, Goto
      <3>. QED
        BY <1>25, <3>1, <3>2 DEF psci_warmboot_entrypoint
    <2>. QED
      BY <1>25, <2>1, DomainFrame DEF psci_warmboot_entrypoint
  <1>26. ASSUME NEW c \in CPUs, WarmbootFinish(c) PROVE DomainInv'
    <2>1. \A d \in CPUs, l \in Levels : Dirty(d, l) => Dirty(d, l)'
      BY <1>26 DEF Dirty, WarmbootFinish, Goto
    <2>. QED
      BY <1>26, <2>1, DomainFrame DEF WarmbootFinish
  <1>27. ASSUME NEW c \in CPUs, psci_cpu_on_finish(c) PROVE DomainInv'
    <2>1. \A d \in CPUs, l \in Levels : Dirty(d, l) => Dirty(d, l)'
      BY <1>27 DEF Dirty, psci_cpu_on_finish, Goto
    <2>. QED
      BY <1>27, <2>1, DomainFrame DEF psci_cpu_on_finish
  <1>28. ASSUME NEW c \in CPUs, WarmbootContext(c) PROVE DomainInv'
    <2>1. \A d \in CPUs, l \in Levels : Dirty(d, l) => Dirty(d, l)'
      BY <1>28 DEF Dirty, WarmbootContext, Goto
    <2>. QED
      BY <1>28, <2>1, DomainFrame DEF WarmbootContext
  <1>29. ASSUME NEW c \in CPUs, psci_set_pwr_domains_to_run(c) PROVE DomainInv'
    <2> USE DEF psci_set_pwr_domains_to_run, Goto
    <2>1. \A d \in CPUs, l \in Levels : Dirty(d, l) => Dirty(d, l)'
      BY <1>29 DEF Dirty
    <2>2. \A d \in CPUs, l \in Levels :
             req'[l][d] = IF d = c /\ l <= end_pwrlvl[c] THEN RUN ELSE req[l][d]
      BY <1>29 DEF StateTypeOK
    <2>3. ASSUME NEW x \in CPUs, NEW l \in Levels
          PROVE  DomainInv!(x, l)'
      <3>1. CASE NodeAt(x, l) = NodeAt(c, l) /\ l <= end_pwrlvl[c]
        <4>1. l \in OnPath(c, NodeAt(x, l), end_pwrlvl[c])
          BY <3>1 DEF OnPath, NodeAt, Levels, CallTypeOK
        <4>2. node_state'[NodeAt(x, l)] = RUN
          BY <1>29, <4>1, PathLevel
        <4>3. c \in Siblings(x, l) /\ req'[l][c] = RUN
          BY <2>2, <3>1 DEF Siblings, NodeAt
        <4>. QED
          BY <4>2, <4>3 DEF RUN, OFF
      <3>2. CASE ~(NodeAt(x, l) = NodeAt(c, l) /\ l <= end_pwrlvl[c])
        <4>1. OnPath(c, NodeAt(x, l), end_pwrlvl[c]) = {}
          BY <3>2, PathLevel
        <4>2. node_state'[NodeAt(x, l)] = node_state[NodeAt(x, l)]
          BY <1>29, <4>1, PathLevel
        <4>3. \A d \in Siblings(x, l) : req'[l][d] = req[l][d]
          BY <2>2, <3>2 DEF Siblings, NodeAt
        <4>4. x \in Siblings(x, l) /\ \A d \in Siblings(x, l) : d \in CPUs
          BY DEF Siblings
        <4>5. req'[l][x] = RUN => node_state'[NodeAt(x, l)] = RUN
          BY <4>2, <4>3, <4>4 DEF DomainInv
        <4>6. ASSUME \A d \in Siblings(x, l) : req'[l][d] = OFF /\ ~Dirty(d, l)'
              PROVE  node_state'[NodeAt(x, l)] = OFF
          <5>1. \A d \in Siblings(x, l) : req[l][d] = OFF /\ ~Dirty(d, l)
            BY <2>1, <4>3, <4>4, <4>6
          <5>2. node_state[NodeAt(x, l)] = OFF
            BY <5>1 DEF DomainInv
          <5>. QED
            BY <4>2, <5>2
        <4>. QED
          BY <4>5, <4>6
      <3>. QED
        BY <3>1, <3>2
    <2>. QED
      BY <2>3 DEF DomainInv
  <1>30. CASE UNCHANGED vars
    BY <1>30 DEF vars, DomainInv, Dirty
  <1>. QED
    BY <1>1, <1>2, <1>3, <1>4, <1>5, <1>6, <1>7, <1>8, <1>9, <1>10, <1>11,
       <1>12, <1>13, <1>14, <1>15, <1>16, <1>17, <1>18, <1>19, <1>20, <1>21,
       <1>22, <1>23, <1>24, <1>25, <1>26, <1>27, <1>28, <1>29, <1>30, NextCases

-----------------------------------------------------------------------------
(* The parts of the invariant hold when psci_setup() is done.                  *)
LEMMA InitInv == Init => IInv
  <1> SUFFICES ASSUME Init PROVE IInv
    OBVIOUS
  <1> USE DEF Init, DownCritical, BootCritical, OnCritical
  <1>1. TypeOK
    BY InitType
  <1>2. \A c \in CPUs :
           /\ pc[c] = IF c = BootCpu THEN "ns" ELSE "down"
           /\ op[c] = "none"
           /\ end_pwrlvl[c] = MaxLvl
    OBVIOUS
  <1>3. \A c \in CPUs, l \in Levels : ~Holds(c, l) /\ ~Dirty(c, l)
    BY <1>2 DEF Holds, Dirty
  <1>4. \A c \in CPUs : Low(c) <=> c # BootCpu
    BY <1>2 DEF Low
  <1>5. \A c \in CPUs, l \in Levels : Lowered(c, l) <=> c # BootCpu
    BY <1>2, <1>4 DEF Lowered, Levels
  <1>6. ControlInv
    BY <1>2 DEF ControlInv
  <1>7. LockInv /\ CpuLockInv
    BY <1>2, <1>3 DEF LockInv, CpuLockInv
  <1>8. LevelInv
    BY <1>2 DEF LevelInv
  <1>9. AffInv
    BY <1>2, <1>4 DEF AffInv, Running
  <1>10. ReqInv
    BY <1>5 DEF ReqInv
  <1>11. InfoInv
    BY <1>2 DEF InfoInv
  <1>12. DomainInv
    <2>1. ASSUME NEW c \in CPUs, NEW l \in Levels, req[l][c] = RUN
          PROVE  node_state[NodeAt(c, l)] = RUN
      BY <2>1, TreeAssumption DEF NodeAt, RUN, OFF
    <2>2. ASSUME NEW c \in CPUs, NEW l \in Levels,
                 \A d \in Siblings(c, l) : req[l][d] = OFF
          PROVE  node_state[NodeAt(c, l)] = OFF
      <3>1. BootCpu \notin Siblings(c, l)
        <4>1. req[l][BootCpu] = RUN
          BY BootAssumption
        <4>. QED
          <5>1. RUN # OFF
            BY DEF RUN, OFF
          <5> HIDE DEF Init
          <5>. QED
            BY <2>2, <4>1, <5>1
      <3>2. \A k \in Levels : NodeAt(c, l) # Ancestor[BootCpu][k]
        BY <3>1, BootAssumption, TreeAssumption DEF Siblings, NodeAt
      <3>3. NodeAt(c, l) \in Nodes
        BY TreeAssumption DEF NodeAt
      <3>. QED
        BY <3>2, <3>3
    <2>. QED
      BY <2>1, <2>2 DEF DomainInv
  <1>. QED
    BY <1>1, <1>6, <1>7, <1>8, <1>9, <1>10, <1>11, <1>12 DEF IInv

(* Every step keeps the whole invariant.                                       *)
LEMMA InvStep == IInv /\ [Next]_vars => IInv'
  BY TypeStep, ControlStep, LockStep, CpuLockStep, LevelStep, AffStep, ReqStep,
     InfoStep, DomainStep DEF IInv

(* The invariant that ties locks, requests, domain states and affinity states  *)
(* to the control points of all CPUs holds in every state.                     *)
THEOREM Invariance == Spec => []IInv
  BY InitInv, InvStep, PTL DEF Spec

(* Every state the firmware reaches has values of the declared types: no index *)
(* leaves its table, no level exceeds PLAT_MAX_PWR_LVL.                         *)
THEOREM TypeCorrect == Spec => []TypeOK
  <1>1. IInv => TypeOK
    BY DEF IInv
  <1>. QED
    BY <1>1, Invariance, PTL

(* No domain is recorded as down above a CPU that runs.                        *)
THEOREM DomainsStayUp == Spec => []RunningCpuHasRunningDomains
  <1>1. IInv => RunningCpuHasRunningDomains
    <2> SUFFICES ASSUME IInv, NEW c \in CPUs, Running(c), NEW l \in Levels
                 PROVE  node_state[NodeAt(c, l)] = RUN
      BY DEF RunningCpuHasRunningDomains
    <2>1. ~Lowered(c, l)
      BY DEF Running, Lowered, Low, BootCritical
    <2>2. req[l][c] = RUN
      BY <2>1 DEF IInv, ReqInv
    <2>. QED
      BY <2>2 DEF IInv, DomainInv
  <1>. QED
    BY <1>1, Invariance, PTL

(* When all CPUs below a domain went down with CPU_OFF, the domain is down.     *)
THEOREM LastManTakesDomainDown == Spec => []LastManDown
  <1>1. IInv => LastManDown
    <2> SUFFICES ASSUME IInv, NEW c \in CPUs, NEW l \in Levels,
                        \A d \in Siblings(c, l) :
                           pc[d] \in {"set_off", "off_wfi", "down"}
                 PROVE  node_state[NodeAt(c, l)] = OFF
      BY DEF LastManDown
    <2>1. ASSUME NEW d \in Siblings(c, l)
          PROVE  req[l][d] = OFF /\ ~Dirty(d, l)
      <3>1. d \in CPUs
        BY DEF Siblings
      <3>2. end_pwrlvl[d] = MaxLvl
        <4>1. CASE pc[d] = "set_off"
          BY <3>1, <4>1 DEF IInv, ControlInv
        <4>2. CASE pc[d] \in {"off_wfi", "down"}
          BY <3>1, <4>2 DEF IInv, AffInv, LevelInv
        <4>. QED
          BY <2>1, <4>1, <4>2
      <3>3. Lowered(d, l)
        BY <2>1, <3>2 DEF Lowered, Low, Levels
      <3>4. req[l][d] = OFF
        BY <3>1, <3>3 DEF IInv, ReqInv
      <3>. QED
        BY <3>4 DEF Dirty
    <2>. QED
      BY <2>1 DEF IInv, DomainInv
  <1>. QED
    BY <1>1, Invariance, PTL

(* The panic of the warm boot on a CPU that is OFF and the assertions of the    *)
(* two finishers never fire.                                                    *)
THEOREM WarmbootIsSound == Spec => []WarmbootAssertions
  <1>1. IInv => WarmbootAssertions
    BY DEF IInv, AffInv, Low, BootCritical, WarmbootAssertions
  <1>. QED
    BY <1>1, Invariance, PTL

(* Two steps change the state of a domain.                                     *)
LEMMA ChangesDomains ==
    ASSUME [Next]_vars, node_state' # node_state
    PROVE  \E c \in CPUs :
              \/ psci_set_target_local_pwr_states(c)
              \/ psci_set_pwr_domains_to_run(c)
  <1>1. ASSUME NEW c \in CPUs, NEW t \in CPUs, NEW e \in Entries \cup BadEntries,
                 psci_cpu_on(c, t, e)
        PROVE  node_state' = node_state
    BY <1>1 DEF cpuVars, domVars, psci_cpu_on
  <1>2. ASSUME NEW c \in CPUs, NEW k \in 0 .. MaxLvl, NEW e \in Entries \cup BadEntries,
                 SuspendTo(c, k, e)
        PROVE  node_state' = node_state
    BY <1>2 DEF cpuVars, domVars, SuspendTo
  <1>3. ASSUME NEW c \in CPUs,
                 OnLock(c) \/ cpu_on_validate_state(c) \/ OnSetPending(c) \/
                 OnPlat(c) \/ OnUnlock(c)
        PROVE  node_state' = node_state
    BY <1>3 DEF cpuVars, domVars, OnLock, cpu_on_validate_state, OnSetPending,
       OnPlat, OnUnlock
  <1>4. ASSUME NEW c \in CPUs,
                 psci_cpu_off(c) \/ Standby(c) \/ StandbyExit(c) \/
                 psci_system_suspend(c) \/ psci_is_last_on_cpu(c)
        PROVE  node_state' = node_state
    BY <1>4 DEF cpuVars, domVars, psci_cpu_off, Standby, StandbyExit,
       psci_system_suspend, psci_is_last_on_cpu
  <1>5. ASSUME NEW c \in CPUs,
                 psci_acquire_pwr_domain_locks(c) \/ Acquired(c) \/
                 SuspendCheckIsr(c) \/ psci_do_state_coordination(c) \/
                 Coordinated(c)
        PROVE  node_state' = node_state
    BY <1>5 DEF cpuVars, domVars, psci_acquire_pwr_domain_locks, Acquired,
       SuspendCheckIsr, psci_do_state_coordination, Coordinated
  <1>6. ASSUME NEW c \in CPUs,
                 PlatPowerDown(c) \/ psci_release_pwr_domain_locks(c) \/
                 Released(c) \/ SetAffOff(c) \/ PowerDownWfi(c)
        PROVE  node_state' = node_state
    BY <1>6 DEF cpuVars, domVars, PlatPowerDown, psci_release_pwr_domain_locks,
       Released, SetAffOff, PowerDownWfi
  <1>7. ASSUME NEW c \in CPUs,
                 PowerUp(c) \/ psci_warmboot_entrypoint(c) \/ WarmbootFinish(c)
                 \/ psci_cpu_on_finish(c) \/ WarmbootContext(c)
        PROVE  node_state' = node_state
    BY <1>7 DEF cpuVars, domVars, PowerUp, psci_warmboot_entrypoint,
       WarmbootFinish, psci_cpu_on_finish, WarmbootContext
  <1>. QED
    BY <1>1, <1>2, <1>3, <1>4, <1>5, <1>6, <1>7, NextCases DEF vars

(* Four steps change the affinity state of a CPU.                              *)
LEMMA ChangesAffinity ==
    ASSUME [Next]_vars, aff_info_state' # aff_info_state
    PROVE  \E c \in CPUs :
              \/ OnSetPending(c)
              \/ OnPlat(c)
              \/ SetAffOff(c)
              \/ psci_set_pwr_domains_to_run(c)
  <1>1. ASSUME NEW c \in CPUs, NEW t \in CPUs, NEW e \in Entries \cup BadEntries,
                 psci_cpu_on(c, t, e)
        PROVE  aff_info_state' = aff_info_state
    BY <1>1 DEF cpuVars, domVars, psci_cpu_on
  <1>2. ASSUME NEW c \in CPUs, NEW k \in 0 .. MaxLvl, NEW e \in Entries \cup BadEntries,
                 SuspendTo(c, k, e)
        PROVE  aff_info_state' = aff_info_state
    BY <1>2 DEF cpuVars, domVars, SuspendTo
  <1>3. ASSUME NEW c \in CPUs,
                 OnLock(c) \/ cpu_on_validate_state(c) \/ OnUnlock(c) \/
                 psci_cpu_off(c) \/ Standby(c)
        PROVE  aff_info_state' = aff_info_state
    BY <1>3 DEF cpuVars, domVars, OnLock, cpu_on_validate_state, OnUnlock,
       psci_cpu_off, Standby
  <1>4. ASSUME NEW c \in CPUs,
                 StandbyExit(c) \/ psci_system_suspend(c) \/
                 psci_is_last_on_cpu(c) \/ psci_acquire_pwr_domain_locks(c) \/
                 Acquired(c)
        PROVE  aff_info_state' = aff_info_state
    BY <1>4 DEF cpuVars, domVars, StandbyExit, psci_system_suspend,
       psci_is_last_on_cpu, psci_acquire_pwr_domain_locks, Acquired
  <1>5. ASSUME NEW c \in CPUs,
                 SuspendCheckIsr(c) \/ psci_do_state_coordination(c) \/
                 Coordinated(c) \/ psci_set_target_local_pwr_states(c) \/
                 PlatPowerDown(c)
        PROVE  aff_info_state' = aff_info_state
    BY <1>5 DEF cpuVars, domVars, SuspendCheckIsr, psci_do_state_coordination,
       Coordinated, psci_set_target_local_pwr_states, PlatPowerDown
  <1>6. ASSUME NEW c \in CPUs,
                 psci_release_pwr_domain_locks(c) \/ Released(c) \/
                 PowerDownWfi(c) \/ PowerUp(c) \/ psci_warmboot_entrypoint(c)
        PROVE  aff_info_state' = aff_info_state
    BY <1>6 DEF cpuVars, domVars, psci_release_pwr_domain_locks, Released,
       PowerDownWfi, PowerUp, psci_warmboot_entrypoint
  <1>7. ASSUME NEW c \in CPUs,
                 WarmbootFinish(c) \/ psci_cpu_on_finish(c) \/
                 WarmbootContext(c)
        PROVE  aff_info_state' = aff_info_state
    BY <1>7 DEF cpuVars, domVars, WarmbootFinish, psci_cpu_on_finish,
       WarmbootContext
  <1>. QED
    BY <1>1, <1>2, <1>3, <1>4, <1>5, <1>6, <1>7, NextCases DEF vars

(* Only the CPU that holds the lock of a domain changes its state.              *)
THEOREM DomainsAreLocked == Spec => DomainChangesUnderLock
  <1>1. ASSUME IInv, [Next]_vars, NEW n \in Nodes,
               node_state'[n] # node_state[n]
        PROVE  \E c \in CPUs : /\ lock[n] = c
                               /\ pc[c] \in {"set_target", "to_run"}
                               /\ pc'[c] # pc[c]
    <2> USE DEF IInv, TypeOK, CallTypeOK
    <2>1. PICK c \in CPUs : \/ psci_set_target_local_pwr_states(c)
                            \/ psci_set_pwr_domains_to_run(c)
      BY <1>1, ChangesDomains
    <2>2. OnPath(c, n, end_pwrlvl[c]) # {}
      BY <1>1, <2>1 DEF psci_set_target_local_pwr_states,
                        psci_set_pwr_domains_to_run
    <2>3. PICK l \in 1 .. end_pwrlvl[c] : NodeAt(c, l) = n
      BY <2>2 DEF OnPath, NodeAt
    <2>4. l \in Levels /\ l <= end_pwrlvl[c]
      BY <1>1, SizeAssumption DEF Levels
    <2>5. Holds(c, l)
      BY <2>1, <2>4 DEF Holds, DownCritical, BootCritical,
         psci_set_target_local_pwr_states, psci_set_pwr_domains_to_run
    <2>6. lock[n] = c
      BY <1>1, <2>3, <2>4, <2>5 DEF LockInv
    <2>7. pc[c] \in {"set_target", "to_run"} /\ pc'[c] \in {"plat", "release"}
      BY <1>1, <2>1 DEF psci_set_target_local_pwr_states,
                        psci_set_pwr_domains_to_run, Goto
    <2>. QED
      BY <2>6, <2>7
  <1>2. IInv /\ [Next]_vars =>
           [\A n \in Nodes : node_state'[n] # node_state[n] =>
               \E c \in CPUs : /\ lock[n] = c
                               /\ pc[c] \in {"set_target", "to_run"}
                               /\ pc'[c] # pc[c]]_node_state
    BY <1>1
  <1>. QED
    BY <1>2, Invariance, PTL DEF Spec, DomainChangesUnderLock

(* The affinity state of a CPU only goes round OFF, ON_PENDING, ON, OFF, or     *)
(* back to OFF when the platform refuses a CPU_ON.                              *)
THEOREM LifeCycle == Spec => AffinityLifeCycle
  <1>1. ASSUME IInv, [Next]_vars, NEW d \in CPUs,
               aff_info_state'[d] # aff_info_state[d]
        PROVE  <<aff_info_state[d], aff_info_state'[d]>> \in
                  {<<"OFF", "ON_PENDING">>, <<"ON_PENDING", "ON">>,
                   <<"ON_PENDING", "OFF">>, <<"ON", "OFF">>}
    <2> USE DEF IInv, TypeOK, StateTypeOK, AffStates
    <2>1. PICK c \in CPUs :
             OnSetPending(c) \/ OnPlat(c) \/ SetAffOff(c)
             \/ psci_set_pwr_domains_to_run(c)
      BY <1>1, ChangesAffinity
    <2>2. CASE OnSetPending(c)
      BY <1>1, <2>2 DEF OnSetPending, AffInv, ControlInv
    <2>3. CASE OnPlat(c)
      <3>1. target[c] \in CPUs /\ aff_info_state[target[c]] = "ON_PENDING"
        BY <1>1, <2>3 DEF OnPlat, AffInv, ControlInv, OnCritical
      <3>2. d = target[c] /\ aff_info_state'[d] = "OFF"
        BY <1>1, <2>3, <3>1 DEF OnPlat
      <3>. QED
        BY <3>1, <3>2
    <2>4. CASE SetAffOff(c)
      BY <1>1, <2>4 DEF SetAffOff, AffInv
    <2>5. CASE psci_set_pwr_domains_to_run(c)
      <3>1. d = c /\ aff_info_state'[d] = "ON"
        BY <1>1, <2>5 DEF psci_set_pwr_domains_to_run
      <3>2. aff_info_state[c] # "OFF"
        BY <1>1, <2>5 DEF psci_set_pwr_domains_to_run, AffInv, BootCritical
      <3>. QED
        BY <1>1, <3>1, <3>2
    <2>. QED
      BY <2>1, <2>2, <2>3, <2>4, <2>5
  <1>2. IInv /\ [Next]_vars =>
           [\A c \in CPUs :
              <<aff_info_state[c], aff_info_state'[c]>> \in
                 {<<"OFF", "ON_PENDING">>, <<"ON_PENDING", "ON">>,
                  <<"ON_PENDING", "OFF">>, <<"ON", "OFF">>}
              \/ aff_info_state'[c] = aff_info_state[c]]_aff_info_state
    BY <1>1
  <1>. QED
    BY <1>2, Invariance, PTL DEF Spec, AffinityLifeCycle

(* What a CPU inside psci_is_last_on_cpu() has found OFF is OFF, if there is no *)
(* third CPU that could turn it on meanwhile.                                  *)
ScanInv ==
    \A c \in CPUs : pc[c] = "scan" =>
        \A d \in CPUs : d # c /\ d < i[c] => aff_info_state[d] = "OFF"

\* How a CPU comes to be inside psci_is_last_on_cpu()
LEMMA ComesToScan ==
    ASSUME TypeOK, [Next]_vars, NEW c \in CPUs, pc'[c] = "scan"
    PROVE  \/ pc[c] = "scan" /\ i'[c] = i[c]
           \/ psci_system_suspend(c)
           \/ psci_is_last_on_cpu(c)
  <1> USE DEF TypeOK, CallTypeOK, Goto, Return
  <1> DEFINE Same == pc[c] = "scan" /\ i'[c] = i[c]
  <1>1. ASSUME NEW b \in CPUs, NEW t \in CPUs, NEW e \in Entries \cup BadEntries,
                 psci_cpu_on(b, t, e)
        PROVE  Same
    BY <1>1 DEF psci_cpu_on, callVars
  <1>2. ASSUME NEW b \in CPUs, NEW k \in 0 .. MaxLvl, NEW e \in Entries \cup BadEntries,
                 SuspendTo(b, k, e)
        PROVE  Same
    BY <1>2 DEF SuspendTo, StartDomainOp
  <1>3. ASSUME NEW b \in CPUs,
                 OnLock(b) \/ cpu_on_validate_state(b) \/ OnUnlock(b) \/
                 psci_cpu_off(b) \/ Standby(b)
        PROVE  Same
    BY <1>3 DEF OnLock, cpu_on_validate_state, OnUnlock, psci_cpu_off, Standby,
       StartDomainOp
  <1>4. ASSUME NEW b \in CPUs,
                 StandbyExit(b) \/ psci_acquire_pwr_domain_locks(b) \/
                 Acquired(b) \/ OnSetPending(b) \/ OnPlat(b)
        PROVE  Same
    BY <1>4 DEF StandbyExit, psci_acquire_pwr_domain_locks, Acquired, OnSetPending,
       OnPlat
  <1>5. ASSUME NEW b \in CPUs,
                 SuspendCheckIsr(b) \/ psci_do_state_coordination(b) \/
                 Coordinated(b) \/ psci_set_target_local_pwr_states(b) \/
                 PlatPowerDown(b)
        PROVE  Same
    BY <1>5 DEF SuspendCheckIsr, psci_do_state_coordination,
       Coordinated, psci_set_target_local_pwr_states, PlatPowerDown
  <1>6. ASSUME NEW b \in CPUs,
                 psci_release_pwr_domain_locks(b) \/ Released(b) \/ SetAffOff(b) \/
                 PowerDownWfi(b) \/ PowerUp(b) \/ psci_warmboot_entrypoint(b)
        PROVE  Same
    BY <1>6 DEF psci_release_pwr_domain_locks, Released, SetAffOff,
       PowerDownWfi, PowerUp, psci_warmboot_entrypoint, StartDomainOp
  <1>7. ASSUME NEW b \in CPUs,
                 WarmbootFinish(b) \/ psci_cpu_on_finish(b) \/
                 WarmbootContext(b) \/ psci_set_pwr_domains_to_run(b)
        PROVE  Same
    BY <1>7 DEF WarmbootFinish, psci_cpu_on_finish, WarmbootContext,
       psci_set_pwr_domains_to_run
  <1>8. ASSUME NEW b \in CPUs, b # c, psci_system_suspend(b) \/ psci_is_last_on_cpu(b)
        PROVE  Same
    BY <1>8 DEF psci_system_suspend, psci_is_last_on_cpu
  <1>9. CASE UNCHANGED vars
    BY <1>9 DEF vars
  <1> HIDE DEF Same
  <1>. QED
    BY <1>1, <1>2, <1>3, <1>4, <1>5, <1>6, <1>7, <1>8, <1>9, NextCases DEF Same

\* With two CPUs, whoever changes a state read as OFF is the CPU that reads or
\* the one that is off; neither can, at that point
LEMMA ScanStep ==
    ASSUME NCpus <= 2, IInv, ScanInv, [Next]_vars
    PROVE  ScanInv'
  <1> SUFFICES ASSUME NEW c \in CPUs, pc'[c] = "scan", NEW d \in CPUs, d # c, d < i'[c]
               PROVE  aff_info_state'[d] = "OFF"
    BY DEF ScanInv
  <1> USE DEF IInv, TypeOK, CallTypeOK, StateTypeOK
  <1>1. aff_info_state[d] = "OFF"
    <2>1. CASE pc[c] = "scan" /\ i'[c] = i[c]
      BY <2>1 DEF ScanInv
    <2>2. CASE psci_system_suspend(c)
      BY <2>2, SizeAssumption DEF psci_system_suspend, CPUs
    <2>3. CASE psci_is_last_on_cpu(c)
      <3>1. pc[c] = "scan" /\ i[c] \in CPUs
        BY <2>3 DEF psci_is_last_on_cpu
      <3>2. i'[c] = i[c] + 1 /\ (i[c] = c \/ aff_info_state[i[c]] = "OFF")
        BY <2>3 DEF psci_is_last_on_cpu, Return, Goto
      <3>3. d < i[c] \/ d = i[c]
        BY <3>1, <3>2, SizeAssumption DEF CPUs
      <3>. QED
        BY <3>1, <3>2, <3>3 DEF ScanInv
    <2>. QED
      BY <2>1, <2>2, <2>3, ComesToScan
  <1>2. ASSUME aff_info_state'[d] # aff_info_state[d]
        PROVE  aff_info_state'[d] = "OFF"
    <2>a. CPUs \subseteq {0, 1}
      BY SizeAssumption DEF CPUs
    <2>1. PICK k \in CPUs : OnSetPending(k) \/ OnPlat(k) \/ SetAffOff(k)
                            \/ psci_set_pwr_domains_to_run(k)
      BY <1>2, ChangesAffinity
    <2>2. CASE OnSetPending(k)
      <3>1. k # c
        BY <2>2 DEF OnSetPending, Goto
      <3>2. k = d
        BY <2>a, <3>1
      <3>3. Running(d)
        BY <2>2, <3>2 DEF OnSetPending, Running
      <3>. QED
        BY <1>1, <3>3 DEF AffInv
    <2>3. CASE OnPlat(k)
      BY <1>2, <2>3 DEF OnPlat, ControlInv, OnCritical, cpuVars
    <2>4. CASE SetAffOff(k)
      BY <1>2, <2>4 DEF SetAffOff
    <2>5. CASE psci_set_pwr_domains_to_run(k)
      <3>1. k = d
        BY <1>2, <2>5 DEF psci_set_pwr_domains_to_run
      <3>. QED
        BY <1>1, <2>5, <3>1 DEF psci_set_pwr_domains_to_run, AffInv, BootCritical
    <2>. QED
      BY <2>1, <2>2, <2>3, <2>4, <2>5
  <1>. QED
    BY <1>1, <1>2

(* On two CPUs, as MT7981 has, SYSTEM_SUSPEND is carried out only when the other *)
(* CPU is OFF, although psci_is_last_on_cpu() takes no lock: a CPU that was read *)
(* as OFF can be turned on only by the CPU that reads. A third CPU could do it.  *)
THEOREM SuspendIsLast == NCpus <= 2 => (Spec => []SystemSuspendIsLast)
  <1> SUFFICES ASSUME NCpus <= 2 PROVE Spec => []SystemSuspendIsLast
    OBVIOUS
  <1>1. Init => ScanInv
    BY DEF Init, ScanInv
  <1>2. IInv /\ ScanInv /\ [Next]_vars => ScanInv'
    BY ScanStep
  <1>3. ScanInv => SystemSuspendIsLast
    BY SizeAssumption DEF ScanInv, SystemSuspendIsLast, CPUs
  <1>. QED
    BY <1>1, <1>2, <1>3, Invariance, PTL DEF Spec
=============================================================================
