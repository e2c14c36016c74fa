----------------------------- MODULE PsciTypes ------------------------------
(***************************************************************************)
(* Type correctness of module Psci, for every number of CPUs, every tree   *)
(* of power domains and every set of entry points, and the lemmas about    *)
(* the operators it is built from.                                         *)
(***************************************************************************)
EXTENDS Psci, TLAPS

(* plat_get_target_pwr_state() returns RUN if one of the requests is RUN,   *)
(* and OFF if all of them are OFF.                                          *)
LEMMA TargetState ==
    ASSUME NEW S \in SUBSET {RUN, OFF}, S # {}
    PROVE  plat_get_target_pwr_state(S) = IF RUN \in S THEN RUN ELSE OFF
  <1>1. CASE RUN \in S
    <2>1. \A t \in S : RUN <= t
      BY DEF RUN, OFF
    <2>2. \A s \in S : (\A t \in S : s <= t) => s = RUN
      BY <1>1 DEF RUN, OFF
    <2>. QED
      BY <1>1, <2>1, <2>2 DEF plat_get_target_pwr_state
  <1>2. CASE RUN \notin S
    <2>1. S = {OFF}
      BY <1>2
    <2>. QED
      BY <2>1, <1>2 DEF plat_get_target_pwr_state, OFF, RUN
  <1>. QED
    BY <1>1, <1>2

(* It returns one of the states it is given.                                *)
LEMMA TargetStateType ==
    ASSUME NEW S \in SUBSET LocalStates, S # {}
    PROVE  plat_get_target_pwr_state(S) \in LocalStates
  <1>1. \E s \in S : \A t \in S : s <= t
    <2>1. CASE RUN \in S
      BY <2>1 DEF LocalStates, RUN, RET, OFF
    <2>2. CASE RUN \notin S /\ RET \in S
      BY <2>2 DEF LocalStates, RUN, RET, OFF
    <2>3. CASE RUN \notin S /\ RET \notin S
      <3>1. \A t \in S : t = OFF
        BY <2>3 DEF LocalStates
      <3>. QED
        BY <3>1 DEF OFF
    <2>. QED
      BY <2>1, <2>2, <2>3
  <1>2. plat_get_target_pwr_state(S) \in S
    BY <1>1 DEF plat_get_target_pwr_state
  <1>. QED
    BY <1>2

-----------------------------------------------------------------------------
(* Type correctness *)

LEMMA Records ==
    /\ AllRun \in [0 .. MaxLvl -> LocalStates]
    /\ \A k \in 0 .. MaxLvl : OffUpTo(k) \in [0 .. MaxLvl -> LocalStates]
  BY DEF AllRun, OffUpTo, LocalStates

LEMMA InitType == Init => TypeOK
  BY Records, SizeAssumption, BootAssumption
     DEF Init, TypeOK, CallTypeOK, StateTypeOK, Pcs, Ops, AffStates,
         LocalStates, CPUs, Levels, RUN, OFF

(* The three ways in which a step changes the locals of a call *)
LEMMA GotoType ==
    ASSUME CallTypeOK, NEW c \in CPUs, NEW l \in Pcs, Goto(c, l),
           UNCHANGED <<op, i, end_pwrlvl, state_info, target, arg>>
    PROVE  CallTypeOK'
  BY DEF CallTypeOK, Goto

LEMMA ReturnType ==
    ASSUME CallTypeOK, NEW c \in CPUs, Return(c)
    PROVE  CallTypeOK'
  <1>1. pc' \in [CPUs -> Pcs] /\ op' \in [CPUs -> Ops] /\ i' \in [CPUs -> Nat]
    BY DEF CallTypeOK, Return, Goto, Pcs, Ops
  <1>2. end_pwrlvl' \in [CPUs -> 0 .. MaxLvl]
    BY SizeAssumption DEF CallTypeOK, Return
  <1>3. state_info' \in [CPUs -> [0 .. MaxLvl -> LocalStates]]
    BY Records DEF CallTypeOK, Return
  <1>4. target' \in [CPUs -> CPUs \cup {None}]
    BY DEF CallTypeOK, Return
  <1>5. arg' \in [CPUs -> Entries \cup {NoEntry}]
    BY DEF CallTypeOK, Return
  <1>. QED
    BY <1>1, <1>2, <1>3, <1>4, <1>5 DEF CallTypeOK

LEMMA StartType ==
    ASSUME CallTypeOK, NEW c \in CPUs, NEW o \in Ops, NEW k \in 0 .. MaxLvl,
           NEW info \in [0 .. MaxLvl -> LocalStates],
           StartDomainOp(c, o, k, info)
    PROVE  CallTypeOK'
  <1>1. pc' \in [CPUs -> Pcs] /\ op' \in [CPUs -> Ops] /\ i' \in [CPUs -> Nat]
    BY DEF CallTypeOK, StartDomainOp, Goto, Pcs
  <1>2. end_pwrlvl' \in [CPUs -> 0 .. MaxLvl]
    BY DEF CallTypeOK, StartDomainOp
  <1>3. state_info' \in [CPUs -> [0 .. MaxLvl -> LocalStates]]
    BY DEF CallTypeOK, StartDomainOp
  <1>. QED
    BY <1>1, <1>2, <1>3 DEF CallTypeOK, StartDomainOp

LEMMA TypeStep == TypeOK /\ ControlInv /\ [Next]_vars => TypeOK'
  <1> SUFFICES ASSUME TypeOK, ControlInv, [Next]_vars PROVE TypeOK'
    OBVIOUS
  <1> USE DEF TypeOK, cpuVars, domVars, hwVars
  <1>1. ASSUME NEW c \in CPUs, NEW t \in CPUs, NEW e \in Entries \cup BadEntries,
               psci_cpu_on(c, t, e)
        PROVE  TypeOK'
    <2>1. StateTypeOK'
      BY <1>1 DEF psci_cpu_on, StateTypeOK, psci_get_ns_ep_info
    <2>2. CallTypeOK'
      <3>1. pc' \in [CPUs -> Pcs]
        BY <1>1 DEF psci_cpu_on, CallTypeOK, callVars, Goto, Pcs
      <3>2. target' \in [CPUs -> CPUs \cup {None}]
        BY <1>1 DEF psci_cpu_on, CallTypeOK, callVars
      <3>3. arg' \in [CPUs -> Entries \cup {NoEntry}]
        BY <1>1 DEF psci_cpu_on, CallTypeOK, callVars
      <3>. QED
        BY <1>1, <3>1, <3>2, <3>3 DEF psci_cpu_on, CallTypeOK, callVars
    <2>. QED
      BY <2>1, <2>2
  <1>2. ASSUME NEW c \in CPUs, OnLock(c) PROVE TypeOK'
    BY <1>2, GotoType DEF OnLock, StateTypeOK, CallTypeOK, Pcs
  <1>3. ASSUME NEW c \in CPUs, cpu_on_validate_state(c) PROVE TypeOK'
    BY <1>3, GotoType DEF cpu_on_validate_state, StateTypeOK, Pcs
  <1>4. ASSUME NEW c \in CPUs, OnSetPending(c) PROVE TypeOK'
    <2>1. CallTypeOK'
      BY <1>4, GotoType DEF OnSetPending, Pcs
    <2>. QED
      BY <1>4, <2>1 DEF OnSetPending, StateTypeOK, CallTypeOK, AffStates
  <1>5. ASSUME NEW c \in CPUs, OnPlat(c) PROVE TypeOK'
    <2>1. CallTypeOK'
      BY <1>5, GotoType DEF OnPlat, Pcs
    <2>. QED
      BY <1>5, <2>1 DEF OnPlat, StateTypeOK, AffStates, spmc_cpu_corex_onoff
  <1>6. ASSUME NEW c \in CPUs, OnUnlock(c) PROVE TypeOK'
    <2>1. CallTypeOK'
      BY <1>6, ReturnType DEF OnUnlock
    <2>. QED
      BY <1>6, <2>1 DEF OnUnlock, StateTypeOK
  <1>7. ASSUME NEW c \in CPUs, psci_cpu_off(c) PROVE TypeOK'
    <2>1. CallTypeOK'
      BY <1>7, StartType, Records, SizeAssumption DEF psci_cpu_off, Ops
    <2>. QED
      BY <1>7, <2>1 DEF psci_cpu_off, StateTypeOK
  <1>8. ASSUME NEW c \in CPUs, NEW k \in 0 .. MaxLvl,
               NEW e \in Entries \cup BadEntries, SuspendTo(c, k, e)
        PROVE  TypeOK'
    <2>1. CallTypeOK'
      <3>1. CASE Return(c)
        BY <3>1, ReturnType
      <3>2. CASE StartDomainOp(c, "suspend", k, OffUpTo(k))
        BY <3>2, StartType, Records DEF Ops
      <3>. QED
        BY <1>8, <3>1, <3>2 DEF SuspendTo
    <2>. QED
      BY <1>8, <2>1 DEF SuspendTo, StateTypeOK, psci_get_ns_ep_info
  <1>9. ASSUME NEW c \in CPUs, Standby(c) \/ StandbyExit(c) PROVE TypeOK'
    <2>1. CallTypeOK'
      BY <1>9, GotoType DEF Standby, StandbyExit, Pcs
    <2>. QED
      BY <1>9, <2>1 DEF Standby, StandbyExit, StateTypeOK, LocalStates, RUN, RET
  <1>10. ASSUME NEW c \in CPUs, psci_system_suspend(c) PROVE TypeOK'
    BY <1>10 DEF psci_system_suspend, CallTypeOK, StateTypeOK, Pcs, Goto
  <1>11. ASSUME NEW c \in CPUs, psci_is_last_on_cpu(c) PROVE TypeOK'
    <2>1. StateTypeOK'
      BY <1>11 DEF psci_is_last_on_cpu, StateTypeOK
    <2>2. CallTypeOK'
      <3>1. CASE Return(c)
        BY <3>1, ReturnType
      <3>2. CASE i' = [i EXCEPT ![c] = @ + 1]
                 /\ UNCHANGED <<pc, op, end_pwrlvl, state_info, target, arg>>
        BY <3>2 DEF CallTypeOK
      <3>. QED
        BY <1>11, <3>1, <3>2 DEF psci_is_last_on_cpu
    <2>. QED
      BY <2>1, <2>2
  <1>12. ASSUME NEW c \in CPUs, psci_acquire_pwr_domain_locks(c) PROVE TypeOK'
    <2>1. NodeAt(c, i[c]) \in Nodes
      <3>1. i[c] \in Levels
        BY <1>12, SizeAssumption
           DEF psci_acquire_pwr_domain_locks, ControlInv, CallTypeOK, Levels
      <3>. QED
        BY <3>1, TreeAssumption DEF NodeAt
    <2>2. StateTypeOK'
      BY <1>12, <2>1 DEF psci_acquire_pwr_domain_locks, StateTypeOK
    <2>3. CallTypeOK'
      BY <1>12 DEF psci_acquire_pwr_domain_locks, CallTypeOK
    <2>. QED
      BY <2>2, <2>3
  <1>13. ASSUME NEW c \in CPUs, Acquired(c) PROVE TypeOK'
    <2>1. op[c] \in {"off", "suspend", "warmboot"}
      BY <1>13 DEF Acquired, ControlInv
    <2>2. pc' \in [CPUs -> Pcs]
      <3>1. PICK l \in Pcs : pc' = [pc EXCEPT ![c] = l]
        BY <1>13, <2>1 DEF Acquired, Goto, Pcs
      <3>. QED
        BY <3>1 DEF CallTypeOK
    <2>3. CallTypeOK'
      BY <1>13, <2>2 DEF Acquired, CallTypeOK
    <2>. QED
      BY <1>13, <2>3 DEF Acquired, StateTypeOK
  <1>14. ASSUME NEW c \in CPUs, SuspendCheckIsr(c) PROVE TypeOK'
    <2>1. pc' \in [CPUs -> Pcs]
      BY <1>14 DEF SuspendCheckIsr, CallTypeOK, Goto, Pcs
    <2>2. op' \in [CPUs -> Ops]
      BY <1>14 DEF SuspendCheckIsr, CallTypeOK, Ops
    <2>3. i' \in [CPUs -> Nat]
      <3>1. end_pwrlvl[c] \in Nat
        BY SizeAssumption DEF CallTypeOK
      <3>. QED
        BY <1>14, <3>1 DEF SuspendCheckIsr, CallTypeOK
    <2>. QED
      BY <1>14, <2>1, <2>2, <2>3 DEF SuspendCheckIsr, CallTypeOK, StateTypeOK
  <1>15. ASSUME NEW c \in CPUs, psci_do_state_coordination(c) PROVE TypeOK'
    <2>1. i[c] \in Levels /\ i[c] \in 0 .. MaxLvl /\ c \in Siblings(c, i[c])
      BY <1>15, SizeAssumption
         DEF psci_do_state_coordination, ControlInv, CallTypeOK, Levels, Siblings
    <2>2. req' \in [Levels -> [CPUs -> LocalStates]]
      <3>1. state_info[c][i[c]] \in LocalStates
        BY <2>1 DEF CallTypeOK
      <3>. QED
        BY <1>15, <2>1, <3>1 DEF psci_do_state_coordination, StateTypeOK
    <2>3. plat_get_target_pwr_state({req'[i[c]][d] : d \in Siblings(c, i[c])})
             \in LocalStates
      <3> DEFINE S == {req'[i[c]][d] : d \in Siblings(c, i[c])}
      <3>1. S \in SUBSET LocalStates /\ S # {}
        BY <2>1, <2>2 DEF Siblings
      <3>2. plat_get_target_pwr_state(S) \in LocalStates
        <4> HIDE DEF S
        <4>. QED
          BY <3>1, TargetStateType
      <3>. QED
        BY <3>2
    <2>4. state_info' \in [CPUs -> [0 .. MaxLvl -> LocalStates]]
      <3> DEFINE v == IF state_info[c][i[c] - 1] = RUN THEN RUN
                      ELSE plat_get_target_pwr_state(
                              {req'[i[c]][d] : d \in Siblings(c, i[c])})
      <3>1. v \in LocalStates
        BY <2>3 DEF LocalStates, RUN
      <3>2. state_info' = [state_info EXCEPT ![c][i[c]] = v]
        BY <1>15 DEF psci_do_state_coordination
      <3> HIDE DEF v
      <3>. QED
        BY <2>1, <3>1, <3>2 DEF CallTypeOK
    <2>5. CallTypeOK'
      BY <1>15, <2>4 DEF psci_do_state_coordination, CallTypeOK
    <2>. QED
      BY <1>15, <2>2, <2>5 DEF psci_do_state_coordination, StateTypeOK
  <1>16. ASSUME NEW c \in CPUs, Coordinated(c) PROVE TypeOK'
    BY <1>16, GotoType DEF Coordinated, StateTypeOK, Pcs
  <1>17. ASSUME NEW c \in CPUs, psci_set_target_local_pwr_states(c)
         PROVE  TypeOK'
    <2>1. CallTypeOK'
      BY <1>17, GotoType DEF psci_set_target_local_pwr_states, Pcs
    <2>2. local_state' \in [CPUs -> LocalStates]
      BY <1>17, SizeAssumption
         DEF psci_set_target_local_pwr_states, StateTypeOK, CallTypeOK
    <2>3. node_state' \in [Nodes -> LocalStates]
      <3>1. ASSUME NEW n \in Nodes, OnPath(c, n, end_pwrlvl[c]) # {}
            PROVE  state_info[c][CHOOSE l \in OnPath(c, n, end_pwrlvl[c]) : TRUE]
                      \in LocalStates
        <4>1. OnPath(c, n, end_pwrlvl[c]) \subseteq 0 .. MaxLvl
          BY SizeAssumption DEF OnPath, CallTypeOK
        <4>2. (CHOOSE l \in OnPath(c, n, end_pwrlvl[c]) : TRUE)
                 \in OnPath(c, n, end_pwrlvl[c])
          BY <3>1
        <4>. QED
          BY <4>1, <4>2 DEF CallTypeOK
      <3>. QED
        BY <1>17, <3>1 DEF psci_set_target_local_pwr_states, StateTypeOK
    <2>4. target_pwrlvl' \in [CPUs -> 0 .. MaxLvl]
      BY <1>17 DEF psci_set_target_local_pwr_states, StateTypeOK, CallTypeOK,
                   psci_suspend_to_pwrdown_start
    <2>. QED
      BY <1>17, <2>1, <2>2, <2>3, <2>4
         DEF psci_set_target_local_pwr_states, StateTypeOK
  <1>18. ASSUME NEW c \in CPUs, PlatPowerDown(c) PROVE TypeOK'
    <2>1. CallTypeOK'
      BY <1>18 DEF PlatPowerDown, CallTypeOK, Goto, Pcs
    <2>. QED
      BY <1>18, <2>1 DEF PlatPowerDown, StateTypeOK, spmc_cpu_corex_onoff
  <1>19. ASSUME NEW c \in CPUs, psci_release_pwr_domain_locks(c) PROVE TypeOK'
    <2>1. NodeAt(c, i[c]) \in Nodes
      <3>1. i[c] \in Levels
        BY <1>19, SizeAssumption
           DEF psci_release_pwr_domain_locks, ControlInv, CallTypeOK, Levels
      <3>. QED
        BY <3>1, TreeAssumption DEF NodeAt
    <2>2. StateTypeOK'
      BY <1>19, <2>1 DEF psci_release_pwr_domain_locks, StateTypeOK
    <2>3. CallTypeOK'
      BY <1>19 DEF psci_release_pwr_domain_locks, CallTypeOK
    <2>. QED
      BY <2>2, <2>3
  <1>20. ASSUME NEW c \in CPUs, Released(c) PROVE TypeOK'
    <2>1. CallTypeOK'
      <3>1. CASE Return(c)
        BY <3>1, ReturnType
      <3>2. CASE \E l \in {"set_off", "sus_wfi"} :
                    Goto(c, l)
                    /\ UNCHANGED <<op, i, end_pwrlvl, state_info, target, arg>>
        BY <3>2, GotoType DEF Pcs
      <3>. QED
        BY <1>20, <3>1, <3>2 DEF Released
    <2>. QED
      BY <1>20, <2>1 DEF Released, StateTypeOK
  <1>21. ASSUME NEW c \in CPUs, SetAffOff(c) PROVE TypeOK'
    <2>1. CallTypeOK'
      BY <1>21, GotoType DEF SetAffOff, Pcs
    <2>. QED
      BY <1>21, <2>1 DEF SetAffOff, StateTypeOK, AffStates
  <1>22. ASSUME NEW c \in CPUs, PowerDownWfi(c) \/ PowerUp(c) PROVE TypeOK'
    <2>1. CallTypeOK'
      BY <1>22, GotoType DEF PowerDownWfi, PowerUp, Pcs
    <2>. QED
      BY <1>22, <2>1 DEF PowerDownWfi, PowerUp, StateTypeOK
  <1>23. ASSUME NEW c \in CPUs, psci_warmboot_entrypoint(c) PROVE TypeOK'
    <2>1. StateTypeOK'
      BY <1>23 DEF psci_warmboot_entrypoint, StateTypeOK
    <2>2. CallTypeOK'
      <3>1. CASE Goto(c, "panic")
                 /\ UNCHANGED <<op, i, end_pwrlvl, state_info, target, arg>>
        BY <3>1, GotoType DEF Pcs
      <3>2. CASE StartDomainOp(c, "warmboot", target_pwrlvl[c], AllRun)
        <4>1. target_pwrlvl[c] \in 0 .. MaxLvl /\ "warmboot" \in Ops
          BY DEF StateTypeOK, Ops
        <4>. QED
          BY <3>2, <4>1, StartType, Records
      <3>. QED
        BY <1>23, <3>1, <3>2 DEF psci_warmboot_entrypoint
    <2>. QED
      BY <2>1, <2>2
  <1>24. ASSUME NEW c \in CPUs, WarmbootFinish(c) PROVE TypeOK'
    <2>1. psci_get_target_local_pwr_states(c) \in [0 .. MaxLvl -> LocalStates]
      <3>1. ASSUME NEW l \in 0 .. MaxLvl, l # 0
            PROVE  node_state[NodeAt(c, l)] \in LocalStates
        BY <3>1, TreeAssumption, SizeAssumption DEF NodeAt, StateTypeOK, Levels
      <3>. QED
        BY <3>1 DEF psci_get_target_local_pwr_states, StateTypeOK, LocalStates,
                    RUN
    <2>2. CallTypeOK'
      <3>1. state_info' \in [CPUs -> [0 .. MaxLvl -> LocalStates]]
        BY <1>24, <2>1 DEF WarmbootFinish, CallTypeOK
      <3>2. pc' \in [CPUs -> Pcs]
        BY <1>24 DEF WarmbootFinish, CallTypeOK, Goto, Pcs
      <3>. QED
        BY <1>24, <3>1, <3>2 DEF WarmbootFinish, CallTypeOK
    <2>3. target_pwrlvl' \in [CPUs -> 0 .. MaxLvl]
      BY <1>24, SizeAssumption DEF WarmbootFinish, StateTypeOK
    <2>. QED
      BY <1>24, <2>2, <2>3 DEF WarmbootFinish, StateTypeOK
  <1>25. ASSUME NEW c \in CPUs, psci_cpu_on_finish(c) PROVE TypeOK'
    BY <1>25, GotoType DEF psci_cpu_on_finish, StateTypeOK, Pcs
  <1>26. ASSUME NEW c \in CPUs, WarmbootContext(c) PROVE TypeOK'
    <2>1. CallTypeOK'
      BY <1>26, GotoType DEF WarmbootContext, Pcs
    <2>. QED
      BY <1>26, <2>1 DEF WarmbootContext, StateTypeOK
  <1>27. ASSUME NEW c \in CPUs, psci_set_pwr_domains_to_run(c) PROVE TypeOK'
    <2>1. CallTypeOK'
      BY <1>27 DEF psci_set_pwr_domains_to_run, CallTypeOK, Goto, Pcs
    <2>2. node_state' \in [Nodes -> LocalStates]
      BY <1>27 DEF psci_set_pwr_domains_to_run, StateTypeOK, LocalStates, RUN
    <2>3. req' \in [Levels -> [CPUs -> LocalStates]]
      BY <1>27 DEF psci_set_pwr_domains_to_run, StateTypeOK, LocalStates, RUN
    <2>. QED
      BY <1>27, <2>1, <2>2, <2>3
         DEF psci_set_pwr_domains_to_run, StateTypeOK, LocalStates, AffStates,
             RUN
  <1>28. CASE UNCHANGED vars
    <2>1. CallTypeOK'
      BY <1>28 DEF vars, CallTypeOK
    <2>2. StateTypeOK'
      BY <1>28 DEF vars, StateTypeOK
    <2>. QED
      BY <2>1, <2>2
  <1>29. ASSUME NEW c \in CPUs, Call(c) PROVE TypeOK'
    BY <1>29, <1>1, <1>7, <1>8, <1>9, <1>10 DEF Call, psci_cpu_suspend
  <1>30. ASSUME NEW c \in CPUs, Handle(c) PROVE TypeOK'
    BY <1>30, <1>2, <1>3, <1>4, <1>5, <1>6, <1>8, <1>11, <1>12, <1>13, <1>14,
       <1>15, <1>16, <1>17, <1>18, <1>19, <1>20, <1>21, <1>23, <1>24, <1>25,
       <1>26, <1>27, SizeAssumption DEF Handle, SystemSuspendStart
  <1>31. ASSUME NEW c \in CPUs, Hardware(c) PROVE TypeOK'
    BY <1>31, <1>9, <1>22 DEF Hardware
  <1>. QED
    BY <1>28, <1>29, <1>30, <1>31 DEF Next, Halted
=============================================================================
