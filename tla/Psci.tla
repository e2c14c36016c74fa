-------------------------------- MODULE Psci --------------------------------
(***************************************************************************)
(* The PSCI core of BL31 (lib/psci) with the MT7981 platform hooks: power  *)
(* domain locks, state coordination, CPU_ON, CPU_OFF, CPU_SUSPEND,         *)
(* SYSTEM_SUSPEND and the warm boot path.  A CPU executes one handler at a *)
(* time; pc says where in it the CPU is, and every read or write of state  *)
(* that another CPU can see is a step of its own.  Caches are left out     *)
(* here: module AffInfoState treats the two accesses that depend on them.   *)
(***************************************************************************)
EXTENDS Naturals

CONSTANTS
    NCpus,        \* psci_plat_core_count
    MaxLvl,       \* PLAT_MAX_PWR_LVL
    Nodes,        \* the non-CPU power domain nodes
    Ancestor,     \* Ancestor[c][l]: the node above CPU c at level l
    BootCpu,      \* the CPU that runs psci_setup()
    Entries,      \* entry points psci_get_ns_ep_info() accepts
    BadEntries,   \* entry points it rejects (bit 0 set)
    PwrOnResults, \* what the platform's pwr_domain_on may answer
    NoEntry,      \* the contents of a warmboot_ep_info never written
    None          \* no CPU

CPUs == 0 .. NCpus - 1
Levels == 1 .. MaxLvl

ASSUME SizeAssumption == NCpus \in Nat \ {0} /\ MaxLvl \in Nat \ {0}
ASSUME BootAssumption == BootCpu \in CPUs /\ None \notin CPUs
ASSUME EntryAssumption == Entries # {} /\ Entries \cap BadEntries = {}
ASSUME PwrOnAssumption == PwrOnResults \subseteq {"SUCCESS", "INTERN_FAIL"}

(* The power domains form a tree: a node belongs to one level, and CPUs    *)
(* that share an ancestor share every ancestor above it.                   *)
ASSUME TreeAssumption ==
    /\ Ancestor \in [CPUs -> [Levels -> Nodes]]
    /\ \A c, d \in CPUs, k, l \in Levels :
          Ancestor[c][k] = Ancestor[d][l] => k = l
    /\ \A c, d \in CPUs, k, l \in Levels :
          k <= l /\ Ancestor[c][k] = Ancestor[d][k]
             => Ancestor[c][l] = Ancestor[d][l]

(* plat_local_state_t: MTK_LOCAL_STATE_RUN, _RET and _OFF, in order of depth *)
RUN == 0
RET == 1
OFF == 2
LocalStates == {RUN, RET, OFF}
AffStates == {"ON", "OFF", "ON_PENDING"}

VARIABLES
    pc,              \* pc[c]: the next step of CPU c
    op,              \* op[c]: the handler that uses the power domain locks
    i,               \* i[c]: loop index over levels or CPUs
    end_pwrlvl,      \* end_pwrlvl[c]: highest level of the operation
    state_info,      \* state_info[c][l]: psci_power_state_t of the operation
    target,          \* target[c]: the CPU that c is turning on
    arg,             \* arg[c]: the entrypoint argument of the call
    aff_info_state,  \* psci_svc_cpu_data.aff_info_state
    local_state,     \* psci_svc_cpu_data.local_state
    target_pwrlvl,   \* psci_svc_cpu_data.target_pwrlvl
    ep,              \* warmboot_ep_info[c].pc
    req,             \* req[l][c]: psci_req_local_pwr_states[l - 1][c]
    node_state,      \* psci_non_cpu_pd_nodes[n].local_state
    lock,            \* psci_lock_get/release of node n: its holder
    cpu_lock,        \* psci_cpu_pd_nodes[c].cpu_lock: its holder
    pwr_on,          \* the PWR_ON bit of CPU c in the power controller
    context,         \* where the non-secure context of CPU c starts
    promised         \* history: the entry point CPU c is due to start at

callVars == <<pc, op, i, end_pwrlvl, state_info, target, arg>>
cpuVars == <<aff_info_state, local_state, target_pwrlvl, ep>>
domVars == <<req, node_state>>
hwVars == <<pwr_on, context, promised>>
vars == <<pc, op, i, end_pwrlvl, state_info, target, arg, aff_info_state,
          local_state, target_pwrlvl, ep, req, node_state, lock, cpu_lock,
          pwr_on, context, promised>>

Pcs == {"ns", "standby", "scan",
        "on_lock", "on_check", "on_set", "on_plat", "on_unlock",
        "acquire", "isr", "coord", "set_target", "plat", "release",
        "set_off", "off_wfi", "down", "sus_wfi", "suspended",
        "warmboot", "wb_finish", "on_sync", "wb_context", "to_run", "panic"}
Ops == {"none", "off", "suspend", "abort", "warmboot"}

AllRun == [l \in 0 .. MaxLvl |-> RUN]
\* psci_set_power_off_state(), plat_validate_power_state() for power down at
\* level k, and plat_get_sys_suspend_power_state() for k = MaxLvl.
OffUpTo(k) == [l \in 0 .. MaxLvl |-> IF l <= k THEN OFF ELSE RUN]

\* The CPUs below the level-l ancestor of c: cpu_start_idx and ncpus of the node.
Siblings(c, l) == {d \in CPUs : Ancestor[d][l] = Ancestor[c][l]}

\* Mutant: the deepest of the requested states.
DeepestTargetState(S) == CHOOSE s \in S : \A t \in S : s >= t

\* plat_get_target_pwr_state(): the shallowest of the requested states.
plat_get_target_pwr_state(S) == CHOOSE s \in S : \A t \in S : s <= t

(* psci_setup(): every CPU and domain starts OFF, then the boot CPU runs    *)
(* psci_set_pwr_domains_to_run() up to the highest level.                   *)
Init ==
    /\ pc = [c \in CPUs |-> IF c = BootCpu THEN "ns" ELSE "down"]
    /\ op = [c \in CPUs |-> "none"]
    /\ i = [c \in CPUs |-> 0]
    /\ end_pwrlvl = [c \in CPUs |-> MaxLvl]
    /\ state_info = [c \in CPUs |-> AllRun]
    /\ target = [c \in CPUs |-> None]
    /\ arg = [c \in CPUs |-> NoEntry]
    /\ aff_info_state = [c \in CPUs |-> IF c = BootCpu THEN "ON" ELSE "OFF"]
    /\ local_state = [c \in CPUs |-> IF c = BootCpu THEN RUN ELSE OFF]
    /\ target_pwrlvl = [c \in CPUs |-> MaxLvl]
    /\ ep = [c \in CPUs |-> NoEntry]
    /\ req = [l \in Levels |->
                [c \in CPUs |-> IF c = BootCpu THEN RUN ELSE OFF]]
    /\ node_state = [n \in Nodes |->
          IF \E l \in Levels : n = Ancestor[BootCpu][l] THEN RUN ELSE OFF]
    /\ lock = [n \in Nodes |-> None]
    /\ cpu_lock = [c \in CPUs |-> None]
    /\ pwr_on = [c \in CPUs |-> c = BootCpu]
    /\ context = [c \in CPUs |-> NoEntry]
    /\ promised = [c \in CPUs |-> NoEntry]

-----------------------------------------------------------------------------
(* Control helpers *)

Goto(c, l) == pc' = [pc EXCEPT ![c] = l]

\* The call returns to the normal world; its locals are gone.
Return(c) ==
    /\ Goto(c, "ns")
    /\ op' = [op EXCEPT ![c] = "none"]
    /\ i' = [i EXCEPT ![c] = 0]
    /\ end_pwrlvl' = [end_pwrlvl EXCEPT ![c] = MaxLvl]
    /\ state_info' = [state_info EXCEPT ![c] = AllRun]
    /\ target' = [target EXCEPT ![c] = None]
    /\ arg' = [arg EXCEPT ![c] = NoEntry]

\* Start an operation on the power domains up to level k: the handler fetches
\* the parent nodes and enters psci_acquire_pwr_domain_locks().
StartDomainOp(c, o, k, info) ==
    /\ Goto(c, "acquire")
    /\ op' = [op EXCEPT ![c] = o]
    /\ i' = [i EXCEPT ![c] = 1]
    /\ end_pwrlvl' = [end_pwrlvl EXCEPT ![c] = k]
    /\ state_info' = [state_info EXCEPT ![c] = info]
    /\ UNCHANGED <<target, arg>>
\* psci_validate_entry_point(): the entry point e is written into the
\* warmboot_ep_info of CPU t, even when it is then found to be odd.
psci_get_ns_ep_info(t, e) == ep' = [ep EXCEPT ![t] = e]

\* spmc_cpu_corex_onoff(): PWR_ON of CPU c is set or cleared.
spmc_cpu_corex_onoff(c, on) == pwr_on' = [pwr_on EXCEPT ![c] = on]

-----------------------------------------------------------------------------
(* CPU_ON *)

(* psci_cpu_on(): the entry point is validated INTO warmboot_ep_info of the *)
(* target, before any lock is taken and before the target's state is read;  *)
(* ep->pc is written even when the entry point is then rejected.            *)
psci_cpu_on(c, t, e) ==
    /\ pc[c] = "ns"
    /\ psci_get_ns_ep_info(t, e)
    /\ \/ /\ e \in BadEntries              \* PSCI_E_INVALID_ADDRESS
          /\ UNCHANGED callVars
       \/ /\ e \in Entries
          /\ Goto(c, "on_lock")
          /\ target' = [target EXCEPT ![c] = t]
          /\ arg' = [arg EXCEPT ![c] = e]
          /\ UNCHANGED <<op, i, end_pwrlvl, state_info>>
    /\ UNCHANGED <<aff_info_state, local_state, target_pwrlvl, domVars, lock,
                   cpu_lock, hwVars>>

\* Mutant: the lock is taken without waiting for it.
OnLockWithoutWaiting(c) ==
    /\ pc[c] = "on_lock"
    /\ cpu_lock' = [cpu_lock EXCEPT ![target[c]] = c]
    /\ Goto(c, "on_check")
    /\ UNCHANGED <<op, i, end_pwrlvl, state_info, target, arg, cpuVars,
                   domVars, lock, hwVars>>

\* psci_cpu_on_start(): psci_spin_lock_cpu(target_idx)
OnLock(c) ==
    /\ pc[c] = "on_lock"
    /\ cpu_lock[target[c]] = None
    /\ cpu_lock' = [cpu_lock EXCEPT ![target[c]] = c]
    /\ Goto(c, "on_check")
    /\ UNCHANGED <<op, i, end_pwrlvl, state_info, target, arg, cpuVars,
                   domVars, lock, hwVars>>

\* cpu_on_validate_state(): PSCI_E_ALREADY_ON and PSCI_E_ON_PENDING leave.
cpu_on_validate_state(c) ==
    /\ pc[c] = "on_check"
    /\ \/ aff_info_state[target[c]] = "OFF" /\ Goto(c, "on_set")
       \/ aff_info_state[target[c]] # "OFF" /\ Goto(c, "on_unlock")
    /\ UNCHANGED <<op, i, end_pwrlvl, state_info, target, arg, cpuVars,
                   domVars, lock, cpu_lock, hwVars>>

\* psci_set_aff_info_state_by_idx(target_idx, AFF_STATE_ON_PENDING)
OnSetPending(c) ==
    /\ pc[c] = "on_set"
    /\ aff_info_state' = [aff_info_state EXCEPT ![target[c]] = "ON_PENDING"]
    /\ promised' = [promised EXCEPT ![target[c]] = arg[c]]
    /\ Goto(c, "on_plat")
    /\ UNCHANGED <<op, i, end_pwrlvl, state_info, target, arg, local_state,
                   target_pwrlvl, ep, domVars, lock, cpu_lock, pwr_on, context>>

\* Mutant: the affinity state stays ON_PENDING when the platform fails.
OnPlatKeepsPending(c) ==
    /\ pc[c] = "on_plat"
    /\ Goto(c, "on_unlock")
    /\ \E rc \in PwrOnResults :
          spmc_cpu_corex_onoff(target[c], rc = "SUCCESS")
    /\ UNCHANGED <<op, i, end_pwrlvl, state_info, target, arg, cpuVars,
                   domVars, lock, cpu_lock, context, promised>>

(* pwr_domain_on(): on success the power controller is told to power the    *)
(* target up; on PSCI_E_INTERN_FAIL the affinity state is restored.         *)
OnPlat(c) ==
    /\ pc[c] = "on_plat"
    /\ Goto(c, "on_unlock")
    /\ \/ /\ "SUCCESS" \in PwrOnResults
          /\ spmc_cpu_corex_onoff(target[c], TRUE)
          /\ UNCHANGED aff_info_state
       \/ /\ "INTERN_FAIL" \in PwrOnResults
          /\ aff_info_state' = [aff_info_state EXCEPT ![target[c]] = "OFF"]
          /\ UNCHANGED pwr_on
    /\ UNCHANGED <<op, i, end_pwrlvl, state_info, target, arg, local_state,
                   target_pwrlvl, ep, domVars, lock, cpu_lock, context,
                   promised>>

\* on_exit: psci_spin_unlock_cpu(target_idx)
OnUnlock(c) ==
    /\ pc[c] = "on_unlock"
    /\ cpu_lock' = [cpu_lock EXCEPT ![target[c]] = None]
    /\ Return(c)
    /\ UNCHANGED <<cpuVars, domVars, lock, hwVars>>

-----------------------------------------------------------------------------
(* CPU_OFF, CPU_SUSPEND and SYSTEM_SUSPEND: the calls *)

\* psci_cpu_off(): power off as many levels as the other CPUs allow.
psci_cpu_off(c) ==
    /\ pc[c] = "ns"
    /\ StartDomainOp(c, "off", MaxLvl, OffUpTo(MaxLvl))
    /\ UNCHANGED <<cpuVars, domVars, lock, cpu_lock, hwVars>>

\* The entry point of a suspend call is validated into the caller's own
\* warmboot_ep_info, and the suspend up to level k is started if it is good.
SuspendTo(c, k, e) ==
    /\ psci_get_ns_ep_info(c, e)
    /\ \/ /\ e \in BadEntries              \* PSCI_E_INVALID_ADDRESS
          /\ Return(c)
          /\ UNCHANGED promised
       \/ /\ e \in Entries
          /\ StartDomainOp(c, "suspend", k, OffUpTo(k))
          /\ promised' = [promised EXCEPT ![c] = e]
    /\ UNCHANGED <<aff_info_state, local_state, target_pwrlvl, domVars, lock,
                   cpu_lock, pwr_on, context>>

\* psci_cpu_suspend() with a power down state at level k
psci_cpu_suspend(c, k, e) ==
    /\ pc[c] = "ns"
    /\ SuspendTo(c, k, e)

\* psci_cpu_suspend() with the standby state: the fast path, no locks
Standby(c) ==
    /\ pc[c] = "ns"
    /\ local_state' = [local_state EXCEPT ![c] = RET]
    /\ Goto(c, "standby")
    /\ UNCHANGED <<op, i, end_pwrlvl, state_info, target, arg, aff_info_state,
                   target_pwrlvl, ep, domVars, lock, cpu_lock, hwVars>>

StandbyExit(c) ==
    /\ pc[c] = "standby"
    /\ local_state' = [local_state EXCEPT ![c] = RUN]
    /\ Goto(c, "ns")
    /\ UNCHANGED <<op, i, end_pwrlvl, state_info, target, arg, aff_info_state,
                   target_pwrlvl, ep, domVars, lock, cpu_lock, hwVars>>

\* psci_system_suspend() enters psci_is_last_on_cpu().
psci_system_suspend(c) ==
    /\ pc[c] = "ns"
    /\ Goto(c, "scan")
    /\ i' = [i EXCEPT ![c] = 0]
    /\ UNCHANGED <<op, end_pwrlvl, state_info, target, arg, cpuVars, domVars,
                   lock, cpu_lock, hwVars>>

\* Mutant: a CPU that is about to start counts as off.
PendingCountsAsOff(c) ==
    /\ pc[c] = "scan"
    /\ i[c] \in CPUs
    /\ \/ /\ i[c] = c \/ aff_info_state[i[c]] # "ON"
          /\ i' = [i EXCEPT ![c] = @ + 1]
          /\ UNCHANGED <<pc, op, end_pwrlvl, state_info, target, arg>>
       \/ /\ i[c] # c /\ aff_info_state[i[c]] = "ON"
          /\ Return(c)
    /\ UNCHANGED <<cpuVars, domVars, lock, cpu_lock, hwVars>>

(* psci_is_last_on_cpu(): one CPU's affinity state is read per iteration,   *)
(* without any lock; a CPU that is not OFF ends the call (PSCI_E_DENIED).   *)
psci_is_last_on_cpu(c) ==
    /\ pc[c] = "scan"
    /\ i[c] \in CPUs
    /\ \/ /\ i[c] = c \/ aff_info_state[i[c]] = "OFF"
          /\ i' = [i EXCEPT ![c] = @ + 1]
          /\ UNCHANGED <<pc, op, end_pwrlvl, state_info, target, arg>>
       \/ /\ i[c] # c /\ aff_info_state[i[c]] # "OFF"
          /\ Return(c)
    /\ UNCHANGED <<cpuVars, domVars, lock, cpu_lock, hwVars>>

\* The caller is the last CPU: suspend the whole system.
SystemSuspendStart(c, e) ==
    /\ pc[c] = "scan"
    /\ i[c] = NCpus
    /\ SuspendTo(c, MaxLvl, e)
-----------------------------------------------------------------------------
(* The power domain operation *)

NodeAt(c, l) == Ancestor[c][l]

\* Mutant: the locks are taken without waiting for them.
AcquireWithoutWaiting(c) ==
    /\ pc[c] = "acquire"
    /\ i[c] <= end_pwrlvl[c]
    /\ lock' = [lock EXCEPT ![NodeAt(c, i[c])] = c]
    /\ i' = [i EXCEPT ![c] = @ + 1]
    /\ UNCHANGED <<pc, op, end_pwrlvl, state_info, target, arg, cpuVars,
                   domVars, cpu_lock, hwVars>>

\* psci_acquire_pwr_domain_locks(): bottom up, level 0 has no lock.
psci_acquire_pwr_domain_locks(c) ==
    /\ pc[c] = "acquire"
    /\ i[c] <= end_pwrlvl[c]
    /\ lock[NodeAt(c, i[c])] = None
    /\ lock' = [lock EXCEPT ![NodeAt(c, i[c])] = c]
    /\ i' = [i EXCEPT ![c] = @ + 1]
    /\ UNCHANGED <<pc, op, end_pwrlvl, state_info, target, arg, cpuVars,
                   domVars, cpu_lock, hwVars>>

\* All locks are held: each handler goes on with its own work.
Acquired(c) ==
    /\ pc[c] = "acquire"
    /\ i[c] > end_pwrlvl[c]
    /\ \/ op[c] = "off" /\ Goto(c, "coord")
       \/ op[c] = "suspend" /\ Goto(c, "isr")
       \/ op[c] = "warmboot" /\ Goto(c, "wb_finish")
    /\ i' = [i EXCEPT ![c] = 1]
    /\ UNCHANGED <<op, end_pwrlvl, state_info, target, arg, cpuVars, domVars,
                   lock, cpu_lock, hwVars>>

\* psci_cpu_suspend_start() reads ISR_EL1: a pending interrupt ends the call.
SuspendCheckIsr(c) ==
    /\ pc[c] = "isr"
    /\ \/ /\ Goto(c, "coord")
          /\ UNCHANGED <<op, i>>
       \/ /\ Goto(c, "release")
          /\ op' = [op EXCEPT ![c] = "abort"]
          /\ i' = [i EXCEPT ![c] = end_pwrlvl[c]]
    /\ UNCHANGED <<end_pwrlvl, state_info, target, arg, cpuVars, domVars,
                   lock, cpu_lock, hwVars>>

\* Mutant: after the break the requests of the levels above are not recorded.
BreakSkipsRequests(c) ==
    /\ pc[c] = "coord"
    /\ i[c] <= end_pwrlvl[c]
    /\ req' = IF state_info[c][i[c] - 1] = RUN THEN req
              ELSE [req EXCEPT ![i[c]][c] = state_info[c][i[c]]]
    /\ state_info' = [state_info EXCEPT ![c][i[c]] =
          IF state_info[c][i[c] - 1] = RUN
          THEN RUN
          ELSE plat_get_target_pwr_state(
                  {req'[i[c]][d] : d \in Siblings(c, i[c])})]
    /\ i' = [i EXCEPT ![c] = @ + 1]
    /\ UNCHANGED <<pc, op, end_pwrlvl, target, arg, cpuVars, node_state, lock,
                   cpu_lock, hwVars>>

(* psci_do_state_coordination(), one level: record the request, then let    *)
(* the platform coordinate.  Once a level came out as RUN (the break), the  *)
(* levels above it are RUN without asking; level 0 is never RUN here.       *)
psci_do_state_coordination(c) ==
    /\ pc[c] = "coord"
    /\ i[c] <= end_pwrlvl[c]
    /\ req' = [req EXCEPT ![i[c]][c] = state_info[c][i[c]]]
    /\ state_info' = [state_info EXCEPT ![c][i[c]] =
          IF state_info[c][i[c] - 1] = RUN
          THEN RUN
          ELSE plat_get_target_pwr_state(
                  {req'[i[c]][d] : d \in Siblings(c, i[c])})]
    /\ i' = [i EXCEPT ![c] = @ + 1]
    /\ UNCHANGED <<pc, op, end_pwrlvl, target, arg, cpuVars, node_state, lock,
                   cpu_lock, hwVars>>

Coordinated(c) ==
    /\ pc[c] = "coord"
    /\ i[c] > end_pwrlvl[c]
    /\ Goto(c, "set_target")
    /\ UNCHANGED <<op, i, end_pwrlvl, state_info, target, arg, cpuVars,
                   domVars, lock, cpu_lock, hwVars>>

\* The level of c's tree at which node n lies below level k, if any
OnPath(c, n, k) == {l \in 1 .. k : Ancestor[c][l] = n}

\* psci_suspend_to_pwrdown_start(): a suspend saves its level for the warm boot.
psci_suspend_to_pwrdown_start(c) ==
    target_pwrlvl' = IF op[c] = "suspend"
                     THEN [target_pwrlvl EXCEPT ![c] = end_pwrlvl[c]]
                     ELSE target_pwrlvl

\* Mutant: the CPU's own local state is not recorded.
TargetStatesWithoutCpu(c) ==
    /\ pc[c] = "set_target"
    /\ node_state' = [n \in Nodes |->
          IF OnPath(c, n, end_pwrlvl[c]) # {}
          THEN state_info[c][CHOOSE l \in OnPath(c, n, end_pwrlvl[c]) : TRUE]
          ELSE node_state[n]]
    /\ psci_suspend_to_pwrdown_start(c)
    /\ Goto(c, "plat")
    /\ UNCHANGED <<op, i, end_pwrlvl, state_info, target, arg, aff_info_state,
                   local_state, ep, req, lock, cpu_lock, hwVars>>

\* The coordinated states are written to the CPU and to its ancestors.
psci_set_target_local_pwr_states(c) ==
    /\ pc[c] = "set_target"
    /\ local_state' = [local_state EXCEPT ![c] = state_info[c][0]]
    /\ node_state' = [n \in Nodes |->
          IF OnPath(c, n, end_pwrlvl[c]) # {}
          THEN state_info[c][CHOOSE l \in OnPath(c, n, end_pwrlvl[c]) : TRUE]
          ELSE node_state[n]]
    /\ psci_suspend_to_pwrdown_start(c)
    /\ Goto(c, "plat")
    /\ UNCHANGED <<op, i, end_pwrlvl, state_info, target, arg, aff_info_state,
                   ep, req, lock, cpu_lock, hwVars>>

(* pwr_domain_off() clears PWR_ON, the power controller cuts the power at   *)
(* the next wfi; pwr_domain_suspend() only saves the generic timer.         *)
PlatPowerDown(c) ==
    /\ pc[c] = "plat"
    /\ \/ op[c] = "off" /\ spmc_cpu_corex_onoff(c, FALSE)
       \/ op[c] = "suspend" /\ UNCHANGED pwr_on
    /\ i' = [i EXCEPT ![c] = end_pwrlvl[c]]
    /\ Goto(c, "release")
    /\ UNCHANGED <<op, end_pwrlvl, state_info, target, arg, cpuVars, domVars,
                   lock, cpu_lock, context, promised>>

\* Mutant: the loop ends one level too early.
ReleaseKeepsLevelOne(c) ==
    /\ pc[c] = "release"
    /\ i[c] >= 1
    /\ lock' = [lock EXCEPT ![NodeAt(c, i[c])] = IF i[c] > 1 THEN None ELSE @]
    /\ i' = [i EXCEPT ![c] = @ - 1]
    /\ UNCHANGED <<pc, op, end_pwrlvl, state_info, target, arg, cpuVars,
                   domVars, cpu_lock, hwVars>>

\* psci_release_pwr_domain_locks(): top down
psci_release_pwr_domain_locks(c) ==
    /\ pc[c] = "release"
    /\ i[c] >= 1
    /\ lock' = [lock EXCEPT ![NodeAt(c, i[c])] = None]
    /\ i' = [i EXCEPT ![c] = @ - 1]
    /\ UNCHANGED <<pc, op, end_pwrlvl, state_info, target, arg, cpuVars,
                   domVars, cpu_lock, hwVars>>

\* All locks are released: CPU_OFF goes on to mark itself OFF, a suspend to its
\* wfi; an abandoned suspend and a warm boot enter the normal world.
Released(c) ==
    /\ pc[c] = "release"
    /\ i[c] = 0
    /\ \/ /\ op[c] = "off"
          /\ Goto(c, "set_off")
          /\ UNCHANGED <<op, i, end_pwrlvl, state_info, target, arg>>
       \/ /\ op[c] = "suspend"
          /\ Goto(c, "sus_wfi")
          /\ UNCHANGED <<op, i, end_pwrlvl, state_info, target, arg>>
       \/ /\ op[c] \in {"abort", "warmboot"}
          /\ Return(c)
    /\ UNCHANGED <<cpuVars, domVars, lock, cpu_lock, hwVars>>

\* The tail of psci_do_cpu_off(), with no lock held
SetAffOff(c) ==
    /\ pc[c] = "set_off"
    /\ aff_info_state' = [aff_info_state EXCEPT ![c] = "OFF"]
    /\ Goto(c, "off_wfi")
    /\ UNCHANGED <<op, i, end_pwrlvl, state_info, target, arg, local_state,
                   target_pwrlvl, ep, domVars, lock, cpu_lock, hwVars>>

-----------------------------------------------------------------------------
(* The power controller and the warm boot *)

(* psci_pwrdown_cpu_end_terminal() and psci_pwrdown_cpu_end_wakeup(): the   *)
(* wfi ends in the loss of power, or the CPU wakes up in it and panics.     *)
PowerDownWfi(c) ==
    /\ \/ pc[c] = "off_wfi" /\ Goto(c, "down")
       \/ pc[c] = "sus_wfi" /\ Goto(c, "suspended")
       \/ pc[c] \in {"off_wfi", "sus_wfi"} /\ Goto(c, "panic")
    /\ UNCHANGED <<op, i, end_pwrlvl, state_info, target, arg, cpuVars,
                   domVars, lock, cpu_lock, hwVars>>

\* A CPU that is off starts when PWR_ON is set, a suspended one on an interrupt.
PowerUp(c) ==
    /\ \/ pc[c] = "down" /\ pwr_on[c]
       \/ pc[c] = "suspended"
    /\ Goto(c, "warmboot")
    /\ UNCHANGED <<op, i, end_pwrlvl, state_info, target, arg, cpuVars,
                   domVars, lock, cpu_lock, hwVars>>

\* psci_warmboot_entrypoint(): panic when OFF, else lock up to target_pwrlvl.
psci_warmboot_entrypoint(c) ==
    /\ pc[c] = "warmboot"
    /\ \/ /\ aff_info_state[c] = "OFF"
          /\ Goto(c, "panic")
          /\ UNCHANGED <<op, i, end_pwrlvl, state_info, target, arg>>
       \/ /\ aff_info_state[c] # "OFF"
          /\ StartDomainOp(c, "warmboot", target_pwrlvl[c], AllRun)
    /\ UNCHANGED <<cpuVars, domVars, lock, cpu_lock, hwVars>>

\* The states from which the CPU and its ancestors wake up
psci_get_target_local_pwr_states(c) ==
    [l \in 0 .. MaxLvl |->
        IF l = 0 THEN local_state[c]
        ELSE IF l <= end_pwrlvl[c] THEN node_state[NodeAt(c, l)] ELSE RUN]

(* The finisher that fits the affinity state is called: psci_cpu_on_finish() *)
(* or, here to its end, psci_cpu_suspend_to_powerdown_finish().              *)
WarmbootFinish(c) ==
    /\ pc[c] = "wb_finish"
    /\ state_info' =
          [state_info EXCEPT ![c] = psci_get_target_local_pwr_states(c)]
    /\ \/ /\ aff_info_state[c] = "ON_PENDING"
          /\ Goto(c, "on_sync")
          /\ UNCHANGED target_pwrlvl
       \/ /\ aff_info_state[c] # "ON_PENDING"
          /\ target_pwrlvl' = [target_pwrlvl EXCEPT ![c] = MaxLvl]
          /\ Goto(c, "wb_context")
    /\ UNCHANGED <<op, i, end_pwrlvl, target, arg, aff_info_state, local_state,
                   ep, domVars, lock, cpu_lock, hwVars>>

\* The end of psci_cpu_on_finish(): the CPU's own spin lock is taken and
\* released, to wait for the caller of CPU_ON.
psci_cpu_on_finish(c) ==
    /\ pc[c] = "on_sync"
    /\ cpu_lock[c] = None
    /\ Goto(c, "wb_context")
    /\ UNCHANGED <<op, i, end_pwrlvl, state_info, target, arg, cpuVars,
                   domVars, lock, cpu_lock, hwVars>>

\* cm_init_my_context(ep)
WarmbootContext(c) ==
    /\ pc[c] = "wb_context"
    /\ context' = [context EXCEPT ![c] = ep[c]]
    /\ Goto(c, "to_run")
    /\ UNCHANGED <<op, i, end_pwrlvl, state_info, target, arg, cpuVars,
                   domVars, lock, cpu_lock, pwr_on, promised>>

psci_set_pwr_domains_to_run(c) ==
    /\ pc[c] = "to_run"
    /\ node_state' = [n \in Nodes |->
          IF OnPath(c, n, end_pwrlvl[c]) # {} THEN RUN ELSE node_state[n]]
    /\ req' = [l \in Levels |->
          IF l <= end_pwrlvl[c] THEN [req[l] EXCEPT ![c] = RUN] ELSE req[l]]
    /\ aff_info_state' = [aff_info_state EXCEPT ![c] = "ON"]
    /\ local_state' = [local_state EXCEPT ![c] = RUN]
    /\ i' = [i EXCEPT ![c] = end_pwrlvl[c]]
    /\ Goto(c, "release")
    /\ UNCHANGED <<op, end_pwrlvl, state_info, target, arg, target_pwrlvl, ep,
                   lock, cpu_lock, hwVars>>

\* Nobody is left who could turn a CPU on: the system stays as it is.
Halted ==
    /\ \A c \in CPUs : pc[c] \in {"down", "panic"} /\ (pc[c] = "down" => ~pwr_on[c])
    /\ UNCHANGED vars

-----------------------------------------------------------------------------
(* What the normal world may ask of the firmware *)
Call(c) ==
    \/ \E t \in CPUs, e \in Entries \cup BadEntries : psci_cpu_on(c, t, e)
    \/ psci_cpu_off(c)
    \/ \E k \in 0 .. MaxLvl, e \in Entries \cup BadEntries :
          psci_cpu_suspend(c, k, e)
    \/ Standby(c)
    \/ psci_system_suspend(c)

(* The firmware's own steps *)
Handle(c) ==
    \/ OnLock(c) \/ cpu_on_validate_state(c) \/ OnSetPending(c)
    \/ OnPlat(c) \/ OnUnlock(c)
    \/ psci_is_last_on_cpu(c)
    \/ \E e \in Entries \cup BadEntries : SystemSuspendStart(c, e)
    \/ psci_acquire_pwr_domain_locks(c) \/ Acquired(c) \/ SuspendCheckIsr(c)
    \/ psci_do_state_coordination(c) \/ Coordinated(c)
    \/ psci_set_target_local_pwr_states(c) \/ PlatPowerDown(c)
    \/ psci_release_pwr_domain_locks(c) \/ Released(c) \/ SetAffOff(c)
    \/ psci_warmboot_entrypoint(c) \/ WarmbootFinish(c)
    \/ psci_cpu_on_finish(c) \/ WarmbootContext(c)
    \/ psci_set_pwr_domains_to_run(c)

(* The hardware's steps *)
Hardware(c) == StandbyExit(c) \/ PowerDownWfi(c) \/ PowerUp(c)

Next == (\E c \in CPUs : Call(c) \/ Handle(c) \/ Hardware(c)) \/ Halted

Spec == Init /\ [][Next]_vars

(* Fairness.  Every CPU executes its handler, the power controller acts,    *)
(* and the wake-up interrupt of a sleeping CPU comes.  A CPU that waits for *)
(* a power domain lock gets it (strong fairness: what the bakery lock was   *)
(* shown to provide, ImplementsLockService in module Bakery), and so does   *)
(* one that waits for its own spin lock, which is assumed of the hardware.  *)
(* The normal world need not call anything.                                 *)
Fairness ==
    \A c \in CPUs :
        /\ WF_vars(Handle(c))
        /\ WF_vars(Hardware(c))
        /\ SF_vars(psci_acquire_pwr_domain_locks(c))
        /\ SF_vars(psci_cpu_on_finish(c))

FairSpec == Spec /\ Fairness

-----------------------------------------------------------------------------
(* Properties *)

CallTypeOK ==
    /\ pc \in [CPUs -> Pcs]
    /\ op \in [CPUs -> Ops]
    /\ i \in [CPUs -> Nat]
    /\ end_pwrlvl \in [CPUs -> 0 .. MaxLvl]
    /\ state_info \in [CPUs -> [0 .. MaxLvl -> LocalStates]]
    /\ target \in [CPUs -> CPUs \cup {None}]
    /\ arg \in [CPUs -> Entries \cup {NoEntry}]

StateTypeOK ==
    /\ aff_info_state \in [CPUs -> AffStates]
    /\ local_state \in [CPUs -> LocalStates]
    /\ target_pwrlvl \in [CPUs -> 0 .. MaxLvl]
    /\ ep \in [CPUs -> Entries \cup BadEntries \cup {NoEntry}]
    /\ req \in [Levels -> [CPUs -> LocalStates]]
    /\ node_state \in [Nodes -> LocalStates]
    /\ lock \in [Nodes -> CPUs \cup {None}]
    /\ cpu_lock \in [CPUs -> CPUs \cup {None}]
    /\ pwr_on \in [CPUs -> BOOLEAN]
    /\ context \in [CPUs -> Entries \cup BadEntries \cup {NoEntry}]
    /\ promised \in [CPUs -> Entries \cup {NoEntry}]

TypeOK == CallTypeOK /\ StateTypeOK

\* The places at which CPU c executes with its domains up: the normal world,
\* CPU_ON, standby, the last-CPU check, and a power down not yet coordinated.
Running(c) ==
    \/ pc[c] \in {"ns", "standby", "scan", "on_lock", "on_check", "on_set",
                  "on_plat", "on_unlock", "isr"}
    \/ pc[c] = "acquire" /\ op[c] \in {"off", "suspend"}
    \/ pc[c] = "release" /\ op[c] \in {"abort", "warmboot"}

(* Every power domain above a CPU that runs is recorded as RUN, whatever    *)
(* the other CPUs are doing: state coordination and the warm boot of the    *)
(* others never take a domain down under a running CPU.                     *)
RunningCpuHasRunningDomains ==
    \A c \in CPUs : Running(c) =>
        \A l \in Levels : node_state[NodeAt(c, l)] = RUN

(* The last man switches off the light: when every CPU below a node has     *)
(* gone down with CPU_OFF, the node is recorded as OFF, in whatever order   *)
(* the CPUs went.                                                           *)
LastManDown ==
    \A c \in CPUs, l \in Levels :
        (\A d \in Siblings(c, l) :
            pc[d] \in {"set_off", "off_wfi", "down"})
        => node_state[NodeAt(c, l)] = OFF

(* A CPU that starts finds what it needs: it is not OFF (the panic of       *)
(* psci_warmboot_entrypoint), and the assertions of the two finishers hold  *)
(* (its local state is OFF; ON_PENDING at the end of psci_cpu_on_finish;    *)
(* ON when it resumes from suspend).                                        *)
WarmbootAssertions ==
    \A c \in CPUs :
        /\ pc[c] = "warmboot" => aff_info_state[c] # "OFF"
        /\ pc[c] = "wb_finish" => local_state[c] = OFF
        /\ pc[c] = "on_sync" => aff_info_state[c] = "ON_PENDING"
        /\ pc[c] = "wb_finish" => aff_info_state[c] # "OFF"

(* The affinity state of a CPU goes round OFF, ON_PENDING, ON, OFF; only a  *)
(* failed CPU_ON goes back.  Two concurrent CPU_ON calls cannot push a CPU  *)
(* that is already ON back to ON_PENDING, nor a boot overtake its CPU_ON.   *)
AffinityLifeCycle ==
    [][\A c \in CPUs :
          <<aff_info_state[c], aff_info_state'[c]>> \in
             {<<"OFF", "ON_PENDING">>, <<"ON_PENDING", "ON">>,
              <<"ON_PENDING", "OFF">>, <<"ON", "OFF">>}
          \/ aff_info_state'[c] = aff_info_state[c]]_aff_info_state

(* A domain's state changes only under its lock, by the CPU that holds it.  *)
DomainChangesUnderLock ==
    [][\A n \in Nodes : node_state'[n] # node_state[n] =>
          \E c \in CPUs : /\ lock[n] = c
                          /\ pc[c] \in {"set_target", "to_run"}
                          /\ pc'[c] # pc[c]]_node_state

(* A CPU that waits for the power domain locks gets them all: the bottom-up *)
(* order admits no cycle of waiting CPUs.                                   *)
LocksAreGranted ==
    \A c \in CPUs : pc[c] = "acquire" ~> pc[c] # "acquire"

(* A CPU_ON that found the target OFF and was accepted ends: the target     *)
(* becomes ON, the platform reports failure (OFF again), or the target      *)
(* panics in its final wfi.                                                 *)
PendingIsResolved ==
    \A c \in CPUs :
        aff_info_state[c] = "ON_PENDING"
           ~> (aff_info_state[c] # "ON_PENDING" \/ pc[c] = "panic")

(* The entry point handed to a CPU is the one that was asked for by the     *)
(* call that was accepted: CPU_ON's when it was turned on, its own when it  *)
(* suspended.                                                               *)
StartsWhereAsked ==
    \A c \in CPUs : pc[c] = "to_run" => context[c] = promised[c]

(* SYSTEM_SUSPEND is carried out only by the last CPU that is not OFF.      *)
SystemSuspendIsLast ==
    \A c \in CPUs : pc[c] = "scan" /\ i[c] = NCpus =>
        \A d \in CPUs \ {c} : aff_info_state[d] = "OFF"

-----------------------------------------------------------------------------
(* The inductive invariant behind the properties, in named parts.  It says  *)
(* for every control point of a CPU what the shared state holds for it.     *)

\* The domain operation is a power down / a warm boot that holds every lock
DownCritical == {"coord", "set_target", "plat"}
BootCritical == {"wb_finish", "on_sync", "wb_context", "to_run"}
OnCritical == {"on_check", "on_set", "on_plat", "on_unlock"}

\* CPU c holds the lock of its ancestor at level l.
Holds(c, l) ==
    /\ l <= end_pwrlvl[c]
    /\ \/ pc[c] = "acquire" /\ l < i[c]
       \/ pc[c] \in DownCritical \cup BootCritical \cup {"isr"}
       \/ pc[c] = "release" /\ l <= i[c]

\* CPU c is between the coordination of its power down and its return to RUN.
Low(c) ==
    \/ pc[c] \in {"set_target", "plat", "set_off", "off_wfi", "down",
                  "sus_wfi", "suspended", "warmboot", "panic"} \cup BootCritical
    \/ pc[c] = "release" /\ op[c] \in {"off", "suspend"}
    \/ pc[c] = "acquire" /\ op[c] = "warmboot"

\* The request of CPU c at level l is a power down request.
Lowered(c, l) ==
    l <= end_pwrlvl[c] /\ (Low(c) \/ (pc[c] = "coord" /\ l < i[c]))

\* The request of CPU c at level l is recorded, the node's state not yet set.
Dirty(c, l) ==
    /\ l <= end_pwrlvl[c]
    /\ \/ pc[c] = "coord" /\ l < i[c]
       \/ pc[c] = "set_target"

\* What the CPUs below the level-l ancestor of c want of it together
Wanted(c, l) == IF \E d \in Siblings(c, l) : req[l][d] = RUN THEN RUN ELSE OFF

ControlInv ==
    \A c \in CPUs :
        /\ pc[c] = "acquire" => /\ op[c] \in {"off", "suspend", "warmboot"}
                                /\ i[c] \in 1 .. end_pwrlvl[c] + 1
        /\ pc[c] = "isr" => op[c] = "suspend" /\ i[c] = 1
        /\ pc[c] \in DownCritical => op[c] \in {"off", "suspend"}
        /\ pc[c] = "coord" => i[c] \in 1 .. end_pwrlvl[c] + 1
        /\ pc[c] \in BootCritical => op[c] = "warmboot"
        /\ pc[c] = "release" => op[c] # "none" /\ i[c] \in 0 .. end_pwrlvl[c]
        /\ pc[c] = "set_off" => op[c] = "off"
        /\ pc[c] = "scan" => i[c] \in 0 .. NCpus
        /\ pc[c] \in OnCritical \cup {"on_lock"} => target[c] \in CPUs
        /\ op[c] = "off" => end_pwrlvl[c] = MaxLvl

\* Two CPUs never hold the same node: what c holds, lock says it holds.
LockInv ==
    \A c \in CPUs, l \in Levels : Holds(c, l) => lock[NodeAt(c, l)] = c

\* The caller of CPU_ON holds the spin lock of its target.
CpuLockInv ==
    \A c \in CPUs : pc[c] \in OnCritical => cpu_lock[target[c]] = c

\* The level a warm boot will use is the level the power down used.
LevelInv ==
    \A c \in CPUs :
        /\ ~Low(c) \/ pc[c] \in {"set_target", "wb_context", "to_run"}
              => target_pwrlvl[c] = MaxLvl
        /\ Low(c) /\ pc[c] \notin {"set_target", "wb_context", "to_run"}
              => target_pwrlvl[c] = end_pwrlvl[c]
        /\ aff_info_state[c] # "ON" => end_pwrlvl[c] = MaxLvl

\* The affinity state, PWR_ON and the local state fit the control point.
AffInv ==
    \A c \in CPUs :
        /\ Running(c) \/ pc[c] \in DownCritical \cup {"set_off", "sus_wfi",
                 "suspended", "release"} => aff_info_state[c] = "ON"
        /\ pc[c] \in {"off_wfi", "down"} => aff_info_state[c] # "ON"
        /\ pc[c] \in {"warmboot"} \cup BootCritical
              \/ (pc[c] = "acquire" /\ op[c] = "warmboot")
                 => aff_info_state[c] # "OFF"
        /\ pc[c] = "on_sync" => aff_info_state[c] = "ON_PENDING"
        /\ pc[c] = "set_off" \/ (pc[c] = "release" /\ op[c] = "off")
              => ~pwr_on[c]
        /\ pc[c] \in {"off_wfi", "down"} /\ pwr_on[c]
              => aff_info_state[c] = "ON_PENDING"
        /\ pc[c] = "panic" /\ pwr_on[c] => aff_info_state[c] # "OFF"
        /\ Low(c) /\ pc[c] # "set_target" => local_state[c] = OFF
        /\ pc[c] = "on_set" => aff_info_state[target[c]] = "OFF"
        /\ pc[c] = "on_plat" => /\ aff_info_state[target[c]] = "ON_PENDING"
                                /\ pc[target[c]] \in {"off_wfi", "down", "panic"}
                                /\ ~pwr_on[target[c]]

\* What a CPU requests of each level is a function of its control point.
ReqInv ==
    \A c \in CPUs, l \in Levels :
        req[l][c] = IF Lowered(c, l) THEN OFF ELSE RUN

\* state_info of a power down: the request before coordination, the coordinated
\* state of the node after it.
InfoInv ==
    \A c \in CPUs : op[c] \in {"off", "suspend"} =>
        /\ pc[c] \in {"acquire", "isr", "coord", "set_target"}
              => state_info[c][0] = OFF
        /\ \A l \in Levels : l <= end_pwrlvl[c] =>
              /\ pc[c] \in {"acquire", "isr"} \/ (pc[c] = "coord" /\ l >= i[c])
                    => state_info[c][l] = OFF
              /\ Dirty(c, l) => state_info[c][l] = Wanted(c, l)

\* A node is RUN if a CPU below it requests RUN, and, when no coordination of
\* it is under way, OFF if all of them request OFF.
DomainInv ==
    \A c \in CPUs, l \in Levels :
        /\ req[l][c] = RUN => node_state[NodeAt(c, l)] = RUN
        /\ (\A d \in Siblings(c, l) : req[l][d] = OFF /\ ~Dirty(d, l))
              => node_state[NodeAt(c, l)] = OFF

IInv ==
    /\ TypeOK
    /\ ControlInv
    /\ LockInv
    /\ CpuLockInv
    /\ LevelInv
    /\ AffInv
    /\ ReqInv
    /\ InfoInv
    /\ DomainInv
=============================================================================
