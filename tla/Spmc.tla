-------------------------------- MODULE Spmc --------------------------------
(***************************************************************************)
(* spmc_cpu_corex_onoff() of the MT7981 power controller driver, with its  *)
(* word cpu_bitmask at the level of caches.  CPU_ON updates the word       *)
(* through the coherent cache of the CPUs that run; CPU_OFF reads and      *)
(* writes it in memory, since psci_pwrdown_cpu_start() has disabled the    *)
(* data cache of its CPU.  Nobody flushes or invalidates the line.         *)
(***************************************************************************)
EXTENDS Naturals

CONSTANTS
    NCpus,    \* PLATFORM_CORE_COUNT, 2 on MT7981
    Invalid   \* the cache holds no copy of the line

CPUs == 0 .. NCpus - 1

VARIABLES
    mem,     \* cpu_bitmask in memory, as a set of CPUs
    cache,   \* the copy in the coherent cache, or Invalid
    dirty,   \* the copy was written and not yet written back
    pwr_on,  \* the CPUs whose PWR_ON bit is set
    pc,      \* pc[c]: where CPU c is
    target,  \* target[c]: the CPU that c turns on
    seen,    \* seen[c]: the word as c has read it
    pending  \* the CPUs that were turned on and have not started (ON_PENDING)

vars == <<mem, cache, dirty, pwr_on, pc, target, seen, pending>>
line == <<mem, cache, dirty>>

\* spmc_init() on the boot CPU, before bl31_plat_arch_setup() enables the cache
Init ==
    /\ mem = {0} /\ cache = Invalid /\ dirty = FALSE
    /\ pwr_on = {0}
    /\ pc = [c \in CPUs |-> IF c = 0 THEN "run" ELSE "down"]
    /\ target = [c \in CPUs |-> c] /\ seen = [c \in CPUs |-> {}]
    /\ pending = {}

Goto(c, from, to) == pc[c] = from /\ pc' = [pc EXCEPT ![c] = to]

View == IF cache = Invalid THEN mem ELSE cache

Evict ==
    /\ cache # Invalid
    /\ mem' = IF dirty THEN cache ELSE mem
    /\ cache' = Invalid /\ dirty' = FALSE
    /\ UNCHANGED <<pwr_on, pc, target, seen, pending>>

-----------------------------------------------------------------------------
(* CPU_ON: mtk_plat_power_domain_on(), STA_POWER_ON *)

\* psci_cpu_on_start() holds t's lock and has found it OFF.
MayTurnOn(t) == pc[t] \in {"wfi", "down"} /\ t \notin pending

SetPwrOn(c, t) ==
    /\ Goto(c, "run", "ack") /\ t # c /\ MayTurnOn(t)
    /\ pwr_on' = pwr_on \cup {t}
    /\ target' = [target EXCEPT ![c] = t]
    /\ pending' = pending \cup {t}
    /\ UNCHANGED <<seen, line>>

\* The controller has acknowledged; the word is read into the cache,
ReadMask(c) ==
    /\ Goto(c, "ack", "set")
    /\ seen' = [seen EXCEPT ![c] = View]
    /\ cache' = View
    /\ UNCHANGED <<mem, dirty, pwr_on, target, pending>>

\* and written there.
SetMask(c) ==
    /\ Goto(c, "set", "run")
    /\ cache' = seen[c] \cup {target[c]} /\ dirty' = TRUE
    /\ UNCHANGED <<mem, pwr_on, target, seen, pending>>

\* A CPU that is down starts; it waits for the lock of the CPU that turned it on.
Start(t) ==
    /\ t \in pwr_on
    /\ \A c \in CPUs : pc[c] \in {"ack", "set"} => target[c] # t
    /\ Goto(t, "down", "run")
    /\ pending' = pending \ {t}
    /\ UNCHANGED <<pwr_on, target, seen, line>>

-----------------------------------------------------------------------------
(* CPU_OFF: mtk_plat_power_domain_off(), STA_POWER_DOWN, MODE_AUTO_SHUT_OFF *)

\* The bit is read from memory; if it is clear nothing more is done.
CheckMask(c) ==
    /\ Goto(c, "run", IF c \in mem THEN "clear" ELSE "wfi")
    /\ UNCHANGED <<pwr_on, target, seen, pending, line>>

ClearPwrOn(c) ==
    /\ Goto(c, "clear", "unmask")
    /\ pwr_on' = pwr_on \ {c}
    /\ seen' = [seen EXCEPT ![c] = mem]
    /\ UNCHANGED <<target, pending, line>>

\* cpu_bitmask &= ~(1 << linear_id), in memory
ClearMask(c) ==
    /\ Goto(c, "unmask", "wfi")
    /\ mem' = seen[c] \ {c}
    /\ UNCHANGED <<cache, dirty, pwr_on, target, seen, pending>>

\* The controller shuts down a CPU in wfi whose bit is clear.
ShutOff(c) ==
    /\ c \notin pwr_on /\ Goto(c, "wfi", "down")
    /\ UNCHANGED <<pwr_on, target, seen, pending, line>>

-----------------------------------------------------------------------------
Next ==
    \/ Evict
    \/ \E c \in CPUs : \/ \E t \in CPUs : SetPwrOn(c, t)
                       \/ ReadMask(c) \/ SetMask(c) \/ Start(c)
                       \/ CheckMask(c) \/ ClearPwrOn(c) \/ ClearMask(c) \/ ShutOff(c)

Spec == Init /\ [][Next]_vars

-----------------------------------------------------------------------------
\* "Perform platform specific actions to turn this cpu off e.g. exit cpu
\* coherency, program the power controller etc." (psci_off.c:131-133): when
\* pwr_domain_off() has returned and no CPU_ON has set it since, PWR_ON is clear.
OffClearsPwrOn ==
    \A c \in CPUs : pc[c] = "wfi" /\ c \notin pending => c \notin pwr_on

=============================================================================
