---------------------------- MODULE AffInfoState ----------------------------
(***************************************************************************)
(* The affinity state of one CPU at the level of caches.  Module Psci      *)
(* reads and writes it in one step; here the CPU that turns itself off     *)
(* does so with its caches disabled, on memory, while the CPU that turns   *)
(* it on uses a cached copy of the same line.  The cache of the CPUs that  *)
(* run is one coherent cache: it may fetch or write back the line at any   *)
(* time, and the maintenance operations of either side act on it.          *)
(***************************************************************************)

CONSTANTS
    PwrOnResults,  \* what the platform's pwr_domain_on may answer
    Invalid        \* the cache holds no copy of the line

ASSUME ResultAssumption == PwrOnResults \subseteq {"SUCCESS", "INTERN_FAIL"}

AffStates == {"ON", "OFF", "ON_PENDING"}

ASSUME InvalidAssumption == Invalid \notin AffStates

VARIABLES
    mem,     \* aff_info_state in memory
    cache,   \* the copy in the coherent cache, or Invalid
    dirty,   \* the copy was written and not yet written back
    tpc,     \* the next step of the target, the CPU the state belongs to
    cpc,     \* the next step of the caller of CPU_ON
    pwr_on   \* the PWR_ON bit of the target

vars == <<mem, cache, dirty, tpc, cpc, pwr_on>>

Init ==
    /\ mem = "OFF" /\ cache = Invalid /\ dirty = FALSE
    /\ tpc = "down" /\ cpc = "idle" /\ pwr_on = FALSE

-----------------------------------------------------------------------------
(* The line *)

\* What a CPU with its caches on reads
View == IF cache = Invalid THEN mem ELSE cache

\* A cached read allocates the line.
CachedRead ==
    /\ cache' = View
    /\ UNCHANGED <<mem, dirty>>

CachedWrite(v) ==
    /\ cache' = v
    /\ dirty' = TRUE
    /\ UNCHANGED mem

\* flush_dcache_range(): clean and invalidate
Flush ==
    /\ mem' = IF dirty THEN cache ELSE mem
    /\ cache' = Invalid
    /\ dirty' = FALSE

\* inv_dcache_range(): a copy not written back is lost.
Invalidate ==
    /\ cache' = Invalid
    /\ dirty' = FALSE
    /\ UNCHANGED mem

\* The cache fetches or evicts the line on its own.
Prefetch ==
    /\ cache = Invalid
    /\ CachedRead
    /\ UNCHANGED <<tpc, cpc, pwr_on>>

Evict ==
    /\ cache # Invalid
    /\ Flush
    /\ UNCHANGED <<tpc, cpc, pwr_on>>

-----------------------------------------------------------------------------
(* The target: CPU_OFF after the locks are released, and the warm boot *)

TargetGoto(from, to) == tpc = from /\ tpc' = to /\ UNCHANGED cpc

\* Mutant: the line is not written back before the caches are bypassed.
TargetOffWithoutFlush ==
    /\ TargetGoto("on", "set_off")
    /\ pwr_on' = FALSE
    /\ UNCHANGED <<mem, cache, dirty>>

\* pwr_domain_off() cleared PWR_ON, the caches are off:
\* psci_flush_cpu_data(aff_info_state)
TargetOff ==
    /\ TargetGoto("on", "set_off")
    /\ pwr_on' = FALSE
    /\ Flush

\* psci_set_aff_info_state(AFF_STATE_OFF), straight to memory
TargetSetOff ==
    /\ TargetGoto("set_off", "inv")
    /\ mem' = "OFF"
    /\ UNCHANGED <<cache, dirty, pwr_on>>

\* Mutant: the stale copies in the caches are left alone.
TargetKeepsCopies ==
    /\ TargetGoto("inv", "wfi")
    /\ UNCHANGED <<mem, cache, dirty, pwr_on>>

\* psci_dsbish(), then psci_inv_cpu_data(aff_info_state)
TargetInvalidate ==
    /\ TargetGoto("inv", "wfi")
    /\ Invalidate
    /\ UNCHANGED pwr_on

(* psci_pwrdown_cpu_end_terminal(): the power is lost in wfi, or the CPU     *)
(* wakes up again and again and panics.  The power controller shuts a CPU    *)
(* down whose bit was cleared before it starts it again, as in module Psci.  *)
TargetWfi ==
    /\ TargetGoto("wfi", "down") \/ TargetGoto("wfi", "stuck")
    /\ UNCHANGED <<mem, cache, dirty, pwr_on>>

PowerUp ==
    /\ pwr_on
    /\ TargetGoto("down", "boot")
    /\ UNCHANGED <<mem, cache, dirty, pwr_on>>

\* psci_warmboot_entrypoint() reads the state from memory, and panics on OFF.
TargetBoot ==
    /\ TargetGoto("boot", IF mem = "OFF" THEN "panic" ELSE "finish")
    /\ UNCHANGED <<mem, cache, dirty, pwr_on>>

(* psci_cpu_on_finish() turns the caches on, and takes and releases the     *)
(* spin lock to wait for the caller of CPU_ON.                              *)
TargetSync ==
    /\ cpc = "idle"
    /\ TargetGoto("finish", "synced")
    /\ UNCHANGED <<mem, cache, dirty, pwr_on>>

(* assert(psci_get_aff_info_state() == AFF_STATE_ON_PENDING), a cached read *)
TargetAssert ==
    /\ TargetGoto("synced", "run")
    /\ CachedRead
    /\ UNCHANGED pwr_on

\* psci_set_pwr_domains_to_run() writes ON through the cache.
TargetRun ==
    /\ TargetGoto("run", "on")
    /\ CachedWrite("ON")
    /\ UNCHANGED pwr_on

-----------------------------------------------------------------------------
(* The caller: psci_cpu_on_start() with the spin lock of the target held *)

CallerGoto(from, to) == cpc = from /\ cpc' = to /\ UNCHANGED tpc

OnFlush ==
    /\ CallerGoto("idle", "check")
    /\ Flush
    /\ UNCHANGED pwr_on

\* Mutant: only ON_PENDING is refused, not ON.
OnCheckPendingOnly ==
    /\ \/ View # "ON_PENDING" /\ CallerGoto("check", "set")
       \/ View = "ON_PENDING" /\ CallerGoto("check", "idle")
    /\ CachedRead
    /\ UNCHANGED pwr_on

\* cpu_on_validate_state(): PSCI_E_ALREADY_ON, PSCI_E_ON_PENDING or go on
OnCheck ==
    /\ \/ View = "OFF" /\ CallerGoto("check", "set")
       \/ View # "OFF" /\ CallerGoto("check", "idle")
    /\ CachedRead
    /\ UNCHANGED pwr_on

\* ON_PENDING is written through the cache, and flushed.
OnSet ==
    /\ CallerGoto("set", "flush")
    /\ CachedWrite("ON_PENDING")
    /\ UNCHANGED pwr_on

\* Mutant: the update is not read back.
OnSetFlushTrusting ==
    /\ CallerGoto("flush", "plat")
    /\ Flush
    /\ UNCHANGED pwr_on

OnSetFlush ==
    /\ CallerGoto("flush", "reread")
    /\ Flush
    /\ UNCHANGED pwr_on

\* The target's invalidation may have undone the update: read it again.
OnReread ==
    /\ \/ View = "ON_PENDING" /\ CallerGoto("reread", "plat")
       \/ View # "ON_PENDING" /\ CallerGoto("reread", "retry")
    /\ CachedRead
    /\ UNCHANGED pwr_on

OnRetry ==
    /\ CallerGoto("retry", "retry_flush")
    /\ CachedWrite("ON_PENDING")
    /\ UNCHANGED pwr_on

OnRetryFlush ==
    /\ CallerGoto("retry_flush", "retried")
    /\ Flush
    /\ UNCHANGED pwr_on

\* assert(psci_get_aff_info_state_by_idx(target_idx) == AFF_STATE_ON_PENDING)
OnRetried ==
    /\ CallerGoto("retried", "plat")
    /\ CachedRead
    /\ UNCHANGED pwr_on

\* pwr_domain_on(), and the state restored on failure
OnPlat ==
    /\ \/ /\ "SUCCESS" \in PwrOnResults
          /\ CallerGoto("plat", "idle")
          /\ pwr_on' = TRUE
          /\ UNCHANGED <<mem, cache, dirty>>
       \/ /\ "INTERN_FAIL" \in PwrOnResults
          /\ CallerGoto("plat", "restore_flush")
          /\ CachedWrite("OFF")
          /\ UNCHANGED pwr_on

OnRestoreFlush ==
    /\ CallerGoto("restore_flush", "idle")
    /\ Flush
    /\ UNCHANGED pwr_on

-----------------------------------------------------------------------------
Target == TargetSetOff \/ TargetInvalidate \/ TargetWfi \/ PowerUp
          \/ TargetBoot \/ TargetSync \/ TargetAssert \/ TargetRun
Caller == OnCheck \/ OnSet \/ OnSetFlush \/ OnReread \/ OnRetry
          \/ OnRetryFlush \/ OnRetried \/ OnPlat \/ OnRestoreFlush

Next == Target \/ TargetOff \/ Caller \/ OnFlush \/ Prefetch \/ Evict

Spec == Init /\ [][Next]_vars

(* Both CPUs execute what they have begun; nobody has to call CPU_ON or     *)
(* CPU_OFF, and the cache need not do anything on its own.  The spin lock   *)
(* is not a ticket lock: that the target gets it although others call       *)
(* CPU_ON again and again is assumed of the hardware's exclusive accesses.  *)
FairSpec == Spec /\ WF_vars(Target) /\ SF_vars(TargetSync) /\ WF_vars(Caller)

-----------------------------------------------------------------------------
(* Properties *)

(* The target finds ON_PENDING in memory whenever it starts: the update of  *)
(* the caller reached memory although it raced with the invalidation.       *)
BootsPending == tpc = "boot" => mem = "ON_PENDING"

(* The assertions on the state that CPU_ON reads back: OFF or ON_PENDING at *)
(* first, ON_PENDING for certain after one retry, and ON_PENDING still in   *)
(* the target's psci_cpu_on_finish(), whatever CPU_ON is called meanwhile.  *)
OnceIsEnough ==
    /\ cpc = "reread" => View \in {"OFF", "ON_PENDING"}
    /\ cpc = "retried" => View = "ON_PENDING"
    /\ tpc = "synced" => View = "ON_PENDING"

(* Once the target has turned itself off, and until it runs again, no       *)
(* cached read returns ON: neither AFFINITY_INFO, nor the check of CPU_ON,  *)
(* nor psci_is_last_on_cpu() takes a CPU that is down for one that runs.    *)
NoStaleOn == tpc \in {"wfi", "stuck", "down", "boot", "finish"} => View # "ON"

(* What the CPUs see of the state goes round as module Psci has it; a lost  *)
(* update shows as a return from ON_PENDING to OFF.                         *)
ViewLifeCycle ==
    [][(View = "OFF" => View' # "ON")
       /\ (View = "ON" => View' # "ON_PENDING")]_View

(* A CPU_ON that the platform accepted turns the target on, even when the   *)
(* target had not reached wfi and invalidated the line under the update,    *)
(* unless the target panics in that wfi; it never panics in its warm boot.  *)
AcceptedOnRuns == pwr_on ~> tpc \in {"on", "stuck"}
=============================================================================
