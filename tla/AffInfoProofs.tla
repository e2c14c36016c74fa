---------------------------- MODULE AffInfoProofs ----------------------------
(***************************************************************************)
(* Proofs about AffInfoState: the race of CPU_ON with a CPU that turns     *)
(* itself off around its caches, for every order of the two CPUs' steps    *)
(* and of the cache's own fetches and evictions, and every answer of the   *)
(* platform's pwr_domain_on().                                             *)
(***************************************************************************)
EXTENDS AffInfoState, TLAPS

TypeInv ==
    /\ mem \in AffStates
    /\ cache \in AffStates \cup {Invalid}
    /\ dirty \in BOOLEAN
    /\ tpc \in {"down", "boot", "panic", "finish", "synced", "run", "on",
                "set_off", "inv", "wfi", "stuck"}
    /\ cpc \in {"idle", "check", "set", "flush", "reread", "retry",
                "retry_flush", "retried", "plat", "restore_flush"}
    /\ pwr_on \in BOOLEAN

\* CPU_ON holds the state: it has found the target off and not yet answered.
Busy == cpc \notin {"idle", "check"}

\* The target is off: its last steps before wfi, which the caller may meet.
Leaving == tpc \in {"inv", "wfi", "stuck", "down"}

(* A clean copy equals memory, but for one: between its write of OFF and    *)
(* its invalidation the target leaves a copy that says ON, which no CPU_ON  *)
(* takes for OFF.  A dirty copy is the last write of whoever made it.       *)
LineInv ==
    /\ dirty => cache # Invalid
    /\ ~dirty => \/ cache \in {Invalid, mem}
                 \/ tpc = "inv" /\ mem = "OFF" /\ cache = "ON" /\ ~Busy
    /\ dirty => \/ tpc = "on" /\ cache = "ON"
                \/ cpc \in {"flush", "retry_flush"} /\ cache = "ON_PENDING"
                \/ cpc = "restore_flush" /\ cache = "OFF"

\* What the state is while the target starts, runs and turns itself off
TargetInv ==
    /\ tpc \in {"boot", "finish", "synced", "run"} =>
           mem = "ON_PENDING" /\ pwr_on
    /\ tpc = "on" => View = "ON" /\ pwr_on
    /\ tpc = "set_off" => mem = "ON" /\ ~pwr_on
    /\ Leaving => mem # "ON"
    /\ Leaving /\ pwr_on => mem = "ON_PENDING" /\ ~Busy
    /\ tpc # "panic"

(* The update can be lost only to the target's one invalidation: while it   *)
(* is still to come the update stands, and a caller that has seen it lost   *)
(* has it behind.                                                           *)
CallerInv ==
    /\ Busy => Leaving /\ ~pwr_on
    /\ cpc \in {"set", "retry"} => mem = "OFF"
    /\ cpc \in {"retry_flush", "retried", "plat"} => View = "ON_PENDING"
    /\ cpc \in {"flush", "reread"} /\ tpc = "inv" => View = "ON_PENDING"
    /\ cpc \in {"retry", "retry_flush", "retried"} => tpc # "inv"

Inv == TypeInv /\ LineInv /\ TargetInv /\ CallerInv

-----------------------------------------------------------------------------
(* The invariant holds at first, and over every step. *)

LEMMA InitInv == Init => Inv
BY InvalidAssumption
DEF Init, Inv, TypeInv, LineInv, TargetInv, CallerInv, Busy, Leaving, View, AffStates

LEMMA TargetKeepsInv ==
    ASSUME Inv, Target \/ TargetOff
    PROVE  Inv'
<1> USE InvalidAssumption
    DEF Inv, TypeInv, LineInv, TargetInv, CallerInv, Busy, Leaving, View, AffStates,
        TargetGoto
<1>1. CASE TargetSetOff
  BY <1>1 DEF TargetSetOff
<1>2. CASE TargetInvalidate
  BY <1>2 DEF TargetInvalidate, Invalidate
<1>3. CASE TargetWfi
  BY <1>3 DEF TargetWfi
<1>4. CASE PowerUp
  BY <1>4 DEF PowerUp
<1>5. CASE TargetBoot
  BY <1>5 DEF TargetBoot
<1>6. CASE TargetSync
  BY <1>6 DEF TargetSync
<1>7. CASE TargetAssert
  BY <1>7 DEF TargetAssert, CachedRead
<1>8. CASE TargetRun
  BY <1>8 DEF TargetRun, CachedWrite
<1>9. CASE TargetOff
  BY <1>9 DEF TargetOff, Flush
<1> QED
  BY <1>1, <1>2, <1>3, <1>4, <1>5, <1>6, <1>7, <1>8, <1>9 DEF Target

LEMMA CallerKeepsInv ==
    ASSUME Inv, Caller \/ OnFlush
    PROVE  Inv'
<1> USE InvalidAssumption
    DEF Inv, TypeInv, LineInv, TargetInv, CallerInv, Busy, Leaving, View, AffStates,
        CallerGoto
<1>1. CASE OnFlush
  BY <1>1 DEF OnFlush, Flush
<1>2. CASE OnCheck
  BY <1>2 DEF OnCheck, CachedRead
<1>3. CASE OnSet
  BY <1>3 DEF OnSet, CachedWrite
<1>4. CASE OnSetFlush
  BY <1>4 DEF OnSetFlush, Flush
<1>5. CASE OnReread
  BY <1>5 DEF OnReread, CachedRead
<1>6. CASE OnRetry
  BY <1>6 DEF OnRetry, CachedWrite
<1>7. CASE OnRetryFlush
  BY <1>7 DEF OnRetryFlush, Flush
<1>8. CASE OnRetried
  BY <1>8 DEF OnRetried, CachedRead
<1>9. CASE OnPlat
  <2>1. CASE CallerGoto("plat", "idle") /\ pwr_on' = TRUE /\ UNCHANGED <<mem, cache, dirty>>
    BY <2>1
  <2>2. CASE CallerGoto("plat", "restore_flush") /\ CachedWrite("OFF") /\ UNCHANGED pwr_on
    BY <2>2 DEF CachedWrite
  <2> QED
    BY <1>9, <2>1, <2>2 DEF OnPlat
<1>10. CASE OnRestoreFlush
  BY <1>10 DEF OnRestoreFlush, Flush
<1> QED
  BY <1>1, <1>2, <1>3, <1>4, <1>5, <1>6, <1>7, <1>8, <1>9, <1>10 DEF Caller

LEMMA CacheKeepsInv ==
    ASSUME Inv, Prefetch \/ Evict
    PROVE  Inv'
<1> USE InvalidAssumption
    DEF Inv, TypeInv, LineInv, TargetInv, CallerInv, Busy, Leaving, View, AffStates
<1>1. CASE Prefetch
  BY <1>1 DEF Prefetch, CachedRead
<1>2. CASE Evict
  BY <1>2 DEF Evict, Flush
<1> QED
  BY <1>1, <1>2

LEMMA NextInv ==
    ASSUME Inv, [Next]_vars
    PROVE  Inv'
<1>1. CASE Next
  BY <1>1, TargetKeepsInv, CallerKeepsInv, CacheKeepsInv DEF Next
<1>2. CASE UNCHANGED vars
  BY <1>2 DEF vars, Inv, TypeInv, LineInv, TargetInv, CallerInv, Busy, Leaving, View
<1> QED
  BY <1>1, <1>2

(* The copy and memory differ only where the protocol between the caller of *)
(* CPU_ON and the CPU that turns itself off allows it.                      *)
THEOREM LineInvariance == Spec => []Inv
<1>1. Inv /\ [Next]_vars => Inv'
  BY NextInv
<1> QED
  BY InitInv, <1>1, PTL DEF Spec

-----------------------------------------------------------------------------
(* psci_warmboot_entrypoint() never reads OFF from memory: the update of    *)
(* psci_cpu_on_start() reached it, whatever the target invalidated.         *)
THEOREM BootFindsPending == Spec => []BootsPending
<1>1. Inv => BootsPending
  BY DEF Inv, TargetInv, BootsPending
<1> QED
  BY LineInvariance, <1>1, PTL

(* The assertions of psci_cpu_on_start() and psci_cpu_on_finish() on the    *)
(* state they read back hold: one retry is enough.                          *)
THEOREM OneRetryIsEnough == Spec => []OnceIsEnough
<1>1. ASSUME Inv
      PROVE  cpc = "reread" => View \in {"OFF", "ON_PENDING"}
  BY <1>1, InvalidAssumption
  DEF Inv, TypeInv, LineInv, TargetInv, CallerInv, Busy, Leaving, View, AffStates
<1>2. ASSUME Inv
      PROVE  cpc = "retried" => View = "ON_PENDING"
  BY <1>2 DEF Inv, CallerInv
<1>3. ASSUME Inv
      PROVE  tpc = "synced" => View = "ON_PENDING"
  BY <1>3, InvalidAssumption
  DEF Inv, TypeInv, LineInv, TargetInv, CallerInv, Busy, Leaving, View, AffStates
<1>4. Inv => OnceIsEnough
  BY <1>1, <1>2, <1>3 DEF OnceIsEnough
<1> QED
  BY LineInvariance, <1>4, PTL

(* No cached read takes a CPU that has turned itself off for one that runs. *)
THEOREM OffIsSeen == Spec => []NoStaleOn
<1>1. Inv => NoStaleOn
  BY InvalidAssumption
  DEF NoStaleOn, Inv, TypeInv, LineInv, TargetInv, CallerInv, Busy, Leaving, View, AffStates
<1> QED
  BY LineInvariance, <1>1, PTL

(* What the CPUs read of the state never goes from OFF to ON, nor from ON   *)
(* to ON_PENDING, by a write of either CPU or by a move of the cache.       *)
THEOREM ViewFollowsPsci == Spec => ViewLifeCycle
<1> DEFINE Step == (View = "OFF" => View' # "ON")
                   /\ (View = "ON" => View' # "ON_PENDING")
<1>1. ASSUME Inv, Next
      PROVE  Step \/ UNCHANGED View
  <2> USE <1>1, InvalidAssumption
      DEF Inv, TypeInv, LineInv, TargetInv, CallerInv, Busy, Leaving, View, AffStates
  <2>1. CASE Target \/ TargetOff
    BY <2>1 DEF Target, TargetSetOff, TargetInvalidate, TargetWfi, PowerUp, TargetBoot,
       TargetSync, TargetAssert, TargetRun, TargetOff, TargetGoto, Flush, Invalidate,
       CachedRead, CachedWrite
  <2>2. CASE Caller \/ OnFlush
    BY <2>2 DEF Caller, OnFlush, OnCheck, OnSet, OnSetFlush, OnReread, OnRetry,
       OnRetryFlush, OnRetried, OnPlat, OnRestoreFlush, CallerGoto, Flush, CachedRead,
       CachedWrite
  <2>3. CASE Prefetch \/ Evict
    BY <2>3 DEF Prefetch, Evict, Flush, CachedRead
  <2> QED
    BY <2>1, <2>2, <2>3 DEF Next
<1>2. ASSUME UNCHANGED vars
      PROVE  UNCHANGED View
  BY <1>2 DEF vars, View
<1>3. Inv /\ [Next]_vars => [Step]_View
  BY <1>1, <1>2
<1> QED
  BY LineInvariance, <1>3, PTL DEF Spec, ViewLifeCycle
==============================================================================
