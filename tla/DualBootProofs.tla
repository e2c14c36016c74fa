--------------------------- MODULE DualBootProofs ---------------------------
(***************************************************************************)
(* Proofs about DualBoot, for every number of retries, every size of the   *)
(* register's fields and every set of images.                              *)
(***************************************************************************)
EXTENDS DualBoot, TLAPS

-----------------------------------------------------------------------------
(* The register *)

LEMMA RetryBounds ==
    /\ ByteMod \in Nat /\ MaxRetry \in Nat
    /\ ByteMod >= 4 /\ MaxRetry >= 1 /\ 2 * MaxRetry < ByteMod
    /\ maxcount \in {0, MaxRetry}
<1>1. PICK k \in 2 .. ByteMod : ByteMod = 2 * k
  BY DualBootAssumption
<1> QED
  BY <1>1, DualBootAssumption DEF maxcount

\* The byte that stands for -n
LEMMA NegValue ==
    ASSUME NEW n \in Nat, n < ByteMod
    PROVE  Neg(n) = IF n = 0 THEN 0 ELSE ByteMod - n
<1>1. CASE n = 0
  BY <1>1, RetryBounds DEF Neg
<1>2. CASE n # 0
  BY <1>2, RetryBounds DEF Neg
<1> QED
  BY <1>1, <1>2

\* A count or slot below half the range is read back as it was written.
LEMMA PairReads ==
    ASSUME NEW n \in Nat, 2 * n < ByteMod
    PROVE  /\ n \in Bytes /\ Neg(n) \in Bytes
           /\ PairOK(n, Neg(n)) /\ s8(n) = n
<1>1. Neg(n) = IF n = 0 THEN 0 ELSE ByteMod - n
  BY NegValue, RetryBounds
<1> QED
  BY <1>1, RetryBounds DEF Bytes, PairOK, s8

LEMMA PackReads ==
    ASSUME NEW t \in Slots, NEW n \in Nat, 2 * n < ByteMod
    PROVE  /\ Pack(t, n) \in Bytes \X Bytes \X Bytes \X Bytes
           /\ PairOK(Pack(t, n)[1], Pack(t, n)[2]) /\ s8(Pack(t, n)[1]) = n
           /\ PairOK(Pack(t, n)[3], Pack(t, n)[4]) /\ s8(Pack(t, n)[3]) = t
<1>1. t \in Nat /\ 2 * t < ByteMod
  BY RetryBounds DEF Slots, DUAL_BOOT_MAX_SLOTS
<1>2. /\ n \in Bytes /\ Neg(n) \in Bytes /\ PairOK(n, Neg(n)) /\ s8(n) = n
      /\ t \in Bytes /\ Neg(t) \in Bytes /\ PairOK(t, Neg(t)) /\ s8(t) = t
  BY <1>1, PairReads
<1> QED
  BY <1>2 DEF Pack

\* BootCount() sees the count of the slot it was written for, and no other.
LEMMA CountReads ==
    ASSUME NEW t \in Slots, NEW n \in Nat, 2 * n < ByteMod, reg = Pack(t, n),
           NEW s \in Slots
    PROVE  BootCount(s) = IF s = t THEN n ELSE 0
BY PackReads DEF BootCount

LEMMA ClearedIsZero == Cleared = Pack(0, 0)
BY NegValue, RetryBounds DEF Cleared, Pack

-----------------------------------------------------------------------------
(* The environment *)

LEMMA EnvSteps ==
    ASSUME NEW e \in Envs, NEW s \in Slots, NEW b \in BOOLEAN
    PROVE  /\ [e EXCEPT !.inv[s] = b] \in Envs
           /\ [e EXCEPT !.inv[s] = b].cur = e.cur
           /\ [e EXCEPT !.inv[s] = b].inv = [e.inv EXCEPT ![s] = b]
           /\ [e EXCEPT !.cur = s] \in Envs
           /\ [e EXCEPT !.cur = s].cur = s
           /\ [e EXCEPT !.cur = s].inv = e.inv
<1> DEFINE g == [e.inv EXCEPT ![s] = b]
<1>1. g \in [Slots -> BOOLEAN]
  BY SMT DEF Envs
<1>2. [e EXCEPT !.inv[s] = b] = [e EXCEPT !.inv = g]
  OBVIOUS
<1> HIDE DEF g
<1>3. ASSUME NEW f \in [Slots -> BOOLEAN]
      PROVE  /\ [e EXCEPT !.inv = f] \in Envs
             /\ [e EXCEPT !.inv = f].cur = e.cur
             /\ [e EXCEPT !.inv = f].inv = f
  BY SMT DEF Envs
<1>4. /\ [e EXCEPT !.cur = s] \in Envs
      /\ [e EXCEPT !.cur = s].cur = s
      /\ [e EXCEPT !.cur = s].inv = e.inv
  BY SMT DEF Envs
<1> QED
  BY <1>1, <1>2, <1>3, <1>4 DEF g

LEMMA SelectedIsEnv ==
    ASSUME NEW e \in Envs, NEW s \in Slots
    PROVE  SelectUpgraded(e, s) \in Envs
<1> DEFINE g == [e.inv EXCEPT ![s] = FALSE]
<1>1. g \in [Slots -> BOOLEAN]
  BY SMT DEF Envs
<1>2. SelectUpgraded(e, s) = [e EXCEPT !.cur = s, !.inv = g]
  BY DEF SelectUpgraded
<1> HIDE DEF g
<1>3. ASSUME NEW f \in [Slots -> BOOLEAN]
      PROVE  [e EXCEPT !.cur = s, !.inv = f] \in Envs
  <2>1. [e EXCEPT !.cur = s] \in Envs
    BY EnvSteps
  <2>2. \A d \in Envs : [d EXCEPT !.inv = f] \in Envs
    BY SMT DEF Envs
  <2> QED
    BY <2>1, <2>2
<1> QED
  BY <1>1, <1>2, <1>3

LEMMA DefaultIsEnv == DefaultEnv \in Envs
<1>1. [s \in Slots |-> FALSE] \in [Slots -> BOOLEAN]
  OBVIOUS
<1>2. 0 \in Slots
  BY SMT DEF Slots, DUAL_BOOT_MAX_SLOTS
<1> QED
  BY <1>1, <1>2, SMT DEF DefaultEnv, Envs

\* The slot after the current one is the other one.
LEMMA NextIsOther ==
    ASSUME ram \in Envs
    PROVE  /\ dual_boot_get_next_slot \in Slots
           /\ \A s \in Slots : s = ram.cur \/ s = dual_boot_get_next_slot
           /\ dual_boot_get_next_slot # ram.cur
<1>1. ram.cur \in 0 .. 1
  BY SMT DEF Envs, Slots, DUAL_BOOT_MAX_SLOTS
<1> QED
  BY <1>1, SMT DEF dual_boot_get_next_slot, Slots, DUAL_BOOT_MAX_SLOTS

-----------------------------------------------------------------------------
(* The invariant *)

\* Slot t may have the count of an image that is gone: it holds no image that
\* could be started, or its upgrade has not come to the count, or never will.
Excused(t) ==
    \/ image[t] = "broken"
    \/ t \in cut
    \/ slot = t /\ pc \in {"post", "clear"}

\* The register holds a count that was written for a slot and is not higher
\* than the number of times in a row its image was tried.
CountInv == \E t \in Slots, n \in 0 .. maxcount :
               reg = Pack(t, n) /\ (n <= tries[t] \/ Excused(t))

\* The types of what is not in the register
StateType ==
    /\ image \in [Slots -> Images] /\ env \in Envs /\ ram \in Envs
    /\ pc \in Saving \cup {"prompt", "try1", "try2", "next", "count", "kernel", "os", "write",
                       "clear"}
    /\ slot \in Slots /\ boot \in BOOLEAN /\ ret \in {"none", "ok", "err"}
    /\ tries \in [Slots -> 0 .. MaxRetry] /\ cut \subseteq Slots /\ spent \subseteq Slots
    /\ risky \in BOOLEAN /\ calm \in BOOLEAN

\* Which slot dual_boot() works on, and which are marked by then
ControlInv ==
    /\ pc \in {"try1", "mark1"} => slot = ram.cur
    /\ pc = "mark1" => ram.inv[slot]
    /\ pc = "next" => ram.inv[ram.cur]
    /\ pc \in {"switch", "count", "try2", "mark2"} =>
         slot = ram.cur /\ \A o \in Slots : o # slot => ram.inv[o]
    /\ pc = "mark2" => ram.inv[slot]
    /\ pc \in {"write", "post", "clear"} => ret = "none"
    /\ TriesBoth

Inv == StateType /\ CountInv /\ ControlInv

LEMMA CountIsType == CountInv => /\ reg \in Bytes \X Bytes \X Bytes \X Bytes
                                 /\ PairOK(reg[1], reg[2]) /\ PairOK(reg[3], reg[4])
<1> SUFFICES ASSUME CountInv
             PROVE  /\ reg \in Bytes \X Bytes \X Bytes \X Bytes
                    /\ PairOK(reg[1], reg[2]) /\ PairOK(reg[3], reg[4])
  OBVIOUS
<1>1. PICK t \in Slots, n \in 0 .. maxcount : reg = Pack(t, n)
  BY DEF CountInv
<1>2. n \in Nat /\ 2 * n < ByteMod
  BY RetryBounds
<1> QED
  BY <1>1, <1>2, PackReads

\* What GivesUp() and the next count say about the tries so far
LEMMA CountIsFair ==
    ASSUME StateType, CountInv, NEW s \in Slots
    PROVE  /\ BootCount(s) \in 0 .. maxcount
           /\ BootCount(s) <= tries[s] \/ Excused(s)
<1>1. PICK t \in Slots, n \in 0 .. maxcount :
         reg = Pack(t, n) /\ (n <= tries[t] \/ Excused(t))
  BY DEF CountInv
<1>2. n \in Nat /\ 2 * n < ByteMod /\ maxcount \in Nat
  BY RetryBounds
<1>3. BootCount(s) = IF s = t THEN n ELSE 0
  BY <1>1, <1>2, CountReads
<1>4. tries[s] \in Nat
  BY DEF StateType
<1> QED
  BY <1>1, <1>2, <1>3, <1>4

LEMMA InitInv == Init => Inv
<1> SUFFICES ASSUME Init PROVE Inv
  OBVIOUS
<1>1. env \in Envs /\ ram \in Envs
  BY DefaultIsEnv DEF Init
<1>2. 0 \in Slots /\ 0 \in 0 .. MaxRetry /\ 0 \in 0 .. maxcount
  BY RetryBounds DEF Slots, DUAL_BOOT_MAX_SLOTS
<1>3. image \in [Slots -> Images]
  BY DualBootAssumption DEF Init, Images
<1>4. tries = [s \in Slots |-> 0] /\ tries \in [Slots -> 0 .. MaxRetry]
  BY <1>2 DEF Init
<1>5. StateType
  BY <1>1, <1>2, <1>3, <1>4 DEF Init, StateType
<1>6. CountInv
  BY <1>2, <1>4, ClearedIsZero DEF Init, CountInv
<1>7. ControlInv
  BY DEF Init, ControlInv, TriesBoth
<1> QED
  BY <1>5, <1>6, <1>7 DEF Inv

-----------------------------------------------------------------------------
(* Every step keeps the invariant *)

\* A save, complete, failed or cut short, leaves an environment.
LEMMA SavesEnv ==
    ASSUME StateType
    PROVE  /\ Saved \/ NotSaved => env' \in Envs
           /\ \A e \in CutShort : e \in Envs
BY DefaultIsEnv DEF StateType, Saved, NotSaved, CutShort

\* A counted try keeps the register and the tries in range.
LEMMA CountStep ==
    ASSUME StateType, NEW s \in Slots, NEW n \in Nat, Count(s, n), n >= 1,
           maxcount # 0 => n <= maxcount,
           maxcount = 0 => n = 1,
           n > 1 => tries[s] >= n - 1 \/ Excused(s)',
           CountInv
    PROVE  /\ tries' \in [Slots -> 0 .. MaxRetry]
           /\ CountInv'
<1> USE RetryBounds
<1>1. tries \in [Slots -> 0 .. MaxRetry] /\ tries[s] \in 0 .. MaxRetry
  BY DEF StateType
<1>2. (IF tries[s] < MaxRetry THEN tries[s] + 1 ELSE tries[s]) \in 0 .. MaxRetry
  BY <1>1
<1>3. tries' \in [Slots -> 0 .. MaxRetry]
  BY <1>1, <1>2 DEF Count
<1>4. CASE maxcount # 0
  <2>1. reg' = Pack(s, n)
    BY <1>4 DEF Count, dual_boot_set_boot_count
  <2>2. n <= tries'[s] \/ Excused(s)'
    <3>1. tries'[s] = IF tries[s] < MaxRetry THEN tries[s] + 1 ELSE tries[s]
      BY DEF Count
    <3> QED
      BY <1>1, <1>4, <3>1
  <2>3. n \in 0 .. maxcount
    BY <1>4
  <2> QED
    BY <1>3, <2>1, <2>2, <2>3 DEF CountInv, Pack, Neg, maxcount
<1>5. CASE maxcount = 0
  <2>1. PICK t \in Slots, m \in 0 .. maxcount : reg = Pack(t, m)
    BY DEF CountInv
  <2>2. m = 0 /\ reg' = Pack(t, m)
    BY <1>5, <2>1 DEF Count
  <2>3. m <= tries'[t]
    BY <1>3, <2>2
  <2> QED
    BY <1>3, <2>2, <2>3 DEF CountInv, Pack, Neg, maxcount
<1> QED
  BY <1>3, <1>4, <1>5

\* A count that is started again at zero
LEMMA ResetStep ==
    ASSUME CountInv, NEW s \in Slots, tries' \in [Slots -> 0 .. MaxRetry],
           reg' = IF maxcount # 0 THEN Pack(s, 0) ELSE reg
    PROVE  CountInv'
<1> USE RetryBounds
<1>1. PICK t \in Slots, m \in 0 .. maxcount : reg = Pack(t, m)
  BY DEF CountInv
<1>2. \A o \in Slots : 0 <= tries'[o]
  OBVIOUS
<1>3. \E o \in Slots : reg' = Pack(o, 0)
  BY <1>1
<1>4. 0 \in 0 .. maxcount
  OBVIOUS
<1> QED
  BY <1>2, <1>3, <1>4 DEF CountInv, Pack, Neg, maxcount

\* Nothing happens to the register, and tries are lost only where the count
\* need not be right.
LEMMA CountKept ==
    ASSUME CountInv, UNCHANGED reg,
           \A t \in Slots : \/ tries'[t] = tries[t] /\ (Excused(t) => Excused(t)')
                            \/ Excused(t)'
    PROVE  CountInv'
<1>1. PICK t \in Slots, n \in 0 .. maxcount :
         reg = Pack(t, n) /\ (n <= tries[t] \/ Excused(t))
  BY DEF CountInv
<1>2. reg' = Pack(t, n) /\ (n <= tries'[t] \/ Excused(t)')
  BY <1>1
<1> QED
  BY <1>2 DEF CountInv, Pack, Neg, maxcount

LEMMA TriesStep ==
    ASSUME StateType, [Next]_vars
    PROVE  tries' \in [Slots -> 0 .. MaxRetry] /\ cut' \subseteq Slots
<1> USE DEF StateType
<1>1. ASSUME NEW s \in Slots, NEW n, Count(s, n)
      PROVE  tries' \in [Slots -> 0 .. MaxRetry] /\ cut' \subseteq Slots
  <2>1. \A o \in Slots : (IF o # s THEN 0 ELSE IF tries[s] < MaxRetry THEN tries[s] + 1
                          ELSE tries[s]) \in 0 .. MaxRetry
    BY RetryBounds
  <2> QED
    BY <1>1, <2>1 DEF Count
<1>2. ASSUME NEW b \in BOOLEAN, dual_boot(b)
      PROVE  tries' \in [Slots -> 0 .. MaxRetry] /\ cut' \subseteq Slots
  <2>1. ram.cur \in Slots
    BY DEF Envs
  <2> QED
    BY <1>1, <1>2, <2>1 DEF dual_boot
<1>3. CASE StartCount
  BY <1>1, <1>3 DEF StartCount
<1>4. 0 \in 0 .. MaxRetry
  BY RetryBounds
<1>5. CASE SystemUp \/ UpgradeStart \/ UpgradeCounted \/ PowerLoss
  BY <1>4, <1>5 DEF SystemUp, UpgradeStart, UpgradeCounted, PowerLoss
<1>6. CASE Reset
  BY <1>6 DEF Reset
<1>7. CASE BootSlot \/ MarkSaved \/ NextSlot \/ SwitchSaved \/ SwitchFails \/ Watchdog
           \/ UpgradeFails \/ UpgradeWritten \/ UpgradeSaved \/ Calm \/ UNCHANGED vars
  BY <1>7 DEF BootSlot, MarkSaved, NextSlot, SwitchSaved, SwitchFails, Watchdog,
     UpgradeFails, UpgradeWritten, UpgradeSaved, Calm, histVars, vars
<1> QED
  BY <1>2, <1>3, <1>5, <1>6, <1>7 DEF Next, Run, Disturbance, BoardBoot, BootConf

LEMMA CountInvStep ==
    ASSUME StateType, CountInv, [Next]_vars
    PROVE  CountInv'
<1>t. tries' \in [Slots -> 0 .. MaxRetry] /\ slot \in Slots /\ image \in [Slots -> Images]
  BY TriesStep DEF StateType
<1>1. CASE UNCHANGED <<reg, tries, cut, image>> /\ pc \notin {"post", "clear"}
  BY <1>1, CountKept DEF Excused
<1>2. ASSUME NEW b \in BOOLEAN, dual_boot(b)
      PROVE  CountInv'
  <2>0. pc = "prompt" /\ UNCHANGED image
    BY <1>2 DEF dual_boot
  <2>1. CASE UNCHANGED <<reg, tries, cut>>
    BY <1>1, <2>0, <2>1
  <2>2. CASE ~GivesUp(ram.cur) /\ Count(ram.cur, BootCount(ram.cur) + 1)
    <3>1. PICK s \in Slots : s = ram.cur
      BY DEF StateType, Envs
    <3>2. /\ BootCount(s) \in 0 .. maxcount
          /\ BootCount(s) <= tries[s] \/ Excused(s)
      BY CountIsFair
    <3>3. PICK n \in Nat : n = BootCount(s) + 1
      BY <3>2, RetryBounds
    <3>4. ~GivesUp(s) /\ Count(s, n)
      BY <2>2, <3>1, <3>3
    <3>5. /\ n >= 1
          /\ maxcount # 0 => n <= maxcount
          /\ maxcount = 0 => n = 1
      BY <3>2, <3>3, <3>4, RetryBounds DEF GivesUp
    <3>6. n > 1 /\ Excused(s) => Excused(s)'
      BY <2>0, <3>4 DEF Count, Excused
    <3>7. n > 1 => tries[s] >= n - 1 \/ Excused(s)'
      <4>1. tries[s] \in Nat
        BY DEF StateType
      <4> QED
        BY <3>2, <3>3, <3>6, <4>1, RetryBounds
    <3> QED
      BY <3>4, <3>5, <3>7, CountStep
  <2> QED
    BY <1>2, <2>1, <2>2 DEF dual_boot
<1>3. CASE StartCount
  <2>1. slot \in Slots /\ Count(slot, 1)
    BY <1>3 DEF StartCount, StateType
  <2> QED
    BY <2>1, CountStep, RetryBounds
<1>4. CASE SystemUp
  BY <1>t, <1>4, ResetStep DEF SystemUp
<1>5. CASE UpgradeCounted
  <2>1. dual_boot_set_boot_count(slot, 0) = Pack(slot, 0)
    BY RetryBounds DEF dual_boot_set_boot_count
  <2> QED
    BY <1>t, <1>5, <2>1, ResetStep DEF UpgradeCounted
<1>6. CASE PowerLoss
  <2>1. 0 \in Slots /\ 0 \in 0 .. MaxRetry /\ 0 \in 0 .. maxcount
    BY RetryBounds DEF Slots, DUAL_BOOT_MAX_SLOTS
  <2>2. reg' = Pack(0, 0) /\ tries' = [s \in Slots |-> 0]
    BY <1>6, ClearedIsZero DEF PowerLoss
  <2> QED
    BY <2>1, <2>2 DEF CountInv, Pack, Neg, maxcount
<1>7. CASE BootSlot \/ MarkSaved \/ NextSlot \/ SwitchSaved \/ SwitchFails \/ Watchdog
           \/ UpgradeFails
  BY <1>1, <1>7 DEF BootSlot, MarkSaved, NextSlot, SwitchSaved, SwitchFails,
     Watchdog, UpgradeFails, histVars
<1>8. CASE UpgradeStart
  <2> DEFINE s == dual_boot_get_next_slot
  <2>1. s \in Slots
    BY NextIsOther DEF StateType
  <2>2. /\ pc = "prompt" /\ UNCHANGED reg /\ image' = [image EXCEPT ![s] = "broken"]
        /\ tries' = [tries EXCEPT ![s] = 0] /\ cut' = cut \ {s}
    BY <1>8 DEF UpgradeStart, UpgradeSlot
  <2> HIDE DEF s
  <2>3. image'[s] = "broken"
    BY <1>t, <2>1, <2>2
  <2>4. \A o \in Slots : o # s => image'[o] = image[o] /\ tries'[o] = tries[o]
    BY <1>t, <2>1, <2>2 DEF StateType
  <2> QED
    BY <2>1, <2>2, <2>3, <2>4, CountKept DEF Excused
<1>9. CASE UpgradeWritten
  <2>1. PICK u \in Uploads : image' = [image EXCEPT ![slot] = u]
    BY <1>9 DEF UpgradeWritten
  <2>2. pc = "write" /\ pc' = "post" /\ UNCHANGED <<reg, slot, tries, cut>>
    BY <1>9 DEF UpgradeWritten
  <2>3. \A o \in Slots : o # slot => image'[o] = image[o]
    BY <1>t, <2>1
  <2> QED
    BY <1>t, <2>2, <2>3, CountKept DEF Excused
<1>10. CASE UpgradeSaved
  BY <1>10, CountKept DEF UpgradeSaved, histVars, Excused
<1>11. CASE Reset
  BY <1>11, CountKept DEF Reset, Excused
<1>12. CASE Calm \/ UNCHANGED vars
  BY <1>12, CountKept DEF Calm, vars, Excused
<1> QED
  BY <1>2, <1>3, <1>4, <1>5, <1>6, <1>7, <1>8, <1>9, <1>10, <1>11, <1>12
     DEF Next, Run, Disturbance, BoardBoot, BootConf

LEMMA StateTypeStep ==
    ASSUME StateType, [Next]_vars
    PROVE  StateType'
<1> USE DEF StateType, Saving
<1>1. tries' \in [Slots -> 0 .. MaxRetry] /\ cut' \subseteq Slots
  BY TriesStep
<1>2. ram.cur \in Slots
  BY DEF Envs
<1>3. /\ \A s \in Slots : [ram EXCEPT !.inv[s] = TRUE] \in Envs
      /\ \A s \in Slots : [ram EXCEPT !.cur = s] \in Envs
      /\ \A s \in Slots : SelectUpgraded(ram, s) \in Envs
  BY EnvSteps, SelectedIsEnv
<1>4. dual_boot_get_next_slot \in Slots
  BY NextIsOther
<1>5. ASSUME NEW b \in BOOLEAN, dual_boot(b) PROVE StateType'
  BY <1>1, <1>2, <1>3, <1>5 DEF dual_boot
<1>6. CASE BootSlot
  BY <1>3, <1>6 DEF BootSlot, MarkSlot, histVars
<1>7. CASE MarkSaved
  BY <1>7, SavesEnv DEF MarkSaved, histVars
<1>8. CASE NextSlot
  BY <1>3, <1>4, <1>8 DEF NextSlot, histVars
<1>9. CASE SwitchSaved
  BY <1>9, SavesEnv DEF SwitchSaved, histVars
<1>10. CASE SwitchFails
  BY <1>10, SavesEnv DEF SwitchFails, histVars
<1>11. CASE StartCount
  BY <1>1, <1>11 DEF StartCount
<1>12. CASE SystemUp
  BY <1>1, <1>12 DEF SystemUp
<1>13. CASE Watchdog
  BY <1>13 DEF Watchdog, histVars
<1>14. CASE UpgradeStart
  BY <1>1, <1>4, <1>14 DEF UpgradeStart, UpgradeSlot, Images
<1>15. CASE UpgradeFails
  BY <1>15 DEF UpgradeFails, histVars
<1>16. CASE UpgradeWritten
  <2>1. Uploads \subseteq Images
    BY DualBootAssumption DEF Images
  <2> QED
    BY <1>3, <1>16, <2>1 DEF UpgradeWritten
<1>17. CASE UpgradeSaved
  BY <1>17, SavesEnv DEF UpgradeSaved, histVars
<1>18. CASE Reset
  BY <1>1, <1>18, SavesEnv DEF Reset
<1>19. CASE PowerLoss
  BY <1>1, <1>19, SavesEnv DEF PowerLoss
<1>20. CASE Calm
  BY <1>20 DEF Calm
<1>21. CASE UNCHANGED vars
  BY <1>21 DEF vars
<1>22. CASE UpgradeCounted
  BY <1>1, <1>22 DEF UpgradeCounted
<1> QED
  BY <1>5, <1>6, <1>7, <1>8, <1>9, <1>10, <1>11, <1>12, <1>13, <1>14, <1>15,
     <1>16, <1>17, <1>18, <1>19, <1>20, <1>21, <1>22
     DEF Next, Run, Disturbance, BoardBoot, BootConf

LEMMA ControlInvStep ==
    ASSUME StateType, ControlInv, [Next]_vars
    PROVE  ControlInv'
<1> USE DEF ControlInv, TriesBoth
<1>1. ram \in Envs /\ ram.cur \in Slots /\ slot \in Slots
  BY DEF StateType, Envs
<1>2. ASSUME NEW s \in Slots
      PROVE  /\ [ram EXCEPT !.inv[s] = TRUE].cur = ram.cur
             /\ [ram EXCEPT !.inv[s] = TRUE].inv[s]
             /\ \A o \in Slots : ram.inv[o] => [ram EXCEPT !.inv[s] = TRUE].inv[o]
             /\ [ram EXCEPT !.cur = s].cur = s
             /\ [ram EXCEPT !.cur = s].inv = ram.inv
  <2>1. [ram EXCEPT !.inv[s] = TRUE].inv = [ram.inv EXCEPT ![s] = TRUE]
    BY <1>1, EnvSteps
  <2>2. ram.inv \in [Slots -> BOOLEAN]
    BY <1>1, SMT DEF Envs
  <2>3. [ram.inv EXCEPT ![s] = TRUE][s]
    BY <2>2, Zenon
  <2>4. [ram EXCEPT !.inv[s] = TRUE].inv[s]
    BY <2>1, <2>3, Zenon
  <2>5. \A o \in Slots : ram.inv[o] => [ram.inv EXCEPT ![s] = TRUE][o]
    BY <2>2, Zenon
  <2>6. \A o \in Slots : ram.inv[o] => [ram EXCEPT !.inv[s] = TRUE].inv[o]
    BY <2>1, <2>5, Zenon
  <2> QED
    BY <1>1, <2>4, <2>6, EnvSteps
<1>3. /\ \A s \in Slots : s = ram.cur \/ s = dual_boot_get_next_slot
      /\ dual_boot_get_next_slot \in Slots
      /\ dual_boot_get_next_slot # ram.cur
  BY <1>1, NextIsOther
<1>4. ASSUME NEW b \in BOOLEAN, dual_boot(b) PROVE ControlInv'
  BY <1>1, <1>2, <1>4 DEF dual_boot
<1>5. CASE BootSlot
  <2>1. CASE image[slot] = "broken"
    <3>1. /\ ram'.cur = ram.cur /\ ram'.inv[slot]
          /\ \A o \in Slots : ram.inv[o] => ram'.inv[o]
      BY <1>1, <1>2, <1>5, <2>1 DEF BootSlot, MarkSlot
    <3> QED
      BY <1>1, <1>5, <2>1, <3>1 DEF BootSlot
  <2>2. CASE image[slot] # "broken"
    BY <1>1, <1>5, <2>2 DEF BootSlot
  <2> QED
    BY <2>1, <2>2
<1>6. CASE MarkSaved
  BY <1>1, <1>6 DEF MarkSaved
<1>7. CASE NextSlot
  <2>1. CASE ram.inv[dual_boot_get_next_slot]
    <3>1. \A s \in Slots : ram.inv[s]
      BY <1>3, <1>7, <2>1 DEF NextSlot
    <3>2. pc' = "prompt" /\ ram' = ram
      BY <1>7, <2>1 DEF NextSlot
    <3> QED
      BY <3>1, <3>2
  <2>2. CASE ~ram.inv[dual_boot_get_next_slot]
    <3>1. /\ pc' = "switch" /\ slot' = dual_boot_get_next_slot
          /\ ram'.cur = slot' /\ ram'.inv = ram.inv
      BY <1>2, <1>3, <1>7, <2>2 DEF NextSlot
    <3>2. \A o \in Slots : o # slot' => ram'.inv[o]
      BY <1>3, <1>7, <3>1 DEF NextSlot
    <3> QED
      BY <3>1, <3>2
  <2> QED
    BY <2>1, <2>2
<1>8. CASE SwitchSaved \/ SwitchFails \/ StartCount
  BY <1>1, <1>8 DEF SwitchSaved, SwitchFails, StartCount
<1>9. CASE SystemUp \/ Watchdog \/ UpgradeStart \/ UpgradeFails
  BY <1>9 DEF SystemUp, Watchdog, UpgradeStart, UpgradeFails
<1>10. CASE UpgradeWritten \/ UpgradeSaved \/ UpgradeCounted
  BY <1>10 DEF UpgradeWritten, UpgradeSaved, UpgradeCounted
<1>11. CASE Reset \/ PowerLoss \/ Calm
  BY <1>11 DEF Reset, PowerLoss, Calm
<1>12. CASE UNCHANGED vars
  BY <1>12 DEF vars
<1> QED
  BY <1>4, <1>5, <1>6, <1>7, <1>8, <1>9, <1>10, <1>11, <1>12
     DEF Next, Run, Disturbance, BoardBoot, BootConf

\* The state of dual_boot() and what it has counted and marked, in every
\* state that is reached
THEOREM Invariance == Spec => []Inv
<1>1. Init => Inv
  BY InitInv
<1>2. Inv /\ [Next]_vars => Inv'
  BY CountInvStep, StateTypeStep, ControlInvStep DEF Inv
<1> QED
  BY <1>1, <1>2, PTL DEF Spec

\* The register always holds what dual_boot_get_boot_count() accepts, and the
\* other variables keep their types.
THEOREM TypeCorrect == Spec => []TypeOK
<1>1. Inv => TypeOK
  BY CountIsType DEF Inv, StateType, TypeOK
<1> QED
  BY <1>1, Invariance, PTL

\* dual_boot() comes back from a boot only when it has marked both slots.
THEOREM BothSlotsTried == Spec => []TriesBoth
<1>1. Inv => TriesBoth
  BY DEF Inv, ControlInv
<1> QED
  BY <1>1, Invariance, PTL

\* No image that can be started is given up for its count before it was itself
\* tried maxcount times in a row, unless a reset cut its upgrade short between
\* the save of the new slot and the reset of the count.
THEOREM TrialIsFair == Spec => FairTrial
<1> DEFINE Fair == pc = "prompt" /\ pc' = "mark1" =>
                     \/ tries[slot'] >= maxcount \/ image[slot'] = "broken"
                     \/ slot' \in cut
<1>1. ASSUME Inv, [Next]_vars, pc = "prompt", pc' = "mark1"
      PROVE  \/ tries[slot'] >= maxcount \/ image[slot'] = "broken" \/ slot' \in cut
  <2>1. \E b \in BOOLEAN : dual_boot(b)
    BY <1>1 DEF Next, Run, Disturbance, BoardBoot, BootConf, BootSlot, MarkSaved,
       NextSlot, SwitchSaved, SwitchFails, StartCount, SystemUp, Watchdog,
       UpgradeStart, UpgradeFails, UpgradeWritten, UpgradeSaved, UpgradeCounted, Reset,
       PowerLoss, Calm, vars
  <2>2. slot' = ram.cur /\ GivesUp(slot')
    BY <1>1, <2>1 DEF dual_boot
  <2>3. slot' \in Slots
    BY <1>1, <2>2 DEF Inv, StateType, Envs
  <2>4. PICK s \in Slots : s = slot'
    BY <2>3
  <2>5. BootCount(s) \in 0 .. maxcount /\ (BootCount(s) <= tries[s] \/ Excused(s))
    BY <1>1, CountIsFair DEF Inv
  <2>6. BootCount(s) >= maxcount /\ tries[s] \in Nat
    BY <1>1, <2>2, <2>4 DEF GivesUp, Inv, StateType
  <2> QED
    BY <1>1, <2>4, <2>5, <2>6, RetryBounds DEF Excused
<1>2. Inv /\ [Next]_vars => [Fair]_vars
  BY <1>1
<1> QED
  BY <1>2, Invariance, PTL DEF Spec, FairTrial

-----------------------------------------------------------------------------
(* A slot that would boot is left.  Marks in memory and marks in flash differ *)
(* after a failed save; what has to be known is which of them may come true   *)
(* together.                                                                  *)

\* A good slot that only the environment in memory has marked, not for its count
Stale(o) == image[o] = "good" /\ ram.inv[o] /\ ~env.inv[o] /\ o \notin spent

\* The slot dual_boot() is marking is one that failed or has used up its tries.
MarkedInv == pc \in {"mark1", "mark2"} => image[slot] = "broken" \/ slot \in spent

\* The slot that was upgraded is the current one and unmarked in memory.
PostInv == pc = "post" => slot = ram.cur /\ ~ram.inv[slot]

\* Such a stale mark is never on the current slot, the one an upgrade spares.
StaleInv == \A o \in Slots : Stale(o) => risky \/ ram.cur # o

\* A good slot is marked neither in flash nor in memory.
SafeInv ==
    \/ risky \/ spent # {}
    \/ \E s \in Slots : image[s] = "good" /\ ~env.inv[s] /\ ~ram.inv[s]

\* While a slot is upgraded the other one can take over.
UpgradeInv ==
    pc \in {"write", "post"} =>
        \/ risky
        \/ \A o \in Slots : o # slot => /\ image[o] = "good" /\ ~env.inv[o]
                                        /\ o \in spent \/ ~ram.inv[o]

BootInv == MarkedInv /\ PostInv /\ StaleInv /\ SafeInv /\ UpgradeInv

\* What selecting an upgraded slot does to the marks
LEMMA SelectOne ==
    ASSUME NEW e \in Envs, NEW s \in Slots, NEW f, f = SelectUpgraded(e, s)
    PROVE  /\ f.cur = s /\ ~f.inv[s]
           /\ \A o \in Slots : o # s => (f.inv[o] <=> e.inv[o])
<1> DEFINE g == [e.inv EXCEPT ![s] = FALSE]
<1>1. e.inv \in [Slots -> BOOLEAN]
  BY SMT DEF Envs
<1>2. g \in [Slots -> BOOLEAN] /\ ~g[s] /\ \A o \in Slots : o # s => (g[o] <=> e.inv[o])
  BY <1>1, Zenon
<1>3. f = [e EXCEPT !.cur = s, !.inv = g]
  BY DEF SelectUpgraded
<1> HIDE DEF g
<1>4. f.cur = s /\ f.inv = g
  BY <1>2, <1>3, SMT DEF Envs
<1> QED
  BY <1>2, <1>4, Zenon

LEMMA DefaultUnmarked == \A o \in Slots : ~DefaultEnv.inv[o]
BY DEF DefaultEnv

\* What a save leaves in flash, complete or not
LEMMA SaveMarks ==
    ASSUME env' \in {env, DefaultEnv, ram}, NEW o \in Slots
    PROVE  env'.inv[o] => env.inv[o] \/ ram.inv[o]
BY DefaultUnmarked

LEMMA BootInvInit == Init => BootInv
BY DEF Init, BootInv, MarkedInv, PostInv, StaleInv, Stale, SafeInv, UpgradeInv, Bootable

LEMMA BootInvStep ==
    ASSUME StateType, ControlInv, BootInv, [Next]_vars
    PROVE  BootInv'
<1> USE DEF BootInv, MarkedInv, PostInv, StaleInv, Stale, SafeInv, UpgradeInv
<1>1. /\ ram \in Envs /\ env \in Envs /\ ram.cur \in Slots /\ slot \in Slots
      /\ image \in [Slots -> Images] /\ spent \subseteq Slots
  BY DEF StateType, Envs
<1>2. /\ \A s \in Slots : s = ram.cur \/ s = dual_boot_get_next_slot
      /\ dual_boot_get_next_slot \in Slots
      /\ dual_boot_get_next_slot # ram.cur
  BY <1>1, NextIsOther
<1>3. ASSUME NEW b \in BOOLEAN, dual_boot(b) PROVE BootInv'
  <2>1. UNCHANGED <<image, env, risky>> /\ slot' = ram.cur
    BY <1>3 DEF dual_boot
  <2>2. CASE pc' = "mark1"
    <3>1. /\ ram' = [ram EXCEPT !.inv[ram.cur] = TRUE] /\ spent' = spent \cup {ram.cur}
      BY <1>3, <2>2 DEF dual_boot
    <3>2. /\ ram'.cur = ram.cur /\ ram'.inv[ram.cur]
          /\ \A o \in Slots : o # ram.cur => (ram'.inv[o] <=> ram.inv[o])
      <4>1. ram'.cur = ram.cur /\ ram'.inv = [ram.inv EXCEPT ![ram.cur] = TRUE]
        BY <1>1, <3>1, EnvSteps
      <4> DEFINE g == [ram.inv EXCEPT ![ram.cur] = TRUE]
      <4>2. g[ram.cur] /\ \A o \in Slots : o # ram.cur => (g[o] <=> ram.inv[o])
        <5>1. ram.inv \in [Slots -> BOOLEAN]
          BY <1>1, SMT DEF Envs
        <5> QED
          BY <1>1, <5>1, Zenon
      <4> HIDE DEF g
      <4>3. ram'.inv = g
        BY <4>1 DEF g
      <4> QED
        BY <4>1, <4>2, <4>3
    <3> QED
      BY <1>1, <2>1, <2>2, <3>1, <3>2
  <2>3. CASE pc' # "mark1"
    <3>1. UNCHANGED <<ram, spent>> /\ pc' \in {"next", "try1"}
      BY <1>3, <2>3 DEF dual_boot
    <3> QED
      BY <2>1, <3>1
  <2> QED
    BY <2>2, <2>3
<1>4. CASE BootSlot
  <2>1. UNCHANGED <<image, env, slot, risky, spent>>
    BY <1>4 DEF BootSlot, histVars
  <2>2. CASE image[slot] = "broken"
    <3>1. ram' = [ram EXCEPT !.inv[slot] = TRUE] /\ pc' \in {"mark1", "mark2"}
      BY <1>4, <2>2 DEF BootSlot, MarkSlot
    <3>2. /\ ram'.cur = ram.cur /\ ram'.inv[slot]
          /\ \A o \in Slots : o # slot => (ram'.inv[o] <=> ram.inv[o])
      <4>1. ram'.cur = ram.cur /\ ram'.inv = [ram.inv EXCEPT ![slot] = TRUE]
        BY <1>1, <3>1, EnvSteps
      <4> DEFINE g == [ram.inv EXCEPT ![slot] = TRUE]
      <4>2. g[slot] /\ \A o \in Slots : o # slot => (g[o] <=> ram.inv[o])
        <5>1. ram.inv \in [Slots -> BOOLEAN]
          BY <1>1, SMT DEF Envs
        <5> QED
          BY <1>1, <5>1, Zenon
      <4> HIDE DEF g
      <4>3. ram'.inv = g
        BY <4>1 DEF g
      <4> QED
        BY <4>1, <4>2, <4>3
    <3> QED
      BY <1>1, <2>1, <2>2, <3>1, <3>2
  <2>3. CASE image[slot] # "broken"
    <3>1. UNCHANGED ram /\ pc' \in {"kernel", "prompt"}
      BY <1>4, <2>3 DEF BootSlot
    <3> QED
      BY <2>1, <3>1
  <2> QED
    BY <2>2, <2>3
<1>5. CASE MarkSaved
  <2>1. /\ UNCHANGED <<image, ram, slot, risky, spent>> /\ pc' \in {"next", "prompt"}
        /\ env' \in {env, DefaultEnv, ram} /\ slot = ram.cur
    BY <1>5 DEF MarkSaved, histVars, Saved, NotSaved, ControlInv
  <2>2. \A o \in Slots : env'.inv[o] => env.inv[o] \/ ram.inv[o]
    BY <2>1, SaveMarks
  <2>3. image[ram.cur] = "broken" \/ ram.cur \in spent
    BY <1>5, <2>1 DEF MarkSaved
  <2> QED
    BY <1>1, <2>1, <2>2, <2>3
<1>6. CASE NextSlot
  <2>1. UNCHANGED <<image, env, risky, spent>> /\ pc' \in {"prompt", "switch"}
    BY <1>6 DEF NextSlot, histVars
  <2>2. CASE ram.inv[dual_boot_get_next_slot]
    <3>1. UNCHANGED ram
      BY <1>6, <2>2 DEF NextSlot
    <3> QED
      BY <2>1, <3>1
  <2>3. CASE ~ram.inv[dual_boot_get_next_slot]
    <3>1. ram' = [ram EXCEPT !.cur = dual_boot_get_next_slot]
      BY <1>6, <2>3 DEF NextSlot
    <3>2. ram'.cur = dual_boot_get_next_slot /\ ram'.inv = ram.inv
      BY <1>1, <1>2, <3>1, EnvSteps
    <3> QED
      BY <2>1, <2>3, <3>2
  <2> QED
    BY <2>2, <2>3
<1>7. CASE SwitchSaved
  <2>1. UNCHANGED <<image, ram, risky, spent>> /\ pc' = "count" /\ env' = ram
    BY <1>7 DEF SwitchSaved, histVars, Saved
  <2> QED
    BY <2>1
\* A reset with whatever a save that was cut short leaves
<1>8. ASSUME env' \in {env, DefaultEnv, ram}, ram' = env', pc' = "prompt",
             UNCHANGED <<image, risky, spent>>
      PROVE  BootInv'
  <2>1. \A o \in Slots : env'.inv[o] => env.inv[o] \/ ram.inv[o]
    BY <1>8, SaveMarks
  <2> QED
    BY <1>8, <2>1
<1>9. CASE SwitchFails \/ Watchdog \/ Reset \/ PowerLoss
  BY <1>8, <1>9 DEF SwitchFails, Watchdog, Reset, PowerLoss, NotSaved, CutShort, histVars
<1>10. CASE StartCount
  <2>1. UNCHANGED <<image, env, ram, risky, spent>> /\ pc' = "try2"
    BY <1>10 DEF StartCount
  <2> QED
    BY <2>1
<1>11. CASE SystemUp
  <2>1. UNCHANGED <<image, env, ram, risky, spent>> /\ pc' = "os"
    BY <1>11 DEF SystemUp
  <2> QED
    BY <2>1
<1>12. CASE UpgradeStart
  <2> DEFINE s == dual_boot_get_next_slot
  <2>1. /\ UNCHANGED <<env, ram, spent>> /\ pc' = "write" /\ slot' = s
        /\ image' = [image EXCEPT ![s] = "broken"]
        /\ risky' = (risky \/ \A o \in Slots \ {s} : image[o] # "good" \/ env.inv[o])
    BY <1>12 DEF UpgradeStart, UpgradeSlot
  <2>2. image'[s] = "broken" /\ image'[ram.cur] = image[ram.cur]
    BY <1>1, <1>2, <2>1
  <2> HIDE DEF s
  <2>3. CASE image[ram.cur] # "good" \/ env.inv[ram.cur]
    <3>1. risky'
      BY <1>2, <2>1, <2>3 DEF s
    <3> QED
      BY <2>1, <3>1
  <2>4. CASE image[ram.cur] = "good" /\ ~env.inv[ram.cur]
    <3>1. \A o \in Slots : o # s <=> o = ram.cur
      BY <1>2 DEF s
    <3>2. risky \/ ram.cur \in spent \/ ~ram.inv[ram.cur]
      BY <1>1, <2>4
    <3>3. risky => risky'
      BY <2>1
    <3> QED
      BY <1>1, <2>1, <2>2, <2>4, <3>1, <3>2, <3>3
  <2> QED
    BY <2>3, <2>4
<1>13. CASE UpgradeFails
  <2>1. UNCHANGED <<image, env, ram, risky, spent>> /\ pc' = "prompt"
    BY <1>13 DEF UpgradeFails, histVars
  <2> QED
    BY <2>1
<1>14. CASE UpgradeWritten
  <2>1. PICK i \in Uploads : image' = [image EXCEPT ![slot] = i]
    BY <1>14 DEF UpgradeWritten
  <2>2. /\ UNCHANGED <<env, slot, risky>> /\ pc = "write" /\ pc' = "post"
        /\ ram' = SelectUpgraded(ram, slot) /\ spent' = spent \ {slot}
    BY <1>14 DEF UpgradeWritten
  <2>3. /\ ram'.cur = slot /\ ~ram'.inv[slot]
        /\ \A o \in Slots : o # slot => (ram'.inv[o] <=> ram.inv[o])
    BY <1>1, <2>2, SelectOne
  <2>4. \A o \in Slots : o # slot => image'[o] = image[o]
    BY <1>1, <2>1
  <2>5. PICK p \in Slots : p # slot
    BY <1>1, <1>2
  <2>6. CASE risky
    BY <2>2, <2>3, <2>6
  <2>7. CASE ~risky
    <3>1. image[p] = "good" /\ ~env.inv[p] /\ (p \in spent \/ ~ram.inv[p])
      BY <2>2, <2>5, <2>7
    <3>2. SafeInv'
      BY <2>2, <2>3, <2>4, <2>5, <3>1
    <3>3. UpgradeInv'
      BY <2>2, <2>3, <2>4, <2>7
    <3> QED
      BY <2>2, <2>3, <3>2, <3>3
  <2> QED
    BY <2>6, <2>7
<1>15. CASE UpgradeSaved
  <2>1. /\ UNCHANGED <<image, ram, slot, risky, spent>> /\ pc' = "clear"
        /\ env' \in {env, DefaultEnv, ram} /\ slot = ram.cur /\ ~ram.inv[slot]
    BY <1>15 DEF UpgradeSaved, Saved, NotSaved, histVars
  <2>2. \A o \in Slots : env'.inv[o] => env.inv[o] \/ ram.inv[o]
    BY <2>1, SaveMarks
  <2> QED
    BY <1>1, <2>1, <2>2
<1>16. CASE Calm
  <2>1. UNCHANGED <<image, env, ram, slot, risky, spent, pc>>
    BY <1>16 DEF Calm
  <2> QED
    BY <2>1
<1>17. CASE UNCHANGED vars
  BY <1>17 DEF vars
<1>18. CASE UpgradeCounted
  <2>1. UNCHANGED <<image, env, ram, risky, spent>> /\ pc' = "prompt"
    BY <1>18 DEF UpgradeCounted
  <2> QED
    BY <2>1
<1> QED
  BY <1>3, <1>4, <1>5, <1>6, <1>7, <1>9, <1>10, <1>11, <1>12, <1>13, <1>14, <1>15,
     <1>16, <1>17, <1>18
     DEF Next, Run, Disturbance, BoardBoot, BootConf

\* After any resets, power losses, failed saves and upgrades a slot that would
\* boot is left, unless one was given up for its count or an upgrade began when
\* the current slot would not have booted.
THEOREM BootableSlotIsLeft == Spec => []StaysBootable
<1>1. Init => BootInv
  BY BootInvInit
<1>2. Inv /\ BootInv /\ [Next]_vars => BootInv'
  BY BootInvStep DEF Inv
<1>3. BootInv => StaysBootable
  BY DEF BootInv, SafeInv, StaysBootable, Bootable
<1> QED
  BY <1>1, <1>2, <1>3, Invariance, PTL DEF Spec
=============================================================================
