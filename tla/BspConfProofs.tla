--------------------------- MODULE BspConfProofs ---------------------------
(***************************************************************************)
(* Proofs about BspConf, for every length of the counter.                  *)
(***************************************************************************)
EXTENDS BspConf, TLAPS

-----------------------------------------------------------------------------
(* Configurations *)

\* check_bsp_conf() tells a complete configuration from a broken one.
LEMMA CompleteIsUsable == NoConf \notin Confs
<1>1. NoConf.invalid = << >>
  BY DEF NoConf
<1>2. DOMAIN << >> = {}
  BY SMT
<1>3. ASSUME NEW f \in [Slots -> BOOLEAN] PROVE f # << >>
  <2>1. DOMAIN f = Slots
    OBVIOUS
  <2>2. 0 \in Slots
    BY SMT DEF Slots, FIP_NUM
  <2> QED
    BY <1>2, <2>1, <2>2
<1>4. \A c \in Confs : c.invalid \in [Slots -> BOOLEAN]
  BY SMT DEF Confs
<1> QED
  BY <1>1, <1>3, <1>4

\* Marking a slot leaves a configuration with the same counter and slot.
LEMMA Marked ==
    ASSUME NEW c \in Confs, NEW s \in Slots
    PROVE  /\ MarkInvalid(c, s) \in Confs
           /\ MarkInvalid(c, s).upd_cnt = c.upd_cnt
           /\ MarkInvalid(c, s).current_fip_slot = c.current_fip_slot
<1> DEFINE g == [c.invalid EXCEPT ![s] = TRUE]
<1>1. g \in [Slots -> BOOLEAN]
  BY SMT DEF Confs
<1>2. MarkInvalid(c, s) = [c EXCEPT !.invalid = g]
  BY DEF MarkInvalid
<1> HIDE DEF g
<1>3. ASSUME NEW f \in [Slots -> BOOLEAN]
      PROVE  /\ [c EXCEPT !.invalid = f] \in Confs
             /\ [c EXCEPT !.invalid = f].upd_cnt = c.upd_cnt
             /\ [c EXCEPT !.invalid = f].current_fip_slot = c.current_fip_slot
  BY SMT DEF Confs
<1> QED
  BY <1>1, <1>2, <1>3

LEMMA ZeroIsConf == ZeroConf \in Confs
<1>1. [s \in Slots |-> FALSE] \in [Slots -> BOOLEAN]
  OBVIOUS
<1>2. 0 \in 0 .. CntLimit - 1
  BY BspConfAssumption, SMT
<1>3. 0 \in Slots
  BY SMT DEF Slots, FIP_NUM
<1> QED
  BY <1>1, <1>2, <1>3, SMT DEF ZeroConf, Confs

\* get_fip_slot() hands back a configuration, and the counter is not touched.
LEMMA SlotChoice ==
    ASSUME NEW c \in Confs, NEW b \in BOOLEAN
    PROVE  /\ get_fip_slot(c, b).conf \in Confs
           /\ get_fip_slot(c, b).conf.upd_cnt = c.upd_cnt
<1> DEFINE s == c.current_fip_slot
           t == (s + 1) % FIP_NUM
           d == MarkInvalid(c, s)
<1>1. s \in Slots /\ t \in Slots
  BY SMT DEF Confs, Slots, FIP_NUM
<1>2. d \in Confs /\ d.upd_cnt = c.upd_cnt
  BY <1>1, Marked
<1>3. MarkInvalid(d, t) \in Confs /\ MarkInvalid(d, t).upd_cnt = d.upd_cnt
  BY <1>1, <1>2, Marked
<1>4. /\ [d EXCEPT !.current_fip_slot = t] \in Confs
      /\ [d EXCEPT !.current_fip_slot = t].upd_cnt = d.upd_cnt
  BY <1>1, <1>2, SMT DEF Confs
<1>5. get_fip_slot(c, b).conf \in {c, [d EXCEPT !.current_fip_slot = t], MarkInvalid(d, t)}
  BY DEF get_fip_slot
<1> QED
  BY <1>2, <1>3, <1>4, <1>5

-----------------------------------------------------------------------------
(* Types *)

LEMMA PickedType ==
    ASSUME TypeOK
    PROVE  /\ Picked \in Copies \cup {0}
           /\ Picked = 0 <=> Usable = {}
           /\ Picked # 0 => Picked \in Usable /\ copy[Picked] \in Confs
<1>1. Usable \subseteq Copies
  BY DEF Usable
<1>2. Newer(copy[1], copy[2]) \in Copies
  BY DEF Newer, Copies
<1>3. Usable # {} /\ Usable # Copies => (CHOOSE n \in Usable : TRUE) \in Usable
  OBVIOUS
<1>4. 0 \notin Copies
  BY DEF Copies
<1>5. /\ Picked \in Copies \cup {0}
      /\ Picked = 0 <=> Usable = {}
      /\ Picked # 0 => Picked \in Usable
  BY <1>1, <1>2, <1>3, <1>4 DEF Picked
<1>6. \A n \in Usable : copy[n] \in Confs
  BY DEF Usable, check_bsp_conf, TypeOK
<1> QED
  BY <1>5, <1>6

\* A configuration that is saved keeps its slots and gets a counter in range.
LEMMA SaveType ==
    ASSUME NEW c \in Confs, NEW b \in BOOLEAN, StartSave(c, b)
    PROVE  /\ curr' \in Confs
           /\ curr'.upd_cnt = (c.upd_cnt + 1) % CntLimit
           /\ curr'.current_fip_slot = c.current_fip_slot
           /\ again' \in BOOLEAN
           /\ pc' = "save"
<1>1. (c.upd_cnt + 1) % CntLimit \in 0 .. CntLimit - 1
  <2>1. c.upd_cnt \in Nat /\ CntLimit \in Nat \ {0}
    BY BspConfAssumption, SMT DEF Confs
  <2> QED
    BY <2>1, SMT
<1>2. curr' = [c EXCEPT !.upd_cnt = (c.upd_cnt + 1) % CntLimit]
  BY DEF StartSave
<1>3. again' \in BOOLEAN /\ pc' = "save"
  BY DEF StartSave
<1> HIDE DEF StartSave
<1> QED
  BY <1>1, <1>2, <1>3, SMT DEF Confs

\* What BL2 hands over is a configuration, and the slot it names can be loaded.
LEMMA HandedOver ==
    ASSUME TypeOK, bl2_load_images
    PROVE  /\ passed' \in Confs
           /\ pc' \in {"import", "dead"}
           /\ pc' = "import" => fip[passed'.current_fip_slot] = "good"
<1> DEFINE c == IF Picked = 0 THEN ZeroConf ELSE copy[Picked]
           first == get_fip_slot(c, FALSE)
           second == get_fip_slot(first.conf, TRUE)
<1>1. c \in Confs
  BY PickedType, ZeroIsConf
<1> HIDE DEF c
<1>2. first.conf \in Confs
  BY <1>1, SlotChoice
<1> HIDE DEF first
<1>3. second.conf \in Confs
  BY <1>2, SlotChoice
<1> HIDE DEF second
<1>4. passed \in Confs
  BY DEF TypeOK
<1>5. \/ passed' = first.conf /\ pc' = "import" /\ Loads(first.conf)
      \/ passed' = second.conf /\ pc' = "import" /\ Loads(second.conf)
      \/ passed' = passed /\ pc' = "dead"
  BY DEF bl2_load_images, c, first, second
<1> QED
  BY <1>2, <1>3, <1>4, <1>5 DEF Loads

\* The configuration import_bsp_conf_bl2() works with: BL2's, with U-Boot's counter.
LEMMA Merged ==
    ASSUME TypeOK
    PROVE  LET b == [passed EXCEPT !.upd_cnt = curr.upd_cnt]
           IN  /\ b \in Confs
               /\ b.upd_cnt = curr.upd_cnt
               /\ b.current_fip_slot = passed.current_fip_slot
  BY SMT DEF TypeOK, Confs

\* The configuration an upgrade saves.
LEMMA Upgraded ==
    ASSUME NEW c \in Confs
    PROVE  LET d == [c EXCEPT !.current_fip_slot = UpgradeSlot(c),
                              !.invalid[UpgradeSlot(c)] = FALSE]
           IN  /\ UpgradeSlot(c) \in Slots \ {c.current_fip_slot}
               /\ d \in Confs
               /\ d.upd_cnt = c.upd_cnt
               /\ d.current_fip_slot = UpgradeSlot(c)
<1> DEFINE u == UpgradeSlot(c)
           e == [c EXCEPT !.current_fip_slot = u]
           g == [e.invalid EXCEPT ![u] = FALSE]
           d == [c EXCEPT !.current_fip_slot = u, !.invalid[u] = FALSE]
<1>1. u \in Slots \ {c.current_fip_slot}
  BY SMT DEF UpgradeSlot, Slots, FIP_NUM, Confs
<1> HIDE DEF u
<1>2. e \in Confs /\ e.upd_cnt = c.upd_cnt /\ e.current_fip_slot = u
  BY <1>1, SMT DEF Confs
<1>3. d = [e EXCEPT !.invalid = g]
  OBVIOUS
<1> HIDE DEF e, d
<1>4. g \in [Slots -> BOOLEAN]
  BY <1>2, SMT DEF Confs
<1> HIDE DEF g
<1>5. d \in Confs /\ d.upd_cnt = e.upd_cnt /\ d.current_fip_slot = e.current_fip_slot
  BY <1>2, <1>3, <1>4, SMT DEF Confs
<1> QED
  BY <1>1, <1>2, <1>5 DEF u, d

LEMMA NextIndexType ==
    ASSUME TypeOK
    PROVE  NextIndex \in Copies /\ NextIndex # index
  BY DEF TypeOK, NextIndex, Copies

\* Every step of BL2 and U-Boot preserves the types.
LEMMA TypeStep == TypeOK /\ [Next]_vars => TypeOK'
<1> SUFFICES ASSUME TypeOK, [Next]_vars PROVE TypeOK'
  OBVIOUS
<1> USE DEF ramVars
<1>1. CASE bl2_load_images
  <2>1. passed' \in Confs /\ pc' \in {"import", "dead"}
    BY <1>1, HandedOver
  <2>2. unsaved' \in BOOLEAN
    BY <1>1 DEF bl2_load_images
  <2> QED
    BY <1>1, <2>1, <2>2 DEF bl2_load_images, TypeOK
<1>2. CASE import_bsp_conf
  <2>1. curr' \in Confs /\ index' \in Copies \cup {0}
    BY <1>2, PickedType, ZeroIsConf DEF import_bsp_conf
  <2> QED
    BY <1>2, <2>1 DEF import_bsp_conf, TypeOK
<1>3. CASE import_bsp_conf_bl2
  <2>1. curr' \in Confs /\ again' \in BOOLEAN /\ pc' \in {"ready", "save"}
    <3>1. CASE pc' = "ready" /\ UNCHANGED <<curr, again>>
      BY <3>1 DEF TypeOK
    <3>2. ASSUME NEW b \in Confs, StartSave(b, index = 0)
          PROVE  curr' \in Confs /\ again' \in BOOLEAN /\ pc' = "save"
      BY <3>2, SaveType
    <3>3. passed \in Confs /\ [passed EXCEPT !.upd_cnt = curr.upd_cnt] \in Confs
      BY Merged DEF TypeOK
    <3> QED
      BY <1>3, <3>1, <3>2, <3>3 DEF import_bsp_conf_bl2
  <2> QED
    BY <1>3, <2>1 DEF import_bsp_conf_bl2, TypeOK
<1>4. CASE WriteConf
  BY <1>4, NextIndexType DEF WriteConf, TypeOK
<1>5. CASE SaveDone
  <2>1. curr' \in Confs /\ again' \in BOOLEAN /\ pc' \in {"ready", "save"}
    <3>1. CASE pc' = "ready" /\ UNCHANGED <<curr, again>>
      BY <3>1 DEF TypeOK
    <3>2. CASE StartSave(curr, FALSE)
      BY <3>2, SaveType DEF TypeOK
    <3> QED
      BY <1>5, <3>1, <3>2 DEF SaveDone
  <2> QED
    BY <1>5, <2>1, NextIndexType DEF SaveDone, TypeOK
<1>6. CASE SaveFails
  BY <1>6, NextIndexType DEF SaveFails, TypeOK
<1>7. CASE UpgradeFip
  BY <1>7, Upgraded DEF UpgradeFip, TypeOK, Images
<1>8. CASE FipDone
  <2>1. curr' \in Confs /\ again' \in BOOLEAN /\ pc' = "save"
    BY <1>8, Upgraded, SaveType DEF FipDone, TypeOK
  <2> QED
    BY <1>8, <2>1, Upgraded DEF FipDone, TypeOK, Images
<1>9. CASE FipFails
  BY <1>9, Upgraded DEF FipFails, TypeOK, Images
<1>10. CASE do_bspconf_save
  <2>1. curr' \in Confs /\ again' \in BOOLEAN /\ pc' = "save"
    BY <1>10, SaveType DEF do_bspconf_save, TypeOK
  <2> QED
    BY <1>10, <2>1 DEF do_bspconf_save, TypeOK
<1>11. CASE PowerCycle
  BY <1>11, ZeroIsConf DEF PowerCycle, TypeOK
<1>12. CASE UNCHANGED vars
  BY <1>12 DEF vars, TypeOK
<1> QED
  BY <1>1, <1>2, <1>3, <1>4, <1>5, <1>6, <1>7, <1>8, <1>9, <1>10, <1>11, <1>12
     DEF Next, Firmware

\* The types hold in the initial states.
LEMMA TypeInit == Init => TypeOK
  BY ZeroIsConf DEF Init, TypeOK

-----------------------------------------------------------------------------
(* Slots *)

\* Every step keeps the slot that was loaded or written last good.
LEMMA SlotStep == TypeOK /\ SlotInv /\ [Next]_vars => SlotInv'
<1> SUFFICES ASSUME TypeOK, SlotInv, [Next]_vars PROVE SlotInv'
  OBVIOUS
<1> USE DEF ramVars
<1>a. curr \in Confs /\ passed \in Confs
  BY DEF TypeOK
<1>1. CASE bl2_load_images
  <2>1. fip' = fip
    BY <1>1 DEF bl2_load_images
  <2> QED
    BY <1>1, <2>1, HandedOver DEF SlotInv, Session
<1>2. CASE import_bsp_conf
  BY <1>2 DEF import_bsp_conf, SlotInv, Session
<1>3. CASE import_bsp_conf_bl2
  <2> DEFINE b == [passed EXCEPT !.upd_cnt = curr.upd_cnt]
  <2>1. b \in Confs /\ b.current_fip_slot = passed.current_fip_slot
    BY Merged
  <2> HIDE DEF b
  <2>2. \/ b = curr /\ curr' = curr /\ pc' = "ready"
        \/ StartSave(b, index = 0)
        \/ StartSave(passed, index = 0)
    BY <1>3 DEF import_bsp_conf_bl2, b
  <2>3. curr'.current_fip_slot = passed.current_fip_slot /\ pc' \in {"ready", "save"}
    BY <1>a, <2>1, <2>2, SaveType
  <2>4. pc = "import_bl2" /\ fip' = fip
    BY <1>3 DEF import_bsp_conf_bl2
  <2> QED
    BY <2>3, <2>4 DEF SlotInv
<1>4. CASE WriteConf
  BY <1>4 DEF WriteConf, SlotInv, Session
<1>5. CASE SaveDone
  <2>1. \/ curr' = curr /\ pc' = "ready"
        \/ StartSave(curr, FALSE)
    BY <1>5 DEF SaveDone
  <2>2. curr'.current_fip_slot = curr.current_fip_slot /\ pc' \in {"ready", "save"}
    BY <1>a, <2>1, SaveType
  <2>3. pc = "saving" /\ fip' = fip
    BY <1>5 DEF SaveDone
  <2> QED
    BY <2>2, <2>3 DEF SlotInv, Session
<1>6. CASE SaveFails
  BY <1>6 DEF SaveFails, SlotInv, Session
<1>7. CASE UpgradeFip
  <2>1. UpgradeSlot(curr) # curr.current_fip_slot
    BY <1>a, Upgraded
  <2>2. curr.current_fip_slot \in Slots /\ fip[curr.current_fip_slot] = "good"
    BY <1>7, <1>a, SMT DEF UpgradeFip, SlotInv, Session, Confs
  <2>3. fip'[curr.current_fip_slot] = "good"
    BY <1>7, <2>1, <2>2 DEF UpgradeFip, TypeOK
  <2> QED
    BY <1>7, <2>2, <2>3 DEF UpgradeFip, SlotInv
<1>8. CASE FipDone
  <2> DEFINE u == UpgradeSlot(curr)
             d == [curr EXCEPT !.current_fip_slot = u, !.invalid[u] = FALSE]
  <2>1. u \in Slots /\ d \in Confs /\ d.current_fip_slot = u
    BY <1>a, Upgraded
  <2>2. StartSave(d, FALSE)
    BY <1>8 DEF FipDone
  <2>3. fip' = [fip EXCEPT ![u] = "good"]
    BY <1>8 DEF FipDone
  <2> HIDE DEF u, d
  <2>4. curr'.current_fip_slot = u /\ pc' = "save"
    BY <2>1, <2>2, SaveType
  <2>5. fip'[u] = "good"
    BY <2>1, <2>3 DEF TypeOK
  <2> QED
    BY <2>1, <2>4, <2>5 DEF SlotInv
<1>9. CASE FipFails
  <2>1. \A s \in Slots : fip[s] = "good" => fip'[s] = "good"
    BY <1>9 DEF FipFails, TypeOK
  <2>2. curr.current_fip_slot \in Slots
    BY <1>a, SMT DEF Confs
  <2> QED
    BY <1>9, <2>1, <2>2 DEF FipFails, SlotInv, Session
<1>10. CASE do_bspconf_save
  <2>1. curr'.current_fip_slot = curr.current_fip_slot /\ pc' = "save"
    BY <1>10, <1>a, SaveType DEF do_bspconf_save
  <2> QED
    BY <1>10, <2>1 DEF do_bspconf_save, SlotInv, Session
<1>11. CASE PowerCycle
  BY <1>11 DEF PowerCycle, SlotInv, Session
<1>12. CASE UNCHANGED vars
  BY <1>12 DEF vars, SlotInv
<1> QED
  BY <1>1, <1>2, <1>3, <1>4, <1>5, <1>6, <1>7, <1>8, <1>9, <1>10, <1>11, <1>12
     DEF Next, Firmware

(* Whatever upgrades are interrupted or fail, and whatever saves fail, one  *)
(* slot holds a FIP that BL2 can load: generic_ubi_write_dual_fip() and     *)
(* generic_mmc_write_dual_fip() never write the only good one.              *)
THEOREM GoodSlotKept == Spec => []OneGoodSlot
<1>1. Init => TypeOK /\ SlotInv
  <2>1. Init => SlotInv
    BY DEF Init, SlotInv, Session
  <2> QED
    BY <2>1, TypeInit
<1>2. TypeOK /\ SlotInv /\ [Next]_vars => (TypeOK /\ SlotInv)'
  BY TypeStep, SlotStep
<1>3. SlotInv => OneGoodSlot
  BY DEF SlotInv, OneGoodSlot
<1> QED
  BY <1>1, <1>2, <1>3, PTL DEF Spec

-----------------------------------------------------------------------------
(* Counters *)

\* The next save is one ahead, or wraps; no save fails just before the wrap.
LEMMA RestToSave ==
    ASSUME FailuresAreFew, NEW a \in 0 .. CntLimit - 1, NEW c \in 0 .. CntLimit - 1,
           RestCount(a, c)
    PROVE  SaveCount(a, (c + 1) % CntLimit)
<1>1. CntLimit \in Nat /\ CntLimit >= 3 /\ a \in Int /\ c \in Int /\ 0 <= c
  BY BspConfAssumption
<1>2. CASE c + 1 < CntLimit
  <2>1. (c + 1) % CntLimit = c + 1
    BY <1>1, <1>2
  <2>2. a < c + 1 /\ a + 1 .. (c + 1) - 1 \subseteq FailCnts
    BY <1>1 DEF RestCount
  <2> QED
    BY <2>1, <2>2 DEF SaveCount
<1>3. CASE c = CntLimit - 1
  <2>1. (c + 1) % CntLimit = 0
    BY <1>1, <1>3
  <2>2. c \notin FailCnts
    BY <1>3 DEF FailuresAreFew
  <2>3. a = c
    BY <1>1, <2>2 DEF RestCount
  <2> QED
    BY <1>3, <2>1, <2>3 DEF SaveCount
<1> QED
  BY <1>1, <1>2, <1>3

\* A save that fails leaves the counter ahead.
LEMMA SaveToRest ==
    ASSUME FailuresAreFew, NEW a \in 0 .. CntLimit - 1, NEW c \in FailCnts,
           SaveCount(a, c)
    PROVE  RestCount(a, c)
<1>1. c # 0 /\ c \in Int /\ a \in Int
  BY BspConfAssumption DEF FailuresAreFew
<1> QED
  BY <1>1 DEF SaveCount, RestCount

\* What import_bsp_conf() takes for the newer of two copies is the one saved last.
LEMMA SavedIsNewer ==
    ASSUME FailuresAreFew, NEW x \in Confs, NEW y \in Confs,
           SaveCount(x.upd_cnt, y.upd_cnt)
    PROVE  Newer(x, y) = 2 /\ Newer(y, x) = 1
<1> DEFINE a == x.upd_cnt
           c == y.upd_cnt
<1>1. /\ a \in 0 .. CntLimit - 1 /\ c \in 0 .. CntLimit - 1
      /\ CntLimit \in Nat /\ CntLimit >= 3
  BY BspConfAssumption, SMT DEF Confs
<1>2. ~(a = 0 /\ c = CntLimit - 1)
  <2>1. PICK v \in 1 .. CntLimit - 2 : v \notin FailCnts
    BY DEF FailuresAreFew
  <2>2. ASSUME a = 0, c = CntLimit - 1 PROVE FALSE
    <3>1. a + 1 .. c - 1 \subseteq FailCnts
      BY <1>1, <2>2 DEF SaveCount
    <3>2. v \in a + 1 .. c - 1
      BY <1>1, <2>1, <2>2
    <3> QED
      BY <2>1, <3>1, <3>2
  <2> QED
    BY <2>2
<1>3. a < c \/ (a = CntLimit - 1 /\ c = 0)
  BY DEF SaveCount
<1> HIDE DEF a, c
<1>4. /\ Newer(x, y) = IF a = CntLimit - 1 /\ c = 0 THEN 2
                        ELSE IF c = CntLimit - 1 /\ a = 0 THEN 1
                        ELSE IF a >= c THEN 1 ELSE 2
      /\ Newer(y, x) = IF c = CntLimit - 1 /\ a = 0 THEN 2
                        ELSE IF a = CntLimit - 1 /\ c = 0 THEN 1
                        ELSE IF c >= a THEN 1 ELSE 2
  BY DEF Newer, a, c
<1> QED
  BY <1>1, <1>2, <1>3, <1>4

-----------------------------------------------------------------------------
(* Copies *)

StoreInv == NewestWins /\ FreshInv /\ CountInv

\* A step that writes no copy leaves the reader's choice as it is.
LEMMA StoreUntouched ==
    ASSUME UNCHANGED <<copy, fresh>>
    PROVE  /\ Usable' = Usable /\ Picked' = Picked
           /\ NewestWins => NewestWins'
  BY DEF Usable, check_bsp_conf, Picked, Newer, NewestWins

\* The counters of complete configurations are in range.
LEMMA CountType ==
    ASSUME TypeOK, FreshInv
    PROVE  /\ curr.upd_cnt \in 0 .. CntLimit - 1
           /\ index # 0 => /\ index \in Copies /\ index \in Usable
                           /\ copy[index] \in Confs
                           /\ copy[index].upd_cnt \in 0 .. CntLimit - 1
<1>1. \A c \in Confs : c.upd_cnt \in 0 .. CntLimit - 1
  BY SMT DEF Confs
<1>2. index # 0 => index \in Copies /\ index \in Usable /\ copy[index] \in Confs
  BY DEF TypeOK, FreshInv, Usable, check_bsp_conf
<1> QED
  BY <1>1, <1>2 DEF TypeOK

\* U-Boot starts a save: import_bsp_conf_bl2(), an upgrade, "bspconf save".
LEMMA SaveStarts ==
    ASSUME FailuresAreFew, TypeOK, StoreInv, pc \in Session \ Saving,
           UNCHANGED <<copy, fresh, index>>,
           NEW c \in Confs, NEW b \in BOOLEAN, StartSave(c, b),
           index # 0 => c.upd_cnt = curr.upd_cnt
    PROVE  StoreInv'
<1>1. pc' = "save" /\ curr'.upd_cnt = (c.upd_cnt + 1) % CntLimit
  BY SaveType
<1>2. FreshInv'
  BY <1>1, StoreUntouched DEF StoreInv, FreshInv, Session, Saving
<1>3. index # 0 => SaveCount(copy[index].upd_cnt, curr'.upd_cnt)
  BY <1>1, CountType, RestToSave DEF StoreInv, CountInv
<1>4. CountInv'
  BY <1>1, <1>3 DEF CountInv, Saving
<1> QED
  BY <1>2, <1>4, StoreUntouched DEF StoreInv

\* U-Boot moves on without saving.
LEMMA SaveIdle ==
    ASSUME StoreInv, pc \in Session \ Saving, pc' \in Session \ {"save", "saving"},
           UNCHANGED <<copy, fresh, index, curr>>
    PROVE  StoreInv'
<1>1. FreshInv'
  BY StoreUntouched DEF StoreInv, FreshInv, Session, Saving
<1>2. CountInv'
  BY DEF StoreInv, CountInv, Saving
<1> QED
  BY <1>1, <1>2, StoreUntouched DEF StoreInv

\* import_bsp_conf() makes the newest copy the one in use.
LEMMA ImportStep == TypeOK /\ StoreInv /\ import_bsp_conf => StoreInv'
<1> SUFFICES ASSUME TypeOK, StoreInv, import_bsp_conf PROVE StoreInv'
  OBVIOUS
<1>1. /\ UNCHANGED <<copy, fresh>> /\ index' = Picked /\ pc' = "import_bl2"
      /\ Picked # 0 => curr' = copy[Picked]
  BY DEF import_bsp_conf
<1>2. Picked # 0 => Picked \in fresh /\ copy[Picked] \in Confs
  BY PickedType DEF StoreInv, NewestWins, FreshInv
<1>3. Picked = 0 => copy[2] = NoConf
  BY PickedType DEF Usable, check_bsp_conf, Copies
<1>4. FreshInv'
  BY <1>1, <1>2, <1>3, StoreUntouched DEF StoreInv, FreshInv, Session
<1>5. CountInv'
  <2>1. \A c \in Confs : RestCount(c.upd_cnt, c.upd_cnt)
    <3>1. \A a \in 0 .. CntLimit - 1 : RestCount(a, a)
      BY SMT DEF RestCount
    <3> QED
      BY <3>1, SMT DEF Confs
  <2> QED
    BY <1>1, <1>2, <2>1 DEF CountInv, Saving
<1> QED
  BY <1>1, <1>4, <1>5, StoreUntouched DEF StoreInv

\* A save breaks only the copy that is not in use.
LEMMA WriteStep == TypeOK /\ StoreInv /\ WriteConf => StoreInv'
<1> SUFFICES ASSUME TypeOK, StoreInv, WriteConf PROVE StoreInv'
  OBVIOUS
<1> USE DEF StoreInv
<1>1. /\ pc = "save" /\ pc' = "saving" /\ index' = index /\ curr' = curr
      /\ copy' = [copy EXCEPT ![NextIndex] = NoConf]
      /\ fresh' = fresh \ {NextIndex}
  BY DEF WriteConf, ramVars
<1>2. NextIndex \in Copies /\ NextIndex # index /\ NextIndex' = NextIndex
  BY <1>1, NextIndexType DEF NextIndex
<1>3. copy'[NextIndex] = NoConf /\ \A n \in Copies \ {NextIndex} : copy'[n] = copy[n]
  BY <1>1, <1>2 DEF TypeOK
<1>4. Usable' = Usable \ {NextIndex}
  BY <1>2, <1>3 DEF Usable, check_bsp_conf
<1>5. CASE index # 0
  <2>1. index \in Copies /\ index \in Usable /\ index \in fresh
    BY <1>5, CountType DEF FreshInv
  <2>2. Usable' = {index} /\ fresh' = {index}
    BY <1>1, <1>2, <1>4, <2>1 DEF FreshInv, Usable, Copies
  <2>3. Picked' = index
    BY <2>1, <2>2 DEF Picked, Copies
  <2>4. FreshInv'
    BY <1>1, <1>2, <1>3, <1>5, <2>2 DEF FreshInv, Session
  <2>5. CountInv'
    BY <1>1, <1>2, <1>3, <2>1 DEF CountInv, Session, Saving
  <2> QED
    BY <2>2, <2>3, <2>4, <2>5 DEF NewestWins
<1>6. CASE index = 0
  <2>1. NextIndex = 1 /\ copy[2] = NoConf
    BY <1>1, <1>6 DEF NextIndex, FreshInv, Session
  <2>2. Usable' = {} /\ fresh' = {}
    BY <1>1, <1>4, <2>1 DEF FreshInv, Usable, check_bsp_conf, Copies
  <2>3. copy'[2] = NoConf
    BY <1>3, <2>1 DEF Copies
  <2> QED
    BY <1>1, <1>2, <1>3, <1>6, <2>2, <2>3 DEF FreshInv, CountInv, NewestWins
<1> QED
  BY <1>5, <1>6

\* A copy that is written to its end is usable, and the other one is as before.
LEMMA Completed ==
    ASSUME TypeOK, StoreInv, pc = "saving",
           copy' = [copy EXCEPT ![NextIndex] = curr]
    PROVE  /\ NextIndex \in Copies /\ NextIndex # index
           /\ copy'[NextIndex] = curr /\ curr \in Confs
           /\ \A n \in Copies \ {NextIndex} : copy'[n] = copy[n]
           /\ index # 0 => Usable' = Copies /\ Copies = {index, NextIndex}
           /\ index = 0 => NextIndex = 1 /\ Usable' = {1} /\ copy'[2] = NoConf
<1>1. NextIndex \in Copies /\ NextIndex # index
  BY NextIndexType
<1>2. /\ copy'[NextIndex] = curr /\ curr \in Confs
      /\ \A n \in Copies \ {NextIndex} : copy'[n] = copy[n]
  BY <1>1 DEF TypeOK
<1>3. curr # NoConf
  BY <1>2, CompleteIsUsable
<1>4. Usable' = Usable \cup {NextIndex}
  BY <1>1, <1>2, <1>3 DEF Usable, check_bsp_conf
<1>5. index # 0 => Usable' = Copies /\ Copies = {index, NextIndex}
  BY <1>1, <1>4, CountType DEF StoreInv, Copies, Usable
<1>6. index = 0 => NextIndex = 1 /\ copy'[2] = NoConf /\ Usable' = {1}
  <2> SUFFICES ASSUME index = 0
               PROVE  NextIndex = 1 /\ copy'[2] = NoConf /\ Usable' = {1}
    OBVIOUS
  <2>1. NextIndex = 1 /\ copy[2] = NoConf
    BY DEF NextIndex, StoreInv, FreshInv, Session
  <2> QED
    BY <1>2, <1>4, <2>1 DEF Usable, check_bsp_conf, Copies
<1> QED
  BY <1>1, <1>2, <1>5, <1>6

\* A save that succeeds makes its copy the one in use and the newest.
LEMMA DoneStep == FailuresAreFew /\ TypeOK /\ StoreInv /\ SaveDone => StoreInv'
<1> SUFFICES ASSUME FailuresAreFew, TypeOK, StoreInv, SaveDone PROVE StoreInv'
  OBVIOUS
<1>1. /\ pc = "saving" /\ copy' = [copy EXCEPT ![NextIndex] = curr]
      /\ fresh' = {NextIndex} /\ index' = NextIndex
      /\ \/ StartSave(curr, FALSE)
         \/ pc' = "ready" /\ curr' = curr
  BY DEF SaveDone
<1>2. /\ NextIndex \in Copies /\ NextIndex # index
      /\ copy'[NextIndex] = curr /\ curr \in Confs
      /\ \A n \in Copies \ {NextIndex} : copy'[n] = copy[n]
      /\ index # 0 => Usable' = Copies /\ Copies = {index, NextIndex}
      /\ index = 0 => NextIndex = 1 /\ Usable' = {1} /\ copy'[2] = NoConf
  BY <1>1, Completed
<1>3. curr.upd_cnt \in 0 .. CntLimit - 1
  BY CountType DEF StoreInv
<1>4. pc' \in {"save", "ready"}
  BY <1>1, <1>2, SaveType
<1>5. Picked' = NextIndex
  <2>1. CASE index = 0
    BY <1>2, <2>1 DEF Picked, Copies
  <2>2. CASE index # 0
    <3>1. copy[index] \in Confs /\ copy'[index] = copy[index] /\ index \in Copies
      BY <1>2, <2>2, CountType DEF StoreInv
    <3>2. SaveCount(copy[index].upd_cnt, curr.upd_cnt)
      BY <1>1, <2>2 DEF StoreInv, CountInv, Session, Saving
    <3>3. Newer(copy[index], curr) = 2 /\ Newer(curr, copy[index]) = 1
      BY <1>2, <3>1, <3>2, SavedIsNewer
    <3>4. Picked' = Newer(copy'[1], copy'[2])
      BY <1>2, <2>2 DEF Picked, Copies, Newer
    <3>5. CASE index = 1
      BY <1>2, <3>1, <3>3, <3>4, <3>5 DEF NextIndex, Newer
    <3>6. CASE index = 2
      BY <1>2, <3>1, <3>3, <3>4, <3>6 DEF NextIndex, Newer
    <3> QED
      BY <3>1, <3>5, <3>6 DEF Copies
  <2> QED
    BY <2>1, <2>2
<1>6. NewestWins'
  BY <1>1, <1>5 DEF NewestWins
<1>7. FreshInv'
  BY <1>1, <1>2, <1>4 DEF FreshInv, Session, Copies
<1>8. CountInv'
  <2>1. copy'[index'].upd_cnt = curr.upd_cnt
    BY <1>1, <1>2
  <2>2. RestCount(curr.upd_cnt, curr.upd_cnt)
    BY <1>3, SMT DEF RestCount
  <2>3. CASE StartSave(curr, FALSE)
    <3>1. pc' = "save" /\ curr'.upd_cnt = (curr.upd_cnt + 1) % CntLimit
      BY <1>2, <2>3, SaveType
    <3>2. SaveCount(curr.upd_cnt, curr'.upd_cnt)
      BY <1>3, <2>2, <3>1, RestToSave
    <3> QED
      BY <2>1, <3>1, <3>2 DEF CountInv, Saving
  <2>4. CASE pc' = "ready" /\ curr' = curr
    BY <2>1, <2>2, <2>4 DEF CountInv, Saving
  <2> QED
    BY <1>1, <2>3, <2>4
<1> QED
  BY <1>6, <1>7, <1>8 DEF StoreInv

\* A save that fails leaves the copy in use, or the one just written, the newest.
LEMMA FailStep == FailuresAreFew /\ TypeOK /\ StoreInv /\ SaveFails => StoreInv'
<1> SUFFICES ASSUME FailuresAreFew, TypeOK, StoreInv, SaveFails PROVE StoreInv'
  OBVIOUS
<1>1. /\ curr.upd_cnt \in FailCnts /\ pc \in Saving /\ pc' = "ready"
      /\ curr' = curr /\ index' = index
  BY DEF SaveFails, Saving
<1>2. index # 0 => RestCount(copy[index].upd_cnt, curr.upd_cnt)
  BY <1>1, CountType, SaveToRest DEF StoreInv, CountInv, Session, Saving
<1>3. CASE UNCHANGED <<copy, fresh>>
  <2>1. FreshInv'
    BY <1>1, <1>3, StoreUntouched DEF StoreInv, FreshInv, Session, Saving
  <2>2. CountInv'
    BY <1>1, <1>2, <1>3 DEF CountInv, Saving
  <2> QED
    BY <1>3, <2>1, <2>2, StoreUntouched DEF StoreInv
<1>4. CASE /\ pc = "saving" /\ copy' = [copy EXCEPT ![NextIndex] = curr]
           /\ fresh' = fresh \cup {NextIndex}
  <2>1. /\ NextIndex \in Copies /\ NextIndex # index
        /\ \A n \in Copies \ {NextIndex} : copy'[n] = copy[n]
        /\ index # 0 => Usable' = Copies /\ Copies = {index, NextIndex}
        /\ index = 0 => NextIndex = 1 /\ Usable' = {1} /\ copy'[2] = NoConf
    BY <1>4, Completed
  <2>2. fresh \subseteq Copies /\ (index # 0 => index \in fresh)
    BY DEF TypeOK, StoreInv, FreshInv
  <2>3. index = 0 => fresh = {}
    BY <1>4 DEF StoreInv, FreshInv, Session, Usable, check_bsp_conf, Copies, NextIndex
  <2>4. fresh' = Usable'
    BY <1>4, <2>1, <2>2, <2>3
  <2>5. Picked' \in Usable'
    BY <2>1 DEF Picked, Newer, Copies
  <2>6. FreshInv'
    BY <1>1, <2>1, <2>2, <2>4 DEF FreshInv, Session, Copies
  <2>7. CountInv'
    BY <1>1, <1>2, <2>1, CountType DEF CountInv, Saving, StoreInv
  <2> QED
    BY <2>4, <2>5, <2>6, <2>7 DEF StoreInv, NewestWins
<1> QED
  BY <1>3, <1>4 DEF SaveFails

\* Every step of BL2 and U-Boot preserves the invariant of the copies.
LEMMA StoreStep == FailuresAreFew /\ TypeOK /\ StoreInv /\ [Next]_vars => StoreInv'
<1> SUFFICES ASSUME FailuresAreFew, TypeOK, StoreInv, [Next]_vars PROVE StoreInv'
  OBVIOUS
<1> USE DEF ramVars
<1>a. curr \in Confs /\ passed \in Confs
  BY DEF TypeOK
<1>b. ASSUME UNCHANGED <<copy, fresh>>, pc' \notin Session, index' = 0
      PROVE  StoreInv'
  <2>1. FreshInv'
    BY <1>b, StoreUntouched DEF StoreInv, FreshInv, Session
  <2> QED
    BY <1>b, <2>1, StoreUntouched DEF StoreInv, CountInv
<1>1. CASE bl2_load_images
  <2>1. UNCHANGED <<copy, fresh, index>> /\ pc = "off"
    BY <1>1 DEF bl2_load_images
  <2>2. index = 0
    BY <2>1 DEF StoreInv, FreshInv, Session
  <2> QED
    BY <1>1, <1>b, <2>1, <2>2, HandedOver DEF Session
<1>2. CASE import_bsp_conf
  BY <1>2, ImportStep
<1>3. CASE import_bsp_conf_bl2
  <2> DEFINE b == [passed EXCEPT !.upd_cnt = curr.upd_cnt]
  <2>1. b \in Confs /\ b.upd_cnt = curr.upd_cnt
    BY Merged
  <2> HIDE DEF b
  <2>2. /\ UNCHANGED <<copy, fresh, index>> /\ pc = "import_bl2"
        /\ \/ curr' = curr /\ pc' = "ready"
           \/ StartSave(b, index = 0)
           \/ index = 0 /\ StartSave(passed, index = 0)
    BY <1>3 DEF import_bsp_conf_bl2, b
  <2>3. pc \in Session \ Saving
    BY <2>2 DEF Session, Saving
  <2> QED
    BY <1>a, <2>1, <2>2, <2>3, SaveStarts, SaveIdle DEF Session
<1>4. CASE WriteConf
  BY <1>4, WriteStep
<1>5. CASE SaveDone
  BY <1>5, DoneStep
<1>6. CASE SaveFails
  BY <1>6, FailStep
<1>7. CASE UpgradeFip
  BY <1>7, SaveIdle DEF UpgradeFip, Session, Saving
<1>8. CASE FipDone
  <2> DEFINE u == UpgradeSlot(curr)
             d == [curr EXCEPT !.current_fip_slot = u, !.invalid[u] = FALSE]
  <2>1. d \in Confs /\ d.upd_cnt = curr.upd_cnt
    BY <1>a, Upgraded
  <2>2. StartSave(d, FALSE) /\ UNCHANGED <<copy, fresh, index>> /\ pc = "fip"
    BY <1>8 DEF FipDone
  <2> HIDE DEF u, d
  <2>3. pc \in Session \ Saving
    BY <2>2 DEF Session, Saving
  <2> QED
    BY <2>1, <2>2, <2>3, SaveStarts
<1>9. CASE FipFails
  BY <1>9, SaveIdle DEF FipFails, Session, Saving
<1>10. CASE do_bspconf_save
  <2>1. /\ StartSave(curr, FALSE) /\ UNCHANGED <<copy, fresh, index>>
        /\ pc \in Session \ Saving
    BY <1>10 DEF do_bspconf_save, Session, Saving
  <2> QED
    BY <1>a, <2>1, SaveStarts
<1>11. CASE PowerCycle
  BY <1>11, <1>b DEF PowerCycle, Session
<1>12. CASE UNCHANGED vars
  <2>1. UNCHANGED <<copy, fresh, index, curr, pc>> /\ NextIndex' = NextIndex
    BY <1>12 DEF vars, NextIndex
  <2> QED
    BY <2>1, StoreUntouched DEF StoreInv, FreshInv, CountInv
<1> QED
  BY <1>1, <1>2, <1>3, <1>4, <1>5, <1>6, <1>7, <1>8, <1>9, <1>10, <1>11, <1>12
     DEF Next, Firmware

-----------------------------------------------------------------------------
(* The inductive invariant: at every step of BL2 and U-Boot, with power     *)
(* lost anywhere, control point, counter, copies and slots fit together,    *)
(* unless saves fail at the wrap of upd_cnt or all along its range.         *)
THEOREM StorageInvariance == FailuresAreFew => (Spec => []IInv)
<1> SUFFICES ASSUME FailuresAreFew PROVE Spec => []IInv
  OBVIOUS
<1>1. Init => IInv
  <2> SUFFICES ASSUME Init PROVE IInv
    OBVIOUS
  <2>1. Usable = {}
    BY DEF Init, Usable, check_bsp_conf
  <2>2. NewestWins /\ FreshInv /\ CountInv /\ SlotInv
    BY <2>1 DEF Init, NewestWins, FreshInv, CountInv, SlotInv, Session
  <2> QED
    BY <2>2, TypeInit DEF IInv
<1>2. IInv /\ [Next]_vars => IInv'
  BY TypeStep, SlotStep, StoreStep DEF IInv, StoreInv
<1> QED
  BY <1>1, <1>2, PTL DEF Spec

(* import_bsp_conf(), in BL2 and in U-Boot, takes the configuration that    *)
(* __save_bsp_conf() wrote last, across the wrap of a counter of any        *)
(* length, under the same condition on failing saves.                       *)
THEOREM NewestIsTaken == FailuresAreFew => (Spec => []NewestWins)
<1>1. IInv => NewestWins
  BY DEF IInv
<1> QED
  BY <1>1, StorageInvariance, PTL

(* The copy that U-Boot is running on stays usable whichever saves fail,    *)
(* under the same condition: a power loss finds a configuration.            *)
THEOREM InUseStays == FailuresAreFew => (Spec => []InUseKept)
<1>1. IInv => InUseKept
  BY DEF IInv, FreshInv, InUseKept, Usable
<1> QED
  BY <1>1, StorageInvariance, PTL

-----------------------------------------------------------------------------
(* What a boot finds in storage *)

\* The configuration a boot starts from
PickedConf == IF Picked = 0 THEN ZeroConf ELSE copy[Picked]

\* Configuration c leaves a good slot unmarked.
LeavesGood(c) == \E s \in Slots : fip[s] = "good" /\ ~c.invalid[s]

\* Unless a save has failed, U-Boot works on what the next boot will read.
ResultInv ==
    pc \in {"import_bl2", "ready", "fip"} /\ ~unsaved =>
        /\ index # 0 => copy[index] = curr /\ Picked = index
        /\ pc # "import_bl2" => index # 0

\* The slot in use is not marked.
UnmarkedInv ==
    /\ pc \in {"import", "import_bl2"} => ~passed.invalid[passed.current_fip_slot]
    /\ pc \in Session \ {"import_bl2"} => ~curr.invalid[curr.current_fip_slot]

\* What the next boot reads, now or after the other copy was broken by a save
\* that was cut short, leaves a good slot unmarked.
LeavesInv ==
    /\ ~unsaved => LeavesGood(PickedConf)
    /\ ~unsaved /\ index # 0 => LeavesGood(copy[index])
    /\ BootsOnceSaved

ServedInv == ResultInv /\ UnmarkedInv /\ LeavesInv

LEMMA MarkedSlots ==
    ASSUME NEW c \in Confs, NEW s \in Slots
    PROVE  /\ MarkInvalid(c, s).invalid[s]
           /\ \A o \in Slots : o # s => (MarkInvalid(c, s).invalid[o] <=> c.invalid[o])
<1> DEFINE g == [c.invalid EXCEPT ![s] = TRUE]
<1>1. c.invalid \in [Slots -> BOOLEAN]
  BY SMT DEF Confs
<1>2. g \in [Slots -> BOOLEAN] /\ g[s] /\ \A o \in Slots : o # s => (g[o] <=> c.invalid[o])
  BY <1>1, Zenon
<1>3. MarkInvalid(c, s) = [c EXCEPT !.invalid = g]
  BY DEF MarkInvalid
<1> HIDE DEF g
<1>4. MarkInvalid(c, s).invalid = g
  BY <1>3, SMT DEF Confs
<1> QED
  BY <1>2, <1>4

\* The two slots as get_fip_slot() sees them
LEMMA OtherSlot ==
    ASSUME NEW c \in Confs
    PROVE  LET s == c.current_fip_slot
               t == (s + 1) % FIP_NUM
           IN  s \in Slots /\ t \in Slots /\ t # s /\ \A o \in Slots : o = s \/ o = t
<1>1. c.current_fip_slot \in 0 .. 1
  BY SMT DEF Confs, Slots, FIP_NUM
<1> QED
  BY <1>1, SMT DEF Slots, FIP_NUM

\* What get_fip_slot() has chosen was not marked, and marks are only added.
LEMMA ChoiceMarks ==
    ASSUME NEW c \in Confs, NEW b \in BOOLEAN
    PROVE  LET r == get_fip_slot(c, b)
           IN  /\ \A o \in Slots : c.invalid[o] => r.conf.invalid[o]
               /\ r.ok => ~r.conf.invalid[r.conf.current_fip_slot]
<1> DEFINE s == c.current_fip_slot
           t == (s + 1) % FIP_NUM
           d == MarkInvalid(c, s)
           e == [d EXCEPT !.current_fip_slot = t]
           r == get_fip_slot(c, b)
<1>1. s \in Slots /\ t \in Slots /\ t # s
  BY OtherSlot
<1>2. d \in Confs /\ \A o \in Slots : c.invalid[o] => d.invalid[o]
  BY <1>1, Marked, MarkedSlots
<1>3. e.current_fip_slot = t /\ e.invalid = d.invalid
  BY <1>2, SMT DEF Confs
<1>4. \A o \in Slots : d.invalid[o] => MarkInvalid(d, t).invalid[o]
  BY <1>1, <1>2, MarkedSlots
<1>5. \/ r = [ok |-> TRUE, conf |-> c] /\ SlotUsable(c, s)
      \/ r = [ok |-> TRUE, conf |-> e] /\ SlotUsable(d, t)
      \/ r = [ok |-> FALSE, conf |-> MarkInvalid(d, t)]
  BY DEF get_fip_slot
<1> HIDE DEF r, e, d
<1> QED
  BY <1>2, <1>3, <1>4, <1>5 DEF SlotUsable, r

\* BL2 loads a slot that is good and unmarked, at the first or second attempt.
LEMMA GoodIsLoaded ==
    ASSUME NEW c \in Confs, LeavesGood(c)
    PROVE  LET first == get_fip_slot(c, FALSE)
               second == get_fip_slot(first.conf, TRUE)
               boots == first.ok /\ Loads(first.conf)
           IN  boots \/ (first.ok /\ ~boots /\ second.ok /\ Loads(second.conf))
<1> DEFINE s == c.current_fip_slot
           t == (s + 1) % FIP_NUM
           d == MarkInvalid(c, s)
           e == [d EXCEPT !.current_fip_slot = t]
<1>1. s \in Slots /\ t \in Slots /\ t # s /\ \A o \in Slots : o = s \/ o = t
  BY OtherSlot
<1>2. d \in Confs /\ (d.invalid[t] <=> c.invalid[t])
  BY <1>1, Marked, MarkedSlots
<1>3. e.current_fip_slot = t
  BY <1>2, SMT DEF Confs
<1>4. \A b \in BOOLEAN :
        get_fip_slot(c, b) =
          IF ~b /\ SlotUsable(c, s) THEN [ok |-> TRUE, conf |-> c]
          ELSE IF SlotUsable(d, t) THEN [ok |-> TRUE, conf |-> e]
          ELSE [ok |-> FALSE, conf |-> MarkInvalid(d, t)]
  BY DEF get_fip_slot
<1> DEFINE first == get_fip_slot(c, FALSE)
           twice == get_fip_slot(c, TRUE)
           second == get_fip_slot(first.conf, TRUE)
<1>5. CASE fip[s] = "good" /\ ~c.invalid[s]
  <2>1. first = [ok |-> TRUE, conf |-> c]
    BY <1>4, <1>5 DEF SlotUsable
  <2>2. Loads(c)
    BY <1>5 DEF Loads
  <2> HIDE DEF first
  <2>3. first.ok /\ first.conf = c
    BY <2>1
  <2>4. first.ok /\ Loads(first.conf)
    BY <2>2, <2>3
  <2> QED
    BY <2>4 DEF first
<1>6. CASE fip[t] = "good" /\ ~c.invalid[t]
  <2>1. SlotUsable(d, t) /\ Loads(e)
    BY <1>2, <1>3, <1>6 DEF SlotUsable, Loads
  <2>2. twice = [ok |-> TRUE, conf |-> e]
    BY <1>4, <2>1
  <2>3. first = [ok |-> TRUE, conf |-> c] \/ first = [ok |-> TRUE, conf |-> e]
    BY <1>4, <2>1
  <2> HIDE DEF e, d, first, twice
  <2>4. first.ok /\ (first.conf = c \/ first.conf = e) /\ twice.ok /\ twice.conf = e
    BY <2>2, <2>3
  <2>5. first.conf = c => second = twice
    BY DEF twice
  <2> HIDE DEF second
  <2>6. /\ first.ok
        /\ Loads(first.conf) \/ (second.ok /\ Loads(second.conf))
    BY <2>1, <2>4, <2>5
  <2> QED
    BY <2>6 DEF first, second
<1> QED
  BY <1>1, <1>5, <1>6 DEF LeavesGood

\* What BL2 hands over names a slot that neither it nor the storage has marked.
LEMMA HandsOverUnmarked ==
    ASSUME TypeOK, bl2_load_images
    PROVE  /\ pc' = "import" => /\ ~passed'.invalid[passed'.current_fip_slot]
                                /\ LeavesGood(PickedConf)
           /\ pc' = "dead" => ~LeavesGood(PickedConf)
<1> DEFINE c == PickedConf
           first == get_fip_slot(c, FALSE)
           second == get_fip_slot(first.conf, TRUE)
<1>1. c \in Confs
  BY PickedType, ZeroIsConf DEF PickedConf
<1>2. \/ passed' = first.conf /\ pc' = "import" /\ first.ok /\ Loads(first.conf)
      \/ passed' = second.conf /\ pc' = "import" /\ second.ok /\ Loads(second.conf)
      \/ /\ pc' = "dead" /\ ~(first.ok /\ Loads(first.conf))
         /\ ~(first.ok /\ second.ok /\ Loads(second.conf))
  BY DEF bl2_load_images, PickedConf
<1>3. LeavesGood(c) => pc' # "dead"
  BY <1>1, <1>2, GoodIsLoaded
<1> HIDE DEF c
<1>4. /\ first.conf \in Confs
      /\ \A o \in Slots : c.invalid[o] => first.conf.invalid[o]
      /\ first.ok => ~first.conf.invalid[first.conf.current_fip_slot]
  BY <1>1, ChoiceMarks, SlotChoice
<1> HIDE DEF first
<1>5. /\ second.conf \in Confs
      /\ \A o \in Slots : first.conf.invalid[o] => second.conf.invalid[o]
      /\ second.ok => ~second.conf.invalid[second.conf.current_fip_slot]
  BY <1>4, ChoiceMarks, SlotChoice
<1> HIDE DEF second
<1>6. \A x \in Confs : x.current_fip_slot \in Slots
  BY SMT DEF Confs
<1>7. ASSUME pc' = "import"
      PROVE  ~passed'.invalid[passed'.current_fip_slot] /\ LeavesGood(c)
  <2>1. /\ passed' \in Confs /\ Loads(passed')
        /\ ~passed'.invalid[passed'.current_fip_slot]
        /\ \A o \in Slots : c.invalid[o] => passed'.invalid[o]
    BY <1>2, <1>4, <1>5, <1>7
  <2> QED
    BY <1>6, <2>1 DEF LeavesGood, Loads
<1> QED
  BY <1>3, <1>7 DEF c

\* Saving a configuration does not touch the marks.
LEMMA SaveKeepsMarks ==
    ASSUME NEW c \in Confs, NEW b \in BOOLEAN, StartSave(c, b)
    PROVE  /\ curr'.invalid = c.invalid /\ curr'.current_fip_slot = c.current_fip_slot
           /\ pc' = "save"
<1>1. curr' = [c EXCEPT !.upd_cnt = (c.upd_cnt + 1) % CntLimit] /\ pc' = "save"
  BY DEF StartSave
<1> QED
  BY <1>1, SMT DEF Confs

LEMMA UpgradedUnmarked ==
    ASSUME NEW c \in Confs
    PROVE  LET d == [c EXCEPT !.current_fip_slot = UpgradeSlot(c),
                              !.invalid[UpgradeSlot(c)] = FALSE]
           IN  ~d.invalid[UpgradeSlot(c)]
<1> DEFINE u == UpgradeSlot(c)
           g == [c.invalid EXCEPT ![u] = FALSE]
           d == [c EXCEPT !.current_fip_slot = u, !.invalid[u] = FALSE]
<1>1. u \in Slots
  BY Upgraded
<1>2. c.invalid \in [Slots -> BOOLEAN]
  BY SMT DEF Confs
<1>3. ~g[u]
  BY <1>1, <1>2, Zenon
<1>4. d = [c EXCEPT !.current_fip_slot = u, !.invalid = g]
  OBVIOUS
<1> HIDE DEF u, g, d
<1>5. d.invalid = g
  BY <1>4, SMT DEF Confs
<1> QED
  BY <1>3, <1>5 DEF d, u

LEMMA UnmarkedStep == TypeOK /\ UnmarkedInv /\ [Next]_vars => UnmarkedInv'
<1> SUFFICES ASSUME TypeOK, UnmarkedInv, [Next]_vars PROVE UnmarkedInv'
  OBVIOUS
<1> USE DEF ramVars, UnmarkedInv, Session
<1>a. curr \in Confs /\ passed \in Confs
  BY DEF TypeOK
<1>1. CASE bl2_load_images
  BY <1>1, HandsOverUnmarked, HandedOver
<1>2. CASE import_bsp_conf
  BY <1>2 DEF import_bsp_conf
<1>3. CASE import_bsp_conf_bl2
  <2> DEFINE b == [passed EXCEPT !.upd_cnt = curr.upd_cnt]
  <2>1. /\ b \in Confs /\ b.current_fip_slot = passed.current_fip_slot
        /\ b.invalid = passed.invalid
    BY <1>a, SMT DEF Confs
  <2> HIDE DEF b
  <2>2. \/ b = curr /\ curr' = curr /\ pc' = "ready"
        \/ StartSave(b, index = 0)
        \/ StartSave(passed, index = 0)
    BY <1>3 DEF import_bsp_conf_bl2, b
  <2>3. /\ curr'.current_fip_slot = passed.current_fip_slot
        /\ curr'.invalid = passed.invalid /\ pc' \in {"ready", "save"}
    BY <1>a, <2>1, <2>2, SaveKeepsMarks
  <2>4. pc = "import_bl2"
    BY <1>3 DEF import_bsp_conf_bl2
  <2> QED
    BY <2>3, <2>4
<1>4. CASE WriteConf
  BY <1>4 DEF WriteConf
<1>5. CASE SaveDone
  <2>1. pc = "saving" /\ ((curr' = curr /\ pc' = "ready") \/ StartSave(curr, FALSE))
    BY <1>5 DEF SaveDone
  <2>2. /\ curr'.current_fip_slot = curr.current_fip_slot /\ curr'.invalid = curr.invalid
        /\ pc' \in {"ready", "save"}
    BY <1>a, <2>1, SaveKeepsMarks
  <2> QED
    BY <2>1, <2>2
<1>6. CASE SaveFails
  BY <1>6 DEF SaveFails
<1>7. CASE UpgradeFip \/ FipFails
  BY <1>7 DEF UpgradeFip, FipFails
<1>8. CASE FipDone
  <2> DEFINE u == UpgradeSlot(curr)
             d == [curr EXCEPT !.current_fip_slot = u, !.invalid[u] = FALSE]
  <2>1. d \in Confs /\ d.current_fip_slot = u /\ ~d.invalid[u]
    BY <1>a, Upgraded, UpgradedUnmarked
  <2>2. StartSave(d, FALSE)
    BY <1>8 DEF FipDone
  <2> HIDE DEF u, d
  <2>3. /\ curr'.current_fip_slot = d.current_fip_slot /\ curr'.invalid = d.invalid
        /\ pc' = "save"
    BY <2>1, <2>2, SaveKeepsMarks
  <2> QED
    BY <2>1, <2>3
<1>9. CASE do_bspconf_save
  <2>1. pc = "ready" /\ StartSave(curr, FALSE)
    BY <1>9 DEF do_bspconf_save
  <2>2. /\ curr'.current_fip_slot = curr.current_fip_slot /\ curr'.invalid = curr.invalid
        /\ pc' = "save"
    BY <1>a, <2>1, SaveKeepsMarks
  <2> QED
    BY <2>1, <2>2
<1>10. CASE PowerCycle
  BY <1>10 DEF PowerCycle
<1>11. CASE UNCHANGED vars
  BY <1>11 DEF vars
<1> QED
  BY <1>1, <1>2, <1>3, <1>4, <1>5, <1>6, <1>7, <1>8, <1>9, <1>10, <1>11
     DEF Next, Firmware

\* A save that has succeeded is what the next boot reads.
LEMMA DoneIsPicked ==
    ASSUME TypeOK, IInv', SaveDone
    PROVE  /\ Picked' = NextIndex /\ index' = NextIndex /\ NextIndex # 0
           /\ copy'[NextIndex] = curr
<1>1. NextIndex \in Copies /\ NextIndex # 0
  BY NextIndexType DEF Copies
<1>2. copy' = [copy EXCEPT ![NextIndex] = curr] /\ fresh' = {NextIndex} /\ index' = NextIndex
  BY DEF SaveDone
<1>3. copy'[NextIndex] = curr
  BY <1>1, <1>2 DEF TypeOK
<1> QED
  BY <1>1, <1>2, <1>3 DEF IInv, NewestWins

LEMMA ResultStep ==
    ASSUME IInv, IInv', ResultInv, [Next]_vars
    PROVE  ResultInv'
<1> USE DEF ramVars, ResultInv
<1>a. TypeOK
  BY DEF IInv
<1>1. CASE bl2_load_images
  BY <1>1, <1>a, HandedOver
<1>2. CASE import_bsp_conf
  <2>1. Picked' = Picked /\ copy' = copy /\ index' = Picked /\ pc' = "import_bl2"
    BY <1>2, StoreUntouched DEF import_bsp_conf
  <2>2. index' # 0 => curr' = copy[Picked]
    BY <1>2 DEF import_bsp_conf
  <2> QED
    BY <2>1, <2>2
<1>3. CASE import_bsp_conf_bl2
  <2>1. Picked' = Picked /\ UNCHANGED <<copy, index, unsaved>> /\ pc = "import_bl2"
    BY <1>3, StoreUntouched DEF import_bsp_conf_bl2
  <2>2. pc' = "save" \/ (index # 0 /\ curr' = curr)
    BY <1>3 DEF import_bsp_conf_bl2, StartSave
  <2> QED
    BY <2>1, <2>2
<1>4. CASE WriteConf
  BY <1>4 DEF WriteConf
<1>5. CASE SaveDone
  <2>1. pc' = "save" \/ curr' = curr
    BY <1>5 DEF SaveDone, StartSave
  <2> QED
    BY <1>5, <1>a, <2>1, DoneIsPicked
<1>6. CASE SaveFails
  BY <1>6 DEF SaveFails
<1>7. CASE UpgradeFip \/ FipFails
  <2>1. /\ Picked' = Picked /\ UNCHANGED <<copy, index, curr, unsaved>>
        /\ pc \in {"ready", "fip"}
    BY <1>7, StoreUntouched DEF UpgradeFip, FipFails
  <2> QED
    BY <2>1
<1>8. CASE FipDone \/ do_bspconf_save
  BY <1>8 DEF FipDone, do_bspconf_save, StartSave
<1>9. CASE PowerCycle
  BY <1>9 DEF PowerCycle
<1>10. CASE UNCHANGED vars
  <2>1. Picked' = Picked
    BY <1>10, StoreUntouched DEF vars
  <2> QED
    BY <1>10, <2>1 DEF vars
<1> QED
  BY <1>1, <1>2, <1>3, <1>4, <1>5, <1>6, <1>7, <1>8, <1>9, <1>10 DEF Next, Firmware

LEMMA LeavesStep ==
    ASSUME IInv, IInv', ServedInv, [Next]_vars
    PROVE  LeavesInv'
<1> USE DEF ramVars, LeavesInv, BootsOnceSaved
<1>a. TypeOK /\ SlotInv /\ ServedInv /\ LeavesInv /\ ResultInv /\ UnmarkedInv
  BY DEF IInv, ServedInv
<1>b. curr \in Confs /\ curr.current_fip_slot \in Slots
  BY <1>a, SMT DEF TypeOK, Confs
<1>c. ASSUME UNCHANGED <<copy, fresh>> PROVE Picked' = Picked /\ PickedConf' = PickedConf
  BY <1>c, StoreUntouched DEF PickedConf, ZeroConf
\* The slots only get better, and the storage stays as it is.
<1>d. ASSUME UNCHANGED <<copy, fresh, unsaved>>, index' \in {index, 0}, pc' # "dead",
             \A s \in Slots : fip[s] = "good" => fip'[s] = "good"
      PROVE  LeavesInv'
  <2>1. \A c : LeavesGood(c) => \E s \in Slots : fip'[s] = "good" /\ ~c.invalid[s]
    BY <1>d DEF LeavesGood
  <2> QED
    BY <1>a, <1>c, <1>d, <2>1 DEF LeavesGood
<1>1. CASE bl2_load_images
  <2>1. /\ UNCHANGED <<copy, fresh, fip, index>>
        /\ unsaved' = (unsaved /\ pc' = "dead") /\ index = 0
    BY <1>1 DEF bl2_load_images, IInv, FreshInv, Session
  <2>2. pc' \in {"import", "dead"}
    BY <1>1, <1>a, HandedOver
  <2>3. CASE pc' = "import"
    <3>1. LeavesGood(PickedConf)
      BY <1>1, <1>a, <2>3, HandsOverUnmarked
    <3> QED
      BY <1>c, <2>1, <2>3, <3>1 DEF LeavesGood
  <2>4. CASE pc' = "dead"
    <3>1. unsaved
      BY <1>1, <1>a, <2>4, HandsOverUnmarked
    <3> QED
      BY <2>1, <2>4, <3>1
  <2> QED
    BY <2>2, <2>3, <2>4
<1>2. CASE import_bsp_conf
  <2>1. UNCHANGED <<copy, fresh, fip, unsaved>> /\ index' = Picked /\ pc' = "import_bl2"
    BY <1>2 DEF import_bsp_conf
  <2>2. Picked # 0 => PickedConf = copy[Picked]
    BY DEF PickedConf
  <2> QED
    BY <1>a, <1>c, <2>1, <2>2 DEF LeavesGood
<1>3. CASE import_bsp_conf_bl2
  <2>1. UNCHANGED <<copy, fresh, fip, unsaved, index>> /\ pc' \in {"ready", "save"}
    BY <1>3 DEF import_bsp_conf_bl2, StartSave
  <2> QED
    BY <1>d, <2>1
<1>4. CASE WriteConf
  <2>1. /\ UNCHANGED <<fip, unsaved, index>> /\ pc = "save" /\ pc' = "saving"
        /\ copy' = [copy EXCEPT ![NextIndex] = NoConf] /\ fresh' = fresh \ {NextIndex}
    BY <1>4 DEF WriteConf
  <2>2. NextIndex \in Copies /\ NextIndex # index
    BY <1>a, NextIndexType
  <2>3. CASE index # 0
    <3>1. index \in fresh /\ index \in Copies
      BY <1>a, <2>3 DEF IInv, FreshInv, TypeOK
    <3>2. fresh' = {index}
      <4>1. \A n \in Copies : n = index \/ n = NextIndex
        BY <2>2, <3>1, SMT DEF Copies
      <4>2. fresh \subseteq Copies
        BY <1>a DEF TypeOK
      <4> QED
        BY <2>1, <2>2, <3>1, <4>1, <4>2
    <3>3. Picked' = index /\ copy'[index] = copy[index]
      BY <1>a, <2>1, <2>2, <3>1, <3>2 DEF IInv, NewestWins, TypeOK
    <3>4. PickedConf' = copy[index]
      BY <2>3, <3>3 DEF PickedConf
    <3> QED
      BY <1>a, <2>1, <2>3, <3>3, <3>4 DEF LeavesGood
  <2>4. CASE index = 0
    <3>1. copy[2] = NoConf /\ NextIndex = 1
      BY <2>1, <2>4 DEF IInv, FreshInv, Session, NextIndex
    <3>2. copy'[1] = NoConf /\ copy'[2] = NoConf
      BY <1>a, <2>1, <3>1 DEF TypeOK, Copies
    <3>3. Usable' = {}
      BY <3>2 DEF Usable, check_bsp_conf, Copies
    <3>4. PickedConf' = ZeroConf
      BY <3>3 DEF PickedConf, Picked, ZeroConf
    <3>5. \A s \in Slots : ~ZeroConf.invalid[s]
      BY DEF ZeroConf
    <3> QED
      BY <1>a, <2>1, <2>4, <3>4, <3>5 DEF LeavesGood, SlotInv
  <2> QED
    BY <2>3, <2>4
<1>5. CASE SaveDone
  <2>1. /\ Picked' = NextIndex /\ index' = NextIndex /\ NextIndex # 0
        /\ copy'[NextIndex] = curr
    BY <1>5, <1>a, DoneIsPicked
  <2>2. PickedConf' = curr
    BY <2>1 DEF PickedConf
  <2>3. UNCHANGED fip /\ pc = "saving" /\ pc' \in {"save", "ready"}
    BY <1>5 DEF SaveDone, StartSave
  <2>4. LeavesGood(curr)
    BY <1>a, <1>b, <2>3 DEF LeavesGood, SlotInv, UnmarkedInv, Session
  <2> QED
    BY <2>1, <2>2, <2>3, <2>4 DEF LeavesGood
<1>6. CASE SaveFails
  BY <1>6 DEF SaveFails
<1>7. CASE UpgradeFip
  <2>1. /\ UNCHANGED <<copy, fresh, unsaved, index, curr>> /\ pc = "ready" /\ pc' = "fip"
        /\ fip' = [fip EXCEPT ![UpgradeSlot(curr)] = "broken"]
    BY <1>7 DEF UpgradeFip
  <2>2. UpgradeSlot(curr) # curr.current_fip_slot
    BY <1>b, Upgraded
  <2>3. /\ fip'[curr.current_fip_slot] = "good" /\ ~curr.invalid[curr.current_fip_slot]
    BY <1>a, <1>b, <2>1, <2>2 DEF TypeOK, SlotInv, UnmarkedInv, Session
  <2>4. ~unsaved => index # 0 /\ copy[index] = curr /\ PickedConf = curr
    BY <1>a, <2>1 DEF ResultInv, PickedConf
  <2> QED
    BY <1>b, <1>c, <2>1, <2>3, <2>4 DEF LeavesGood
<1>8. CASE FipDone \/ FipFails
  <2>1. UNCHANGED <<copy, fresh, unsaved, index>> /\ pc' \in {"save", "ready"}
    BY <1>8 DEF FipDone, FipFails, StartSave
  <2>2. fip' = fip \/ fip' = [fip EXCEPT ![UpgradeSlot(curr)] = "good"]
    BY <1>8 DEF FipDone, FipFails
  <2>3. \A s \in Slots : fip[s] = "good" => fip'[s] = "good"
    BY <1>a, <2>2 DEF TypeOK
  <2> QED
    BY <1>d, <2>1, <2>3
<1>9. CASE do_bspconf_save
  <2>1. UNCHANGED <<copy, fresh, fip, unsaved, index>> /\ pc' = "save"
    BY <1>9 DEF do_bspconf_save, StartSave
  <2> QED
    BY <1>d, <2>1
<1>10. CASE PowerCycle
  <2>1. UNCHANGED <<copy, fresh, fip, unsaved>> /\ index' = 0 /\ pc' = "off"
    BY <1>10 DEF PowerCycle
  <2> QED
    BY <1>d, <2>1
<1>11. CASE UNCHANGED vars
  <2>1. UNCHANGED <<copy, fresh, fip, unsaved, index, pc>>
    BY <1>11 DEF vars
  <2> QED
    BY <1>a, <1>c, <2>1 DEF LeavesGood
<1> QED
  BY <1>1, <1>2, <1>3, <1>4, <1>5, <1>6, <1>7, <1>8, <1>9, <1>10, <1>11
     DEF Next, Firmware

LEMMA ServedInit == Init => ServedInv
<1> SUFFICES ASSUME Init PROVE ServedInv
  OBVIOUS
<1>1. Usable = {}
  BY DEF Init, Usable, check_bsp_conf
<1>2. PickedConf = ZeroConf
  BY <1>1 DEF PickedConf, Picked
<1>3. \A s \in Slots : ~ZeroConf.invalid[s]
  BY DEF ZeroConf
<1> QED
  BY <1>2, <1>3 DEF Init, ServedInv, ResultInv, UnmarkedInv, LeavesInv, LeavesGood,
     BootsOnceSaved, Session

(* What BL2 starts from after power loss and what U-Boot works on stay      *)
(* tied to each other unless a save has failed.                             *)
THEOREM ServedInvariance == FailuresAreFew => (Spec => []ServedInv)
<1>1. Init => ServedInv
  BY ServedInit
<1>2. IInv /\ IInv' /\ ServedInv /\ [Next]_vars => ServedInv'
  BY ResultStep, UnmarkedStep, LeavesStep DEF ServedInv, IInv
<1> QED
  BY <1>1, <1>2, StorageInvariance, PTL DEF Spec

(* bl2_load_images() finds a slot it can load, wherever power was lost,     *)
(* unless that was in a session whose last save had failed.                 *)
THEOREM BootsUnlessUnsaved == FailuresAreFew => (Spec => []BootsOnceSaved)
<1>1. ServedInv => BootsOnceSaved
  BY DEF ServedInv, LeavesInv
<1> QED
  BY <1>1, ServedInvariance, PTL

(* Once U-Boot is up and was told of no failure, the configuration that the *)
(* next boot reads is the one it works on.                                  *)
THEOREM ReadyIsSaved == FailuresAreFew => (Spec => []ResultIsSaved)
<1>1. ServedInv => ResultIsSaved
  BY DEF ServedInv, ResultInv, ResultIsSaved
<1> QED
  BY <1>1, ServedInvariance, PTL
=============================================================================
