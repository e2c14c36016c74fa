------------------------------ MODULE BspConf ------------------------------
(***************************************************************************)
(* The boot configuration and the two FIP slots it describes, over power   *)
(* cycles.  BL2 (bsp_conf.c, dual_fip.c) reads two copies of the           *)
(* configuration, picks a slot and hands what it found to U-Boot, which    *)
(* saves it (board/mediatek/common/bsp_conf.c) and writes new FIPs         *)
(* (generic_ubi_write_dual_fip, generic_mmc_write_dual_fip).  Power may be *)
(* lost at any moment; a copy or a slot that was being written is broken.  *)
(* The FIPs that are uploaded are good ones.                               *)
(***************************************************************************)
EXTENDS Integers

CONSTANTS
    CntLimit,  \* the number of values of upd_cnt, 2^32
    FailCnts   \* the values of upd_cnt with which a save may fail

ASSUME BspConfAssumption ==
    /\ CntLimit \in Nat /\ CntLimit >= 3
    /\ FailCnts \subseteq 0 .. CntLimit - 1

FIP_NUM == 2
Slots == 0 .. FIP_NUM - 1
Copies == {1, 2}
Images == {"good", "unloadable", "broken"}  \* broken: load_validate_fip() fails

\* mtk_bsp_conf_data, with size, crc32 and upd_cnt of the slots left out
Confs == [upd_cnt : 0 .. CntLimit - 1, current_fip_slot : Slots,
          invalid : [Slots -> BOOLEAN]]

\* curr_bspconf before anything was imported: zero
ZeroConf == [upd_cnt |-> 0, current_fip_slot |-> 0,
             invalid |-> [s \in Slots |-> FALSE]]

\* A copy that check_bsp_conf() rejects: never written, or cut short
NoConf == [upd_cnt |-> 0, current_fip_slot |-> 0, invalid |-> <<>>]

VARIABLES
    copy,      \* copy[n]: the configuration "bspconf1" or "bspconf2" in storage
    fip,       \* fip[s]: what slot s holds
    pc,        \* where the boot chain is
    passed,    \* the configuration BL2 leaves below U-Boot
    curr,      \* curr_bspconf of U-Boot
    index,     \* curr_bspconf_index, 0 if no copy was usable; orig_bspconf is
               \* what this copy holds
    again,     \* a second save follows the one under way
    fresh,     \* history: the copies a reader may take for the newest
    unsaved    \* history: the last save failed, and the board ran on from there

vars == <<copy, fip, pc, passed, curr, index, again, fresh, unsaved>>
ramVars == <<passed, curr, index, again>>

Init ==
    /\ copy = [n \in Copies |-> NoConf]
    /\ fip \in [Slots -> Images] /\ \E s \in Slots : fip[s] = "good"
    /\ pc = "off"
    /\ passed = ZeroConf /\ curr = ZeroConf
    /\ index = 0 /\ again = FALSE
    /\ fresh = {} /\ unsaved = FALSE

-----------------------------------------------------------------------------
(* import_bsp_conf(), the same in BL2 and in U-Boot *)

check_bsp_conf(n) == copy[n] # NoConf
Usable == {n \in Copies : check_bsp_conf(n)}

\* Mutant: the counter is taken at face value.
NewerWithoutWrap(a, b) == IF a.upd_cnt >= b.upd_cnt THEN 1 ELSE 2

\* Which of two usable copies is newer; only a step from the highest value to
\* zero is recognised as a wrap.
Newer(a, b) ==
    IF a.upd_cnt = CntLimit - 1 /\ b.upd_cnt = 0 THEN 2
    ELSE IF b.upd_cnt = CntLimit - 1 /\ a.upd_cnt = 0 THEN 1
    ELSE IF a.upd_cnt >= b.upd_cnt THEN 1
    ELSE 2

\* The copy that is used; 0 if none is usable
Picked ==
    IF Usable = {} THEN 0
    ELSE IF Usable = Copies THEN Newer(copy[1], copy[2])
    ELSE CHOOSE n \in Usable : TRUE

-----------------------------------------------------------------------------
(* BL2.  It writes nothing, so that all of it is one step. *)

MarkInvalid(c, s) == [c EXCEPT !.invalid[s] = TRUE]

\* One iteration of get_fip_slot(): slot s can be used.
SlotUsable(c, s) == ~c.invalid[s] /\ fip[s] # "broken"

\* Mutant: only the current slot is looked at.
CurrentSlotOnly(c, curr_invalid) ==
    IF ~curr_invalid /\ SlotUsable(c, c.current_fip_slot)
    THEN [ok |-> TRUE, conf |-> c]
    ELSE [ok |-> FALSE, conf |-> MarkInvalid(c, c.current_fip_slot)]

(* get_fip_slot(): the current slot, unless it is the one that failed to    *)
(* load, then the other one; a slot that is found broken is marked invalid. *)
get_fip_slot(c, curr_invalid) ==
    LET s == c.current_fip_slot
        t == (s + 1) % FIP_NUM
        d == MarkInvalid(c, s)
    IN  IF ~curr_invalid /\ SlotUsable(c, s) THEN [ok |-> TRUE, conf |-> c]
        ELSE IF SlotUsable(d, t)
        THEN [ok |-> TRUE, conf |-> [d EXCEPT !.current_fip_slot = t]]
        ELSE [ok |-> FALSE, conf |-> MarkInvalid(d, t)]

Loads(c) == fip[c.current_fip_slot] = "good"

(* bl2_load_images(): a slot that cannot be loaded is given up once.  The   *)
(* result is left for U-Boot by finalize_bsp_conf().                        *)
bl2_load_images ==
    /\ pc = "off"
    /\ LET c == IF Picked = 0 THEN ZeroConf ELSE copy[Picked]
           first == get_fip_slot(c, FALSE)
           second == get_fip_slot(first.conf, TRUE)
           boots == first.ok /\ Loads(first.conf)
           retries == first.ok /\ ~boots /\ second.ok /\ Loads(second.conf)
       IN  \/ /\ boots
              /\ passed' = first.conf /\ pc' = "import"
           \/ /\ retries
              /\ passed' = second.conf /\ pc' = "import"
           \/ /\ ~boots /\ ~retries
              /\ pc' = "dead" /\ UNCHANGED passed
    /\ unsaved' = (unsaved /\ pc' = "dead")
    /\ UNCHANGED <<copy, fip, curr, index, again, fresh>>

-----------------------------------------------------------------------------
(* U-Boot *)

\* ubi_import_bsp_conf(), mmc_import_bsp_conf()
import_bsp_conf ==
    /\ pc = "import"
    /\ index' = Picked
    /\ curr' = IF Picked = 0 THEN ZeroConf ELSE copy[Picked]
    /\ pc' = "import_bl2"
    /\ UNCHANGED <<copy, fip, passed, again, fresh, unsaved>>

\* Mutant: the copy in use is the one that is written.
NextIndexInPlace == IF index = 0 THEN 1 ELSE index

\* __save_bsp_conf(): the other copy is written
NextIndex == IF index = 1 THEN 2 ELSE 1

\* Mutant: the counter does not wrap.
SaveWideCount(c, twice) ==
    /\ curr' = [c EXCEPT !.upd_cnt = @ + 1]
    /\ again' = twice
    /\ pc' = "save"

\* __save_bsp_conf() up to the write; c was compared before.
StartSave(c, twice) ==
    /\ curr' = [c EXCEPT !.upd_cnt = (@ + 1) % CntLimit]
    /\ again' = twice
    /\ pc' = "save"

\* Mutant: what BL2 found is used and not saved.
AdoptWithoutSave ==
    /\ pc = "import_bl2"
    /\ curr' = [passed EXCEPT !.upd_cnt = curr.upd_cnt]
    /\ pc' = "ready"
    /\ UNCHANGED <<copy, fip, passed, index, again, fresh, unsaved>>

(* import_bsp_conf_bl2(): what BL2 found is saved if it differs, and saved  *)
(* to both copies when there was none (persist_bsp_conf_available).  BL2's  *)
(* finalize_bsp_conf() always passes a configuration with a valid checksum,  *)
(* so the return for an invalid one is never taken.                         *)
import_bsp_conf_bl2 ==
    /\ pc = "import_bl2"
    /\ LET b == IF index = 0 THEN passed
                ELSE [passed EXCEPT !.upd_cnt = curr.upd_cnt]
       IN  \/ index # 0 /\ b = curr /\ pc' = "ready" /\ UNCHANGED <<curr, again>>
           \/ (index = 0 \/ b # curr) /\ StartSave(b, index = 0)
    /\ UNCHANGED <<copy, fip, passed, index, fresh, unsaved>>

\* board_save_bsp_conf() begins: the copy is not valid until it is complete.
WriteConf ==
    /\ pc = "save"
    /\ copy' = [copy EXCEPT ![NextIndex] = NoConf]
    /\ fresh' = fresh \ {NextIndex}
    /\ pc' = "saving"
    /\ UNCHANGED <<fip, ramVars, unsaved>>

\* The write succeeds, and import_bsp_conf_bl2() may save once more.
SaveDone ==
    /\ pc = "saving"
    /\ copy' = [copy EXCEPT ![NextIndex] = curr]
    /\ fresh' = {NextIndex}
    /\ index' = NextIndex
    /\ unsaved' = FALSE
    /\ \/ again /\ StartSave(curr, FALSE)
       \/ ~again /\ pc' = "ready" /\ UNCHANGED <<curr, again>>
    /\ UNCHANGED <<fip, passed>>

(* board_save_bsp_conf() fails: before it touched the copy, in the middle,  *)
(* or when it reads back what it wrote.  upd_cnt stays incremented.         *)
SaveFails ==
    /\ curr.upd_cnt \in FailCnts
    /\ \/ pc = "save" /\ UNCHANGED <<copy, fresh>>
       \/ pc = "saving" /\ UNCHANGED <<copy, fresh>>
       \/ /\ pc = "saving"
          /\ copy' = [copy EXCEPT ![NextIndex] = curr]
          /\ fresh' = fresh \cup {NextIndex}
    /\ again' = FALSE
    /\ unsaved' = TRUE
    /\ pc' = "ready"
    /\ UNCHANGED <<fip, passed, curr, index>>

\* Mutant: the new FIP goes to the current slot.
UpgradeInPlace(c) == c.current_fip_slot

\* The slot generic_ubi_write_dual_fip() writes
UpgradeSlot(c) == IF c.current_fip_slot = 0 THEN 1 ELSE 0

UpgradeFip ==
    /\ pc = "ready"
    /\ fip' = [fip EXCEPT ![UpgradeSlot(curr)] = "broken"]
    /\ pc' = "fip"
    /\ UNCHANGED <<copy, ramVars, fresh, unsaved>>

(* The FIP is written: the new slot becomes the current one, and            *)
(* save_bsp_conf() is called.  The slot's own upd_cnt has changed, so that  *)
(* the configuration always differs from the one saved last.                *)
FipDone ==
    /\ pc = "fip"
    /\ fip' = [fip EXCEPT ![UpgradeSlot(curr)] = "good"]
    /\ StartSave([curr EXCEPT !.current_fip_slot = UpgradeSlot(curr),
                              !.invalid[UpgradeSlot(curr)] = FALSE], FALSE)
    /\ UNCHANGED <<copy, passed, index, fresh, unsaved>>

\* The write fails in the middle, or when it reads back what it wrote.
FipFails ==
    /\ FailCnts # {}
    /\ pc = "fip"
    /\ \/ UNCHANGED fip
       \/ fip' = [fip EXCEPT ![UpgradeSlot(curr)] = "good"]
    /\ pc' = "ready"
    /\ UNCHANGED <<copy, ramVars, fresh, unsaved>>

\* "bspconf save": __save_bsp_conf(false), which compares with the copy in use.
do_bspconf_save ==
    /\ pc = "ready"
    /\ (index # 0 => curr # copy[index])
    /\ StartSave(curr, FALSE)
    /\ UNCHANGED <<copy, fip, passed, index, fresh, unsaved>>

-----------------------------------------------------------------------------
\* Power is lost, or the system is started again.
PowerCycle ==
    /\ pc # "off"
    /\ pc' = "off"
    /\ passed' = ZeroConf /\ curr' = ZeroConf
    /\ index' = 0 /\ again' = FALSE
    /\ UNCHANGED <<copy, fip, fresh, unsaved>>

Firmware ==
    \/ bl2_load_images \/ import_bsp_conf \/ import_bsp_conf_bl2
    \/ WriteConf \/ SaveDone \/ SaveFails
    \/ FipDone \/ FipFails

Next == Firmware \/ UpgradeFip \/ do_bspconf_save \/ PowerCycle

Spec == Init /\ [][Next]_vars

-----------------------------------------------------------------------------
(* Properties *)

\* The types of the two stored copies, of the slots and of both programs' memory.
TypeOK ==
    /\ copy \in [Copies -> Confs \cup {NoConf}]
    /\ fip \in [Slots -> Images]
    /\ pc \in {"off", "import", "import_bl2", "save", "saving", "ready", "fip",
               "dead"}
    /\ passed \in Confs /\ curr \in Confs
    /\ index \in Copies \cup {0}
    /\ again \in BOOLEAN
    /\ fresh \subseteq Copies /\ unsaved \in BOOLEAN

(* Wherever power was lost, import_bsp_conf() of the next boot takes the    *)
(* configuration that __save_bsp_conf() wrote last, also across the wrap of *)
(* upd_cnt.  (A save that failed when reading back may be taken, too.)      *)
NewestWins == fresh # {} => Picked \in fresh

(* The inductive invariant.  A session is the time from import_bsp_conf_bl2()*)
(* of one boot to the next power cycle.                                     *)

Session == {"import_bl2", "save", "saving", "ready", "fip"}
Saving == {"save", "saving"}

(* What may be taken for the newest copy is complete, and the copy in use   *)
(* is among it.  Without a copy in use only copy 1 is ever written.         *)
FreshInv ==
    /\ fresh \subseteq Usable
    /\ Usable # {} => fresh # {}
    /\ index # 0 => index \in fresh
    /\ pc \notin Session => index = 0
    /\ pc \in Session /\ index = 0 => copy[2] = NoConf
    /\ pc = "saving" => copy[NextIndex] = NoConf

(* upd_cnt c runs ahead of the copy in use, a, by the saves that failed; in *)
(* a save it is one further, or has just wrapped.                           *)
RestCount(a, c) == a <= c /\ a + 1 .. c \subseteq FailCnts
SaveCount(a, c) ==
    \/ a < c /\ a + 1 .. c - 1 \subseteq FailCnts
    \/ a = CntLimit - 1 /\ c = 0

CountInv ==
    pc \in Session /\ index # 0 =>
        /\ pc \notin Saving => RestCount(copy[index].upd_cnt, curr.upd_cnt)
        /\ pc \in Saving => SaveCount(copy[index].upd_cnt, curr.upd_cnt)

(* The slot BL2 loaded is good, and an upgrade leaves it alone. *)
SlotInv ==
    /\ \E s \in Slots : fip[s] = "good"
    /\ pc \in {"import", "import_bl2"} => fip[passed.current_fip_slot] = "good"
    /\ pc \in Session \ {"import_bl2"} => fip[curr.current_fip_slot] = "good"

(* Which saves may fail without the count going astray: not those of a      *)
(* counter about to wrap, and not all the others one after the other.       *)
FailuresAreFew ==
    /\ FailCnts \cap {0, CntLimit - 1} = {}
    /\ \E v \in 1 .. CntLimit - 2 : v \notin FailCnts

(* Control point, counter, copies and slots of BL2 and U-Boot fit together  *)
(* at every step, so that NewestWins and OneGoodSlot are preserved.         *)
IInv == TypeOK /\ NewestWins /\ FreshInv /\ CountInv /\ SlotInv

(* The copy U-Boot is running on stays usable, whichever saves fail: it is  *)
(* what a boot after power loss falls back to.                              *)
InUseKept == index # 0 => check_bsp_conf(index)

(* Whatever upgrades are interrupted or fail, one slot holds a FIP that can *)
(* be loaded: generic_*_write_dual_fip() never touches the only good slot.  *)
OneGoodSlot == \E s \in Slots : fip[s] = "good"

(* bl2_load_images() finds a slot it can load: the good slot is not one     *)
(* that the configuration in storage says is invalid.                       *)
AlwaysBoots == pc # "dead"

(* The same, unless power was lost in a session whose last save had failed. *)
BootsOnceSaved == pc = "dead" => unsaved

(* Once U-Boot is up, the configuration in storage says what BL2 found and  *)
(* what the upgrades of this session did, unless U-Boot was told of a       *)
(* failure.                                                                 *)
ResultIsSaved == pc = "ready" /\ ~unsaved => Picked # 0 /\ copy[Picked] = curr
=============================================================================
