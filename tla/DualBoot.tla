------------------------------ MODULE DualBoot ------------------------------
(***************************************************************************)
(* U-Boot's choice between two firmware slots (dual_boot.c), the upgrade   *)
(* of a slot (mmc_helper.c, mtd_helper.c) and mtkbootconf, over resets and *)
(* power loss.  The current slot and the slots' marks are in the           *)
(* environment, which U-Boot works on in memory and env_save() writes; the *)
(* boot count is in a register that only a power loss clears.              *)
(***************************************************************************)
EXTENDS Integers

CONSTANTS
    RetryEnabled,  \* CONFIG_MTK_DUAL_BOOT_ENABLE_RETRY
    MaxRetry,      \* CONFIG_MTK_DUAL_BOOT_MAX_RETRY_COUNT
    ByteMod,       \* the number of values of a byte of the register, 256
    Shipped,       \* what the slots may hold at first
    Uploads        \* what an upgrade may bring

ASSUME DualBootAssumption ==
    /\ RetryEnabled \in BOOLEAN
    /\ ByteMod \in Nat /\ \E k \in 2 .. ByteMod : ByteMod = 2 * k
    /\ MaxRetry \in 1 .. ByteMod - 1 /\ 2 * MaxRetry < ByteMod
    /\ Shipped \cup Uploads \subseteq {"good", "hangs", "broken"}

DUAL_BOOT_MAX_SLOTS == 2
Slots == 0 .. DUAL_BOOT_MAX_SLOTS - 1

\* hangs: boot_slot() starts it and it never comes up.  broken: boot_slot() fails.
Images == {"good", "hangs", "broken"}

Envs == [cur : Slots, inv : [Slots -> BOOLEAN]]

\* Variables that are not set: slot 0, nothing marked
DefaultEnv == [cur |-> 0, inv |-> [s \in Slots |-> FALSE]]

VARIABLES
    image,   \* image[s]: what slot s holds
    env,     \* the environment in flash
    ram,     \* the environment U-Boot works on
    reg,     \* the register: count, -count, slot, -slot, a byte each
    pc,      \* where the board is
    slot,    \* the slot dual_boot() or the upgrade works on
    boot,    \* do_boot
    ret,     \* what the last dual_boot() returned
    tries,   \* history: how often in a row what slot s holds was tried, since
             \* it was written, came up or power was lost (up to MaxRetry)
    cut,     \* history: slots whose upgrade was reset before the count was, with
             \* no count started since
    spent,   \* history: slots given up because of their count
    risky,   \* history: an upgrade began when no other slot would have booted
    calm     \* from now on nothing disturbs the board from outside

vars == <<image, env, ram, reg, pc, slot, boot, ret, tries, cut, spent, risky, calm>>
histVars == <<tries, cut, spent, risky, calm>>

maxcount == IF RetryEnabled THEN MaxRetry ELSE 0

-----------------------------------------------------------------------------
(* The boot count *)

Neg(n) == (ByteMod - n) % ByteMod
s8(b) == IF 2 * b >= ByteMod THEN b - ByteMod ELSE b

Pack(s, n) == <<n, Neg(n), s, Neg(s)>>

\* dual_boot_set_boot_count(): a count that does not fit is not written.
dual_boot_set_boot_count(s, n) ==
    IF 2 * n >= ByteMod THEN reg ELSE Pack(s, n)

PairOK(pos, neg) == s8(pos) >= 0 /\ s8(neg) <= 0 /\ s8(pos) + s8(neg) = 0

\* The count of slot s, 0 if the register does not hold one
BootCount(s) ==
    IF PairOK(reg[3], reg[4]) /\ PairOK(reg[1], reg[2]) /\ s8(reg[3]) = s
    THEN s8(reg[1]) ELSE 0

Cleared == <<0, 0, 0, 0>>

-----------------------------------------------------------------------------
Bootable == \E s \in Slots : image[s] = "good" /\ ~env.inv[s]

Init ==
    /\ image \in [Slots -> Shipped] /\ env = DefaultEnv /\ Bootable
    /\ ram = env /\ reg = Cleared
    /\ pc = "prompt" /\ slot = 0 /\ boot = FALSE /\ ret = "none"
    /\ tries = [s \in Slots |-> 0] /\ cut = {} /\ spent = {}
    /\ risky = FALSE /\ calm = FALSE

-----------------------------------------------------------------------------
(* dual_boot() *)

dual_boot_get_next_slot == (ram.cur + 1) % DUAL_BOOT_MAX_SLOTS

\* A try of slot s begins with count n.
Count(s, n) ==
    /\ reg' = IF maxcount # 0 THEN dual_boot_set_boot_count(s, n) ELSE reg
    /\ tries' = [o \in Slots |-> IF o # s THEN 0
                                 ELSE IF tries[s] < MaxRetry THEN tries[s] + 1
                                 ELSE tries[s]]
    /\ cut' = IF n = 1 THEN {} ELSE cut

\* Mutant: the count is never compared.
NeverGivesUp(s) == FALSE

GivesUp(s) == maxcount # 0 /\ BootCount(s) >= maxcount

\* mtkboardboot (do_boot) and mtkbootconf (not do_boot), up to the first
\* boot_slot() or to the environment's first save
dual_boot(do_boot) ==
    LET s == ram.cur IN
    /\ pc = "prompt"
    /\ slot' = s /\ boot' = do_boot /\ ret' = "none"
    /\ \/ /\ ram.inv[s]
          /\ pc' = "next"
          /\ UNCHANGED <<ram, reg, tries, cut, spent>>
       \/ /\ ~ram.inv[s] /\ GivesUp(s)
          /\ pc' = "mark1"
          /\ ram' = [ram EXCEPT !.inv[s] = TRUE]
          /\ spent' = spent \cup {s}
          /\ UNCHANGED <<reg, tries, cut>>
       \/ /\ ~ram.inv[s] /\ ~GivesUp(s)
          /\ pc' = "try1"
          /\ Count(s, BootCount(s) + 1)
          /\ UNCHANGED <<ram, spent>>
    /\ UNCHANGED <<image, env, risky, calm>>

\* dual_boot_set_slot_invalid(slot, true, true), before it saves
MarkSlot == ram' = [ram EXCEPT !.inv[slot] = TRUE]

\* boot_slot() of the first or the second slot: it verifies and loads the
\* image; bootm() does not come back from an image it can start.
BootSlot ==
    /\ pc \in {"try1", "try2"}
    /\ \/ /\ image[slot] = "broken"
          /\ pc' = IF pc = "try1" THEN "mark1" ELSE "mark2"
          /\ MarkSlot
          /\ ret' = "err"
       \/ /\ image[slot] # "broken" /\ boot
          /\ pc' = "kernel"
          /\ UNCHANGED <<ram, ret>>
       \/ /\ image[slot] # "broken" /\ ~boot
          /\ pc' = "prompt" /\ ret' = "ok"
          /\ UNCHANGED ram
    /\ UNCHANGED <<image, env, reg, slot, boot>> /\ UNCHANGED histVars

\* env_save() of the environment in memory, or its failure, which leaves the
\* old one or none
Saved == env' = ram
NotSaved == ~calm /\ env' \in {env, DefaultEnv}

\* dual_boot_set_slot_invalid() returns; nobody looks at how.
MarkSaved ==
    /\ pc \in {"mark1", "mark2"}
    /\ Saved \/ NotSaved
    /\ pc' = IF pc = "mark1" THEN "next" ELSE "prompt"
    /\ UNCHANGED <<image, ram, reg, slot, boot, ret>> /\ UNCHANGED histVars

\* The other slot, or the end if it is marked too: ret is then what the first
\* slot's boot_slot() returned, and not initialised if there was none.
NextSlot ==
    LET s == dual_boot_get_next_slot IN
    /\ pc = "next"
    /\ \/ /\ ram.inv[s]
          /\ pc' = "prompt"
          /\ ret' \in IF ret = "none" THEN {"ok", "err"} ELSE {ret}
          /\ UNCHANGED <<ram, slot>>
       \/ /\ ~ram.inv[s]
          /\ pc' = "switch" /\ slot' = s
          /\ ram' = [ram EXCEPT !.cur = s]
          /\ UNCHANGED ret
    /\ UNCHANGED <<image, env, reg, boot>> /\ UNCHANGED histVars

SwitchSaved ==
    /\ pc = "switch" /\ Saved
    /\ pc' = "count"
    /\ UNCHANGED <<image, ram, reg, slot, boot, ret>> /\ UNCHANGED histVars

\* panic() resets the board.
SwitchFails ==
    /\ pc = "switch" /\ NotSaved
    /\ ram' = env' /\ pc' = "prompt" /\ ret' = "none"
    /\ UNCHANGED <<image, reg, slot, boot>> /\ UNCHANGED histVars

StartCount ==
    /\ pc = "count"
    /\ Count(slot, 1)
    /\ pc' = "try2"
    /\ UNCHANGED <<image, env, ram, slot, boot, ret, spent, risky, calm>>

-----------------------------------------------------------------------------
(* The system that was started *)

\* The system comes up and, told so by reset_boot_count, clears its count.
SystemUp ==
    /\ pc = "kernel" /\ image[slot] = "good"
    /\ pc' = "os"
    /\ reg' = IF maxcount # 0 THEN Pack(slot, 0) ELSE reg
    /\ tries' = [tries EXCEPT ![slot] = 0] /\ cut' = {}
    /\ UNCHANGED <<image, env, ram, slot, boot, ret, spent, risky, calm>>

\* The watchdog resets a system that hangs.
Watchdog ==
    /\ pc = "kernel" /\ image[slot] = "hangs"
    /\ ram' = env /\ pc' = "prompt" /\ ret' = "none"
    /\ UNCHANGED <<image, env, reg, slot, boot>> /\ UNCHANGED histVars

-----------------------------------------------------------------------------
(* Upgrade of the slot that is not the current one *)

UpgradeSlot == dual_boot_get_next_slot

\* mmc_upgrade_image_itb(), write_ubi_itb_image(): the slot is being written.
UpgradeStart ==
    LET s == UpgradeSlot IN
    /\ pc = "prompt" /\ ~calm
    /\ slot' = s /\ pc' = "write" /\ ret' = "none"
    /\ image' = [image EXCEPT ![s] = "broken"]
    /\ risky' = (risky \/ \A o \in Slots \ {s} : image[o] # "good" \/ env.inv[o])
    /\ tries' = [tries EXCEPT ![s] = 0] /\ cut' = cut \ {s}
    /\ UNCHANGED <<env, ram, reg, boot, spent, calm>>

UpgradeFails ==
    /\ pc = "write"
    /\ pc' = "prompt"
    /\ UNCHANGED <<image, env, ram, reg, slot, boot, ret>> /\ UNCHANGED histVars

\* Mutant: the slot that was current is marked.
SelectAndRetire(e, s) == [e EXCEPT !.cur = s, !.inv = [o \in Slots |-> o # s]]

\* dual_boot_set_slot_invalid(slot, false, false), dual_boot_set_current_slot()
SelectUpgraded(e, s) == [e EXCEPT !.cur = s, !.inv[s] = FALSE]

UpgradeWritten ==
    /\ pc = "write"
    /\ \E i \in Uploads : image' = [image EXCEPT ![slot] = i]
    /\ ram' = SelectUpgraded(ram, slot)
    /\ pc' = "post"
    /\ spent' = spent \ {slot}
    /\ UNCHANGED <<env, reg, slot, boot, ret, tries, cut, risky, calm>>

\* The post-upgrade functions: a failed save is reported and forgotten,
UpgradeSaved ==
    /\ pc = "post"
    /\ Saved \/ NotSaved
    /\ pc' = "clear"
    /\ UNCHANGED <<image, ram, reg, slot, boot, ret>> /\ UNCHANGED histVars

\* Mutant: the count of the image that was replaced is left.
UpgradeKeepsCount ==
    /\ pc = "clear"
    /\ cut' = {}
    /\ pc' = "prompt"
    /\ UNCHANGED <<image, env, ram, reg, slot, boot, ret, tries, spent, risky, calm>>

\* and the count of the image that was replaced is cleared.
UpgradeCounted ==
    /\ pc = "clear"
    /\ reg' = IF maxcount # 0 THEN dual_boot_set_boot_count(slot, 0) ELSE reg
    /\ cut' = {}
    /\ pc' = "prompt"
    /\ UNCHANGED <<image, env, ram, slot, boot, ret, tries, spent, risky, calm>>

-----------------------------------------------------------------------------
(* Resets *)

Saving == {"mark1", "mark2", "switch", "post"}

\* What a save that is cut short leaves
CutShort == IF pc \in Saving THEN {env, DefaultEnv, ram} ELSE {env}

Reset ==
    /\ ~calm
    /\ env' \in CutShort /\ ram' = env'
    /\ pc' = "prompt" /\ ret' = "none"
    /\ cut' = IF pc \in {"post", "clear"} THEN cut \cup {slot} ELSE cut
    /\ UNCHANGED <<image, reg, slot, boot, tries, spent, risky, calm>>

PowerLoss ==
    /\ ~calm
    /\ env' \in CutShort /\ ram' = env'
    /\ reg' = Cleared /\ tries' = [s \in Slots |-> 0] /\ cut' = {}
    /\ pc' = "prompt" /\ ret' = "none"
    /\ UNCHANGED <<image, slot, boot, spent, risky, calm>>

\* From here on no reset, power loss, failed save, upgrade or mtkbootconf
Calm ==
    /\ ~calm /\ calm' = TRUE
    /\ UNCHANGED <<image, env, ram, reg, pc, slot, boot, ret, tries, cut, spent, risky>>

-----------------------------------------------------------------------------
BoardBoot == dual_boot(TRUE)
BootConf == ~calm /\ dual_boot(FALSE)

Run == \/ BoardBoot \/ BootSlot \/ MarkSaved \/ NextSlot \/ SwitchSaved
       \/ StartCount \/ SystemUp \/ Watchdog \/ UpgradeWritten \/ UpgradeSaved
       \/ UpgradeCounted
Disturbance == \/ BootConf \/ SwitchFails \/ UpgradeStart \/ UpgradeFails
               \/ Reset \/ PowerLoss \/ Calm

Next == Run \/ Disturbance

Spec == Init /\ [][Next]_vars

\* The board boots by itself, and what was started comes up or is reset.
FairSpec == Spec /\ WF_vars(Run)

-----------------------------------------------------------------------------
(* Properties *)

Bytes == 0 .. ByteMod - 1

\* The values the variables take; the register holds what its reader accepts.
TypeOK ==
    /\ image \in [Slots -> Images] /\ env \in Envs /\ ram \in Envs
    /\ reg \in Bytes \X Bytes \X Bytes \X Bytes
    /\ PairOK(reg[1], reg[2]) /\ PairOK(reg[3], reg[4])
    /\ pc \in Saving \cup {"prompt", "try1", "try2", "next", "count", "kernel", "os", "write",
                       "clear"}
    /\ slot \in Slots /\ boot \in BOOLEAN /\ ret \in {"none", "ok", "err"}
    /\ tries \in [Slots -> 0 .. MaxRetry] /\ cut \subseteq Slots /\ spent \subseteq Slots
    /\ risky \in BOOLEAN /\ calm \in BOOLEAN

\* After any resets, power losses and failed saves a slot that would boot is
\* left, unless one was given up because of its count or an upgrade began when
\* the current slot would not have booted (dual_boot.c:284-313).
StaysBootable == Bootable \/ spent # {} \/ risky

(* An image that can be started is given up for its count only after this   *)
(* image was tried maxcount times in a row (dual_boot.c:240-273, >= as in    *)
(* the code), whatever was tried, replaced or counted before it, unless a    *)
(* reset fell between the save of its upgrade and the reset of its count     *)
(* (mmc_helper.c:1311-1317): then the old image's count is held against it.  *)
FairTrial ==
    [][pc = "prompt" /\ pc' = "mark1" =>
          tries[slot'] >= maxcount \/ image[slot'] = "broken" \/ slot' \in cut]_vars

\* dual_boot() comes back from a boot only when both slots are marked.
TriesBoth == pc = "prompt" /\ boot /\ ret # "none" => \A s \in Slots : ram.inv[s]

\* A slot that would boot and has a try left, the current one or not
Startable == \E s \in Slots : /\ image[s] = "good" /\ ~env.inv[s] /\ ~ram.inv[s]
                               /\ ~GivesUp(s)

\* Left alone, a board with such a slot starts its system in the end, past a
\* slot that fails or hangs and from wherever a reset left marks and count.
Boots == calm /\ Startable ~> pc = "os"

=============================================================================
