# TLA+ models of the SL3000 rescue firmware

The repository builds the boot chain of the SL3000 router (MediaTek MT7981B, two
Cortex-A53 cores): ARM Trusted Firmware (BL2 and BL31), U-Boot with a recovery
environment, and `mtk_uartboot`, a host tool that loads BL2 and a FIP over the
serial line. This directory holds the models of the parts of it that carry state
several actors share, the model checking runs, and machine-checked proofs.

## Inventory

| Component | State | Operations | Hard parts |
|---|---|---|---|
| PSCI core, `arm-trusted-firmware/lib/psci` | per CPU: affinity state, local power state, suspend level, entry point; per domain: local state, requested states, lock | CPU_ON, CPU_OFF, CPU_SUSPEND, SYSTEM_SUSPEND, warm boot | all CPUs run handlers at once; what is read under which lock; a CPU that comes back while another goes down |
| MT7981 power hooks, `plat/mediatek/apsoc_common/bl31/plat_pm.c`, `plat/mediatek/mt7981/bl31`, `.../drivers/spmc` | PWR_ON bit per CPU | pwr_domain_on/off/suspend and finishers | the power controller acts on its own |
| Bakery lock, `lib/locks/bakery` | one 16 bit word per CPU and lock | get, release | no atomic instructions; tickets are read one CPU at a time; 15 bit tickets |
| BL2 boot: image loading, FIP slots (`dual_fip.c`), `bsp_conf.c` | current slot, slot validity, update counter, two copies in flash | import, save, slot selection | a write of one copy that fails; counter wrap |
| BL2 UART download (`uart_dl.c`) and `mtk_uartboot` (`bl2.rs`) | expected packet, received size, baud rate | handshake, GET_VER, SET_BAUD, LOAD_DATA, GO | lost or corrupted bytes, timeouts, retries |
| U-Boot dual boot (`board/mediatek/common/dual_boot.c`), `bsp_conf.c` | slot validity, current slot, boot count in a register that survives reset | slot choice, retry count, slot switch | crash between boot attempts |
| U-Boot recovery: `net/mtk_tcp.c`, `net/mtk_httpd.c`, failsafe | TCP connections, HTTP requests | segments, callbacks, timeouts | reordering, retransmission, connection reuse |
| NMBM, `drivers/mtd/nmbm` | block mapping, two copies of the info table | remap, info table update | power loss during an update |
| Image build scripts, OpenWrt tree, device trees | none at run time | | not modelled |

What makes each component correct:

- **PSCI core**: no power domain goes down above a running CPU; the last CPU takes
  its domains down; a starting CPU finds the state its finisher asserts; an accepted
  CPU_ON is resolved; CPU_ON and CPU_OFF of one target do not lose each other's
  updates; SYSTEM_SUSPEND is for the last CPU only.
- **Bakery lock**: one holder, in order of arrival, nobody waits for ever.
- **Configuration copies and slots**: after any power loss one valid copy
  is found, it is the newest one written completely, and both readers pick the same.
- **UART download**: what is started is the image that was sent, both ends stay in
  step, and a damaged packet only costs time.
- **Dual boot**: a slot that keeps failing is left, a slot that works is not given up
  before it had its tries, and a bootable slot survives resets and failed saves.
- **NMBM**: after any loss of power an info table is found and the newest one is
  taken; mapped blocks are neither shared nor used for tables.

How the components meet: PSCI handlers call the bakery lock through
`psci_lock_get()`/`psci_lock_release()`, and the platform hooks through
`psci_plat_pm_ops`. They share the per-CPU data, which is accessed with caches on by
running CPUs and with caches off by CPUs that go down or come up. The power controller
and the interrupt controller act on their own: they start a CPU whose PWR_ON bit is
set, and end a `wfi`.

## Modules

| Module | What it is |
|---|---|
| `Psci` | the PSCI core with the MT7981 hooks, its properties and inductive invariant |
| `MCPsci` | the topologies for TLC |
| `PsciTypes`, `PsciProofs` | proofs about `Psci` |
| `LockService` | what `Psci` takes a power domain lock to be (abstract specification) |
| `Bakery` | `bakery_lock_coherent.c`, mapped to `LockService` |
| `MCBakery` | instances for TLC |
| `BakeryProofs` | proofs about `Bakery` |
| `AffInfoState` | the affinity state of one CPU as a cache line |
| `AffInfoProofs` | proofs about `AffInfoState` |
| `BspConf` | the boot configuration and the FIP slots, written by U-Boot and read by BL2 |
| `BspConfProofs` | proofs about `BspConf` |
| `Spmc` | `cpu_bitmask` of the power controller driver as a cache line |
| `UartDl` | `mtk_uartboot` and BL2's download over a faulty serial line |
| `DualBoot` | U-Boot's firmware slots and boot count over resets |
| `UartDlProofs`, `DualBootProofs` | proofs about `UartDl` and `DualBoot` |
| `Nmbm` | NMBM's mapping and info tables over failing blocks and power loss |
| `MCNmbm` | the chips for TLC |
| `NmbmProofs` | proofs about `Nmbm` |

Definitions preceded by a comment that begins with "Mutant" are altered forms of the
definition below them. No specification uses them: they stand for plausible bugs, and
each property is violated when the one listed for it in `PROJECT.json` is put in place.

### Psci

`pc[c]` is the point CPU `c` has reached in its handler. Every read or write of state
that another CPU can see is a step of its own; a loop that takes locks or reads other
CPUs takes one step per iteration (`i[c]`).

| Code | Model |
|---|---|
| `psci_svc_cpu_data.{aff_info_state, local_state, target_pwrlvl}` | variables of those names |
| `warmboot_ep_info[]` | `ep` |
| `psci_req_local_pwr_states[][]`, `psci_non_cpu_pd_nodes[].local_state` | `req`, `node_state` |
| `psci_locks[]`, `cpu_lock` | `lock`, `cpu_lock`: the holder |
| the stack of a handler (`end_pwrlvl`, `state_info`, the target, the entry point) | `op`, `end_pwrlvl`, `state_info`, `target`, `arg` |
| PWR_ON bit of the power controller; the non-secure context | `pwr_on`, `context` |
| `psci_cpu_on()` to `psci_cpu_on_start()` | `psci_cpu_on`, `OnLock`, `cpu_on_validate_state`, `OnSetPending`, `OnPlat`, `OnUnlock` |
| `psci_do_cpu_off()` | `psci_cpu_off`, then the domain steps, `PlatPowerDown`, `SetAffOff`, `PowerDownWfi` |
| `psci_cpu_suspend()`, `psci_cpu_suspend_start()` | `psci_cpu_suspend`, `Standby`, `SuspendCheckIsr` (the abort on a pending interrupt), the domain steps |
| `psci_system_suspend()` | `psci_system_suspend`, `psci_is_last_on_cpu` (one CPU per step), `SystemSuspendStart` |
| lock, coordinate, unlock | `psci_acquire_pwr_domain_locks`, `psci_do_state_coordination`, `psci_set_target_local_pwr_states`, `psci_release_pwr_domain_locks` |
| `psci_warmboot_entrypoint()` | `psci_warmboot_entrypoint`, `WarmbootFinish`, `psci_cpu_on_finish`, `WarmbootContext`, `psci_set_pwr_domains_to_run` |

`promised` is a history variable: the entry point that the accepted CPU_ON, or the
CPU's own suspend call, asked for. `Halted` is the state in which every CPU has turned
itself off or panicked: the code stops there, and it keeps TLC's deadlock check useful
everywhere else.

### Bakery and LockService

`lock_data[c]` is one 16 bit word; `choosing[c]` and `ticket[c]` are its two fields,
always written together. Each iteration of the two loops reads one word and is one
step. `wfe` waits for the CPU's event register, `sev` sets all of them. `my_ticket` is
an `unsigned int` and keeps the bits that the field drops (`Chosen`). `ahead` is a
history variable for first come, first served. `LockService` has a holder and a set of
waiting CPUs; the refinement mapping takes the holder to be the CPU at `held`.

### AffInfoState

The caches that `Psci` leaves out, for the one datum whose correctness depends on
them. A target in `psci_do_cpu_off()` works on memory with its caches off, flushes
before and invalidates after its write of OFF; a caller of CPU_ON works through the
cache. The cache fetches and evicts on its own (`Prefetch`, `Evict`), and an
invalidation drops a dirty copy. The spin lock of the target is `cpc # "idle"`. As in
`Psci`, the final `wfi` loses the power or ends in the panic of
`psci_pwrdown_cpu_end_terminal()` after 32 wake-ups (`stuck`), and the power controller
is taken to shut down a CPU whose bit was cleared before it starts it again.

### BspConf

BL2 writes nothing to storage, so a boot up to U-Boot is one step, `bl2_load_images`:
it picks a copy of the configuration (`Picked`, the same code in both programs),
chooses a slot (`get_fip_slot`) and, if that slot cannot be loaded, tries once more
with the other one. What it found (`passed`) is compared and saved by U-Boot.

| Code | Model |
|---|---|
| volumes or partitions `bspconf1`, `bspconf2` | `copy[1]`, `copy[2]`; `NoConf` is what `check_bsp_conf()` rejects |
| volumes or partitions `fip`, `fip2` | `fip[0]`, `fip[1]`: good, broken (`load_validate_fip()` fails) or unloadable (`load_auth_image()` fails) |
| `curr_bspconf`, `curr_bspconf_index` | `curr`, `index`; `orig_bspconf` is `copy[index]`, and `persist_bsp_conf_available` is `index # 0` where it is read |
| `__save_bsp_conf()` | `StartSave` (new count), `WriteConf` (the copy is removed or half written), then `SaveDone` or `SaveFails` |
| `import_bsp_conf_bl2()` | `import_bsp_conf_bl2`; `again` is its second save |
| `generic_ubi_write_dual_fip()`, `generic_mmc_write_dual_fip()` | `UpgradeFip`, then `FipDone` or `FipFails` |
| `bspconf save` | `do_bspconf_save` |
| power loss, reset | `PowerCycle`, possible anywhere |

A write that fails may have done nothing, have destroyed the copy or slot, or have completed
it (`update_ubi_volume_raw()` reads back what it wrote). `fresh` is a history variable:
the copy that was saved last, together with one whose save failed after it was
complete. `unsaved` is another: the last save failed and the board has not been started
since. The early return of `import_bsp_conf_bl2()` when BL2 passed no valid configuration
(bsp_conf.c:175-178) is left out, because BL2 always passes one: `finalize_bsp_conf()`
computes its checksum right before it copies it. Size, checksum and count of a slot are left out; an upgrade changes the
count, so that its save is never skipped as unchanged.

### Spmc

CPU_ON sets PWR_ON, waits for the acknowledgement and sets the target's bit of
`cpu_bitmask` through the cache (`SetPwrOn`, `ReadMask`, `SetMask`). CPU_OFF comes here
after `psci_pwrdown_cpu_start()` has disabled the data cache, and works on memory
(`CheckMask`, `ClearPwrOn`, `ClearMask`). `Psci` and `AffInfoState` take the hook to
clear PWR_ON; this module looks at whether it does. `pending` holds the CPUs that were
turned on and have not started: a CPU_ON may set PWR_ON again while its target is still
in `wfi`, which is right and which `OffClearsPwrOn` therefore leaves out. With a hook
that reads the mask from where it was written the property holds.

### UartDl

The unit on the line is a field (a handshake byte, a command, an index, a length, a
checksum, a packet's data, an answer). The host writes a field and reads the echo before
it writes the next one, so a field with a lost byte leaves the target waiting exactly as a lost
field does. `h` and `t` hold the control point and the local variables of `load_fip()`
and of `start_uart_dl()`.

| Code | Model |
|---|---|
| `BL2::handshake()`, `echo()`, `version()`, `send_fip_packet()`, `send_fip()` | `HostWrite` writes; `HostHandshake`, `HostEcho`, `HostVersion`, `HostReply` read; `HostTimeout` is a read that fails |
| `handshake()`, `cmd_process()` of the target | `TargetHandshake`, `TargetCommand`, `TargetBaud`, `TargetSwitch` |
| `receive_data()`, `receive_packet()` | `TargetSize` to `TargetData`; `mem` is what is at `data_loadaddr` |
| the line | `LoseRequest`, `LoseResponse`, `DamageRequest`, `DamageResponse`, late answers; `OnWire` while the baud rates differ |

A damaged field is any value but the one sent. A damaged handshake byte may be any other
byte of the handshake, a damaged command any other command. Damage that cancels an
earlier damage of the same field, and data damage the ones' complement sum does not
see, are left out: no argument about this code can exclude them.

What the model also shows, beside the properties: if the acknowledgement of a packet is
damaged, the host sends a packet that the target has taken, the target answers every
copy with the index it expects next and a sum of 0, and neither ever stops; for the last packet the
target is back in `cmd_process()`, takes the index for a command and stops. A lost
response to a handshake byte other than the first livelocks the same way: the target
starts over at byte 0, the host repeats byte i. A damaged command byte may start the target early. The model counts all damage but that of
packets' data, answers included, as one kind (`bad`), so the exception of `StartsWholeImage` is wider
than that one byte. Hence the conditions in `Completes`, `Terminates` and `StartsWholeImage`.
An empty FIP would never be acknowledged; `Size` is at least 1.

### DualBoot

| Code | Model |
|---|---|
| `dual_boot.current_slot`, `dual_boot.slot_N_invalid` in memory and in flash | `ram`, `env` |
| the register behind `MTK_SIP_WRITE_NONRST_REG` | `reg`: four bytes, read as `s8` |
| `dual_boot()` | `dual_boot`, `BootSlot`, `MarkSaved`, `NextSlot`, `SwitchSaved` or `SwitchFails`, `StartCount`, `BootSlot` |
| `mtkboardboot`, `mtkbootconf` | `BoardBoot`, `BootConf` (`do_boot` FALSE) |
| `mmc_upgrade_image_itb()`, `write_ubi_itb_image()` and the post-upgrade functions | `UpgradeStart`, `UpgradeWritten` or `UpgradeFails`, `UpgradeSaved` (the environment), `UpgradeCounted` (the count) |
| external: the system, the watchdog, resets, power | `SystemUp`, `Watchdog`, `Reset`, `PowerLoss` |

The environment has one copy: a save that is cut short may leave the defaults. The
register is cleared by a loss of power only, and the system clears its count when it is
up, as the boot argument `reset_boot_count` asks. `tries` is a history variable about
images, not about the register: how often in a row the image now in a slot was tried.
It starts again when the image is replaced, when it came up, when the other slot is
tried and when power is lost. `FairTrial` compares it with what `dual_boot()` does, and
makes two exceptions. An image that cannot be started may be given up early; it would
fail anyway. And in `cut` are the slots whose upgrade was reset after the environment
may have been saved and before the count was: if the old image of that slot had used up its tries,
`dual_boot()` gives up the new one untried. That is what the code does: a reset between
mmc_helper.c:1311 and 1317 is enough. Everywhere else the property shows that the count of
a replaced image, or of the other slot, is never held against an image.
`spent` records slots given up. `risky` records that an upgrade began when the other slot would
not have booted: a failed save after an upgrade is printed and forgotten
(mmc_helper.c:1311), memory then calls the new slot current while flash does not, and the next
upgrade overwrites the other slot, the only one flash would boot. `StaysBootable` makes that
exception. Two smaller observations: `mtkbootconf` counts a try without booting, and
`u-boot/board/mediatek/Kconfig:339` says a slot is marked when the count is "larger than" the
maximum where the code says `>=`: the code gives MAX_RETRY_COUNT tries, the text one more.
`FairTrial` states the code's number. When both slots are marked at the start, `dual_boot()` returns an
uninitialised `ret`, here either result.

### Nmbm

| Code | Model |
|---|---|
| `struct nmbm_instance` | `ni`: `st` (block_state), `map` (block_mapping), `changed` (both change flags), `count` (write_count), `main`, `backup` (table addresses), `mapb`, `top` (mapping_blocks_ba, mapping_blocks_top_ba), `dbc` (data_block_count), `protected` |
| `info_table_cache` | `cache` |
| the management area, the bad block marks | `flash`, `phys` |
| `nmbm_write_mgmt_range()` | `EraseTable`, `ProgramTable`, `NoRoom`, for all its callers; `w.to` is where it returns |
| `nmbm_erase_range()` | `Clear`, `Cleared` |
| `nmbm_update_info_table()`, `_once()`, `nmbm_rescue_main_info_table()` | `Update`, `UpdatedBackup`, `UpdatedMain`, `WroteTmp`, `RescuedMain`, `Updated` |
| `nmbm_rebuild_info_table()` | `StartRebuild`, `RebuiltMain`, `RebuiltBackup` |
| `nmbm_load_info_table()` with the rescue and update of a single table | `Load`, `RescuedFront`, `Rescued`, `RescuedBehind`, `ClearedBehind`, `UpdatedOlderMain`, `UpdatedOlderBackup` |
| `nmbm_create_info_table()` | `Create`, `CreateMap`, `CreateNoSpare`, `Created` |
| `nmbm_map_block()`, `nmbm_erase_logic_block()` | `MapBlock`, `Remap`, `EraseLogic`, `NoSpare` |
| writes, `nmbm_mark_bad_block()`, `nmbm_detach()` | `WriteFails`, `MarkBad`, `Detach` |

Every erase and every write of a block is a step, power may be lost before, after or in
the middle of it (`InFlight`), and a block that was caught in the middle may read as
nothing or give an ECC error. A table takes one block, marking a block bad succeeds, the
signature is in place and `NMBM_F_CREATE` is set, as this board sets it.
`kept` holds the mapping of the last completed update and that of an update under way.
The properties about tables make two exceptions, each a history variable: `lone` (the
only table has to be rewritten in place, which the code does when there is no room for
two) and `skipped` (see the finding `nmbm_remap`).

Observations beside the properties: a bad block found during a write of the tables is
forgotten by `nmbm_mark_tables_clean()` at the end of that write, although
nmbm-core.c:1597 says the update is repeated until no new bad block is found;
`block_mapping[] = -1` does not set `block_mapping_changed`, so that a logic block that
became unusable may be mapped to its old block after the next attach (`SavedWhenIdle`
leaves such blocks out); in `nmbm_rescue_main_info_table()` the code for a main table
that reaches the temporary one cannot be reached.

## Runs

| Run | Instance | Checks | Shows |
|---|---|---|---|
| `psci_mt7981` | 2 CPUs, 1 cluster, 3 levels, a good and a bad entry point, hook may fail, fair | `IInv`, `WarmbootAssertions`, `SystemSuspendIsLast`, `LocksAreGranted`, `PendingIsResolved` | the inductive invariant of the proofs; what a starting CPU asserts; the last-CPU check on the real topology; no deadlock on the domain locks; an accepted CPU_ON ends |
| `psci_two_clusters` | 3 CPUs in 2 clusters | `RunningCpuHasRunningDomains`, `LastManDown`, `AffinityLifeCycle`, `DomainChangesUnderLock` | state coordination where CPUs share the system node and no cluster |
| `psci_entry` | 2 CPUs, 2 entry points | `StartsWhereAsked` | violated, see Findings |
| `bakery_three` | 3 CPUs, tickets to 3, fair | `BakeryInv`, `MutualExclusion`, `FirstComeFirstServed`, `EveryGetReturns`, `ImplementsLockService` | the algorithm with interleaved ticket reads; no lost wake-up; the lock `Psci` assumes |
| `affinfo_race` | both results of the hook, fair | `BootsPending`, `OnceIsEnough`, `NoStaleOn`, `ViewLifeCycle`, `AcceptedOnRuns` | CPU_ON against CPU_OFF at the level of caches |
| `spmc_off` | 2 CPUs | `OffClearsPwrOn` | violated, see Findings |
| `bspconf_storage` | counter of 6 values, saves numbered 1, 2 and 4 may fail | `IInv`, `NewestWins`, `InUseKept`, `OneGoodSlot`, `BootsOnceSaved`, `ResultIsSaved` | power loss anywhere, with failing writes |
| `bspconf_retry` | as above | `AlwaysBoots` | violated, see Findings |
| `uartdl_lossy` | 7 units in packets of 1, 2, 3 and the rest, 3 faults, fair | `PrefixIntact`, `InStep`, `FipSent`, `StartsWholeImage`, `PacketFits`, `Completes`, `Terminates` | nothing damaged is counted, reported as sent or started; damaged data is sent again until it is right; the host never waits for ever for a lost request |
| `dualboot_resets` | bytes of 8 values, 3 tries, every kind of image, fair | `StaysBootable`, `FairTrial`, `Boots` | slot choice over resets, power loss, failed saves and upgrades |
| `nmbm_tables` | 9 blocks and the signature, 2 data blocks, the chips of `MCLives`, fair | `LoadsNewest`, `SavedWhenIdle`, `OneOwner`, `TablesApart`, `Returns` | the info tables and the mapping over failing blocks and power loss |
| `nmbm_remap` | last block bad, 2 failures | `MapsToUnused` | violated, see Findings |

**Bounds.** `Psci` has no unbounded state: an instance is finite once the topology and
the entry points are. MT7981 has two CPUs below one cluster below one system node, so
`psci_mt7981` is the real topology. Three CPUs are the least for which one CPU can act
between two others, and two clusters of unequal size the least tree in which levels 1
and 2 have different sets of CPUs. Two entry points distinguish the right one from a
wrong one. In `Bakery` tickets grow without bound while the lock is contended:
`TicketBound` is a guard on new calls, and 2 lets a CPU come back for a higher ticket
while the others still wait. `TicketLimit` is 2^15 as in the code. `AffInfoState` is finite; its run is
exhaustive. In `BspConf` the counter has `CntLimit` values in place of 2^32, so that it
wraps several times. `FailCnts` are the values with which a save may fail. It leaves out
the highest value and 0: only the exact step from one to the other is recognised as a
wrap, and a save that fails there makes the next boot take the older copy, which
matters after 2^32 saves at the earliest. It also leaves out one value in between,
without which a session could fail its way through the whole range of the counter. 1
and 2 are two failures in a row. In `UartDl` the packet lengths 1, 2, 3 go through both
kinds of growth and reach the last one below the limit 4, as 128 to 64512 do below
65536, and the last packet is shorter. `MaxFaults` is 3: a fault, one that hits the
recovery from it, and one more. In `DualBoot` a byte has 8 values instead of 256, enough
for the sign and for counts to 3; nothing else is bounded. In `Nmbm` there are two logic
blocks, so that two can collide, and seven management blocks, room for both tables with
a spare block, a temporary table and mapped blocks. `MCLives` bounds what happens to a
chip: up to three failing blocks, up to two restarts, and factory bad blocks chosen so
that every branch is taken, including chips on which no table, no backup table or no
spare block has room. Every action and every disjunct of every module fires in the runs.

**Fairness.** Only steps that the code itself must take are fair. Nobody has to call
PSCI. In `Psci`: each CPU executes its handler (weak fairness), the power controller
starts a CPU whose PWR_ON bit is set and wake-up interrupts arrive (weak fairness of
the hardware steps), and a CPU is not passed over for ever by a power domain lock or
by its own spin lock (strong fairness of the two acquiring steps). For the domain
locks this is what `ImplementsLockService` checks of the bakery lock. The spin lock
has no queue: there it is an assumption about the hardware's exclusive accesses, in
`Psci` and in `AffInfoState`. In `Bakery` only weak fairness of the CPUs is assumed,
and that a holder releases. In `UartDl` both programs run, and a read of the host ends
by its timeout when nothing can arrive any more; the line owes nothing. In `DualBoot`
the board goes through `dual_boot()` and what it started comes up or is reset by the
watchdog (weak fairness of `Run`); `Boots` is claimed from the moment on at which nothing
disturbs the board from outside (`calm`). In `Nmbm` the driver runs until it returns;
users and losses of power need not come. In `DualBoot`, `UartDl` and `Nmbm` the system may stop
(running, started or hung, or switched off), so deadlock is not checked there.

## Proofs

All theorems hold for all values of the constants that satisfy the assumptions in the
modules: every number of CPUs, tree of power domains, retry limit, size of the image or
of the chip, and any number of faults, failing blocks and losses of power.
For `Psci`, `TreeAssumption` is the one that matters: a node belongs to one level and CPUs that share an ancestor share
those above it.

**`PsciProofs`.** `Invariance` proves `Spec => []IInv`; the other seven theorems follow
from it. Why the properties are not inductive alone, and what each part of `IInv` adds:

1. `RunningCpuHasRunningDomains` needs to know that a coordinating CPU sees the
   requests of all siblings: `ReqInv` says that a CPU's recorded request is a function
   of its control point, `DomainInv` that a node's state follows from the requests.
2. Between recording its request and writing the node's state a CPU makes `DomainInv`
   false for its nodes (`Dirty`). That nobody else looks meanwhile is `LockInv`: what
   a control point says a CPU holds, `lock` says it holds.
3. The state it then writes is the one computed earlier: `InfoInv` says that it still
   equals what the siblings want, which again is stable because of `LockInv`.
4. A warm boot must take the locks that the power down used: `LevelInv` relates
   `target_pwrlvl` to `end_pwrlvl`, and needs that a CPU that was turned on started
   from a full CPU_OFF.
5. `AffInv` and `CpuLockInv` relate affinity state, PWR_ON and control point: CPU_ON
   writes only the state of a CPU that is past its own last write.

The proof has a lemma per part and in it a case per action. `PsciTypes` holds the type
invariant, which needs the ranges of the loop indices from `ControlInv`.
`SuspendIsLast` assumes `NCpus <= 2`, as on MT7981, because with three CPUs it is false. It
adds `ScanInv` to `IInv`: what the CPU inside `psci_is_last_on_cpu()` has read as OFF is
still OFF. The CPU that could turn it on is the one that reads, and a CPU that is off does
not write its own state (`AffInv`).

**`BakeryProofs`.** `BakeryInvariance`, `Exclusion`, `ServesInOrder` and
`BakeryIsALock` assume `[]NoOverflow`: no ticket reaches 2^15. Without it mutual
exclusion is false: the CPU whose ticket is cut to 0 looks like one that does not
contend. The heart is `PassedInv`: everybody whom a CPU
with a ticket has passed in its loop either has no ticket, or is choosing one and will
end above, or has a lower priority. It holds because the choosing flag and the ticket
are one word: a CPU read as not choosing and without a ticket will see the reader's
ticket. `AheadInv` is the same for those who came first. `BakeryIsALock` proves the
safety part of `ImplementsLockService` by step simulation.

**`BspConfProofs`.** `GoodSlotKept` needs no condition: `SlotInv` says that the slot
loaded or written last is good, and an upgrade writes the other one. `NewestIsTaken`
and `InUseStays` follow from `StorageInvariance`, for a counter of any length from 3 and
under `FailuresAreFew`. `NewestWins` is not inductive alone. `CountInv` says how far
`upd_cnt` has run ahead of the copy in use, which is by failed saves only; so the two
copies differ by a wrap of exactly one step or not by a wrap at all, and `Newer` is
right about both (`SavedIsNewer`). `FreshInv` ties the copy in use to the newest one and
says that a save without one in use can only be writing copy 1. `BootsUnlessUnsaved`
and `ReadyIsSaved` follow from `ServedInvariance`, under the same condition. `ServedInv`
has three parts: until a save fails, U-Boot works on what the next boot will read
(`ResultInv`); the slot in use is never marked (`UnmarkedInv`); and a good slot is
unmarked both in what the next boot reads and in what it would read if the other copy
were broken by a save cut short (`LeavesInv`). The second half of `LeavesInv` is why the
theorem needs the storage invariant: which copy is read then is a question of counters.

**`DualBootProofs`.** `TrialIsFair` needs `CountInv`: the register always holds a
packed pair of slot and count, and the count is at most the number of times in a row
the image of that slot was tried, except where the slot is `Excused`: its image is
broken, or its upgrade was cut short or is between its last write and the reset of the count.
So a count survives an upgrade only together with an excuse (`CountKept`), which lasts
until a count is started (`CountStep`, `ResetStep`). The byte pairs are read back as written because a count stays
below half the range of its byte (`PairReads`), which is what `DualBootAssumption` asks
of the retry limit. `ControlInv` relates the control points of `dual_boot()` to the marks
in memory; `BothSlotsTried` is its last part, and `TypeCorrect` is the type invariant,
which no run repeats. Both hold with retries disabled too. `BootableSlotIsLeft` needs
more, because after a failed save the marks in memory and in flash differ. `SafeInv`
says that one good slot is unmarked in both, so that it does not matter which of them a
reset makes true. An upgrade destroys the slot that is not current; hence `StaleInv`: a
good slot that only memory has marked is never the current one. `UpgradeInv` says that
the other slot can take over while one is written.

**`UartDlProofs`.** `EveryPacketFits` rests on `HostInv`: the position is inside the image
and the packet length between 1 and the limit, and they stay so because the host goes on
only when more than one packet is left and the lengths grow within what
`UartDlAssumption` allows (65536, 32768, 1024 and 64512 satisfy it). The rest of that invariant types
the two programs and the line (`TypeCorrect`), whatever number of faults it has.

What is transferred rests on `StepInvariance`. Its parts follow the protocol. A field
travels alone: a target inside a command finds one field on the line, of the kind it
reads (`ToTargetInv`). Inside a command host and target are at the same field, and at a
packet the target is even with the host or one packet ahead, if its acknowledgement was
lost (`FieldInv`, `Awaits`). The host goes on only after the one answer it expects, and
that answer says that the target has gone on (`AnswerInv`, `CommandInv`); here it
matters that the echo of a command cannot be one of the handshake's answers still under
way. The rates differ only while the host waits for the echo of the new one or the
target switches (`BaudInv`); what is read at a wrong rate looks like a damaged handshake
byte, never like a command (`GarbageInv`). `StoredInv` is then inductive: data is
counted only if its sum fits and its place continues what was stored. `WholeInv` carries
it to the command that starts the image. `StaysInStep`, `ReceivedIsIntact`,
`SentIsReceived` and `StartsOnlyWhole` are its consequences. The checksum is taken to
see all damage, as the model says.

**`AffInfoProofs`.** `LineInvariance` has one state with a stale copy: between its write
of OFF and its invalidation the target leaves a clean copy that says ON (`LineInv`). No
CPU_ON works on it, because the caller reads ON and returns ALREADY_ON. `CallerInv` is
the reason why one retry is enough: an update can be lost only to the target's one
invalidation, and a caller that has seen it lost has that invalidation behind.
`TargetInv` says what memory holds while the target goes down and comes up. The five
theorems cover all the safety properties of the module; `InvalidAssumption` (the mark of
an absent copy is not a state) is all they need.

**`NmbmProofs`.** `TablesInvariance` proves `Inv`, which is the conjunction `Good` as
long as no bad block was passed over (`skipped`, the finding `nmbm_remap`: without the
condition `OneOwner` is false). It covers chips of every size with every reserve between
the tables, and every number of failing blocks and of restarts. The parts of `Good`:

1. `FlashInv`: at most two blocks hold a table that can be read. Each table
   knows both blocks as good and maps nothing at or below them; of two different ones the one with the higher
   count knows all bad blocks of the other; and in front of two there is no block that
   a search could take for a place to write. So the two searches of an attach find
   exactly these tables (`FoundTables`) and the one it loads is the younger.
2. `PlaceInv`, `RangeInv`: main table, backup table, unmapped blocks and mapped blocks
   follow one another, and each of the ten writes has a range that ends below the mapped
   blocks and leaves out one table, `Keep`, which is complete. `TablesKeepApart` and
   `NoBlockIsShared` need no more than these two.
3. `LiveInv`, `FrontInv`: which tables exist during a write. The one that is replaced
   (`Victim`) exists until its block is erased, and it is the first that is, because no
   block in front of it can be used; otherwise a third table could appear.
4. `OrderInv`, `CacheInv`: no table in flash is younger than the instance or than the
   table being written.
5. `KeptInv`: as long as the only table was not written in place (`lone`), the table left out
   is complete and its mapping is one of `kept`, and any other table's is too or is out
   of date and the next to be erased. `AttachLoadsNewest` follows for every step,
   not only for those at which power is lost.
6. `NotedInv`: a mapping that is not in the tables is noted as changed, so that an
   operation does not return before it is written. `IdleIsSaved` is this and `KeptInv`.

The proof has a lemma per action (`UpdateStep`, `PowerLossStep`, ...) and in it a step
per part. The walks over blocks are reduced to `Least`, `Greatest` and `RankTaken`, facts
about finite sets of integers that the provers do not find by themselves.

**Only model-checked.** Liveness (`LocksAreGranted`, `PendingIsResolved`,
`EveryGetReturns`, `AcceptedOnRuns`, `Completes`, `Terminates`, `Boots`, `Returns`, the
fairness part of `ImplementsLockService`): fairness and ENABLED are out of the prover's
reach. Every safety invariant and every action property that a passing run checks is
stated by a theorem.

## Findings

1. **The entry point is written before the target is checked** (`psci_entry`).
   `psci_cpu_on()` has `psci_validate_entry_point()` fill the target's
   `warmboot_ep_info` before it takes the target's lock. A CPU_ON that is answered
   ALREADY_ON or ON_PENDING still replaces the entry point of a CPU that is starting
   or suspended.
2. **A failed save leaves U-Boot and the storage with different current slots**
   (`bspconf_retry`). `generic_ubi_write_dual_fip()` switches `curr_bspconf` to the slot
   it wrote and does not switch back when the configuration cannot be saved. The next
   attempt overwrites the slot that the storage calls current, while the other one,
   good by now, may still be marked invalid there. After a power loss BL2 then finds no
   slot although one is good.
3. **Two logic blocks get the same spare block** (`nmbm_remap`). `nmbm_map_block()`
   walks down from `mapping_blocks_top_ba` over bad blocks to a good one and then lowers
   `mapping_blocks_top_ba` by one, not to below the block it took. The next call finds the
   same block. In the run the last block below the signature is bad and two data
   blocks fail, without any loss of power.
4. **CPU_OFF may leave PWR_ON set** (`spmc_off`). The bit of `cpu_bitmask` that says
   the CPU is on is set in the cache of the CPU that turned it on and tested in memory,
   with the data cache off, by the CPU that goes off; nothing flushes the word. A bit
   read as clear ends `spmc_cpu_corex_onoff()` before it clears PWR_ON.

Seen while modelling, without a run of their own. What MT7981 does not reach: with three CPUs the last-CPU check of `psci_is_last_on_cpu()` is not atomic (a CPU read
as OFF is turned on by one not read yet, which then turns itself off; with the two CPUs of
MT7981 it cannot happen: `psci_mt7981`, `SuspendIsLast`); a ticket of the bakery lock that outgrows its
15 bits is stored as 0, after 2^15 - 1 contended hand-overs without a pause; when the
platform refuses CPU_ON, OFF is restored in the same cache race as ON_PENDING was
written, without its retry, and the hook of MT7981 refuses no CPU that exists. Of U-Boot:
the boot count of an image that was replaced is held against the new one after a reset
between the save of the upgrade and the reset of the count, and the number of
tries is one less than Kconfig says (see `DualBoot`).

## What is not modelled

- Of PSCI: OS-initiated mode, statistics and Secure Payload Dispatcher hooks (not
  compiled in for MT7981); AFFINITY_INFO, VERSION, FEATURES (they only read);
  MEM_PROTECT (no hooks); SYSTEM_OFF and SYSTEM_RESET (watchdog reset); rejected MPIDRs
  (no state changes); retention above level 0 (the platform's
  `plat_validate_power_state()` never asks for it); the cache edge case of a target in
  another cluster (one cluster here).
- `populate_power_domain_tree()`: its result is `TreeAssumption`.
- Of the hooks: the generic timer's registers and the sequences of the SPMC beyond the
  PWR_ON bit and `cpu_bitmask`.
- `bspconf set`, with which an operator may store anything; FIPs that are bad when they
  are uploaded; the parsing of a FIP's table of contents; an MMC partition too small for
  two copies.
- Of the download: the boot ROM's side and `bootrom.rs`, which speaks to it; the ROM's
  code is not in the repository.
- Of dual boot: the emergency image, the rootfs_data volumes, the boot arguments.
- Of NMBM: reads, page data and OOB layouts, read-only mode, the search for and the
  creation of the signature, tables of more than one block, a bad block mark that fails.
- The recovery environment (TCP stack, HTTP server, failsafe pages).
- The other boot loader components, listed with their status in `PROJECT.json`.

## Plan

Done: the PSCI core, the lock under it and the cache races beside it, the boot
configuration, the serial download, the dual boot and NMBM, all with proofs.
Next, in this order:

1. The TCP state machine and the HTTP server of the recovery environment.
2. `Topology`: `populate_power_domain_tree()` yields a tree as `TreeAssumption` wants.
3. Abstract specifications: one atomic register for `BspConf`, a transfer of packets in
   order for `UartDl`, an atomic mapping for `Nmbm`.

The theorem worth proving next: that the redundant store implements the atomic register.
