-------------------------------- MODULE Nmbm --------------------------------
(***************************************************************************)
(* NMBM, the bad block management below U-Boot's NAND (nmbm-core.c): which *)
(* physical block a logic block is mapped to, and the two info tables that *)
(* keep the mapping in flash.  Blocks fail when they are erased or         *)
(* written, and power is lost between any two operations on the flash or   *)
(* in the middle of one.  Physical block addresses grow as follows:        *)
(*     data blocks, then the management area: main table, spare blocks,    *)
(*     backup table, unmapped blocks, mapped blocks, then the signature.   *)
(* A table takes one block, as it does on every chip of up to 30000 blocks.*)
(* The signature is in place and its block is good.                        *)
(***************************************************************************)
EXTENDS Integers, FiniteSetsExt

CONSTANTS
    DataBlocks,    \* mgmt_start_ba: number of data blocks, and of logic blocks
    SignatureBa,   \* signature_ba
    Spare,         \* info_table_spare_blocks
    Lives          \* bounds: what may happen to a chip.  bad: the blocks that are
                   \* bad from the start; fails: how many fail later;
                   \* restarts: losses of power and detaches

ASSUME NmbmAssumption ==
    /\ DataBlocks \in Nat \ {0} /\ SignatureBa \in Nat /\ Spare \in Nat
    /\ DataBlocks < SignatureBa
    /\ \A life \in Lives : /\ life.bad \subseteq 0 .. SignatureBa - 1
                            /\ life.fails \in Nat /\ life.restarts \in Nat

Blocks == 0 .. SignatureBa
LogicBlocks == 0 .. DataBlocks - 1
Mgmt == DataBlocks .. SignatureBa - 1
NoBlock == -1   \* block_mapping of an unusable logic block
NoTable == 0    \* main_table_ba, backup_table_ba

\* What a block holds: a table, or something that does not read as one; "ecc" cannot be read at all.
Empty(k) == [kind |-> k]
IsTable(c) == c.kind = "table"

VARIABLES
    flash,    \* flash[b]: what block b of the management area holds
    phys,     \* the blocks marked bad in their spare area
    ni,       \* struct nmbm_instance
    cache,    \* info_table_cache
    pc,       \* the step the driver is at
    w,        \* the table being written: range, where to go on, where it was put
    op,       \* the logic block being worked on, and where to go on
    fails,    \* blocks that may still fail
    restarts, \* losses of power and detaches that may still come
    kept,     \* history: the mapping of the last update that was completed, and
              \* the one of an update that has begun since
    lone,     \* history: the only table was written in place, or none could be
    skipped   \* history: nmbm_map_block() has passed over a bad block

vars == <<flash, phys, ni, cache, pc, w, op, fails, restarts, kept, lone, skipped>>
histVars == <<kept, lone, skipped>>

AllGood == [b \in Blocks |-> "good"]
Unmapped == [l \in LogicBlocks |-> NoBlock]

NoInstance ==
    [st |-> AllGood, map |-> Unmapped, changed |-> FALSE, count |-> 0,
     main |-> NoTable, backup |-> NoTable, mapb |-> 0, top |-> 0,
     dbc |-> 0, protected |-> FALSE]
NoWrite == [ba |-> 0, limit |-> 0, to |-> "off", start |-> 0, try |-> 0, tmp |-> 0]
NoOp == [lb |-> 0, then |-> "idle"]

\* A new chip, not attached
Init ==
    /\ \E life \in Lives :
         phys = life.bad /\ fails = life.fails /\ restarts = life.restarts
    /\ flash = [b \in Mgmt |-> Empty("blank")]
    /\ ni = NoInstance /\ cache = Empty("blank") /\ w = NoWrite /\ op = NoOp
    /\ pc = "off"
    /\ kept = {} /\ lone = FALSE /\ skipped = FALSE

-----------------------------------------------------------------------------
(* Block states and the walks over good blocks *)

\* nmbm_set_block_state() of the blocks of S
SetState(n, S, s) ==
    [n EXCEPT !.st = [b \in Blocks |-> IF b \in S THEN s ELSE @[b]],
              !.changed = @ \/ \E b \in S : n.st[b] # s]

\* The good blocks from a up to, and without, limit
GoodIn(n, a, limit) == {b \in a .. limit - 1 : n.st[b] = "good"}

\* nmbm_try_reserve_blocks(): the good block after Spare good ones, or after as
\* many as there are; no element if there is none.
Reserved(n, a, limit) ==
    LET G == GoodIn(n, a, limit) IN
    {b \in G : Cardinality({g \in G : g < b}) = Min({Spare, Cardinality(G) - 1})}

\* nmbm_mark_tables_clean()
Clean(n) == [n EXCEPT !.changed = FALSE]

-----------------------------------------------------------------------------
(* Writing a table: nmbm_write_mgmt_range() *)

\* A write from block ba, below limit, begins; it goes on at step to.
StartWrite(ba, limit, to) ==
    /\ pc' = "erase_table"
    /\ w' = [w EXCEPT !.ba = ba, !.limit = limit, !.to = to]

\* The blocks it may still use
Usable == {b \in GoodIn(ni, w.ba, w.limit) : b \notin phys}

\* A block it passes over that turns out to be marked bad
FoundBad(upto) == {b \in GoodIn(ni, w.ba, upto) : b \in phys}

\* Block b holds c from now on; what data blocks hold does not matter here.
Put(b, c) == flash' = IF b \in Mgmt THEN [flash EXCEPT ![b] = c] ELSE flash

\* Block b fails: it is marked and the next one is tried.
Fails(b, n) ==
    /\ fails > 0 /\ fails' = fails - 1
    /\ phys' = phys \cup {b}
    /\ Put(b, Empty("junk"))
    /\ ni' = SetState(n, {b}, "bad")

EraseTable ==
    /\ pc = "erase_table" /\ Usable # {}
    /\ LET b == Min(Usable)
           n == SetState(ni, FoundBad(b), "bad") IN
         \/ /\ Put(b, Empty("blank"))
            /\ pc' = "program_table" /\ w' = [w EXCEPT !.ba = b]
            /\ ni' = n
            /\ UNCHANGED <<phys, fails>>
         \/ /\ Fails(b, n)
            /\ w' = [w EXCEPT !.ba = b + 1]
            /\ UNCHANGED pc
    /\ UNCHANGED <<cache, op, restarts>> /\ UNCHANGED histVars

ProgramTable ==
    /\ pc = "program_table"
    /\ \/ /\ Put(w.ba, cache)
          /\ pc' = w.to /\ w' = [w EXCEPT !.start = w.ba]
          /\ UNCHANGED <<phys, ni, fails>>
       \/ /\ Fails(w.ba, ni)
          /\ pc' = "erase_table" /\ w' = [w EXCEPT !.ba = @ + 1]
    /\ UNCHANGED <<cache, op, restarts>> /\ UNCHANGED histVars

\* No block is left: the write has failed.
NoRoom ==
    /\ pc = "erase_table" /\ Usable = {}
    /\ ni' = SetState(ni, FoundBad(w.limit), "bad")
    /\ pc' = w.to /\ w' = [w EXCEPT !.start = NoTable]
    /\ UNCHANGED <<flash, phys, cache, op, fails, restarts>> /\ UNCHANGED histVars

Written == w.start # NoTable

\* nmbm_erase_range() from ba, below limit, block by block
StartClear(ba, limit, to) ==
    /\ pc' = "clear"
    /\ w' = [w EXCEPT !.ba = ba, !.limit = limit, !.to = to]

Clear ==
    /\ pc = "clear" /\ w.ba < w.limit
    /\ LET b == w.ba IN
         \/ /\ ni.st[b] = "good" /\ b \notin phys
            /\ \/ /\ Put(b, Empty("blank"))
                  /\ UNCHANGED <<phys, ni, fails>>
               \/ Fails(b, ni)
         \/ /\ ni.st[b] # "good" \/ b \in phys
            /\ ni' = IF ni.st[b] = "good" THEN SetState(ni, {b}, "bad") ELSE ni
            /\ UNCHANGED <<flash, phys, fails>>
    /\ w' = [w EXCEPT !.ba = @ + 1]
    /\ UNCHANGED <<cache, pc, op, restarts>> /\ UNCHANGED histVars

Cleared ==
    /\ pc = "clear" /\ w.ba >= w.limit
    /\ pc' = w.to
    /\ UNCHANGED <<flash, phys, ni, cache, w, op, fails, restarts>> /\ UNCHANGED histVars

\* nmbm_generate_info_table_cache()
Counted(n) == IF n.changed THEN [n EXCEPT !.count = @ + 1] ELSE n
TableOf(n) == [kind |-> "table", count |-> n.count, st |-> n.st, map |-> n.map]

-----------------------------------------------------------------------------
(* nmbm_rebuild_info_table(): both tables from scratch *)

flashVars == <<flash, phys, fails, restarts>>

StartRebuild(n) ==
    /\ ni' = [n EXCEPT !.main = NoTable, !.backup = NoTable, !.mapb = n.top]
    /\ StartWrite(DataBlocks, n.top, "rebuilt_main")

\* It returns to nmbm_create_info_table() or to nmbm_update_info_table().
AfterRebuild == IF op.then = "create" THEN "create_map" ELSE "update"

RebuiltMain ==
    /\ pc = "rebuilt_main"
    /\ \/ /\ ~Written
          /\ ni' = [ni EXCEPT !.protected = TRUE]
          /\ pc' = IF op.then = "create" THEN "dead" ELSE "update"
          /\ UNCHANGED <<w, kept>>
       \/ /\ Written
          /\ ni' = Clean([ni EXCEPT !.main = w.start, !.mapb = w.start + 1])
          /\ kept' = {cache.map}
          /\ LET R == Reserved(ni, w.start + 1, ni.top - 1) IN
               IF R = {} THEN pc' = AfterRebuild /\ UNCHANGED w
               ELSE StartWrite(Min(R), ni.top, "rebuilt_backup")
    /\ UNCHANGED <<cache, op, lone, skipped>> /\ UNCHANGED flashVars

RebuiltBackup ==
    /\ pc = "rebuilt_backup"
    /\ IF ~Written THEN pc' = AfterRebuild /\ UNCHANGED <<ni, w>>
       ELSE /\ ni' = [ni EXCEPT !.backup = w.start, !.mapb = w.start + 1]
            /\ StartClear(ni.main + 1, w.start, AfterRebuild)
    /\ UNCHANGED <<cache, op>> /\ UNCHANGED flashVars /\ UNCHANGED histVars

-----------------------------------------------------------------------------
(* nmbm_update_info_table() and nmbm_update_info_table_once() *)

\* One round: the backup table first, if there is one.
Update ==
    /\ pc = "update" /\ ~ni.protected /\ ni.changed
    /\ LET n == Counted(ni) IN
         /\ ni' = n /\ cache' = TableOf(n)
         /\ IF n.backup = NoTable THEN StartWrite(n.main, n.top, "updated_main")
            ELSE StartWrite(n.backup, n.top, "updated_backup")
         /\ lone' = (lone \/ n.backup = NoTable)
         /\ kept' = kept \cup {n.map}
    /\ UNCHANGED <<op, skipped>> /\ UNCHANGED flashVars

\* The instance is gone.
Forget == ni' = NoInstance /\ cache' = Empty("blank") /\ w' = NoWrite /\ op' = NoOp

\* Nothing is left to be written; an update that fails is not reported.
Updated ==
    /\ pc = "update" /\ (ni.protected \/ ~ni.changed)
    /\ kept' = IF ni.protected THEN kept ELSE {cache.map}
    /\ pc' = op.then
    /\ IF op.then = "off" THEN Forget
       ELSE /\ w' = NoWrite /\ UNCHANGED <<ni, cache>>
            /\ op' = IF op.then = "idle" THEN NoOp ELSE op
    /\ UNCHANGED <<lone, skipped>> /\ UNCHANGED flashVars

UpdatedBackup ==
    /\ pc = "updated_backup"
    /\ IF Written
       THEN /\ ni' = Clean([ni EXCEPT !.backup = w.start, !.mapb = w.start + 1])
            /\ StartWrite(ni.main, w.start, "updated_main")
            /\ UNCHANGED lone
       ELSE /\ ni' = [ni EXCEPT !.mapb = ni.backup, !.backup = NoTable]
            /\ StartWrite(ni.main, ni.top, "updated_main")
            /\ lone' = TRUE
    /\ UNCHANGED <<cache, op, kept, skipped>> /\ UNCHANGED flashVars

\* nmbm_rescue_main_info_table() up to its first write
StartRescueMain ==
    LET R == Reserved(ni, ni.mapb, ni.top - 1) IN
    IF R = {}
    THEN /\ ni' = [ni EXCEPT !.main = ni.backup, !.backup = NoTable]
         /\ pc' = "update" /\ UNCHANGED w
    ELSE /\ pc' = "erase_table"
         /\ w' = [w EXCEPT !.ba = Min(R), !.limit = ni.top, !.to = "wrote_tmp",
                           !.try = Min(R)]
         /\ UNCHANGED ni

UpdatedMain ==
    /\ pc = "updated_main"
    /\ \/ /\ Written
          /\ ni' = Clean([ni EXCEPT !.main = w.start,
                            !.mapb = IF ni.backup = NoTable THEN w.start + 1 ELSE @])
          /\ pc' = "update" /\ UNCHANGED w
       \/ /\ ~Written /\ ni.backup = NoTable
          /\ StartRebuild(ni)
       \/ /\ ~Written /\ ni.backup # NoTable
          /\ StartRescueMain
    /\ UNCHANGED <<cache, op>> /\ UNCHANGED flashVars /\ UNCHANGED histVars

\* Mutant: the next try begins at the same block.
TrySame(x) == [x EXCEPT !.ba = x.try]

\* write_ba--, and the table is tried from there.
TryBelow(x) == [x EXCEPT !.ba = x.try - 1, !.try = @ - 1]

\* The temporary table, behind the backup table
WroteTmp ==
    /\ pc = "wrote_tmp"
    /\ \/ /\ Written
          /\ ni' = [ni EXCEPT !.mapb = w.start + 1]
          /\ pc' = "erase_table"
          /\ w' = [w EXCEPT !.ba = DataBlocks, !.limit = w.start,
                            !.to = "rescued_main", !.tmp = w.start]
       \/ /\ ~Written /\ w.try > ni.mapb
          /\ pc' = "erase_table" /\ w' = TryBelow(w)
          /\ UNCHANGED ni
       \/ /\ ~Written /\ w.try <= ni.mapb
          /\ ni' = [ni EXCEPT !.main = ni.backup, !.backup = NoTable]
          /\ pc' = "update" /\ UNCHANGED w
    /\ UNCHANGED <<cache, op>> /\ UNCHANGED flashVars /\ UNCHANGED histVars

\* The main table, which is below the temporary one: what follows for one that
\* is not cannot be reached.
RescuedMain ==
    /\ pc = "rescued_main"
    /\ ni' = Clean(IF Written THEN [ni EXCEPT !.main = w.start, !.backup = w.tmp]
                   ELSE [ni EXCEPT !.main = w.tmp, !.backup = NoTable])
    /\ pc' = "update"
    /\ UNCHANGED <<cache, w, op>> /\ UNCHANGED flashVars /\ UNCHANGED histVars

-----------------------------------------------------------------------------
(* nmbm_rescue_single_info_table(), nmbm_update_single_info_table() *)

\* The end of nmbm_load_info_table()
Attached(n, success) ==
    /\ ni' = [n EXCEPT !.protected = n.mapb = n.top \/ ~success]
    /\ pc' = "idle" /\ w' = NoWrite

StartRescue(n) == ni' = n /\ StartWrite(DataBlocks, n.main, "rescued_front")

RescuedFront ==
    /\ pc = "rescued_front"
    /\ IF Written
       THEN /\ ni' = Clean([ni EXCEPT !.backup = ni.main, !.main = w.start])
            /\ StartClear(w.start + 1, ni.main, "rescued")
       ELSE LET R == Reserved(ni, ni.mapb, ni.top - 1) IN
            IF R = {} THEN Attached(ni, FALSE)
            ELSE /\ pc' = "erase_table"
                 /\ w' = [w EXCEPT !.ba = Min(R), !.limit = ni.top,
                                   !.to = "rescued_behind", !.try = Min(R)]
                 /\ UNCHANGED ni
    /\ UNCHANGED <<cache, op>> /\ UNCHANGED flashVars /\ UNCHANGED histVars

Rescued ==
    /\ pc = "rescued"
    /\ Attached(ni, TRUE)
    /\ UNCHANGED <<cache, op>> /\ UNCHANGED flashVars /\ UNCHANGED histVars

RescuedBehind ==
    /\ pc = "rescued_behind"
    /\ \/ /\ Written
          /\ StartClear(ni.mapb, w.start, "cleared_behind")
          /\ UNCHANGED ni
       \/ /\ ~Written /\ w.try > ni.mapb
          /\ pc' = "erase_table" /\ w' = TryBelow(w)
          /\ UNCHANGED ni
       \/ /\ ~Written /\ w.try <= ni.mapb
          /\ Attached(ni, FALSE)
    /\ UNCHANGED <<cache, op>> /\ UNCHANGED flashVars /\ UNCHANGED histVars

ClearedBehind ==
    /\ pc = "cleared_behind"
    /\ Attached(Clean([ni EXCEPT !.backup = w.start, !.mapb = w.start + 1]), TRUE)
    /\ UNCHANGED <<cache, op>> /\ UNCHANGED flashVars /\ UNCHANGED histVars

UpdatedOlderMain ==
    /\ pc = "updated_older_main"
    /\ IF Written
       THEN Attached(Clean([ni EXCEPT !.main = w.start]), TRUE)
       ELSE StartRescue([ni EXCEPT !.main = ni.backup, !.backup = NoTable])
    /\ UNCHANGED <<cache, op>> /\ UNCHANGED flashVars /\ UNCHANGED histVars

UpdatedOlderBackup ==
    /\ pc = "updated_older_backup"
    /\ IF Written
       THEN Attached(Clean([ni EXCEPT !.backup = w.start, !.mapb = w.start + 1]), TRUE)
       ELSE Attached([ni EXCEPT !.mapb = ni.backup, !.backup = NoTable], FALSE)
    /\ UNCHANGED <<cache, op>> /\ UNCHANGED flashVars /\ UNCHANGED histVars

-----------------------------------------------------------------------------
(* nmbm_attach(): nmbm_load_info_table() *)

\* nmbm_try_load_info_table(): the table at b is valid, given the block states.
Loadable(b, st) ==
    /\ st[b] = "good" /\ b \notin phys /\ IsTable(flash[b])
    /\ flash[b].st[b] = "good"
    /\ \A l \in LogicBlocks : flash[b].map[l] \notin (DataBlocks .. b) \cup {SignatureBa}

\* nmbm_search_info_table() from a: the first one, or NoTable.  It stops one
\* block below the signature.
Search(a, st) ==
    LET L == {b \in a .. SignatureBa - 2 : Loadable(b, st)} IN
    IF L = {} THEN NoTable ELSE Min(L)

\* The blocks from a, below limit, that the search records as bad
Unreadable(a, limit, st) ==
    {b \in a .. limit - 1 : st[b] = "good" /\ (b \in phys \/ flash[b].kind = "ecc")}

\* The main table found by nmbm_load_info_table(), and the backup table behind m
FindMain == Search(DataBlocks, AllGood)
FindBackup(m) == Search(m + 1, flash[m].st)

\* Mutant: the table found first is kept.
FirstFound(m, b) == flash[m]

\* The table that is loaded: the second one only if it is newer.
Loaded(m, b) ==
    IF b # NoTable /\ flash[b].count > flash[m].count THEN flash[b] ELSE flash[m]

\* nmbm_check_info_table(): below the lowest mapped block behind the table at b
TopOf(b) == Min({SignatureBa} \cup
                {flash[b].map[l] : l \in {k \in LogicBlocks : flash[b].map[k] > b}}) - 1

\* ni when both searches are done
LoadedInstance(m, b) ==
    LET before == Unreadable(DataBlocks, m, AllGood)
        behind == Unreadable(m + 1, IF b = NoTable THEN SignatureBa - 1 ELSE b,
                             flash[m].st)
        table == Loaded(m, b)
        newer == table # flash[m]
        mapped == {l \in LogicBlocks : table.map[l] # NoBlock} IN
    [st |-> IF newer THEN table.st
            ELSE [x \in Blocks |-> IF x \in behind THEN "bad" ELSE table.st[x]],
     map |-> table.map,
     changed |-> before \cup behind # {},
     count |-> table.count,
     main |-> m, backup |-> b,
     mapb |-> (IF b = NoTable THEN m ELSE b) + 1,
     top |-> TopOf(IF newer THEN b ELSE m),
     dbc |-> IF mapped = {} THEN DataBlocks ELSE Max(mapped) + 1,
     protected |-> FALSE]

Load ==
    /\ pc = "off" /\ FindMain # NoTable
    /\ LET m == FindMain
           b == FindBackup(m)
           n == Counted(LoadedInstance(m, b)) IN
         /\ cache' = TableOf(n)
         /\ kept' = {n.map}
         /\ \/ /\ b = NoTable
               /\ StartRescue(n)
            \/ /\ b # NoTable /\ flash[m].count # flash[b].count
               /\ ni' = [n EXCEPT !.changed = TRUE]
               /\ IF flash[m].count < flash[b].count
                  THEN StartWrite(m, b, "updated_older_main")
                  ELSE StartWrite(b, n.top, "updated_older_backup")
            \/ /\ b # NoTable /\ flash[m].count = flash[b].count
               /\ Attached(n, TRUE)
    /\ UNCHANGED <<op, lone, skipped>> /\ UNCHANGED flashVars

\* nmbm_scan_badblocks(), nmbm_build_mapping_table() and the first half of
\* nmbm_create_info_table(), when no table is found
NewInstance ==
    LET bad == phys \cup Unreadable(DataBlocks, SignatureBa - 1, AllGood)
        data == (0 .. DataBlocks - 1) \ bad IN
    [st |-> [b \in Blocks |-> IF b \in bad THEN "bad" ELSE "good"],
     map |-> [l \in LogicBlocks |->
                IF l < Cardinality(data)
                THEN CHOOSE b \in data : Cardinality({d \in data : d < b}) = l
                ELSE NoBlock],
     changed |-> bad # {}, count |-> 0, main |-> NoTable, backup |-> NoTable,
     mapb |-> 0,
     top |-> Max({0} \cup ((DataBlocks + 1 .. SignatureBa - 1) \ bad)),
     dbc |-> Cardinality(data), protected |-> FALSE]

Create ==
    /\ pc = "off" /\ FindMain = NoTable
    /\ LET n == Counted(NewInstance) IN
         IF n.top = 0
         THEN /\ ni' = n /\ pc' = "dead"
              /\ UNCHANGED <<cache, w, op>>
         ELSE /\ cache' = TableOf(n)
              /\ op' = [op EXCEPT !.then = "create"]
              /\ StartRebuild(n)
    /\ UNCHANGED flashVars /\ UNCHANGED histVars

-----------------------------------------------------------------------------
(* nmbm_map_block() *)

\* The unmapped good blocks nmbm_block_walk_desc() walks over
Unused(n) == GoodIn(n, n.mapb + 1, n.top + 1)

\* Mutant: the top stays where it is.
MapKeepsTop(n, l) == [n EXCEPT !.map[l] = Max(Unused(n)), !.changed = TRUE]

\* Mutant: the tables are not noted as changed.
MapUnnoted(n, l) == [n EXCEPT !.map[l] = Max(Unused(n)), !.top = @ - 1]

\* Mutant: the top is moved for the walk and for the block.
MapMovesTwice(n, l) == [n EXCEPT !.map[l] = Max(Unused(n)), !.top = @ - 2,
                                 !.changed = TRUE]

\* The first good one is taken; the top moves down by one.
MapBlock(n, l) == [n EXCEPT !.map[l] = Max(Unused(n)), !.top = @ - 1,
                            !.changed = TRUE]

\* Logic block op.lb is mapped in n, if there is a block, and the tables are
\* updated; the update of an unsuccessful walk comes before top is moved.
Remap(n, mapped, unmapped, nospare) ==
    /\ pc' = "update"
    /\ \/ /\ n.mapb = n.top
          /\ ni' = unmapped /\ op' = [op EXCEPT !.then = "idle"]
          /\ UNCHANGED skipped
       \/ /\ n.mapb # n.top /\ Unused(n) = {}
          /\ ni' = n /\ op' = [op EXCEPT !.then = nospare]
          /\ UNCHANGED skipped
       \/ /\ n.mapb # n.top /\ Unused(n) # {}
          /\ ni' = mapped /\ op' = [op EXCEPT !.then = "erase"]
          /\ skipped' = (skipped \/ n.st[n.top] # "good")

Unserved(n) == n.dbc < DataBlocks

\* The rest of nmbm_create_info_table(): the logic blocks that factory bad
\* blocks have left without a data block
CreateMap ==
    /\ pc = "create_map"
    /\ IF Unserved(ni) /\ ni.mapb # ni.top /\ Unused(ni) # {}
       THEN /\ ni' = [MapBlock(ni, ni.dbc) EXCEPT !.dbc = @ + 1]
            /\ skipped' = (skipped \/ ni.st[ni.top] # "good")
            /\ UNCHANGED <<pc, op>>
       ELSE /\ pc' = "update"
            /\ op' = [op EXCEPT !.then =
                        IF Unserved(ni) /\ ni.mapb # ni.top
                        THEN "create_nospare" ELSE "created"]
            /\ UNCHANGED <<ni, skipped>>
    /\ UNCHANGED <<cache, w, kept, lone>> /\ UNCHANGED flashVars

\* A device that has become read-only before has nothing to update.
CreateNoSpare ==
    /\ pc = "create_nospare"
    /\ ni' = [ni EXCEPT !.top = ni.mapb]
    /\ pc' = IF ni.protected THEN "idle" ELSE "update"
    /\ op' = [op EXCEPT !.then = "created"]
    /\ UNCHANGED <<cache, w>> /\ UNCHANGED flashVars /\ UNCHANGED histVars

Created ==
    /\ pc = "created"
    /\ pc' = IF ni.protected THEN "dead" ELSE "idle"
    /\ op' = NoOp
    /\ UNCHANGED <<ni, cache, w>> /\ UNCHANGED flashVars /\ UNCHANGED histVars

-----------------------------------------------------------------------------
(* Operations on logic blocks *)

MayWrite(l) == pc = "idle" /\ ~ni.protected /\ l < ni.dbc

\* nmbm_erase_block_range() of one block
EraseBlock(l) ==
    /\ MayWrite(l)
    /\ pc' = "erase" /\ op' = [op EXCEPT !.lb = l]
    /\ UNCHANGED <<ni, cache, w>> /\ UNCHANGED flashVars /\ UNCHANGED histVars

\* The block that is given up, unless it only has to be remapped
GiveUp(n, pb) == IF n.st[pb] = "remap" THEN n ELSE SetState(n, {pb}, "bad")

\* nmbm_erase_logic_block() from retry to the update of the tables
RemapLogic(n, pb) ==
    Remap(n, GiveUp(MapBlock(n, op.lb), pb),
          GiveUp([n EXCEPT !.map[op.lb] = NoBlock], pb), "nospare")

EraseLogic ==
    LET pb == ni.map[op.lb] IN
    /\ pc = "erase"
    /\ \/ /\ pb = NoBlock
          /\ pc' = "idle" /\ op' = NoOp
          /\ UNCHANGED <<flash, phys, ni, fails, skipped>>
       \/ /\ pb # NoBlock /\ ni.st[pb] = "good" /\ pb \notin phys
          /\ Put(pb, Empty("blank"))
          /\ pc' = "idle" /\ op' = NoOp
          /\ UNCHANGED <<phys, ni, fails, skipped>>
       \/ /\ pb # NoBlock /\ ni.st[pb] = "good" /\ pb \notin phys
          /\ fails > 0 /\ fails' = fails - 1
          /\ phys' = phys \cup {pb} /\ Put(pb, Empty("junk"))
          /\ RemapLogic(SetState(ni, {pb}, "bad"), pb)
       \/ /\ pb # NoBlock /\ (ni.st[pb] # "good" \/ pb \in phys)
          /\ RemapLogic(GiveUp(ni, pb), pb)
          /\ UNCHANGED <<flash, phys, fails>>
    /\ UNCHANGED <<cache, w, restarts, kept, lone>>

\* No good block is left: the logic block becomes unusable, which by itself
\* does not make the tables changed.
NoSpare ==
    /\ pc = "nospare"
    /\ ni' = GiveUp([ni EXCEPT !.top = ni.mapb, !.map[op.lb] = NoBlock], ni.map[op.lb])
    /\ pc' = "update" /\ op' = [op EXCEPT !.then = "idle"]
    /\ UNCHANGED <<cache, w>> /\ UNCHANGED flashVars /\ UNCHANGED histVars

\* nmbm_write_logic_page(), nmbm_panic_write_logic_page() of a page that fails;
\* one that is written changes nothing here.
WriteFails(l) ==
    /\ MayWrite(l) /\ ni.map[l] # NoBlock /\ ni.st[ni.map[l]] # "bad"
    /\ fails > 0 /\ fails' = fails - 1
    /\ ni' = SetState(ni, {ni.map[l]}, "remap")
    /\ pc' = "update" /\ op' = [op EXCEPT !.then = "idle"]
    /\ UNCHANGED <<flash, phys, cache, w, restarts>> /\ UNCHANGED histVars

\* nmbm_mark_bad_block()
MarkBad(l) ==
    /\ MayWrite(l) /\ ni.map[l] # NoBlock
    /\ phys' = phys \cup {ni.map[l]}
    /\ ni' = SetState([ni EXCEPT !.map[l] = NoBlock], {ni.map[l]}, "bad")
    /\ pc' = "update" /\ op' = [op EXCEPT !.then = "idle"]
    /\ UNCHANGED <<flash, cache, w, fails, restarts>> /\ UNCHANGED histVars

\* nmbm_detach()
Detach ==
    /\ pc = "idle" /\ restarts > 0 /\ restarts' = restarts - 1
    /\ pc' = "update" /\ op' = [op EXCEPT !.then = "off"]
    /\ UNCHANGED <<flash, phys, ni, cache, w, fails>> /\ UNCHANGED histVars

-----------------------------------------------------------------------------
(* Loss of power *)

\* The blocks that may be in the middle of being erased or written: a table's,
\* or one that holds the user's data
InFlight ==
    IF pc = "erase_table" THEN {b \in Usable : \A c \in Usable : b <= c}
    ELSE IF pc = "program_table" THEN {w.ba}
    ELSE IF pc = "clear" THEN GoodIn(ni, w.ba, w.limit) \cap {w.ba}
    ELSE IF pc \in {"idle", "erase"} THEN {ni.map[l] : l \in LogicBlocks} \cap Mgmt
    ELSE {}

PowerLoss ==
    /\ pc # "off" /\ restarts > 0 /\ restarts' = restarts - 1
    /\ \/ UNCHANGED flash
       \/ \E b \in InFlight \ phys, k \in {"junk", "ecc"} : Put(b, Empty(k))
    /\ pc' = "off" /\ Forget
    /\ UNCHANGED <<phys, fails>> /\ UNCHANGED histVars

-----------------------------------------------------------------------------
TableStep ==
    \/ EraseTable \/ ProgramTable \/ NoRoom \/ Clear \/ Cleared
    \/ RebuiltMain \/ RebuiltBackup
    \/ Update \/ Updated \/ UpdatedBackup \/ UpdatedMain \/ WroteTmp \/ RescuedMain
    \/ RescuedFront \/ Rescued \/ RescuedBehind \/ ClearedBehind
    \/ UpdatedOlderMain \/ UpdatedOlderBackup
Attach == Load \/ Create
DriverStep == TableStep \/ CreateMap \/ CreateNoSpare \/ Created \/ EraseLogic \/ NoSpare
UserStep == \/ \E l \in LogicBlocks : EraseBlock(l) \/ WriteFails(l) \/ MarkBad(l)
            \/ Detach

Next == Attach \/ DriverStep \/ UserStep \/ PowerLoss

Spec == Init /\ [][Next]_vars

\* The driver runs until it returns to its caller; a board that is off may stay so.
FairSpec == Spec /\ WF_vars(DriverStep)

-----------------------------------------------------------------------------
(* Properties *)

\* The mapping an attach would load
Recovered == LET m == FindMain IN Loaded(m, FindBackup(m)).map

\* Both tables are kept up, and no bad block was passed over.
Sound == ~lone /\ ~skipped

\* Once created, and while both tables are kept up, a valid table is in flash
\* whenever power is lost, and what an attach would load is the mapping of the
\* last completed update or the one being written, never one of a table that
\* is out of date (nmbm-core.c:1348-1582, 1903).
LoadsNewest == kept # {} /\ Sound => FindMain # NoTable /\ Recovered \in kept

\* When an operation has returned, and while both tables are kept up, every
\* logic block that it left usable is mapped as an attach would map it.
SavedWhenIdle ==
    pc = "idle" /\ ~ni.protected /\ Sound =>
        LET map == Recovered IN
        \A l \in LogicBlocks : ni.map[l] # NoBlock => map[l] = ni.map[l]

\* As long as no bad block was passed over, no two logic blocks share a block.
OneOwner == ~skipped =>
    \A k, l \in LogicBlocks : k # l /\ ni.map[k] # NoBlock => ni.map[k] # ni.map[l]

\* As long as no bad block was passed over, the tables stay below the mapped
\* blocks, and no block with the user's data is erased for a table.
TablesApart == ~skipped =>
    /\ ni.mapb <= ni.top
    /\ pc \in {"erase_table", "program_table", "clear"} =>
         \A l \in LogicBlocks : ni.map[l] \notin InFlight

\* An operation returns: the updates and searches for room come to an end.
Returns == pc # "off" ~> pc \in {"idle", "dead", "off"}

\* "Map a bad block to a unused spare block" (nmbm-core.c:1619)
MapsToUnused ==
    \A k, l \in LogicBlocks : k # l /\ ni.map[k] # NoBlock => ni.map[k] # ni.map[l]

=============================================================================
