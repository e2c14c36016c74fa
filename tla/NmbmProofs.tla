----------------------------- MODULE NmbmProofs -----------------------------
(***************************************************************************)
(* Proofs about Nmbm, for every size of the chip, every reserve between    *)
(* the tables, and any number of blocks that fail and of losses of power.  *)
(***************************************************************************)
EXTENDS Nmbm, FiniteSetTheorems, TLAPS

-----------------------------------------------------------------------------
(* The inductive invariant, in named parts.  All of it is claimed as long   *)
(* as nmbm_map_block() has passed over no bad block.                        *)

Places == {NoBlock} \cup (0 .. SignatureBa - 1)
Maps == [LogicBlocks -> Places]
Tables == [kind : {"table"}, count : Nat, st : [Blocks -> {"good", "remap", "bad"}],
           map : Maps]
Contents == Tables \cup [kind : {"blank", "junk", "ecc"}]

WriteJobs == {"rebuilt_main", "rebuilt_backup", "updated_backup", "updated_main",
              "wrote_tmp", "rescued_main", "rescued_front", "rescued_behind",
              "updated_older_main", "updated_older_backup"}
OlderJobs == {"updated_older_main", "updated_older_backup"}
MainJobs == {"rebuilt_main", "rescued_main", "rescued_front", "updated_main",
             "updated_older_main"}
RestPcs == {"update", "idle", "erase", "nospare", "create_map", "create_nospare",
            "created", "rescued"}
Thens == {"idle", "off", "erase", "nospare", "create_nospare", "created"}

On == pc \notin {"off", "dead"}
Writing == pc \in {"erase_table", "program_table"}
Done == pc \in WriteJobs
Busy == Writing \/ Done
\* What the driver is writing a table for
Job == IF pc \in {"erase_table", "program_table", "clear"} THEN w.to ELSE pc
\* Both tables are where ni says, and none is being written.
Calm == pc \in RestPcs \/ (pc = "clear" /\ w.to # "cleared_behind")
\* The table written behind the main table is not yet the backup table.
Behind == pc = "cleared_behind" \/ (pc = "clear" /\ w.to = "cleared_behind")

Instances == [st : [Blocks -> {"good", "remap", "bad"}], map : Maps,
              changed : BOOLEAN, count : Nat, main : Nat, backup : Nat, mapb : Nat,
              top : Nat, dbc : Nat, protected : BOOLEAN]
Tos == WriteJobs \cup RestPcs \cup {"off", "cleared_behind"}
Writes == [ba : Int, limit : Nat, to : Tos, start : Nat, try : Int, tmp : Nat]
Ops == [lb : LogicBlocks, then : Thens \cup {"create"}]

TypeInv ==
    /\ flash \in [Mgmt -> Contents]
    /\ ni \in Instances /\ w \in Writes /\ op \in Ops
    /\ On => cache \in Tables
    /\ pc \in WriteJobs \cup RestPcs \cup {"off", "dead", "erase_table",
              "program_table", "clear", "cleared_behind"}
    /\ Writing => w.to \in WriteJobs
    /\ Done => w.to = pc
    /\ pc = "clear" => w.to \in {"create_map", "update", "rescued", "cleared_behind"}
    /\ Job \in {"update", "updated_backup", "updated_main", "wrote_tmp", "rescued_main"}
           => op.then \in Thens
    /\ Job \in {"rebuilt_main", "rebuilt_backup"} => op.then \in Thens \cup {"create"}

\* The tables a search may find
Live == {x \in Mgmt \ phys : IsTable(flash[x])}

OneToOne(m) == \A k, l \in LogicBlocks : k # l /\ m[k] # NoBlock => m[k] # m[l]

\* Every block of the management area m maps to lies above a.
Above(m, a) == \A l \in LogicBlocks : m[l] >= DataBlocks => m[l] > a

\* Table s was written before table t, or is the same.
Older(s, t) ==
    \/ s = t
    \/ s.count < t.count /\ \A b \in Blocks : t.st[b] = "good" => s.st[b] = "good"

(* The tables in flash: there are at most two, each agrees with the places  *)
(* of both, the one of the higher count knows all bad blocks of the other,  *)
(* and no usable block lies in front of two.                                *)
FlashInv ==
    /\ \A x \in Live : x < SignatureBa - 1 /\ OneToOne(flash[x].map)
    /\ \A x, y \in Live :
         /\ Above(flash[x].map, y + 1)
         /\ flash[x].st[y] = "good"
         /\ Older(flash[x], flash[y]) \/ Older(flash[y], flash[x])
         /\ x < y => \A b \in DataBlocks .. x - 1 :
              b \in phys \/ flash[x].st[b] # "good" \/ flash[y].st[b] # "good"
    /\ \A x, y, z \in Live : ~(x < y /\ y < z)

Free(b) == b \notin phys /\ ni.st[b] = "good"

PlaceInv ==
    /\ OneToOne(ni.map)
    /\ ni.mapb <= ni.top
    /\ On => /\ DataBlocks <= ni.mapb /\ ni.top < SignatureBa
             /\ Above(ni.map, ni.top)
             /\ ni.main # NoTable => DataBlocks <= ni.main /\ ni.main < ni.mapb
             /\ ni.backup # NoTable =>
                  ni.main # NoTable /\ ni.main < ni.backup /\ ni.backup < ni.mapb
             /\ Calm => ni.main # NoTable \/ ni.protected

\* The table a write leaves alone, and the one it replaces
Keep(j) ==
    IF j \in {"updated_main", "wrote_tmp", "updated_older_main"} THEN ni.backup
    ELSE IF j = "rescued_main" THEN w.tmp
    ELSE IF j = "rebuilt_main" THEN NoTable ELSE ni.main
Victim(j) ==
    IF j \in {"updated_backup", "rescued_main", "updated_older_backup"} THEN ni.backup
    ELSE IF j \in {"updated_main", "updated_older_main"} THEN ni.main ELSE NoTable

\* The range of a write
Low(j) ==
    IF j = "rebuilt_backup" THEN ni.main + 1
    ELSE IF j \in {"updated_backup", "updated_older_backup"} THEN ni.backup
    ELSE IF j \in {"updated_main", "updated_older_main"} THEN ni.main
    ELSE IF j \in {"wrote_tmp", "rescued_behind"} THEN ni.mapb ELSE DataBlocks
High(j) ==
    IF j = "rescued_front" THEN ni.main
    ELSE IF j = "updated_older_main" THEN ni.backup
    ELSE IF j = "updated_main" /\ ni.backup # NoTable THEN ni.backup
    ELSE IF j = "rescued_main" THEN w.tmp ELSE ni.top

(* The write stays in its range, between the table it keeps and the blocks  *)
(* that are mapped.                                                         *)
RangeInv ==
    /\ Busy => /\ w.limit = High(Job)
               /\ Job = "rebuilt_main" <=> ni.main = NoTable
               /\ Job \in {"rebuilt_main", "rebuilt_backup", "rescued_front",
                           "rescued_behind"} => ni.backup = NoTable
               /\ Job \in {"updated_backup", "wrote_tmp", "rescued_main"} \cup OlderJobs
                    => ni.backup # NoTable
               /\ Job \in {"wrote_tmp", "rescued_behind"} => ni.mapb <= w.try
               /\ Job = "rescued_main" =>
                    ni.backup < w.tmp /\ w.tmp < ni.top /\ ni.mapb = w.tmp + 1
    /\ Writing => Low(Job) <= w.ba
    /\ pc = "program_table" => w.ba < w.limit /\ Free(w.ba)
    /\ Done /\ Written => Low(Job) <= w.start /\ w.start < w.limit
    /\ pc = "clear" /\ Calm =>
         ni.backup # NoTable /\ ni.main < w.ba /\ w.limit <= ni.backup
    /\ pc = "rescued" => ni.backup # NoTable
    /\ Behind => /\ ni.main # NoTable /\ ni.backup = NoTable
                 /\ ni.mapb <= w.start /\ w.start < ni.top
    /\ pc = "clear" /\ Behind => ni.mapb <= w.ba /\ w.limit <= w.start

\* The victim is the block that is erased next.
NextErased(x) ==
    /\ pc = "erase_table" /\ w.ba <= x /\ x < w.limit
    /\ \A b \in w.ba .. x - 1 : ~Free(b)

(* Which tables there are at every step; all of them are known as good and  *)
(* lie below the mapped blocks.                                             *)
LiveInv ==
    /\ On => \A x \in Live : x < ni.top /\ ni.st[x] = "good"
    /\ Writing => \A x \in Live : x = Keep(Job) \/ (x = Victim(Job) /\ NextErased(x))
    /\ Done => \A x \in Live : x = Keep(Job) \/ (Written /\ x = w.start)
    /\ Calm => \A x \in Live : x \in {ni.main, ni.backup}
    /\ Behind => \A x \in Live : x \in {ni.main, w.start}

\* No block in front of the main table can be used.
Front ==
    IF Busy /\ Job \in MainJobs
    THEN IF Writing THEN w.ba ELSE IF Written THEN w.start ELSE w.limit
    ELSE IF Job = "wrote_tmp" THEN ni.backup ELSE ni.main
FrontInv == On => \A b \in DataBlocks .. Front - 1 : ~Free(b)

(* The tables in flash are not younger than the instance; their mapped      *)
(* blocks lie above all that is not mapped, but for a table out of date     *)
(* that is about to be replaced.                                            *)
OrderInv == On => \A x \in Live :
    /\ flash[x].count <= ni.count
    /\ \A b \in Blocks : ni.st[b] = "good" => flash[x].st[b] = "good"
    /\ \/ Above(flash[x].map, ni.top)
       \/ pc = "erase_table" /\ Job \in OlderJobs /\ x = Victim(Job)

\* The table that is written is the instance's and not older than any in flash.
CacheInv == Busy =>
    /\ cache.map = ni.map /\ cache.count = ni.count
    /\ \A b \in Blocks : /\ ni.st[b] = "good" => cache.st[b] = "good"
                         /\ cache.st[b] = "good" => ni.st[b] = "good" \/ b \in phys
    /\ \A x \in Live : Older(flash[x], cache)

\* What an attach would load is kept.
FlashKept ==
    /\ Live # {}
    /\ \A x \in Live : \/ flash[x].map \in kept
                       \/ \E y \in Live : /\ flash[y].map \in kept
                                          /\ flash[x].count < flash[y].count

(* As long as the only table was not written in place: one table is always  *)
(* complete, and none holds a mapping that is neither the last complete one *)
(* nor the one being written.                                               *)
KeptInv == ~lone =>
    /\ ~On => kept = {} \/ FlashKept
    /\ Busy /\ Job = "rebuilt_main" => kept = {} /\ op.then = "create"
    /\ On /\ ~(Busy /\ Job = "rebuilt_main") => cache.map \in kept
    /\ Busy /\ Job # "rebuilt_main" =>
         /\ Keep(Job) \in Live
         /\ flash[Keep(Job)].map \in kept
         /\ Job # "updated_backup" => flash[Keep(Job)].map = cache.map
         /\ \A x \in Live : \/ flash[x].map \in kept
                            \/ /\ pc = "erase_table"
                               /\ Job \in OlderJobs /\ x = Victim(Job)
                               /\ flash[x].count < flash[Keep(Job)].count
    /\ Done /\ Written => w.start \in Live /\ flash[w.start] = cache
    /\ Calm => /\ ni.main \in Live /\ (ni.backup # NoTable => ni.backup \in Live)
               /\ \A x \in Live : flash[x].map = cache.map
    /\ Behind => /\ ni.main \in Live /\ w.start \in Live
                 /\ \A x \in Live : flash[x].map = cache.map

\* A mapping that is not in the tables is noted as a change.
NotedInv ==
    Calm \/ Behind =>
      \/ ni.protected /\ Job \notin {"rescued", "cleared_behind"}
      \/ \A l \in LogicBlocks : ni.map[l] # NoBlock => cache.map[l] = ni.map[l]
      \/ pc \in {"update", "create_map"} /\ ni.changed

Good == TypeInv /\ FlashInv /\ PlaceInv /\ RangeInv /\ LiveInv /\ FrontInv
        /\ OrderInv /\ CacheInv /\ KeptInv /\ NotedInv

Inv == ~skipped => Good


-----------------------------------------------------------------------------
(* Finite sets of integers: ranks, the least and the greatest element *)

Rank(S, b) == Cardinality({d \in S : d < b})

LEMMA RankOrder ==
    ASSUME NEW S \in SUBSET Int, IsFiniteSet(S), NEW a \in S, NEW b \in S, a < b
    PROVE  Rank(S, a) \in Nat /\ Rank(S, b) \in Nat /\ Rank(S, a) < Rank(S, b)
<1> DEFINE A == {d \in S : d < a}
           B == {d \in S : d < b}
<1>1. IsFiniteSet(A) /\ IsFiniteSet(B)
  <2>1. A \in SUBSET S /\ B \in SUBSET S
    OBVIOUS
  <2> QED
    BY <2>1, FS_Subset
<1>2. A \in SUBSET B /\ a \in B /\ a \notin A
  <2>1. \A d \in S : d < a => d < b
    OBVIOUS
  <2>2. ~(a < a)
    OBVIOUS
  <2> QED
    BY <2>1, <2>2
<1>3. Cardinality(A) \in Nat /\ Cardinality(B) \in Nat
  BY <1>1, FS_CardinalityType
<1>4. Cardinality(A) <= Cardinality(B) /\ (Cardinality(B) = Cardinality(A) => B = A)
  BY <1>1, <1>2, FS_Subset
<1> HIDE DEF A, B
<1>5. Cardinality(A) # Cardinality(B)
  BY <1>2, <1>4
<1>6. Cardinality(A) < Cardinality(B)
  BY <1>3, <1>4, <1>5
<1> QED
  BY <1>3, <1>6 DEF Rank, A, B

\* Every rank below the size of the set is taken.
LEMMA RankTaken ==
    ASSUME NEW S \in SUBSET Int, IsFiniteSet(S), NEW k \in 0 .. Cardinality(S) - 1
    PROVE  \E b \in S : Rank(S, b) = k
<1> DEFINE n == Cardinality(S)
           T == 0 .. n - 1
           f == [b \in S |-> Rank(S, b)]
<1>1. n \in Nat
  BY FS_CardinalityType
<1>2. \A b \in S : Rank(S, b) \in T
  <2> SUFFICES ASSUME NEW b \in S PROVE Rank(S, b) \in T
    OBVIOUS
  <2> DEFINE B == {d \in S : d < b}
  <2>1. B \in SUBSET S /\ b \notin B
    OBVIOUS
  <2>2. IsFiniteSet(B) /\ Cardinality(B) <= n /\ (n = Cardinality(B) => S = B)
    BY <2>1, FS_Subset
  <2>3. Cardinality(B) \in Nat
    BY <2>2, FS_CardinalityType
  <2> HIDE DEF B
  <2>4. Cardinality(B) # n
    BY <2>1, <2>2
  <2>5. Cardinality(B) \in T
    BY <2>2, <2>3, <2>4, <1>1
  <2> QED
    BY <2>5 DEF Rank, B
<1>3. f \in [S -> T]
  BY <1>2
<1>4. \A a, b \in S : f[a] = f[b] => a = b
  <2> SUFFICES ASSUME NEW a \in S, NEW b \in S, a # b PROVE f[a] # f[b]
    OBVIOUS
  <2>1. CASE a < b
    BY <2>1, RankOrder
  <2>2. CASE b < a
    BY <2>2, RankOrder
  <2> QED
    BY <2>1, <2>2
<1>5. f \in Injection(S, T)
  BY <1>3, <1>4 DEF Injection, IsInjective
<1>6. IsFiniteSet(T) /\ Cardinality(T) = n
  <2>1. PICK q : q = n - 1
    OBVIOUS
  <2>2. q \in Int /\ 0 \in Int /\ T = 0 .. q
    BY <1>1, <2>1
  <2>3. IsFiniteSet(0 .. q) /\ Cardinality(0 .. q) = IF 0 > q THEN 0 ELSE q - 0 + 1
    BY <2>2, FS_Interval, Zenon
  <2>4. (IF 0 > q THEN 0 ELSE q - 0 + 1) = n
    BY <1>1, <2>1
  <2> HIDE DEF n, T
  <2> QED
    BY <2>2, <2>3, <2>4, Zenon
<1> HIDE DEF f, T, n
<1>7. f \in Surjection(S, T)
  BY <1>5, <1>6, FS_Injection DEF n
<1>8. k \in T
  BY DEF T, n
<1>9. PICK b \in S : f[b] = k
  BY <1>7, <1>8 DEF Surjection
<1> QED
  BY <1>9 DEF f

LEMMA Least ==
    ASSUME NEW S \in SUBSET Int, IsFiniteSet(S), S # {}
    PROVE  Min(S) \in S /\ \A b \in S : Min(S) <= b
<1>1. Cardinality(S) \in Nat /\ Cardinality(S) # 0
  BY FS_CardinalityType, FS_EmptySet
<1>2. PICK b \in S : Rank(S, b) = 0
  BY <1>1, RankTaken
<1>3. \A d \in S : b <= d
  <2>1. ASSUME NEW d \in S, d < b PROVE FALSE
    BY <2>1, <1>2, RankOrder
  <2> QED
    BY <2>1
<1> QED
  BY <1>3 DEF Min

-----------------------------------------------------------------------------
(* Small facts *)

LEMMA LiveBlocks ==
    /\ \A x \in Live : /\ x \in Nat /\ x \in Blocks /\ DataBlocks <= x /\ x < SignatureBa
                       /\ x # NoTable /\ x \notin phys /\ x \in Mgmt
    /\ DataBlocks \in Nat /\ DataBlocks >= 1 /\ SignatureBa \in Nat
    /\ DataBlocks < SignatureBa
BY NmbmAssumption DEF Live, Mgmt, Blocks, NoTable

LEMMA LiveTables ==
    ASSUME TypeInv
    PROVE  \A x \in Live : flash[x] \in Tables
BY DEF TypeInv, Live, Contents, Tables, IsTable

LEMMA SameFlash ==
    ASSUME UNCHANGED <<flash, phys>>
    PROVE  Live' = Live /\ (FlashInv => FlashInv')
BY DEF Live, FlashInv

LEMMA FewerTables ==
    ASSUME FlashInv, phys \subseteq phys', Live' \subseteq Live,
           \A x \in Live' : flash'[x] = flash[x]
    PROVE  FlashInv'
<1>1. \A x \in Live' : x \in Live /\ flash'[x] = flash[x]
  OBVIOUS
<1> QED
  BY <1>1 DEF FlashInv

LEMMA Parts ==
    ASSUME Good
    PROVE  /\ TypeInv /\ FlashInv /\ PlaceInv /\ RangeInv /\ LiveInv /\ FrontInv
           /\ OrderInv /\ CacheInv /\ KeptInv /\ NotedInv
           /\ ni \in Instances /\ w \in Writes /\ op \in Ops
           /\ ni.main \in Nat /\ ni.backup \in Nat /\ ni.mapb \in Nat /\ ni.top \in Nat
           /\ ni.count \in Nat /\ w.ba \in Int /\ w.limit \in Nat /\ w.start \in Nat
           /\ w.try \in Int /\ w.tmp \in Nat
           /\ \A x \in Live : flash[x].count \in Nat
<1>1. TypeInv
  BY DEF Good
<1>2. ni \in Instances /\ w \in Writes /\ op \in Ops
  BY <1>1 DEF TypeInv
<1>3. \A x \in Live : flash[x].count \in Nat
  BY <1>1, LiveTables DEF Tables
<1>4. /\ ni.main \in Nat /\ ni.backup \in Nat /\ ni.mapb \in Nat /\ ni.top \in Nat
      /\ ni.count \in Nat
  BY <1>2 DEF Instances
<1>5. /\ w.ba \in Int /\ w.limit \in Nat /\ w.start \in Nat
      /\ w.try \in Int /\ w.tmp \in Nat
  BY <1>2 DEF Writes
<1> QED
  BY <1>2, <1>3, <1>4, <1>5 DEF Good

LEMMA InstanceTypes ==
    ASSUME NEW n \in Instances, NEW a \in Nat, NEW b \in Nat
    PROVE  /\ [n EXCEPT !.main = a, !.backup = b] \in Instances
           /\ [n EXCEPT !.backup = a, !.main = b] \in Instances
           /\ [n EXCEPT !.backup = a, !.mapb = b] \in Instances
           /\ [n EXCEPT !.mapb = a, !.backup = b] \in Instances
           /\ [n EXCEPT !.main = a, !.mapb = b] \in Instances
           /\ [n EXCEPT !.main = a] \in Instances
           /\ [n EXCEPT !.mapb = a] \in Instances
           /\ [n EXCEPT !.top = a] \in Instances
           /\ Clean(n) \in Instances /\ Counted(n) \in Instances
<1>1. /\ [n EXCEPT !.main = a, !.backup = b] \in Instances
      /\ [n EXCEPT !.backup = a, !.main = b] \in Instances
      /\ [n EXCEPT !.backup = a, !.mapb = b] \in Instances
      /\ [n EXCEPT !.mapb = a, !.backup = b] \in Instances
      /\ [n EXCEPT !.main = a, !.mapb = b] \in Instances
  BY DEF Instances
<1>2. /\ [n EXCEPT !.main = a] \in Instances
      /\ [n EXCEPT !.mapb = a] \in Instances
      /\ [n EXCEPT !.top = a] \in Instances
  BY DEF Instances
<1>3. Clean(n) \in Instances
  BY DEF Instances, Clean
<1>4. Counted(n) \in Instances
  BY DEF Instances, Counted
<1> QED
  BY <1>1, <1>2, <1>3, <1>4

LEMMA CountType ==
    ASSUME NEW n \in Instances, NEW k \in Nat
    PROVE  [n EXCEPT !.count = k] \in Instances
BY DEF Instances

LEMMA ProtectedType ==
    ASSUME NEW n \in Instances, NEW b \in BOOLEAN
    PROVE  [n EXCEPT !.protected = b] \in Instances
BY DEF Instances

LEMMA WriteTypes ==
    ASSUME NEW x \in Writes, NEW ba \in Int, NEW limit \in Nat, NEW to \in Tos,
           NEW k \in Nat
    PROVE  /\ [x EXCEPT !.ba = ba, !.limit = limit, !.to = to] \in Writes
           /\ [x EXCEPT !.ba = ba, !.limit = limit, !.to = to, !.try = ba] \in Writes
           /\ [x EXCEPT !.ba = ba, !.limit = limit, !.to = to, !.tmp = k] \in Writes
           /\ [x EXCEPT !.start = k] \in Writes
           /\ [x EXCEPT !.ba = ba] \in Writes
           /\ NoWrite \in Writes
<1>1. /\ [x EXCEPT !.ba = ba, !.limit = limit, !.to = to] \in Writes
      /\ [x EXCEPT !.ba = ba, !.limit = limit, !.to = to, !.try = ba] \in Writes
      /\ [x EXCEPT !.ba = ba, !.limit = limit, !.to = to, !.tmp = k] \in Writes
  BY DEF Writes
<1>2. /\ [x EXCEPT !.start = k] \in Writes
      /\ [x EXCEPT !.ba = ba] \in Writes
  BY DEF Writes
<1>3. NoWrite \in Writes
  BY DEF Writes, NoWrite, Tos
<1> QED
  BY <1>1, <1>2, <1>3

LEMMA BaType ==
    ASSUME NEW x \in Writes, NEW ba \in Int
    PROVE  [x EXCEPT !.ba = ba] \in Writes
BY DEF Writes

LEMMA RangeType ==
    ASSUME NEW x \in Writes, NEW ba \in Int, NEW limit \in Nat, NEW to \in Tos
    PROVE  [x EXCEPT !.ba = ba, !.limit = limit, !.to = to] \in Writes
BY DEF Writes

LEMMA OpTypes ==
    ASSUME NEW x \in Ops, NEW t \in Thens \cup {"create"}
    PROVE  /\ [x EXCEPT !.then = t] \in Ops /\ NoOp \in Ops
           /\ \A l \in LogicBlocks : [x EXCEPT !.lb = l] \in Ops
BY NmbmAssumption DEF Ops, NoOp, LogicBlocks, Thens

LEMMA TosMembers ==
    /\ "rebuilt_main" \in Tos /\ "rebuilt_backup" \in Tos /\ "updated_backup" \in Tos
    /\ "updated_main" \in Tos /\ "wrote_tmp" \in Tos /\ "rescued_main" \in Tos
    /\ "rescued_front" \in Tos /\ "rescued_behind" \in Tos /\ "rescued" \in Tos
    /\ "updated_older_main" \in Tos /\ "updated_older_backup" \in Tos
    /\ "create_map" \in Tos /\ "update" \in Tos /\ "cleared_behind" \in Tos
BY DEF Tos, WriteJobs, RestPcs

LEMMA Arith ==
    ASSUME Good
    PROVE  /\ ni.main \in Int /\ ni.backup \in Int /\ ni.mapb \in Int /\ ni.top \in Int
           /\ w.start \in Int /\ w.start + 1 \in Nat /\ w.start + 1 \in Int
           /\ DataBlocks \in Int /\ NoTable \in Nat /\ ni.main + 1 \in Int
           /\ ni.mapb + 1 \in Nat /\ w.ba + 1 \in Int /\ w.try - 1 \in Int
           /\ ni.count + 1 \in Nat
BY Parts, LiveBlocks DEF NoTable

LEMMA AfterIsTo == AfterRebuild \in Tos
BY TosMembers DEF AfterRebuild

\* The block after the reserve is a good block of the range.
LEMMA ReservedBlock ==
    ASSUME NEW n \in Instances, NEW a \in Nat, NEW limit \in Nat,
           limit <= SignatureBa, Reserved(n, a, limit) # {}
    PROVE  LET b == Min(Reserved(n, a, limit)) IN b \in Nat /\ a <= b /\ b < limit
<1> DEFINE R == Reserved(n, a, limit)
<1>1. R \in SUBSET (a .. limit - 1)
  BY DEF Reserved, GoodIn
<1>2. IsFiniteSet(a .. limit - 1)
  BY FS_Interval
<1>3. IsFiniteSet(R) /\ R \in SUBSET Int
  BY <1>1, <1>2, FS_Subset
<1> HIDE DEF R
<1>4. Min(R) \in R
  <2>1. R # {}
    BY DEF R
  <2> QED
    BY <1>3, <2>1, Least
<1>5. Min(R) \in Nat /\ a <= Min(R) /\ Min(R) < limit
  <2>1. Min(R) \in a .. limit - 1
    BY <1>1, <1>4
  <2> QED
    BY <2>1
<1> QED
  BY <1>5 DEF R

LEMMA TryType ==
    ASSUME NEW x \in Writes, NEW a \in Int
    PROVE  [x EXCEPT !.ba = a, !.try = a] \in Writes
BY DEF Writes

LEMMA SetStateIs ==
    ASSUME NEW n \in Instances, NEW S, NEW s \in {"remap", "bad"}
    PROVE  /\ SetState(n, S, s) \in Instances
           /\ SetState(n, S, s).map = n.map /\ SetState(n, S, s).count = n.count
           /\ SetState(n, S, s).main = n.main /\ SetState(n, S, s).backup = n.backup
           /\ SetState(n, S, s).mapb = n.mapb /\ SetState(n, S, s).top = n.top
           /\ SetState(n, S, s).dbc = n.dbc /\ SetState(n, S, s).protected = n.protected
           /\ n.changed => SetState(n, S, s).changed
           /\ \A b \in Blocks : SetState(n, S, s).st[b] = IF b \in S THEN s ELSE n.st[b]
<1>1. [b \in Blocks |-> IF b \in S THEN s ELSE n.st[b]] \in [Blocks -> {"good", "remap", "bad"}]
  BY DEF Instances
<1>2. (n.changed \/ \E b \in S : n.st[b] # s) \in BOOLEAN
  OBVIOUS
<1> DEFINE st == [b \in Blocks |-> IF b \in S THEN s ELSE n.st[b]]
           changed == n.changed \/ \E b \in S : n.st[b] # s
<1>3. SetState(n, S, s) = [n EXCEPT !.st = st, !.changed = changed]
  BY DEF SetState
<1>4. n.changed => changed
  OBVIOUS
<1>5. \A b \in Blocks : st[b] = IF b \in S THEN s ELSE n.st[b]
  OBVIOUS
<1> HIDE DEF st, changed
<1>6. SetState(n, S, s) \in Instances
  BY <1>1, <1>2, <1>3 DEF Instances, st, changed
<1>7. /\ SetState(n, S, s).map = n.map /\ SetState(n, S, s).count = n.count
      /\ SetState(n, S, s).main = n.main /\ SetState(n, S, s).backup = n.backup
      /\ SetState(n, S, s).mapb = n.mapb /\ SetState(n, S, s).top = n.top
      /\ SetState(n, S, s).dbc = n.dbc /\ SetState(n, S, s).protected = n.protected
      /\ SetState(n, S, s).st = st
  BY <1>3 DEF Instances
<1>8. SetState(n, S, s).changed = changed
  BY <1>3 DEF Instances
<1> QED
  BY <1>4, <1>5, <1>6, <1>7, <1>8

LEMMA TableOfIs ==
    ASSUME NEW n \in Instances
    PROVE  /\ TableOf(n) \in Tables /\ TableOf(n).map = n.map /\ TableOf(n).st = n.st
           /\ TableOf(n).count = n.count
BY DEF TableOf, Tables, Instances

LEMMA Nothing == NoInstance \in Instances /\ OneToOne(NoInstance.map)
BY NmbmAssumption
DEF NoInstance, Instances, LogicBlocks, NoTable, AllGood, Unmapped, Maps, Places,
    OneToOne, Blocks

LEMMA ThensMembers ==
    /\ "idle" \in Thens \cup {"create"} /\ "off" \in Thens \cup {"create"}
    /\ "erase" \in Thens \cup {"create"} /\ "nospare" \in Thens \cup {"create"}
    /\ "created" \in Thens \cup {"create"} /\ "create_nospare" \in Thens \cup {"create"}
    /\ "create" \in Thens \cup {"create"}
BY DEF Thens

LEMMA AboveLess ==
    ASSUME NEW m \in Maps, NEW a \in Int, NEW b \in Int, a <= b, Above(m, b)
    PROVE  Above(m, a)
<1>1. \A l \in LogicBlocks : m[l] \in Int
  BY LiveBlocks DEF Maps, Places, NoBlock
<1> QED
  BY <1>1 DEF Above

LEMMA RescuedMainStep ==
    ASSUME Good, RescuedMain
    PROVE  Good'
<1> USE LiveBlocks
    DEF On, Writing, Done, Busy, Job, Calm, Behind, WriteJobs, RestPcs, NoTable, Written
<1>0. /\ TypeInv /\ FlashInv /\ PlaceInv /\ RangeInv /\ LiveInv /\ FrontInv
      /\ OrderInv /\ CacheInv /\ KeptInv /\ NotedInv
      /\ ni \in Instances /\ w \in Writes /\ op \in Ops
      /\ ni.main \in Nat /\ ni.backup \in Nat /\ ni.mapb \in Nat /\ ni.top \in Nat
      /\ ni.count \in Nat /\ w.ba \in Int /\ w.limit \in Nat /\ w.start \in Nat
      /\ w.try \in Int /\ w.tmp \in Nat
      /\ \A x \in Live : flash[x].count \in Nat
  BY Parts
<1>1. CASE Written
  <2>1. /\ pc = "rescued_main" /\ pc' = "update"
        /\ UNCHANGED <<flash, phys, cache, kept, lone, w, op>>
        /\ ni' = Clean([ni EXCEPT !.main = w.start, !.backup = w.tmp])
    BY <1>0, <1>1 DEF RescuedMain, flashVars, histVars
  <2>2. /\ ni'.st = ni.st /\ ni'.map = ni.map /\ ni'.changed = FALSE
        /\ ni'.count = ni.count /\ ni'.main = w.start /\ ni'.backup = w.tmp
        /\ ni'.mapb = ni.mapb /\ ni'.top = ni.top /\ ni'.dbc = ni.dbc
        /\ ni'.protected = ni.protected
    BY <1>0, <1>1, <2>1 DEF Instances, Clean
  <2>3. Live' = Live /\ FlashInv'
    BY <1>0, <2>1, SameFlash
  <2>4. TypeInv'
    <3>1. ni' \in Instances
      BY <1>0, <1>1, <2>1, Arith, InstanceTypes, ProtectedType, Zenon
    <3> QED
      BY <1>0, <1>1, <2>1, <2>2, <3>1 DEF TypeInv, Thens
  <2>5. PlaceInv'
    BY <1>0, <1>1, <2>1, <2>2, <2>3
    DEF PlaceInv, RangeInv, Low, High, OneToOne, Above, OlderJobs
  <2>6. RangeInv'
    BY <1>0, <1>1, <2>1, <2>2, <2>3 DEF RangeInv, Low, High, PlaceInv, OlderJobs
  <2>7. LiveInv'
    BY <1>0, <1>1, <2>1, <2>2, <2>3
    DEF LiveInv, RangeInv, Low, High, Keep, Victim, NextErased, PlaceInv, Free
  <2>8. FrontInv'
    BY <1>0, <1>1, <2>1, <2>2, <2>3 DEF FrontInv, Front, RangeInv, High, Free, MainJobs
  <2>9. OrderInv'
    BY <1>0, <1>1, <2>1, <2>2, <2>3
    DEF OrderInv, LiveInv, Victim, NextErased, OlderJobs, Above
  <2>10. CacheInv'
    BY <1>0, <1>1, <2>1, <2>2, <2>3 DEF CacheInv, OrderInv, Older
  <2>11. KeptInv'
    BY <1>0, <1>1, <2>1, <2>2, <2>3
    DEF KeptInv, LiveInv, RangeInv, Keep, Victim, NextErased, OlderJobs
  <2>12. NotedInv'
    BY <1>0, <1>1, <2>1, <2>2, <2>3 DEF NotedInv, CacheInv
  <2> QED
    BY <2>3, <2>4, <2>5, <2>6, <2>7, <2>8, <2>9, <2>10, <2>11, <2>12 DEF Good
<1>2. CASE ~Written
  <2>1. /\ pc = "rescued_main" /\ pc' = "update"
        /\ UNCHANGED <<flash, phys, cache, kept, lone, w, op>>
        /\ ni' = Clean([ni EXCEPT !.main = w.tmp, !.backup = NoTable])
    BY <1>0, <1>2 DEF RescuedMain, flashVars, histVars
  <2>2. /\ ni'.st = ni.st /\ ni'.map = ni.map /\ ni'.changed = FALSE
        /\ ni'.count = ni.count /\ ni'.main = w.tmp /\ ni'.backup = NoTable
        /\ ni'.mapb = ni.mapb /\ ni'.top = ni.top /\ ni'.dbc = ni.dbc
        /\ ni'.protected = ni.protected
    BY <1>0, <1>2, <2>1 DEF Instances, Clean
  <2>3. Live' = Live /\ FlashInv'
    BY <1>0, <2>1, SameFlash
  <2>4. TypeInv'
    <3>1. ni' \in Instances
      BY <1>0, <1>2, <2>1, Arith, InstanceTypes, ProtectedType, Zenon
    <3> QED
      BY <1>0, <1>2, <2>1, <2>2, <3>1 DEF TypeInv, Thens
  <2>5. PlaceInv'
    BY <1>0, <1>2, <2>1, <2>2, <2>3
    DEF PlaceInv, RangeInv, Low, High, OneToOne, Above, OlderJobs
  <2>6. RangeInv'
    BY <1>0, <1>2, <2>1, <2>2, <2>3 DEF RangeInv, Low, High, PlaceInv, OlderJobs
  <2>7. LiveInv'
    BY <1>0, <1>2, <2>1, <2>2, <2>3
    DEF LiveInv, RangeInv, Low, High, Keep, Victim, NextErased, PlaceInv, Free
  <2>8. FrontInv'
    BY <1>0, <1>2, <2>1, <2>2, <2>3 DEF FrontInv, Front, RangeInv, High, Free, MainJobs
  <2>9. OrderInv'
    BY <1>0, <1>2, <2>1, <2>2, <2>3
    DEF OrderInv, LiveInv, Victim, NextErased, OlderJobs, Above
  <2>10. CacheInv'
    BY <1>0, <1>2, <2>1, <2>2, <2>3 DEF CacheInv, OrderInv, Older
  <2>11. KeptInv'
    BY <1>0, <1>2, <2>1, <2>2, <2>3
    DEF KeptInv, LiveInv, RangeInv, Keep, Victim, NextErased, OlderJobs
  <2>12. NotedInv'
    BY <1>0, <1>2, <2>1, <2>2, <2>3 DEF NotedInv, CacheInv
  <2> QED
    BY <2>3, <2>4, <2>5, <2>6, <2>7, <2>8, <2>9, <2>10, <2>11, <2>12 DEF Good
<1> QED
  BY <1>0, <1>1, <1>2 DEF RescuedMain, TypeInv

LEMMA CreatedStep ==
    ASSUME Good, Created
    PROVE  Good'
<1> USE LiveBlocks
    DEF On, Writing, Done, Busy, Job, Calm, Behind, WriteJobs, RestPcs, NoTable, Written
<1>0. /\ TypeInv /\ FlashInv /\ PlaceInv /\ RangeInv /\ LiveInv /\ FrontInv
      /\ OrderInv /\ CacheInv /\ KeptInv /\ NotedInv
      /\ ni \in Instances /\ w \in Writes /\ op \in Ops
      /\ ni.main \in Nat /\ ni.backup \in Nat /\ ni.mapb \in Nat /\ ni.top \in Nat
      /\ ni.count \in Nat /\ w.ba \in Int /\ w.limit \in Nat /\ w.start \in Nat
      /\ w.try \in Int /\ w.tmp \in Nat
      /\ \A x \in Live : flash[x].count \in Nat
  BY Parts
<1>1. CASE ni.protected
  <2>1. /\ pc = "created" /\ pc' = "dead"
        /\ UNCHANGED <<flash, phys, cache, kept, lone, ni, w>>
        /\ op' = NoOp
    BY <1>0, <1>1 DEF Created, flashVars, histVars
  <2>2. /\ op'.lb = 0 /\ op'.then = "idle"
    BY <1>0, <1>1, <2>1 DEF Ops, NoOp
  <2>3. Live' = Live /\ FlashInv'
    BY <1>0, <2>1, SameFlash
  <2>4. TypeInv'
    <3>1. op' \in Ops
      BY <1>0, <1>1, <2>1, Arith, OpTypes, Zenon
    <3> QED
      BY <1>0, <1>1, <2>1, <2>2, <3>1 DEF TypeInv, Thens
  <2>5. PlaceInv'
    BY <1>0, <1>1, <2>1, <2>2, <2>3
    DEF PlaceInv, RangeInv, Low, High, OneToOne, Above, OlderJobs
  <2>6. RangeInv'
    BY <1>0, <1>1, <2>1, <2>2, <2>3 DEF RangeInv, Low, High, PlaceInv, OlderJobs
  <2>7. LiveInv'
    BY <1>0, <1>1, <2>1, <2>2, <2>3
    DEF LiveInv, RangeInv, Low, High, Keep, Victim, NextErased, PlaceInv, Free
  <2>8. FrontInv'
    BY <1>0, <1>1, <2>1, <2>2, <2>3 DEF FrontInv, Front, RangeInv, High, Free, MainJobs
  <2>9. OrderInv'
    BY <1>0, <1>1, <2>1, <2>2, <2>3
    DEF OrderInv, LiveInv, Victim, NextErased, OlderJobs, Above
  <2>10. CacheInv'
    BY <1>0, <1>1, <2>1, <2>2, <2>3 DEF CacheInv, OrderInv, Older
  <2>11. KeptInv'
    BY <1>0, <1>1, <2>1, <2>2, <2>3
    DEF KeptInv, LiveInv, RangeInv, Keep, Victim, NextErased, OlderJobs, FlashKept
  <2>12. NotedInv'
    BY <1>0, <1>1, <2>1, <2>2, <2>3 DEF NotedInv, CacheInv
  <2> QED
    BY <2>3, <2>4, <2>5, <2>6, <2>7, <2>8, <2>9, <2>10, <2>11, <2>12 DEF Good
<1>2. CASE ~ni.protected
  <2>1. /\ pc = "created" /\ pc' = "idle"
        /\ UNCHANGED <<flash, phys, cache, kept, lone, ni, w>>
        /\ op' = NoOp
    BY <1>0, <1>2 DEF Created, flashVars, histVars
  <2>2. /\ op'.lb = 0 /\ op'.then = "idle"
    BY <1>0, <1>2, <2>1 DEF Ops, NoOp
  <2>3. Live' = Live /\ FlashInv'
    BY <1>0, <2>1, SameFlash
  <2>4. TypeInv'
    <3>1. op' \in Ops
      BY <1>0, <1>2, <2>1, Arith, OpTypes, Zenon
    <3> QED
      BY <1>0, <1>2, <2>1, <2>2, <3>1 DEF TypeInv, Thens
  <2>5. PlaceInv'
    BY <1>0, <1>2, <2>1, <2>2, <2>3
    DEF PlaceInv, RangeInv, Low, High, OneToOne, Above, OlderJobs
  <2>6. RangeInv'
    BY <1>0, <1>2, <2>1, <2>2, <2>3 DEF RangeInv, Low, High, PlaceInv, OlderJobs
  <2>7. LiveInv'
    BY <1>0, <1>2, <2>1, <2>2, <2>3
    DEF LiveInv, RangeInv, Low, High, Keep, Victim, NextErased, PlaceInv, Free
  <2>8. FrontInv'
    BY <1>0, <1>2, <2>1, <2>2, <2>3 DEF FrontInv, Front, RangeInv, High, Free, MainJobs
  <2>9. OrderInv'
    BY <1>0, <1>2, <2>1, <2>2, <2>3
    DEF OrderInv, LiveInv, Victim, NextErased, OlderJobs, Above
  <2>10. CacheInv'
    BY <1>0, <1>2, <2>1, <2>2, <2>3 DEF CacheInv, OrderInv, Older
  <2>11. KeptInv'
    BY <1>0, <1>2, <2>1, <2>2, <2>3
    DEF KeptInv, LiveInv, RangeInv, Keep, Victim, NextErased, OlderJobs
  <2>12. NotedInv'
    BY <1>0, <1>2, <2>1, <2>2, <2>3 DEF NotedInv, CacheInv
  <2> QED
    BY <2>3, <2>4, <2>5, <2>6, <2>7, <2>8, <2>9, <2>10, <2>11, <2>12 DEF Good
<1> QED
  BY <1>0, <1>1, <1>2 DEF Created, TypeInv

LEMMA UpdatedBackupStep ==
    ASSUME Good, UpdatedBackup
    PROVE  Good'
<1> USE LiveBlocks
    DEF On, Writing, Done, Busy, Job, Calm, Behind, WriteJobs, RestPcs, NoTable, Written
<1>0. /\ TypeInv /\ FlashInv /\ PlaceInv /\ RangeInv /\ LiveInv /\ FrontInv
      /\ OrderInv /\ CacheInv /\ KeptInv /\ NotedInv
      /\ ni \in Instances /\ w \in Writes /\ op \in Ops
      /\ ni.main \in Nat /\ ni.backup \in Nat /\ ni.mapb \in Nat /\ ni.top \in Nat
      /\ ni.count \in Nat /\ w.ba \in Int /\ w.limit \in Nat /\ w.start \in Nat
      /\ w.try \in Int /\ w.tmp \in Nat
      /\ \A x \in Live : flash[x].count \in Nat
  BY Parts
<1>1. CASE Written
  <2>1. /\ pc = "updated_backup" /\ pc' = "erase_table"
        /\ UNCHANGED <<flash, phys, cache, kept, lone, op>>
        /\ ni' = Clean([ni EXCEPT !.backup = w.start, !.mapb = w.start + 1])
        /\ w' = [w EXCEPT !.ba = ni.main, !.limit = w.start, !.to = "updated_main"]
    BY <1>0, <1>1 DEF UpdatedBackup, flashVars, StartWrite
  <2>2. /\ ni'.st = ni.st /\ ni'.map = ni.map /\ ni'.changed = FALSE
        /\ ni'.count = ni.count /\ ni'.main = ni.main /\ ni'.backup = w.start
        /\ ni'.mapb = w.start + 1 /\ ni'.top = ni.top /\ ni'.dbc = ni.dbc
        /\ ni'.protected = ni.protected /\ w'.ba = ni.main /\ w'.limit = w.start
        /\ w'.to = "updated_main" /\ w'.start = w.start /\ w'.try = w.try /\ w'.tmp = w.tmp
    BY <1>0, <1>1, <2>1 DEF Instances, Writes, Clean
  <2>3. Live' = Live /\ FlashInv'
    BY <1>0, <2>1, SameFlash
  <2>4. TypeInv'
    <3>1. ni' \in Instances
      BY <1>0, <1>1, <2>1, Arith, InstanceTypes, ProtectedType, Zenon
    <3>2. w' \in Writes
      BY <1>0, <1>1, <2>1, Arith, WriteTypes, TosMembers, Zenon
    <3> QED
      BY <1>0, <1>1, <2>1, <2>2, <3>1, <3>2 DEF TypeInv, Thens
  <2>5. PlaceInv'
    BY <1>0, <1>1, <2>1, <2>2, <2>3
    DEF PlaceInv, RangeInv, Low, High, OneToOne, Above, OlderJobs
  <2>6. RangeInv'
    BY <1>0, <1>1, <2>1, <2>2, <2>3 DEF RangeInv, Low, High, PlaceInv, OlderJobs
  <2>7. LiveInv'
    BY <1>0, <1>1, <2>1, <2>2, <2>3
    DEF LiveInv, RangeInv, Low, High, Keep, Victim, NextErased, PlaceInv, Free
  <2>8. FrontInv'
    BY <1>0, <1>1, <2>1, <2>2, <2>3 DEF FrontInv, Front, RangeInv, High, Free, MainJobs
  <2>9. OrderInv'
    BY <1>0, <1>1, <2>1, <2>2, <2>3
    DEF OrderInv, LiveInv, Victim, NextErased, OlderJobs, Above
  <2>10. CacheInv'
    BY <1>0, <1>1, <2>1, <2>2, <2>3 DEF CacheInv, OrderInv, Older
  <2>11. KeptInv'
    BY <1>0, <1>1, <2>1, <2>2, <2>3
    DEF KeptInv, LiveInv, RangeInv, Keep, Victim, NextErased, OlderJobs
  <2>12. NotedInv'
    BY <1>0, <1>1, <2>1, <2>2, <2>3 DEF NotedInv, CacheInv
  <2> QED
    BY <2>3, <2>4, <2>5, <2>6, <2>7, <2>8, <2>9, <2>10, <2>11, <2>12 DEF Good
<1>2. CASE ~Written
  <2>1. /\ pc = "updated_backup" /\ pc' = "erase_table"
        /\ UNCHANGED <<flash, phys, cache, kept, op>>
        /\ ni' = [ni EXCEPT !.mapb = ni.backup, !.backup = NoTable]
        /\ w' = [w EXCEPT !.ba = ni.main, !.limit = ni.top, !.to = "updated_main"]
        /\ lone' = TRUE
    BY <1>0, <1>2 DEF UpdatedBackup, flashVars, StartWrite
  <2>2. /\ ni'.st = ni.st /\ ni'.map = ni.map /\ ni'.changed = ni.changed
        /\ ni'.count = ni.count /\ ni'.main = ni.main /\ ni'.backup = NoTable
        /\ ni'.mapb = ni.backup /\ ni'.top = ni.top /\ ni'.dbc = ni.dbc
        /\ ni'.protected = ni.protected /\ w'.ba = ni.main /\ w'.limit = ni.top
        /\ w'.to = "updated_main" /\ w'.start = w.start /\ w'.try = w.try /\ w'.tmp = w.tmp
    BY <1>0, <1>2, <2>1 DEF Instances, Writes
  <2>3. Live' = Live /\ FlashInv'
    BY <1>0, <2>1, SameFlash
  <2>4. TypeInv'
    <3>1. ni' \in Instances
      BY <1>0, <1>2, <2>1, Arith, InstanceTypes, ProtectedType, Zenon
    <3>2. w' \in Writes
      BY <1>0, <1>2, <2>1, Arith, WriteTypes, TosMembers, Zenon
    <3> QED
      BY <1>0, <1>2, <2>1, <2>2, <3>1, <3>2 DEF TypeInv, Thens
  <2>5. PlaceInv'
    BY <1>0, <1>2, <2>1, <2>2, <2>3
    DEF PlaceInv, RangeInv, Low, High, OneToOne, Above, OlderJobs
  <2>6. RangeInv'
    BY <1>0, <1>2, <2>1, <2>2, <2>3 DEF RangeInv, Low, High, PlaceInv, OlderJobs
  <2>7. LiveInv'
    BY <1>0, <1>2, <2>1, <2>2, <2>3
    DEF LiveInv, RangeInv, Low, High, Keep, Victim, NextErased, PlaceInv, Free
  <2>8. FrontInv'
    BY <1>0, <1>2, <2>1, <2>2, <2>3 DEF FrontInv, Front, RangeInv, High, Free, MainJobs
  <2>9. OrderInv'
    BY <1>0, <1>2, <2>1, <2>2, <2>3
    DEF OrderInv, LiveInv, Victim, NextErased, OlderJobs, Above
  <2>10. CacheInv'
    BY <1>0, <1>2, <2>1, <2>2, <2>3 DEF CacheInv, OrderInv, Older
  <2>11. KeptInv'
    BY <1>0, <1>2, <2>1, <2>2, <2>3
    DEF KeptInv, LiveInv, RangeInv, Keep, Victim, NextErased, OlderJobs
  <2>12. NotedInv'
    BY <1>0, <1>2, <2>1, <2>2, <2>3 DEF NotedInv, CacheInv
  <2> QED
    BY <2>3, <2>4, <2>5, <2>6, <2>7, <2>8, <2>9, <2>10, <2>11, <2>12 DEF Good
<1> QED
  BY <1>0, <1>1, <1>2 DEF UpdatedBackup, TypeInv

LEMMA ClearedStep ==
    ASSUME Good, Cleared
    PROVE  Good'
<1> USE LiveBlocks
    DEF On, Writing, Done, Busy, Job, Calm, Behind, WriteJobs, RestPcs, NoTable, Written
<1>0. /\ TypeInv /\ FlashInv /\ PlaceInv /\ RangeInv /\ LiveInv /\ FrontInv
      /\ OrderInv /\ CacheInv /\ KeptInv /\ NotedInv
      /\ ni \in Instances /\ w \in Writes /\ op \in Ops
      /\ ni.main \in Nat /\ ni.backup \in Nat /\ ni.mapb \in Nat /\ ni.top \in Nat
      /\ ni.count \in Nat /\ w.ba \in Int /\ w.limit \in Nat /\ w.start \in Nat
      /\ w.try \in Int /\ w.tmp \in Nat
      /\ \A x \in Live : flash[x].count \in Nat
  BY Parts
<1>1. /\ pc = "clear" /\ pc' = w.to
      /\ UNCHANGED <<flash, phys, cache, kept, lone, ni, w, op>>
      /\ w.to \in {"create_map", "update", "rescued", "cleared_behind"}
  BY <1>0 DEF Cleared, histVars, TypeInv
<1>2. Live' = Live /\ FlashInv'
  BY <1>0, <1>1, SameFlash
<1>3. TypeInv'
  BY <1>0, <1>1 DEF TypeInv, Thens
<1>4. PlaceInv'
  BY <1>0, <1>1, <1>2 DEF PlaceInv, RangeInv, Low, High, OneToOne, Above, OlderJobs
<1>5. RangeInv'
  BY <1>0, <1>1, <1>2 DEF RangeInv, Low, High, PlaceInv, OlderJobs
<1>6. LiveInv'
  BY <1>0, <1>1, <1>2
  DEF LiveInv, RangeInv, Low, High, Keep, Victim, NextErased, PlaceInv, Free
<1>7. FrontInv'
  BY <1>0, <1>1, <1>2 DEF FrontInv, Front, RangeInv, High, Free, MainJobs
<1>8. OrderInv'
  BY <1>0, <1>1, <1>2 DEF OrderInv, LiveInv, Victim, NextErased, OlderJobs, Above
<1>9. CacheInv'
  BY <1>0, <1>1, <1>2 DEF CacheInv, OrderInv, Older
<1>10. KeptInv'
  BY <1>0, <1>1, <1>2 DEF KeptInv, LiveInv, RangeInv, Keep, Victim, NextErased, OlderJobs
<1>11. NotedInv'
  BY <1>0, <1>1, <1>2 DEF NotedInv, CacheInv
<1> QED
  BY <1>2, <1>3, <1>4, <1>5, <1>6, <1>7, <1>8, <1>9, <1>10, <1>11 DEF Good

LEMMA RebuiltBackupStep ==
    ASSUME Good, RebuiltBackup
    PROVE  Good'
<1> USE LiveBlocks
    DEF On, Writing, Done, Busy, Job, Calm, Behind, WriteJobs, RestPcs, NoTable, Written
<1>0. /\ TypeInv /\ FlashInv /\ PlaceInv /\ RangeInv /\ LiveInv /\ FrontInv
      /\ OrderInv /\ CacheInv /\ KeptInv /\ NotedInv
      /\ ni \in Instances /\ w \in Writes /\ op \in Ops
      /\ ni.main \in Nat /\ ni.backup \in Nat /\ ni.mapb \in Nat /\ ni.top \in Nat
      /\ ni.count \in Nat /\ w.ba \in Int /\ w.limit \in Nat /\ w.start \in Nat
      /\ w.try \in Int /\ w.tmp \in Nat
      /\ \A x \in Live : flash[x].count \in Nat
  BY Parts
<1>1. CASE ~Written
  <2>1. /\ pc = "rebuilt_backup" /\ pc' = AfterRebuild
        /\ UNCHANGED <<flash, phys, cache, kept, lone, ni, w, op>>
        /\ AfterRebuild = IF op.then = "create" THEN "create_map" ELSE "update"
    BY <1>0, <1>1 DEF AfterRebuild, RebuiltBackup, flashVars, histVars
  <2>2. Live' = Live /\ FlashInv'
    BY <1>0, <2>1, SameFlash
  <2>3. TypeInv'
    BY <1>0, <1>1, <2>1 DEF TypeInv, Thens
  <2>4. PlaceInv'
    BY <1>0, <1>1, <2>1, <2>2 DEF PlaceInv, RangeInv, Low, High, OneToOne, Above, OlderJobs
  <2>5. RangeInv'
    BY <1>0, <1>1, <2>1, <2>2 DEF RangeInv, Low, High, PlaceInv, OlderJobs
  <2>6. LiveInv'
    BY <1>0, <1>1, <2>1, <2>2
    DEF LiveInv, RangeInv, Low, High, Keep, Victim, NextErased, PlaceInv, Free
  <2>7. FrontInv'
    BY <1>0, <1>1, <2>1, <2>2 DEF FrontInv, Front, RangeInv, High, Free, MainJobs
  <2>8. OrderInv'
    BY <1>0, <1>1, <2>1, <2>2 DEF OrderInv, LiveInv, Victim, NextErased, OlderJobs, Above
  <2>9. CacheInv'
    BY <1>0, <1>1, <2>1, <2>2 DEF CacheInv, OrderInv, Older
  <2>10. KeptInv'
    BY <1>0, <1>1, <2>1, <2>2
    DEF KeptInv, LiveInv, RangeInv, Keep, Victim, NextErased, OlderJobs
  <2>11. NotedInv'
    BY <1>0, <1>1, <2>1, <2>2 DEF NotedInv, CacheInv
  <2> QED
    BY <2>2, <2>3, <2>4, <2>5, <2>6, <2>7, <2>8, <2>9, <2>10, <2>11 DEF Good
<1>2. CASE Written
  <2>1. /\ pc = "rebuilt_backup" /\ pc' = "clear"
        /\ UNCHANGED <<flash, phys, cache, kept, lone, op>>
        /\ ni' = [ni EXCEPT !.backup = w.start, !.mapb = w.start + 1]
        /\ w' = [w EXCEPT !.ba = ni.main + 1, !.limit = w.start, !.to = AfterRebuild]
        /\ AfterRebuild = IF op.then = "create" THEN "create_map" ELSE "update"
    BY <1>0, <1>2 DEF AfterRebuild, RebuiltBackup, flashVars, histVars, StartClear
  <2>2. /\ ni'.st = ni.st /\ ni'.map = ni.map /\ ni'.changed = ni.changed
        /\ ni'.count = ni.count /\ ni'.main = ni.main /\ ni'.backup = w.start
        /\ ni'.mapb = w.start + 1 /\ ni'.top = ni.top /\ ni'.dbc = ni.dbc
        /\ ni'.protected = ni.protected /\ w'.ba = ni.main + 1 /\ w'.limit = w.start
        /\ w'.to = AfterRebuild /\ w'.start = w.start /\ w'.try = w.try /\ w'.tmp = w.tmp
    BY <1>0, <1>2, <2>1 DEF Instances, Writes
  <2>3. Live' = Live /\ FlashInv'
    BY <1>0, <2>1, SameFlash
  <2>4. TypeInv'
    <3>1. ni' \in Instances
      BY <1>0, <1>2, <2>1, Arith, InstanceTypes, ProtectedType, Zenon
    <3>2. w' \in Writes
      BY <1>0, <2>1, Arith, RangeType, AfterIsTo, Zenon
    <3> QED
      BY <1>0, <1>2, <2>1, <2>2, <3>1, <3>2 DEF TypeInv, Thens
  <2>5. PlaceInv'
    BY <1>0, <1>2, <2>1, <2>2, <2>3
    DEF PlaceInv, RangeInv, Low, High, OneToOne, Above, OlderJobs
  <2>6. RangeInv'
    BY <1>0, <1>2, <2>1, <2>2, <2>3 DEF RangeInv, Low, High, PlaceInv, OlderJobs
  <2>7. LiveInv'
    BY <1>0, <1>2, <2>1, <2>2, <2>3
    DEF LiveInv, RangeInv, Low, High, Keep, Victim, NextErased, PlaceInv, Free
  <2>8. FrontInv'
    BY <1>0, <1>2, <2>1, <2>2, <2>3 DEF FrontInv, Front, RangeInv, High, Free, MainJobs
  <2>9. OrderInv'
    BY <1>0, <1>2, <2>1, <2>2, <2>3
    DEF OrderInv, LiveInv, Victim, NextErased, OlderJobs, Above
  <2>10. CacheInv'
    BY <1>0, <1>2, <2>1, <2>2, <2>3 DEF CacheInv, OrderInv, Older
  <2>11. KeptInv'
    BY <1>0, <1>2, <2>1, <2>2, <2>3
    DEF KeptInv, LiveInv, RangeInv, Keep, Victim, NextErased, OlderJobs
  <2>12. NotedInv'
    BY <1>0, <1>2, <2>1, <2>2, <2>3 DEF NotedInv, CacheInv
  <2> QED
    BY <2>3, <2>4, <2>5, <2>6, <2>7, <2>8, <2>9, <2>10, <2>11, <2>12 DEF Good
<1> QED
  BY <1>0, <1>1, <1>2 DEF RebuiltBackup, TypeInv

LEMMA RebuiltMainStep ==
    ASSUME Good, RebuiltMain
    PROVE  Good'
<1> USE LiveBlocks
    DEF On, Writing, Done, Busy, Job, Calm, Behind, WriteJobs, RestPcs, NoTable, Written
<1>0. /\ TypeInv /\ FlashInv /\ PlaceInv /\ RangeInv /\ LiveInv /\ FrontInv
      /\ OrderInv /\ CacheInv /\ KeptInv /\ NotedInv
      /\ ni \in Instances /\ w \in Writes /\ op \in Ops
      /\ ni.main \in Nat /\ ni.backup \in Nat /\ ni.mapb \in Nat /\ ni.top \in Nat
      /\ ni.count \in Nat /\ w.ba \in Int /\ w.limit \in Nat /\ w.start \in Nat
      /\ w.try \in Int /\ w.tmp \in Nat
      /\ \A x \in Live : flash[x].count \in Nat
  BY Parts
<1>1. CASE ~Written /\ op.then = "create"
  <2>1. /\ pc = "rebuilt_main" /\ pc' = "dead"
        /\ UNCHANGED <<flash, phys, cache, kept, lone, w, op>>
        /\ ni' = [ni EXCEPT !.protected = TRUE]
    BY <1>0, <1>1 DEF RebuiltMain, flashVars, AfterRebuild
  <2>2. /\ ni'.st = ni.st /\ ni'.map = ni.map /\ ni'.changed = ni.changed
        /\ ni'.count = ni.count /\ ni'.main = ni.main /\ ni'.backup = ni.backup
        /\ ni'.mapb = ni.mapb /\ ni'.top = ni.top /\ ni'.dbc = ni.dbc
        /\ ni'.protected = TRUE
    BY <1>0, <1>1, <2>1 DEF Instances
  <2>3. Live' = Live /\ FlashInv'
    BY <1>0, <2>1, SameFlash
  <2>4. TypeInv'
    <3>1. ni' \in Instances
      BY <1>0, <1>1, <2>1, Arith, InstanceTypes, ProtectedType, Zenon
    <3> QED
      BY <1>0, <1>1, <2>1, <2>2, <3>1 DEF TypeInv, Thens
  <2>5. PlaceInv'
    BY <1>0, <1>1, <2>1, <2>2, <2>3
    DEF PlaceInv, RangeInv, Low, High, OneToOne, Above, OlderJobs
  <2>6. RangeInv'
    BY <1>0, <1>1, <2>1, <2>2, <2>3 DEF RangeInv, Low, High, PlaceInv, OlderJobs
  <2>7. LiveInv'
    BY <1>0, <1>1, <2>1, <2>2, <2>3
    DEF LiveInv, RangeInv, Low, High, Keep, Victim, NextErased, PlaceInv, Free
  <2>8. FrontInv'
    BY <1>0, <1>1, <2>1, <2>2, <2>3 DEF FrontInv, Front, RangeInv, High, Free, MainJobs
  <2>9. OrderInv'
    BY <1>0, <1>1, <2>1, <2>2, <2>3
    DEF OrderInv, LiveInv, Victim, NextErased, OlderJobs, Above
  <2>10. CacheInv'
    BY <1>0, <1>1, <2>1, <2>2, <2>3 DEF CacheInv, OrderInv, Older
  <2>11. KeptInv'
    BY <1>0, <1>1, <2>1, <2>2, <2>3
    DEF KeptInv, LiveInv, RangeInv, Keep, Victim, NextErased, OlderJobs, FlashKept
  <2>12. NotedInv'
    BY <1>0, <1>1, <2>1, <2>2, <2>3 DEF NotedInv, CacheInv
  <2> QED
    BY <2>3, <2>4, <2>5, <2>6, <2>7, <2>8, <2>9, <2>10, <2>11, <2>12 DEF Good
<1>2. CASE ~Written /\ op.then # "create"
  <2>1. /\ pc = "rebuilt_main" /\ pc' = "update"
        /\ UNCHANGED <<flash, phys, cache, kept, lone, w, op>>
        /\ ni' = [ni EXCEPT !.protected = TRUE]
    BY <1>0, <1>2 DEF RebuiltMain, flashVars, AfterRebuild
  <2>2. /\ ni'.st = ni.st /\ ni'.map = ni.map /\ ni'.changed = ni.changed
        /\ ni'.count = ni.count /\ ni'.main = ni.main /\ ni'.backup = ni.backup
        /\ ni'.mapb = ni.mapb /\ ni'.top = ni.top /\ ni'.dbc = ni.dbc
        /\ ni'.protected = TRUE
    BY <1>0, <1>2, <2>1 DEF Instances
  <2>3. Live' = Live /\ FlashInv'
    BY <1>0, <2>1, SameFlash
  <2>4. TypeInv'
    <3>1. ni' \in Instances
      BY <1>0, <1>2, <2>1, Arith, InstanceTypes, ProtectedType, Zenon
    <3> QED
      BY <1>0, <1>2, <2>1, <2>2, <3>1 DEF TypeInv, Thens
  <2>5. PlaceInv'
    BY <1>0, <1>2, <2>1, <2>2, <2>3
    DEF PlaceInv, RangeInv, Low, High, OneToOne, Above, OlderJobs
  <2>6. RangeInv'
    BY <1>0, <1>2, <2>1, <2>2, <2>3 DEF RangeInv, Low, High, PlaceInv, OlderJobs
  <2>7. LiveInv'
    BY <1>0, <1>2, <2>1, <2>2, <2>3
    DEF LiveInv, RangeInv, Low, High, Keep, Victim, NextErased, PlaceInv, Free
  <2>8. FrontInv'
    BY <1>0, <1>2, <2>1, <2>2, <2>3 DEF FrontInv, Front, RangeInv, High, Free, MainJobs
  <2>9. OrderInv'
    BY <1>0, <1>2, <2>1, <2>2, <2>3
    DEF OrderInv, LiveInv, Victim, NextErased, OlderJobs, Above
  <2>10. CacheInv'
    BY <1>0, <1>2, <2>1, <2>2, <2>3 DEF CacheInv, OrderInv, Older
  <2>11. KeptInv'
    BY <1>0, <1>2, <2>1, <2>2, <2>3
    DEF KeptInv, LiveInv, RangeInv, Keep, Victim, NextErased, OlderJobs
  <2>12. NotedInv'
    BY <1>0, <1>2, <2>1, <2>2, <2>3 DEF NotedInv, CacheInv
  <2> QED
    BY <2>3, <2>4, <2>5, <2>6, <2>7, <2>8, <2>9, <2>10, <2>11, <2>12 DEF Good
<1>3. CASE Written /\ Reserved(ni, w.start + 1, ni.top - 1) = {}
  <2>1. /\ pc = "rebuilt_main" /\ pc' = AfterRebuild
        /\ UNCHANGED <<flash, phys, cache, lone, w, op>>
        /\ ni' = Clean([ni EXCEPT !.main = w.start, !.mapb = w.start + 1])
        /\ kept' = {cache.map}
        /\ AfterRebuild = IF op.then = "create" THEN "create_map" ELSE "update"
    BY <1>0, <1>3 DEF RebuiltMain, flashVars, AfterRebuild
  <2>2. /\ ni'.st = ni.st /\ ni'.map = ni.map /\ ni'.changed = FALSE
        /\ ni'.count = ni.count /\ ni'.main = w.start /\ ni'.backup = ni.backup
        /\ ni'.mapb = w.start + 1 /\ ni'.top = ni.top /\ ni'.dbc = ni.dbc
        /\ ni'.protected = ni.protected
    BY <1>0, <1>3, <2>1 DEF Instances, Clean
  <2>3. Live' = Live /\ FlashInv'
    BY <1>0, <2>1, SameFlash
  <2>4. TypeInv'
    <3>1. ni' \in Instances
      BY <1>0, <1>3, <2>1, Arith, InstanceTypes, ProtectedType, Zenon
    <3> QED
      BY <1>0, <1>3, <2>1, <2>2, <3>1 DEF TypeInv, Thens
  <2>5. PlaceInv'
    BY <1>0, <1>3, <2>1, <2>2, <2>3
    DEF PlaceInv, RangeInv, Low, High, OneToOne, Above, OlderJobs
  <2>6. RangeInv'
    BY <1>0, <1>3, <2>1, <2>2, <2>3 DEF RangeInv, Low, High, PlaceInv, OlderJobs
  <2>7. LiveInv'
    BY <1>0, <1>3, <2>1, <2>2, <2>3
    DEF LiveInv, RangeInv, Low, High, Keep, Victim, NextErased, PlaceInv, Free
  <2>8. FrontInv'
    BY <1>0, <1>3, <2>1, <2>2, <2>3 DEF FrontInv, Front, RangeInv, High, Free, MainJobs
  <2>9. OrderInv'
    BY <1>0, <1>3, <2>1, <2>2, <2>3
    DEF OrderInv, LiveInv, Victim, NextErased, OlderJobs, Above
  <2>10. CacheInv'
    BY <1>0, <1>3, <2>1, <2>2, <2>3 DEF CacheInv, OrderInv, Older
  <2>11. KeptInv'
    BY <1>0, <1>3, <2>1, <2>2, <2>3
    DEF KeptInv, LiveInv, RangeInv, Keep, Victim, NextErased, OlderJobs
  <2>12. NotedInv'
    BY <1>0, <1>3, <2>1, <2>2, <2>3 DEF NotedInv, CacheInv
  <2> QED
    BY <2>3, <2>4, <2>5, <2>6, <2>7, <2>8, <2>9, <2>10, <2>11, <2>12 DEF Good
<1>4. CASE Written /\ Reserved(ni, w.start + 1, ni.top - 1) # {}
  <2> DEFINE b == Min(Reserved(ni, w.start + 1, ni.top - 1))
  <2>a. w.start + 1 \in Nat /\ ni.top - 1 \in Nat /\ ni.top - 1 <= SignatureBa
    BY <1>0, <1>4 DEF RebuiltMain, PlaceInv, RangeInv, High
  <2>b. b \in Nat /\ b \in Int /\ w.start + 1 <= b /\ b < ni.top - 1
    BY <1>0, <1>4, <2>a, ReservedBlock
  <2>1. /\ pc = "rebuilt_main" /\ pc' = "erase_table"
        /\ UNCHANGED <<flash, phys, cache, lone, op>>
        /\ ni' = Clean([ni EXCEPT !.main = w.start, !.mapb = w.start + 1])
        /\ w' = [w EXCEPT !.ba = b, !.limit = ni.top, !.to = "rebuilt_backup"]
        /\ kept' = {cache.map}
        /\ w.start + 1 <= b
        /\ b \in Nat
        /\ b \in Int
        /\ b < ni.top
    BY <1>0, <1>4, <2>a, <2>b DEF RebuiltMain, flashVars, AfterRebuild, StartWrite
  <2> HIDE DEF b
  <2>2. /\ ni'.st = ni.st /\ ni'.map = ni.map /\ ni'.changed = FALSE
        /\ ni'.count = ni.count /\ ni'.main = w.start /\ ni'.backup = ni.backup
        /\ ni'.mapb = w.start + 1 /\ ni'.top = ni.top /\ ni'.dbc = ni.dbc
        /\ ni'.protected = ni.protected /\ w'.ba = b /\ w'.limit = ni.top
        /\ w'.to = "rebuilt_backup" /\ w'.start = w.start /\ w'.try = w.try
        /\ w'.tmp = w.tmp
    BY <1>0, <1>4, <2>1 DEF Instances, Writes, Clean
  <2>3. Live' = Live /\ FlashInv'
    BY <1>0, <2>1, SameFlash
  <2>4. TypeInv'
    <3>1. ni' \in Instances
      BY <1>0, <1>4, <2>1, Arith, InstanceTypes, ProtectedType, Zenon
    <3>2. w' \in Writes
      BY <1>0, <1>4, <2>1, Arith, WriteTypes, TosMembers, Zenon
    <3> QED
      BY <1>0, <1>4, <2>1, <2>2, <3>1, <3>2 DEF TypeInv, Thens
  <2>5. PlaceInv'
    BY <1>0, <1>4, <2>1, <2>2, <2>3
    DEF PlaceInv, RangeInv, Low, High, OneToOne, Above, OlderJobs
  <2>6. RangeInv'
    BY <1>0, <1>4, <2>1, <2>2, <2>3 DEF RangeInv, Low, High, PlaceInv, OlderJobs
  <2>7. LiveInv'
    BY <1>0, <1>4, <2>1, <2>2, <2>3
    DEF LiveInv, RangeInv, Low, High, Keep, Victim, NextErased, PlaceInv, Free
  <2>8. FrontInv'
    BY <1>0, <1>4, <2>1, <2>2, <2>3 DEF FrontInv, Front, RangeInv, High, Free, MainJobs
  <2>9. OrderInv'
    BY <1>0, <1>4, <2>1, <2>2, <2>3
    DEF OrderInv, LiveInv, Victim, NextErased, OlderJobs, Above
  <2>10. CacheInv'
    BY <1>0, <1>4, <2>1, <2>2, <2>3 DEF CacheInv, OrderInv, Older
  <2>11. KeptInv'
    BY <1>0, <1>4, <2>1, <2>2, <2>3
    DEF KeptInv, LiveInv, RangeInv, Keep, Victim, NextErased, OlderJobs
  <2>12. NotedInv'
    BY <1>0, <1>4, <2>1, <2>2, <2>3 DEF NotedInv, CacheInv
  <2> QED
    BY <2>3, <2>4, <2>5, <2>6, <2>7, <2>8, <2>9, <2>10, <2>11, <2>12 DEF Good
<1> QED
  BY <1>0, <1>1, <1>2, <1>3, <1>4 DEF RebuiltMain, TypeInv

LEMMA UpdatedMainStep ==
    ASSUME Good, UpdatedMain
    PROVE  Good'
<1> USE LiveBlocks
    DEF On, Writing, Done, Busy, Job, Calm, Behind, WriteJobs, RestPcs, NoTable, Written
<1>0. /\ TypeInv /\ FlashInv /\ PlaceInv /\ RangeInv /\ LiveInv /\ FrontInv
      /\ OrderInv /\ CacheInv /\ KeptInv /\ NotedInv
      /\ ni \in Instances /\ w \in Writes /\ op \in Ops
      /\ ni.main \in Nat /\ ni.backup \in Nat /\ ni.mapb \in Nat /\ ni.top \in Nat
      /\ ni.count \in Nat /\ w.ba \in Int /\ w.limit \in Nat /\ w.start \in Nat
      /\ w.try \in Int /\ w.tmp \in Nat
      /\ \A x \in Live : flash[x].count \in Nat
  BY Parts
<1>1. CASE Written /\ ni.backup # NoTable
  <2>1. /\ pc = "updated_main" /\ pc' = "update"
        /\ UNCHANGED <<flash, phys, cache, kept, lone, w, op>>
        /\ ni' = Clean([ni EXCEPT !.main = w.start])
    BY <1>0, <1>1 DEF UpdatedMain, flashVars, histVars
  <2>2. /\ ni'.st = ni.st /\ ni'.map = ni.map /\ ni'.changed = FALSE
        /\ ni'.count = ni.count /\ ni'.main = w.start /\ ni'.backup = ni.backup
        /\ ni'.mapb = ni.mapb /\ ni'.top = ni.top /\ ni'.dbc = ni.dbc
        /\ ni'.protected = ni.protected
    BY <1>0, <1>1, <2>1 DEF Instances, Clean
  <2>3. Live' = Live /\ FlashInv'
    BY <1>0, <2>1, SameFlash
  <2>4. TypeInv'
    <3>1. ni' \in Instances
      BY <1>0, <1>1, <2>1, Arith, InstanceTypes, ProtectedType, Zenon
    <3> QED
      BY <1>0, <1>1, <2>1, <2>2, <3>1 DEF TypeInv, Thens
  <2>5. PlaceInv'
    BY <1>0, <1>1, <2>1, <2>2, <2>3
    DEF PlaceInv, RangeInv, Low, High, OneToOne, Above, OlderJobs
  <2>6. RangeInv'
    BY <1>0, <1>1, <2>1, <2>2, <2>3 DEF RangeInv, Low, High, PlaceInv, OlderJobs
  <2>7. LiveInv'
    BY <1>0, <1>1, <2>1, <2>2, <2>3
    DEF LiveInv, RangeInv, Low, High, Keep, Victim, NextErased, PlaceInv, Free
  <2>8. FrontInv'
    BY <1>0, <1>1, <2>1, <2>2, <2>3 DEF FrontInv, Front, RangeInv, High, Free, MainJobs
  <2>9. OrderInv'
    BY <1>0, <1>1, <2>1, <2>2, <2>3
    DEF OrderInv, LiveInv, Victim, NextErased, OlderJobs, Above
  <2>10. CacheInv'
    BY <1>0, <1>1, <2>1, <2>2, <2>3 DEF CacheInv, OrderInv, Older
  <2>11. KeptInv'
    BY <1>0, <1>1, <2>1, <2>2, <2>3
    DEF KeptInv, LiveInv, RangeInv, Keep, Victim, NextErased, OlderJobs
  <2>12. NotedInv'
    BY <1>0, <1>1, <2>1, <2>2, <2>3 DEF NotedInv, CacheInv
  <2> QED
    BY <2>3, <2>4, <2>5, <2>6, <2>7, <2>8, <2>9, <2>10, <2>11, <2>12 DEF Good
<1>2. CASE Written /\ ni.backup = NoTable
  <2>1. /\ pc = "updated_main" /\ pc' = "update"
        /\ UNCHANGED <<flash, phys, cache, kept, lone, w, op>>
        /\ ni' = Clean([ni EXCEPT !.main = w.start, !.mapb = w.start + 1])
    BY <1>0, <1>2 DEF UpdatedMain, flashVars, histVars
  <2>2. /\ ni'.st = ni.st /\ ni'.map = ni.map /\ ni'.changed = FALSE
        /\ ni'.count = ni.count /\ ni'.main = w.start /\ ni'.backup = ni.backup
        /\ ni'.mapb = w.start + 1 /\ ni'.top = ni.top /\ ni'.dbc = ni.dbc
        /\ ni'.protected = ni.protected
    BY <1>0, <1>2, <2>1 DEF Instances, Clean
  <2>3. Live' = Live /\ FlashInv'
    BY <1>0, <2>1, SameFlash
  <2>4. TypeInv'
    <3>1. ni' \in Instances
      BY <1>0, <1>2, <2>1, Arith, InstanceTypes, ProtectedType, Zenon
    <3> QED
      BY <1>0, <1>2, <2>1, <2>2, <3>1 DEF TypeInv, Thens
  <2>5. PlaceInv'
    BY <1>0, <1>2, <2>1, <2>2, <2>3
    DEF PlaceInv, RangeInv, Low, High, OneToOne, Above, OlderJobs
  <2>6. RangeInv'
    BY <1>0, <1>2, <2>1, <2>2, <2>3 DEF RangeInv, Low, High, PlaceInv, OlderJobs
  <2>7. LiveInv'
    BY <1>0, <1>2, <2>1, <2>2, <2>3
    DEF LiveInv, RangeInv, Low, High, Keep, Victim, NextErased, PlaceInv, Free
  <2>8. FrontInv'
    BY <1>0, <1>2, <2>1, <2>2, <2>3 DEF FrontInv, Front, RangeInv, High, Free, MainJobs
  <2>9. OrderInv'
    BY <1>0, <1>2, <2>1, <2>2, <2>3
    DEF OrderInv, LiveInv, Victim, NextErased, OlderJobs, Above
  <2>10. CacheInv'
    BY <1>0, <1>2, <2>1, <2>2, <2>3 DEF CacheInv, OrderInv, Older
  <2>11. KeptInv'
    BY <1>0, <1>2, <2>1, <2>2, <2>3
    DEF KeptInv, LiveInv, RangeInv, Keep, Victim, NextErased, OlderJobs
  <2>12. NotedInv'
    BY <1>0, <1>2, <2>1, <2>2, <2>3 DEF NotedInv, CacheInv
  <2> QED
    BY <2>3, <2>4, <2>5, <2>6, <2>7, <2>8, <2>9, <2>10, <2>11, <2>12 DEF Good
<1>3. CASE ~Written /\ ni.backup = NoTable
  <2>1. /\ pc = "updated_main" /\ pc' = "erase_table"
        /\ UNCHANGED <<flash, phys, cache, kept, lone, op>>
        /\ ni' = [ni EXCEPT !.main = NoTable, !.backup = NoTable, !.mapb = ni.top]
        /\ w' = [w EXCEPT !.ba = DataBlocks, !.limit = ni.top, !.to = "rebuilt_main"]
    BY <1>0, <1>3 DEF UpdatedMain, flashVars, histVars, StartRebuild, StartWrite
  <2>2. /\ ni'.st = ni.st /\ ni'.map = ni.map /\ ni'.changed = ni.changed
        /\ ni'.count = ni.count /\ ni'.main = NoTable /\ ni'.backup = NoTable
        /\ ni'.mapb = ni.top /\ ni'.top = ni.top /\ ni'.dbc = ni.dbc
        /\ ni'.protected = ni.protected /\ w'.ba = DataBlocks /\ w'.limit = ni.top
        /\ w'.to = "rebuilt_main" /\ w'.start = w.start /\ w'.try = w.try /\ w'.tmp = w.tmp
    BY <1>0, <1>3, <2>1 DEF Instances, Writes
  <2>3. Live' = Live /\ FlashInv'
    BY <1>0, <2>1, SameFlash
  <2>4. TypeInv'
    <3>1. ni' \in Instances
      BY <1>0, <1>3, <2>1, Arith, InstanceTypes, ProtectedType, Zenon
    <3>2. w' \in Writes
      BY <1>0, <1>3, <2>1, Arith, WriteTypes, TosMembers, Zenon
    <3> QED
      BY <1>0, <1>3, <2>1, <2>2, <3>1, <3>2 DEF TypeInv, Thens
  <2>5. PlaceInv'
    BY <1>0, <1>3, <2>1, <2>2, <2>3
    DEF PlaceInv, RangeInv, Low, High, OneToOne, Above, OlderJobs
  <2>6. RangeInv'
    BY <1>0, <1>3, <2>1, <2>2, <2>3 DEF RangeInv, Low, High, PlaceInv, OlderJobs
  <2>7. LiveInv'
    BY <1>0, <1>3, <2>1, <2>2, <2>3
    DEF LiveInv, RangeInv, Low, High, Keep, Victim, NextErased, PlaceInv, Free
  <2>8. FrontInv'
    BY <1>0, <1>3, <2>1, <2>2, <2>3 DEF FrontInv, Front, RangeInv, High, Free, MainJobs
  <2>9. OrderInv'
    BY <1>0, <1>3, <2>1, <2>2, <2>3
    DEF OrderInv, LiveInv, Victim, NextErased, OlderJobs, Above
  <2>10. CacheInv'
    BY <1>0, <1>3, <2>1, <2>2, <2>3 DEF CacheInv, OrderInv, Older
  <2>11. KeptInv'
    BY <1>0, <1>3, <2>1, <2>2, <2>3
    DEF KeptInv, LiveInv, RangeInv, Keep, Victim, NextErased, OlderJobs
  <2>12. NotedInv'
    BY <1>0, <1>3, <2>1, <2>2, <2>3 DEF NotedInv, CacheInv
  <2> QED
    BY <2>3, <2>4, <2>5, <2>6, <2>7, <2>8, <2>9, <2>10, <2>11, <2>12 DEF Good
<1>4. CASE ~Written /\ ni.backup # NoTable /\ Reserved(ni, ni.mapb, ni.top - 1) = {}
  <2>1. /\ pc = "updated_main" /\ pc' = "update"
        /\ UNCHANGED <<flash, phys, cache, kept, lone, w, op>>
        /\ ni' = [ni EXCEPT !.main = ni.backup, !.backup = NoTable]
    BY <1>0, <1>4 DEF UpdatedMain, flashVars, histVars, StartRescueMain
  <2>2. /\ ni'.st = ni.st /\ ni'.map = ni.map /\ ni'.changed = ni.changed
        /\ ni'.count = ni.count /\ ni'.main = ni.backup /\ ni'.backup = NoTable
        /\ ni'.mapb = ni.mapb /\ ni'.top = ni.top /\ ni'.dbc = ni.dbc
        /\ ni'.protected = ni.protected
    BY <1>0, <1>4, <2>1 DEF Instances
  <2>3. Live' = Live /\ FlashInv'
    BY <1>0, <2>1, SameFlash
  <2>4. TypeInv'
    <3>1. ni' \in Instances
      BY <1>0, <1>4, <2>1, Arith, InstanceTypes, ProtectedType, Zenon
    <3> QED
      BY <1>0, <1>4, <2>1, <2>2, <3>1 DEF TypeInv, Thens
  <2>5. PlaceInv'
    BY <1>0, <1>4, <2>1, <2>2, <2>3
    DEF PlaceInv, RangeInv, Low, High, OneToOne, Above, OlderJobs
  <2>6. RangeInv'
    BY <1>0, <1>4, <2>1, <2>2, <2>3 DEF RangeInv, Low, High, PlaceInv, OlderJobs
  <2>7. LiveInv'
    BY <1>0, <1>4, <2>1, <2>2, <2>3
    DEF LiveInv, RangeInv, Low, High, Keep, Victim, NextErased, PlaceInv, Free
  <2>8. FrontInv'
    BY <1>0, <1>4, <2>1, <2>2, <2>3 DEF FrontInv, Front, RangeInv, High, Free, MainJobs
  <2>9. OrderInv'
    BY <1>0, <1>4, <2>1, <2>2, <2>3
    DEF OrderInv, LiveInv, Victim, NextErased, OlderJobs, Above
  <2>10. CacheInv'
    BY <1>0, <1>4, <2>1, <2>2, <2>3 DEF CacheInv, OrderInv, Older
  <2>11. KeptInv'
    BY <1>0, <1>4, <2>1, <2>2, <2>3
    DEF KeptInv, LiveInv, RangeInv, Keep, Victim, NextErased, OlderJobs
  <2>12. NotedInv'
    BY <1>0, <1>4, <2>1, <2>2, <2>3 DEF NotedInv, CacheInv
  <2> QED
    BY <2>3, <2>4, <2>5, <2>6, <2>7, <2>8, <2>9, <2>10, <2>11, <2>12 DEF Good
<1>5. CASE ~Written /\ ni.backup # NoTable /\ Reserved(ni, ni.mapb, ni.top - 1) # {}
  <2> DEFINE b == Min(Reserved(ni, ni.mapb, ni.top - 1))
  <2>a. ni.mapb \in Nat /\ ni.top - 1 \in Nat /\ ni.top - 1 <= SignatureBa
    BY <1>0, <1>5 DEF UpdatedMain, PlaceInv, RangeInv, High
  <2>b. b \in Nat /\ b \in Int /\ ni.mapb <= b /\ b < ni.top - 1
    BY <1>0, <1>5, <2>a, ReservedBlock
  <2>1. /\ pc = "updated_main" /\ pc' = "erase_table"
        /\ UNCHANGED <<flash, phys, cache, kept, lone, ni, op>>
        /\ w' = [w EXCEPT !.ba = b, !.limit = ni.top, !.to = "wrote_tmp", !.try = b]
        /\ ni.mapb <= b
        /\ b \in Nat
        /\ b \in Int
        /\ b < ni.top
    BY <1>0, <1>5, <2>a, <2>b DEF UpdatedMain, flashVars, histVars, StartRescueMain
  <2> HIDE DEF b
  <2>2. /\ w'.ba = b /\ w'.limit = ni.top /\ w'.to = "wrote_tmp" /\ w'.start = w.start
        /\ w'.try = b /\ w'.tmp = w.tmp
    BY <1>0, <1>5, <2>1 DEF Writes
  <2>3. Live' = Live /\ FlashInv'
    BY <1>0, <2>1, SameFlash
  <2>4. TypeInv'
    <3>1. w' \in Writes
      BY <1>0, <1>5, <2>1, Arith, WriteTypes, TosMembers, Zenon
    <3> QED
      BY <1>0, <1>5, <2>1, <2>2, <3>1 DEF TypeInv, Thens
  <2>5. PlaceInv'
    BY <1>0, <1>5, <2>1, <2>2, <2>3
    DEF PlaceInv, RangeInv, Low, High, OneToOne, Above, OlderJobs
  <2>6. RangeInv'
    BY <1>0, <1>5, <2>1, <2>2, <2>3 DEF RangeInv, Low, High, PlaceInv, OlderJobs
  <2>7. LiveInv'
    BY <1>0, <1>5, <2>1, <2>2, <2>3
    DEF LiveInv, RangeInv, Low, High, Keep, Victim, NextErased, PlaceInv, Free
  <2>8. FrontInv'
    BY <1>0, <1>5, <2>1, <2>2, <2>3 DEF FrontInv, Front, RangeInv, High, Free, MainJobs
  <2>9. OrderInv'
    BY <1>0, <1>5, <2>1, <2>2, <2>3
    DEF OrderInv, LiveInv, Victim, NextErased, OlderJobs, Above
  <2>10. CacheInv'
    BY <1>0, <1>5, <2>1, <2>2, <2>3 DEF CacheInv, OrderInv, Older
  <2>11. KeptInv'
    BY <1>0, <1>5, <2>1, <2>2, <2>3
    DEF KeptInv, LiveInv, RangeInv, Keep, Victim, NextErased, OlderJobs
  <2>12. NotedInv'
    BY <1>0, <1>5, <2>1, <2>2, <2>3 DEF NotedInv, CacheInv
  <2> QED
    BY <2>3, <2>4, <2>5, <2>6, <2>7, <2>8, <2>9, <2>10, <2>11, <2>12 DEF Good
<1> QED
  BY <1>0, <1>1, <1>2, <1>3, <1>4, <1>5 DEF UpdatedMain, TypeInv

LEMMA WroteTmpStep ==
    ASSUME Good, WroteTmp
    PROVE  Good'
<1> USE LiveBlocks
    DEF On, Writing, Done, Busy, Job, Calm, Behind, WriteJobs, RestPcs, NoTable, Written
<1>0. /\ TypeInv /\ FlashInv /\ PlaceInv /\ RangeInv /\ LiveInv /\ FrontInv
      /\ OrderInv /\ CacheInv /\ KeptInv /\ NotedInv
      /\ ni \in Instances /\ w \in Writes /\ op \in Ops
      /\ ni.main \in Nat /\ ni.backup \in Nat /\ ni.mapb \in Nat /\ ni.top \in Nat
      /\ ni.count \in Nat /\ w.ba \in Int /\ w.limit \in Nat /\ w.start \in Nat
      /\ w.try \in Int /\ w.tmp \in Nat
      /\ \A x \in Live : flash[x].count \in Nat
  BY Parts
<1>1. CASE Written
  <2>1. /\ pc = "wrote_tmp" /\ pc' = "erase_table"
        /\ UNCHANGED <<flash, phys, cache, kept, lone, op>>
        /\ ni' = [ni EXCEPT !.mapb = w.start + 1]
        /\ w' = [w EXCEPT !.ba = DataBlocks, !.limit = w.start, !.to = "rescued_main",
                          !.tmp = w.start]
    BY <1>0, <1>1 DEF WroteTmp, flashVars, histVars
  <2>2. /\ ni'.st = ni.st /\ ni'.map = ni.map /\ ni'.changed = ni.changed
        /\ ni'.count = ni.count /\ ni'.main = ni.main /\ ni'.backup = ni.backup
        /\ ni'.mapb = w.start + 1 /\ ni'.top = ni.top /\ ni'.dbc = ni.dbc
        /\ ni'.protected = ni.protected /\ w'.ba = DataBlocks /\ w'.limit = w.start
        /\ w'.to = "rescued_main" /\ w'.start = w.start /\ w'.try = w.try
        /\ w'.tmp = w.start
    BY <1>0, <1>1, <2>1 DEF Instances, Writes
  <2>3. Live' = Live /\ FlashInv'
    BY <1>0, <2>1, SameFlash
  <2>4. TypeInv'
    <3>1. ni' \in Instances
      BY <1>0, <1>1, <2>1, Arith, InstanceTypes, ProtectedType, Zenon
    <3>2. w' \in Writes
      BY <1>0, <1>1, <2>1, Arith, WriteTypes, TosMembers, Zenon
    <3> QED
      BY <1>0, <1>1, <2>1, <2>2, <3>1, <3>2 DEF TypeInv, Thens
  <2>5. PlaceInv'
    BY <1>0, <1>1, <2>1, <2>2, <2>3
    DEF PlaceInv, RangeInv, Low, High, OneToOne, Above, OlderJobs
  <2>6. RangeInv'
    BY <1>0, <1>1, <2>1, <2>2, <2>3 DEF RangeInv, Low, High, PlaceInv, OlderJobs
  <2>7. LiveInv'
    BY <1>0, <1>1, <2>1, <2>2, <2>3
    DEF LiveInv, RangeInv, Low, High, Keep, Victim, NextErased, PlaceInv, Free, FrontInv,
        Front, MainJobs
  <2>8. FrontInv'
    BY <1>0, <1>1, <2>1, <2>2, <2>3 DEF FrontInv, Front, RangeInv, High, Free, MainJobs
  <2>9. OrderInv'
    BY <1>0, <1>1, <2>1, <2>2, <2>3
    DEF OrderInv, LiveInv, Victim, NextErased, OlderJobs, Above
  <2>10. CacheInv'
    BY <1>0, <1>1, <2>1, <2>2, <2>3 DEF CacheInv, OrderInv, Older
  <2>11. KeptInv'
    BY <1>0, <1>1, <2>1, <2>2, <2>3
    DEF KeptInv, LiveInv, RangeInv, Keep, Victim, NextErased, OlderJobs
  <2>12. NotedInv'
    BY <1>0, <1>1, <2>1, <2>2, <2>3 DEF NotedInv, CacheInv
  <2> QED
    BY <2>3, <2>4, <2>5, <2>6, <2>7, <2>8, <2>9, <2>10, <2>11, <2>12 DEF Good
<1>2. CASE ~Written /\ w.try > ni.mapb
  <2>1. /\ pc = "wrote_tmp" /\ pc' = "erase_table"
        /\ UNCHANGED <<flash, phys, cache, kept, lone, ni, op>>
        /\ w' = [w EXCEPT !.ba = w.try - 1, !.try = @ - 1]
        /\ w.to = "wrote_tmp"
    BY <1>0, <1>2 DEF WroteTmp, flashVars, histVars, TryBelow, TypeInv
  <2>2. /\ w'.ba = w.try - 1 /\ w'.limit = w.limit /\ w'.to = w.to /\ w'.start = w.start
        /\ w'.try = w.try - 1 /\ w'.tmp = w.tmp
    BY <1>0, <1>2, <2>1 DEF Writes
  <2>3. Live' = Live /\ FlashInv'
    BY <1>0, <2>1, SameFlash
  <2>4. TypeInv'
    <3>1. w' \in Writes
      BY <1>0, <1>2, <2>1, Arith, WriteTypes, TosMembers, TryType, Zenon
    <3> QED
      BY <1>0, <1>2, <2>1, <2>2, <3>1 DEF TypeInv, Thens
  <2>5. PlaceInv'
    BY <1>0, <1>2, <2>1, <2>2, <2>3
    DEF PlaceInv, RangeInv, Low, High, OneToOne, Above, OlderJobs
  <2>6. RangeInv'
    BY <1>0, <1>2, <2>1, <2>2, <2>3 DEF RangeInv, Low, High, PlaceInv, OlderJobs
  <2>7. LiveInv'
    BY <1>0, <1>2, <2>1, <2>2, <2>3
    DEF LiveInv, RangeInv, Low, High, Keep, Victim, NextErased, PlaceInv, Free
  <2>8. FrontInv'
    BY <1>0, <1>2, <2>1, <2>2, <2>3 DEF FrontInv, Front, RangeInv, High, Free, MainJobs
  <2>9. OrderInv'
    BY <1>0, <1>2, <2>1, <2>2, <2>3
    DEF OrderInv, LiveInv, Victim, NextErased, OlderJobs, Above
  <2>10. CacheInv'
    BY <1>0, <1>2, <2>1, <2>2, <2>3 DEF CacheInv, OrderInv, Older
  <2>11. KeptInv'
    BY <1>0, <1>2, <2>1, <2>2, <2>3
    DEF KeptInv, LiveInv, RangeInv, Keep, Victim, NextErased, OlderJobs
  <2>12. NotedInv'
    BY <1>0, <1>2, <2>1, <2>2, <2>3 DEF NotedInv, CacheInv
  <2> QED
    BY <2>3, <2>4, <2>5, <2>6, <2>7, <2>8, <2>9, <2>10, <2>11, <2>12 DEF Good
<1>3. CASE ~Written /\ w.try <= ni.mapb
  <2>1. /\ pc = "wrote_tmp" /\ pc' = "update"
        /\ UNCHANGED <<flash, phys, cache, kept, lone, w, op>>
        /\ ni' = [ni EXCEPT !.main = ni.backup, !.backup = NoTable]
    BY <1>0, <1>3 DEF WroteTmp, flashVars, histVars
  <2>2. /\ ni'.st = ni.st /\ ni'.map = ni.map /\ ni'.changed = ni.changed
        /\ ni'.count = ni.count /\ ni'.main = ni.backup /\ ni'.backup = NoTable
        /\ ni'.mapb = ni.mapb /\ ni'.top = ni.top /\ ni'.dbc = ni.dbc
        /\ ni'.protected = ni.protected
    BY <1>0, <1>3, <2>1 DEF Instances
  <2>3. Live' = Live /\ FlashInv'
    BY <1>0, <2>1, SameFlash
  <2>4. TypeInv'
    <3>1. ni' \in Instances
      BY <1>0, <1>3, <2>1, Arith, InstanceTypes, ProtectedType, Zenon
    <3> QED
      BY <1>0, <1>3, <2>1, <2>2, <3>1 DEF TypeInv, Thens
  <2>5. PlaceInv'
    BY <1>0, <1>3, <2>1, <2>2, <2>3
    DEF PlaceInv, RangeInv, Low, High, OneToOne, Above, OlderJobs
  <2>6. RangeInv'
    BY <1>0, <1>3, <2>1, <2>2, <2>3 DEF RangeInv, Low, High, PlaceInv, OlderJobs
  <2>7. LiveInv'
    BY <1>0, <1>3, <2>1, <2>2, <2>3
    DEF LiveInv, RangeInv, Low, High, Keep, Victim, NextErased, PlaceInv, Free
  <2>8. FrontInv'
    BY <1>0, <1>3, <2>1, <2>2, <2>3 DEF FrontInv, Front, RangeInv, High, Free, MainJobs
  <2>9. OrderInv'
    BY <1>0, <1>3, <2>1, <2>2, <2>3
    DEF OrderInv, LiveInv, Victim, NextErased, OlderJobs, Above
  <2>10. CacheInv'
    BY <1>0, <1>3, <2>1, <2>2, <2>3 DEF CacheInv, OrderInv, Older
  <2>11. KeptInv'
    BY <1>0, <1>3, <2>1, <2>2, <2>3
    DEF KeptInv, LiveInv, RangeInv, Keep, Victim, NextErased, OlderJobs
  <2>12. NotedInv'
    BY <1>0, <1>3, <2>1, <2>2, <2>3 DEF NotedInv, CacheInv
  <2> QED
    BY <2>3, <2>4, <2>5, <2>6, <2>7, <2>8, <2>9, <2>10, <2>11, <2>12 DEF Good
<1> QED
  BY <1>0, <1>1, <1>2, <1>3 DEF WroteTmp, TypeInv

LEMMA RescuedBehindStep ==
    ASSUME Good, RescuedBehind
    PROVE  Good'
<1> USE LiveBlocks
    DEF On, Writing, Done, Busy, Job, Calm, Behind, WriteJobs, RestPcs, NoTable, Written
<1>0. /\ TypeInv /\ FlashInv /\ PlaceInv /\ RangeInv /\ LiveInv /\ FrontInv
      /\ OrderInv /\ CacheInv /\ KeptInv /\ NotedInv
      /\ ni \in Instances /\ w \in Writes /\ op \in Ops
      /\ ni.main \in Nat /\ ni.backup \in Nat /\ ni.mapb \in Nat /\ ni.top \in Nat
      /\ ni.count \in Nat /\ w.ba \in Int /\ w.limit \in Nat /\ w.start \in Nat
      /\ w.try \in Int /\ w.tmp \in Nat
      /\ \A x \in Live : flash[x].count \in Nat
  BY Parts
<1>1. CASE Written
  <2>1. /\ pc = "rescued_behind" /\ pc' = "clear"
        /\ UNCHANGED <<flash, phys, cache, kept, lone, ni, op>>
        /\ w' = [w EXCEPT !.ba = ni.mapb, !.limit = w.start, !.to = "cleared_behind"]
    BY <1>0, <1>1 DEF RescuedBehind, flashVars, histVars, StartClear
  <2>2. /\ w'.ba = ni.mapb /\ w'.limit = w.start /\ w'.to = "cleared_behind"
        /\ w'.start = w.start /\ w'.try = w.try /\ w'.tmp = w.tmp
    BY <1>0, <1>1, <2>1 DEF Writes
  <2>3. Live' = Live /\ FlashInv'
    BY <1>0, <2>1, SameFlash
  <2>4. TypeInv'
    <3>1. w' \in Writes
      BY <1>0, <1>1, <2>1, Arith, WriteTypes, TosMembers, Zenon
    <3> QED
      BY <1>0, <1>1, <2>1, <2>2, <3>1 DEF TypeInv, Thens
  <2>5. PlaceInv'
    BY <1>0, <1>1, <2>1, <2>2, <2>3
    DEF PlaceInv, RangeInv, Low, High, OneToOne, Above, OlderJobs
  <2>6. RangeInv'
    BY <1>0, <1>1, <2>1, <2>2, <2>3 DEF RangeInv, Low, High, PlaceInv, OlderJobs
  <2>7. LiveInv'
    BY <1>0, <1>1, <2>1, <2>2, <2>3
    DEF LiveInv, RangeInv, Low, High, Keep, Victim, NextErased, PlaceInv, Free
  <2>8. FrontInv'
    BY <1>0, <1>1, <2>1, <2>2, <2>3 DEF FrontInv, Front, RangeInv, High, Free, MainJobs
  <2>9. OrderInv'
    BY <1>0, <1>1, <2>1, <2>2, <2>3
    DEF OrderInv, LiveInv, Victim, NextErased, OlderJobs, Above
  <2>10. CacheInv'
    BY <1>0, <1>1, <2>1, <2>2, <2>3 DEF CacheInv, OrderInv, Older
  <2>11. KeptInv'
    BY <1>0, <1>1, <2>1, <2>2, <2>3
    DEF KeptInv, LiveInv, RangeInv, Keep, Victim, NextErased, OlderJobs
  <2>12. NotedInv'
    BY <1>0, <1>1, <2>1, <2>2, <2>3 DEF NotedInv, CacheInv
  <2> QED
    BY <2>3, <2>4, <2>5, <2>6, <2>7, <2>8, <2>9, <2>10, <2>11, <2>12 DEF Good
<1>2. CASE ~Written /\ w.try > ni.mapb
  <2>1. /\ pc = "rescued_behind" /\ pc' = "erase_table"
        /\ UNCHANGED <<flash, phys, cache, kept, lone, ni, op>>
        /\ w' = [w EXCEPT !.ba = w.try - 1, !.try = @ - 1]
        /\ w.to = "rescued_behind"
    BY <1>0, <1>2 DEF RescuedBehind, flashVars, histVars, TryBelow, Attached, TypeInv
  <2>2. /\ w'.ba = w.try - 1 /\ w'.limit = w.limit /\ w'.to = w.to /\ w'.start = w.start
        /\ w'.try = w.try - 1 /\ w'.tmp = w.tmp
    BY <1>0, <1>2, <2>1 DEF Writes
  <2>3. Live' = Live /\ FlashInv'
    BY <1>0, <2>1, SameFlash
  <2>4. TypeInv'
    <3>1. w' \in Writes
      BY <1>0, <1>2, <2>1, Arith, WriteTypes, TosMembers, TryType, Zenon
    <3> QED
      BY <1>0, <1>2, <2>1, <2>2, <3>1 DEF TypeInv, Thens
  <2>5. PlaceInv'
    BY <1>0, <1>2, <2>1, <2>2, <2>3
    DEF PlaceInv, RangeInv, Low, High, OneToOne, Above, OlderJobs
  <2>6. RangeInv'
    BY <1>0, <1>2, <2>1, <2>2, <2>3 DEF RangeInv, Low, High, PlaceInv, OlderJobs
  <2>7. LiveInv'
    BY <1>0, <1>2, <2>1, <2>2, <2>3
    DEF LiveInv, RangeInv, Low, High, Keep, Victim, NextErased, PlaceInv, Free
  <2>8. FrontInv'
    BY <1>0, <1>2, <2>1, <2>2, <2>3 DEF FrontInv, Front, RangeInv, High, Free, MainJobs
  <2>9. OrderInv'
    BY <1>0, <1>2, <2>1, <2>2, <2>3
    DEF OrderInv, LiveInv, Victim, NextErased, OlderJobs, Above
  <2>10. CacheInv'
    BY <1>0, <1>2, <2>1, <2>2, <2>3 DEF CacheInv, OrderInv, Older
  <2>11. KeptInv'
    BY <1>0, <1>2, <2>1, <2>2, <2>3
    DEF KeptInv, LiveInv, RangeInv, Keep, Victim, NextErased, OlderJobs
  <2>12. NotedInv'
    BY <1>0, <1>2, <2>1, <2>2, <2>3 DEF NotedInv, CacheInv
  <2> QED
    BY <2>3, <2>4, <2>5, <2>6, <2>7, <2>8, <2>9, <2>10, <2>11, <2>12 DEF Good
<1>3. CASE ~Written /\ w.try <= ni.mapb
  <2>1. /\ pc = "rescued_behind" /\ pc' = "idle"
        /\ UNCHANGED <<flash, phys, cache, kept, lone, op>>
        /\ ni' = [ni EXCEPT !.protected = ni.mapb = ni.top \/ ~FALSE]
        /\ w' = NoWrite
    BY <1>0, <1>3 DEF RescuedBehind, flashVars, histVars, Attached
  <2>2. /\ ni'.st = ni.st /\ ni'.map = ni.map /\ ni'.changed = ni.changed
        /\ ni'.count = ni.count /\ ni'.main = ni.main /\ ni'.backup = ni.backup
        /\ ni'.mapb = ni.mapb /\ ni'.top = ni.top /\ ni'.dbc = ni.dbc
        /\ ni'.protected = TRUE
    BY <1>0, <1>3, <2>1 DEF Instances, Writes
  <2>3. Live' = Live /\ FlashInv'
    BY <1>0, <2>1, SameFlash
  <2>4. TypeInv'
    <3>1. ni' \in Instances
      BY <1>0, <1>3, <2>1, Arith, InstanceTypes, ProtectedType, Zenon
    <3>2. w' \in Writes
      BY <1>0, <1>3, <2>1, Arith, WriteTypes, TosMembers, Zenon
    <3> QED
      BY <1>0, <1>3, <2>1, <2>2, <3>1, <3>2 DEF TypeInv, Thens
  <2>5. PlaceInv'
    BY <1>0, <1>3, <2>1, <2>2, <2>3
    DEF PlaceInv, RangeInv, Low, High, OneToOne, Above, OlderJobs
  <2>6. RangeInv'
    BY <1>0, <1>3, <2>1, <2>2, <2>3 DEF RangeInv, Low, High, PlaceInv, OlderJobs
  <2>7. LiveInv'
    BY <1>0, <1>3, <2>1, <2>2, <2>3
    DEF LiveInv, RangeInv, Low, High, Keep, Victim, NextErased, PlaceInv, Free
  <2>8. FrontInv'
    BY <1>0, <1>3, <2>1, <2>2, <2>3 DEF FrontInv, Front, RangeInv, High, Free, MainJobs
  <2>9. OrderInv'
    BY <1>0, <1>3, <2>1, <2>2, <2>3
    DEF OrderInv, LiveInv, Victim, NextErased, OlderJobs, Above
  <2>10. CacheInv'
    BY <1>0, <1>3, <2>1, <2>2, <2>3 DEF CacheInv, OrderInv, Older
  <2>11. KeptInv'
    BY <1>0, <1>3, <2>1, <2>2, <2>3
    DEF KeptInv, LiveInv, RangeInv, Keep, Victim, NextErased, OlderJobs
  <2>12. NotedInv'
    BY <1>0, <1>3, <2>1, <2>2, <2>3 DEF NotedInv, CacheInv
  <2> QED
    BY <2>3, <2>4, <2>5, <2>6, <2>7, <2>8, <2>9, <2>10, <2>11, <2>12 DEF Good
<1> QED
  BY <1>0, <1>1, <1>2, <1>3 DEF RescuedBehind, TypeInv

LEMMA RescuedFrontStep ==
    ASSUME Good, RescuedFront
    PROVE  Good'
<1> USE LiveBlocks
    DEF On, Writing, Done, Busy, Job, Calm, Behind, WriteJobs, RestPcs, NoTable, Written
<1>0. /\ TypeInv /\ FlashInv /\ PlaceInv /\ RangeInv /\ LiveInv /\ FrontInv
      /\ OrderInv /\ CacheInv /\ KeptInv /\ NotedInv
      /\ ni \in Instances /\ w \in Writes /\ op \in Ops
      /\ ni.main \in Nat /\ ni.backup \in Nat /\ ni.mapb \in Nat /\ ni.top \in Nat
      /\ ni.count \in Nat /\ w.ba \in Int /\ w.limit \in Nat /\ w.start \in Nat
      /\ w.try \in Int /\ w.tmp \in Nat
      /\ \A x \in Live : flash[x].count \in Nat
  BY Parts
<1>1. CASE Written
  <2>1. /\ pc = "rescued_front" /\ pc' = "clear"
        /\ UNCHANGED <<flash, phys, cache, kept, lone, op>>
        /\ ni' = Clean([ni EXCEPT !.backup = ni.main, !.main = w.start])
        /\ w' = [w EXCEPT !.ba = w.start + 1, !.limit = ni.main, !.to = "rescued"]
    BY <1>0, <1>1 DEF RescuedFront, flashVars, histVars, StartClear
  <2>2. /\ ni'.st = ni.st /\ ni'.map = ni.map /\ ni'.changed = FALSE
        /\ ni'.count = ni.count /\ ni'.main = w.start /\ ni'.backup = ni.main
        /\ ni'.mapb = ni.mapb /\ ni'.top = ni.top /\ ni'.dbc = ni.dbc
        /\ ni'.protected = ni.protected /\ w'.ba = w.start + 1 /\ w'.limit = ni.main
        /\ w'.to = "rescued" /\ w'.start = w.start /\ w'.try = w.try /\ w'.tmp = w.tmp
    BY <1>0, <1>1, <2>1 DEF Instances, Writes, Clean
  <2>3. Live' = Live /\ FlashInv'
    BY <1>0, <2>1, SameFlash
  <2>4. TypeInv'
    <3>1. ni' \in Instances
      BY <1>0, <1>1, <2>1, Arith, InstanceTypes, ProtectedType, Zenon
    <3>2. w' \in Writes
      BY <1>0, <1>1, <2>1, Arith, WriteTypes, TosMembers, Zenon
    <3> QED
      BY <1>0, <1>1, <2>1, <2>2, <3>1, <3>2 DEF TypeInv, Thens
  <2>5. PlaceInv'
    BY <1>0, <1>1, <2>1, <2>2, <2>3
    DEF PlaceInv, RangeInv, Low, High, OneToOne, Above, OlderJobs
  <2>6. RangeInv'
    BY <1>0, <1>1, <2>1, <2>2, <2>3 DEF RangeInv, Low, High, PlaceInv, OlderJobs
  <2>7. LiveInv'
    BY <1>0, <1>1, <2>1, <2>2, <2>3
    DEF LiveInv, RangeInv, Low, High, Keep, Victim, NextErased, PlaceInv, Free
  <2>8. FrontInv'
    BY <1>0, <1>1, <2>1, <2>2, <2>3 DEF FrontInv, Front, RangeInv, High, Free, MainJobs
  <2>9. OrderInv'
    BY <1>0, <1>1, <2>1, <2>2, <2>3
    DEF OrderInv, LiveInv, Victim, NextErased, OlderJobs, Above
  <2>10. CacheInv'
    BY <1>0, <1>1, <2>1, <2>2, <2>3 DEF CacheInv, OrderInv, Older
  <2>11. KeptInv'
    BY <1>0, <1>1, <2>1, <2>2, <2>3
    DEF KeptInv, LiveInv, RangeInv, Keep, Victim, NextErased, OlderJobs
  <2>12. NotedInv'
    BY <1>0, <1>1, <2>1, <2>2, <2>3 DEF NotedInv, CacheInv
  <2> QED
    BY <2>3, <2>4, <2>5, <2>6, <2>7, <2>8, <2>9, <2>10, <2>11, <2>12 DEF Good
<1>2. CASE ~Written /\ Reserved(ni, ni.mapb, ni.top - 1) = {}
  <2>1. /\ pc = "rescued_front" /\ pc' = "idle"
        /\ UNCHANGED <<flash, phys, cache, kept, lone, op>>
        /\ ni' = [ni EXCEPT !.protected = ni.mapb = ni.top \/ ~FALSE]
        /\ w' = NoWrite
    BY <1>0, <1>2 DEF RescuedFront, flashVars, histVars, Attached
  <2>2. /\ ni'.st = ni.st /\ ni'.map = ni.map /\ ni'.changed = ni.changed
        /\ ni'.count = ni.count /\ ni'.main = ni.main /\ ni'.backup = ni.backup
        /\ ni'.mapb = ni.mapb /\ ni'.top = ni.top /\ ni'.dbc = ni.dbc
        /\ ni'.protected = TRUE
    BY <1>0, <1>2, <2>1 DEF Instances, Writes
  <2>3. Live' = Live /\ FlashInv'
    BY <1>0, <2>1, SameFlash
  <2>4. TypeInv'
    <3>1. ni' \in Instances
      BY <1>0, <1>2, <2>1, Arith, InstanceTypes, ProtectedType, Zenon
    <3>2. w' \in Writes
      BY <1>0, <1>2, <2>1, Arith, WriteTypes, TosMembers, Zenon
    <3> QED
      BY <1>0, <1>2, <2>1, <2>2, <3>1, <3>2 DEF TypeInv, Thens
  <2>5. PlaceInv'
    BY <1>0, <1>2, <2>1, <2>2, <2>3
    DEF PlaceInv, RangeInv, Low, High, OneToOne, Above, OlderJobs
  <2>6. RangeInv'
    BY <1>0, <1>2, <2>1, <2>2, <2>3 DEF RangeInv, Low, High, PlaceInv, OlderJobs
  <2>7. LiveInv'
    BY <1>0, <1>2, <2>1, <2>2, <2>3
    DEF LiveInv, RangeInv, Low, High, Keep, Victim, NextErased, PlaceInv, Free
  <2>8. FrontInv'
    BY <1>0, <1>2, <2>1, <2>2, <2>3 DEF FrontInv, Front, RangeInv, High, Free, MainJobs
  <2>9. OrderInv'
    BY <1>0, <1>2, <2>1, <2>2, <2>3
    DEF OrderInv, LiveInv, Victim, NextErased, OlderJobs, Above
  <2>10. CacheInv'
    BY <1>0, <1>2, <2>1, <2>2, <2>3 DEF CacheInv, OrderInv, Older
  <2>11. KeptInv'
    BY <1>0, <1>2, <2>1, <2>2, <2>3
    DEF KeptInv, LiveInv, RangeInv, Keep, Victim, NextErased, OlderJobs
  <2>12. NotedInv'
    BY <1>0, <1>2, <2>1, <2>2, <2>3 DEF NotedInv, CacheInv
  <2> QED
    BY <2>3, <2>4, <2>5, <2>6, <2>7, <2>8, <2>9, <2>10, <2>11, <2>12 DEF Good
<1>3. CASE ~Written /\ Reserved(ni, ni.mapb, ni.top - 1) # {}
  <2> DEFINE b == Min(Reserved(ni, ni.mapb, ni.top - 1))
  <2>a. ni.mapb \in Nat /\ ni.top - 1 \in Nat /\ ni.top - 1 <= SignatureBa
    BY <1>0, <1>3 DEF RescuedFront, PlaceInv, RangeInv, High
  <2>b. b \in Nat /\ b \in Int /\ ni.mapb <= b /\ b < ni.top - 1
    BY <1>0, <1>3, <2>a, ReservedBlock
  <2>1. /\ pc = "rescued_front" /\ pc' = "erase_table"
        /\ UNCHANGED <<flash, phys, cache, kept, lone, ni, op>>
        /\ w' = [w EXCEPT !.ba = b, !.limit = ni.top, !.to = "rescued_behind", !.try = b]
        /\ ni.mapb <= b
        /\ b \in Nat
        /\ b \in Int
        /\ b < ni.top
    BY <1>0, <1>3, <2>a, <2>b DEF RescuedFront, flashVars, histVars, Attached
  <2> HIDE DEF b
  <2>2. /\ w'.ba = b /\ w'.limit = ni.top /\ w'.to = "rescued_behind" /\ w'.start = w.start
        /\ w'.try = b /\ w'.tmp = w.tmp
    BY <1>0, <1>3, <2>1 DEF Writes
  <2>3. Live' = Live /\ FlashInv'
    BY <1>0, <2>1, SameFlash
  <2>4. TypeInv'
    <3>1. w' \in Writes
      BY <1>0, <1>3, <2>1, Arith, WriteTypes, TosMembers, Zenon
    <3> QED
      BY <1>0, <1>3, <2>1, <2>2, <3>1 DEF TypeInv, Thens
  <2>5. PlaceInv'
    BY <1>0, <1>3, <2>1, <2>2, <2>3
    DEF PlaceInv, RangeInv, Low, High, OneToOne, Above, OlderJobs
  <2>6. RangeInv'
    BY <1>0, <1>3, <2>1, <2>2, <2>3 DEF RangeInv, Low, High, PlaceInv, OlderJobs
  <2>7. LiveInv'
    BY <1>0, <1>3, <2>1, <2>2, <2>3
    DEF LiveInv, RangeInv, Low, High, Keep, Victim, NextErased, PlaceInv, Free
  <2>8. FrontInv'
    BY <1>0, <1>3, <2>1, <2>2, <2>3 DEF FrontInv, Front, RangeInv, High, Free, MainJobs
  <2>9. OrderInv'
    BY <1>0, <1>3, <2>1, <2>2, <2>3
    DEF OrderInv, LiveInv, Victim, NextErased, OlderJobs, Above
  <2>10. CacheInv'
    BY <1>0, <1>3, <2>1, <2>2, <2>3 DEF CacheInv, OrderInv, Older
  <2>11. KeptInv'
    BY <1>0, <1>3, <2>1, <2>2, <2>3
    DEF KeptInv, LiveInv, RangeInv, Keep, Victim, NextErased, OlderJobs
  <2>12. NotedInv'
    BY <1>0, <1>3, <2>1, <2>2, <2>3 DEF NotedInv, CacheInv
  <2> QED
    BY <2>3, <2>4, <2>5, <2>6, <2>7, <2>8, <2>9, <2>10, <2>11, <2>12 DEF Good
<1> QED
  BY <1>0, <1>1, <1>2, <1>3 DEF RescuedFront, TypeInv

LEMMA RescuedStep ==
    ASSUME Good, Rescued
    PROVE  Good'
<1> USE LiveBlocks
    DEF On, Writing, Done, Busy, Job, Calm, Behind, WriteJobs, RestPcs, NoTable, Written
<1>0. /\ TypeInv /\ FlashInv /\ PlaceInv /\ RangeInv /\ LiveInv /\ FrontInv
      /\ OrderInv /\ CacheInv /\ KeptInv /\ NotedInv
      /\ ni \in Instances /\ w \in Writes /\ op \in Ops
      /\ ni.main \in Nat /\ ni.backup \in Nat /\ ni.mapb \in Nat /\ ni.top \in Nat
      /\ ni.count \in Nat /\ w.ba \in Int /\ w.limit \in Nat /\ w.start \in Nat
      /\ w.try \in Int /\ w.tmp \in Nat
      /\ \A x \in Live : flash[x].count \in Nat
  BY Parts
<1>1. /\ pc = "rescued" /\ pc' = "idle"
      /\ UNCHANGED <<flash, phys, cache, kept, lone, op>>
      /\ ni' = [ni EXCEPT !.protected = ni.mapb = ni.top \/ ~TRUE]
      /\ w' = NoWrite
  BY <1>0 DEF Rescued, flashVars, histVars, Attached
<1>2. /\ ni'.st = ni.st /\ ni'.map = ni.map /\ ni'.changed = ni.changed
      /\ ni'.count = ni.count /\ ni'.main = ni.main /\ ni'.backup = ni.backup
      /\ ni'.mapb = ni.mapb /\ ni'.top = ni.top /\ ni'.dbc = ni.dbc
  BY <1>0, <1>1 DEF Instances, Writes
<1>3. Live' = Live /\ FlashInv'
  BY <1>0, <1>1, SameFlash
<1>4. TypeInv'
  <2>1. ni' \in Instances
    BY <1>0, <1>1, Arith, InstanceTypes, ProtectedType, Zenon
  <2>2. w' \in Writes
    BY <1>0, <1>1, Arith, WriteTypes, TosMembers, Zenon
  <2> QED
    BY <1>0, <1>1, <1>2, <2>1, <2>2 DEF TypeInv, Thens
<1>5. PlaceInv'
  BY <1>0, <1>1, <1>2, <1>3 DEF PlaceInv, RangeInv, Low, High, OneToOne, Above, OlderJobs
<1>6. RangeInv'
  BY <1>0, <1>1, <1>2, <1>3 DEF RangeInv, Low, High, PlaceInv, OlderJobs
<1>7. LiveInv'
  BY <1>0, <1>1, <1>2, <1>3
  DEF LiveInv, RangeInv, Low, High, Keep, Victim, NextErased, PlaceInv, Free
<1>8. FrontInv'
  BY <1>0, <1>1, <1>2, <1>3 DEF FrontInv, Front, RangeInv, High, Free, MainJobs
<1>9. OrderInv'
  BY <1>0, <1>1, <1>2, <1>3 DEF OrderInv, LiveInv, Victim, NextErased, OlderJobs, Above
<1>10. CacheInv'
  BY <1>0, <1>1, <1>2, <1>3 DEF CacheInv, OrderInv, Older
<1>11. KeptInv'
  BY <1>0, <1>1, <1>2, <1>3
  DEF KeptInv, LiveInv, RangeInv, Keep, Victim, NextErased, OlderJobs
<1>12. NotedInv'
  BY <1>0, <1>1, <1>2, <1>3 DEF NotedInv, CacheInv
<1> QED
  BY <1>3, <1>4, <1>5, <1>6, <1>7, <1>8, <1>9, <1>10, <1>11, <1>12 DEF Good

LEMMA ClearedBehindStep ==
    ASSUME Good, ClearedBehind
    PROVE  Good'
<1> USE LiveBlocks
    DEF On, Writing, Done, Busy, Job, Calm, Behind, WriteJobs, RestPcs, NoTable, Written
<1>0. /\ TypeInv /\ FlashInv /\ PlaceInv /\ RangeInv /\ LiveInv /\ FrontInv
      /\ OrderInv /\ CacheInv /\ KeptInv /\ NotedInv
      /\ ni \in Instances /\ w \in Writes /\ op \in Ops
      /\ ni.main \in Nat /\ ni.backup \in Nat /\ ni.mapb \in Nat /\ ni.top \in Nat
      /\ ni.count \in Nat /\ w.ba \in Int /\ w.limit \in Nat /\ w.start \in Nat
      /\ w.try \in Int /\ w.tmp \in Nat
      /\ \A x \in Live : flash[x].count \in Nat
  BY Parts
<1>1. /\ pc = "cleared_behind" /\ pc' = "idle"
      /\ UNCHANGED <<flash, phys, cache, kept, lone, op>>
      /\ ni' = [Clean([ni EXCEPT !.backup = w.start, !.mapb = w.start + 1]) EXCEPT
                    !.protected =
                      \/ Clean([ni EXCEPT !.backup = w.start, !.mapb = w.start + 1]).mapb
                           = Clean([ni EXCEPT !.backup = w.start, !.mapb = w.start + 1]).top
                      \/ ~TRUE]
      /\ w' = NoWrite
  BY <1>0 DEF ClearedBehind, flashVars, histVars, Attached
<1>2. /\ ni'.st = ni.st /\ ni'.map = ni.map /\ ni'.changed = FALSE
      /\ ni'.count = ni.count /\ ni'.main = ni.main /\ ni'.backup = w.start
      /\ ni'.mapb = w.start + 1 /\ ni'.top = ni.top /\ ni'.dbc = ni.dbc
  BY <1>0, <1>1 DEF Instances, Writes, Clean, Clean
<1>3. Live' = Live /\ FlashInv'
  BY <1>0, <1>1, SameFlash
<1>4. TypeInv'
  <2>1. ni' \in Instances
    BY <1>0, <1>1, Arith, InstanceTypes, ProtectedType, Zenon
  <2>2. w' \in Writes
    BY <1>0, <1>1, Arith, WriteTypes, TosMembers, Zenon
  <2> QED
    BY <1>0, <1>1, <1>2, <2>1, <2>2 DEF TypeInv, Thens
<1>5. PlaceInv'
  BY <1>0, <1>1, <1>2, <1>3 DEF PlaceInv, RangeInv, Low, High, OneToOne, Above, OlderJobs
<1>6. RangeInv'
  BY <1>0, <1>1, <1>2, <1>3 DEF RangeInv, Low, High, PlaceInv, OlderJobs
<1>7. LiveInv'
  BY <1>0, <1>1, <1>2, <1>3
  DEF LiveInv, RangeInv, Low, High, Keep, Victim, NextErased, PlaceInv, Free
<1>8. FrontInv'
  BY <1>0, <1>1, <1>2, <1>3 DEF FrontInv, Front, RangeInv, High, Free, MainJobs
<1>9. OrderInv'
  BY <1>0, <1>1, <1>2, <1>3 DEF OrderInv, LiveInv, Victim, NextErased, OlderJobs, Above
<1>10. CacheInv'
  BY <1>0, <1>1, <1>2, <1>3 DEF CacheInv, OrderInv, Older
<1>11. KeptInv'
  BY <1>0, <1>1, <1>2, <1>3
  DEF KeptInv, LiveInv, RangeInv, Keep, Victim, NextErased, OlderJobs
<1>12. NotedInv'
  BY <1>0, <1>1, <1>2, <1>3 DEF NotedInv, CacheInv
<1> QED
  BY <1>3, <1>4, <1>5, <1>6, <1>7, <1>8, <1>9, <1>10, <1>11, <1>12 DEF Good

LEMMA UpdatedOlderMainStep ==
    ASSUME Good, UpdatedOlderMain
    PROVE  Good'
<1> USE LiveBlocks
    DEF On, Writing, Done, Busy, Job, Calm, Behind, WriteJobs, RestPcs, NoTable, Written
<1>0. /\ TypeInv /\ FlashInv /\ PlaceInv /\ RangeInv /\ LiveInv /\ FrontInv
      /\ OrderInv /\ CacheInv /\ KeptInv /\ NotedInv
      /\ ni \in Instances /\ w \in Writes /\ op \in Ops
      /\ ni.main \in Nat /\ ni.backup \in Nat /\ ni.mapb \in Nat /\ ni.top \in Nat
      /\ ni.count \in Nat /\ w.ba \in Int /\ w.limit \in Nat /\ w.start \in Nat
      /\ w.try \in Int /\ w.tmp \in Nat
      /\ \A x \in Live : flash[x].count \in Nat
  BY Parts
<1>1. CASE Written
  <2>1. /\ pc = "updated_older_main" /\ pc' = "idle"
        /\ UNCHANGED <<flash, phys, cache, kept, lone, op>>
        /\ ni' = [Clean([ni EXCEPT !.main = w.start]) EXCEPT
                    !.protected = \/ Clean([ni EXCEPT !.main = w.start]).mapb =
                                       Clean([ni EXCEPT !.main = w.start]).top
                                  \/ ~TRUE]
        /\ w' = NoWrite
    BY <1>0, <1>1 DEF UpdatedOlderMain, flashVars, histVars, Attached
  <2>2. /\ ni'.st = ni.st /\ ni'.map = ni.map /\ ni'.changed = FALSE
        /\ ni'.count = ni.count /\ ni'.main = w.start /\ ni'.backup = ni.backup
        /\ ni'.mapb = ni.mapb /\ ni'.top = ni.top /\ ni'.dbc = ni.dbc
    BY <1>0, <1>1, <2>1 DEF Instances, Writes, Clean, Clean
  <2>3. Live' = Live /\ FlashInv'
    BY <1>0, <2>1, SameFlash
  <2>4. TypeInv'
    <3>1. ni' \in Instances
      BY <1>0, <1>1, <2>1, Arith, InstanceTypes, ProtectedType, Zenon
    <3>2. w' \in Writes
      BY <1>0, <1>1, <2>1, Arith, WriteTypes, TosMembers, Zenon
    <3> QED
      BY <1>0, <1>1, <2>1, <2>2, <3>1, <3>2 DEF TypeInv, Thens
  <2>5. PlaceInv'
    BY <1>0, <1>1, <2>1, <2>2, <2>3
    DEF PlaceInv, RangeInv, Low, High, OneToOne, Above, OlderJobs
  <2>6. RangeInv'
    BY <1>0, <1>1, <2>1, <2>2, <2>3 DEF RangeInv, Low, High, PlaceInv, OlderJobs
  <2>7. LiveInv'
    BY <1>0, <1>1, <2>1, <2>2, <2>3
    DEF LiveInv, RangeInv, Low, High, Keep, Victim, NextErased, PlaceInv, Free
  <2>8. FrontInv'
    BY <1>0, <1>1, <2>1, <2>2, <2>3 DEF FrontInv, Front, RangeInv, High, Free, MainJobs
  <2>9. OrderInv'
    BY <1>0, <1>1, <2>1, <2>2, <2>3
    DEF OrderInv, LiveInv, Victim, NextErased, OlderJobs, Above
  <2>10. CacheInv'
    BY <1>0, <1>1, <2>1, <2>2, <2>3 DEF CacheInv, OrderInv, Older
  <2>11. KeptInv'
    BY <1>0, <1>1, <2>1, <2>2, <2>3
    DEF KeptInv, LiveInv, RangeInv, Keep, Victim, NextErased, OlderJobs
  <2>12. NotedInv'
    BY <1>0, <1>1, <2>1, <2>2, <2>3 DEF NotedInv, CacheInv
  <2> QED
    BY <2>3, <2>4, <2>5, <2>6, <2>7, <2>8, <2>9, <2>10, <2>11, <2>12 DEF Good
<1>2. CASE ~Written
  <2>1. /\ pc = "updated_older_main" /\ pc' = "erase_table"
        /\ UNCHANGED <<flash, phys, cache, kept, lone, op>>
        /\ ni' = [ni EXCEPT !.main = ni.backup, !.backup = NoTable]
        /\ w' = [w EXCEPT !.ba = DataBlocks, !.limit = ni.backup, !.to = "rescued_front"]
    BY <1>0, <1>2 DEF UpdatedOlderMain, flashVars, histVars, StartRescue, StartWrite
  <2>2. /\ ni'.st = ni.st /\ ni'.map = ni.map /\ ni'.changed = ni.changed
        /\ ni'.count = ni.count /\ ni'.main = ni.backup /\ ni'.backup = NoTable
        /\ ni'.mapb = ni.mapb /\ ni'.top = ni.top /\ ni'.dbc = ni.dbc
        /\ ni'.protected = ni.protected /\ w'.ba = DataBlocks /\ w'.limit = ni.backup
        /\ w'.to = "rescued_front" /\ w'.start = w.start /\ w'.try = w.try
        /\ w'.tmp = w.tmp
    BY <1>0, <1>2, <2>1 DEF Instances, Writes
  <2>3. Live' = Live /\ FlashInv'
    BY <1>0, <2>1, SameFlash
  <2>4. TypeInv'
    <3>1. ni' \in Instances
      BY <1>0, <1>2, <2>1, Arith, InstanceTypes, ProtectedType, Zenon
    <3>2. w' \in Writes
      BY <1>0, <1>2, <2>1, Arith, WriteTypes, TosMembers, Zenon
    <3> QED
      BY <1>0, <1>2, <2>1, <2>2, <3>1, <3>2 DEF TypeInv, Thens
  <2>5. PlaceInv'
    BY <1>0, <1>2, <2>1, <2>2, <2>3
    DEF PlaceInv, RangeInv, Low, High, OneToOne, Above, OlderJobs
  <2>6. RangeInv'
    BY <1>0, <1>2, <2>1, <2>2, <2>3 DEF RangeInv, Low, High, PlaceInv, OlderJobs
  <2>7. LiveInv'
    BY <1>0, <1>2, <2>1, <2>2, <2>3
    DEF LiveInv, RangeInv, Low, High, Keep, Victim, NextErased, PlaceInv, Free
  <2>8. FrontInv'
    BY <1>0, <1>2, <2>1, <2>2, <2>3 DEF FrontInv, Front, RangeInv, High, Free, MainJobs
  <2>9. OrderInv'
    BY <1>0, <1>2, <2>1, <2>2, <2>3
    DEF OrderInv, LiveInv, Victim, NextErased, OlderJobs, Above
  <2>10. CacheInv'
    BY <1>0, <1>2, <2>1, <2>2, <2>3 DEF CacheInv, OrderInv, Older
  <2>11. KeptInv'
    BY <1>0, <1>2, <2>1, <2>2, <2>3
    DEF KeptInv, LiveInv, RangeInv, Keep, Victim, NextErased, OlderJobs
  <2>12. NotedInv'
    BY <1>0, <1>2, <2>1, <2>2, <2>3 DEF NotedInv, CacheInv
  <2> QED
    BY <2>3, <2>4, <2>5, <2>6, <2>7, <2>8, <2>9, <2>10, <2>11, <2>12 DEF Good
<1> QED
  BY <1>0, <1>1, <1>2 DEF UpdatedOlderMain, TypeInv

LEMMA UpdatedOlderBackupStep ==
    ASSUME Good, UpdatedOlderBackup
    PROVE  Good'
<1> USE LiveBlocks
    DEF On, Writing, Done, Busy, Job, Calm, Behind, WriteJobs, RestPcs, NoTable, Written
<1>0. /\ TypeInv /\ FlashInv /\ PlaceInv /\ RangeInv /\ LiveInv /\ FrontInv
      /\ OrderInv /\ CacheInv /\ KeptInv /\ NotedInv
      /\ ni \in Instances /\ w \in Writes /\ op \in Ops
      /\ ni.main \in Nat /\ ni.backup \in Nat /\ ni.mapb \in Nat /\ ni.top \in Nat
      /\ ni.count \in Nat /\ w.ba \in Int /\ w.limit \in Nat /\ w.start \in Nat
      /\ w.try \in Int /\ w.tmp \in Nat
      /\ \A x \in Live : flash[x].count \in Nat
  BY Parts
<1>1. CASE Written
  <2>1. /\ pc = "updated_older_backup" /\ pc' = "idle"
        /\ UNCHANGED <<flash, phys, cache, kept, lone, op>>
        /\ ni' = [Clean([ni EXCEPT !.backup = w.start, !.mapb = w.start + 1]) EXCEPT
                      !.protected =
                        \/ Clean([ni EXCEPT !.backup = w.start, !.mapb = w.start + 1]).mapb
                             = Clean([ni EXCEPT !.backup = w.start, !.mapb = w.start + 1]).top
                        \/ ~TRUE]
        /\ w' = NoWrite
    BY <1>0, <1>1 DEF UpdatedOlderBackup, flashVars, histVars, Attached
  <2>2. /\ ni'.st = ni.st /\ ni'.map = ni.map /\ ni'.changed = FALSE
        /\ ni'.count = ni.count /\ ni'.main = ni.main /\ ni'.backup = w.start
        /\ ni'.mapb = w.start + 1 /\ ni'.top = ni.top /\ ni'.dbc = ni.dbc
    BY <1>0, <1>1, <2>1 DEF Instances, Writes, Clean, Clean
  <2>3. Live' = Live /\ FlashInv'
    BY <1>0, <2>1, SameFlash
  <2>4. TypeInv'
    <3>1. ni' \in Instances
      BY <1>0, <1>1, <2>1, Arith, InstanceTypes, ProtectedType, Zenon
    <3>2. w' \in Writes
      BY <1>0, <1>1, <2>1, Arith, WriteTypes, TosMembers, Zenon
    <3> QED
      BY <1>0, <1>1, <2>1, <2>2, <3>1, <3>2 DEF TypeInv, Thens
  <2>5. PlaceInv'
    BY <1>0, <1>1, <2>1, <2>2, <2>3
    DEF PlaceInv, RangeInv, Low, High, OneToOne, Above, OlderJobs
  <2>6. RangeInv'
    BY <1>0, <1>1, <2>1, <2>2, <2>3 DEF RangeInv, Low, High, PlaceInv, OlderJobs
  <2>7. LiveInv'
    BY <1>0, <1>1, <2>1, <2>2, <2>3
    DEF LiveInv, RangeInv, Low, High, Keep, Victim, NextErased, PlaceInv, Free
  <2>8. FrontInv'
    BY <1>0, <1>1, <2>1, <2>2, <2>3 DEF FrontInv, Front, RangeInv, High, Free, MainJobs
  <2>9. OrderInv'
    BY <1>0, <1>1, <2>1, <2>2, <2>3
    DEF OrderInv, LiveInv, Victim, NextErased, OlderJobs, Above
  <2>10. CacheInv'
    BY <1>0, <1>1, <2>1, <2>2, <2>3 DEF CacheInv, OrderInv, Older
  <2>11. KeptInv'
    BY <1>0, <1>1, <2>1, <2>2, <2>3
    DEF KeptInv, LiveInv, RangeInv, Keep, Victim, NextErased, OlderJobs
  <2>12. NotedInv'
    BY <1>0, <1>1, <2>1, <2>2, <2>3 DEF NotedInv, CacheInv
  <2> QED
    BY <2>3, <2>4, <2>5, <2>6, <2>7, <2>8, <2>9, <2>10, <2>11, <2>12 DEF Good
<1>2. CASE ~Written
  <2>1. /\ pc = "updated_older_backup" /\ pc' = "idle"
        /\ UNCHANGED <<flash, phys, cache, kept, lone, op>>
        /\ ni' = [[ni EXCEPT !.mapb = ni.backup, !.backup = NoTable] EXCEPT
                      !.protected =
                        \/ [ni EXCEPT !.mapb = ni.backup, !.backup = NoTable].mapb
                             = [ni EXCEPT !.mapb = ni.backup, !.backup = NoTable].top
                        \/ ~FALSE]
        /\ w' = NoWrite
    BY <1>0, <1>2 DEF UpdatedOlderBackup, flashVars, histVars, Attached
  <2>2. /\ ni'.st = ni.st /\ ni'.map = ni.map /\ ni'.changed = ni.changed
        /\ ni'.count = ni.count /\ ni'.main = ni.main /\ ni'.backup = NoTable
        /\ ni'.mapb = ni.backup /\ ni'.top = ni.top /\ ni'.dbc = ni.dbc
    BY <1>0, <1>2, <2>1 DEF Instances, Writes
  <2>3. Live' = Live /\ FlashInv'
    BY <1>0, <2>1, SameFlash
  <2>4. TypeInv'
    <3>1. ni' \in Instances
      BY <1>0, <1>2, <2>1, Arith, InstanceTypes, ProtectedType, Zenon
    <3>2. w' \in Writes
      BY <1>0, <1>2, <2>1, Arith, WriteTypes, TosMembers, Zenon
    <3> QED
      BY <1>0, <1>2, <2>1, <2>2, <3>1, <3>2 DEF TypeInv, Thens
  <2>5. PlaceInv'
    BY <1>0, <1>2, <2>1, <2>2, <2>3
    DEF PlaceInv, RangeInv, Low, High, OneToOne, Above, OlderJobs
  <2>6. RangeInv'
    BY <1>0, <1>2, <2>1, <2>2, <2>3 DEF RangeInv, Low, High, PlaceInv, OlderJobs
  <2>7. LiveInv'
    BY <1>0, <1>2, <2>1, <2>2, <2>3
    DEF LiveInv, RangeInv, Low, High, Keep, Victim, NextErased, PlaceInv, Free
  <2>8. FrontInv'
    BY <1>0, <1>2, <2>1, <2>2, <2>3 DEF FrontInv, Front, RangeInv, High, Free, MainJobs
  <2>9. OrderInv'
    BY <1>0, <1>2, <2>1, <2>2, <2>3
    DEF OrderInv, LiveInv, Victim, NextErased, OlderJobs, Above
  <2>10. CacheInv'
    BY <1>0, <1>2, <2>1, <2>2, <2>3 DEF CacheInv, OrderInv, Older
  <2>11. KeptInv'
    BY <1>0, <1>2, <2>1, <2>2, <2>3
    DEF KeptInv, LiveInv, RangeInv, Keep, Victim, NextErased, OlderJobs
  <2>12. NotedInv'
    BY <1>0, <1>2, <2>1, <2>2, <2>3 DEF NotedInv, CacheInv
  <2> QED
    BY <2>3, <2>4, <2>5, <2>6, <2>7, <2>8, <2>9, <2>10, <2>11, <2>12 DEF Good
<1> QED
  BY <1>0, <1>1, <1>2 DEF UpdatedOlderBackup, TypeInv

LEMMA UpdateStep ==
    ASSUME Good, Update
    PROVE  Good'
<1> USE LiveBlocks
    DEF On, Writing, Done, Busy, Job, Calm, Behind, WriteJobs, RestPcs, NoTable, Written
<1>0. /\ TypeInv /\ FlashInv /\ PlaceInv /\ RangeInv /\ LiveInv /\ FrontInv
      /\ OrderInv /\ CacheInv /\ KeptInv /\ NotedInv
      /\ ni \in Instances /\ w \in Writes /\ op \in Ops
      /\ ni.main \in Nat /\ ni.backup \in Nat /\ ni.mapb \in Nat /\ ni.top \in Nat
      /\ ni.count \in Nat /\ w.ba \in Int /\ w.limit \in Nat /\ w.start \in Nat
      /\ w.try \in Int /\ w.tmp \in Nat
      /\ \A x \in Live : flash[x].count \in Nat
  BY Parts
<1>1. CASE ni.backup = NoTable
  <2>1. /\ pc = "update" /\ pc' = "erase_table"
        /\ UNCHANGED <<flash, phys, op>>
        /\ ni' = [ni EXCEPT !.count = @ + 1]
        /\ w' = [w EXCEPT !.ba = ni.main, !.limit = ni.top, !.to = "updated_main"]
        /\ cache' = TableOf(ni')
        /\ lone' = (lone \/ ni.backup = NoTable)
        /\ kept' = kept \cup {ni.map}
        /\ ~ni.protected
        /\ ni.changed
    BY <1>0, <1>1 DEF Update, flashVars, Counted, StartWrite
  <2>l. ~lone' => ~lone /\ ni.backup # NoTable
    BY <2>1, Zenon
  <2>c. /\ cache' \in Tables /\ cache'.map = ni'.map
        /\ cache'.st = ni'.st /\ cache'.count = ni'.count
    <3>1. ni' \in Instances
      BY <1>0, <2>1, Arith, CountType, Zenon
    <3> QED
      BY <2>1, <3>1, TableOfIs
  <2>2. /\ ni'.st = ni.st /\ ni'.map = ni.map /\ ni'.changed = ni.changed
        /\ ni'.count = ni.count + 1 /\ ni'.main = ni.main /\ ni'.backup = ni.backup
        /\ ni'.mapb = ni.mapb /\ ni'.top = ni.top /\ ni'.dbc = ni.dbc
        /\ ni'.protected = ni.protected /\ w'.ba = ni.main /\ w'.limit = ni.top
        /\ w'.to = "updated_main" /\ w'.start = w.start /\ w'.try = w.try /\ w'.tmp = w.tmp
    BY <1>0, <1>1, <2>1 DEF Instances, Writes
  <2>3. Live' = Live /\ FlashInv'
    BY <1>0, <2>1, SameFlash
  <2>4. TypeInv'
    <3>1. ni' \in Instances
      BY <1>0, <1>1, <2>1, Arith, InstanceTypes, ProtectedType, CountType, Zenon
    <3>2. w' \in Writes
      BY <1>0, <1>1, <2>1, Arith, WriteTypes, TosMembers, Zenon
    <3> QED
      BY <1>0, <1>1, <2>1, <2>2, <3>1, <3>2, <2>c DEF TypeInv, Thens
  <2>5. /\ cache' \in Tables /\ cache'.map = ni.map
        /\ cache'.st = ni.st /\ cache'.count = ni.count + 1
    BY <1>0, <1>1, <2>1, <2>2, <2>3, <2>c
  <2>6. ~lone => /\ ni.main \in Live /\ (ni.backup # NoTable => ni.backup \in Live)
                 /\ \A x \in Live : flash[x].map \in kept
    BY <1>0, <1>1, <2>1, <2>2, <2>3, <2>5 DEF KeptInv
  <2>7. PlaceInv'
    BY <1>0, <1>1, <2>1, <2>2, <2>3, <2>5, <2>6
    DEF PlaceInv, RangeInv, Low, High, OneToOne, Above, OlderJobs
  <2>8. RangeInv'
    BY <1>0, <1>1, <2>1, <2>2, <2>3, <2>5, <2>6 DEF RangeInv, Low, High, PlaceInv, OlderJobs
  <2>9. LiveInv'
    BY <1>0, <1>1, <2>1, <2>2, <2>3, <2>5, <2>6
    DEF LiveInv, RangeInv, Low, High, Keep, Victim, NextErased, PlaceInv, Free
  <2>10. FrontInv'
    BY <1>0, <1>1, <2>1, <2>2, <2>3, <2>5, <2>6
    DEF FrontInv, Front, RangeInv, High, Free, MainJobs
  <2>11. OrderInv'
    BY <1>0, <1>1, <2>1, <2>2, <2>3, <2>5, <2>6
    DEF OrderInv, LiveInv, Victim, NextErased, OlderJobs, Above
  <2>12. CacheInv'
    BY <1>0, <1>1, <2>1, <2>2, <2>3, <2>5, <2>6 DEF CacheInv, OrderInv, Older
  <2>13. KeptInv'
    BY <1>0, <1>1, <2>1, <2>2, <2>3, <2>5, <2>6
    DEF KeptInv, LiveInv, RangeInv, Keep, Victim, NextErased, OlderJobs
  <2>14. NotedInv'
    BY <1>0, <1>1, <2>1, <2>2, <2>3, <2>5, <2>6 DEF NotedInv, CacheInv
  <2> QED
    BY <2>3, <2>4, <2>7, <2>8, <2>9, <2>10, <2>11, <2>12, <2>13, <2>14 DEF Good
<1>2. CASE ni.backup # NoTable
  <2>1. /\ pc = "update" /\ pc' = "erase_table"
        /\ UNCHANGED <<flash, phys, op>>
        /\ ni' = [ni EXCEPT !.count = @ + 1]
        /\ w' = [w EXCEPT !.ba = ni.backup, !.limit = ni.top, !.to = "updated_backup"]
        /\ cache' = TableOf(ni')
        /\ lone' = (lone \/ ni.backup = NoTable)
        /\ kept' = kept \cup {ni.map}
        /\ ~ni.protected
        /\ ni.changed
    BY <1>0, <1>2 DEF Update, flashVars, Counted, StartWrite
  <2>l. ~lone' => ~lone /\ ni.backup # NoTable
    BY <2>1, Zenon
  <2>c. /\ cache' \in Tables /\ cache'.map = ni'.map
        /\ cache'.st = ni'.st /\ cache'.count = ni'.count
    <3>1. ni' \in Instances
      BY <1>0, <2>1, Arith, CountType, Zenon
    <3> QED
      BY <2>1, <3>1, TableOfIs
  <2>2. /\ ni'.st = ni.st /\ ni'.map = ni.map /\ ni'.changed = ni.changed
        /\ ni'.count = ni.count + 1 /\ ni'.main = ni.main /\ ni'.backup = ni.backup
        /\ ni'.mapb = ni.mapb /\ ni'.top = ni.top /\ ni'.dbc = ni.dbc
        /\ ni'.protected = ni.protected /\ w'.ba = ni.backup /\ w'.limit = ni.top
        /\ w'.to = "updated_backup" /\ w'.start = w.start /\ w'.try = w.try
        /\ w'.tmp = w.tmp
    BY <1>0, <1>2, <2>1 DEF Instances, Writes
  <2>3. Live' = Live /\ FlashInv'
    BY <1>0, <2>1, SameFlash
  <2>4. TypeInv'
    <3>1. ni' \in Instances
      BY <1>0, <1>2, <2>1, Arith, InstanceTypes, ProtectedType, CountType, Zenon
    <3>2. w' \in Writes
      BY <1>0, <1>2, <2>1, Arith, WriteTypes, TosMembers, Zenon
    <3> QED
      BY <1>0, <1>2, <2>1, <2>2, <3>1, <3>2, <2>c DEF TypeInv, Thens
  <2>5. /\ cache' \in Tables /\ cache'.map = ni.map
        /\ cache'.st = ni.st /\ cache'.count = ni.count + 1
    BY <1>0, <1>2, <2>1, <2>2, <2>3, <2>c
  <2>6. ~lone => /\ ni.main \in Live /\ (ni.backup # NoTable => ni.backup \in Live)
                 /\ \A x \in Live : flash[x].map \in kept
    BY <1>0, <1>2, <2>1, <2>2, <2>3, <2>5 DEF KeptInv
  <2>7. PlaceInv'
    BY <1>0, <1>2, <2>1, <2>2, <2>3, <2>5, <2>6
    DEF PlaceInv, RangeInv, Low, High, OneToOne, Above, OlderJobs
  <2>8. RangeInv'
    BY <1>0, <1>2, <2>1, <2>2, <2>3, <2>5, <2>6 DEF RangeInv, Low, High, PlaceInv, OlderJobs
  <2>9. LiveInv'
    BY <1>0, <1>2, <2>1, <2>2, <2>3, <2>5, <2>6
    DEF LiveInv, RangeInv, Low, High, Keep, Victim, NextErased, PlaceInv, Free
  <2>10. FrontInv'
    BY <1>0, <1>2, <2>1, <2>2, <2>3, <2>5, <2>6
    DEF FrontInv, Front, RangeInv, High, Free, MainJobs
  <2>11. OrderInv'
    BY <1>0, <1>2, <2>1, <2>2, <2>3, <2>5, <2>6
    DEF OrderInv, LiveInv, Victim, NextErased, OlderJobs, Above
  <2>12. CacheInv'
    BY <1>0, <1>2, <2>1, <2>2, <2>3, <2>5, <2>6 DEF CacheInv, OrderInv, Older
  <2>13. KeptInv'
    BY <2>1, <2>l, <2>2, <2>3, <2>5, <2>6 DEF KeptInv, Keep, OlderJobs
  <2>14. NotedInv'
    BY <1>0, <1>2, <2>1, <2>2, <2>3, <2>5, <2>6 DEF NotedInv, CacheInv
  <2> QED
    BY <2>3, <2>4, <2>7, <2>8, <2>9, <2>10, <2>11, <2>12, <2>13, <2>14 DEF Good
<1> QED
  BY <1>0, <1>1, <1>2 DEF Update, TypeInv

LEMMA UpdatedStep ==
    ASSUME Good, Updated
    PROVE  Good'
<1> USE LiveBlocks
    DEF On, Writing, Done, Busy, Job, Calm, Behind, WriteJobs, RestPcs, NoTable, Written
<1>0. /\ TypeInv /\ FlashInv /\ PlaceInv /\ RangeInv /\ LiveInv /\ FrontInv
      /\ OrderInv /\ CacheInv /\ KeptInv /\ NotedInv
      /\ ni \in Instances /\ w \in Writes /\ op \in Ops
      /\ ni.main \in Nat /\ ni.backup \in Nat /\ ni.mapb \in Nat /\ ni.top \in Nat
      /\ ni.count \in Nat /\ w.ba \in Int /\ w.limit \in Nat /\ w.start \in Nat
      /\ w.try \in Int /\ w.tmp \in Nat
      /\ \A x \in Live : flash[x].count \in Nat
  BY Parts
<1>1. CASE op.then = "off"
  <2>1. /\ pc = "update" /\ pc' = "off"
        /\ UNCHANGED <<flash, phys, lone>>
        /\ ni' = NoInstance
        /\ w' = NoWrite
        /\ op' = NoOp
        /\ kept' = IF ni.protected THEN kept ELSE {cache.map}
        /\ ni.protected \/ ~ni.changed
    BY <1>0, <1>1 DEF Updated, flashVars, Forget
  <2>2. /\ ni'.map = Unmapped /\ ni'.mapb = 0 /\ ni'.top = 0 /\ op'.lb = 0
        /\ op'.then = "idle"
    BY <1>0, <1>1, <2>1 DEF Instances, Writes, Ops, NoOp, NoInstance
  <2>3. Live' = Live /\ FlashInv'
    BY <1>0, <2>1, SameFlash
  <2>4. TypeInv'
    <3>1. ni' \in Instances
      BY <1>0, <1>1, <2>1, Arith, InstanceTypes, ProtectedType, Nothing, Zenon
    <3>2. w' \in Writes
      BY <1>0, <1>1, <2>1, Arith, WriteTypes, TosMembers, Zenon
    <3>3. op' \in Ops
      BY <1>0, <1>1, <2>1, Arith, OpTypes, Zenon
    <3> QED
      BY <1>0, <1>1, <2>1, <2>2, <3>1, <3>2, <3>3 DEF TypeInv, Thens
  <2>5. PlaceInv'
    BY <1>0, <1>1, <2>1, <2>2, <2>3
    DEF PlaceInv, RangeInv, Low, High, OneToOne, Above, OlderJobs, Unmapped
  <2>6. RangeInv'
    BY <1>0, <1>1, <2>1, <2>2, <2>3 DEF RangeInv, Low, High, PlaceInv, OlderJobs
  <2>7. LiveInv'
    BY <1>0, <1>1, <2>1, <2>2, <2>3
    DEF LiveInv, RangeInv, Low, High, Keep, Victim, NextErased, PlaceInv, Free
  <2>8. FrontInv'
    BY <1>0, <1>1, <2>1, <2>2, <2>3 DEF FrontInv, Front, RangeInv, High, Free, MainJobs
  <2>9. OrderInv'
    BY <1>0, <1>1, <2>1, <2>2, <2>3
    DEF OrderInv, LiveInv, Victim, NextErased, OlderJobs, Above
  <2>10. CacheInv'
    BY <1>0, <1>1, <2>1, <2>2, <2>3 DEF CacheInv, OrderInv, Older
  <2>11. KeptInv'
    BY <1>0, <1>1, <2>1, <2>2, <2>3
    DEF KeptInv, LiveInv, RangeInv, Keep, Victim, NextErased, OlderJobs, FlashKept
  <2>12. NotedInv'
    BY <1>0, <1>1, <2>1, <2>2, <2>3 DEF NotedInv, CacheInv
  <2> QED
    BY <2>3, <2>4, <2>5, <2>6, <2>7, <2>8, <2>9, <2>10, <2>11, <2>12 DEF Good
<1>2. CASE op.then = "idle"
  <2>1. /\ pc = "update" /\ pc' = "idle"
        /\ UNCHANGED <<flash, phys, cache, lone, ni>>
        /\ w' = NoWrite
        /\ op' = NoOp
        /\ kept' = IF ni.protected THEN kept ELSE {cache.map}
        /\ ni.protected \/ ~ni.changed
    BY <1>0, <1>2 DEF Updated, flashVars
  <2>2. /\ op'.lb = 0 /\ op'.then = "idle"
    BY <1>0, <1>2, <2>1 DEF Writes, Ops, NoOp
  <2>3. Live' = Live /\ FlashInv'
    BY <1>0, <2>1, SameFlash
  <2>4. TypeInv'
    <3>1. w' \in Writes
      BY <1>0, <1>2, <2>1, Arith, WriteTypes, TosMembers, Zenon
    <3>2. op' \in Ops
      BY <1>0, <1>2, <2>1, Arith, OpTypes, Zenon
    <3> QED
      BY <1>0, <1>2, <2>1, <2>2, <3>1, <3>2 DEF TypeInv, Thens
  <2>5. PlaceInv'
    BY <1>0, <1>2, <2>1, <2>2, <2>3
    DEF PlaceInv, RangeInv, Low, High, OneToOne, Above, OlderJobs
  <2>6. RangeInv'
    BY <1>0, <1>2, <2>1, <2>2, <2>3 DEF RangeInv, Low, High, PlaceInv, OlderJobs
  <2>7. LiveInv'
    BY <1>0, <1>2, <2>1, <2>2, <2>3
    DEF LiveInv, RangeInv, Low, High, Keep, Victim, NextErased, PlaceInv, Free
  <2>8. FrontInv'
    BY <1>0, <1>2, <2>1, <2>2, <2>3 DEF FrontInv, Front, RangeInv, High, Free, MainJobs
  <2>9. OrderInv'
    BY <1>0, <1>2, <2>1, <2>2, <2>3
    DEF OrderInv, LiveInv, Victim, NextErased, OlderJobs, Above
  <2>10. CacheInv'
    BY <1>0, <1>2, <2>1, <2>2, <2>3 DEF CacheInv, OrderInv, Older
  <2>11. KeptInv'
    BY <1>0, <1>2, <2>1, <2>2, <2>3
    DEF KeptInv, LiveInv, RangeInv, Keep, Victim, NextErased, OlderJobs
  <2>12. NotedInv'
    BY <1>0, <1>2, <2>1, <2>2, <2>3 DEF NotedInv, CacheInv
  <2> QED
    BY <2>3, <2>4, <2>5, <2>6, <2>7, <2>8, <2>9, <2>10, <2>11, <2>12 DEF Good
<1>3. CASE op.then \in Thens \ {"off", "idle"}
  <2>1. /\ pc = "update" /\ pc' = op.then
        /\ UNCHANGED <<flash, phys, cache, lone, ni, op>>
        /\ w' = NoWrite
        /\ kept' = IF ni.protected THEN kept ELSE {cache.map}
        /\ ni.protected \/ ~ni.changed
        /\ op.then \in {"erase", "nospare", "create_nospare", "created"}
    BY <1>0, <1>3 DEF Updated, flashVars, Thens
  <2>2. Live' = Live /\ FlashInv'
    BY <1>0, <2>1, SameFlash
  <2>3. TypeInv'
    <3>1. w' \in Writes
      BY <1>0, <1>3, <2>1, Arith, WriteTypes, TosMembers, Zenon
    <3> QED
      BY <1>0, <1>3, <2>1, <3>1 DEF TypeInv, Thens
  <2>4. PlaceInv'
    BY <1>0, <1>3, <2>1, <2>2 DEF PlaceInv, RangeInv, Low, High, OneToOne, Above, OlderJobs
  <2>5. RangeInv'
    BY <1>0, <1>3, <2>1, <2>2 DEF RangeInv, Low, High, PlaceInv, OlderJobs
  <2>6. LiveInv'
    BY <1>0, <1>3, <2>1, <2>2
    DEF LiveInv, RangeInv, Low, High, Keep, Victim, NextErased, PlaceInv, Free
  <2>7. FrontInv'
    BY <1>0, <1>3, <2>1, <2>2 DEF FrontInv, Front, RangeInv, High, Free, MainJobs
  <2>8. OrderInv'
    BY <1>0, <1>3, <2>1, <2>2 DEF OrderInv, LiveInv, Victim, NextErased, OlderJobs, Above
  <2>9. CacheInv'
    BY <1>0, <1>3, <2>1, <2>2 DEF CacheInv, OrderInv, Older
  <2>10. KeptInv'
    BY <1>0, <1>3, <2>1, <2>2
    DEF KeptInv, LiveInv, RangeInv, Keep, Victim, NextErased, OlderJobs
  <2>11. NotedInv'
    BY <1>0, <1>3, <2>1, <2>2 DEF NotedInv, CacheInv
  <2> QED
    BY <2>2, <2>3, <2>4, <2>5, <2>6, <2>7, <2>8, <2>9, <2>10, <2>11 DEF Good
<1> QED
  BY <1>0, <1>1, <1>2, <1>3 DEF Updated, TypeInv

LEMMA CreateNoSpareStep ==
    ASSUME Good, CreateNoSpare
    PROVE  Good'
<1> USE LiveBlocks
    DEF On, Writing, Done, Busy, Job, Calm, Behind, WriteJobs, RestPcs, NoTable, Written
<1>0. /\ TypeInv /\ FlashInv /\ PlaceInv /\ RangeInv /\ LiveInv /\ FrontInv
      /\ OrderInv /\ CacheInv /\ KeptInv /\ NotedInv
      /\ ni \in Instances /\ w \in Writes /\ op \in Ops
      /\ ni.main \in Nat /\ ni.backup \in Nat /\ ni.mapb \in Nat /\ ni.top \in Nat
      /\ ni.count \in Nat /\ w.ba \in Int /\ w.limit \in Nat /\ w.start \in Nat
      /\ w.try \in Int /\ w.tmp \in Nat
      /\ \A x \in Live : flash[x].count \in Nat
  BY Parts
<1>1. /\ pc = "create_nospare" /\ pc' = IF ni.protected THEN "idle" ELSE "update"
      /\ UNCHANGED <<flash, phys, cache, kept, lone, w>>
      /\ ni' = [ni EXCEPT !.top = ni.mapb]
      /\ op' = [op EXCEPT !.then = "created"]
  BY <1>0 DEF CreateNoSpare, flashVars, histVars
<1>2. /\ ni'.st = ni.st /\ ni'.map = ni.map /\ ni'.changed = ni.changed
      /\ ni'.count = ni.count /\ ni'.main = ni.main /\ ni'.backup = ni.backup
      /\ ni'.mapb = ni.mapb /\ ni'.top = ni.mapb /\ ni'.dbc = ni.dbc
      /\ ni'.protected = ni.protected /\ op'.lb = op.lb /\ op'.then = "created"
  BY <1>0, <1>1 DEF Instances, Ops
<1>3. Live' = Live /\ FlashInv'
  BY <1>0, <1>1, SameFlash
<1>4. TypeInv'
  <2>1. ni' \in Instances
    BY <1>0, <1>1, Arith, InstanceTypes, ProtectedType, Zenon
  <2>2. op' \in Ops
    BY <1>0, <1>1, Arith, OpTypes, ThensMembers, Zenon
  <2> QED
    BY <1>0, <1>1, <1>2, <2>1, <2>2 DEF TypeInv, Thens
<1>5. Above(ni.map, ni.mapb) /\ \A x \in Live : x < ni.mapb /\ Above(flash[x].map, ni.mapb)
  BY <1>0, <1>1, <1>2, <1>3, AboveLess, LiveTables
  DEF PlaceInv, OrderInv, LiveInv, Instances, Tables
<1>6. PlaceInv'
  BY <1>0, <1>1, <1>2, <1>3, <1>5
  DEF PlaceInv, RangeInv, Low, High, OneToOne, Above, OlderJobs
<1>7. RangeInv'
  BY <1>0, <1>1, <1>2, <1>3, <1>5 DEF RangeInv, Low, High, PlaceInv, OlderJobs
<1>8. LiveInv'
  BY <1>0, <1>1, <1>2, <1>3, <1>5
  DEF LiveInv, RangeInv, Low, High, Keep, Victim, NextErased, PlaceInv, Free
<1>9. FrontInv'
  BY <1>0, <1>1, <1>2, <1>3, <1>5 DEF FrontInv, Front, RangeInv, High, Free, MainJobs
<1>10. OrderInv'
  BY <1>0, <1>1, <1>2, <1>3, <1>5
  DEF OrderInv, LiveInv, Victim, NextErased, OlderJobs, Above
<1>11. CacheInv'
  BY <1>0, <1>1, <1>2, <1>3, <1>5 DEF CacheInv, OrderInv, Older
<1>12. KeptInv'
  BY <1>0, <1>1, <1>2, <1>3, <1>5
  DEF KeptInv, LiveInv, RangeInv, Keep, Victim, NextErased, OlderJobs
<1>13. NotedInv'
  BY <1>0, <1>1, <1>2, <1>3, <1>5 DEF NotedInv, CacheInv
<1> QED
  BY <1>3, <1>4, <1>6, <1>7, <1>8, <1>9, <1>10, <1>11, <1>12, <1>13 DEF Good

LEMMA DetachStep ==
    ASSUME Good, Detach
    PROVE  Good'
<1> USE LiveBlocks
    DEF On, Writing, Done, Busy, Job, Calm, Behind, WriteJobs, RestPcs, NoTable, Written
<1>0. /\ TypeInv /\ FlashInv /\ PlaceInv /\ RangeInv /\ LiveInv /\ FrontInv
      /\ OrderInv /\ CacheInv /\ KeptInv /\ NotedInv
      /\ ni \in Instances /\ w \in Writes /\ op \in Ops
      /\ ni.main \in Nat /\ ni.backup \in Nat /\ ni.mapb \in Nat /\ ni.top \in Nat
      /\ ni.count \in Nat /\ w.ba \in Int /\ w.limit \in Nat /\ w.start \in Nat
      /\ w.try \in Int /\ w.tmp \in Nat
      /\ \A x \in Live : flash[x].count \in Nat
  BY Parts
<1>1. /\ pc = "idle" /\ pc' = "update"
      /\ UNCHANGED <<flash, phys, cache, kept, lone, ni, w>>
      /\ op' = [op EXCEPT !.then = "off"]
  BY <1>0 DEF Detach, histVars
<1>2. /\ op'.lb = op.lb /\ op'.then = "off"
  BY <1>0, <1>1 DEF Ops
<1>3. Live' = Live /\ FlashInv'
  BY <1>0, <1>1, SameFlash
<1>4. TypeInv'
  <2>1. op' \in Ops
    BY <1>0, <1>1, Arith, OpTypes, ThensMembers, Zenon
  <2> QED
    BY <1>0, <1>1, <1>2, <2>1 DEF TypeInv, Thens
<1>5. PlaceInv'
  BY <1>0, <1>1, <1>2, <1>3 DEF PlaceInv, RangeInv, Low, High, OneToOne, Above, OlderJobs
<1>6. RangeInv'
  BY <1>0, <1>1, <1>2, <1>3 DEF RangeInv, Low, High, PlaceInv, OlderJobs
<1>7. LiveInv'
  BY <1>0, <1>1, <1>2, <1>3
  DEF LiveInv, RangeInv, Low, High, Keep, Victim, NextErased, PlaceInv, Free
<1>8. FrontInv'
  BY <1>0, <1>1, <1>2, <1>3 DEF FrontInv, Front, RangeInv, High, Free, MainJobs
<1>9. OrderInv'
  BY <1>0, <1>1, <1>2, <1>3 DEF OrderInv, LiveInv, Victim, NextErased, OlderJobs, Above
<1>10. CacheInv'
  BY <1>0, <1>1, <1>2, <1>3 DEF CacheInv, OrderInv, Older
<1>11. KeptInv'
  BY <1>0, <1>1, <1>2, <1>3
  DEF KeptInv, LiveInv, RangeInv, Keep, Victim, NextErased, OlderJobs
<1>12. NotedInv'
  BY <1>0, <1>1, <1>2, <1>3 DEF NotedInv, CacheInv
<1> QED
  BY <1>3, <1>4, <1>5, <1>6, <1>7, <1>8, <1>9, <1>10, <1>11, <1>12 DEF Good

LEMMA EraseBlockStep ==
    ASSUME Good, NEW l \in LogicBlocks, EraseBlock(l)
    PROVE  Good'
<1> USE LiveBlocks
    DEF On, Writing, Done, Busy, Job, Calm, Behind, WriteJobs, RestPcs, NoTable, Written
<1>0. /\ TypeInv /\ FlashInv /\ PlaceInv /\ RangeInv /\ LiveInv /\ FrontInv
      /\ OrderInv /\ CacheInv /\ KeptInv /\ NotedInv
      /\ ni \in Instances /\ w \in Writes /\ op \in Ops
      /\ ni.main \in Nat /\ ni.backup \in Nat /\ ni.mapb \in Nat /\ ni.top \in Nat
      /\ ni.count \in Nat /\ w.ba \in Int /\ w.limit \in Nat /\ w.start \in Nat
      /\ w.try \in Int /\ w.tmp \in Nat
      /\ \A x \in Live : flash[x].count \in Nat
  BY Parts
<1>1. /\ pc = "idle" /\ pc' = "erase"
      /\ UNCHANGED <<flash, phys, cache, kept, lone, ni, w>>
      /\ op' = [op EXCEPT !.lb = l]
  BY <1>0 DEF EraseBlock, MayWrite, flashVars, histVars
<1>2. /\ op'.lb = l /\ op'.then = op.then
  BY <1>0, <1>1 DEF Ops
<1>3. Live' = Live /\ FlashInv'
  BY <1>0, <1>1, SameFlash
<1>4. TypeInv'
  <2>1. op' \in Ops
    BY <1>0, <1>1, Arith, OpTypes, ThensMembers, Zenon
  <2> QED
    BY <1>0, <1>1, <1>2, <2>1 DEF TypeInv, Thens
<1>5. PlaceInv'
  BY <1>0, <1>1, <1>2, <1>3 DEF PlaceInv, RangeInv, Low, High, OneToOne, Above, OlderJobs
<1>6. RangeInv'
  BY <1>0, <1>1, <1>2, <1>3 DEF RangeInv, Low, High, PlaceInv, OlderJobs
<1>7. LiveInv'
  BY <1>0, <1>1, <1>2, <1>3
  DEF LiveInv, RangeInv, Low, High, Keep, Victim, NextErased, PlaceInv, Free
<1>8. FrontInv'
  BY <1>0, <1>1, <1>2, <1>3 DEF FrontInv, Front, RangeInv, High, Free, MainJobs
<1>9. OrderInv'
  BY <1>0, <1>1, <1>2, <1>3 DEF OrderInv, LiveInv, Victim, NextErased, OlderJobs, Above
<1>10. CacheInv'
  BY <1>0, <1>1, <1>2, <1>3 DEF CacheInv, OrderInv, Older
<1>11. KeptInv'
  BY <1>0, <1>1, <1>2, <1>3
  DEF KeptInv, LiveInv, RangeInv, Keep, Victim, NextErased, OlderJobs
<1>12. NotedInv'
  BY <1>0, <1>1, <1>2, <1>3 DEF NotedInv, CacheInv
<1> QED
  BY <1>3, <1>4, <1>5, <1>6, <1>7, <1>8, <1>9, <1>10, <1>11, <1>12 DEF Good

-----------------------------------------------------------------------------
(* The steps of a write, whatever it is for *)

\* The range of a write holds neither the table it keeps nor a data block.
LEMMA KeepOutside ==
    ASSUME Good, Busy
    PROVE  /\ Job \in WriteJobs /\ Job = w.to
           /\ DataBlocks <= Low(Job) /\ Low(Job) \in Nat
           /\ w.limit = High(Job) /\ w.limit <= ni.top /\ ni.top < SignatureBa
           /\ Keep(Job) \in Nat
           /\ Keep(Job) < Low(Job) \/ w.limit <= Keep(Job)
           /\ Job \in OlderJobs => Keep(Job) # Victim(Job)
<1> USE LiveBlocks DEF On, Writing, Done, Busy, NoTable
<1>0. /\ TypeInv /\ PlaceInv /\ RangeInv
      /\ ni.main \in Nat /\ ni.backup \in Nat /\ ni.mapb \in Nat /\ ni.top \in Nat
      /\ w.limit \in Nat /\ w.tmp \in Nat
  BY Parts
<1>1. Job \in WriteJobs /\ Job = w.to /\ On
  BY <1>0 DEF TypeInv, Job, WriteJobs
<1>2. /\ DataBlocks <= ni.mapb /\ ni.top < SignatureBa /\ ni.mapb <= ni.top
      /\ ni.main # NoTable => DataBlocks <= ni.main /\ ni.main < ni.mapb
      /\ ni.backup # NoTable =>
           ni.main # NoTable /\ ni.main < ni.backup /\ ni.backup < ni.mapb
  BY <1>0, <1>1 DEF PlaceInv
<1>3. /\ w.limit = High(Job)
      /\ Job = "rebuilt_main" <=> ni.main = NoTable
      /\ Job \in {"rebuilt_main", "rebuilt_backup", "rescued_front",
                  "rescued_behind"} => ni.backup = NoTable
      /\ Job \in {"updated_backup", "wrote_tmp", "rescued_main"} \cup OlderJobs
           => ni.backup # NoTable
      /\ Job = "rescued_main" => ni.backup < w.tmp /\ w.tmp < ni.top
  BY <1>0 DEF RangeInv
<1> QED
  BY <1>0, <1>1, <1>2, <1>3 DEF Low, High, Keep, Victim, WriteJobs, OlderJobs

LEMMA JobKept ==
    ASSUME Good, Writing, ni'.main = ni.main, ni'.backup = ni.backup,
           ni'.mapb = ni.mapb, ni'.top = ni.top, w'.to = w.to, w'.tmp = w.tmp,
           pc' \in {"erase_table", "program_table", w.to}
    PROVE  /\ Job' = Job /\ Job = w.to /\ Job \in WriteJobs
           /\ Keep(Job)' = Keep(Job) /\ Victim(Job)' = Victim(Job)
           /\ Low(Job)' = Low(Job) /\ High(Job)' = High(Job)
           /\ On /\ On' /\ Busy /\ Busy' /\ ~Calm' /\ ~Behind' /\ ~Calm /\ ~Behind
           /\ ~Done
           /\ Writing' <=> pc' # w.to
           /\ Done' <=> pc' = w.to
<1>1. w.to \in WriteJobs
  BY Parts DEF TypeInv
<1>2. Job' = w.to /\ Job = w.to
  BY <1>1 DEF Job, Writing, WriteJobs
<1>3. /\ On /\ On' /\ Busy /\ Busy' /\ ~Calm' /\ ~Behind' /\ ~Calm /\ ~Behind
      /\ ~Done
      /\ Writing' <=> pc' # w.to
      /\ Done' <=> pc' = w.to
  BY <1>1 DEF On, Busy, Calm, Behind, Writing, Done, WriteJobs, RestPcs
<1>4. Keep(Job)' = Keep(Job) /\ Victim(Job)' = Victim(Job)
  BY <1>2 DEF Keep, Victim
<1>5. Low(Job)' = Low(Job) /\ High(Job)' = High(Job)
  BY <1>2 DEF Low, High
<1> QED
  BY <1>1, <1>2, <1>3, <1>4, <1>5

\* A write that has not put its table anywhere yet, and has replaced what it
\* was to replace.
LEMMA WriteGoesOn ==
    ASSUME Good, Writing, UNCHANGED <<cache, op, kept, lone>>,
           ni' \in Instances, ni'.map = ni.map, ni'.count = ni.count,
           ni'.main = ni.main, ni'.backup = ni.backup,
           ni'.mapb = ni.mapb, ni'.top = ni.top, ni'.protected = ni.protected,
           \A c \in Blocks : ni'.st[c] = "good" => ni.st[c] = "good",
           \A c \in Blocks : ni.st[c] = "good" /\ c \notin phys' => ni'.st[c] = "good",
           w' \in Writes, w'.to = w.to, w'.limit = w.limit, w'.tmp = w.tmp,
           w'.try = w.try,
           pc' \in {"erase_table", "program_table", w.to},
           pc' = w.to => w'.start = NoTable,
           pc' # w.to => Low(Job) <= w'.ba,
           pc' = "program_table" => w'.ba < w.limit /\ Free(w.ba)',
           phys \subseteq phys', flash' \in [Mgmt -> Contents], Live' \subseteq Live,
           \A x \in Live' : flash'[x] = flash[x] /\ x = Keep(Job),
           Keep(Job) \in Live => Keep(Job) \in Live',
           FrontInv'
    PROVE  Good'
<1> USE LiveBlocks DEF NoTable
<1>0. /\ TypeInv /\ FlashInv /\ PlaceInv /\ RangeInv /\ LiveInv
      /\ OrderInv /\ CacheInv /\ KeptInv
  BY Parts
<1>1. /\ Job' = Job /\ Job = w.to /\ Job \in WriteJobs
      /\ Keep(Job)' = Keep(Job) /\ Victim(Job)' = Victim(Job)
      /\ Low(Job)' = Low(Job) /\ High(Job)' = High(Job)
      /\ On /\ On' /\ Busy /\ Busy' /\ ~Calm' /\ ~Behind' /\ ~Calm /\ ~Behind
      /\ ~Done
      /\ Writing' <=> pc' # w.to
      /\ Done' <=> pc' = w.to
  BY JobKept
<1>2. \A x \in Live' : x \in Live /\ flash'[x] = flash[x] /\ x = Keep(Job) /\ x \in Blocks
  OBVIOUS
<1>3. Written' => pc' # w.to
  BY DEF Written
<1>4. TypeInv'
  <2>1. pc' \in WriteJobs \cup RestPcs \cup {"off", "dead", "erase_table",
              "program_table", "clear", "cleared_behind"}
    BY <1>1 DEF WriteJobs
  <2>2. pc' # "clear"
    BY <1>1 DEF WriteJobs
  <2>3. cache \in Tables
    BY <1>0, <1>1 DEF TypeInv
  <2> QED
    BY <1>0, <1>1, <2>1, <2>2, <2>3 DEF TypeInv
<1>5. FlashInv'
  BY <1>0, <1>2, FewerTables
<1>6. PlaceInv'
  BY <1>0, <1>1 DEF PlaceInv
<1>7. RangeInv'
  <2>1. pc' # "clear" /\ pc' # "rescued"
    BY <1>1 DEF WriteJobs
  <2>2. pc' = "program_table" => pc' # w.to
    BY <1>1 DEF WriteJobs
  <2> QED
    BY <1>0, <1>1, <1>3, <2>1, <2>2 DEF RangeInv
<1>8. LiveInv'
  <2>1. \A x \in Live' : x \notin phys'
    BY DEF Live
  <2>2. \A x \in Live' : x < ni'.top /\ ni'.st[x] = "good"
    BY <1>0, <1>1, <1>2, <2>1 DEF LiveInv
  <2> QED
    BY <1>1, <1>2, <2>2 DEF LiveInv
<1>9. OrderInv'
  <2>1. Job \in OlderJobs => Keep(Job) # Victim(Job)
    BY <1>1, KeepOutside
  <2>2. \A x \in Live' : Above(flash[x].map, ni.top)
    BY <1>0, <1>1, <1>2, <2>1 DEF OrderInv
  <2>3. \A x \in Live' : /\ flash'[x].count <= ni'.count
                         /\ \A b \in Blocks : ni'.st[b] = "good" => flash'[x].st[b] = "good"
                         /\ Above(flash'[x].map, ni'.top)
    BY <1>0, <1>1, <1>2, <2>2 DEF OrderInv
  <2>4. \A x \in Live' : Above(flash[x].map, ni.top)'
    <3> SUFFICES ASSUME NEW x \in Live' PROVE Above(flash'[x].map, ni'.top)
      BY DEF Above
    <3> QED
      BY <2>3
  <2> QED
    BY <2>3, <2>4 DEF OrderInv
<1>10. CacheInv'
  <2>1. \A x \in Live' : Older(flash[x], cache)
    BY <1>0, <1>1, <1>2 DEF CacheInv
  <2>2. cache' = cache
    OBVIOUS
  <2>3. \A x \in Live' : Older(flash'[x], cache')
    BY <1>2, <2>1, <2>2
  <2>4. \A b \in Blocks : /\ ni'.st[b] = "good" => cache.st[b] = "good"
                          /\ cache.st[b] = "good" => ni'.st[b] = "good" \/ b \in phys'
    BY <1>0, <1>1 DEF CacheInv
  <2> QED
    BY <1>0, <1>1, <2>2, <2>3, <2>4 DEF CacheInv
<1>11. KeptInv'
  <2> SUFFICES ASSUME ~lone PROVE KeptInv'
    BY DEF KeptInv
  <2>1. /\ Job = "rebuilt_main" => kept = {} /\ op.then = "create"
        /\ Job # "rebuilt_main" =>
             /\ cache.map \in kept /\ Keep(Job) \in Live
             /\ flash[Keep(Job)].map \in kept
             /\ Job # "updated_backup" => flash[Keep(Job)].map = cache.map
    BY <1>0, <1>1 DEF KeptInv
  <2>2. Job # "rebuilt_main" =>
             /\ Keep(Job) \in Live' /\ flash'[Keep(Job)] = flash[Keep(Job)]
             /\ \A x \in Live' : flash'[x].map \in kept
    BY <1>2, <2>1
  <2> QED
    BY <1>1, <1>3, <2>1, <2>2 DEF KeptInv
<1>12. NotedInv'
  BY <1>1 DEF NotedInv
<1> QED
  BY <1>4, <1>5, <1>6, <1>7, <1>8, <1>9, <1>10, <1>11, <1>12 DEF Good

LEMMA UsableLeast ==
    ASSUME Good, Writing, Usable # {}
    PROVE  LET b == Min(Usable) IN
           /\ b \in Nat /\ b \in Mgmt /\ b \in Blocks /\ w.ba <= b /\ b < w.limit
           /\ Free(b) /\ b # Keep(Job) /\ Low(Job) <= w.ba
           /\ \A c \in Nat : w.ba <= c /\ c < b => ~Free(c)
<1> DEFINE U == Usable
           b == Min(U)
<1>0. /\ w.ba \in Int /\ w.limit \in Nat /\ RangeInv
  BY Parts
<1>1. U \in SUBSET (w.ba .. w.limit - 1)
  BY DEF Usable, GoodIn
<1>2. IsFiniteSet(w.ba .. w.limit - 1)
  <2>1. w.limit - 1 \in Int
    BY <1>0
  <2> QED
    BY <1>0, <2>1, FS_Interval, Zenon
<1>3. IsFiniteSet(U) /\ U \in SUBSET Int
  <2>1. IsFiniteSet(U)
    BY <1>1, <1>2, FS_Subset
  <2>2. \A x \in w.ba .. w.limit - 1 : x \in Int
    BY <1>0
  <2> QED
    BY <1>1, <2>1, <2>2
<1> HIDE DEF U
<1>4. b \in U /\ \A c \in U : b <= c
  <2>1. U # {}
    BY DEF U
  <2> QED
    BY <1>3, <2>1, Least
<1> HIDE DEF b
<1>5. /\ DataBlocks <= Low(Job) /\ Low(Job) \in Nat
      /\ w.limit <= ni.top /\ ni.top < SignatureBa /\ Keep(Job) \in Nat /\ ni.top \in Nat
      /\ Keep(Job) < Low(Job) \/ w.limit <= Keep(Job)
  BY KeepOutside, Parts DEF Busy
<1>6. Low(Job) <= w.ba
  BY <1>0 DEF RangeInv
<1>7. b \in w.ba .. w.limit - 1 /\ Free(b)
  BY <1>4 DEF U, Usable, GoodIn, Free
<1>8. /\ b \in Nat /\ b \in Mgmt /\ b \in Blocks /\ w.ba <= b /\ b < w.limit
      /\ b # Keep(Job)
  BY <1>0, <1>5, <1>6, <1>7, LiveBlocks DEF Mgmt, Blocks
<1>9. \A c \in Nat : w.ba <= c /\ c < b => ~Free(c)
  <2> SUFFICES ASSUME NEW c \in Nat, w.ba <= c, c < b, Free(c) PROVE FALSE
    OBVIOUS
  <2>1. c \in w.ba .. w.limit - 1
    BY <1>0, <1>8
  <2>2. c \in U
    BY <2>1 DEF U, Usable, GoodIn, Free
  <2> QED
    BY <1>4, <1>8, <2>2
<1> QED
  BY <1>6, <1>7, <1>8, <1>9 DEF U, b

\* Only the table a write keeps, and the block it erases next, hold tables.
LEMMA OnlyKeep ==
    ASSUME Good, Writing, NEW x \in Live, x # Keep(Job)
    PROVE  pc = "erase_table" /\ Usable # {} /\ x = Min(Usable)
<1>0. w.ba \in Int /\ w.limit \in Nat /\ LiveInv
  BY Parts
<1>1. x = Victim(Job) /\ NextErased(x)
  BY <1>0 DEF LiveInv
<1>2. /\ pc = "erase_table" /\ w.ba <= x /\ x < w.limit
      /\ \A b \in w.ba .. x - 1 : ~Free(b)
  BY <1>1 DEF NextErased
<1>3. x \in Nat /\ x \notin phys
  BY LiveBlocks
<1>4. ni.st[x] = "good"
  BY <1>0 DEF LiveInv, On, Writing
<1>5. x \in Usable
  BY <1>0, <1>2, <1>3, <1>4 DEF Usable, GoodIn
<1> DEFINE b == Min(Usable)
<1>6. /\ b \in Nat /\ w.ba <= b /\ Free(b) /\ \A c \in Nat : w.ba <= c /\ c < b => ~Free(c)
  BY <1>5, UsableLeast
<1> HIDE DEF b
<1>7. ~(x < b)
  BY <1>2, <1>3, <1>4, <1>6 DEF Free
<1>8. ~(b < x)
  <2> SUFFICES ASSUME b < x PROVE FALSE
    OBVIOUS
  <2>1. b \in w.ba .. x - 1
    BY <1>0, <1>3, <1>6
  <2> QED
    BY <1>2, <1>6, <2>1
<1> QED
  BY <1>2, <1>3, <1>5, <1>6, <1>7, <1>8 DEF b

\* The write has come to block a: the blocks it has passed over are not free.
LEMMA FrontMoves ==
    ASSUME Good, Writing, Job' = Job, Busy', On', ni'.main = ni.main,
           ni'.backup = ni.backup, \A c \in Blocks : Free(c)' => Free(c),
           NEW a \in Nat, a <= w.limit, Job \in MainJobs => Front' = a,
           \A c \in Nat : w.ba <= c /\ c < a => ~Free(c)'
    PROVE  FrontInv'
<1> USE LiveBlocks
<1>0. /\ FrontInv /\ ni.main \in Nat /\ ni.backup \in Nat /\ ni.mapb \in Nat
      /\ ni.top \in Nat /\ w.ba \in Int /\ w.limit \in Nat
  BY Parts
<1>1. On /\ Busy
  BY DEF On, Busy, Writing
<1>2. w.limit <= ni.top /\ ni.top < SignatureBa
  BY <1>1, KeepOutside
<1>3. \A b \in DataBlocks .. Front - 1 : ~Free(b)
  BY <1>0, <1>1 DEF FrontInv
<1>4. CASE Job \in MainJobs
  <2>1. Front = w.ba /\ Front' = a
    BY <1>1, <1>4 DEF Front
  <2>2. ASSUME NEW b \in DataBlocks .. a - 1 PROVE ~Free(b)'
    <3>1. b \in Nat /\ b \in Blocks /\ b < a /\ DataBlocks <= b
      BY <1>0, <1>2 DEF Blocks
    <3>2. CASE b < w.ba
      BY <1>0, <1>3, <2>1, <3>1, <3>2
    <3>3. CASE w.ba <= b
      BY <3>1, <3>3
    <3> QED
      BY <1>0, <3>1, <3>2, <3>3
  <2> QED
    BY <2>1, <2>2 DEF FrontInv
<1>5. CASE Job \notin MainJobs
  <2>1. Front' = Front /\ Front \in {ni.main, ni.backup}
    BY <1>1, <1>5 DEF Front
  <2>2. ni.main <= ni.top /\ ni.backup <= ni.top
    BY <1>0, <1>1, Parts DEF PlaceInv, NoTable
  <2>3. \A b \in DataBlocks .. Front - 1 : b \in Blocks
    BY <1>0, <1>2, <2>1, <2>2 DEF Blocks
  <2>4. \A b \in DataBlocks .. Front - 1 : ~Free(b)'
    BY <1>3, <2>3
  <2> QED
    BY <2>1, <2>4 DEF FrontInv
<1> QED
  BY <1>4, <1>5

LEMMA NoRoomStep ==
    ASSUME Good, NoRoom
    PROVE  Good'
<1> USE LiveBlocks DEF NoTable
<1>0. /\ TypeInv /\ RangeInv /\ LiveInv /\ FrontInv
      /\ ni \in Instances /\ w \in Writes
      /\ ni.main \in Nat /\ ni.backup \in Nat /\ ni.mapb \in Nat /\ ni.top \in Nat
      /\ w.ba \in Int /\ w.limit \in Nat
  BY Parts
<1>1. /\ pc = "erase_table" /\ Usable = {} /\ pc' = w.to
      /\ UNCHANGED <<flash, phys, cache, op, kept, lone>>
      /\ ni' = SetState(ni, FoundBad(w.limit), "bad")
      /\ w' = [w EXCEPT !.start = NoTable]
  BY DEF NoRoom, histVars
<1>2. FoundBad(w.limit) \subseteq phys
  BY DEF FoundBad
<1>3. /\ ni' \in Instances /\ ni'.map = ni.map /\ ni'.count = ni.count
      /\ ni'.main = ni.main /\ ni'.backup = ni.backup
      /\ ni'.mapb = ni.mapb /\ ni'.top = ni.top /\ ni'.protected = ni.protected
      /\ \A b \in Blocks : ni'.st[b] = IF b \in FoundBad(w.limit) THEN "bad" ELSE ni.st[b]
  BY <1>0, <1>1, SetStateIs
<1>4. /\ \A c \in Blocks : ni'.st[c] = "good" => ni.st[c] = "good"
      /\ \A c \in Blocks : ni.st[c] = "good" /\ c \notin phys' => ni'.st[c] = "good"
  BY <1>1, <1>2, <1>3
<1>5. /\ w'.to = w.to /\ w'.limit = w.limit /\ w'.tmp = w.tmp /\ w'.try = w.try
      /\ w'.start = NoTable
  BY <1>0, <1>1 DEF Writes
<1>6. w' \in Writes
  BY <1>0, <1>1, WriteTypes, TosMembers, Zenon
<1>7. Writing /\ w.to \in WriteJobs /\ w.to \notin {"erase_table", "program_table"}
  BY <1>0, <1>1 DEF Writing, TypeInv, WriteJobs
<1>8. Live' = Live
  BY <1>1, SameFlash
<1>9. \A x \in Live' : x = Keep(Job)
  BY <1>1, <1>7, <1>8, OnlyKeep
<1>10. /\ Job' = Job /\ Job = w.to /\ Job \in WriteJobs
       /\ On /\ On' /\ Busy /\ Busy' /\ ~Writing' /\ Done'
  BY <1>1, <1>3, <1>5, <1>7, JobKept
<1>11. /\ w.limit <= ni.top /\ ni.top < SignatureBa
  BY <1>10, KeepOutside
<1>12. FrontInv'
  <2>1. ASSUME NEW c \in Nat, w.ba <= c, c < w.limit PROVE ~Free(c)
    <3>1. c \in w.ba .. w.limit - 1 /\ c \notin Usable
      BY <1>0, <1>1, <2>1
    <3> QED
      BY <3>1 DEF Usable, GoodIn, Free
  <2>2. Job \in MainJobs => Front' = w.limit
    BY <1>5, <1>10 DEF Front, Written
  <2>3. \A c \in Blocks : Free(c)' => Free(c)
    BY <1>1, <1>4 DEF Free
  <2>4. \A c \in Nat : c < w.limit => c \in Blocks
    BY <1>0, <1>11 DEF Blocks
  <2>5. \A c \in Nat : w.ba <= c /\ c < w.limit => ~Free(c)'
    BY <2>1, <2>3, <2>4
  <2> QED
    BY <1>0, <1>3, <1>7, <1>10, <2>2, <2>3, <2>5, FrontMoves
<1>13. flash' \in [Mgmt -> Contents]
  BY <1>0, <1>1 DEF TypeInv
<1> QED
  BY <1>1, <1>3, <1>4, <1>5, <1>6, <1>7, <1>8, <1>9, <1>12, <1>13, WriteGoesOn

LEMMA PutIn ==
    ASSUME TypeInv, NEW b \in Mgmt, NEW k \in {"blank", "junk", "ecc"}, Put(b, Empty(k)),
           phys' = phys \/ phys' = phys \cup {b}
    PROVE  /\ Live' = Live \ {b} /\ \A x \in Live' : flash'[x] = flash[x]
           /\ flash' \in [Mgmt -> Contents]
<1>1. flash' = [flash EXCEPT ![b] = Empty(k)] /\ flash \in [Mgmt -> Contents]
  BY DEF Put, TypeInv
<1>2. Empty(k) \in Contents /\ ~IsTable(Empty(k))
  BY DEF Empty, Contents, IsTable
<1>3. flash' \in [Mgmt -> Contents] /\ \A x \in Mgmt : x # b => flash'[x] = flash[x]
  BY <1>1, <1>2
<1>4. ~IsTable(flash'[b])
  BY <1>1, <1>2
<1>5. Live' = {x \in Mgmt \ phys' : IsTable(flash'[x])}
  BY DEF Live, IsTable
<1>6. Live' = Live \ {b}
  <2>1. ASSUME NEW x \in Live' PROVE x \in Live /\ x # b
    BY <1>3, <1>4, <1>5 DEF Live
  <2>2. ASSUME NEW x \in Live, x # b PROVE x \in Live'
    <3>1. x \in Mgmt \ phys' /\ IsTable(flash[x])
      BY <2>2 DEF Live
    <3>2. flash'[x] = flash[x]
      BY <1>3, <2>2, <3>1
    <3> QED
      BY <1>5, <3>1, <3>2
  <2> QED
    BY <2>1, <2>2
<1> QED
  BY <1>3, <1>6 DEF Live

LEMMA EraseTableStep ==
    ASSUME Good, EraseTable
    PROVE  Good'
<1> USE LiveBlocks DEF NoTable
<1>0. /\ TypeInv /\ RangeInv /\ LiveInv /\ FrontInv
      /\ ni \in Instances /\ w \in Writes
      /\ ni.main \in Nat /\ ni.backup \in Nat /\ ni.mapb \in Nat /\ ni.top \in Nat
      /\ w.ba \in Int /\ w.limit \in Nat
  BY Parts
<1> DEFINE b == Min(Usable)
           n == SetState(ni, FoundBad(b), "bad")
<1>1. /\ pc = "erase_table" /\ Usable # {}
      /\ UNCHANGED <<cache, op, kept, lone>>
      /\ \/ /\ Put(b, Empty("blank"))
            /\ pc' = "program_table" /\ w' = [w EXCEPT !.ba = b]
            /\ ni' = n /\ UNCHANGED <<phys, fails>>
         \/ /\ Fails(b, n) /\ w' = [w EXCEPT !.ba = b + 1]
            /\ UNCHANGED pc
  BY DEF EraseTable, histVars
<1>2. Writing /\ w.to \in WriteJobs /\ w.to \notin {"erase_table", "program_table"}
  BY <1>0, <1>1 DEF Writing, TypeInv, WriteJobs
<1>3. /\ b \in Nat /\ b \in Mgmt /\ b \in Blocks /\ w.ba <= b /\ b < w.limit
      /\ Free(b) /\ b # Keep(Job) /\ Low(Job) <= w.ba
      /\ \A c \in Nat : w.ba <= c /\ c < b => ~Free(c)
  BY <1>1, <1>2, UsableLeast
<1>4. \A x \in Live : x = Keep(Job) \/ x = b
  BY <1>2, OnlyKeep
<1>5. Low(Job) \in Nat
  BY <1>2, KeepOutside DEF Busy
<1>f. FoundBad(b) \subseteq phys
  BY DEF FoundBad
<1> HIDE DEF b
<1>6. /\ n \in Instances /\ n.map = ni.map /\ n.count = ni.count
      /\ n.main = ni.main /\ n.backup = ni.backup
      /\ n.mapb = ni.mapb /\ n.top = ni.top /\ n.protected = ni.protected
      /\ \A c \in Blocks : n.st[c] = IF c \in FoundBad(b) THEN "bad" ELSE ni.st[c]
  BY <1>0, SetStateIs
<1> HIDE DEF n
<1>7. /\ b + 1 \in Nat /\ b \in Int /\ b + 1 \in Int /\ b + 1 <= w.limit /\ b <= w.limit
  BY <1>0, <1>3
<1>8. CASE /\ Put(b, Empty("blank")) /\ pc' = "program_table"
           /\ w' = [w EXCEPT !.ba = b] /\ ni' = n /\ UNCHANGED <<phys, fails>>
  <2>1. /\ pc' = "program_table" /\ w' = [w EXCEPT !.ba = b] /\ ni' = n /\ phys' = phys
        /\ Put(b, Empty("blank"))
    BY <1>8
  <2>2. /\ ni' \in Instances /\ ni'.map = ni.map /\ ni'.count = ni.count
        /\ ni'.main = ni.main /\ ni'.backup = ni.backup
        /\ ni'.mapb = ni.mapb /\ ni'.top = ni.top /\ ni'.protected = ni.protected
    BY <1>6, <2>1
  <2>3. /\ \A c \in Blocks : ni'.st[c] = "good" => ni.st[c] = "good"
        /\ \A c \in Blocks : ni.st[c] = "good" /\ c \notin phys' => ni'.st[c] = "good"
    BY <1>6, <1>f, <2>1
  <2>4. /\ w'.to = w.to /\ w'.limit = w.limit /\ w'.tmp = w.tmp /\ w'.try = w.try
        /\ w'.ba = b
    BY <1>0, <2>1 DEF Writes
  <2>5. w' \in Writes
    BY <1>0, <1>7, <2>1, WriteTypes, TosMembers, Zenon
  <2>6. /\ Live' = Live \ {b} /\ \A x \in Live' : flash'[x] = flash[x]
        /\ flash' \in [Mgmt -> Contents]
    BY <1>0, <1>3, <2>1, PutIn
  <2>7. Live' \subseteq Live /\ \A x \in Live' : flash'[x] = flash[x] /\ x = Keep(Job)
    BY <1>4, <2>6
  <2>8. Keep(Job) \in Live => Keep(Job) \in Live'
    BY <1>3, <2>6
  <2>9. /\ Job' = Job /\ Job = w.to /\ On' /\ Busy' /\ Writing'
    BY <1>1, <1>2, <2>1, <2>2, <2>4, JobKept
  <2>10. \A c \in Blocks : Free(c)' => Free(c)
    BY <2>1, <2>3 DEF Free
  <2>11. FrontInv'
    <3>1. Job \in MainJobs => Front' = b
      BY <2>4, <2>9 DEF Front
    <3>2. \A c \in Nat : c < b => c \in Blocks
      BY <1>3 DEF Blocks
    <3>3. \A c \in Nat : w.ba <= c /\ c < b => ~Free(c)'
      BY <1>3, <2>10, <3>2
    <3> QED
      BY <1>2, <1>3, <1>7, <2>2, <2>9, <2>10, <3>1, <3>3, FrontMoves
  <2>12. Free(w.ba)' /\ Low(Job) <= w'.ba /\ w'.ba < w.limit
    BY <1>0, <1>3, <1>5, <2>1, <2>3, <2>4 DEF Free
  <2> QED
    BY <1>1, <1>2, <2>1, <2>2, <2>3, <2>4, <2>5, <2>6, <2>7, <2>8, <2>11, <2>12, WriteGoesOn
<1>9. CASE Fails(b, n) /\ w' = [w EXCEPT !.ba = b + 1] /\ UNCHANGED pc
  <2>1. /\ pc' = pc /\ w' = [w EXCEPT !.ba = b + 1] /\ ni' = SetState(n, {b}, "bad")
        /\ phys' = phys \cup {b} /\ Put(b, Empty("junk"))
    BY <1>9 DEF Fails
  <2>2. /\ ni' \in Instances /\ ni'.map = ni.map /\ ni'.count = ni.count
        /\ ni'.main = ni.main /\ ni'.backup = ni.backup
        /\ ni'.mapb = ni.mapb /\ ni'.top = ni.top /\ ni'.protected = ni.protected
    <3>1. SetState(n, {b}, "bad") \in Instances
      BY <1>6, SetStateIs
    <3>2. LET m == SetState(n, {b}, "bad") IN
          /\ m.map = n.map /\ m.count = n.count /\ m.main = n.main /\ m.backup = n.backup
          /\ m.mapb = n.mapb /\ m.top = n.top /\ m.protected = n.protected
      BY <1>6, SetStateIs
    <3> QED
      BY <1>6, <2>1, <3>1, <3>2
  <2>s. \A c \in Blocks : ni'.st[c] = IF c \in {b} THEN "bad" ELSE n.st[c]
    BY <1>6, <2>1, SetStateIs
  <2>3. /\ \A c \in Blocks : ni'.st[c] = "good" => ni.st[c] = "good"
        /\ \A c \in Blocks : ni.st[c] = "good" /\ c \notin phys' => ni'.st[c] = "good"
    BY <1>6, <1>f, <2>1, <2>s
  <2>4. /\ w'.to = w.to /\ w'.limit = w.limit /\ w'.tmp = w.tmp /\ w'.try = w.try
        /\ w'.ba = b + 1
    BY <1>0, <2>1 DEF Writes
  <2>5. w' \in Writes
    BY <1>0, <1>7, <2>1, WriteTypes, TosMembers, Zenon
  <2>6. /\ Live' = Live \ {b} /\ \A x \in Live' : flash'[x] = flash[x]
        /\ flash' \in [Mgmt -> Contents]
    BY <1>0, <1>3, <2>1, PutIn
  <2>7. Live' \subseteq Live /\ \A x \in Live' : flash'[x] = flash[x] /\ x = Keep(Job)
    BY <1>4, <2>6
  <2>8. Keep(Job) \in Live => Keep(Job) \in Live'
    BY <1>3, <2>6
  <2>9. /\ Job' = Job /\ Job = w.to /\ On' /\ Busy' /\ Writing'
    BY <1>1, <1>2, <2>1, <2>2, <2>4, JobKept
  <2>10. \A c \in Blocks : Free(c)' => Free(c)
    BY <2>1, <2>3 DEF Free
  <2>11. FrontInv'
    <3>1. Job \in MainJobs => Front' = b + 1
      BY <2>4, <2>9 DEF Front
    <3>2. \A c \in Nat : c < b + 1 => c \in Blocks
      BY <1>3 DEF Blocks
    <3>3. \A c \in Nat : w.ba <= c /\ c < b + 1 => ~Free(c)'
      <4>1. \A c \in Nat : c = b => ~Free(c)'
        BY <2>1 DEF Free
      <4> QED
        BY <1>3, <2>10, <3>2, <4>1
    <3> QED
      BY <1>2, <1>3, <1>7, <2>2, <2>9, <2>10, <3>1, <3>3, FrontMoves
  <2>12. pc' = "erase_table" /\ Low(Job) <= w'.ba
    BY <1>0, <1>1, <1>3, <1>5, <2>1, <2>4
  <2> QED
    BY <1>1, <1>2, <2>1, <2>2, <2>3, <2>4, <2>5, <2>6, <2>7, <2>8, <2>11, <2>12, WriteGoesOn
<1> QED
  BY <1>1, <1>8, <1>9

LEMMA ProgramFailsStep ==
    ASSUME Good, pc = "program_table", Fails(w.ba, ni), pc' = "erase_table",
           w' = [w EXCEPT !.ba = @ + 1], UNCHANGED <<cache, op, kept, lone>>
    PROVE  Good'
<1> USE LiveBlocks DEF NoTable
<1>0. /\ TypeInv /\ RangeInv /\ LiveInv /\ FrontInv
      /\ ni \in Instances /\ w \in Writes
      /\ ni.main \in Nat /\ ni.backup \in Nat /\ ni.mapb \in Nat /\ ni.top \in Nat
      /\ w.ba \in Int /\ w.limit \in Nat
  BY Parts
<1> DEFINE b == w.ba
<1>2. Writing /\ w.to \in WriteJobs /\ w.to \notin {"erase_table", "program_table"}
  BY <1>0 DEF Writing, TypeInv, WriteJobs
<1>5. Low(Job) \in Nat /\ DataBlocks <= Low(Job) /\ w.limit <= ni.top /\ ni.top < SignatureBa
      /\ Keep(Job) \in Nat /\ (Keep(Job) < Low(Job) \/ w.limit <= Keep(Job))
  BY <1>2, KeepOutside DEF Busy
<1>s. Low(Job) <= w.ba /\ w.ba < w.limit /\ Free(w.ba)
  BY <1>0, <1>2 DEF RangeInv
<1>3. /\ b \in Nat /\ b \in Mgmt /\ b \in Blocks /\ w.ba <= b /\ b < w.limit
      /\ b # Keep(Job)
  BY <1>0, <1>5, <1>s DEF Mgmt, Blocks
<1>4. \A x \in Live : x = Keep(Job)
  BY <1>2, OnlyKeep
<1> HIDE DEF b
<1>7. /\ b + 1 \in Nat /\ b \in Int /\ b + 1 \in Int /\ b + 1 <= w.limit /\ b <= w.limit
  BY <1>0, <1>3
<1>9. Good'
  <2>1. /\ w' = [w EXCEPT !.ba = b + 1] /\ ni' = SetState(ni, {b}, "bad")
        /\ phys' = phys \cup {b} /\ Put(b, Empty("junk"))
    BY DEF Fails, b
  <2>2. /\ ni' \in Instances /\ ni'.map = ni.map /\ ni'.count = ni.count
        /\ ni'.main = ni.main /\ ni'.backup = ni.backup
        /\ ni'.mapb = ni.mapb /\ ni'.top = ni.top /\ ni'.protected = ni.protected
    BY <1>0, <2>1, SetStateIs
  <2>s. \A c \in Blocks : ni'.st[c] = IF c \in {b} THEN "bad" ELSE ni.st[c]
    BY <1>0, <2>1, SetStateIs
  <2>3. /\ \A c \in Blocks : ni'.st[c] = "good" => ni.st[c] = "good"
        /\ \A c \in Blocks : ni.st[c] = "good" /\ c \notin phys' => ni'.st[c] = "good"
    BY <2>1, <2>s
  <2>4. /\ w'.to = w.to /\ w'.limit = w.limit /\ w'.tmp = w.tmp /\ w'.try = w.try
        /\ w'.ba = b + 1
    BY <1>0, <2>1 DEF Writes
  <2>5. w' \in Writes
    BY <1>0, <1>7, <2>1, BaType, Zenon
  <2>6. /\ Live' = Live \ {b} /\ \A x \in Live' : flash'[x] = flash[x]
        /\ flash' \in [Mgmt -> Contents]
    BY <1>0, <1>3, <2>1, PutIn
  <2>7. Live' \subseteq Live /\ \A x \in Live' : flash'[x] = flash[x] /\ x = Keep(Job)
    BY <1>4, <2>6
  <2>8. Keep(Job) \in Live => Keep(Job) \in Live'
    BY <1>3, <2>6
  <2>9. /\ Job' = Job /\ Job = w.to /\ On' /\ Busy' /\ Writing'
    BY <1>2, <2>1, <2>2, <2>4, JobKept
  <2>10. \A c \in Blocks : Free(c)' => Free(c)
    BY <2>1, <2>3 DEF Free
  <2>11. FrontInv'
    <3>1. Job \in MainJobs => Front' = b + 1
      BY <2>4, <2>9 DEF Front
    <3>2. \A c \in Nat : c < b + 1 => c \in Blocks
      BY <1>3 DEF Blocks
    <3>3. \A c \in Nat : w.ba <= c /\ c < b + 1 => ~Free(c)'
      <4>1. \A c \in Nat : c = b => ~Free(c)'
        BY <2>1 DEF Free
      <4>2. \A c \in Nat : w.ba <= c /\ c < b + 1 => c = b
        BY <1>3 DEF b
      <4> QED
        BY <4>1, <4>2
    <3> QED
      BY <1>2, <1>3, <1>7, <2>2, <2>9, <2>10, <3>1, <3>3, FrontMoves
  <2>12. Low(Job) <= w'.ba
    BY <1>0, <1>s, <1>3, <1>5, <2>1, <2>4 DEF b
  <2> QED
    BY <1>2, <2>1, <2>2, <2>3, <2>4, <2>5, <2>6, <2>7, <2>8, <2>11, <2>12, WriteGoesOn
<1> QED
  BY <1>9

LEMMA ProgramWorksStep ==
    ASSUME Good, pc = "program_table", Put(w.ba, cache), pc' = w.to,
           w' = [w EXCEPT !.start = w.ba],
           UNCHANGED <<phys, ni, cache, op, kept, lone>>
    PROVE  Good'
<1> USE LiveBlocks DEF NoTable
<1>0. /\ TypeInv /\ FlashInv /\ PlaceInv /\ RangeInv /\ LiveInv /\ FrontInv
      /\ OrderInv /\ CacheInv /\ KeptInv
      /\ ni \in Instances /\ w \in Writes
      /\ ni.main \in Nat /\ ni.backup \in Nat /\ ni.mapb \in Nat /\ ni.top \in Nat
      /\ w.ba \in Int /\ w.limit \in Nat
  BY Parts
<1>1. Writing /\ w.to \in WriteJobs /\ w.to \notin {"erase_table", "program_table"}
  BY <1>0 DEF Writing, TypeInv, WriteJobs
<1>2. /\ Low(Job) \in Nat /\ DataBlocks <= Low(Job) /\ w.limit <= ni.top /\ ni.top < SignatureBa
      /\ Keep(Job) \in Nat /\ (Keep(Job) < Low(Job) \/ w.limit <= Keep(Job))
  BY <1>1, KeepOutside DEF Busy
<1>3. Low(Job) <= w.ba /\ w.ba < w.limit /\ Free(w.ba)
  BY <1>0, <1>1 DEF RangeInv
<1>4. PICK p \in Nat : p = w.ba
  BY <1>0, <1>2, <1>3
<1>5. /\ p \in Mgmt /\ p \in Blocks /\ p < w.limit /\ p < ni.top /\ p < SignatureBa - 1
      /\ p # Keep(Job) /\ p # NoTable /\ p \notin phys /\ ni.st[p] = "good"
  BY <1>0, <1>2, <1>3, <1>4 DEF Mgmt, Blocks, Free
<1>6. \A x \in Live : x = Keep(Job)
  BY <1>1, OnlyKeep
<1>7. /\ w'.to = w.to /\ w'.limit = w.limit /\ w'.tmp = w.tmp /\ w'.try = w.try
      /\ w'.start = p
  BY <1>0, <1>4 DEF Writes
<1>8. w' \in Writes
  BY <1>0, <1>4, WriteTypes, TosMembers, Zenon
<1>9. /\ Job' = Job /\ Job = w.to /\ Job \in WriteJobs
      /\ Keep(Job)' = Keep(Job) /\ Victim(Job)' = Victim(Job)
      /\ Low(Job)' = Low(Job) /\ High(Job)' = High(Job)
      /\ On /\ On' /\ Busy /\ Busy' /\ ~Calm' /\ ~Behind'
      /\ ~Done /\ ~Writing' /\ Done'
  BY <1>1, <1>7, JobKept
<1>10. cache \in Tables
  BY <1>0, <1>9 DEF TypeInv
<1>11. /\ flash' \in [Mgmt -> Contents] /\ flash'[p] = cache
       /\ \A x \in Mgmt : x # p => flash'[x] = flash[x]
  <2>1. flash' = [flash EXCEPT ![p] = cache] /\ flash \in [Mgmt -> Contents]
    BY <1>0, <1>4, <1>5 DEF Put, TypeInv
  <2>2. cache \in Contents
    BY <1>10 DEF Contents
  <2> QED
    BY <1>5, <2>1, <2>2
<1>12. IsTable(cache)
  BY <1>10 DEF IsTable, Tables
<1>13. Live' = Live \cup {p}
  BY <1>5, <1>11, <1>12 DEF Live
<1>14. /\ \A x \in Live : flash'[x] = flash[x] /\ x = Keep(Job)
       /\ \A x \in Live' : x = p \/ x \in Live
       /\ \A x \in Live' : x \in Blocks /\ x \in Nat /\ x < ni.top /\ ni.st[x] = "good"
  BY <1>0, <1>5, <1>6, <1>9, <1>11, <1>13 DEF LiveInv
<1>15. /\ cache.map = ni.map /\ cache.count = ni.count
       /\ \A b \in Blocks : /\ ni.st[b] = "good" => cache.st[b] = "good"
                            /\ cache.st[b] = "good" => ni.st[b] = "good" \/ b \in phys
       /\ \A x \in Live : Older(flash[x], cache)
  BY <1>0, <1>9 DEF CacheInv
<1>16. \A x \in Live' : /\ flash'[x].count <= ni.count
                        /\ \A b \in Blocks : ni.st[b] = "good" => flash'[x].st[b] = "good"
                        /\ Above(flash'[x].map, ni.top) /\ flash'[x] \in Tables
                        /\ OneToOne(flash'[x].map)
  <2>1. ASSUME NEW x \in Live
        PROVE  /\ flash[x].count <= ni.count
               /\ \A b \in Blocks : ni.st[b] = "good" => flash[x].st[b] = "good"
               /\ Above(flash[x].map, ni.top) /\ flash[x] \in Tables
               /\ OneToOne(flash[x].map)
    BY <1>0, <1>9, LiveTables DEF OrderInv, FlashInv
  <2>2. /\ cache.count <= ni.count
        /\ Above(cache.map, ni.top) /\ OneToOne(cache.map)
    <3>1. ni.count \in Nat
      BY Parts
    <3> QED
      BY <1>0, <1>9, <1>15, <3>1 DEF PlaceInv
  <2> QED
    BY <1>10, <1>11, <1>14, <1>15, <2>1, <2>2
<1>17. \A x, y \in Live' : Older(flash'[x], flash'[y]) \/ Older(flash'[y], flash'[x])
  <2> SUFFICES ASSUME NEW x \in Live', NEW y \in Live'
               PROVE  Older(flash'[x], flash'[y]) \/ Older(flash'[y], flash'[x])
    OBVIOUS
  <2>1. CASE x \in Live /\ y \in Live
    BY <1>0, <1>14, <2>1 DEF FlashInv
  <2>2. CASE x = p /\ y \in Live
    BY <1>11, <1>14, <1>15, <2>2
  <2>3. CASE x \in Live /\ y = p
    BY <1>11, <1>14, <1>15, <2>3
  <2>4. CASE x = p /\ y = p
    BY <2>4 DEF Older
  <2> QED
    BY <1>14, <2>1, <2>2, <2>3, <2>4
<1>18. Front' = Front /\ Front \in {p, Keep(Job)} /\ Front \in Nat
  <2>1. Written'
    BY <1>5, <1>7 DEF Written
  <2>2. Front' = Front
    BY <1>4, <1>7, <1>9, <2>1, <1>1 DEF Front
  <2>3. Front \in {p, Keep(Job)}
    BY <1>1, <1>4, <1>9 DEF Front, Keep, MainJobs, WriteJobs
  <2> QED
    BY <1>2, <2>2, <2>3
<1>19. FlashInv'
  <2>1. \A x \in Live' : x < SignatureBa - 1 /\ OneToOne(flash'[x].map)
    BY <1>0, <1>2, <1>14, <1>16
  <2>2. \A x, y \in Live' : Above(flash'[x].map, y + 1)
    <3> SUFFICES ASSUME NEW x \in Live', NEW y \in Live' PROVE Above(flash'[x].map, y + 1)
      OBVIOUS
    <3>1. y + 1 \in Int /\ y + 1 <= ni.top /\ ni.top \in Int
      BY <1>0, <1>14
    <3>2. flash'[x].map \in Maps
      BY <1>16 DEF Tables
    <3> QED
      BY <1>16, <3>1, <3>2, AboveLess
  <2>3. \A x, y \in Live' : flash'[x].st[y] = "good"
    BY <1>14, <1>16
  <2>4. ASSUME NEW x \in Live', NEW y \in Live', x < y, NEW b \in DataBlocks .. x - 1
        PROVE  b \in phys \/ flash'[x].st[b] # "good" \/ flash'[y].st[b] # "good"
    <3>1. x = p \/ y = p
      BY <1>2, <1>14, <2>4
    <3>2. x <= Front
      BY <1>14, <1>18, <2>4
    <3>3. b \in DataBlocks .. Front - 1 /\ b \in Blocks
      BY <1>14, <1>18, <3>2 DEF Blocks
    <3>4. ~Free(b)
      BY <1>0, <1>9, <3>3 DEF FrontInv
    <3>5. b \in phys \/ cache.st[b] # "good"
      BY <1>15, <3>3, <3>4 DEF Free
    <3> QED
      BY <1>11, <3>1, <3>5
  <2>5. \A x, y, z \in Live' : ~(x < y /\ y < z)
    <3>1. \A x \in Live' : x = p \/ x = Keep(Job)
      BY <1>14
    <3> QED
      BY <1>2, <3>1
  <2>6. phys' = phys
    OBVIOUS
  <2>7. /\ \A x \in Live' : OneToOne(flash[x].map)'
        /\ \A x, y \in Live' : Above(flash[x].map, y + 1)'
        /\ \A x, y \in Live' : Older(flash[x], flash[y])' \/ Older(flash[y], flash[x])'
    BY <2>1, <2>2, <1>17 DEF OneToOne, Above, Older
  <2> QED
    BY <2>1, <2>3, <2>4, <2>5, <2>6, <2>7 DEF FlashInv
<1>20. TypeInv'
  <2>1. pc' \in WriteJobs \cup RestPcs \cup {"off", "dead", "erase_table",
              "program_table", "clear", "cleared_behind"}
    BY <1>1
  <2>2. pc' # "clear"
    BY <1>1 DEF WriteJobs
  <2> QED
    BY <1>0, <1>7, <1>8, <1>9, <1>10, <1>11, <2>1, <2>2 DEF TypeInv
<1>21. PlaceInv'
  BY <1>0, <1>9 DEF PlaceInv
<1>22. RangeInv'
  <2>1. pc' # "clear" /\ pc' # "rescued" /\ pc' # "program_table"
    BY <1>1 DEF WriteJobs
  <2> QED
    BY <1>0, <1>3, <1>4, <1>7, <1>9, <2>1 DEF RangeInv
<1>23. LiveInv'
  <2>1. Written' /\ w'.start = p
    BY <1>5, <1>7 DEF Written
  <2> QED
    BY <1>9, <1>14, <2>1 DEF LiveInv
<1>24. FrontInv'
  <2>1. \A b : Free(b)' <=> Free(b)
    BY DEF Free
  <2> QED
    BY <1>0, <1>9, <1>18, <2>1 DEF FrontInv
<1>25. OrderInv'
  <2>1. \A x \in Live' : Above(flash[x].map, ni.top)'
    BY <1>16 DEF Above
  <2> QED
    BY <1>16, <2>1 DEF OrderInv
<1>26. CacheInv'
  <2>1. \A x \in Live' : Older(flash[x], cache)'
    BY <1>11, <1>14, <1>15 DEF Older
  <2> QED
    BY <1>15, <2>1 DEF CacheInv
<1>27. KeptInv'
  <2> SUFFICES ASSUME ~lone PROVE KeptInv'
    BY DEF KeptInv
  <2>1. /\ Job = "rebuilt_main" => kept = {} /\ op.then = "create"
        /\ Job # "rebuilt_main" =>
             /\ cache.map \in kept /\ Keep(Job) \in Live
             /\ flash[Keep(Job)].map \in kept
             /\ Job # "updated_backup" => flash[Keep(Job)].map = cache.map
    BY <1>0, <1>9 DEF KeptInv
  <2>2. Job # "rebuilt_main" =>
             /\ Keep(Job) \in Live' /\ flash'[Keep(Job)] = flash[Keep(Job)]
             /\ \A x \in Live' : flash'[x].map \in kept
    BY <1>11, <1>13, <1>14, <2>1
  <2>3. w'.start \in Live' /\ flash'[w'.start] = cache
    BY <1>7, <1>11, <1>13
  <2> QED
    BY <1>9, <2>1, <2>2, <2>3 DEF KeptInv
<1>28. NotedInv'
  BY <1>9 DEF NotedInv
<1> QED
  BY <1>19, <1>20, <1>21, <1>22, <1>23, <1>24, <1>25, <1>26, <1>27, <1>28 DEF Good

LEMMA ProgramTableStep ==
    ASSUME Good, ProgramTable
    PROVE  Good'
<1>1. CASE /\ Put(w.ba, cache) /\ pc' = w.to /\ w' = [w EXCEPT !.start = w.ba]
           /\ UNCHANGED <<phys, ni, fails>>
  BY <1>1, ProgramWorksStep DEF ProgramTable, histVars
<1>2. CASE Fails(w.ba, ni) /\ pc' = "erase_table" /\ w' = [w EXCEPT !.ba = @ + 1]
  BY <1>2, ProgramFailsStep DEF ProgramTable, histVars
<1> QED
  BY <1>1, <1>2 DEF ProgramTable

-----------------------------------------------------------------------------
(* The range that is erased lies between the tables. *)
LEMMA ClearRange ==
    ASSUME Good, pc = "clear", w.ba < w.limit
    PROVE  w.ba \in Nat /\ w.ba \in Mgmt /\ w.ba \in Blocks /\ w.ba \notin Live
<1> USE LiveBlocks DEF On, NoTable, Calm, Behind
<1>0. /\ TypeInv /\ PlaceInv /\ RangeInv /\ LiveInv
      /\ ni.main \in Nat /\ ni.backup \in Nat /\ ni.mapb \in Nat /\ ni.top \in Nat
      /\ w.ba \in Int /\ w.limit \in Nat /\ w.start \in Nat
  BY Parts
<1>1. CASE Calm
  <2>1. /\ ni.backup # NoTable /\ ni.main < w.ba /\ w.limit <= ni.backup
    BY <1>0, <1>1 DEF RangeInv
  <2>2. ni.main # NoTable /\ DataBlocks <= ni.main /\ ni.backup < ni.top /\ ni.top < SignatureBa
    BY <1>0, <2>1 DEF PlaceInv
  <2>3. \A x \in Live : x \in {ni.main, ni.backup}
    BY <1>0, <1>1 DEF LiveInv
  <2> QED
    BY <1>0, <2>1, <2>2, <2>3 DEF Mgmt, Blocks
<1>2. CASE Behind
  <2>1. /\ ni.main # NoTable /\ w.start < ni.top /\ ni.mapb <= w.ba /\ w.limit <= w.start
    BY <1>0, <1>2 DEF RangeInv
  <2>2. DataBlocks <= ni.main /\ ni.main < ni.mapb /\ ni.top < SignatureBa
    BY <1>0, <2>1 DEF PlaceInv
  <2>3. \A x \in Live : x \in {ni.main, w.start}
    BY <1>0, <1>2 DEF LiveInv
  <2> QED
    BY <1>0, <2>1, <2>2, <2>3 DEF Mgmt, Blocks
<1> QED
  BY <1>1, <1>2

LEMMA ClearGoesOn ==
    ASSUME Good, pc = "clear", w.ba < w.limit, UNCHANGED <<cache, pc, op, kept, lone>>,
           w' = [w EXCEPT !.ba = @ + 1],
           ni' \in Instances, ni'.map = ni.map, ni'.count = ni.count,
           ni'.main = ni.main, ni'.backup = ni.backup,
           ni'.mapb = ni.mapb, ni'.top = ni.top, ni'.protected = ni.protected,
           ni.changed => ni'.changed,
           \A c \in Blocks : ni'.st[c] = "good" => ni.st[c] = "good",
           \A c \in Blocks : ni.st[c] = "good" /\ c \notin phys' => ni'.st[c] = "good",
           phys \subseteq phys', flash' \in [Mgmt -> Contents], Live' = Live,
           \A x \in Live' : flash'[x] = flash[x]
    PROVE  Good'
<1> USE LiveBlocks DEF NoTable
<1>0. /\ TypeInv /\ FlashInv /\ PlaceInv /\ RangeInv /\ LiveInv /\ FrontInv
      /\ OrderInv /\ CacheInv /\ KeptInv /\ NotedInv
      /\ w \in Writes
      /\ ni.main \in Nat /\ ni.backup \in Nat /\ ni.mapb \in Nat /\ ni.top \in Nat
      /\ w.ba \in Int /\ w.limit \in Nat /\ w.start \in Nat
  BY Parts
<1>1. /\ w'.to = w.to /\ w'.limit = w.limit /\ w'.tmp = w.tmp /\ w'.try = w.try
      /\ w'.start = w.start /\ w'.ba = w.ba + 1
  BY <1>0 DEF Writes
<1>2. w' \in Writes
  <2>1. w.ba + 1 \in Int
    BY <1>0
  <2> QED
    BY <1>0, <2>1, WriteTypes, TosMembers, Zenon
<1>3. /\ (Calm' <=> Calm) /\ (Behind' <=> Behind) /\ On /\ On' /\ ~Busy' /\ ~Writing' /\ ~Done'
      /\ Job' = Job /\ Job = w.to /\ pc' = "clear"
      /\ ~Busy /\ Job \in {"create_map", "update", "rescued", "cleared_behind"}
  BY <1>0, <1>1 DEF Calm, Behind, On, Busy, Writing, Done, WriteJobs, RestPcs, Job, TypeInv
<1>4. TypeInv'
  BY <1>0, <1>1, <1>2, <1>3 DEF TypeInv
<1>5. FlashInv'
  BY <1>0, FewerTables
<1>6. PlaceInv'
  BY <1>0, <1>1, <1>3 DEF PlaceInv
<1>7. RangeInv'
  BY <1>0, <1>1, <1>3 DEF RangeInv
<1>8. LiveInv'
  <2>1. \A x \in Live : x \notin phys' /\ x \in Blocks
    <3>1. \A x \in Live' : x \notin phys'
      BY DEF Live
    <3> QED
      BY <3>1
  <2>2. \A x \in Live' : x < ni'.top /\ ni'.st[x] = "good"
    BY <1>0, <1>3, <2>1 DEF LiveInv
  <2> QED
    BY <1>0, <1>1, <1>3, <2>2 DEF LiveInv
<1>9. FrontInv'
  <2>1. Front' = Front /\ Front = ni.main
    BY <1>3 DEF Front
  <2>2. \A c \in Blocks : Free(c)' => Free(c)
    BY DEF Free
  <2>3. ni.main <= ni.top /\ ni.top < SignatureBa
    BY <1>0, <1>3 DEF PlaceInv
  <2>4. \A c \in DataBlocks .. Front - 1 : c \in Blocks
    BY <1>0, <2>1, <2>3 DEF Blocks
  <2> QED
    BY <1>0, <1>3, <2>1, <2>2, <2>4 DEF FrontInv
<1>10. OrderInv'
  <2>1. \A x \in Live' : Above(flash[x].map, ni.top)'
    BY <1>0, <1>3 DEF OrderInv, Above
  <2> QED
    BY <1>0, <1>3, <2>1 DEF OrderInv
<1>11. CacheInv'
  BY <1>3 DEF CacheInv
<1>12. KeptInv'
  BY <1>0, <1>1, <1>3 DEF KeptInv
<1>13. NotedInv'
  BY <1>0, <1>3 DEF NotedInv
<1> QED
  BY <1>4, <1>5, <1>6, <1>7, <1>8, <1>9, <1>10, <1>11, <1>12, <1>13 DEF Good

LEMMA ClearStep ==
    ASSUME Good, Clear
    PROVE  Good'
<1>0. TypeInv /\ ni \in Instances
  BY Parts
<1>1. /\ pc = "clear" /\ w.ba < w.limit /\ w' = [w EXCEPT !.ba = @ + 1]
      /\ UNCHANGED <<cache, pc, op, kept, lone>>
  BY DEF Clear, histVars
<1>2. w.ba \in Nat /\ w.ba \in Mgmt /\ w.ba \in Blocks /\ w.ba \notin Live
  BY <1>1, ClearRange
<1>3. CASE Put(w.ba, Empty("blank")) /\ UNCHANGED <<phys, ni, fails>>
  <2>1. /\ Live' = Live /\ \A x \in Live' : flash'[x] = flash[x]
        /\ flash' \in [Mgmt -> Contents]
    BY <1>0, <1>2, <1>3, PutIn
  <2> QED
    BY <1>0, <1>1, <1>3, <2>1, ClearGoesOn
<1>4. CASE Fails(w.ba, ni)
  <2>0. /\ ni' = SetState(ni, {w.ba}, "bad") /\ phys' = phys \cup {w.ba}
        /\ Put(w.ba, Empty("junk"))
    BY <1>4 DEF Fails
  <2>1. /\ Live' = Live /\ \A x \in Live' : flash'[x] = flash[x]
        /\ flash' \in [Mgmt -> Contents]
    BY <1>0, <1>2, <2>0, PutIn
  <2>2. /\ ni' \in Instances /\ ni'.map = ni.map /\ ni'.count = ni.count
        /\ ni'.main = ni.main /\ ni'.backup = ni.backup
        /\ ni'.mapb = ni.mapb /\ ni'.top = ni.top /\ ni'.protected = ni.protected
        /\ ni.changed => ni'.changed
    BY <1>0, <2>0, SetStateIs
  <2>3. \A c \in Blocks : ni'.st[c] = IF c \in {w.ba} THEN "bad" ELSE ni.st[c]
    BY <1>0, <2>0, SetStateIs
  <2>4. /\ \A c \in Blocks : ni'.st[c] = "good" => ni.st[c] = "good"
        /\ \A c \in Blocks : ni.st[c] = "good" /\ c \notin phys' => ni'.st[c] = "good"
    BY <2>0, <2>3
  <2> QED
    BY <1>1, <2>0, <2>1, <2>2, <2>4, ClearGoesOn
<1>5. CASE /\ ni.st[w.ba] # "good" \/ w.ba \in phys
           /\ ni' = IF ni.st[w.ba] = "good" THEN SetState(ni, {w.ba}, "bad") ELSE ni
           /\ UNCHANGED <<flash, phys, fails>>
  <2>1. /\ Live' = Live /\ \A x \in Live' : flash'[x] = flash[x]
        /\ flash' \in [Mgmt -> Contents]
    BY <1>0, <1>5 DEF Live, TypeInv
  <2>2. CASE ni.st[w.ba] # "good"
    BY <1>0, <1>1, <1>5, <2>1, <2>2, ClearGoesOn
  <2>3. CASE ni.st[w.ba] = "good"
    <3>0. ni' = SetState(ni, {w.ba}, "bad") /\ phys' = phys /\ w.ba \in phys
      BY <1>5, <2>3
    <3>2. /\ ni' \in Instances /\ ni'.map = ni.map /\ ni'.count = ni.count
          /\ ni'.main = ni.main /\ ni'.backup = ni.backup
          /\ ni'.mapb = ni.mapb /\ ni'.top = ni.top /\ ni'.protected = ni.protected
          /\ ni.changed => ni'.changed
      BY <1>0, <3>0, SetStateIs
    <3>3. \A c \in Blocks : ni'.st[c] = IF c \in {w.ba} THEN "bad" ELSE ni.st[c]
      BY <1>0, <3>0, SetStateIs
    <3>4. /\ \A c \in Blocks : ni'.st[c] = "good" => ni.st[c] = "good"
          /\ \A c \in Blocks : ni.st[c] = "good" /\ c \notin phys' => ni'.st[c] = "good"
      BY <3>0, <3>3
    <3> QED
      BY <1>1, <3>0, <2>1, <3>2, <3>4, ClearGoesOn
  <2> QED
    BY <2>2, <2>3
<1> QED
  BY <1>3, <1>4, <1>5 DEF Clear

-----------------------------------------------------------------------------
(* Steps that touch the mapping and the blocks it maps to, but no table *)

LEMMA PutOut ==
    ASSUME TypeInv, NEW b, b \notin Live, NEW k \in {"blank", "junk", "ecc"},
           Put(b, Empty(k)), phys' = phys \/ phys' = phys \cup {b}
    PROVE  /\ Live' = Live /\ \A x \in Live' : flash'[x] = flash[x]
           /\ flash' \in [Mgmt -> Contents]
<1>1. CASE b \in Mgmt
  BY <1>1, PutIn
<1>2. CASE b \notin Mgmt
  <2>1. flash' = flash
    BY <1>2 DEF Put
  <2> QED
    BY <1>2, <2>1 DEF Live, TypeInv
<1> QED
  BY <1>1, <1>2

\* A mapped block holds no table.
LEMMA MappedApart ==
    ASSUME Good, On, NEW l \in LogicBlocks
    PROVE  ni.map[l] \notin Live
<1>0. PlaceInv /\ LiveInv /\ ni.top \in Nat /\ ni \in Instances
  BY Parts
<1>1. ASSUME NEW x \in Live, ni.map[l] = x PROVE FALSE
  BY <1>0, <1>1, LiveBlocks DEF PlaceInv, LiveInv, Above
<1> QED
  BY <1>1

LEMMA CalmGoesOn ==
    ASSUME Good, pc \in RestPcs, pc' \in RestPcs \ {"rescued"},
           UNCHANGED <<cache, kept, lone, w>>, op' \in Ops,
           pc' = "update" => op'.then \in Thens,
           ni' \in Instances, ni'.count = ni.count, ni'.main = ni.main,
           ni'.backup = ni.backup, ni'.mapb = ni.mapb, ni'.protected = ni.protected,
           ni.mapb <= ni'.top, ni'.top <= ni.top,
           OneToOne(ni'.map), Above(ni'.map, ni'.top),
           \A c \in Blocks : ni'.st[c] = "good" => ni.st[c] = "good",
           \A c \in Live : ni'.st[c] = "good",
           phys \subseteq phys', flash' \in [Mgmt -> Contents], Live' = Live,
           \A x \in Live' : flash'[x] = flash[x],
           \/ ni'.protected
           \/ \A l \in LogicBlocks : ni'.map[l] # NoBlock => cache'.map[l] = ni'.map[l]
           \/ pc' \in {"update", "create_map"} /\ ni'.changed
    PROVE  Good'
<1> USE LiveBlocks DEF NoTable
<1>0. /\ TypeInv /\ FlashInv /\ PlaceInv /\ RangeInv /\ LiveInv /\ FrontInv
      /\ OrderInv /\ KeptInv
      /\ ni.main \in Nat /\ ni.backup \in Nat /\ ni.mapb \in Nat /\ ni.top \in Nat
      /\ ni'.top \in Nat /\ w \in Writes
  BY Parts DEF Instances
<1>1. /\ On /\ On' /\ Calm /\ Calm' /\ ~Behind' /\ ~Busy' /\ ~Done' /\ ~Writing'
      /\ ~Busy /\ ~Done /\ ~Writing /\ Job = pc /\ Job' = pc' /\ pc' # "clear"
  BY DEF On, Calm, Behind, Busy, Done, Writing, WriteJobs, RestPcs, Job
<1>2. TypeInv'
  <2>1. cache \in Tables
    BY <1>0, <1>1 DEF TypeInv
  <2>2. pc' \notin {"updated_backup", "updated_main", "wrote_tmp", "rescued_main",
                    "rebuilt_main", "rebuilt_backup"}
    BY DEF RestPcs
  <2> QED
    BY <1>0, <1>1, <2>1, <2>2 DEF TypeInv
<1>3. FlashInv'
  BY <1>0, FewerTables
<1>4. PlaceInv'
  <2>1. OneToOne(ni.map)' /\ Above(ni.map, ni.top)'
    BY DEF OneToOne, Above
  <2>2. ni'.mapb <= ni'.top /\ ni'.top < SignatureBa
    BY <1>0, <1>1 DEF PlaceInv
  <2> QED
    BY <1>0, <1>1, <2>1, <2>2 DEF PlaceInv
<1>5. RangeInv'
  <2>1. pc' # "program_table" /\ pc' # "rescued"
    BY DEF RestPcs
  <2> QED
    BY <1>1, <2>1 DEF RangeInv
<1>6. LiveInv'
  <2>1. \A x \in Live : x \in {ni.main, ni.backup}
    BY <1>0, <1>1 DEF LiveInv
  <2>2. \A x \in Live : x < ni.mapb
    BY <1>0, <1>1, <2>1 DEF PlaceInv
  <2> QED
    BY <1>0, <1>1, <2>1, <2>2 DEF LiveInv
<1>7. FrontInv'
  <2>1. Front' = Front /\ Front = ni.main
    BY <1>1 DEF Front, RestPcs
  <2>2. \A c \in Blocks : Free(c)' => Free(c)
    BY DEF Free
  <2>3. ni.main <= ni.top /\ ni.top < SignatureBa
    BY <1>0, <1>1 DEF PlaceInv
  <2>4. \A c \in DataBlocks .. Front - 1 : c \in Blocks
    BY <1>0, <2>1, <2>3 DEF Blocks
  <2> QED
    BY <1>0, <1>1, <2>1, <2>2, <2>4 DEF FrontInv
<1>8. OrderInv'
  <2>1. ASSUME NEW x \in Live' PROVE Above(flash'[x].map, ni'.top)
    <3>1. Above(flash[x].map, ni.top)
      BY <1>0, <1>1 DEF OrderInv, RestPcs
    <3>2. flash[x].map \in Maps
      BY <1>0, LiveTables DEF Tables
    <3>3. Above(flash[x].map, ni'.top)
      BY <1>0, <3>1, <3>2, AboveLess
    <3> QED
      BY <3>3
  <2>2. \A x \in Live' : Above(flash[x].map, ni.top)'
    BY <2>1 DEF Above
  <2> QED
    BY <1>0, <1>1, <2>2 DEF OrderInv
<1>9. CacheInv'
  BY <1>1 DEF CacheInv
<1>10. KeptInv'
  BY <1>0, <1>1 DEF KeptInv
<1>11. NotedInv'
  BY <1>1 DEF NotedInv, RestPcs
<1> QED
  BY <1>2, <1>3, <1>4, <1>5, <1>6, <1>7, <1>8, <1>9, <1>10, <1>11 DEF Good

LEMMA GiveUpIs ==
    ASSUME NEW n \in Instances, NEW pb
    PROVE  LET m == GiveUp(n, pb) IN
           /\ m \in Instances /\ m.map = n.map /\ m.count = n.count
           /\ m.main = n.main /\ m.backup = n.backup /\ m.mapb = n.mapb
           /\ m.top = n.top /\ m.dbc = n.dbc /\ m.protected = n.protected
           /\ n.changed => m.changed
           /\ \A b \in Blocks : /\ b # pb => m.st[b] = n.st[b]
                                /\ m.st[b] = "good" => n.st[b] = "good"
<1>1. CASE n.st[pb] = "remap"
  <2>1. GiveUp(n, pb) = n
    BY <1>1 DEF GiveUp
  <2> QED
    BY <2>1
<1>2. CASE n.st[pb] # "remap"
  <2>1. GiveUp(n, pb) = SetState(n, {pb}, "bad")
    BY <1>2 DEF GiveUp
  <2> DEFINE m == SetState(n, {pb}, "bad")
  <2>2. /\ m \in Instances /\ m.map = n.map /\ m.count = n.count
        /\ m.main = n.main /\ m.backup = n.backup /\ m.mapb = n.mapb
        /\ m.top = n.top /\ m.dbc = n.dbc /\ m.protected = n.protected
        /\ n.changed => m.changed
    BY SetStateIs
  <2>3. \A b \in Blocks : m.st[b] = IF b \in {pb} THEN "bad" ELSE n.st[b]
    BY SetStateIs
  <2> HIDE DEF m
  <2>4. \A b \in Blocks : /\ b # pb => m.st[b] = n.st[b]
                          /\ m.st[b] = "good" => n.st[b] = "good"
    BY <2>3
  <2> QED
    BY <2>1, <2>2, <2>4 DEF m
<1> QED
  BY <1>1, <1>2

\* As long as the top is good, it is the block that is mapped.
LEMMA MapBlockIs ==
    ASSUME NEW n \in Instances, NEW l \in LogicBlocks, n.mapb < n.top,
           n.top < SignatureBa, n.st[n.top] = "good"
    PROVE  LET m == MapBlock(n, l) IN
           /\ m \in Instances /\ m.map = [n.map EXCEPT ![l] = n.top]
           /\ m.top = n.top - 1 /\ m.changed /\ m.st = n.st /\ m.count = n.count
           /\ m.main = n.main /\ m.backup = n.backup /\ m.mapb = n.mapb
           /\ m.dbc = n.dbc /\ m.protected = n.protected
<1>0. n.top \in Nat /\ n.mapb \in Nat /\ n.map \in Maps
  BY DEF Instances
<1> DEFINE U == Unused(n)
<1>1. n.top \in U /\ \A b \in U : b <= n.top
  BY <1>0 DEF Unused, GoodIn
<1>2. \A b \in U : b \in Int
  BY <1>0 DEF Unused, GoodIn
<1>3. Max(U) = n.top
  <2> HIDE DEF U
  <2>1. Max(U) = CHOOSE x \in U : \A y \in U : x >= y
    BY DEF Max
  <2>2. \E x \in U : \A y \in U : x >= y
    BY <1>0, <1>1, <1>2
  <2>3. Max(U) \in U /\ \A y \in U : Max(U) >= y
    BY <2>1, <2>2
  <2> QED
    BY <1>0, <1>1, <1>2, <2>3
<1>4. [n.map EXCEPT ![l] = n.top] \in Maps
  BY <1>0, LiveBlocks DEF Maps, Places
<1>5. n.top - 1 \in Nat
  BY <1>0
<1> DEFINE map == [n.map EXCEPT ![l] = n.top]
           top == n.top - 1
<1>6. MapBlock(n, l) = [n EXCEPT !.map = map, !.top = top, !.changed = TRUE]
  BY <1>3 DEF MapBlock
<1>7. map \in Maps /\ top \in Nat
  BY <1>4, <1>5
<1> HIDE DEF map, top
<1>8. MapBlock(n, l) \in Instances
  BY <1>6, <1>7 DEF Instances
<1>9. LET m == MapBlock(n, l) IN
           /\ m.map = map
           /\ m.top = top /\ m.changed /\ m.st = n.st /\ m.count = n.count
           /\ m.main = n.main /\ m.backup = n.backup /\ m.mapb = n.mapb
           /\ m.dbc = n.dbc /\ m.protected = n.protected
  BY <1>6 DEF Instances
<1> QED
  BY <1>8, <1>9 DEF map, top

LEMMA MapStays ==
    ASSUME NEW m \in Maps, NEW top \in Nat, DataBlocks <= top, NEW l \in LogicBlocks,
           OneToOne(m), Above(m, top), NEW t, t = [m EXCEPT ![l] = top]
    PROVE  OneToOne(t) /\ Above(t, top - 1)
<1>0. \A k \in LogicBlocks : m[k] \in Int
  BY LiveBlocks DEF Maps, Places, NoBlock
<1>1. t[l] = top /\ \A k \in LogicBlocks : k # l => t[k] = m[k]
  BY DEF Maps
<1>2. \A k \in LogicBlocks : m[k] # top
  BY <1>0, LiveBlocks DEF Above
<1>3. OneToOne(t)
  BY <1>0, <1>1, <1>2 DEF OneToOne
<1>4. Above(t, top - 1)
  BY <1>0, <1>1, LiveBlocks DEF Above
<1> QED
  BY <1>3, <1>4

LEMMA MapDropped ==
    ASSUME NEW m \in Maps, NEW top \in Nat, NEW a \in Nat, a <= top,
           NEW l \in LogicBlocks,
           OneToOne(m), Above(m, top), NEW z, z = [m EXCEPT ![l] = NoBlock]
    PROVE  OneToOne(z) /\ Above(z, a)
<1>0. \A k \in LogicBlocks : m[k] \in Int
  BY LiveBlocks DEF Maps, Places, NoBlock
<1>1. z[l] = NoBlock /\ \A k \in LogicBlocks : k # l => z[k] = m[k]
  BY DEF Maps
<1>2. OneToOne(z)
  BY <1>0, <1>1 DEF OneToOne
<1>3. Above(z, a)
  BY <1>0, <1>1, LiveBlocks DEF Above, NoBlock
<1> QED
  BY <1>2, <1>3

LEMMA CalmParts ==
    ASSUME Good, pc \in RestPcs
    PROVE  /\ TypeInv /\ PlaceInv /\ LiveInv /\ NotedInv /\ ni \in Instances /\ op \in Ops
           /\ ni.mapb \in Nat /\ ni.top \in Nat /\ ni.mapb <= ni.top
           /\ DataBlocks <= ni.mapb /\ ni.top < SignatureBa /\ OneToOne(ni.map)
           /\ Above(ni.map, ni.top) /\ ni.map \in Maps /\ op.lb \in LogicBlocks
           /\ \A x \in Live : ni.st[x] = "good" /\ x \in Blocks
           /\ \A l \in LogicBlocks : ni.map[l] \notin Live
           /\ flash \in [Mgmt -> Contents]
           /\ pc # "rescued" /\ pc \notin {"update", "create_map"} =>
                \/ ni.protected
                \/ \A l \in LogicBlocks : ni.map[l] # NoBlock => cache.map[l] = ni.map[l]
<1>1. On /\ Calm /\ Job = pc
  BY DEF On, Calm, RestPcs, Job
<1>2. /\ TypeInv /\ PlaceInv /\ LiveInv /\ NotedInv /\ ni \in Instances /\ op \in Ops
      /\ ni.mapb \in Nat /\ ni.top \in Nat
  BY Parts
<1>3. ni.map \in Maps /\ op.lb \in LogicBlocks
  BY <1>2 DEF Instances, Ops
<1>4. /\ ni.mapb <= ni.top /\ DataBlocks <= ni.mapb /\ ni.top < SignatureBa
      /\ OneToOne(ni.map) /\ Above(ni.map, ni.top)
  BY <1>1, <1>2 DEF PlaceInv
<1>5. \A x \in Live : ni.st[x] = "good" /\ x \in Blocks
  BY <1>1, <1>2, LiveBlocks DEF LiveInv
<1>6. \A l \in LogicBlocks : ni.map[l] \notin Live
  BY <1>1, MappedApart
<1>7. flash \in [Mgmt -> Contents]
  BY <1>2 DEF TypeInv
<1>8. pc # "rescued" /\ pc \notin {"update", "create_map"} =>
                \/ ni.protected
                \/ \A l \in LogicBlocks : ni.map[l] # NoBlock => cache.map[l] = ni.map[l]
  BY <1>1, <1>2 DEF NotedInv
<1> QED
  BY <1>2, <1>3, <1>4, <1>5, <1>6, <1>7, <1>8

LEMMA CreateMapStep ==
    ASSUME Good, CreateMap, ~skipped'
    PROVE  Good'
<1> USE LiveBlocks
<1>0. /\ ni \in Instances /\ op \in Ops /\ NotedInv
      /\ ni.mapb \in Nat /\ ni.top \in Nat /\ ni.mapb <= ni.top
      /\ DataBlocks <= ni.mapb /\ ni.top < SignatureBa /\ OneToOne(ni.map)
      /\ Above(ni.map, ni.top) /\ ni.map \in Maps
      /\ \A x \in Live : ni.st[x] = "good" /\ x \in Blocks
      /\ flash \in [Mgmt -> Contents] /\ pc = "create_map" /\ pc \in RestPcs
  <2>1. pc = "create_map" /\ pc \in RestPcs
    BY DEF CreateMap, RestPcs
  <2> QED
    BY <2>1, CalmParts
<1>1. UNCHANGED <<cache, w, kept, lone, flash, phys>>
  BY DEF CreateMap, flashVars
<1>2. Live' = Live
  BY <1>1, SameFlash
<1>3. CASE Unserved(ni) /\ ni.mapb # ni.top /\ Unused(ni) # {}
  <2>1. /\ ni' = [MapBlock(ni, ni.dbc) EXCEPT !.dbc = @ + 1]
        /\ skipped' = (skipped \/ ni.st[ni.top] # "good")
        /\ UNCHANGED <<pc, op>>
    BY <1>3 DEF CreateMap
  <2>2. ni.st[ni.top] = "good"
    BY <2>1, Zenon
  <2>3. ni.dbc \in LogicBlocks /\ ni.dbc \in Nat
    <3>1. ni.dbc \in Nat /\ ni.dbc < DataBlocks
      BY <1>0, <1>3 DEF Instances, Unserved
    <3> QED
      BY <3>1 DEF LogicBlocks
  <2> DEFINE m == MapBlock(ni, ni.dbc)
  <2>4. ni.mapb < ni.top
    BY <1>0, <1>3
  <2>5. /\ m \in Instances /\ m.map = [ni.map EXCEPT ![ni.dbc] = ni.top]
        /\ m.top = ni.top - 1 /\ m.changed /\ m.st = ni.st /\ m.count = ni.count
        /\ m.main = ni.main /\ m.backup = ni.backup /\ m.mapb = ni.mapb
        /\ m.dbc = ni.dbc /\ m.protected = ni.protected
    BY <1>0, <2>2, <2>3, <2>4, MapBlockIs
  <2> HIDE DEF m
  <2>6. m.dbc + 1 \in Nat /\ ni' = [m EXCEPT !.dbc = m.dbc + 1]
    <3>1. ni' = [m EXCEPT !.dbc = m.dbc + 1]
      BY <2>1 DEF m
    <3> QED
      BY <2>3, <2>5, <3>1
  <2> DEFINE d == m.dbc + 1
  <2>7. ni' = [m EXCEPT !.dbc = d] /\ d \in Nat
    BY <2>6
  <2> HIDE DEF d
  <2>8. /\ ni' \in Instances /\ ni'.map = m.map /\ ni'.top = m.top /\ ni'.changed = m.changed
        /\ ni'.st = m.st /\ ni'.count = m.count /\ ni'.main = m.main
        /\ ni'.backup = m.backup /\ ni'.mapb = m.mapb /\ ni'.protected = m.protected
    BY <2>5, <2>7 DEF Instances
  <2>9. OneToOne(ni'.map) /\ Above(ni'.map, ni'.top)
    <3>1. DataBlocks <= ni.top /\ ni'.map = [ni.map EXCEPT ![ni.dbc] = ni.top]
          /\ ni'.top = ni.top - 1
      BY <1>0, <2>5, <2>8
    <3> QED
      BY <1>0, <2>3, <3>1, MapStays
  <2>10. ni.mapb <= ni'.top /\ ni'.top <= ni.top
    BY <1>0, <2>4, <2>5, <2>8
  <2>11. pc' \in RestPcs \ {"rescued"} /\ pc' = "create_map" /\ ni'.changed
    BY <1>0, <2>1, <2>5, <2>8
  <2> QED
    BY <1>0, <1>1, <1>2, <2>1, <2>5, <2>8, <2>9, <2>10, <2>11, CalmGoesOn
<1>4. CASE ~(Unserved(ni) /\ ni.mapb # ni.top /\ Unused(ni) # {})
  <2>1. /\ pc' = "update" /\ UNCHANGED ni
        /\ \E t \in {"create_nospare", "created"} : op' = [op EXCEPT !.then = t]
    BY <1>4 DEF CreateMap
  <2>2. PICK t \in {"create_nospare", "created"} : op' = [op EXCEPT !.then = t]
    BY <2>1
  <2>3. t \in Thens
    BY DEF Thens
  <2>4. op' \in Ops /\ op'.then \in Thens
    BY <1>0, <2>2, <2>3 DEF Ops
  <2>5. pc' \in RestPcs \ {"rescued"}
    BY <2>1 DEF RestPcs
  <2>6. \/ ni.protected
        \/ \A l \in LogicBlocks : ni.map[l] # NoBlock => cache.map[l] = ni.map[l]
        \/ ni.changed
    BY <1>0 DEF NotedInv, Calm
  <2>7. \/ ni'.protected
        \/ \A l \in LogicBlocks : ni'.map[l] # NoBlock => cache'.map[l] = ni'.map[l]
        \/ pc' \in {"update", "create_map"} /\ ni'.changed
    BY <1>1, <2>1, <2>6
  <2>8. /\ ni' \in Instances /\ ni'.count = ni.count /\ ni'.main = ni.main
        /\ ni'.backup = ni.backup /\ ni'.mapb = ni.mapb /\ ni'.protected = ni.protected
        /\ ni.mapb <= ni'.top /\ ni'.top <= ni.top
        /\ OneToOne(ni'.map) /\ Above(ni'.map, ni'.top)
        /\ \A c \in Blocks : ni'.st[c] = "good" => ni.st[c] = "good"
        /\ \A c \in Live : ni'.st[c] = "good"
    BY <1>0, <2>1
  <2> QED
    BY <1>0, <1>1, <1>2, <2>4, <2>5, <2>7, <2>8, CalmGoesOn
<1> QED
  BY <1>3, <1>4

LEMMA WithMap ==
    ASSUME NEW n \in Instances, NEW map \in Maps
    PROVE  LET m == [n EXCEPT !.map = map] IN
           /\ m \in Instances /\ m.map = map /\ m.top = n.top
           /\ m.changed = n.changed /\ m.st = n.st /\ m.count = n.count
           /\ m.main = n.main /\ m.backup = n.backup /\ m.mapb = n.mapb
           /\ m.protected = n.protected
BY DEF Instances

LEMMA NoSpareStep ==
    ASSUME Good, NoSpare
    PROVE  Good'
<1> USE LiveBlocks
<1>0. /\ ni \in Instances /\ op \in Ops
      /\ ni.mapb \in Nat /\ ni.top \in Nat /\ ni.mapb <= ni.top
      /\ DataBlocks <= ni.mapb /\ ni.top < SignatureBa /\ OneToOne(ni.map)
      /\ Above(ni.map, ni.top) /\ ni.map \in Maps /\ op.lb \in LogicBlocks
      /\ \A x \in Live : ni.st[x] = "good" /\ x \in Blocks
      /\ \A l \in LogicBlocks : ni.map[l] \notin Live
      /\ flash \in [Mgmt -> Contents] /\ pc = "nospare" /\ pc \in RestPcs
      /\ \/ ni.protected
         \/ \A l \in LogicBlocks : ni.map[l] # NoBlock => cache.map[l] = ni.map[l]
  <2>1. pc = "nospare" /\ pc \in RestPcs
    BY DEF NoSpare, RestPcs
  <2> QED
    BY <2>1, CalmParts
<1> DEFINE n == [ni EXCEPT !.top = ni.mapb, !.map[op.lb] = NoBlock]
           pb == ni.map[op.lb]
<1>1. /\ UNCHANGED <<cache, w, kept, lone, flash, phys>> /\ pc' = "update"
      /\ op' = [op EXCEPT !.then = "idle"] /\ ni' = GiveUp(n, pb)
  BY DEF NoSpare, flashVars, histVars
<1>2. Live' = Live
  BY <1>1, SameFlash
<1> DEFINE z == [ni.map EXCEPT ![op.lb] = NoBlock]
<1>z. z \in Maps
  BY <1>0 DEF Maps, Places
<1>n. n = [ni EXCEPT !.top = ni.mapb, !.map = z]
  BY <1>0 DEF Instances
<1> HIDE DEF z
<1> HIDE DEF n
<1>3. /\ n \in Instances /\ n.map = [ni.map EXCEPT ![op.lb] = NoBlock] /\ n.top = ni.mapb
      /\ n.changed = ni.changed /\ n.st = ni.st /\ n.count = ni.count
      /\ n.main = ni.main /\ n.backup = ni.backup /\ n.mapb = ni.mapb
      /\ n.protected = ni.protected
  <2>1. /\ n \in Instances /\ n.map = z /\ n.top = ni.mapb
        /\ n.changed = ni.changed /\ n.st = ni.st /\ n.count = ni.count
        /\ n.main = ni.main /\ n.backup = ni.backup /\ n.mapb = ni.mapb
        /\ n.protected = ni.protected
    <3>1. n \in Instances
      BY <1>0, <1>n, <1>z DEF Instances
    <3> QED
      BY <1>0, <1>n, <3>1 DEF Instances
  <2> QED
    BY <2>1 DEF z
<1>4. pb \notin Live
  BY <1>0
<1> HIDE DEF pb
<1>5. /\ ni' \in Instances /\ ni'.map = n.map /\ ni'.count = n.count
      /\ ni'.main = n.main /\ ni'.backup = n.backup /\ ni'.mapb = n.mapb
      /\ ni'.top = n.top /\ ni'.protected = n.protected
      /\ \A b \in Blocks : /\ b # pb => ni'.st[b] = n.st[b]
                           /\ ni'.st[b] = "good" => n.st[b] = "good"
  BY <1>1, <1>3, GiveUpIs
<1>6. OneToOne(ni'.map) /\ Above(ni'.map, ni'.top)
  <2>1. ni'.map = [ni.map EXCEPT ![op.lb] = NoBlock] /\ ni'.top = ni.mapb
    BY <1>3, <1>5
  <2> QED
    BY <1>0, <2>1, MapDropped
<1>7. op' \in Ops /\ op'.then \in Thens
  BY <1>0, <1>1 DEF Ops, Thens
<1>8. \/ ni'.protected
      \/ \A l \in LogicBlocks : ni'.map[l] # NoBlock => cache'.map[l] = ni'.map[l]
  BY <1>0, <1>1, <1>3, <1>5 DEF Maps
<1>9. pc' \in RestPcs \ {"rescued"}
  BY <1>1 DEF RestPcs
<1>10. \A c \in Live : ni'.st[c] = "good"
  BY <1>0, <1>3, <1>4, <1>5
<1> QED
  BY <1>0, <1>1, <1>2, <1>3, <1>5, <1>6, <1>7, <1>8, <1>9, <1>10, CalmGoesOn

LEMMA WriteFailsStep ==
    ASSUME Good, NEW l \in LogicBlocks, WriteFails(l)
    PROVE  Good'
<1> USE LiveBlocks
<1>0. /\ ni \in Instances /\ op \in Ops
      /\ ni.mapb \in Nat /\ ni.top \in Nat /\ ni.mapb <= ni.top
      /\ OneToOne(ni.map) /\ Above(ni.map, ni.top)
      /\ \A x \in Live : ni.st[x] = "good" /\ x \in Blocks
      /\ ni.map[l] \notin Live
      /\ flash \in [Mgmt -> Contents] /\ pc = "idle" /\ pc \in RestPcs
      /\ \/ ni.protected
         \/ \A k \in LogicBlocks : ni.map[k] # NoBlock => cache.map[k] = ni.map[k]
  <2>1. pc = "idle" /\ pc \in RestPcs
    BY DEF WriteFails, MayWrite, RestPcs
  <2> QED
    BY <2>1, CalmParts
<1>1. /\ UNCHANGED <<cache, w, kept, lone, flash, phys>> /\ pc' = "update"
      /\ op' = [op EXCEPT !.then = "idle"] /\ ni' = SetState(ni, {ni.map[l]}, "remap")
  BY DEF WriteFails, histVars
<1>2. Live' = Live
  BY <1>1, SameFlash
<1>3. /\ ni' \in Instances /\ ni'.map = ni.map /\ ni'.count = ni.count
      /\ ni'.main = ni.main /\ ni'.backup = ni.backup
      /\ ni'.mapb = ni.mapb /\ ni'.top = ni.top /\ ni'.protected = ni.protected
  BY <1>0, <1>1, SetStateIs
<1>4. \A b \in Blocks : ni'.st[b] = IF b \in {ni.map[l]} THEN "remap" ELSE ni.st[b]
  BY <1>0, <1>1, SetStateIs
<1>5. /\ \A c \in Blocks : ni'.st[c] = "good" => ni.st[c] = "good"
      /\ \A c \in Live : ni'.st[c] = "good"
  BY <1>0, <1>4
<1>6. op' \in Ops /\ op'.then \in Thens
  BY <1>0, <1>1 DEF Ops, Thens
<1>7. pc' \in RestPcs \ {"rescued"}
  BY <1>1 DEF RestPcs
<1>8. /\ ni.mapb <= ni'.top /\ ni'.top <= ni.top /\ OneToOne(ni'.map)
      /\ Above(ni'.map, ni'.top)
      /\ \/ ni'.protected
         \/ \A k \in LogicBlocks : ni'.map[k] # NoBlock => cache'.map[k] = ni'.map[k]
  <2>1. ni.mapb <= ni'.top /\ ni'.top <= ni.top
    BY <1>0, <1>3
  <2>2. cache' = cache
    BY <1>1
  <2> QED
    BY <1>0, <1>3, <2>1, <2>2, Zenon
<1>9. /\ \A x \in Live' : flash'[x] = flash[x]
      /\ flash' \in [Mgmt -> Contents] /\ phys \subseteq phys'
  BY <1>0, <1>1
<1> QED
  BY <1>0, <1>1, <1>2, <1>3, <1>5, <1>6, <1>7, <1>8, <1>9, CalmGoesOn

LEMMA MarkBadStep ==
    ASSUME Good, NEW l \in LogicBlocks, MarkBad(l)
    PROVE  Good'
<1> USE LiveBlocks
<1>0. /\ ni \in Instances /\ op \in Ops /\ TypeInv
      /\ ni.mapb \in Nat /\ ni.top \in Nat /\ ni.mapb <= ni.top /\ DataBlocks <= ni.mapb
      /\ OneToOne(ni.map) /\ Above(ni.map, ni.top) /\ ni.map \in Maps
      /\ \A x \in Live : ni.st[x] = "good" /\ x \in Blocks
      /\ ni.map[l] \notin Live
      /\ flash \in [Mgmt -> Contents] /\ pc = "idle" /\ pc \in RestPcs
      /\ \/ ni.protected
         \/ \A k \in LogicBlocks : ni.map[k] # NoBlock => cache.map[k] = ni.map[k]
  <2>1. pc = "idle" /\ pc \in RestPcs
    BY DEF MarkBad, MayWrite, RestPcs
  <2> QED
    BY <2>1, CalmParts
<1> DEFINE n == [ni EXCEPT !.map[l] = NoBlock]
<1>1. /\ UNCHANGED <<cache, w, kept, lone, flash>> /\ pc' = "update"
      /\ phys' = phys \cup {ni.map[l]}
      /\ op' = [op EXCEPT !.then = "idle"] /\ ni' = SetState(n, {ni.map[l]}, "bad")
  BY DEF MarkBad, histVars
<1>2. Live' = Live
  BY <1>0, <1>1 DEF Live
<1> DEFINE z == [ni.map EXCEPT ![l] = NoBlock]
<1>z. z \in Maps
  BY <1>0 DEF Maps, Places
<1>n. n = [ni EXCEPT !.map = z]
  BY <1>0 DEF Instances
<1> HIDE DEF z
<1> HIDE DEF n
<1>3. /\ n \in Instances /\ n.map = [ni.map EXCEPT ![l] = NoBlock] /\ n.top = ni.top
      /\ n.st = ni.st /\ n.count = ni.count
      /\ n.main = ni.main /\ n.backup = ni.backup /\ n.mapb = ni.mapb
      /\ n.protected = ni.protected
  <2>1. /\ n \in Instances /\ n.map = z /\ n.top = ni.top
        /\ n.st = ni.st /\ n.count = ni.count
        /\ n.main = ni.main /\ n.backup = ni.backup /\ n.mapb = ni.mapb
        /\ n.protected = ni.protected
    BY <1>0, <1>n, <1>z, WithMap
  <2> QED
    BY <2>1 DEF z
<1>4. /\ ni' \in Instances /\ ni'.map = n.map /\ ni'.count = n.count
      /\ ni'.main = n.main /\ ni'.backup = n.backup
      /\ ni'.mapb = n.mapb /\ ni'.top = n.top /\ ni'.protected = n.protected
  BY <1>1, <1>3, SetStateIs
<1>5. \A b \in Blocks : ni'.st[b] = IF b \in {ni.map[l]} THEN "bad" ELSE n.st[b]
  BY <1>1, <1>3, SetStateIs
<1>6. /\ \A c \in Blocks : ni'.st[c] = "good" => ni.st[c] = "good"
      /\ \A c \in Live : ni'.st[c] = "good"
  BY <1>0, <1>3, <1>5
<1>7. OneToOne(ni'.map) /\ Above(ni'.map, ni'.top)
  <2>1. ni'.map = [ni.map EXCEPT ![l] = NoBlock] /\ ni'.top = ni.top /\ ni.top <= ni.top
    BY <1>0, <1>3, <1>4
  <2> QED
    BY <1>0, <2>1, MapDropped
<1>8. op' \in Ops /\ op'.then \in Thens
  BY <1>0, <1>1 DEF Ops, Thens
<1>9. \/ ni'.protected
      \/ \A k \in LogicBlocks : ni'.map[k] # NoBlock => cache'.map[k] = ni'.map[k]
  <2>1. /\ cache' = cache /\ ni'.map = [ni.map EXCEPT ![l] = NoBlock]
        /\ ni'.protected = ni.protected
    BY <1>1, <1>3, <1>4
  <2>2. \A k \in LogicBlocks : ni'.map[k] # NoBlock => ni'.map[k] = ni.map[k]
    BY <1>0, <2>1 DEF Maps
  <2> QED
    BY <1>0, <2>1, <2>2, Zenon
<1>10. pc' \in RestPcs \ {"rescued"}
  BY <1>1 DEF RestPcs
<1>11. ni.mapb <= ni'.top /\ ni'.top <= ni.top
  BY <1>0, <1>3, <1>4
<1> QED
  BY <1>0, <1>1, <1>2, <1>3, <1>4, <1>6, <1>7, <1>8, <1>9, <1>10, <1>11, CalmGoesOn

LEMMA RemapGoesOn ==
    ASSUME Good, ~skipped', pc = "erase", UNCHANGED <<cache, w, kept, lone>>,
           NEW n \in Instances, n.map = ni.map, n.count = ni.count,
           n.main = ni.main, n.backup = ni.backup, n.mapb = ni.mapb,
           n.top = ni.top, n.protected = ni.protected,
           NEW pb, pb \notin Live,
           \A c \in Blocks : /\ c # pb => n.st[c] = ni.st[c]
                             /\ n.st[c] = "good" => ni.st[c] = "good",
           phys \subseteq phys', flash' \in [Mgmt -> Contents], Live' = Live,
           \A x \in Live' : flash'[x] = flash[x],
           RemapLogic(n, pb)
    PROVE  Good'
<1> USE LiveBlocks
<1>0. /\ ni \in Instances /\ op \in Ops
      /\ ni.mapb \in Nat /\ ni.top \in Nat /\ ni.mapb <= ni.top
      /\ DataBlocks <= ni.mapb /\ ni.top < SignatureBa /\ OneToOne(ni.map)
      /\ Above(ni.map, ni.top) /\ ni.map \in Maps /\ op.lb \in LogicBlocks
      /\ \A x \in Live : ni.st[x] = "good" /\ x \in Blocks
      /\ pc \in RestPcs
      /\ \/ ni.protected
         \/ \A l \in LogicBlocks : ni.map[l] # NoBlock => cache.map[l] = ni.map[l]
  <2>1. pc \in RestPcs
    BY DEF RestPcs
  <2> QED
    BY <2>1, CalmParts
<1> DEFINE z == [ni.map EXCEPT ![op.lb] = NoBlock]
           dropped == [n EXCEPT !.map[op.lb] = NoBlock]
           mapped == MapBlock(n, op.lb)
<1>1. /\ pc' = "update"
      /\ \/ /\ n.mapb = n.top
            /\ ni' = GiveUp(dropped, pb) /\ op' = [op EXCEPT !.then = "idle"]
         \/ /\ n.mapb # n.top /\ Unused(n) = {}
            /\ ni' = n /\ op' = [op EXCEPT !.then = "nospare"]
         \/ /\ n.mapb # n.top /\ Unused(n) # {}
            /\ ni' = GiveUp(mapped, pb) /\ op' = [op EXCEPT !.then = "erase"]
            /\ skipped' = (skipped \/ n.st[n.top] # "good")
  BY DEF RemapLogic, Remap
<1>2. op' \in Ops /\ op'.then \in Thens
  <2>1. \E t \in {"idle", "nospare", "erase"} : op' = [op EXCEPT !.then = t]
    BY <1>1
  <2>2. PICK t \in {"idle", "nospare", "erase"} : op' = [op EXCEPT !.then = t]
    BY <2>1
  <2>3. t \in Thens
    BY DEF Thens
  <2> QED
    BY <1>0, <2>2, <2>3 DEF Ops
<1>3. pc' \in RestPcs \ {"rescued"}
  BY <1>1 DEF RestPcs
<1>4. z \in Maps /\ dropped = [n EXCEPT !.map = z]
  BY <1>0 DEF Maps, Places, Instances
<1>5. cache' = cache
  OBVIOUS
<1> HIDE DEF z, dropped, mapped
<1>6. CASE n.mapb = n.top /\ ni' = GiveUp(dropped, pb)
  <2>1. /\ dropped \in Instances /\ dropped.map = z /\ dropped.top = n.top
        /\ dropped.st = n.st /\ dropped.count = n.count
        /\ dropped.main = n.main /\ dropped.backup = n.backup /\ dropped.mapb = n.mapb
        /\ dropped.protected = n.protected
    BY <1>4, WithMap
  <2>2. /\ ni' \in Instances /\ ni'.map = dropped.map /\ ni'.count = dropped.count
        /\ ni'.main = dropped.main /\ ni'.backup = dropped.backup
        /\ ni'.mapb = dropped.mapb /\ ni'.top = dropped.top
        /\ ni'.protected = dropped.protected
        /\ \A b \in Blocks : /\ b # pb => ni'.st[b] = dropped.st[b]
                             /\ ni'.st[b] = "good" => dropped.st[b] = "good"
    BY <1>6, <2>1, GiveUpIs
  <2>3. OneToOne(ni'.map) /\ Above(ni'.map, ni'.top)
    <3>1. ni'.map = [ni.map EXCEPT ![op.lb] = NoBlock] /\ ni'.top = ni.top
          /\ ni.top <= ni.top
      BY <1>0, <2>1, <2>2 DEF z
    <3> QED
      BY <1>0, <3>1, MapDropped
  <2>4. /\ \A c \in Blocks : ni'.st[c] = "good" => ni.st[c] = "good"
        /\ \A c \in Live : ni'.st[c] = "good"
    BY <1>0, <2>1, <2>2
  <2>5. \/ ni'.protected
        \/ \A l \in LogicBlocks : ni'.map[l] # NoBlock => cache'.map[l] = ni'.map[l]
    <3>1. \A l \in LogicBlocks : ni'.map[l] # NoBlock => ni'.map[l] = ni.map[l]
      BY <1>0, <2>1, <2>2 DEF z, Maps
    <3>2. ni'.protected = ni.protected
      BY <2>1, <2>2
    <3> QED
      BY <1>0, <1>5, <3>1, <3>2
  <2>6. ni.mapb <= ni'.top /\ ni'.top <= ni.top
    BY <1>0, <2>1, <2>2
  <2> QED
    BY <1>0, <1>2, <1>3, <2>1, <2>2, <2>3, <2>4, <2>5, <2>6, CalmGoesOn
<1>7. CASE ni' = n
  <2>1. OneToOne(ni'.map) /\ Above(ni'.map, ni'.top) /\ ni' \in Instances
        /\ ni'.count = ni.count /\ ni'.main = ni.main /\ ni'.backup = ni.backup
        /\ ni'.mapb = ni.mapb /\ ni'.protected = ni.protected
    BY <1>0, <1>7
  <2>2. ni.mapb <= ni'.top /\ ni'.top <= ni.top
    BY <1>0, <1>7
  <2>3. /\ \A c \in Blocks : ni'.st[c] = "good" => ni.st[c] = "good"
        /\ \A c \in Live : ni'.st[c] = "good"
    BY <1>0, <1>7
  <2>4. \/ ni'.protected
        \/ \A l \in LogicBlocks : ni'.map[l] # NoBlock => cache'.map[l] = ni'.map[l]
    BY <1>0, <1>5, <1>7
  <2> QED
    BY <1>0, <1>2, <1>3, <2>1, <2>2, <2>3, <2>4, CalmGoesOn
<1>8. CASE /\ n.mapb # n.top
           /\ ni' = GiveUp(mapped, pb) /\ skipped' = (skipped \/ n.st[n.top] # "good")
  <2>1. n.st[n.top] = "good"
    BY <1>8, Zenon
  <2>2. n.mapb < n.top /\ n.top < SignatureBa
    BY <1>0, <1>8
  <2>3. /\ mapped \in Instances /\ mapped.map = [n.map EXCEPT ![op.lb] = n.top]
        /\ mapped.top = n.top - 1 /\ mapped.changed /\ mapped.st = n.st
        /\ mapped.count = n.count /\ mapped.main = n.main /\ mapped.backup = n.backup
        /\ mapped.mapb = n.mapb /\ mapped.protected = n.protected
    BY <1>0, <2>1, <2>2, MapBlockIs DEF mapped
  <2>4. /\ ni' \in Instances /\ ni'.map = mapped.map /\ ni'.count = mapped.count
        /\ ni'.main = mapped.main /\ ni'.backup = mapped.backup
        /\ ni'.mapb = mapped.mapb /\ ni'.top = mapped.top
        /\ ni'.protected = mapped.protected /\ (mapped.changed => ni'.changed)
        /\ \A b \in Blocks : /\ b # pb => ni'.st[b] = mapped.st[b]
                             /\ ni'.st[b] = "good" => mapped.st[b] = "good"
    BY <1>8, <2>3, GiveUpIs
  <2>5. OneToOne(ni'.map) /\ Above(ni'.map, ni'.top)
    <3>1. DataBlocks <= ni.top /\ ni'.map = [ni.map EXCEPT ![op.lb] = ni.top]
          /\ ni'.top = ni.top - 1
      BY <1>0, <2>3, <2>4
    <3> QED
      BY <1>0, <3>1, MapStays
  <2>6. /\ \A c \in Blocks : ni'.st[c] = "good" => ni.st[c] = "good"
        /\ \A c \in Live : ni'.st[c] = "good"
    BY <1>0, <2>3, <2>4
  <2>7. pc' \in {"update", "create_map"} /\ ni'.changed
    BY <1>1, <2>3, <2>4
  <2>8. ni.mapb <= ni'.top /\ ni'.top <= ni.top
    BY <1>0, <2>2, <2>3, <2>4
  <2> QED
    BY <1>0, <1>2, <1>3, <2>3, <2>4, <2>5, <2>6, <2>7, <2>8, CalmGoesOn
<1> QED
  BY <1>1, <1>6, <1>7, <1>8

LEMMA EraseLogicStep ==
    ASSUME Good, EraseLogic, ~skipped'
    PROVE  Good'
<1> USE LiveBlocks
<1> DEFINE pb == ni.map[op.lb]
<1>0. /\ TypeInv /\ ni \in Instances /\ op \in Ops
      /\ ni.mapb \in Nat /\ ni.top \in Nat /\ ni.mapb <= ni.top
      /\ OneToOne(ni.map) /\ Above(ni.map, ni.top)
      /\ \A x \in Live : ni.st[x] = "good" /\ x \in Blocks
      /\ pb \notin Live /\ flash \in [Mgmt -> Contents]
      /\ pc = "erase" /\ pc \in RestPcs
      /\ \/ ni.protected
         \/ \A l \in LogicBlocks : ni.map[l] # NoBlock => cache.map[l] = ni.map[l]
  <2>1. pc = "erase" /\ pc \in RestPcs
    BY DEF EraseLogic, RestPcs
  <2> QED
    BY <2>1, CalmParts
<1>1. UNCHANGED <<cache, w, kept, lone>>
  BY DEF EraseLogic
<1>2. \/ /\ pc' = "idle" /\ op' = NoOp /\ UNCHANGED <<flash, phys, ni>>
      \/ /\ Put(pb, Empty("blank")) /\ pc' = "idle" /\ op' = NoOp /\ UNCHANGED <<phys, ni>>
      \/ /\ phys' = phys \cup {pb} /\ Put(pb, Empty("junk"))
         /\ RemapLogic(SetState(ni, {pb}, "bad"), pb)
      \/ RemapLogic(GiveUp(ni, pb), pb) /\ UNCHANGED <<flash, phys>>
  BY DEF EraseLogic
<1> HIDE DEF pb
<1>3. ASSUME pc' = "idle", op' = NoOp, ni' = ni, phys' = phys, flash' \in [Mgmt -> Contents],
             Live' = Live, \A x \in Live' : flash'[x] = flash[x]
      PROVE  Good'
  <2>1. op' \in Ops
    BY <1>0, <1>3, OpTypes, ThensMembers, Zenon
  <2>2. pc' \in RestPcs \ {"rescued"} /\ pc' # "update"
    BY <1>3 DEF RestPcs
  <2>3. /\ OneToOne(ni'.map) /\ Above(ni'.map, ni'.top) /\ ni' \in Instances
        /\ ni'.count = ni.count /\ ni'.main = ni.main /\ ni'.backup = ni.backup
        /\ ni'.mapb = ni.mapb /\ ni'.protected = ni.protected
        /\ ni.mapb <= ni'.top /\ ni'.top <= ni.top
        /\ \A c \in Blocks : ni'.st[c] = "good" => ni.st[c] = "good"
        /\ \A c \in Live : ni'.st[c] = "good"
        /\ phys \subseteq phys'
    BY <1>0, <1>3
  <2>4. \/ ni'.protected
        \/ \A l \in LogicBlocks : ni'.map[l] # NoBlock => cache'.map[l] = ni'.map[l]
    BY <1>0, <1>1, <1>3
  <2> QED
    BY <1>0, <1>1, <1>3, <2>1, <2>2, <2>3, <2>4, CalmGoesOn
<1>4. CASE pc' = "idle" /\ op' = NoOp /\ UNCHANGED <<flash, phys, ni>>
  <2>1. Live' = Live
    BY <1>4, SameFlash
  <2> QED
    BY <1>0, <1>3, <1>4, <2>1
<1>5. CASE Put(pb, Empty("blank")) /\ pc' = "idle" /\ op' = NoOp /\ UNCHANGED <<phys, ni>>
  <2>1. /\ Live' = Live /\ \A x \in Live' : flash'[x] = flash[x]
        /\ flash' \in [Mgmt -> Contents]
    BY <1>0, <1>5, PutOut
  <2> QED
    BY <1>3, <1>5, <2>1
<1>6. CASE /\ phys' = phys \cup {pb} /\ Put(pb, Empty("junk"))
           /\ RemapLogic(SetState(ni, {pb}, "bad"), pb)
  <2>1. /\ Live' = Live /\ \A x \in Live' : flash'[x] = flash[x]
        /\ flash' \in [Mgmt -> Contents]
    BY <1>0, <1>6, PutOut
  <2> DEFINE n == SetState(ni, {pb}, "bad")
  <2>2. /\ n \in Instances /\ n.map = ni.map /\ n.count = ni.count
        /\ n.main = ni.main /\ n.backup = ni.backup /\ n.mapb = ni.mapb
        /\ n.top = ni.top /\ n.protected = ni.protected
    BY <1>0, SetStateIs
  <2>3. \A c \in Blocks : n.st[c] = IF c \in {pb} THEN "bad" ELSE ni.st[c]
    BY <1>0, SetStateIs
  <2>4. RemapLogic(n, pb)
    BY <1>6
  <2> HIDE DEF n
  <2>5. \A c \in Blocks : /\ c # pb => n.st[c] = ni.st[c]
                          /\ n.st[c] = "good" => ni.st[c] = "good"
    BY <2>3
  <2>6. phys \subseteq phys'
    BY <1>6
  <2> QED
    BY <1>0, <1>1, <2>1, <2>2, <2>4, <2>5, <2>6, RemapGoesOn
<1>7. CASE RemapLogic(GiveUp(ni, pb), pb) /\ UNCHANGED <<flash, phys>>
  <2>1. Live' = Live
    BY <1>7, SameFlash
  <2> DEFINE n == GiveUp(ni, pb)
  <2>2. /\ n \in Instances /\ n.map = ni.map /\ n.count = ni.count
        /\ n.main = ni.main /\ n.backup = ni.backup /\ n.mapb = ni.mapb
        /\ n.top = ni.top /\ n.protected = ni.protected
        /\ \A c \in Blocks : /\ c # pb => n.st[c] = ni.st[c]
                             /\ n.st[c] = "good" => ni.st[c] = "good"
    BY <1>0, GiveUpIs
  <2>4. RemapLogic(n, pb)
    BY <1>7
  <2> HIDE DEF n
  <2>5. /\ phys \subseteq phys' /\ flash' \in [Mgmt -> Contents]
        /\ \A x \in Live' : flash'[x] = flash[x]
    BY <1>0, <1>7
  <2> QED
    BY <1>0, <1>1, <2>1, <2>2, <2>4, <2>5, RemapGoesOn
<1> QED
  BY <1>2, <1>4, <1>5, <1>6, <1>7

-----------------------------------------------------------------------------
(* Loss of power *)

\* What may be destroyed is never the table a write keeps, nor one at rest.
LEMMA InFlightApart ==
    ASSUME Good, NEW b \in InFlight
    PROVE  \/ Writing /\ b \in Mgmt /\ b # Keep(Job)
           \/ b \notin Live
<1>0. /\ TypeInv /\ RangeInv /\ w.ba \in Int /\ w.limit \in Nat
  BY Parts
<1>1. CASE pc = "erase_table"
  <2>1. b \in Usable /\ \A c \in Usable : b <= c
    BY <1>1 DEF InFlight
  <2>2. Usable # {} /\ Writing
    BY <1>1, <2>1 DEF Writing
  <2> DEFINE m == Min(Usable)
  <2>3. m \in Nat /\ m \in Mgmt /\ m # Keep(Job) /\ w.ba <= m /\ m < w.limit /\ Free(m)
    BY <2>2, UsableLeast
  <2> HIDE DEF m
  <2>4. m \in Usable
    <3>1. m \in w.ba .. w.limit - 1
      BY <1>0, <2>3
    <3> QED
      BY <2>3, <3>1 DEF Usable, GoodIn, Free
  <2>5. b <= m /\ b \in Int /\ w.ba <= b
    BY <1>0, <2>1, <2>4 DEF Usable, GoodIn
  <2>6. Low(Job) <= w.ba /\ DataBlocks <= Low(Job) /\ Low(Job) \in Nat
    BY <1>0, <2>2, KeepOutside DEF RangeInv, Busy
  <2>7. b \in Mgmt
    BY <1>0, <2>3, <2>5, <2>6, LiveBlocks DEF Mgmt
  <2>8. b # Keep(Job)
    <3>1. b < w.limit /\ Low(Job) <= b
      BY <1>0, <2>3, <2>5, <2>6
    <3>2. Keep(Job) \in Nat /\ (Keep(Job) < Low(Job) \/ w.limit <= Keep(Job))
      BY <2>2, KeepOutside DEF Busy
    <3> QED
      BY <1>0, <2>5, <2>6, <3>1, <3>2
  <2> QED
    BY <2>2, <2>7, <2>8
<1>2. CASE pc = "program_table"
  <2>1. b = w.ba /\ Writing
    BY <1>2 DEF InFlight, Writing
  <2>2. Low(Job) <= w.ba /\ w.ba < w.limit
    BY <1>0, <1>2, <2>1 DEF RangeInv
  <2>3. /\ Keep(Job) \in Nat /\ (Keep(Job) < Low(Job) \/ w.limit <= Keep(Job))
        /\ DataBlocks <= Low(Job) /\ Low(Job) \in Nat /\ w.limit <= ni.top
        /\ ni.top < SignatureBa /\ ni.top \in Nat
    BY <2>1, KeepOutside, Parts DEF Busy
  <2> QED
    BY <1>0, <2>1, <2>2, <2>3, LiveBlocks DEF Mgmt
<1>3. CASE pc = "clear"
  <2>1. b = w.ba /\ b \in w.ba .. w.limit - 1
    BY <1>3 DEF InFlight, GoodIn
  <2>2. w.ba < w.limit
    BY <1>0, <2>1
  <2> QED
    BY <1>3, <2>1, <2>2, ClearRange
<1>4. CASE pc \in {"idle", "erase"}
  <2>1. \E l \in LogicBlocks : b = ni.map[l]
    BY <1>4 DEF InFlight
  <2>2. pc \in RestPcs
    BY <1>4 DEF RestPcs
  <2> QED
    BY <2>1, <2>2, CalmParts
<1> QED
  BY <1>1, <1>2, <1>3, <1>4 DEF InFlight

LEMMA PowerLossStep ==
    ASSUME Good, PowerLoss
    PROVE  Good'
<1> USE LiveBlocks DEF NoTable
<1>0. /\ TypeInv /\ FlashInv /\ LiveInv /\ RangeInv /\ KeptInv
  BY Parts
<1>1. /\ pc' = "off" /\ ni' = NoInstance /\ cache' = Empty("blank") /\ w' = NoWrite
      /\ op' = NoOp /\ UNCHANGED <<phys, kept, lone>>
  BY DEF PowerLoss, Forget, histVars
<1>2. \/ flash' = flash
      \/ \E b \in InFlight, k \in {"junk", "ecc"} : Put(b, Empty(k))
  BY DEF PowerLoss
<1>3. /\ flash' \in [Mgmt -> Contents] /\ Live' \subseteq Live
      /\ \A x \in Live' : flash'[x] = flash[x]
      /\ Writing /\ Keep(Job) \in Live => Keep(Job) \in Live'
      /\ ~Writing => Live' = Live
  <2>1. CASE flash' = flash
    <3>1. Live' = Live
      BY <1>1, <2>1, SameFlash
    <3> QED
      BY <1>0, <2>1, <3>1 DEF TypeInv
  <2>2. CASE flash' # flash
    <3>1. PICK b \in InFlight, k \in {"junk", "ecc"} : Put(b, Empty(k))
      BY <1>2, <2>2
    <3>2. CASE Writing /\ b \in Mgmt /\ b # Keep(Job)
      <4>1. /\ Live' = Live \ {b} /\ \A x \in Live' : flash'[x] = flash[x]
            /\ flash' \in [Mgmt -> Contents]
        BY <1>0, <1>1, <3>1, <3>2, PutIn
      <4> QED
        BY <3>2, <4>1
    <3>3. CASE b \notin Live
      <4>1. /\ Live' = Live /\ \A x \in Live' : flash'[x] = flash[x]
            /\ flash' \in [Mgmt -> Contents]
        BY <1>0, <1>1, <3>1, <3>3, PutOut
      <4> QED
        BY <4>1
    <3> QED
      BY <3>2, <3>3, InFlightApart
  <2> QED
    BY <2>1, <2>2
<1>4. /\ ~On' /\ ~Busy' /\ ~Writing' /\ ~Done' /\ ~Calm' /\ ~Behind' /\ Job' = "off"
  BY <1>1 DEF On, Busy, Writing, Done, Calm, Behind, Job, WriteJobs, RestPcs
<1>5. TypeInv'
  <2>1. NoInstance \in Instances
    BY Nothing
  <2>2. NoWrite \in Writes
    BY DEF NoWrite, Writes, Tos
  <2>3. NoOp \in Ops
    BY NmbmAssumption DEF NoOp, Ops, LogicBlocks, Thens
  <2> QED
    BY <1>1, <1>3, <1>4, <2>1, <2>2, <2>3 DEF TypeInv
<1>6. FlashInv'
  BY <1>0, <1>1, <1>3, FewerTables
<1>7. PlaceInv'
  <2>1. OneToOne(ni.map)'
    BY <1>1, Nothing DEF OneToOne
  <2>2. ni'.mapb = 0 /\ ni'.top = 0
    BY <1>1 DEF NoInstance
  <2> QED
    BY <1>4, <2>1, <2>2 DEF PlaceInv
<1>8. RangeInv'
  BY <1>1, <1>4 DEF RangeInv
<1>9. LiveInv' /\ FrontInv' /\ OrderInv' /\ CacheInv' /\ NotedInv'
  BY <1>1, <1>4 DEF LiveInv, FrontInv, OrderInv, CacheInv, NotedInv
<1>10. KeptInv'
  <2> SUFFICES ASSUME ~lone PROVE kept = {} \/ FlashKept'
    BY <1>1, <1>4 DEF KeptInv
  <2> SUFFICES ASSUME kept # {} PROVE FlashKept'
    OBVIOUS
  <2>1. CASE ~On
    <3>1. ~Writing
      BY <2>1 DEF On, Writing
    <3>2. FlashKept
      BY <1>0, <2>1 DEF KeptInv
    <3> QED
      BY <1>1, <1>3, <3>1, <3>2 DEF FlashKept
  <2>2. CASE Busy
    <3>1. /\ Job # "rebuilt_main" /\ Keep(Job) \in Live
          /\ flash[Keep(Job)].map \in kept
          /\ \A x \in Live : \/ flash[x].map \in kept
                             \/ flash[x].count < flash[Keep(Job)].count
      BY <1>0, <2>2 DEF KeptInv
    <3>2. Keep(Job) \in Live' /\ flash'[Keep(Job)] = flash[Keep(Job)]
      BY <1>3, <3>1
    <3> QED
      BY <1>1, <1>3, <3>1, <3>2 DEF FlashKept
  <2>3. CASE On /\ ~Busy
    <3>1. Calm \/ Behind
      BY <1>0, <2>3 DEF TypeInv, On, Busy, Writing, Done, Calm, Behind
    <3>2. cache.map \in kept /\ ni.main \in Live /\ \A x \in Live : flash[x].map = cache.map
      BY <1>0, <2>3, <3>1 DEF KeptInv
    <3>3. ~Writing
      BY <2>3 DEF Busy
    <3> QED
      BY <1>1, <1>3, <3>2, <3>3 DEF FlashKept
  <2> QED
    BY <2>1, <2>2, <2>3
<1> QED
  BY <1>5, <1>6, <1>7, <1>8, <1>9, <1>10 DEF Good

-----------------------------------------------------------------------------
(* What the searches find *)

LEMMA Greatest ==
    ASSUME NEW S \in SUBSET Int, IsFiniteSet(S), S # {}
    PROVE  Max(S) \in S /\ \A b \in S : b <= Max(S)
<1> DEFINE k == Cardinality(S) - 1
<1>1. Cardinality(S) \in Nat /\ Cardinality(S) # 0
  BY FS_CardinalityType, FS_EmptySet
<1>2. k \in 0 .. Cardinality(S) - 1
  BY <1>1
<1>3. PICK b \in S : Rank(S, b) = k
  BY <1>2, RankTaken
<1>4. \A d \in S : d <= b
  <2>1. ASSUME NEW d \in S, b < d PROVE FALSE
    <3>1. Rank(S, d) \in Nat /\ Rank(S, b) < Rank(S, d)
      BY <2>1, RankOrder
    <3> DEFINE D == {c \in S : c < d}
    <3>2. D \in SUBSET S
      OBVIOUS
    <3>3. IsFiniteSet(D) /\ Cardinality(D) <= Cardinality(S)
          /\ (Cardinality(S) = Cardinality(D) => S = D)
      BY <3>2, FS_Subset
    <3>4. d \in S /\ d \notin D
      BY <2>1
    <3> HIDE DEF D
    <3>5. Cardinality(D) = Rank(S, d)
      BY DEF D, Rank
    <3>6. Cardinality(S) # Cardinality(D)
      BY <3>3, <3>4
    <3> QED
      BY <1>1, <1>3, <3>1, <3>3, <3>5, <3>6
  <2> QED
    BY <2>1
<1>5. Max(S) = CHOOSE x \in S : \A y \in S : x >= y
  BY DEF Max
<1>6. b \in S /\ \A y \in S : b >= y
  BY <1>4
<1>7. Max(S) \in S /\ \A y \in S : Max(S) >= y
  BY <1>5, <1>6
<1> QED
  BY <1>7

LEMMA LiveLoadable ==
    ASSUME TypeInv, FlashInv, NEW st, NEW b \in DataBlocks .. SignatureBa - 2
    PROVE  Loadable(b, st) <=> b \in Live /\ st[b] = "good"
<1> USE LiveBlocks
<1>1. ASSUME Loadable(b, st) PROVE b \in Live /\ st[b] = "good"
  BY <1>1 DEF Loadable, Live, Mgmt
<1>2. ASSUME b \in Live, st[b] = "good" PROVE Loadable(b, st)
  <2>1. Above(flash[b].map, b + 1) /\ flash[b].st[b] = "good"
    BY <1>2 DEF FlashInv
  <2>2. flash[b].map \in Maps
    BY <1>2, LiveTables DEF Tables
  <2>3. \A l \in LogicBlocks : flash[b].map[l] \in Places
    BY <2>2 DEF Maps
  <2>4. \A l \in LogicBlocks : flash[b].map[l] \notin (DataBlocks .. b) \cup {SignatureBa}
    BY <2>1, <2>3 DEF Above, Places, NoBlock
  <2> QED
    BY <1>2, <2>1, <2>4 DEF Loadable, Live
<1> QED
  BY <1>1, <1>2

LEMMA SearchIs ==
    ASSUME TypeInv, FlashInv, NEW st, NEW a \in Nat, DataBlocks <= a
    PROVE  LET s == Search(a, st) IN
           \/ s = NoTable /\ \A x \in Live : a <= x => st[x] # "good"
           \/ /\ s \in Live /\ a <= s /\ st[s] = "good"
              /\ \A x \in Live : a <= x /\ st[x] = "good" => s <= x
<1> USE LiveBlocks
<1> DEFINE L == {b \in a .. SignatureBa - 2 : Loadable(b, st)}
<1>1. L \in SUBSET (a .. SignatureBa - 2)
  OBVIOUS
<1>2. \A b \in a .. SignatureBa - 2 : b \in DataBlocks .. SignatureBa - 2 /\ b \in Int
  OBVIOUS
<1>3. \A x \in Live : x <= SignatureBa - 2
  BY DEF FlashInv
<1>4. \A x \in L : x \in Live /\ a <= x /\ st[x] = "good"
  BY <1>2, LiveLoadable
<1>5. \A x \in Live : a <= x /\ st[x] = "good" => x \in L
  <2> SUFFICES ASSUME NEW x \in Live, a <= x, st[x] = "good" PROVE x \in L
    OBVIOUS
  <2>1. x \in a .. SignatureBa - 2
    BY <1>3
  <2> QED
    BY <1>2, <2>1, LiveLoadable
<1>6. Search(a, st) = IF L = {} THEN NoTable ELSE Min(L)
  BY DEF Search
<1>7. IsFiniteSet(L) /\ L \in SUBSET Int
  <2>1. IsFiniteSet(a .. SignatureBa - 2)
    BY FS_Interval
  <2> QED
    BY <1>1, <1>2, <2>1, FS_Subset
<1> HIDE DEF L
<1>8. L # {} => Min(L) \in L /\ \A b \in L : Min(L) <= b
  BY <1>7, Least
<1> QED
  BY <1>4, <1>5, <1>6, <1>8

\* The searches find all tables.
LEMMA FoundTables ==
    ASSUME TypeInv, FlashInv
    PROVE  /\ FindMain = NoTable => Live = {}
           /\ FindMain # NoTable =>
                /\ FindMain \in Live
                /\ LET b == FindBackup(FindMain) IN
                   \/ b = NoTable /\ Live = {FindMain}
                   \/ /\ b \in Live /\ b # NoTable /\ FindMain < b
                      /\ Live = {FindMain, b}
<1> USE LiveBlocks
<1>1. \A x \in Live : AllGood[x] = "good"
  BY DEF AllGood
<1>2. \/ FindMain = NoTable /\ Live = {}
      \/ /\ FindMain \in Live /\ \A x \in Live : FindMain <= x
  <2>1. \/ FindMain = NoTable /\ \A x \in Live : DataBlocks <= x => AllGood[x] # "good"
        \/ /\ FindMain \in Live
           /\ \A x \in Live : DataBlocks <= x /\ AllGood[x] = "good" => FindMain <= x
    BY SearchIs DEF FindMain
  <2> QED
    BY <1>1, <2>1
<1> SUFFICES ASSUME FindMain # NoTable
             PROVE  /\ FindMain \in Live
                    /\ LET b == FindBackup(FindMain) IN
                       \/ b = NoTable /\ Live = {FindMain}
                       \/ /\ b \in Live /\ b # NoTable /\ FindMain < b
                          /\ Live = {FindMain, b}
  BY <1>2
<1> DEFINE m == FindMain
           b == FindBackup(m)
<1>3. m \in Live /\ \A x \in Live : m <= x
  BY <1>2
<1> HIDE DEF m
<1>4. m + 1 \in Nat /\ DataBlocks <= m + 1
  BY <1>3
<1>5. \A x \in Live : flash[m].st[x] = "good"
  BY <1>3 DEF FlashInv
<1>6. \/ b = NoTable /\ \A x \in Live : m + 1 <= x => flash[m].st[x] # "good"
      \/ /\ b \in Live /\ m + 1 <= b
         /\ \A x \in Live : m + 1 <= x /\ flash[m].st[x] = "good" => b <= x
  BY <1>4, SearchIs DEF FindBackup
<1> HIDE DEF b
<1>7. \A x \in Live : x = m \/ m + 1 <= x
  BY <1>3
<1>8. CASE b = NoTable
  BY <1>3, <1>5, <1>6, <1>7, <1>8 DEF m, b
<1>9. CASE b # NoTable
  <2>1. b \in Live /\ m < b /\ \A x \in Live : m + 1 <= x => b <= x
    BY <1>3, <1>5, <1>6, <1>9
  <2>2. \A x \in Live : ~(m < b /\ b < x)
    BY <1>3, <2>1 DEF FlashInv
  <2>3. \A x \in Live : x = m \/ x = b
    BY <1>7, <2>1, <2>2
  <2> QED
    BY <1>3, <1>9, <2>1, <2>3 DEF m, b
<1> QED
  BY <1>8, <1>9

-----------------------------------------------------------------------------
(* A new chip: nmbm_create_info_table() *)

LEMMA NewInstanceIs ==
    LET n == NewInstance IN
    /\ n \in Instances /\ OneToOne(n.map) /\ n.count = 0
    /\ n.main = NoTable /\ n.backup = NoTable /\ n.mapb = 0
    /\ \A l \in LogicBlocks : n.map[l] < DataBlocks
    /\ n.top = 0 \/ (DataBlocks < n.top /\ n.top < SignatureBa)
<1> USE LiveBlocks
<1> DEFINE bad == phys \cup Unreadable(DataBlocks, SignatureBa - 1, AllGood)
           data == (0 .. DataBlocks - 1) \ bad
           T == {0} \cup ((DataBlocks + 1 .. SignatureBa - 1) \ bad)
           st == [b \in Blocks |-> IF b \in bad THEN "bad" ELSE "good"]
           map == [l \in LogicBlocks |->
                     IF l < Cardinality(data)
                     THEN CHOOSE b \in data : Cardinality({d \in data : d < b}) = l
                     ELSE NoBlock]
<1>1. NewInstance =
        [st |-> st, map |-> map, changed |-> bad # {}, count |-> 0, main |-> NoTable,
         backup |-> NoTable, mapb |-> 0, top |-> Max(T), dbc |-> Cardinality(data),
         protected |-> FALSE]
  BY DEF NewInstance
<1>2. IsFiniteSet(data) /\ data \in SUBSET Int /\ Cardinality(data) \in Nat
  <2>1. IsFiniteSet(0 .. DataBlocks - 1)
    BY FS_Interval
  <2>2. data \in SUBSET (0 .. DataBlocks - 1)
    OBVIOUS
  <2>3. \A x \in 0 .. DataBlocks - 1 : x \in Int
    OBVIOUS
  <2>4. IsFiniteSet(data)
    BY <2>1, <2>2, FS_Subset
  <2> QED
    BY <2>2, <2>3, <2>4, FS_CardinalityType
<1>3. Max(T) \in T
  <2>1. IsFiniteSet(0 .. SignatureBa - 1)
    BY FS_Interval
  <2>2. T \in SUBSET (0 .. SignatureBa - 1) /\ T # {}
    OBVIOUS
  <2>3. \A x \in 0 .. SignatureBa - 1 : x \in Int
    OBVIOUS
  <2>4. IsFiniteSet(T)
    BY <2>1, <2>2, FS_Subset
  <2>5. T \in SUBSET Int
    BY <2>2, <2>3
  <2> HIDE DEF T
  <2> QED
    BY <2>2, <2>4, <2>5, Greatest
<1>4. Max(T) \in Nat /\ (Max(T) = 0 \/ (DataBlocks < Max(T) /\ Max(T) < SignatureBa))
  <2> DEFINE x == Max(T)
  <2>1. x = 0 \/ x \in DataBlocks + 1 .. SignatureBa - 1
    BY <1>3
  <2> HIDE DEF x
  <2>2. x \in Nat /\ (x = 0 \/ (DataBlocks < x /\ x < SignatureBa))
    BY <2>1
  <2> QED
    BY <2>2 DEF x
<1>5. st \in [Blocks -> {"good", "remap", "bad"}]
  OBVIOUS
<1>6. \A l \in LogicBlocks : l < Cardinality(data) => map[l] \in data /\ Rank(data, map[l]) = l
  <2> SUFFICES ASSUME NEW l \in LogicBlocks, l < Cardinality(data)
               PROVE  map[l] \in data /\ Rank(data, map[l]) = l
    OBVIOUS
  <2>1. map[l] = CHOOSE b \in data : Cardinality({d \in data : d < b}) = l
    OBVIOUS
  <2> HIDE DEF data, map
  <2>2. l \in 0 .. Cardinality(data) - 1
    BY <1>2 DEF LogicBlocks
  <2>3. \E b \in data : Rank(data, b) = l
    BY <1>2, <2>2, RankTaken
  <2>4. \E b \in data : Cardinality({d \in data : d < b}) = l
    BY <2>3 DEF Rank
  <2>5. map[l] \in data /\ Cardinality({d \in data : d < map[l]}) = l
    BY <2>1, <2>4
  <2> QED
    BY <2>5 DEF Rank
<1>7. \A l \in LogicBlocks : ~(l < Cardinality(data)) => map[l] = NoBlock
  OBVIOUS
<1>8. \A x \in data : x \in Nat /\ x < DataBlocks
  OBVIOUS
<1>m. map = [l \in LogicBlocks |-> map[l]]
  OBVIOUS
<1> HIDE DEF st, T, data, map
<1>9. /\ \A l \in LogicBlocks : map[l] \in Places /\ map[l] < DataBlocks
      /\ OneToOne(map)
  <2>1. \A l \in LogicBlocks : map[l] \in Places /\ map[l] < DataBlocks
    BY <1>6, <1>7, <1>8 DEF Places, NoBlock
  <2>2. OneToOne(map)
    BY <1>6, <1>7, <1>8 DEF OneToOne, NoBlock
  <2> QED
    BY <2>1, <2>2
<1>10. map \in Maps
  BY <1>9, <1>m DEF Maps
<1> DEFINE ch == bad # {}
           tp == Max(T)
           dc == Cardinality(data)
<1>11. ch \in BOOLEAN /\ tp \in Nat /\ dc \in Nat
  BY <1>2, <1>4
<1>12. NewInstance =
        [st |-> st, map |-> map, changed |-> ch, count |-> 0, main |-> NoTable,
         backup |-> NoTable, mapb |-> 0, top |-> tp, dbc |-> dc,
         protected |-> FALSE]
  BY <1>1
<1>13. tp = 0 \/ (DataBlocks < tp /\ tp < SignatureBa)
  BY <1>4
<1> HIDE DEF ch, tp, dc
<1>14. NewInstance \in Instances
  BY <1>5, <1>10, <1>11, <1>12 DEF Instances, NoTable
<1>15. /\ NewInstance.map = map /\ NewInstance.count = 0
       /\ NewInstance.main = NoTable /\ NewInstance.backup = NoTable
       /\ NewInstance.mapb = 0 /\ NewInstance.top = tp
  BY <1>12
<1> QED
  BY <1>9, <1>13, <1>14, <1>15

LEMMA CountedIs ==
    ASSUME NEW n \in Instances
    PROVE  LET c == Counted(n) IN
           /\ c \in Instances /\ c.map = n.map /\ c.st = n.st /\ c.main = n.main
           /\ c.backup = n.backup /\ c.mapb = n.mapb /\ c.top = n.top
           /\ c.protected = n.protected /\ c.changed = n.changed
           /\ n.changed => c.count = n.count + 1
           /\ ~n.changed => c.count = n.count
<1>1. CASE n.changed
  <2> DEFINE k == n.count + 1
  <2>1. k \in Nat
    BY DEF Instances
  <2>2. Counted(n) = [n EXCEPT !.count = k]
    BY <1>1 DEF Counted
  <2>k. k = n.count + 1
    OBVIOUS
  <2> HIDE DEF k
  <2>3. [n EXCEPT !.count = k] \in Instances
    BY <2>1, CountType
  <2>4. LET c == [n EXCEPT !.count = k] IN
           /\ c.map = n.map /\ c.st = n.st /\ c.main = n.main
           /\ c.backup = n.backup /\ c.mapb = n.mapb /\ c.top = n.top
           /\ c.protected = n.protected /\ c.changed = n.changed
           /\ c.count = k
    BY DEF Instances
  <2> QED
    BY <1>1, <2>2, <2>3, <2>4, <2>k
<1>2. CASE ~n.changed
  <2>1. Counted(n) = n
    BY <1>2 DEF Counted
  <2> QED
    BY <1>2, <2>1
<1> QED
  BY <1>1, <1>2

LEMMA CreateStep ==
    ASSUME Good, Create
    PROVE  Good'
<1> USE LiveBlocks DEF NoTable
<1>0. /\ TypeInv /\ FlashInv /\ KeptInv /\ ni \in Instances /\ w \in Writes /\ op \in Ops
  BY Parts
<1>1. pc = "off" /\ FindMain = NoTable /\ UNCHANGED <<flash, phys, kept, lone>>
  BY DEF Create, flashVars, histVars
<1>2. Live = {} /\ Live' = {} /\ FlashInv'
  BY <1>0, <1>1, FoundTables, SameFlash
<1>3. ~lone => kept = {}
  BY <1>0, <1>1, <1>2 DEF KeptInv, FlashKept, On
<1> DEFINE n == Counted(NewInstance)
<1>4. NewInstance \in Instances
  BY NewInstanceIs
<1>5. /\ n \in Instances /\ n.map = NewInstance.map /\ n.mapb = NewInstance.mapb
      /\ n.top = NewInstance.top
  BY <1>4, CountedIs
<1>6. /\ OneToOne(n.map) /\ n.mapb = 0 /\ n.top \in Nat
      /\ \A l \in LogicBlocks : n.map[l] < DataBlocks
      /\ n.top = 0 \/ (DataBlocks < n.top /\ n.top < SignatureBa)
  <2>1. n.top \in Nat
    BY <1>5 DEF Instances
  <2> QED
    BY <1>5, <2>1, NewInstanceIs
<1>7. IF n.top = 0
      THEN /\ ni' = n /\ pc' = "dead" /\ UNCHANGED <<cache, w, op>>
      ELSE /\ cache' = TableOf(n)
           /\ op' = [op EXCEPT !.then = "create"]
           /\ StartRebuild(n)
  BY DEF Create
<1> HIDE DEF n
<1>8. CASE n.top = 0
  <2>1. ni' = n /\ pc' = "dead" /\ UNCHANGED <<cache, w, op>>
    BY <1>7, <1>8
  <2>2. /\ ~On' /\ ~Busy' /\ ~Writing' /\ ~Done' /\ ~Calm' /\ ~Behind' /\ Job' = "dead"
    BY <2>1 DEF On, Busy, Writing, Done, Calm, Behind, Job, WriteJobs, RestPcs
  <2>3. TypeInv'
    BY <1>0, <1>1, <1>5, <2>1, <2>2 DEF TypeInv
  <2>4. PlaceInv'
    <3>1. OneToOne(ni.map)'
      BY <1>6, <2>1 DEF OneToOne
    <3> QED
      BY <1>6, <1>8, <2>1, <2>2, <3>1 DEF PlaceInv
  <2>5. RangeInv' /\ LiveInv' /\ FrontInv' /\ OrderInv' /\ CacheInv' /\ NotedInv'
    BY <2>1, <2>2 DEF RangeInv, LiveInv, FrontInv, OrderInv, CacheInv, NotedInv
  <2>6. KeptInv'
    BY <1>1, <1>3, <2>2 DEF KeptInv
  <2> QED
    BY <1>2, <2>3, <2>4, <2>5, <2>6 DEF Good
<1>9. CASE n.top # 0
  <2>1. /\ cache' = TableOf(n) /\ op' = [op EXCEPT !.then = "create"]
        /\ ni' = [n EXCEPT !.main = NoTable, !.backup = NoTable, !.mapb = n.top]
        /\ pc' = "erase_table"
        /\ w' = [w EXCEPT !.ba = DataBlocks, !.limit = n.top, !.to = "rebuilt_main"]
    BY <1>7, <1>9 DEF StartRebuild, StartWrite
  <2>2. ni' \in Instances
    BY <1>5, <1>6, <2>1 DEF Instances
  <2>3. /\ ni'.map = n.map /\ ni'.st = n.st /\ ni'.count = n.count /\ ni'.main = NoTable
        /\ ni'.backup = NoTable /\ ni'.mapb = n.top /\ ni'.top = n.top
    BY <1>5, <2>1 DEF Instances
  <2>4. w'.ba = DataBlocks /\ w'.limit = n.top /\ w'.to = "rebuilt_main"
    BY <1>0, <2>1 DEF Writes
  <2>5. w' \in Writes
    <3>1. DataBlocks \in Int
      OBVIOUS
    <3> QED
      BY <1>0, <1>6, <2>1, <3>1, WriteTypes, TosMembers, Zenon
  <2>6. op' \in Ops /\ op'.then = "create"
    BY <1>0, <2>1, ThensMembers DEF Ops
  <2>7. /\ cache' \in Tables /\ cache'.map = n.map /\ cache'.st = n.st
        /\ cache'.count = n.count
    BY <1>5, <2>1, TableOfIs
  <2>8. /\ On' /\ Busy' /\ Writing' /\ ~Done' /\ ~Calm' /\ ~Behind' /\ Job' = "rebuilt_main"
    BY <2>1, <2>4 DEF On, Busy, Writing, Done, Calm, Behind, Job, WriteJobs, RestPcs
  <2>9. TypeInv'
    BY <1>0, <1>1, <2>1, <2>2, <2>4, <2>5, <2>6, <2>7, <2>8 DEF TypeInv, WriteJobs
  <2>10. PlaceInv'
    <3>1. OneToOne(ni.map)'
      BY <1>6, <2>3 DEF OneToOne
    <3>2. Above(ni.map, ni.top)'
      <4>1. \A l \in LogicBlocks : n.map[l] \in Int
        BY <1>5 DEF Instances, Maps, Places, NoBlock
      <4> QED
        BY <1>6, <2>3, <4>1 DEF Above
    <3> QED
      BY <1>6, <1>9, <2>3, <2>8, <3>1, <3>2 DEF PlaceInv
  <2>11. RangeInv'
    BY <2>1, <2>3, <2>4, <2>8 DEF RangeInv, High, Low, OlderJobs
  <2>12. LiveInv' /\ OrderInv' /\ NotedInv'
    BY <1>2, <2>8 DEF LiveInv, OrderInv, NotedInv
  <2>13. FrontInv'
    <3>1. Front' = DataBlocks
      BY <2>4, <2>8 DEF Front, MainJobs
    <3> QED
      BY <3>1 DEF FrontInv
  <2>14. CacheInv'
    BY <1>2, <2>3, <2>7 DEF CacheInv
  <2>15. KeptInv'
    BY <1>1, <1>2, <1>3, <2>6, <2>8 DEF KeptInv
  <2> QED
    BY <1>2, <2>9, <2>10, <2>11, <2>12, <2>13, <2>14, <2>15 DEF Good
<1> QED
  BY <1>8, <1>9

-----------------------------------------------------------------------------
(* An attach: nmbm_load_info_table() *)

LEMMA TopIs ==
    ASSUME TypeInv, FlashInv, NEW z \in Live
    PROVE  /\ TopOf(z) \in Nat /\ TopOf(z) < SignatureBa /\ Above(flash[z].map, TopOf(z))
           /\ \A y \in Live : y < TopOf(z)
<1> USE LiveBlocks
<1> DEFINE map == flash[z].map
           K == {k \in LogicBlocks : map[k] > z}
           S == {SignatureBa} \cup {map[l] : l \in K}
<1>1. TopOf(z) = Min(S) - 1
  BY DEF TopOf
<1>2. \A l \in LogicBlocks : map[l] \in Int /\ map[l] < SignatureBa
  <2>1. map \in Maps
    BY LiveTables DEF Tables
  <2> QED
    BY <2>1 DEF Maps, Places, NoBlock
<1>3. \A y \in Live : Above(map, y + 1) /\ y < SignatureBa - 1
  BY DEF FlashInv
<1>4. S \in SUBSET (0 .. SignatureBa)
  <2>1. \A k \in K : map[k] \in 0 .. SignatureBa
    BY <1>2
  <2> QED
    BY <2>1
<1>5. IsFiniteSet(S) /\ S \in SUBSET Int /\ S # {}
  <2>1. IsFiniteSet(0 .. SignatureBa)
    BY FS_Interval
  <2>2. \A x \in 0 .. SignatureBa : x \in Int
    OBVIOUS
  <2>3. IsFiniteSet(S)
    BY <1>4, <2>1, FS_Subset
  <2>4. S # {}
    OBVIOUS
  <2> QED
    BY <1>4, <2>2, <2>3, <2>4
<1>6. \A s \in S, y \in Live : y + 1 < s
  <2> SUFFICES ASSUME NEW s \in S, NEW y \in Live PROVE y + 1 < s
    OBVIOUS
  <2>1. CASE s = SignatureBa
    BY <1>3, <2>1
  <2>2. CASE s # SignatureBa
    <3>1. PICK l \in K : s = map[l]
      BY <2>2
    <3>2. map[l] >= DataBlocks
      BY <1>2, <3>1
    <3> QED
      BY <1>3, <3>1, <3>2 DEF Above
  <2> QED
    BY <2>1, <2>2
<1>7. \A l \in LogicBlocks : map[l] >= DataBlocks => map[l] \in S
  <2> SUFFICES ASSUME NEW l \in LogicBlocks, map[l] >= DataBlocks PROVE map[l] \in S
    OBVIOUS
  <2>1. map[l] > z
    BY <1>2, <1>3 DEF Above
  <2> QED
    BY <2>1
<1>8. SignatureBa \in S
  OBVIOUS
<1> HIDE DEF S, K, map
<1>9. Min(S) \in S /\ \A s \in S : Min(S) <= s
  BY <1>5, Least
<1>10. Min(S) \in Int /\ Min(S) <= SignatureBa
  BY <1>5, <1>8, <1>9
<1>11. \A y \in Live : y + 1 < Min(S)
  BY <1>6, <1>9
<1>12. Above(map, Min(S) - 1)
  <2> SUFFICES ASSUME NEW l \in LogicBlocks, map[l] >= DataBlocks
               PROVE  map[l] > Min(S) - 1
    BY DEF Above
  <2>1. Min(S) <= map[l]
    BY <1>7, <1>9
  <2> QED
    BY <1>2, <1>10, <2>1
<1>13. /\ Min(S) - 1 \in Nat /\ Min(S) - 1 < SignatureBa
       /\ \A y \in Live : y < Min(S) - 1
  BY <1>10, <1>11
<1> QED
  BY <1>1, <1>12, <1>13 DEF map

\* The two cases of what is found
Found(m, b) ==
    /\ m \in Live
    /\ \/ b = NoTable /\ Live = {m}
       \/ b \in Live /\ b # NoTable /\ m < b /\ Live = {m, b}

\* The block whose table is loaded
Newest(m, b) == IF b # NoTable /\ flash[b].count > flash[m].count THEN b ELSE m

LEMMA NewestIs ==
    ASSUME TypeInv, FlashInv, NEW m, NEW b, Found(m, b)
    PROVE  LET z == Newest(m, b) IN
           /\ z \in Live /\ Loaded(m, b) = flash[z] /\ (z = m \/ z = b)
           /\ ((flash[z] # flash[m]) <=> z = b)
           /\ \A x \in Live : Older(flash[x], flash[z])
<1> USE LiveBlocks
<1>0. \A x \in Live : flash[x].count \in Nat
  BY LiveTables DEF Tables
<1> DEFINE z == Newest(m, b)
<1>1. z \in Live /\ Loaded(m, b) = flash[z] /\ (z = m \/ z = b)
  BY DEF Found, Newest, Loaded
<1>2. (b \in Live /\ m < b /\ b # NoTable) \/ (b = NoTable /\ b # m)
  BY DEF Found, NoTable
<1>3. (flash[z] # flash[m]) <=> z = b
  BY <1>0, <1>2 DEF Found, Newest, NoTable
<1>4. \A x \in Live : Older(flash[x], flash[z])
  <2> SUFFICES ASSUME NEW x \in Live PROVE Older(flash[x], flash[z])
    OBVIOUS
  <2>1. x \in {m, b}
    BY DEF Found
  <2>2. flash[x].count <= flash[z].count
    BY <1>0, <1>1, <2>1 DEF Found, Newest
  <2>3. Older(flash[x], flash[z]) \/ Older(flash[z], flash[x])
    BY <1>1 DEF FlashInv
  <2> QED
    BY <1>0, <1>1, <2>2, <2>3 DEF Older
<1> QED
  BY <1>1, <1>3, <1>4

LEMMA LoadedIs ==
    ASSUME TypeInv, FlashInv, NEW m, NEW b, Found(m, b),
           NEW o, o = LoadedInstance(m, b), NEW y, y = Newest(m, b)
    PROVE  /\ o \in Instances /\ o.map = flash[y].map /\ o.count = flash[y].count
           /\ o.main = m /\ o.backup = b /\ o.mapb = (IF b = NoTable THEN m ELSE b) + 1
           /\ o.top = TopOf(y)
           /\ \A c \in Blocks : o.st[c] = "good" => flash[y].st[c] = "good"
           /\ \A x \in Live : o.st[x] = "good"
           /\ ~o.changed => o.st = flash[y].st
<1> USE LiveBlocks
<1> DEFINE z == Newest(m, b)
           before == Unreadable(DataBlocks, m, AllGood)
           behind == Unreadable(m + 1, IF b = NoTable THEN SignatureBa - 1 ELSE b,
                                flash[m].st)
           mapped == {l \in LogicBlocks : flash[z].map[l] # NoBlock}
           st == IF z = b THEN flash[z].st
                 ELSE [x \in Blocks |-> IF x \in behind THEN "bad" ELSE flash[z].st[x]]
           ch == before \cup behind # {}
           mb == (IF b = NoTable THEN m ELSE b) + 1
           tp == TopOf(z)
           dc == IF mapped = {} THEN DataBlocks ELSE Max(mapped) + 1
<1>1. /\ z \in Live /\ Loaded(m, b) = flash[z] /\ (z = m \/ z = b)
      /\ ((flash[z] # flash[m]) <=> z = b)
  BY NewestIs
<1>2. LoadedInstance(m, b) =
        [st |-> st, map |-> flash[z].map, changed |-> ch, count |-> flash[z].count,
         main |-> m, backup |-> b, mapb |-> mb, top |-> tp, dbc |-> dc,
         protected |-> FALSE]
  <2> HIDE DEF z
  <2>1. /\ (IF flash[z] # flash[m] THEN b ELSE m) = z
        /\ (IF flash[z] # flash[m] THEN flash[z].st
            ELSE [x \in Blocks |-> IF x \in behind THEN "bad" ELSE flash[z].st[x]]) = st
    BY <1>1
  <2> QED
    BY <1>1, <2>1, Zenon DEF LoadedInstance
<1>3. flash[z] \in Tables
  BY <1>1, LiveTables
<1>4. flash[z].map \in Maps /\ flash[z].count \in Nat
      /\ flash[z].st \in [Blocks -> {"good", "remap", "bad"}]
  BY <1>3 DEF Tables
<1>5. st \in [Blocks -> {"good", "remap", "bad"}]
  <2> HIDE DEF z, behind
  <2> QED
    BY <1>4
<1>6. m \in Nat /\ b \in Nat /\ mb \in Nat
  BY DEF Found, NoTable
<1>7. dc \in Nat
  <2> HIDE DEF z
  <2>1. mapped \in SUBSET (0 .. DataBlocks - 1)
    BY DEF LogicBlocks
  <2>2. IsFiniteSet(0 .. DataBlocks - 1)
    BY FS_Interval
  <2>3. IsFiniteSet(mapped)
    BY <2>1, <2>2, FS_Subset
  <2>4. \A x \in 0 .. DataBlocks - 1 : x \in Int /\ x \in Nat
    OBVIOUS
  <2> HIDE DEF mapped
  <2>5. mapped \in SUBSET Int
    BY <2>1, <2>4
  <2>6. mapped # {} => Max(mapped) \in mapped
    BY <2>3, <2>5, Greatest
  <2>7. mapped # {} => Max(mapped) \in Nat
    BY <2>1, <2>4, <2>6
  <2>8. mapped # {} => Max(mapped) + 1 \in Nat
    BY <2>7
  <2> QED
    BY <2>8
<1>8. tp \in Nat
  BY <1>1, TopIs
<1>9. ch \in BOOLEAN
  OBVIOUS
<1>10. \A c \in Blocks : st[c] = "good" => flash[z].st[c] = "good"
  <2> HIDE DEF z, behind
  <2> QED
    OBVIOUS
<1>11. \A x \in Live : st[x] = "good"
  <2> SUFFICES ASSUME NEW x \in Live PROVE st[x] = "good"
    OBVIOUS
  <2>1. flash[z].st[x] = "good"
    BY <1>1 DEF FlashInv
  <2>2. x \notin phys /\ flash[x].kind # "ecc"
    BY DEF Live, IsTable
  <2>3. x \notin behind
    BY <2>2 DEF Unreadable
  <2> HIDE DEF z, behind
  <2> QED
    BY <2>1, <2>3
<1>12. ~ch => st = flash[z].st
  <2> HIDE DEF z
  <2>1. ~ch => behind = {}
    OBVIOUS
  <2> HIDE DEF behind, ch
  <2> QED
    BY <1>4, <2>1
<1> DEFINE n == LoadedInstance(m, b)
<1> HIDE DEF z, before, behind, mapped, st, ch, mb, tp, dc
<1>13. n \in Instances
  BY <1>2, <1>4, <1>5, <1>6, <1>7, <1>8, <1>9 DEF Instances
<1>14. /\ n.map = flash[z].map /\ n.count = flash[z].count /\ n.main = m /\ n.backup = b
       /\ n.mapb = mb /\ n.top = tp /\ n.st = st /\ n.changed = ch
  BY <1>2
<1> HIDE DEF n
<1>15. n.mapb = (IF b = NoTable THEN m ELSE b) + 1 /\ n.top = TopOf(z)
  BY <1>14 DEF mb, tp
<1>16. /\ \A c \in Blocks : n.st[c] = "good" => flash[z].st[c] = "good"
       /\ \A x \in Live : n.st[x] = "good"
       /\ ~n.changed => n.st = flash[z].st
  BY <1>10, <1>11, <1>12, <1>14
<1>17. n = o /\ z = y
  BY DEF n, z
<1> QED
  BY <1>13, <1>14, <1>15, <1>16, <1>17

LEMMA LoadFacts ==
    ASSUME TypeInv, FlashInv, NEW m, NEW b, Found(m, b)
    PROVE  LET n == Counted(LoadedInstance(m, b))
               z == Newest(m, b) IN
           /\ n \in Instances /\ n.map = flash[z].map
           /\ n.main = m /\ n.backup = b /\ n.mapb = (IF b = NoTable THEN m ELSE b) + 1
           /\ n.top < SignatureBa /\ n.mapb <= n.top
           /\ Above(n.map, n.top) /\ OneToOne(n.map)
           /\ \A x \in Live : /\ flash[x].count <= n.count /\ x < n.top
                              /\ n.st[x] = "good"
                              /\ \A c \in Blocks : n.st[c] = "good" => flash[x].st[c] = "good"
                              /\ Older(flash[x], TableOf(n))
           /\ b # NoTable => \A c \in DataBlocks .. m - 1 : c \in phys \/ n.st[c] # "good"
<1> USE LiveBlocks
<1>z. PICK z : z = Newest(m, b)
  OBVIOUS
<1>o. PICK o : o = LoadedInstance(m, b)
  OBVIOUS
<1>n. PICK n : n = Counted(o)
  OBVIOUS
<1>t. PICK t : t = TableOf(n)
  OBVIOUS
<1>0. \A x \in Live : flash[x].count \in Nat /\ flash[x] \in Tables
  BY LiveTables DEF Tables
<1>1. /\ z \in Live /\ \A x \in Live : Older(flash[x], flash[z])
  BY <1>z, NewestIs
<1>2. /\ o \in Instances /\ o.map = flash[z].map /\ o.count = flash[z].count
      /\ o.main = m /\ o.backup = b /\ o.mapb = (IF b = NoTable THEN m ELSE b) + 1
      /\ o.top = TopOf(z)
      /\ \A c \in Blocks : o.st[c] = "good" => flash[z].st[c] = "good"
      /\ \A x \in Live : o.st[x] = "good"
      /\ ~o.changed => o.st = flash[z].st
  BY <1>z, <1>o, LoadedIs
<1>3. /\ TopOf(z) \in Nat /\ TopOf(z) < SignatureBa /\ Above(flash[z].map, TopOf(z))
      /\ \A y \in Live : y < TopOf(z)
  BY <1>1, TopIs
<1>4. /\ n \in Instances /\ n.map = o.map /\ n.st = o.st /\ n.main = o.main
      /\ n.backup = o.backup /\ n.mapb = o.mapb /\ n.top = o.top
      /\ o.changed => n.count = o.count + 1
      /\ ~o.changed => n.count = o.count
  BY <1>2, <1>n, CountedIs
<1>5. t \in Tables /\ t.map = n.map /\ t.st = n.st /\ t.count = n.count
  BY <1>4, <1>t, TableOfIs
<1>6. flash[z].count <= n.count
  BY <1>0, <1>1, <1>2, <1>4
<1>7. \A x \in Live : /\ flash[x].count <= flash[z].count
                      /\ \A c \in Blocks : flash[z].st[c] = "good" => flash[x].st[c] = "good"
  BY <1>0, <1>1 DEF Older
<1>8. n.mapb <= n.top
  <2>1. n.mapb - 1 \in Live
    BY <1>2, <1>4 DEF Found
  <2> QED
    BY <1>2, <1>3, <1>4, <2>1 DEF Found
<1>9. OneToOne(n.map)
  BY <1>1, <1>2, <1>4 DEF FlashInv
<1>10. n.top < SignatureBa /\ Above(n.map, n.top)
  BY <1>2, <1>3, <1>4
<1>11. \A x \in Live : /\ flash[x].count <= n.count /\ x < n.top /\ n.st[x] = "good"
                       /\ \A c \in Blocks : n.st[c] = "good" => flash[x].st[c] = "good"
  <2>1. n.count \in Nat
    BY <1>4 DEF Instances
  <2> SUFFICES ASSUME NEW x \in Live
               PROVE  /\ flash[x].count <= n.count /\ x < n.top /\ n.st[x] = "good"
                      /\ \A c \in Blocks : n.st[c] = "good" => flash[x].st[c] = "good"
    OBVIOUS
  <2>2. flash[x].count <= n.count
    BY <1>0, <1>1, <1>6, <1>7, <2>1
  <2> QED
    BY <1>2, <1>3, <1>4, <1>7, <2>2
<1>12. \A x \in Live : Older(flash[x], t)
  <2> SUFFICES ASSUME NEW x \in Live PROVE Older(flash[x], t)
    OBVIOUS
  <2>1. CASE o.changed
    <3>1. flash[x].count < t.count
      BY <1>0, <1>1, <1>2, <1>4, <1>5, <1>7, <2>1
    <3> QED
      BY <1>5, <1>11, <3>1 DEF Older
  <2>2. CASE ~o.changed
    <3>1. t.map = flash[z].map /\ t.st = flash[z].st /\ t.count = flash[z].count
      BY <1>2, <1>4, <1>5, <2>2
    <3>2. t = flash[z]
      BY <1>0, <1>1, <1>5, <3>1 DEF Tables
    <3> QED
      BY <1>1, <3>2
  <2> QED
    BY <2>1, <2>2
<1>13. b # NoTable => \A c \in DataBlocks .. m - 1 : c \in phys \/ n.st[c] # "good"
  <2> SUFFICES ASSUME b # NoTable, NEW c \in DataBlocks .. m - 1
               PROVE  c \in phys \/ n.st[c] # "good"
    OBVIOUS
  <2>1. m \in Live /\ b \in Live /\ m < b
    BY DEF Found
  <2>2. c \in phys \/ flash[m].st[c] # "good" \/ flash[b].st[c] # "good"
    BY <2>1 DEF FlashInv
  <2>3. c \in Blocks
    BY <2>1 DEF Blocks
  <2> QED
    BY <1>11, <2>1, <2>2, <2>3
<1>14. /\ n.map = flash[z].map /\ n.main = m /\ n.backup = b
       /\ n.mapb = (IF b = NoTable THEN m ELSE b) + 1
  BY <1>2, <1>4
<1> QED
  BY <1>4, <1>8, <1>9, <1>10, <1>11, <1>12, <1>13, <1>14, <1>z, <1>o, <1>n, <1>t

\* What follows an attach that has loaded n from the tables at m and b
GoesOn(m, b, n) ==
    \/ /\ b = NoTable /\ pc' = "erase_table"
       /\ w'.ba = DataBlocks /\ w'.limit = m /\ w'.to = "rescued_front"
    \/ /\ b # NoTable /\ pc' = "erase_table" /\ flash[m].count < flash[b].count
       /\ w'.ba = m /\ w'.limit = b /\ w'.to = "updated_older_main"
    \/ /\ b # NoTable /\ pc' = "erase_table" /\ flash[b].count < flash[m].count
       /\ w'.ba = b /\ w'.limit = n.top /\ w'.to = "updated_older_backup"
    \/ /\ b # NoTable /\ pc' = "idle" /\ flash[m].count = flash[b].count

LEMMA LoadGoesOn ==
    ASSUME Good, pc = "off", NEW m, NEW b, Found(m, b), NEW n,
           n = Counted(LoadedInstance(m, b)), UNCHANGED <<flash, phys, op, lone>>,
           cache' = TableOf(n), kept' = {n.map},
           ni' \in Instances, ni'.st = n.st, ni'.map = n.map, ni'.count = n.count,
           ni'.main = n.main, ni'.backup = n.backup, ni'.mapb = n.mapb,
           ni'.top = n.top, w' \in Writes,
           GoesOn(m, b, n)
    PROVE  Good'
<1> USE LiveBlocks DEF GoesOn
<1>0. TypeInv /\ FlashInv /\ op \in Ops
  BY Parts
<1>1. PICK z : z = Newest(m, b)
  OBVIOUS
<1>2. /\ z \in Live /\ (z = m \/ z = b) /\ \A x \in Live : Older(flash[x], flash[z])
  BY <1>0, <1>1, NewestIs
<1>3. /\ n \in Instances /\ n.map = flash[z].map
      /\ n.main = m /\ n.backup = b /\ n.mapb = (IF b = NoTable THEN m ELSE b) + 1
      /\ n.top < SignatureBa /\ n.mapb <= n.top
      /\ Above(n.map, n.top) /\ OneToOne(n.map)
      /\ \A x \in Live : /\ flash[x].count <= n.count /\ x < n.top
                         /\ n.st[x] = "good"
                         /\ \A c \in Blocks : n.st[c] = "good" => flash[x].st[c] = "good"
                         /\ Older(flash[x], TableOf(n))
      /\ b # NoTable => \A c \in DataBlocks .. m - 1 : c \in phys \/ n.st[c] # "good"
  BY <1>0, <1>1, LoadFacts
<1>4. /\ cache' \in Tables /\ cache'.map = n.map /\ cache'.st = n.st /\ cache'.count = n.count
  BY <1>3, TableOfIs
<1>5. Live' = Live /\ FlashInv'
  BY <1>0, SameFlash
<1>6. /\ m \in Live /\ \A x \in Live : x = m \/ x = b
      /\ b # NoTable => b \in Live /\ m < b
      /\ n.top \in Nat /\ n.mapb \in Nat
      /\ \A x \in Live : flash[x].count \in Nat
  BY <1>0, <1>3, LiveTables DEF Found, Instances, Tables
<1>7. /\ b = NoTable \/ flash[b].count <= flash[m].count => z = m
      /\ b # NoTable /\ flash[m].count < flash[b].count => z = b
  BY <1>1, <1>6 DEF Newest
<1>8. CASE pc' = "erase_table"
  <2>1. /\ On' /\ Busy' /\ Writing' /\ ~Done' /\ ~Calm' /\ ~Behind' /\ Job' = w'.to
    BY <1>8 DEF On, Busy, Writing, Done, Calm, Behind, Job, RestPcs, WriteJobs
  <2>2. w'.to \in {"rescued_front", "updated_older_main", "updated_older_backup"}
    BY <1>8
  <2>3. /\ Keep(Job)' = z /\ w'.limit = High(Job)' /\ Low(Job)' = w'.ba
        /\ Low(Job)' <= w'.ba
        /\ b # NoTable => Victim(Job)' # z /\ Victim(Job)' \in {m, b}
                          /\ flash[Victim(Job)'].count < flash[z].count
                          /\ Job' \in OlderJobs /\ Victim(Job)' = w'.ba /\ w'.ba < w'.limit
    BY <1>3, <1>6, <1>7, <1>8, <2>1 DEF Keep, High, Low, Victim, OlderJobs
  <2>4. TypeInv'
    BY <1>0, <1>4, <1>8, <2>1, <2>2 DEF TypeInv, WriteJobs
  <2>5. PlaceInv'
    <3>1. OneToOne(ni.map)' /\ Above(ni.map, ni.top)'
      BY <1>3 DEF OneToOne, Above
    <3> QED
      BY <1>3, <1>6, <2>1, <3>1 DEF PlaceInv, NoTable
  <2>6. RangeInv'
    BY <1>3, <1>6, <1>8, <2>1, <2>2, <2>3 DEF RangeInv, OlderJobs, NoTable
  <2>7. LiveInv'
    <3>1. \A x \in Live : x = z \/ (x = Victim(Job)' /\ NextErased(x)')
      <4> SUFFICES ASSUME NEW x \in Live, x # z PROVE x = Victim(Job)' /\ NextErased(x)'
        OBVIOUS
      <4>1. b # NoTable
        BY <1>6, <1>7
      <4>2. x = Victim(Job)' /\ x = w'.ba /\ x < w'.limit /\ x \in Nat
        BY <1>2, <1>6, <2>3, <4>1
      <4>3. w'.ba .. x - 1 = {}
        BY <4>2
      <4> QED
        BY <1>8, <4>2, <4>3 DEF NextErased
    <3> QED
      BY <1>3, <1>5, <2>1, <2>3, <3>1 DEF LiveInv
  <2>8. FrontInv'
    <3>1. Front' \in {DataBlocks, m} /\ (b = NoTable => Front' = DataBlocks)
      BY <1>3, <1>8, <2>1 DEF Front, MainJobs
    <3>2. \A c \in DataBlocks .. m - 1 : b # NoTable => ~Free(c)'
      BY <1>3 DEF Free
    <3> SUFFICES ASSUME NEW c \in DataBlocks .. Front' - 1 PROVE ~Free(c)'
      BY DEF FrontInv
    <3>3. CASE b = NoTable
      BY <3>1, <3>3
    <3>4. CASE b # NoTable
      <4>1. c \in DataBlocks .. m - 1
        <5>1. PICK f : f = Front'
          OBVIOUS
        <5>2. c \in DataBlocks .. f - 1 /\ (f = DataBlocks \/ f = m)
          BY <3>1, <5>1
        <5>3. m \in Nat /\ DataBlocks <= m /\ DataBlocks \in Nat
          BY <1>6
        <5> QED
          BY <5>2, <5>3
      <4> QED
        BY <3>2, <3>4, <4>1
    <3> QED
      BY <3>3, <3>4
  <2>9. OrderInv'
    <3>1. Above(flash[z].map, ni.top)'
      BY <1>3 DEF Above
    <3>2. \A x \in Live : x # z => b # NoTable /\ x = Victim(Job)'
      BY <1>2, <1>6, <1>7, <2>3
    <3>3. \A x \in Live' : \/ Above(flash[x].map, ni.top)'
                           \/ pc' = "erase_table" /\ Job' \in OlderJobs /\ x = Victim(Job)'
      BY <1>5, <1>8, <2>3, <3>1, <3>2
    <3>4. OlderJobs' = OlderJobs
      BY DEF OlderJobs
    <3> QED
      BY <1>3, <1>5, <3>3, <3>4 DEF OrderInv
  <2>10. CacheInv'
    <3>1. \A x \in Live : Older(flash[x], cache)'
      BY <1>3, <1>6 DEF Older
    <3> QED
      BY <1>4, <1>5, <3>1 DEF CacheInv
  <2>11. KeptInv'
    <3>1. \A x \in Live : \/ flash[x].map \in kept'
                          \/ /\ x = Victim(Job)' /\ Job' \in OlderJobs
                             /\ flash[x].count < flash[z].count
      BY <1>2, <1>3, <1>6, <1>7, <2>3
    <3>2. Job' # "rebuilt_main"
      BY <2>1, <2>2
    <3> QED
      BY <1>2, <1>3, <1>4, <1>5, <1>8, <2>1, <2>3, <3>1, <3>2 DEF KeptInv
  <2>12. NotedInv'
    BY <2>1 DEF NotedInv
  <2> QED
    BY <1>5, <2>4, <2>5, <2>6, <2>7, <2>8, <2>9, <2>10, <2>11, <2>12 DEF Good
<1>9. CASE pc' = "idle" /\ b # NoTable /\ flash[m].count = flash[b].count
  <2>1. /\ On' /\ ~Busy' /\ ~Writing' /\ ~Done' /\ Calm' /\ ~Behind' /\ Job' = "idle"
    BY <1>9 DEF On, Busy, Writing, Done, Calm, Behind, Job, RestPcs, WriteJobs
  <2>2. z = m /\ flash[b] = flash[m]
    <3>1. z = m
      BY <1>6, <1>7, <1>9
    <3>2. Older(flash[b], flash[m])
      BY <1>2, <1>6, <1>9, <3>1
    <3> QED
      BY <1>6, <1>9, <3>1, <3>2 DEF Older
  <2>3. \A x \in Live : flash[x] = flash[z]
    BY <1>6, <2>2
  <2>4. TypeInv'
    BY <1>0, <1>4, <1>9, <2>1 DEF TypeInv, RestPcs
  <2>5. PlaceInv'
    <3>1. OneToOne(ni.map)' /\ Above(ni.map, ni.top)'
      BY <1>3 DEF OneToOne, Above
    <3> QED
      BY <1>3, <1>6, <2>1, <3>1 DEF PlaceInv, NoTable
  <2>6. RangeInv' /\ CacheInv'
    BY <1>9, <2>1 DEF RangeInv, CacheInv
  <2>7. LiveInv'
    BY <1>3, <1>5, <1>6, <2>1 DEF LiveInv
  <2>8. FrontInv'
    <3>1. Front' = m
      BY <1>3, <2>1 DEF Front
    <3>2. \A c \in DataBlocks .. m - 1 : ~Free(c)'
      BY <1>3, <1>9 DEF Free
    <3> QED
      BY <3>1, <3>2 DEF FrontInv
  <2>9. OrderInv'
    <3>1. \A x \in Live : Above(flash[x].map, ni.top)'
      BY <1>3, <2>3 DEF Above
    <3> QED
      BY <1>3, <1>5, <3>1 DEF OrderInv
  <2>10. KeptInv'
    BY <1>3, <1>4, <1>5, <1>6, <2>1, <2>3 DEF KeptInv
  <2>11. NotedInv'
    BY <1>4 DEF NotedInv
  <2> QED
    BY <1>5, <2>4, <2>5, <2>6, <2>7, <2>8, <2>9, <2>10, <2>11 DEF Good
<1> QED
  BY <1>8, <1>9

LEMMA LoadStep ==
    ASSUME Good, Load
    PROVE  Good'
<1> USE LiveBlocks
<1>0. TypeInv /\ FlashInv /\ w \in Writes
  BY Parts
<1>1. PICK m : m = FindMain
  OBVIOUS
<1>2. PICK b : b = FindBackup(m)
  OBVIOUS
<1>3. PICK n : n = Counted(LoadedInstance(m, b))
  OBVIOUS
<1>4. /\ pc = "off" /\ FindMain # NoTable /\ cache' = TableOf(n) /\ kept' = {n.map}
      /\ UNCHANGED <<flash, phys, op, lone>>
      /\ \/ b = NoTable /\ StartRescue(n)
         \/ /\ b # NoTable /\ flash[m].count # flash[b].count
            /\ ni' = [n EXCEPT !.changed = TRUE]
            /\ IF flash[m].count < flash[b].count
               THEN StartWrite(m, b, "updated_older_main")
               ELSE StartWrite(b, n.top, "updated_older_backup")
         \/ b # NoTable /\ flash[m].count = flash[b].count /\ Attached(n, TRUE)
  BY <1>1, <1>2, <1>3 DEF Load, flashVars
<1>5. Found(m, b)
  BY <1>0, <1>1, <1>2, <1>4, FoundTables DEF Found
<1>6. n \in Instances /\ n.main = m
  BY <1>0, <1>3, <1>5, LoadFacts
<1>7. n.top \in Nat /\ m \in Nat /\ m \in Int /\ b \in Nat /\ b \in Int /\ DataBlocks \in Int
      /\ (b # NoTable => b \in Live /\ flash[b].count \in Nat) /\ flash[m].count \in Nat
  BY <1>0, <1>5, <1>6, LiveTables DEF Found, NoTable, Instances, Tables
<1>8. CASE b = NoTable /\ StartRescue(n)
  <2>1. /\ ni' = n /\ pc' = "erase_table"
        /\ w' = [w EXCEPT !.ba = DataBlocks, !.limit = m, !.to = "rescued_front"]
    BY <1>6, <1>8 DEF StartRescue, StartWrite
  <2>2. w' \in Writes
    BY <1>0, <1>7, <2>1, WriteTypes, TosMembers, Zenon
  <2>3. w'.ba = DataBlocks /\ w'.limit = m /\ w'.to = "rescued_front"
    BY <1>0, <2>1 DEF Writes
  <2>4. /\ ni' \in Instances /\ ni'.st = n.st /\ ni'.map = n.map /\ ni'.count = n.count
        /\ ni'.main = n.main /\ ni'.backup = n.backup /\ ni'.mapb = n.mapb
        /\ ni'.top = n.top
    BY <1>6, <2>1
  <2>5. GoesOn(m, b, n)
    BY <1>8, <2>1, <2>3 DEF GoesOn
  <2> QED
    BY <1>3, <1>4, <1>5, <2>2, <2>4, <2>5, LoadGoesOn
<1>9. CASE /\ b # NoTable /\ flash[m].count # flash[b].count
           /\ ni' = [n EXCEPT !.changed = TRUE]
           /\ IF flash[m].count < flash[b].count
              THEN StartWrite(m, b, "updated_older_main")
              ELSE StartWrite(b, n.top, "updated_older_backup")
  <2>1. /\ ni' \in Instances /\ ni'.st = n.st /\ ni'.map = n.map /\ ni'.count = n.count
        /\ ni'.main = n.main /\ ni'.backup = n.backup /\ ni'.mapb = n.mapb
        /\ ni'.top = n.top
    BY <1>6, <1>9 DEF Instances
  <2>2. CASE flash[m].count < flash[b].count
    <3>1. /\ pc' = "erase_table"
          /\ w' = [w EXCEPT !.ba = m, !.limit = b, !.to = "updated_older_main"]
      BY <1>9, <2>2 DEF StartWrite
    <3>2. w' \in Writes
      BY <1>0, <1>7, <3>1, WriteTypes, TosMembers, Zenon
    <3>3. w'.ba = m /\ w'.limit = b /\ w'.to = "updated_older_main"
      BY <1>0, <3>1 DEF Writes
    <3>4. GoesOn(m, b, n)
      BY <1>9, <2>2, <3>1, <3>3 DEF GoesOn
    <3> QED
      BY <1>3, <1>4, <1>5, <2>1, <3>2, <3>4, LoadGoesOn
  <2>3. CASE ~(flash[m].count < flash[b].count)
    <3>0. flash[b].count < flash[m].count
      BY <1>7, <1>9, <2>3
    <3>1. /\ pc' = "erase_table"
          /\ w' = [w EXCEPT !.ba = b, !.limit = n.top, !.to = "updated_older_backup"]
      BY <1>9, <2>3 DEF StartWrite
    <3>2. w' \in Writes
      BY <1>0, <1>7, <3>1, WriteTypes, TosMembers, Zenon
    <3>3. w'.ba = b /\ w'.limit = n.top /\ w'.to = "updated_older_backup"
      BY <1>0, <3>1 DEF Writes
    <3>4. GoesOn(m, b, n)
      BY <1>9, <3>0, <3>1, <3>3 DEF GoesOn
    <3> QED
      BY <1>3, <1>4, <1>5, <2>1, <3>2, <3>4, LoadGoesOn
  <2> QED
    BY <2>2, <2>3
<1>10. CASE b # NoTable /\ flash[m].count = flash[b].count /\ Attached(n, TRUE)
  <2> DEFINE p == n.mapb = n.top \/ ~TRUE
  <2>1. ni' = [n EXCEPT !.protected = p] /\ pc' = "idle" /\ w' = NoWrite
    BY <1>10 DEF Attached
  <2>2. p \in BOOLEAN
    OBVIOUS
  <2> HIDE DEF p
  <2>3. ni' \in Instances
    BY <1>6, <2>1, <2>2, ProtectedType
  <2>4. /\ ni'.st = n.st /\ ni'.map = n.map /\ ni'.count = n.count
        /\ ni'.main = n.main /\ ni'.backup = n.backup /\ ni'.mapb = n.mapb
        /\ ni'.top = n.top
    BY <1>6, <2>1 DEF Instances
  <2>5. w' \in Writes
    BY <2>1 DEF NoWrite, Writes, Tos
  <2>6. GoesOn(m, b, n)
    BY <1>10, <2>1 DEF GoesOn
  <2> QED
    BY <1>3, <1>4, <1>5, <2>3, <2>4, <2>5, <2>6, LoadGoesOn
<1> QED
  BY <1>4, <1>8, <1>9, <1>10

-----------------------------------------------------------------------------
(* The theorems *)

\* A bad block that was passed over is not forgotten.
LEMMA StaysSkipped ==
    ASSUME Next, ~skipped'
    PROVE  ~skipped
<1>1. CASE Attach
  BY <1>1 DEF Attach, Load, Create, histVars
<1>2. CASE TableStep
  BY <1>2 DEF TableStep, histVars, EraseTable, ProgramTable, NoRoom, Clear, Cleared,
     RebuiltMain, RebuiltBackup, Update, Updated, UpdatedBackup, UpdatedMain, WroteTmp,
     RescuedMain, RescuedFront, Rescued, RescuedBehind, ClearedBehind,
     UpdatedOlderMain, UpdatedOlderBackup
<1>3. CASE CreateMap
  <2>1. skipped' = (skipped \/ ni.st[ni.top] # "good") \/ skipped' = skipped
    BY <1>3, Zenon DEF CreateMap
  <2> QED
    BY <2>1, Zenon
<1>4. CASE CreateNoSpare \/ Created \/ NoSpare
  BY <1>4 DEF CreateNoSpare, Created, NoSpare, histVars
<1>5. CASE EraseLogic
  <2>1. \/ skipped' = skipped
        \/ \E n : skipped' = (skipped \/ n.st[n.top] # "good")
    BY <1>5, Zenon DEF EraseLogic, RemapLogic, Remap
  <2> QED
    BY <2>1, Zenon
<1>6. CASE UserStep
  BY <1>6 DEF UserStep, EraseBlock, WriteFails, MarkBad, Detach, histVars
<1>7. CASE PowerLoss
  BY <1>7 DEF PowerLoss, histVars
<1> QED
  BY <1>1, <1>2, <1>3, <1>4, <1>5, <1>6, <1>7 DEF Next, DriverStep

LEMMA GoodInit ==
    ASSUME Init
    PROVE  Good
<1> USE LiveBlocks
<1>1. /\ flash = [b \in Mgmt |-> Empty("blank")] /\ ni = NoInstance
      /\ w = NoWrite /\ op = NoOp /\ pc = "off" /\ kept = {}
  BY DEF Init
<1>2. Live = {}
  BY <1>1 DEF Live, IsTable, Empty
<1>3. /\ ~On /\ ~Busy /\ ~Writing /\ ~Done /\ ~Calm /\ ~Behind /\ Job = "off"
  BY <1>1 DEF On, Busy, Writing, Done, Calm, Behind, Job, WriteJobs, RestPcs
<1>4. TypeInv
  <2>1. NoInstance \in Instances
    BY Nothing
  <2>2. NoWrite \in Writes
    BY DEF NoWrite, Writes, Tos
  <2>3. NoOp \in Ops
    BY NmbmAssumption DEF NoOp, Ops, LogicBlocks, Thens
  <2>4. flash \in [Mgmt -> Contents]
    BY <1>1 DEF Empty, Contents
  <2> QED
    BY <1>1, <1>3, <2>1, <2>2, <2>3, <2>4 DEF TypeInv
<1>5. PlaceInv
  <2>1. OneToOne(ni.map)
    BY <1>1, Nothing
  <2>2. ni.mapb = 0 /\ ni.top = 0
    BY <1>1 DEF NoInstance
  <2> QED
    BY <1>3, <2>1, <2>2 DEF PlaceInv
<1>6. RangeInv /\ LiveInv /\ FrontInv /\ OrderInv
  BY <1>1, <1>3 DEF RangeInv, LiveInv, FrontInv, OrderInv
<1>7. CacheInv /\ KeptInv /\ NotedInv /\ FlashInv
  BY <1>1, <1>2, <1>3 DEF CacheInv, KeptInv, NotedInv, FlashInv
<1> QED
  BY <1>4, <1>5, <1>6, <1>7 DEF Good

LEMMA GoodNext ==
    ASSUME Good, Next, ~skipped'
    PROVE  Good'
<1>1. CASE Attach
  BY <1>1, LoadStep, CreateStep DEF Attach
<1>2. CASE TableStep
  <2>1. CASE EraseTable
    BY <2>1, EraseTableStep
  <2>2. CASE ProgramTable
    BY <2>2, ProgramTableStep
  <2>3. CASE NoRoom
    BY <2>3, NoRoomStep
  <2>4. CASE Clear
    BY <2>4, ClearStep
  <2>5. CASE Cleared
    BY <2>5, ClearedStep
  <2>6. CASE RebuiltMain
    BY <2>6, RebuiltMainStep
  <2>7. CASE RebuiltBackup
    BY <2>7, RebuiltBackupStep
  <2>8. CASE Update
    BY <2>8, UpdateStep
  <2>9. CASE Updated
    BY <2>9, UpdatedStep
  <2>10. CASE UpdatedBackup
    BY <2>10, UpdatedBackupStep
  <2>11. CASE UpdatedMain
    BY <2>11, UpdatedMainStep
  <2>12. CASE WroteTmp
    BY <2>12, WroteTmpStep
  <2>13. CASE RescuedMain
    BY <2>13, RescuedMainStep
  <2>14. CASE RescuedFront
    BY <2>14, RescuedFrontStep
  <2>15. CASE Rescued
    BY <2>15, RescuedStep
  <2>16. CASE RescuedBehind
    BY <2>16, RescuedBehindStep
  <2>17. CASE ClearedBehind
    BY <2>17, ClearedBehindStep
  <2>18. CASE UpdatedOlderMain
    BY <2>18, UpdatedOlderMainStep
  <2>19. CASE UpdatedOlderBackup
    BY <2>19, UpdatedOlderBackupStep
  <2> QED
    BY <1>2, <2>1, <2>2, <2>3, <2>4, <2>5, <2>6, <2>7, <2>8, <2>9, <2>10,
       <2>11, <2>12, <2>13, <2>14, <2>15, <2>16, <2>17, <2>18, <2>19 DEF TableStep
<1>3. CASE CreateMap \/ CreateNoSpare \/ Created \/ EraseLogic \/ NoSpare
  BY <1>3, CreateMapStep, CreateNoSpareStep, CreatedStep, EraseLogicStep, NoSpareStep
<1>4. CASE UserStep
  BY <1>4, EraseBlockStep, WriteFailsStep, MarkBadStep, DetachStep DEF UserStep
<1>5. CASE PowerLoss
  BY <1>5, PowerLossStep
<1> QED
  BY <1>1, <1>2, <1>3, <1>4, <1>5 DEF Next, DriverStep

LEMMA GoodStutter ==
    ASSUME Good, UNCHANGED vars
    PROVE  Good'
<1>1. UNCHANGED <<flash, phys, ni, cache, pc, w, op, kept, lone>>
  BY DEF vars
<1>2. Live' = Live /\ (FlashInv => FlashInv')
  BY <1>1, SameFlash
<1>3. /\ On' = On /\ Writing' = Writing /\ Done' = Done /\ Busy' = Busy
      /\ Job' = Job /\ Calm' = Calm /\ Behind' = Behind /\ Written' = Written
  BY <1>1 DEF On, Writing, Done, Busy, Job, Calm, Behind, Written
<1>4. TypeInv' /\ FlashInv' /\ PlaceInv'
  BY <1>1, <1>2, <1>3, Parts DEF TypeInv, PlaceInv
<1>5. RangeInv'
  BY <1>1, <1>3, Parts DEF RangeInv, Low, High, Free
<1>6. LiveInv'
  BY <1>1, <1>2, <1>3, Parts DEF LiveInv, Keep, Victim, NextErased, Free
<1>7. FrontInv'
  BY <1>1, <1>3, Parts DEF FrontInv, Front, Free
<1>8. OrderInv' /\ CacheInv' /\ NotedInv'
  BY <1>1, <1>2, <1>3, Parts DEF OrderInv, Victim, CacheInv, NotedInv
<1>9. KeptInv'
  BY <1>1, <1>2, <1>3, Parts DEF KeptInv, Keep, Victim, FlashKept
<1> QED
  BY <1>4, <1>5, <1>6, <1>7, <1>8, <1>9 DEF Good

(***************************************************************************)
(* While nmbm_map_block() has passed over no bad block, Good holds: the    *)
(* tables in flash agree with one another and with the instance at every   *)
(* step of every write, whatever block fails and whenever power is lost    *)
(* (nmbm-core.c:955-1582, 1900-2156).                                      *)
(***************************************************************************)
THEOREM TablesInvariance == Spec => []Inv
<1>1. Init => Inv
  BY GoodInit DEF Inv
<1>2. Inv /\ [Next]_vars => Inv'
  <2> SUFFICES ASSUME Inv, [Next]_vars, ~skipped' PROVE Good'
    BY DEF Inv
  <2>1. CASE Next
    <3>1. Good
      BY <2>1, StaysSkipped DEF Inv
    <3> QED
      BY <2>1, <3>1, GoodNext
  <2>2. CASE UNCHANGED vars
    <3>1. skipped' = skipped
      BY <2>2 DEF vars
    <3>2. Good
      BY <3>1 DEF Inv
    <3> QED
      BY <2>2, <3>2, GoodStutter
  <2> QED
    BY <2>1, <2>2
<1> QED
  BY <1>1, <1>2, PTL DEF Spec

\* What an attach would load, if there is a table: the one with the highest count.
LEMMA RecoveredIs ==
    ASSUME TypeInv, FlashInv, Live # {}
    PROVE  /\ FindMain # NoTable
           /\ \E z \in Live : /\ Recovered = flash[z].map
                              /\ \A x \in Live : flash[x].count <= flash[z].count
<1>0. \A x \in Live : flash[x].count \in Nat
  BY LiveTables DEF Tables
<1>1. FindMain # NoTable
  BY FoundTables
<1>2. PICK m : m = FindMain
  OBVIOUS
<1>3. PICK b : b = FindBackup(m)
  OBVIOUS
<1>4. Found(m, b)
  BY <1>1, <1>2, <1>3, FoundTables DEF Found
<1>5. PICK z : z = Newest(m, b)
  OBVIOUS
<1>6. /\ z \in Live /\ Loaded(m, b) = flash[z] /\ \A x \in Live : Older(flash[x], flash[z])
  BY <1>4, <1>5, NewestIs
<1>7. Recovered = flash[z].map
  BY <1>2, <1>3, <1>6 DEF Recovered
<1>8. \A x \in Live : flash[x].count <= flash[z].count
  BY <1>0, <1>6 DEF Older
<1> QED
  BY <1>1, <1>6, <1>7, <1>8

\* At every step, and not only when power is lost, what would be loaded is kept.
LEMMA AlwaysKept ==
    ASSUME Good, ~lone, kept # {}
    PROVE  FlashKept
<1>0. TypeInv /\ KeptInv
  BY Parts
<1>1. CASE ~On
  BY <1>0, <1>1 DEF KeptInv
<1>2. CASE Busy
  <2>1. /\ Keep(Job) \in Live /\ flash[Keep(Job)].map \in kept
        /\ \A x \in Live : \/ flash[x].map \in kept
                           \/ flash[x].count < flash[Keep(Job)].count
    BY <1>0, <1>2 DEF KeptInv
  <2> QED
    BY <2>1 DEF FlashKept
<1>3. CASE On /\ ~Busy
  <2>1. Calm \/ Behind
    BY <1>0, <1>3 DEF TypeInv, On, Busy, Writing, Done, Calm, Behind
  <2>2. cache.map \in kept /\ ni.main \in Live /\ \A x \in Live : flash[x].map = cache.map
    BY <1>0, <1>3, <2>1 DEF KeptInv
  <2> QED
    BY <2>2 DEF FlashKept
<1> QED
  BY <1>1, <1>2, <1>3

(***************************************************************************)
(* Once a table was written, an attach at any moment finds one, and what   *)
(* it loads is the mapping of the last completed update or the one being   *)
(* written, as long as there are two tables to write in turn and no bad    *)
(* block was passed over (nmbm_update_info_table_once(),                   *)
(* nmbm_load_info_table()).                                                *)
(***************************************************************************)
THEOREM AttachLoadsNewest == Spec => []LoadsNewest
<1>1. Inv => LoadsNewest
  <2> SUFFICES ASSUME Inv, kept # {}, Sound PROVE FindMain # NoTable /\ Recovered \in kept
    BY DEF LoadsNewest
  <2>1. Good /\ ~lone
    BY DEF Inv, Sound
  <2>2. TypeInv /\ FlashInv /\ FlashKept
    BY <2>1, Parts, AlwaysKept
  <2>3. FindMain # NoTable
    BY <2>2, RecoveredIs DEF FlashKept
  <2>4. PICK z \in Live : /\ Recovered = flash[z].map
                          /\ \A x \in Live : flash[x].count <= flash[z].count
    BY <2>2, RecoveredIs DEF FlashKept
  <2>5. \A x \in Live : flash[x].count \in Nat
    BY <2>1, Parts
  <2>6. flash[z].map \in kept
    BY <2>2, <2>4, <2>5 DEF FlashKept
  <2> QED
    BY <2>3, <2>4, <2>6
<1> QED
  BY <1>1, TablesInvariance, PTL

(***************************************************************************)
(* When an operation has returned and the device has not become read-only, *)
(* the next attach maps every usable logic block to the same block, under  *)
(* the same two conditions.                                                *)
(***************************************************************************)
THEOREM IdleIsSaved == Spec => []SavedWhenIdle
<1>1. Inv => SavedWhenIdle
  <2> SUFFICES ASSUME Inv, pc = "idle", ~ni.protected, Sound,
                      NEW l \in LogicBlocks, ni.map[l] # NoBlock
               PROVE  Recovered[l] = ni.map[l]
    BY DEF SavedWhenIdle
  <2>1. Good /\ ~lone
    BY DEF Inv, Sound
  <2>2. TypeInv /\ FlashInv /\ KeptInv /\ NotedInv
    BY <2>1, Parts
  <2>3. Calm
    BY DEF Calm, RestPcs
  <2>4. ni.main \in Live /\ \A x \in Live : flash[x].map = cache.map
    BY <2>1, <2>2, <2>3 DEF KeptInv
  <2>5. PICK z \in Live : Recovered = flash[z].map
    BY <2>2, <2>4, RecoveredIs
  <2>6. cache.map[l] = ni.map[l]
    BY <2>2, <2>3, Zenon DEF NotedInv
  <2> QED
    BY <2>4, <2>5, <2>6
<1> QED
  BY <1>1, TablesInvariance, PTL

(***************************************************************************)
(* No two logic blocks share a physical block (nmbm_map_block(),           *)
(* nmbm_erase_logic_block()).                                              *)
(***************************************************************************)
THEOREM NoBlockIsShared == Spec => []OneOwner
<1>1. Inv => OneOwner
  BY Parts DEF Inv, OneOwner, OneToOne, PlaceInv
<1> QED
  BY <1>1, TablesInvariance, PTL

(***************************************************************************)
(* The tables stay below the mapped blocks: no block that holds the user's *)
(* data is erased or written for a table (nmbm_write_mgmt_range(),         *)
(* nmbm_erase_range()).                                                    *)
(***************************************************************************)
THEOREM TablesKeepApart == Spec => []TablesApart
<1>1. Inv => TablesApart
  <2> SUFFICES ASSUME Inv, ~skipped
               PROVE  /\ ni.mapb <= ni.top
                      /\ pc \in {"erase_table", "program_table", "clear"} =>
                           \A l \in LogicBlocks : ni.map[l] \notin InFlight
    BY DEF TablesApart
  <2>1. Good
    BY DEF Inv
  <2>2. /\ TypeInv /\ PlaceInv /\ RangeInv /\ ni \in Instances
        /\ w.ba \in Int /\ w.limit \in Nat /\ w.start \in Nat /\ ni.top \in Nat
        /\ ni.main \in Nat /\ ni.backup \in Nat /\ ni.mapb \in Nat
    BY <2>1, Parts
  <2>3. ni.mapb <= ni.top
    BY <2>2 DEF PlaceInv
  <2>4. ASSUME pc \in {"erase_table", "program_table", "clear"}, NEW l \in LogicBlocks,
               ni.map[l] \in InFlight
        PROVE  FALSE
    <3>1. ni.map[l] \in w.ba .. w.limit - 1
      <4>1. CASE pc = "erase_table"
        BY <2>4, <4>1 DEF InFlight, Usable, GoodIn
      <4>2. CASE pc = "program_table"
        BY <2>2, <2>4, <4>2 DEF InFlight, RangeInv
      <4>3. CASE pc = "clear"
        BY <2>4, <4>3 DEF InFlight, GoodIn
      <4> QED
        BY <2>4, <4>1, <4>2, <4>3
    <3>2. DataBlocks <= w.ba /\ w.limit <= ni.top
      <4>1. CASE pc \in {"erase_table", "program_table"}
        <5>1. Writing /\ Busy
          BY <4>1 DEF Writing, Busy
        <5>2. Low(Job) <= w.ba
          BY <2>2, <5>1 DEF RangeInv
        <5> QED
          BY <2>1, <2>2, <5>1, <5>2, KeepOutside, LiveBlocks
      <4>2. CASE pc = "clear"
        <5>1. On /\ (Calm \/ Behind)
          BY <4>2 DEF On, Calm, Behind
        <5> QED
          BY <2>2, <4>2, <5>1, LiveBlocks DEF RangeInv, PlaceInv
      <4> QED
        BY <2>4, <4>1, <4>2
    <3>3. Above(ni.map, ni.top)
      BY <2>2, <2>4 DEF PlaceInv, On
    <3> QED
      BY <2>2, <3>1, <3>2, <3>3, LiveBlocks DEF Above
  <2> QED
    BY <2>3, <2>4
<1> QED
  BY <1>1, TablesInvariance, PTL
============================================================================
