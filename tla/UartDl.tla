------------------------------- MODULE UartDl -------------------------------
(***************************************************************************)
(* The download of a FIP over the serial line: mtk_uartboot on the host    *)
(* (load_fip() of main.rs, bl2.rs) and BL2 on the target (uart_dl.c).      *)
(* Every field the host writes is echoed before it writes the next one,    *)
(* so a field stands for its bytes: one byte lost leaves the reader        *)
(* waiting as the loss of the field does.  The line may lose or damage a   *)
(* field and answer late.  The image is a row of units 1 .. Size; a packet *)
(* carries some of them and a checksum that tells it from a damaged copy.  *)
(* Damage that cancels earlier damage of the same field is left out.       *)
(***************************************************************************)
EXTENDS Integers, Sequences

CONSTANTS
    Size,        \* the length of the FIP
    FirstLen,    \* the first packet's length, 128
    DoubleBelow, \* packets double up to here, 32768
    StepLen,     \* then grow by this, 1024,
    MaxLen,      \* up to here, 65536 - 1024
    LenLimit,    \* the number of values of a packet's 16 bit length, 65536
    MaxFaults    \* bound on the faults of the line in one behaviour

ASSUME UartDlAssumption ==
    /\ Size \in Nat \ {0} /\ FirstLen \in Nat \ {0}
    /\ DoubleBelow \in Nat /\ StepLen \in Nat
    /\ MaxLen \in Nat /\ LenLimit \in Nat /\ MaxFaults \in Nat
    /\ FirstLen < LenLimit
    /\ 2 * DoubleBelow <= LenLimit /\ MaxLen + StepLen <= LenLimit

\* DLCMD_GET_VER to DLCMD_GO, and the 0xff that answers any other command
GET_VER == 1
SET_BAUD == 2
LOAD_DATA == 3
GO == 4
UNKNOWN == 5
Commands == 1 .. 5

\* The command the host sends at each step of load_fip() that sends one
CmdOf == [ver |-> GET_VER, setbaud |-> SET_BAUD, load |-> LOAD_DATA, go |-> GO]
CmdSteps == {"ver", "setbaud", "load", "go"}

HostPcs == CmdSteps \cup
    {"hs", "settle", "vernum", "baud", "size", "idx", "len", "csum", "data",
     "done", "panic"}
TargetPcs == {"hs", "cmd", "baud", "switch", "size", "idx", "len", "csum",
              "data", "started", "hung"}
FieldPcs == {"baud", "size", "idx", "len", "csum", "data"}

Intact == 1     \* the sum of an undamaged packet
Damaged == 0    \* any other sum; write_u16(0) is also this
NoIdx == -1     \* an index that is not the one sent

\* What may go wrong on the line
Faults == {"lostreq", "lostresp", "bad", "baddata", "late"}

VARIABLES
    h,       \* the host: its step, what it waits for, i, idx, p, pkt_len, baud rate
    t,       \* the target: its step, i, size, curridx, rcvd_size, the header of
             \* the packet being read, data_size, baud rate
    mem,     \* mem[a]: the unit of the image at data_loadaddr + a - 1, 0 if none
    toT,     \* the line from host to target
    toH,     \* the line from target to host
    faults   \* how often each fault has happened

vars == <<h, t, mem, toT, toH, faults>>

Msg(k, v, n) == [k |-> k, v |-> v, n |-> n, ok |-> TRUE]
Garbage == [k |-> "hs", v |-> 0, n |-> 0, ok |-> FALSE]

Addrs == 1 .. Size + LenLimit

\* wait_bl2_handshake() has seen the target announce its handshake.
Init ==
    /\ h = [pc |-> "hs", wait |-> FALSE, round |-> 1, i |-> 0, idx |-> 0,
            p |-> 0, len |-> FirstLen, baud |-> "old"]
    /\ t = [pc |-> "hs", i |-> 0, size |-> 0, idx |-> 0, rcvd |-> 0,
            hidx |-> 0, hlen |-> 0, hsum |-> 0, dsize |-> 0, baud |-> "old"]
    /\ mem = [a \in Addrs |-> 0]
    /\ toT = <<>> /\ toH = <<>>
    /\ faults = [f \in Faults |-> 0]

-----------------------------------------------------------------------------
(* The line *)

MayFail == faults["lostreq"] + faults["lostresp"] + faults["bad"]
             + faults["baddata"] + faults["late"] < MaxFaults
Fault(f) == MayFail /\ faults' = [faults EXCEPT ![f] = @ + 1]

\* Between the two changes of baud rate a byte arrives as something else.
OnWire(m) == IF h.baud = t.baud THEN m ELSE Garbage

\* A target that reads no more lets its FIFO overflow.
ToTarget(m) == toT' = IF t.pc \in {"started", "hung"} THEN toT
                      ELSE Append(toT, OnWire(m))
ToHost(ms) == toH' = toH \o ms

LoseRequest ==
    /\ toT # <<>> /\ Fault("lostreq")
    /\ toT' = Tail(toT)
    /\ UNCHANGED <<h, t, mem, toH>>

LoseResponse ==
    /\ toH # <<>> /\ Fault("lostresp")
    /\ toH' = Tail(toH)
    /\ UNCHANGED <<h, t, mem, toT>>

DamageRequest ==
    /\ toT # <<>> /\ Head(toT).ok
    /\ Fault(IF Head(toT).k = "data" THEN "baddata" ELSE "bad")
    /\ toT' = <<[Head(toT) EXCEPT !.ok = FALSE]>> \o Tail(toT)
    /\ UNCHANGED <<h, t, mem, toH>>

DamageResponse ==
    /\ toH # <<>> /\ Head(toH).ok
    /\ Fault("bad")
    /\ toH' = <<[Head(toH) EXCEPT !.ok = FALSE]>> \o Tail(toH)
    /\ UNCHANGED <<h, t, mem, toT>>

\* Whether a byte m of the handshake can be read as byte i: a damaged one is
\* any byte but the one that was sent.
ReadsAs(m, i) ==
    IF m.k # "hs" THEN {FALSE}
    ELSE IF m.ok THEN {m.v = i}
    ELSE IF m.v = i THEN {FALSE} ELSE BOOLEAN

-----------------------------------------------------------------------------
(* The host: bl2.rs *)

\* The length of the packet at p: pkt_len, or what is left of the image
Chunk(x) == IF Size - x.p > x.len THEN x.len ELSE Size - x.p
LastPacket(x) == Size - x.p <= x.len

\* Mutant: packets keep growing.
UnboundedLen(len) == IF len < DoubleBelow THEN 2 * len ELSE len + StepLen

NextLen(len) ==
    IF len < DoubleBelow THEN 2 * len
    ELSE IF len < MaxLen THEN len + StepLen
    ELSE len

\* What the host writes at its step
Out(x) ==
    IF x.pc = "hs" THEN Msg("hs", x.i, 0)
    ELSE IF x.pc \in CmdSteps THEN Msg("cmd", CmdOf[x.pc], 0)
    ELSE IF x.pc = "baud" THEN Msg("baud", 0, 0)
    ELSE IF x.pc = "size" THEN Msg("size", Size, 0)
    ELSE IF x.pc = "idx" THEN Msg("idx", x.idx, 0)
    ELSE IF x.pc = "len" THEN Msg("len", Chunk(x), 0)
    ELSE IF x.pc = "csum" THEN Msg("csum", Intact, 0)
    ELSE Msg("data", x.p, Chunk(x))

\* write_all()
HostWrite ==
    /\ ~h.wait /\ h.pc \notin {"settle", "done", "panic"}
    /\ h' = [h EXCEPT !.wait = TRUE]
    /\ ToTarget(Out(h))
    /\ UNCHANGED <<t, mem, toH, faults>>

\* handshake(): the answer to byte i; any other answer makes it write again.
HostHandshakeByte(match) ==
    h' = [h EXCEPT !.wait = FALSE,
                   !.i = IF match THEN @ + 1 ELSE @,
                   !.pc = IF match /\ h.i = 3 THEN "settle" ELSE @]

HostHandshake ==
    /\ h.pc = "hs" /\ h.wait /\ toH # <<>>
    /\ \E match \in ReadsAs(Head(toH), h.i) : HostHandshakeByte(match)
    /\ toH' = Tail(toH)
    /\ UNCHANGED <<t, mem, toT, faults>>

\* The pause after handshake() and clear(); load_fip() goes on.
HostSettle ==
    /\ h.pc = "settle"
    /\ toH' = <<>>
    /\ h' = [h EXCEPT !.pc = IF h.round = 1 THEN "ver" ELSE "load"]
    /\ UNCHANGED <<t, mem, toT, faults>>

\* Where load_fip() goes when a field was echoed
AfterEcho ==
    [ver |-> "vernum", setbaud |-> "baud", baud |-> "hs", load |-> "size",
     size |-> "idx", idx |-> "len", len |-> "csum", csum |-> "data",
     go |-> "done"]

\* Mutant: the echo is read and not compared.
EchoUnread(m) == TRUE

EchoOK(m) == m = Out(h)

HostEcho ==
    /\ h.wait /\ h.pc \notin {"hs", "vernum", "data"} /\ toH # <<>>
    /\ toH' = Tail(toH)
    /\ IF EchoOK(Head(toH))
       THEN h' = [h EXCEPT !.pc = AfterEcho[@],
                           !.wait = (h.pc = "ver"),
                           !.i = 0,
                           !.round = IF h.pc = "baud" THEN 2 ELSE @,
                           !.baud = IF h.pc = "baud" THEN "new" ELSE @]
       ELSE h' = [h EXCEPT !.pc = "panic", !.wait = FALSE]
    /\ UNCHANGED <<t, mem, toT, faults>>

\* version() only prints what it reads.
HostVersion ==
    /\ h.pc = "vernum" /\ toH # <<>>
    /\ toH' = Tail(toH)
    /\ h' = [h EXCEPT !.pc = "setbaud", !.wait = FALSE]
    /\ UNCHANGED <<t, mem, toT, faults>>

\* Mutant: the checksum of the answer is not compared.
AcceptByIndex(m) == m.k = "reply" /\ m.ok /\ m.v = h.idx

\* The test at the end of send_fip_packet()
Acknowledged(m) == m.k = "reply" /\ m.ok /\ m.v = h.idx /\ m.n = Intact

\* Mutant: a packet that was refused is the end.
GiveUp(x) == [x EXCEPT !.pc = "panic", !.wait = FALSE]

\* The loops of send_fip(): the same packet again
Again(x) == [x EXCEPT !.pc = "idx", !.wait = FALSE]

\* The end of send_fip_packet() and its callers: the next packet, the same one
\* again, or the end of send_fip().
HostReply ==
    /\ h.pc = "data" /\ h.wait /\ toH # <<>>
    /\ toH' = Tail(toH)
    /\ IF ~Acknowledged(Head(toH))
       THEN h' = Again(h)
       ELSE IF LastPacket(h)
       THEN h' = [h EXCEPT !.pc = "go", !.wait = FALSE]
       ELSE h' = [h EXCEPT !.pc = "idx", !.wait = FALSE, !.idx = @ + 1,
                           !.p = @ + h.len, !.len = NextLen(@)]
    /\ UNCHANGED <<t, mem, toT, faults>>

\* The target waits for more bytes than are on the line, or for none.
TargetIdle ==
    \/ toT = <<>> /\ t.pc # "switch"
    \/ t.pc \in {"started", "hung"}

\* Mutant: the host reads on without writing the byte again.
ReadOn == UNCHANGED h

\* read_exact() fails: handshake() writes again, unwrap() panics elsewhere.
AfterTimeout ==
    h' = [h EXCEPT !.wait = FALSE, !.pc = IF @ = "hs" THEN "hs" ELSE "panic"]

\* The time is up because no answer can come, or because it is late.
HostTimeout ==
    /\ h.wait /\ toH = <<>>
    /\ IF TargetIdle THEN UNCHANGED faults ELSE Fault("late")
    /\ AfterTimeout
    /\ UNCHANGED <<t, mem, toT, toH>>

-----------------------------------------------------------------------------
(* The target: uart_dl.c *)

TargetReads == toT # <<>> /\ toT' = Tail(toT)

\* Byte i of the handshake has come.
Matched(x) == IF x.i = 3 THEN [x EXCEPT !.i = 0, !.pc = "cmd"]
              ELSE [x EXCEPT !.i = @ + 1]

\* handshake(): a wrong byte starts it over, and is not looked at again.
TargetHandshake ==
    /\ t.pc = "hs" /\ TargetReads
    /\ \E match \in ReadsAs(Head(toT), t.i) :
         IF match
         THEN /\ ToHost(<<Msg("hs", t.i, 0)>>)
              /\ t' = Matched(t)
         ELSE /\ t' = [t EXCEPT !.i = 0]
              /\ UNCHANGED toH
    /\ UNCHANGED <<h, mem, faults>>

\* What cmd_process() may take field m for.  A handshake byte or the first
\* byte of an index is no command unless it is damaged.  If it then reads as a
\* command with an argument, the target takes what the host writes next for the
\* argument and answers nothing the host waits for: as if it were unknown.
CommandsIn(m) ==
    IF m.k = "cmd" THEN (IF m.ok THEN {m.v} ELSE Commands \ {m.v})
    ELSE IF m.ok THEN {UNKNOWN}
    ELSE {GET_VER, GO, UNKNOWN}

\* cmd_process(): one command; receive_data() starts from the first packet.
TargetCommand ==
    /\ t.pc = "cmd" /\ TargetReads
    /\ \E c \in CommandsIn(Head(toT)) :
         LET echo == IF Head(toT).k = "cmd" /\ Head(toT).ok
                     THEN Head(toT) ELSE [Msg("cmd", c, 0) EXCEPT !.ok = FALSE] IN
         \/ /\ c = GET_VER
            /\ ToHost(<<echo, Msg("ver", 0, 0)>>)
            /\ UNCHANGED t
         \/ /\ c = SET_BAUD
            /\ ToHost(<<echo>>)
            /\ t' = [t EXCEPT !.pc = "baud"]
         \/ /\ c = LOAD_DATA
            /\ ToHost(<<echo>>)
            /\ t' = [t EXCEPT !.pc = "size", !.idx = 0, !.rcvd = 0]
         \/ /\ c = GO
            /\ ToHost(<<echo>>)
            /\ t' = [t EXCEPT !.pc = "started"]
         \/ /\ c = UNKNOWN
            /\ ToHost(<<Msg("cmd", UNKNOWN, 0)>>)
            /\ t' = [t EXCEPT !.pc = "hung"]
    /\ UNCHANGED <<h, mem, faults>>

\* A field is read and written back as it was read.
EchoField == /\ t.pc \in FieldPcs \ {"data"} /\ TargetReads
             /\ Head(toT).k = t.pc
             /\ ToHost(<<Head(toT)>>)
             /\ UNCHANGED <<h, mem, faults>>

TargetBaud == t.pc = "baud" /\ EchoField /\ t' = [t EXCEPT
    !.pc = "switch", !.hidx = IF Head(toT).ok THEN 0 ELSE NoIdx]

\* uart_dl_api_set_baud() and CMD_REPEAT
TargetSwitch ==
    /\ t.pc = "switch"
    /\ t' = [t EXCEPT !.pc = "hs", !.i = 0,
                      !.baud = IF t.hidx = NoIdx THEN "wrong" ELSE "new"]
    /\ UNCHANGED <<h, mem, toT, toH, faults>>

\* The loop of receive_data(): another packet, or back to cmd_process()
NextPacket(x) == IF x.rcvd < x.size THEN [x EXCEPT !.pc = "idx"]
                 ELSE [x EXCEPT !.pc = "cmd", !.dsize = x.size]

TargetSize ==
    /\ t.pc = "size" /\ EchoField
    /\ \E s \in IF Head(toT).ok THEN {Head(toT).v} ELSE 0 .. Size + 1 :
         t' = NextPacket([t EXCEPT !.size = s])

TargetIdx == t.pc = "idx" /\ EchoField /\ t' = [t EXCEPT
    !.pc = "len", !.hidx = IF Head(toT).ok THEN Head(toT).v ELSE NoIdx]
TargetLen == t.pc = "len" /\ EchoField /\ t' = [t EXCEPT
    !.pc = "csum", !.hlen = IF Head(toT).ok THEN Head(toT).v ELSE 0]
TargetCsum == t.pc = "csum" /\ EchoField /\ t' = [t EXCEPT
    !.pc = "data", !.hsum = IF Head(toT).ok THEN Head(toT).v ELSE Damaged]

\* Mutant: what was damaged is not part of the sum.
SumMissesDamage(m) == Intact

\* calc_chksum() of what was received
Sum(m) == IF m.ok THEN Intact ELSE Damaged

\* Mutant: the index is compared, the checksum only reported.
TakenByIndex(m) == t.hidx = t.idx

\* receive_packet() returns len and not 0.
Taken(m) == t.hidx = t.idx /\ Sum(m) = t.hsum

Received(m) ==
    IF Taken(m) THEN NextPacket([t EXCEPT !.idx = @ + 1, !.rcvd = @ + t.hlen])
    ELSE NextPacket(t)

\* The rest of receive_packet(): the data is in memory before it is checked.
TargetData ==
    /\ t.pc = "data" /\ TargetReads
    /\ LET m == Head(toT) IN
         /\ m.k = "data"
         /\ mem' = [a \in Addrs |->
                      IF a \in t.rcvd + 1 .. t.rcvd + m.n
                      THEN (IF m.ok THEN m.v + a - t.rcvd ELSE 0)
                      ELSE mem[a]]
         /\ ToHost(<<Msg("reply", t.idx, IF t.hidx = t.idx THEN Sum(m) ELSE Damaged)>>)
         /\ t' = Received(m)
    /\ UNCHANGED <<h, faults>>

-----------------------------------------------------------------------------
HostStep == \/ HostWrite \/ HostHandshake \/ HostSettle \/ HostEcho
            \/ HostVersion \/ HostReply
TargetStep == \/ TargetHandshake \/ TargetCommand \/ TargetBaud \/ TargetSwitch
              \/ TargetSize \/ TargetIdx \/ TargetLen \/ TargetCsum \/ TargetData
LineStep == LoseRequest \/ LoseResponse \/ DamageRequest \/ DamageResponse

Next == HostStep \/ HostTimeout \/ TargetStep \/ LineStep

Spec == Init /\ [][Next]_vars

\* Both programs run; a read of the host ends, by an answer or by its timeout.
FairSpec == /\ Spec
            /\ WF_vars(HostStep) /\ WF_vars(TargetStep)
            /\ WF_vars(TargetIdle /\ HostTimeout)

-----------------------------------------------------------------------------
(* Properties *)

Fields == [k : {"hs", "cmd", "ver", "baud", "size", "idx", "len", "csum", "data", "reply"},
           v : Nat, n : Nat, ok : BOOLEAN]

\* The values the variables take.
TypeOK ==
    /\ h \in [pc : HostPcs, wait : BOOLEAN, round : {1, 2}, i : 0 .. 4, idx : Nat,
              p : Nat, len : Nat, baud : {"old", "new"}]
    /\ t \in [pc : TargetPcs, i : 0 .. 3, size : Nat, idx : Nat, rcvd : Nat,
              hidx : Int, hlen : Nat, hsum : Nat, dsize : Nat,
              baud : {"old", "new", "wrong"}]
    /\ mem \in [Addrs -> Nat]
    /\ toT \in Seq(Fields) /\ toH \in Seq(Fields)
    /\ faults \in [Faults -> Nat]

\* The target never counts a byte as received that is not the image's byte for
\* that address, whatever was lost, damaged, sent twice or written to memory by
\* a packet that was refused (uart_dl.c:139-157, 169-177).
PrefixIntact == \A a \in 1 .. t.rcvd : mem[a] = a

\* Host and target agree on which field comes next: what is on the line for a
\* target inside a command is the field it reads (the echoes of bl2.rs:41-48).
InStep == t.pc \in FieldPcs => \A j \in 1 .. Len(toT) : toT[j].k = t.pc

\* When the host prints "FIP sent." the target holds the whole FIP and has its
\* size (main.rs:123-124).
FipSent == h.pc \in {"go", "done"} => /\ \A a \in 1 .. Size : mem[a] = a
                                      /\ t.dsize = Size

\* Unless a field other than a packet's data, or an answer, was damaged, what the
\* target starts is the whole FIP: repeated handshake bytes and packets are never
\* taken for a command to start (uart_dl.c:182-216).
StartsWholeImage ==
    t.pc = "started" /\ faults["bad"] = 0 => /\ h.pc \in {"go", "done", "panic"}
                                             /\ \A a \in 1 .. Size : mem[a] = a
                                             /\ t.dsize = Size

\* A packet is never empty, which the target would never accept, and its
\* length fits the 16 bits it is sent in (bl2.rs:97, 124-139).
PacketFits == h.len < LenLimit /\ Chunk(h) \in 1 .. LenLimit - 1

\* On a line that only damages packets' data the FIP is started in the end:
\* a refused packet is sent again and accepted.
Completes == <>(\/ t.pc = "started"
                \/ \E f \in Faults \ {"baddata"} : faults[f] > 0)

\* Lost bytes of the host never leave it waiting for ever: a handshake byte is
\* written again until it is answered, everything else ends in a panic.
Terminates == <>(\/ h.pc \in {"done", "panic"}
                 \/ \E f \in {"lostresp", "bad", "late"} : faults[f] > 0)

=============================================================================
