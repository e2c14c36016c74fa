---------------------------- MODULE UartDlProofs ----------------------------
(***************************************************************************)
(* Proofs about UartDl, for every image, every growth of the packets that  *)
(* the assumption allows and every number of faults on the line.           *)
(***************************************************************************)
EXTENDS UartDl, SequenceTheorems, TLAPS

Hosts == [pc : HostPcs, wait : BOOLEAN, round : {1, 2}, i : 0 .. 4, idx : Nat,
          p : Nat, len : Nat, baud : {"old", "new"}]
Targets == [pc : TargetPcs, i : 0 .. 3, size : Nat, idx : Nat, rcvd : Nat,
            hidx : Int, hlen : Nat, hsum : Nat, dsize : Nat,
            baud : {"old", "new", "wrong"}]

\* The host waits only where it has written, and what is left of the image and
\* the packets' length stay in their ranges.
HostInv ==
    /\ h \in Hosts
    /\ h.pc = "hs" => h.i <= 3
    /\ h.wait => h.pc \notin {"settle", "done", "panic"}
    /\ h.p < Size
    /\ h.len >= 1 /\ h.len < LenLimit

TargetInv == t \in Targets

LineInv ==
    /\ toT \in Seq(Fields) /\ toH \in Seq(Fields)
    /\ mem \in [Addrs -> Nat] /\ faults \in [Faults -> Nat]

Inv == HostInv /\ TargetInv /\ LineInv

-----------------------------------------------------------------------------
LEMMA NextLenFits ==
    ASSUME NEW len \in Nat, len >= 1, len < LenLimit
    PROVE  NextLen(len) \in Nat /\ NextLen(len) >= 1 /\ NextLen(len) < LenLimit
BY UartDlAssumption DEF NextLen

LEMMA ChunkFits ==
    ASSUME HostInv
    PROVE  Chunk(h) \in 1 .. LenLimit - 1
BY UartDlAssumption DEF HostInv, Hosts, Chunk

LEMMA MsgIsField ==
    ASSUME NEW k \in {"hs", "cmd", "ver", "baud", "size", "idx", "len", "csum", "data", "reply"},
           NEW v \in Nat, NEW n \in Nat
    PROVE  Msg(k, v, n) \in Fields /\ [Msg(k, v, n) EXCEPT !.ok = FALSE] \in Fields
BY DEF Msg, Fields

LEMMA OutIsField ==
    ASSUME HostInv
    PROVE  OnWire(Out(h)) \in Fields
<1>1. /\ h.i \in Nat /\ h.idx \in Nat /\ h.p \in Nat /\ h.pc \in HostPcs
      /\ Chunk(h) \in Nat /\ Size \in Nat /\ Intact \in Nat
  BY ChunkFits, UartDlAssumption DEF HostInv, Hosts, Intact
<1>2. h.pc \in CmdSteps => CmdOf[h.pc] \in Nat
  BY DEF CmdSteps, CmdOf, GET_VER, SET_BAUD, LOAD_DATA, GO
<1>3. Out(h) \in Fields
  BY <1>1, <1>2, MsgIsField DEF Out
<1>4. Garbage \in Fields
  BY DEF Garbage, Fields
<1> QED
  BY <1>3, <1>4 DEF OnWire

LEMMA HeadTail ==
    ASSUME NEW q \in Seq(Fields), q # <<>>
    PROVE  /\ Head(q) \in Fields /\ Tail(q) \in Seq(Fields)
           /\ <<[Head(q) EXCEPT !.ok = FALSE]>> \o Tail(q) \in Seq(Fields)
<1>1. Head(q) \in Fields /\ Tail(q) \in Seq(Fields)
  OBVIOUS
<1>2. [Head(q) EXCEPT !.ok = FALSE] \in Fields
  BY <1>1 DEF Fields
<1>3. <<[Head(q) EXCEPT !.ok = FALSE]>> \in Seq(Fields)
  BY <1>2
<1> QED
  BY <1>1, <1>3

LEMMA FaultType ==
    ASSUME NEW f \in Faults, faults \in [Faults -> Nat], Fault(f)
    PROVE  faults' \in [Faults -> Nat]
BY DEF Fault

-----------------------------------------------------------------------------
LEMMA InitInv == Init => Inv
<1> SUFFICES ASSUME Init PROVE Inv
  OBVIOUS
<1>1. HostInv
  BY UartDlAssumption DEF Init, HostInv, Hosts, HostPcs
<1>2. TargetInv
  BY DEF Init, TargetInv, Targets, TargetPcs
<1>3. LineInv
  BY DEF Init, LineInv
<1> QED
  BY <1>1, <1>2, <1>3 DEF Inv

\* The records a step of the target makes of its state
LEMMA TargetUpdates ==
    ASSUME NEW x \in Targets
    PROVE  /\ \A c \in TargetPcs : [x EXCEPT !.pc = c] \in Targets
           /\ \A i \in 0 .. 3 : [x EXCEPT !.i = i] \in Targets
           /\ \A c \in TargetPcs : [x EXCEPT !.i = 0, !.pc = c] \in Targets
           /\ \A c \in TargetPcs, b \in {"old", "new", "wrong"} :
                [x EXCEPT !.pc = c, !.i = 0, !.baud = b] \in Targets
           /\ \A c \in TargetPcs : [x EXCEPT !.pc = c, !.idx = 0, !.rcvd = 0] \in Targets
           /\ \A c \in TargetPcs, n \in Nat : [x EXCEPT !.pc = c, !.dsize = n] \in Targets
           /\ \A n \in Nat : [x EXCEPT !.size = n] \in Targets
           /\ \A c \in TargetPcs, d \in Int : [x EXCEPT !.pc = c, !.hidx = d] \in Targets
           /\ \A c \in TargetPcs, n \in Nat : [x EXCEPT !.pc = c, !.hlen = n] \in Targets
           /\ \A c \in TargetPcs, n \in Nat : [x EXCEPT !.pc = c, !.hsum = n] \in Targets
           /\ \A j \in Nat, n \in Nat : [x EXCEPT !.idx = j, !.rcvd = n] \in Targets
<1> 0 \in 0 .. 3 /\ 0 \in Nat
  OBVIOUS
<1>1. \A c \in TargetPcs : [x EXCEPT !.pc = c] \in Targets
  BY Zenon DEF Targets
<1>2. \A i \in 0 .. 3 : [x EXCEPT !.i = i] \in Targets
  BY Zenon DEF Targets
<1>3. \A c \in TargetPcs : [x EXCEPT !.i = 0, !.pc = c] \in Targets
  BY Zenon DEF Targets
<1>4. \A c \in TargetPcs, b \in {"old", "new", "wrong"} :
        [x EXCEPT !.pc = c, !.i = 0, !.baud = b] \in Targets
  BY Zenon DEF Targets
<1>5. \A c \in TargetPcs : [x EXCEPT !.pc = c, !.idx = 0, !.rcvd = 0] \in Targets
  BY Zenon DEF Targets
<1>6. \A c \in TargetPcs, n \in Nat : [x EXCEPT !.pc = c, !.dsize = n] \in Targets
  BY Zenon DEF Targets
<1>7. \A n \in Nat : [x EXCEPT !.size = n] \in Targets
  BY Zenon DEF Targets
<1>8. \A c \in TargetPcs, d \in Int : [x EXCEPT !.pc = c, !.hidx = d] \in Targets
  BY Zenon DEF Targets
<1>9. \A c \in TargetPcs, n \in Nat : [x EXCEPT !.pc = c, !.hlen = n] \in Targets
  BY Zenon DEF Targets
<1>10. \A c \in TargetPcs, n \in Nat : [x EXCEPT !.pc = c, !.hsum = n] \in Targets
  BY Zenon DEF Targets
<1>11. \A j \in Nat, n \in Nat : [x EXCEPT !.idx = j, !.rcvd = n] \in Targets
  BY Zenon DEF Targets
<1> QED
  BY <1>1, <1>2, <1>3, <1>4, <1>5, <1>6, <1>7, <1>8, <1>9, <1>10, <1>11, Zenon

LEMMA HostInvStep ==
    ASSUME HostInv, [Next]_vars
    PROVE  HostInv'
<1>0. h \in Hosts
  BY DEF HostInv
<1> USE DEF HostInv, Hosts
<1>1. CASE UNCHANGED h
  BY <1>1
<1>2. CASE HostWrite
  BY <1>2 DEF HostWrite, HostPcs
<1>3. CASE HostHandshake
  <2>1. PICK match \in BOOLEAN : HostHandshakeByte(match)
    BY <1>3 DEF HostHandshake, ReadsAs
  <2> DEFINE i == IF match THEN h.i + 1 ELSE h.i
             c == IF match /\ h.i = 3 THEN "settle" ELSE h.pc
  <2>2. i \in 0 .. 4 /\ c \in HostPcs /\ (c = "hs" => i <= 3)
    BY <1>3 DEF HostHandshake, HostPcs
  <2>3. h' = [h EXCEPT !.wait = FALSE, !.i = i, !.pc = c]
    BY <2>1 DEF HostHandshakeByte
  <2> HIDE DEF i, c, Hosts
  <2>4. /\ h' \in Hosts /\ h'.pc = c /\ h'.i = i /\ h'.wait = FALSE
        /\ h'.p = h.p /\ h'.len = h.len
    <3> DEFINE y == [h EXCEPT !.wait = FALSE, !.i = i, !.pc = c]
    <3>1. /\ y \in Hosts /\ y.pc = c /\ y.i = i /\ y.wait = FALSE
          /\ y.p = h.p /\ y.len = h.len
      BY <1>0, <2>2, FALSE \in BOOLEAN, Zenon DEF Hosts
    <3> QED
      BY <2>3, <3>1, Zenon
  <2> QED
    BY <2>2, <2>4
<1>4. CASE HostSettle
  BY <1>4 DEF HostSettle, HostPcs, CmdSteps
<1>5. CASE HostEcho
  <2>1. CASE h' = [h EXCEPT !.pc = "panic", !.wait = FALSE]
    BY <2>1 DEF HostPcs
  <2>2. CASE h' = [h EXCEPT !.pc = AfterEcho[@], !.wait = (h.pc = "ver"), !.i = 0,
                            !.round = IF h.pc = "baud" THEN 2 ELSE @,
                            !.baud = IF h.pc = "baud" THEN "new" ELSE @]
    <3>1. h.pc \in {"ver", "setbaud", "baud", "load", "size", "idx", "len", "csum", "go"}
      BY <1>5 DEF HostEcho, HostPcs, CmdSteps
    <3>2. /\ AfterEcho[h.pc] \in HostPcs
          /\ h.pc = "ver" => AfterEcho[h.pc] = "vernum"
      BY <3>1 DEF AfterEcho, HostPcs, CmdSteps
    <3> DEFINE c == AfterEcho[h.pc]
               w == h.pc = "ver"
               r == IF h.pc = "baud" THEN 2 ELSE h.round
               b == IF h.pc = "baud" THEN "new" ELSE h.baud
    <3>3. w \in BOOLEAN /\ r \in {1, 2} /\ b \in {"old", "new"}
      OBVIOUS
    <3>4. h' = [h EXCEPT !.pc = c, !.wait = w, !.i = 0, !.round = r, !.baud = b]
      BY <2>2
    <3>5. c \in HostPcs /\ (w => c = "vernum")
      BY <3>2
    <3> HIDE DEF c, w, r, b, Hosts
    <3>6. /\ h' \in Hosts /\ h'.pc = c /\ h'.i = 0 /\ h'.wait = w
          /\ h'.p = h.p /\ h'.len = h.len
      <4> DEFINE y == [h EXCEPT !.pc = c, !.wait = w, !.i = 0, !.round = r, !.baud = b]
      <4>1. /\ y \in Hosts /\ y.pc = c /\ y.i = 0 /\ y.wait = w
            /\ y.p = h.p /\ y.len = h.len
        BY <1>0, <3>3, <3>5, 0 \in 0 .. 4, Zenon DEF Hosts
      <4> QED
        BY <3>4, <4>1, Zenon
    <3> QED
      BY <3>5, <3>6
  <2> QED
    BY <1>5, <2>1, <2>2 DEF HostEcho
<1>6. CASE HostVersion
  BY <1>6 DEF HostVersion, HostPcs, CmdSteps
<1>7. CASE HostReply
  <2>1. CASE h' = Again(h)
    BY <2>1 DEF Again, HostPcs
  <2>2. CASE h' = [h EXCEPT !.pc = "go", !.wait = FALSE]
    BY <2>2 DEF HostPcs, CmdSteps
  <2>3. CASE /\ ~LastPacket(h)
             /\ h' = [h EXCEPT !.pc = "idx", !.wait = FALSE, !.idx = @ + 1,
                               !.p = @ + h.len, !.len = NextLen(@)]
    <3>1. h.p + h.len < Size
      BY <2>3, UartDlAssumption DEF LastPacket
    <3>2. NextLen(h.len) \in Nat /\ NextLen(h.len) >= 1 /\ NextLen(h.len) < LenLimit
      BY NextLenFits
    <3>3. "idx" \in HostPcs /\ h.idx + 1 \in Nat /\ h.p + h.len \in Nat
      BY DEF HostPcs
    <3>4. h' = [h EXCEPT !.pc = "idx", !.wait = FALSE, !.idx = h.idx + 1,
                         !.p = h.p + h.len, !.len = NextLen(h.len)]
      BY <2>3
    <3> HIDE DEF Hosts
    <3>5. /\ h' \in Hosts /\ h'.pc = "idx" /\ h'.wait = FALSE
          /\ h'.p = h.p + h.len /\ h'.len = NextLen(h.len)
      <4> DEFINE y == [h EXCEPT !.pc = "idx", !.wait = FALSE, !.idx = h.idx + 1,
                                !.p = h.p + h.len, !.len = NextLen(h.len)]
      <4>1. /\ y \in Hosts /\ y.pc = "idx" /\ y.wait = FALSE
            /\ y.p = h.p + h.len /\ y.len = NextLen(h.len)
        BY <1>0, <3>2, <3>3, FALSE \in BOOLEAN, Zenon DEF Hosts
      <4> QED
        BY <3>4, <4>1, Zenon
    <3> QED
      BY <3>1, <3>2, <3>5
  <2> QED
    BY <1>7, <2>1, <2>2, <2>3 DEF HostReply
<1>8. CASE HostTimeout
  BY <1>8 DEF HostTimeout, AfterTimeout, HostPcs
<1>9. CASE TargetStep
  BY <1>1, <1>9 DEF TargetStep, TargetHandshake, TargetCommand, TargetBaud, TargetSwitch,
     TargetSize, TargetIdx, TargetLen, TargetCsum, TargetData, EchoField
<1>10. CASE LineStep
  BY <1>1, <1>10 DEF LineStep, LoseRequest, LoseResponse, DamageRequest, DamageResponse
<1> QED
  BY <1>1, <1>2, <1>3, <1>4, <1>5, <1>6, <1>7, <1>8, <1>9, <1>10
     DEF Next, HostStep, vars

LEMMA TargetInvStep ==
    ASSUME TargetInv, LineInv, [Next]_vars
    PROVE  TargetInv'
<1> USE DEF TargetInv
<1>1. /\ t.i \in 0 .. 3 /\ t.rcvd \in Nat /\ t.idx \in Nat
      /\ t.hlen \in Nat /\ t.size \in Nat
  BY DEF Targets
<1>2. ASSUME toT # <<>>
      PROVE  Head(toT).v \in Nat
  <2>1. Head(toT) \in Fields
    BY <1>2, HeadTail DEF LineInv
  <2> QED
    BY <2>1 DEF Fields
<1>3. \A c \in {"hs", "cmd", "baud", "switch", "size", "idx", "len", "csum", "data",
                "started", "hung"} : c \in TargetPcs
  BY DEF TargetPcs
<1>4. ASSUME NEW x \in Targets PROVE NextPacket(x) \in Targets
  <2>1. x.size \in Nat
    BY DEF Targets
  <2> QED
    BY <1>3, <2>1, TargetUpdates DEF NextPacket
<1>5. CASE TargetHandshake
  <2>1. t' = Matched(t) \/ t' = [t EXCEPT !.i = 0]
    BY <1>5 DEF TargetHandshake
  <2>2. CASE t' = Matched(t) /\ t.i = 3
    <3>1. t' = [t EXCEPT !.i = 0, !.pc = "cmd"]
      BY <2>2 DEF Matched
    <3> QED
      BY <1>3, <3>1, TargetUpdates
  <2>3. CASE t' = Matched(t) /\ t.i # 3
    <3>1. t' = [t EXCEPT !.i = t.i + 1] /\ t.i + 1 \in 0 .. 3
      BY <1>1, <2>3 DEF Matched
    <3> QED
      BY <3>1, TargetUpdates
  <2>4. CASE t' = [t EXCEPT !.i = 0]
    <3>1. 0 \in 0 .. 3
      OBVIOUS
    <3> QED
      BY <2>4, <3>1, TargetUpdates
  <2> QED
    BY <2>1, <2>2, <2>3, <2>4
<1>6. CASE TargetCommand
  <2>1. \/ t' = t
        \/ t' = [t EXCEPT !.pc = "baud"]
        \/ t' = [t EXCEPT !.pc = "size", !.idx = 0, !.rcvd = 0]
        \/ t' = [t EXCEPT !.pc = "started"]
        \/ t' = [t EXCEPT !.pc = "hung"]
    BY <1>6, Zenon DEF TargetCommand
  <2>2. \A c \in TargetPcs :
          t' = [t EXCEPT !.pc = c, !.idx = 0, !.rcvd = 0] => TargetInv'
    BY TargetUpdates, Zenon
  <2>3. \A c \in TargetPcs : t' = [t EXCEPT !.pc = c] => TargetInv'
    BY TargetUpdates, Zenon
  <2> QED
    BY <1>3, <2>1, <2>2, <2>3
<1>7. CASE TargetBaud
  <2> DEFINE d == IF Head(toT).ok THEN 0 ELSE NoIdx
  <2>1. d \in Int
    BY DEF NoIdx
  <2>2. t' = [t EXCEPT !.pc = "switch", !.hidx = d]
    BY <1>7 DEF TargetBaud
  <2> HIDE DEF d
  <2> QED
    BY <1>3, <2>1, <2>2, TargetUpdates
<1>8. CASE TargetSwitch
  <2>1. PICK b \in {"old", "new", "wrong"} : t' = [t EXCEPT !.pc = "hs", !.i = 0, !.baud = b]
    BY <1>8 DEF TargetSwitch
  <2>2. 0 \in 0 .. 3
    OBVIOUS
  <2> QED
    BY <1>3, <2>1, <2>2, TargetUpdates
<1>9. CASE TargetSize
  <2>1. PICK s \in Nat : t' = NextPacket([t EXCEPT !.size = s])
    <3>1. PICK s \in IF Head(toT).ok THEN {Head(toT).v} ELSE 0 .. Size + 1 :
            t' = NextPacket([t EXCEPT !.size = s])
      BY <1>9, Zenon DEF TargetSize
    <3>2. s \in Nat
      BY <1>2, <1>9, <3>1, UartDlAssumption DEF TargetSize, EchoField, TargetReads
    <3> QED
      BY <3>1, <3>2
  <2>2. [t EXCEPT !.size = s] \in Targets
    BY TargetUpdates
  <2> QED
    BY <1>4, <2>1, <2>2
<1>10. CASE TargetIdx
  <2> DEFINE d == IF Head(toT).ok THEN Head(toT).v ELSE NoIdx
  <2>1. d \in Int
    BY <1>2, <1>10 DEF TargetIdx, EchoField, TargetReads, NoIdx
  <2>2. t' = [t EXCEPT !.pc = "len", !.hidx = d]
    BY <1>10 DEF TargetIdx
  <2> HIDE DEF d
  <2> QED
    BY <1>3, <2>1, <2>2, TargetUpdates
<1>11. CASE TargetLen
  <2>1. PICK n \in Nat : t' = [t EXCEPT !.pc = "csum", !.hlen = n]
    BY <1>2, <1>11 DEF TargetLen, EchoField, TargetReads
  <2> QED
    BY <1>3, <2>1, TargetUpdates
<1>12. CASE TargetCsum
  <2>1. PICK n \in Nat : t' = [t EXCEPT !.pc = "data", !.hsum = n]
    BY <1>2, <1>12 DEF TargetCsum, EchoField, TargetReads, Damaged
  <2> QED
    BY <1>3, <2>1, TargetUpdates
<1>13. CASE TargetData
  <2>1. [t EXCEPT !.idx = t.idx + 1, !.rcvd = t.rcvd + t.hlen] \in Targets
    <3>1. t.idx + 1 \in Nat /\ t.rcvd + t.hlen \in Nat
      BY <1>1
    <3> QED
      BY <3>1, TargetUpdates
  <2>2. t' = Received(Head(toT))
    BY <1>13 DEF TargetData
  <2> QED
    BY <1>4, <2>1, <2>2 DEF Received
<1>14. CASE UNCHANGED t
  BY <1>14
<1>15. CASE HostStep \/ HostTimeout
  BY <1>14, <1>15 DEF HostStep, HostWrite, HostHandshake, HostSettle, HostEcho, HostVersion,
     HostReply, HostTimeout
<1>16. CASE LineStep
  BY <1>14, <1>16 DEF LineStep, LoseRequest, LoseResponse, DamageRequest, DamageResponse
<1> QED
  BY <1>5, <1>6, <1>7, <1>8, <1>9, <1>10, <1>11, <1>12, <1>13, <1>14, <1>15, <1>16
     DEF Next, TargetStep, vars

LEMMA LineInvStep ==
    ASSUME Inv, [Next]_vars
    PROVE  LineInv'
<1> USE DEF LineInv
<1>1. HostInv /\ TargetInv /\ LineInv
  BY DEF Inv
<1>2. ASSUME NEW q \in {toT, toH}, q # <<>>
      PROVE  /\ Head(q) \in Fields /\ Tail(q) \in Seq(Fields)
             /\ <<[Head(q) EXCEPT !.ok = FALSE]>> \o Tail(q) \in Seq(Fields)
  BY <1>1, <1>2, HeadTail
<1>3. ASSUME NEW m \in Fields PROVE toH \o <<m>> \in Seq(Fields)
  BY <1>1
<1>4. t.idx \in Nat /\ t.rcvd \in Nat /\ t.i \in Nat
  BY <1>1 DEF TargetInv, Targets
<1>5. CASE HostWrite
  BY <1>1, <1>5, OutIsField DEF HostWrite, ToTarget
<1>6. CASE HostHandshake \/ HostSettle \/ HostEcho \/ HostVersion \/ HostReply
  <2>1. toH' = <<>> \/ (toH # <<>> /\ toH' = Tail(toH))
    BY <1>6, Zenon DEF HostHandshake, HostSettle, HostEcho, HostVersion, HostReply
  <2>2. UNCHANGED <<mem, toT, faults>>
    BY <1>6, Zenon DEF HostHandshake, HostSettle, HostEcho, HostVersion, HostReply
  <2>3. toH # <<>> => Tail(toH) \in Seq(Fields)
    BY <1>2, Zenon
  <2>4. toH' \in Seq(Fields)
    <3>1. <<>> \in Seq(Fields)
      OBVIOUS
    <3> QED
      BY <2>1, <2>3, <3>1, Zenon
  <2> QED
    BY <1>1, <2>2, <2>4
<1>7. CASE HostTimeout
  <2>1. "late" \in Faults
    BY DEF Faults
  <2> QED
    BY <1>1, <1>7, <2>1, FaultType DEF HostTimeout
<1>8. CASE TargetHandshake
  <2>1. Msg("hs", t.i, 0) \in Fields
    BY <1>4, MsgIsField
  <2> QED
    BY <1>1, <1>2, <1>3, <1>8, <2>1 DEF TargetHandshake, TargetReads, ToHost
<1>9. CASE TargetCommand
  <2>1. toT # <<>> /\ toT' = Tail(toT) /\ UNCHANGED <<mem, faults>>
    BY <1>9 DEF TargetCommand, TargetReads
  <2>2. PICK c \in CommandsIn(Head(toT)) :
          LET echo == IF Head(toT).k = "cmd" /\ Head(toT).ok
                      THEN Head(toT) ELSE [Msg("cmd", c, 0) EXCEPT !.ok = FALSE] IN
          \/ toH' = toH \o <<echo, Msg("ver", 0, 0)>>
          \/ toH' = toH \o <<echo>>
          \/ toH' = toH \o <<Msg("cmd", UNKNOWN, 0)>>
    BY <1>9 DEF TargetCommand, ToHost
  <2> DEFINE echo == IF Head(toT).k = "cmd" /\ Head(toT).ok
                     THEN Head(toT) ELSE [Msg("cmd", c, 0) EXCEPT !.ok = FALSE]
  <2>3. c \in Nat
    BY <1>2, <2>1 DEF CommandsIn, Commands, GET_VER, GO, UNKNOWN, Fields
  <2>4. echo \in Fields
    BY <1>2, <2>1, <2>3, MsgIsField
  <2>5. Msg("ver", 0, 0) \in Fields /\ Msg("cmd", UNKNOWN, 0) \in Fields
    BY MsgIsField DEF UNKNOWN
  <2>6. \/ toH' = toH \o <<echo, Msg("ver", 0, 0)>>
        \/ toH' = toH \o <<echo>>
        \/ toH' = toH \o <<Msg("cmd", UNKNOWN, 0)>>
    BY <2>2
  <2> HIDE DEF echo
  <2>7. <<echo, Msg("ver", 0, 0)>> \in Seq(Fields)
    BY <2>4, <2>5
  <2>8. toH' \in Seq(Fields)
    <3>1. CASE toH' = toH \o <<echo, Msg("ver", 0, 0)>>
      BY <1>1, <2>7, <3>1
    <3> QED
      BY <1>3, <2>4, <2>5, <2>6, <3>1
  <2> QED
    BY <1>1, <1>2, <2>1, <2>8
<1>10. CASE TargetBaud \/ TargetSize \/ TargetIdx \/ TargetLen \/ TargetCsum
  BY <1>1, <1>2, <1>3, <1>10 DEF TargetBaud, TargetSize, TargetIdx, TargetLen, TargetCsum,
     EchoField, TargetReads, ToHost
<1>11. CASE TargetSwitch
  BY <1>1, <1>11 DEF TargetSwitch
<1>12. CASE TargetData
  <2> DEFINE m == Head(toT)
  <2>1. toT # <<>> /\ toT' = Tail(toT) /\ UNCHANGED faults
    BY <1>12 DEF TargetData, TargetReads
  <2>2. m \in Fields /\ m.v \in Nat /\ m.n \in Nat
    <3>1. m \in Fields
      BY <1>2, <2>1
    <3> QED
      BY <3>1 DEF Fields
  <2>3. mem' \in [Addrs -> Nat]
    <3>1. mem' = [a \in Addrs |->
                    IF a \in t.rcvd + 1 .. t.rcvd + m.n
                    THEN (IF m.ok THEN m.v + a - t.rcvd ELSE 0)
                    ELSE mem[a]]
      BY <1>12 DEF TargetData
    <3>2. ASSUME NEW a \in Addrs
          PROVE  (IF a \in t.rcvd + 1 .. t.rcvd + m.n
                  THEN (IF m.ok THEN m.v + a - t.rcvd ELSE 0)
                  ELSE mem[a]) \in Nat
      <4> DEFINE v == m.v
                 n == m.n
      <4>1. a \in Nat /\ v \in Nat /\ n \in Nat /\ mem[a] \in Nat
        BY <1>1, <2>2, UartDlAssumption DEF Addrs
      <4> HIDE DEF m, v, n
      <4>2. a \in t.rcvd + 1 .. t.rcvd + n => v + a - t.rcvd \in Nat
        BY <1>4, <4>1
      <4> QED
        BY <4>1, <4>2 DEF v, n
    <3> QED
      BY <3>1, <3>2
  <2>4. Msg("reply", t.idx, IF t.hidx = t.idx THEN Sum(m) ELSE Damaged) \in Fields
    <3>1. (IF t.hidx = t.idx THEN Sum(m) ELSE Damaged) \in Nat
      BY DEF Sum, Intact, Damaged
    <3> QED
      BY <1>4, <3>1, MsgIsField
  <2>5. toH' \in Seq(Fields)
    BY <1>3, <1>12, <2>4 DEF TargetData, ToHost
  <2> QED
    BY <1>1, <1>2, <2>1, <2>3, <2>5
<1>13. CASE LoseRequest \/ LoseResponse \/ DamageRequest \/ DamageResponse
  <2>1. faults' \in [Faults -> Nat]
    BY <1>1, <1>13, FaultType
       DEF LoseRequest, LoseResponse, DamageRequest, DamageResponse, Faults
  <2> QED
    BY <1>1, <1>2, <1>13, <2>1 DEF LoseRequest, LoseResponse, DamageRequest, DamageResponse
<1>14. CASE UNCHANGED vars
  BY <1>1, <1>14 DEF vars
<1> QED
  BY <1>5, <1>6, <1>7, <1>8, <1>9, <1>10, <1>11, <1>12, <1>13, <1>14
     DEF Next, HostStep, TargetStep, LineStep

\* Host, target and line keep their types, and the host its position and
\* packet length, whatever the line loses, damages or delays.
THEOREM Invariance == Spec => []Inv
<1>1. Init => Inv
  BY InitInv
<1>2. Inv /\ [Next]_vars => Inv'
  BY HostInvStep, TargetInvStep, LineInvStep DEF Inv
<1> QED
  BY <1>1, <1>2, PTL DEF Spec

\* The variables of send_fip(), uart_dl.c and of the line keep their types.
THEOREM TypeCorrect == Spec => []TypeOK
<1>1. Inv => TypeOK
  BY DEF Inv, HostInv, TargetInv, LineInv, Hosts, Targets, TypeOK
<1> QED
  BY <1>1, Invariance, PTL

\* Every packet of send_fip() has at least one byte and a length that fits the
\* 16 bits it is sent in, for every size of the image.
THEOREM EveryPacketFits == Spec => []PacketFits
<1>1. Inv => PacketFits
  BY ChunkFits DEF Inv, HostInv, PacketFits
<1> QED
  BY <1>1, Invariance, PTL

-----------------------------------------------------------------------------
(* Host and target in step *)

\* Where the target reads handshake bytes or a command, or reads no more
IdlePcs == TargetPcs \ FieldPcs

HsFields == {m \in Fields : m.k = "hs"}

\* An echo that says the command was read as it was sent
IsEcho(m) == m.k = "cmd" /\ m.ok /\ m.v # UNKNOWN
Others == {m \in Fields : ~IsEcho(m)}

Damage(m) == [m EXCEPT !.ok = FALSE]

\* The target has stored what comes before the host's packet, or that packet
\* too and the host does not know.
Even == t.idx = h.idx /\ t.rcvd = h.p
Ahead == t.idx = h.idx + 1 /\ t.rcvd = h.p + Chunk(h)

\* The target reads the next packet, or has the whole image.
AtPacket ==
    /\ t.size = Size /\ (Even \/ Ahead)
    /\ \/ t.rcvd < Size /\ t.pc = "idx"
       \/ t.rcvd = Size /\ t.pc = "cmd" /\ t.dsize = Size

InPacket == t.size = Size /\ (Even \/ Ahead) /\ t.hidx = h.idx

\* Where the target is when the host comes to field c
Awaits(c) ==
    /\ c = "baud" => t.pc = "baud"
    /\ c = "size" => t.pc = "size" /\ t.idx = 0 /\ t.rcvd = 0
    /\ c = "idx" => AtPacket
    /\ c = "len" => InPacket /\ t.pc = "len"
    /\ c = "csum" => InPacket /\ t.pc = "csum" /\ t.hlen = Chunk(h)
    /\ c = "data" => InPacket /\ t.pc = "data" /\ t.hlen = Chunk(h) /\ t.hsum = Intact

\* A command or a field is the last thing on the line; a target that reads a
\* field finds nothing else; the data of a packet that will be taken fits what
\* was announced and continues what was stored.
ToTargetInv ==
    /\ \A j \in 1 .. Len(toT) : toT[j].k # "hs" => j = Len(toT)
    /\ t.pc \in FieldPcs /\ toT # <<>> => Len(toT) = 1 /\ toT[1].k = t.pc
    /\ \A j \in 1 .. Len(toT) : toT[j].k = "data" => t.pc = "data"
    /\ t.pc = "data" /\ toT # <<>> =>
         /\ toT[1].n = t.hlen /\ t.hsum = Intact
         /\ t.hidx = t.idx => toT[1].v = t.rcvd /\ t.rcvd + t.hlen <= Size

StoredInv == t.rcvd <= Size /\ PrefixIntact

\* The host's baud rate, and that it starts with the first packet
RoundInv ==
    /\ h.round = 1 <=> h.baud = "old"
    /\ h.pc \in {"ver", "vernum", "setbaud", "baud"} => h.round = 1
    /\ h.pc = "vernum" => h.wait
    /\ h.pc \notin {"idx", "len", "csum", "data", "go", "done", "panic"} =>
         h.idx = 0 /\ h.p = 0

\* Before a command only handshake bytes are under way to the target, and none
\* of the answers is the echo of a command.
BetweenInv ==
    h.pc \in {"hs", "settle", "vernum"} \/ (h.pc \in CmdSteps /\ ~h.wait) =>
        toT \in Seq(HsFields) /\ t.pc \in IdlePcs /\ toH \in Seq(Others)

\* Where the target is once it has read the command of step c
Opened(c) ==
    /\ c = "ver" => t.pc \in IdlePcs
    /\ c = "setbaud" => t.pc = "baud"
    /\ c = "load" => t.pc = "size" /\ t.idx = 0 /\ t.rcvd = 0
    /\ c = "go" => t.pc = "started"

\* A command is under way, or the target has read it and its echo is the only
\* one, or nothing more will come.
CommandInv ==
    h.pc \in CmdSteps /\ h.wait =>
        /\ \A j \in 1 .. Len(toT) :
             toT[j].k # "hs" => toT[j].k = "cmd" /\ toT[j].v = CmdOf[h.pc] /\ toT[j].n = 0
        /\ t.pc \in IdlePcs \/ toT = <<>>
        /\ \A j \in 1 .. Len(toH) : IsEcho(toH[j]) =>
             /\ toT = <<>> /\ Opened(h.pc)
             /\ h.pc # "ver" => j = Len(toH)
             /\ \A l \in 1 .. Len(toH) : l # j => ~IsEcho(toH[l])

\* The answer to a field: not the one the host expects, or the only one, and
\* then the target has gone on.
AnswerInv ==
    /\ h.pc \in {"size", "idx", "len", "csum"} =>
         toH \in Seq(Fields \ {Out(h)}) \/ (toH = <<Out(h)>> /\ Awaits(AfterEcho[h.pc]))
    /\ h.pc = "baud" =>
         \/ toH \in Seq(Fields \ {Out(h)})
         \/ /\ toH = <<Out(h)>>
            /\ \/ t.pc = "switch" /\ t.hidx = 0 /\ t.baud = "old"
               \/ t.pc = "hs" /\ t.baud = "new"
    /\ h.pc = "data" =>
         toH = <<>> \/ (Len(toH) = 1 /\ AtPacket /\ (Acknowledged(toH[1]) => Ahead))

\* A field is to be written, is under way, or was read or lost.
FieldInv ==
    h.pc \in FieldPcs =>
        \/ ~h.wait /\ toT = <<>> /\ toH = <<>> /\ Awaits(h.pc)
        \/ /\ h.wait /\ toH = <<>> /\ Awaits(h.pc)
           /\ toT = <<Out(h)>> \/ toT = <<Damage(Out(h))>>
        \/ h.wait /\ toT = <<>> /\ AnswerInv

\* The rates differ only while the target changes its own or the host waits
\* for the echo.
BaudInv ==
    h.pc # "panic" =>
        \/ h.pc = "baud" /\ h.wait /\ toT = <<>>
        \/ t.pc # "switch" /\ h.baud = t.baud
        \/ t.pc = "switch" /\ h.baud = "new" /\ t.baud = "old" /\ t.hidx = 0

\* Without damage, what arrives as something else is what the host wrote at the
\* new rate before the target had it, and the target reads it as wrong bytes.
GarbageInv ==
    faults["bad"] = 0 =>
        /\ \A j \in 1 .. Len(toT) : ~toT[j].ok /\ toT[j].k # "data" =>
             /\ toT[j].k = "hs" /\ toT[j].v = 0
             /\ t.pc = "switch" \/ (t.pc = "hs" /\ t.i = 0)
             /\ \A l \in 1 .. j : ~toT[l].ok
        /\ t.pc = "switch" => \A j \in 1 .. Len(toT) : ~toT[j].ok

Whole == t.dsize = Size /\ \A a \in 1 .. Size : mem[a] = a

WholeInv ==
    /\ h.pc \in {"go", "done"} => Whole /\ (t.pc \in IdlePcs \/ toT = <<>>)
    /\ \A j \in 1 .. Len(toT) :
         toT[j].k = "cmd" /\ toT[j].ok /\ toT[j].v = GO =>
           Whole /\ h.pc \in {"go", "done", "panic"}
    /\ t.pc = "started" /\ faults["bad"] = 0 => Whole /\ h.pc \in {"go", "done", "panic"}

StepInv == /\ ToTargetInv /\ StoredInv /\ RoundInv /\ BetweenInv /\ CommandInv
           /\ FieldInv /\ BaudInv /\ GarbageInv /\ WholeInv

-----------------------------------------------------------------------------
LEMMA InitStep == Init => StepInv
<1> SUFFICES ASSUME Init PROVE StepInv
  OBVIOUS
<1> USE DEF Init
<1>1. toT = <<>> /\ toH = <<>> /\ Len(toT) = 0 /\ h.pc = "hs" /\ t.pc = "hs"
  OBVIOUS
<1>2. ToTargetInv
  BY <1>1 DEF ToTargetInv, FieldPcs
<1>3. StoredInv
  BY UartDlAssumption DEF StoredInv, PrefixIntact
<1>4. RoundInv
  BY DEF RoundInv
<1>5. BetweenInv
  BY DEF BetweenInv, IdlePcs, TargetPcs, FieldPcs
<1>6. CommandInv /\ FieldInv /\ BaudInv
  BY <1>1 DEF CommandInv, FieldInv, BaudInv, CmdSteps, FieldPcs
<1>7. GarbageInv /\ WholeInv
  BY <1>1 DEF GarbageInv, WholeInv
<1> QED
  BY <1>2, <1>3, <1>4, <1>5, <1>6, <1>7 DEF StepInv

\* Taking the first field from a line, damaging it, adding one at the end
LEMMA Taking ==
    ASSUME NEW q \in Seq(Fields), q # <<>>
    PROVE  /\ Len(q) \in Nat /\ Len(q) >= 1 /\ Head(q) = q[1] /\ q[1] \in Fields
           /\ Len(Tail(q)) = Len(q) - 1
           /\ \A j \in 1 .. Len(q) - 1 : Tail(q)[j] = q[j + 1]
           /\ Len(q) = 1 => Tail(q) = <<>>
<1>1. Len(q) \in Nat /\ Len(q) >= 1 /\ Head(q) = q[1] /\ q[1] \in Fields
  OBVIOUS
<1>2. Len(Tail(q)) = Len(q) - 1 /\ \A j \in 1 .. Len(q) - 1 : Tail(q)[j] = q[j + 1]
  OBVIOUS
<1>3. Tail(q) \in Seq(Fields)
  OBVIOUS
<1>4. Len(q) = 1 => Tail(q) = <<>>
  <2>1. Tail(q) # <<>> => Len(Tail(q)) \in Nat \ {0}
    BY <1>3, EmptySeq, Zenon
  <2> QED
    BY <1>2, <2>1
<1> QED
  BY <1>1, <1>2, <1>4

LEMMA Damaging ==
    ASSUME NEW q \in Seq(Fields), q # <<>>
    PROVE  LET r == <<Damage(Head(q))>> \o Tail(q)
           IN  /\ Len(r) = Len(q)
               /\ r[1] = Damage(q[1])
               /\ \A j \in 2 .. Len(q) : r[j] = q[j]
               /\ Len(q) = 1 => r = <<Damage(q[1])>>
<1> DEFINE d == Damage(Head(q))
           r == <<d>> \o Tail(q)
<1>1. Head(q) = q[1] /\ Len(q) \in Nat /\ Len(q) >= 1
  BY Taking
<1> HIDE DEF d
<1>2. Len(r) = Len(q) /\ r[1] = d
  OBVIOUS
<1>3. \A j \in 2 .. Len(q) : r[j] = q[j]
  OBVIOUS
<1>4. Len(q) = 1 => r = <<d>>
  <2>1. <<d>> \o <<>> = <<d>>
    <3>1. <<d>> \in Seq({d})
      OBVIOUS
    <3> QED
      BY <3>1, ConcatEmptySeq, Zenon
  <2> QED
    BY <2>1, Taking
<1> QED
  BY <1>1, <1>2, <1>3, <1>4 DEF d

LEMMA Adding ==
    ASSUME NEW q \in Seq(Fields), NEW m
    PROVE  /\ Len(Append(q, m)) = Len(q) + 1 /\ Len(q) \in Nat
           /\ \A j \in 1 .. Len(q) : Append(q, m)[j] = q[j]
           /\ Append(q, m)[Len(q) + 1] = m
           /\ q \o <<m>> = Append(q, m)
           /\ Append(q, m) # <<>>
<1>1. Len(Append(q, m)) = Len(q) + 1 /\ Len(q) \in Nat
  OBVIOUS
<1>2. \A j \in 1 .. Len(q) : Append(q, m)[j] = q[j]
  OBVIOUS
<1>3. Append(q, m)[Len(q) + 1] = m
  OBVIOUS
<1>4. q \o <<m>> = Append(q, m)
  OBVIOUS
<1>5. Append(q, m) # <<>>
  BY <1>1
<1> QED
  BY <1>1, <1>2, <1>3, <1>4, <1>5

LEMMA DamagedParts ==
    ASSUME NEW m \in Fields
    PROVE  /\ Damage(m) \in Fields /\ ~Damage(m).ok
           /\ Damage(m).k = m.k /\ Damage(m).v = m.v /\ Damage(m).n = m.n
<1>1. Damage(m) \in Fields /\ Damage(m).k = m.k /\ Damage(m).v = m.v /\ Damage(m).n = m.n
  BY DEF Damage, Fields
<1>2. Damage(m).ok = FALSE
  BY DEF Damage, Fields
<1> QED
  BY <1>1, <1>2

LEMMA CmdValues ==
    /\ \A c \in CmdSteps : CmdOf[c] \in 1 .. 4 /\ (CmdOf[c] = GO <=> c = "go")
    /\ CmdOf["ver"] = GET_VER /\ CmdOf["setbaud"] = SET_BAUD
    /\ CmdOf["load"] = LOAD_DATA /\ CmdOf["go"] = GO
BY DEF CmdSteps, CmdOf, GET_VER, SET_BAUD, LOAD_DATA, GO

\* What the host writes
LEMMA OutIs ==
    ASSUME NEW x
    PROVE  /\ x.pc = "hs" => Out(x) = Msg("hs", x.i, 0)
           /\ x.pc \in CmdSteps => Out(x) = Msg("cmd", CmdOf[x.pc], 0)
           /\ x.pc = "baud" => Out(x) = Msg("baud", 0, 0)
           /\ x.pc = "size" => Out(x) = Msg("size", Size, 0)
           /\ x.pc = "idx" => Out(x) = Msg("idx", x.idx, 0)
           /\ x.pc = "len" => Out(x) = Msg("len", Chunk(x), 0)
           /\ x.pc = "csum" => Out(x) = Msg("csum", Intact, 0)
           /\ x.pc = "data" => Out(x) = Msg("data", x.p, Chunk(x))
BY DEF Out, CmdSteps

LEMMA MsgParts ==
    ASSUME NEW k, NEW v, NEW n
    PROVE  Msg(k, v, n).k = k /\ Msg(k, v, n).v = v /\ Msg(k, v, n).n = n /\ Msg(k, v, n).ok
<1>1. Msg(k, v, n).ok = TRUE
  BY DEF Msg
<1> QED
  BY <1>1 DEF Msg

LEMMA OutField ==
    ASSUME HostInv
    PROVE  /\ Out(h) \in Fields
           /\ h.pc \in FieldPcs => Out(h).k = h.pc /\ Out(h).ok
<1>1. /\ h.i \in Nat /\ h.idx \in Nat /\ h.p \in Nat /\ h.pc \in HostPcs
      /\ Chunk(h) \in Nat /\ Size \in Nat /\ Intact \in Nat
  BY ChunkFits, UartDlAssumption DEF HostInv, Hosts, Intact
<1>2. h.pc \in CmdSteps => CmdOf[h.pc] \in Nat
  BY CmdValues
<1>3. Out(h) \in Fields
  BY <1>1, <1>2, MsgIsField DEF Out
<1>4. h.pc \in FieldPcs => Out(h).k = h.pc /\ Out(h).ok
  BY OutIs, MsgParts DEF FieldPcs
<1> QED
  BY <1>3, <1>4

LEMMA AwaitsPc ==
    ASSUME h.pc \in FieldPcs, Awaits(h.pc)
    PROVE  t.pc = h.pc \/ (h.pc = "idx" /\ t.pc = "cmd")
BY DEF Awaits, AtPacket, InPacket, FieldPcs

\* What the host is doing
LEMMA HostAt ==
    ASSUME HostInv
    PROVE  \/ h.pc \in {"hs", "settle", "vernum"}
           \/ h.pc \in CmdSteps
           \/ h.pc \in FieldPcs
           \/ h.pc \in {"done", "panic"}
BY DEF HostInv, Hosts, HostPcs, FieldPcs

LEMMA HsSeq ==
    ASSUME NEW q \in Seq(HsFields)
    PROVE  q \in Seq(Fields) /\ \A j \in 1 .. Len(q) : q[j].k = "hs"
<1>1. \A j \in 1 .. Len(q) : q[j] \in HsFields
  BY ElementOfSeq
<1>2. q \in Seq(Fields)
  BY SeqMonotonic DEF HsFields
<1> QED
  BY <1>1, <1>2 DEF HsFields

LEMMA OtherSeq ==
    ASSUME NEW q \in Seq(Others)
    PROVE  q \in Seq(Fields) /\ \A j \in 1 .. Len(q) : ~IsEcho(q[j])
<1>1. \A j \in 1 .. Len(q) : q[j] \in Others
  BY ElementOfSeq
<1>2. q \in Seq(Fields)
  BY SeqMonotonic DEF Others
<1> QED
  BY <1>1, <1>2 DEF Others

LEMMA GarbageIs ==
    Garbage \in HsFields /\ Garbage.k = "hs" /\ Garbage.v = 0 /\ ~Garbage.ok
<1>1. Garbage \in HsFields /\ Garbage.k = "hs" /\ Garbage.v = 0
  BY DEF Garbage, HsFields, Fields
<1>2. Garbage.ok = FALSE
  BY DEF Garbage
<1> QED
  BY <1>1, <1>2

-----------------------------------------------------------------------------
(* The host writes *)

LEMMA WriteFacts ==
    ASSUME Inv, HostWrite
    PROVE  /\ UNCHANGED <<t, mem, toH, faults>> /\ ~h.wait /\ h'.wait
           /\ h'.pc = h.pc /\ h'.round = h.round /\ h'.i = h.i /\ h'.idx = h.idx
           /\ h'.p = h.p /\ h'.len = h.len /\ h'.baud = h.baud
           /\ Chunk(h') = Chunk(h) /\ Out(h') = Out(h)
           /\ t.pc \in {"started", "hung"} => toT' = toT
           /\ t.pc \notin {"started", "hung"} => toT' = Append(toT, OnWire(Out(h)))
<1>1. h \in Hosts
  BY DEF Inv, HostInv
<1>2. h' = [h EXCEPT !.wait = TRUE]
  BY DEF HostWrite
<1>3. /\ h'.pc = h.pc /\ h'.round = h.round /\ h'.i = h.i /\ h'.idx = h.idx
      /\ h'.p = h.p /\ h'.len = h.len /\ h'.baud = h.baud
  BY <1>1, <1>2 DEF Hosts
<1>4. h'.wait = TRUE
  BY <1>1, <1>2 DEF Hosts
<1>5. Chunk(h') = Chunk(h)
  BY <1>3 DEF Chunk
<1>6. Out(h') = Out(h)
  BY <1>3, <1>5 DEF Out
<1> QED
  BY <1>3, <1>4, <1>5, <1>6 DEF HostWrite, ToTarget

\* A handshake byte or a command
LEMMA WriteByteStep ==
    ASSUME Inv, StepInv, HostWrite, h.pc = "hs" \/ h.pc \in CmdSteps
    PROVE  StepInv'
<1> DEFINE g == OnWire(Out(h))
<1>a. HostInv /\ toT \in Seq(Fields) /\ toH \in Seq(Fields)
  BY DEF Inv, LineInv
<1>b. /\ UNCHANGED <<t, mem, toH, faults>> /\ ~h.wait /\ h'.wait
      /\ h'.pc = h.pc /\ h'.round = h.round /\ h'.i = h.i /\ h'.idx = h.idx
      /\ h'.p = h.p /\ h'.len = h.len /\ h'.baud = h.baud
      /\ Chunk(h') = Chunk(h) /\ Out(h') = Out(h)
  BY WriteFacts
<1>c. h.pc \notin FieldPcs /\ h.pc \notin {"baud", "done", "panic", "vernum"}
  BY DEF FieldPcs, CmdSteps
<1>d. toT \in Seq(HsFields) /\ t.pc \in IdlePcs /\ toH \in Seq(Others)
  BY <1>b DEF StepInv, BetweenInv
<1>e. \/ g = Garbage
      \/ g = Out(h) /\ h.baud = t.baud
  BY DEF OnWire
<1>f. \/ g = Garbage /\ g.k = "hs" /\ g.v = 0 /\ ~g.ok /\ t.pc = "switch"
      \/ g = Out(h) /\ g.ok /\ t.pc # "switch" /\ (h.pc = "hs" => g.k = "hs")
         /\ (h.pc \in CmdSteps => g.k = "cmd" /\ g.v = CmdOf[h.pc] /\ g.n = 0)
  <2>1. \/ t.pc # "switch" /\ h.baud = t.baud
        \/ t.pc = "switch" /\ h.baud = "new" /\ t.baud = "old"
    BY <1>c DEF StepInv, BaudInv
  <2>2. /\ t.pc = "switch" => g = Garbage
        /\ t.pc # "switch" => g = Out(h)
    BY <2>1 DEF OnWire
  <2>3. Out(h).ok /\ (h.pc = "hs" => Out(h).k = "hs")
    BY OutIs, MsgParts
  <2>4. h.pc \in CmdSteps => Out(h).k = "cmd" /\ Out(h).v = CmdOf[h.pc] /\ Out(h).n = 0
    BY OutIs, MsgParts
  <2> QED
    BY <2>2, <2>3, <2>4, GarbageIs
<1>g. g \in Fields
  BY <1>a, OutField, GarbageIs DEF OnWire, HsFields
<1>h. \/ toT' = toT /\ t.pc \in {"started", "hung"}
      \/ toT' = Append(toT, g) /\ t.pc \notin {"started", "hung"}
  BY WriteFacts
<1> HIDE DEF g
\* All but the last are handshake bytes.
<1>i. /\ Len(toT) \in Nat /\ \A j \in 1 .. Len(toT) : toT[j].k = "hs" /\ toT'[j] = toT[j]
      /\ \/ toT' = toT
         \/ toT' = Append(toT, g) /\ Len(toT') = Len(toT) + 1 /\ toT'[Len(toT) + 1] = g
  BY <1>a, <1>d, <1>h, HsSeq, Adding
<1>j. \A j \in 1 .. Len(toT') :
        j \in 1 .. Len(toT) \/ (j = Len(toT') /\ j = Len(toT) + 1 /\ toT'[j] = g)
  BY <1>i
<1>1. ToTargetInv'
  <2>1. \A j \in 1 .. Len(toT') : toT'[j].k # "hs" => j = Len(toT') /\ toT'[j] = g
    BY <1>i, <1>j
  <2>2. g.k # "data"
    BY <1>f
  <2>3. \A j \in 1 .. Len(toT') : toT'[j].k # "data"
    BY <2>1, <2>2
  <2>4. t'.pc \notin FieldPcs /\ t'.pc # "data"
    BY <1>b, <1>d DEF IdlePcs, FieldPcs
  <2> QED
    BY <2>1, <2>3, <2>4 DEF ToTargetInv
<1>2. StoredInv'
  BY <1>b DEF StepInv, StoredInv, PrefixIntact
<1>3. RoundInv'
  BY <1>b DEF StepInv, RoundInv
<1>4. BetweenInv'
  <2>1. CASE h.pc = "hs"
    <3>1. g \in HsFields
      BY <1>f, <1>g, <2>1 DEF HsFields
    <3>2. toT' \in Seq(HsFields)
      BY <1>d, <1>i, <3>1
    <3> QED
      BY <1>b, <1>d, <3>2 DEF BetweenInv
  <2>2. CASE h.pc \in CmdSteps
    BY <1>b, <2>2 DEF BetweenInv, CmdSteps
  <2> QED
    BY <2>1, <2>2
<1>5. CommandInv'
  <2>1. \A j \in 1 .. Len(toH') : ~IsEcho(toH'[j])
    BY <1>b, <1>d, OtherSeq
  <2>2. h.pc \in CmdSteps => \A j \in 1 .. Len(toT') :
          toT'[j].k # "hs" => toT'[j].k = "cmd" /\ toT'[j].v = CmdOf[h.pc] /\ toT'[j].n = 0
    BY <1>f, <1>i, <1>j
  <2> QED
    BY <1>b, <1>d, <2>1, <2>2 DEF CommandInv
<1>6. FieldInv'
  BY <1>b, <1>c DEF FieldInv
<1>7. BaudInv'
  BY <1>b, <1>c DEF StepInv, BaudInv
<1>8. GarbageInv'
  <2> SUFFICES ASSUME faults["bad"] = 0 PROVE GarbageInv'
    BY <1>b DEF GarbageInv
  <2>1. /\ \A j \in 1 .. Len(toT) : ~toT[j].ok =>
             /\ toT[j].k = "hs" /\ toT[j].v = 0
             /\ t.pc = "switch" \/ (t.pc = "hs" /\ t.i = 0)
             /\ \A l \in 1 .. j : ~toT[l].ok
        /\ t.pc = "switch" => \A j \in 1 .. Len(toT) : ~toT[j].ok
    BY <1>i DEF StepInv, GarbageInv
  <2>2. \A j \in 1 .. Len(toT) : \A l \in 1 .. j : l \in 1 .. Len(toT)
    BY <1>i
  <2>3. t.pc = "switch" => \A j \in 1 .. Len(toT') : ~toT'[j].ok /\ toT'[j].k = "hs" /\ toT'[j].v = 0
    BY <1>f, <1>i, <1>j, <2>1
  <2>4. CASE t.pc = "switch"
    <3>1. \A j \in 1 .. Len(toT') : \A l \in 1 .. j : l \in 1 .. Len(toT')
      BY <1>i
    <3> QED
      BY <1>b, <2>3, <2>4, <3>1 DEF GarbageInv
  <2>5. CASE t.pc # "switch"
    <3>1. \A j \in 1 .. Len(toT') : ~toT'[j].ok => j \in 1 .. Len(toT)
      BY <1>f, <1>j, <2>5
    <3> QED
      BY <1>b, <1>i, <2>1, <2>2, <2>5, <3>1 DEF GarbageInv
  <2> QED
    BY <2>4, <2>5
<1>9. WholeInv'
  <2>1. Whole' = Whole
    BY <1>b DEF Whole
  <2>2. \A j \in 1 .. Len(toT') : toT'[j].k = "cmd" /\ toT'[j].v = GO => h.pc = "go"
    BY <1>f, <1>i, <1>j, CmdValues
  <2> QED
    BY <1>b, <1>c, <1>d, <2>1, <2>2 DEF StepInv, WholeInv
<1> QED
  BY <1>1, <1>2, <1>3, <1>4, <1>5, <1>6, <1>7, <1>8, <1>9 DEF StepInv

\* A field
LEMMA WriteFieldStep ==
    ASSUME Inv, StepInv, HostWrite, h.pc \in FieldPcs
    PROVE  StepInv'
<1>a. HostInv /\ TargetInv /\ toT \in Seq(Fields) /\ toH \in Seq(Fields)
  BY DEF Inv, LineInv
<1>b. /\ UNCHANGED <<t, mem, toH, faults>> /\ ~h.wait /\ h'.wait
      /\ h'.pc = h.pc /\ h'.round = h.round /\ h'.i = h.i /\ h'.idx = h.idx
      /\ h'.p = h.p /\ h'.len = h.len /\ h'.baud = h.baud
      /\ Chunk(h') = Chunk(h) /\ Out(h') = Out(h)
  BY WriteFacts
<1>c. h.pc \notin CmdSteps /\ h.pc \notin {"hs", "settle", "vernum", "done", "panic", "go"}
  BY DEF FieldPcs, CmdSteps
<1>d. toT = <<>> /\ toH = <<>> /\ Awaits(h.pc)
  BY <1>b DEF StepInv, FieldInv
<1>e. t.pc = h.pc \/ (h.pc = "idx" /\ t.pc = "cmd")
  BY <1>d, AwaitsPc
<1>f. t.pc \notin {"started", "hung", "switch", "hs"}
  BY <1>e DEF FieldPcs
<1>g. OnWire(Out(h)) = Out(h) /\ h.baud = t.baud
  BY <1>b, <1>c, <1>f DEF StepInv, BaudInv, OnWire
<1>h. Out(h) \in Fields /\ Out(h).k = h.pc /\ Out(h).ok
  BY <1>a, OutField
<1>i. toT' = <<Out(h)>>
  <2>1. toT' = Append(toT, Out(h))
    BY <1>f, <1>g, WriteFacts
  <2> QED
    BY <1>d, <2>1
<1>j. Len(toT') = 1 /\ toT'[1] = Out(h) /\ toT' # <<>>
  BY <1>i
<1>k. \A j \in 1 .. Len(toT') : j = 1
  BY <1>j
<1>1. ToTargetInv'
  <2>1. h.pc = "data" => t.pc = "data"
    BY <1>e
  <2>2. t.pc \in FieldPcs => t.pc = h.pc
    BY <1>e DEF FieldPcs
  <2>3. ASSUME t.pc = "data"
        PROVE  /\ Out(h).n = t.hlen /\ t.hsum = Intact
               /\ t.hidx = t.idx => Out(h).v = t.rcvd /\ t.rcvd + t.hlen <= Size
    <3>1. h.pc = "data"
      BY <1>e, <2>3
    <3>2. InPacket /\ t.hlen = Chunk(h) /\ t.hsum = Intact
      BY <1>d, <3>1 DEF Awaits
    <3>3. Out(h).n = Chunk(h) /\ Out(h).v = h.p
      BY <3>1, OutIs, MsgParts
    <3>4. h.idx \in Nat /\ h.p \in Nat /\ h.len \in Nat /\ h.p < Size
      BY <1>a DEF HostInv, Hosts
    <3>5. t.hidx = t.idx => t.rcvd = h.p
      BY <3>2, <3>4 DEF InPacket, Even, Ahead
    <3>6. h.p + Chunk(h) <= Size
      BY <3>4, UartDlAssumption DEF Chunk
    <3> QED
      BY <3>2, <3>3, <3>5, <3>6
  <2> QED
    BY <1>b, <1>h, <1>j, <1>k, <2>1, <2>2, <2>3 DEF ToTargetInv
<1>2. StoredInv'
  BY <1>b DEF StepInv, StoredInv, PrefixIntact
<1>3. RoundInv'
  BY <1>b DEF StepInv, RoundInv
<1>4. BetweenInv'
  BY <1>b, <1>c DEF BetweenInv
<1>5. CommandInv'
  BY <1>b, <1>c DEF CommandInv
<1>6. FieldInv'
  <2>1. Awaits(h.pc)'
    BY <1>b, <1>d DEF Awaits, AtPacket, InPacket, Even, Ahead
  <2> QED
    BY <1>b, <1>d, <1>i, <2>1 DEF FieldInv
<1>7. BaudInv'
  BY <1>b, <1>c, <1>f, <1>g DEF BaudInv
<1>8. GarbageInv'
  BY <1>b, <1>f, <1>h, <1>j, <1>k DEF GarbageInv
<1>9. WholeInv'
  <2>1. Whole' = Whole
    BY <1>b DEF Whole
  <2>2. Out(h).k # "cmd"
    BY <1>h DEF FieldPcs
  <2> QED
    BY <1>b, <1>c, <1>f, <1>j, <1>k, <2>1, <2>2 DEF WholeInv
<1> QED
  BY <1>1, <1>2, <1>3, <1>4, <1>5, <1>6, <1>7, <1>8, <1>9 DEF StepInv

LEMMA WriteStep ==
    ASSUME Inv, StepInv, HostWrite
    PROVE  StepInv'
<1>1. ~h.wait /\ h.pc \notin {"settle", "done", "panic"}
  BY DEF HostWrite
<1>2. h.pc # "vernum"
  BY <1>1 DEF StepInv, RoundInv
<1>3. h.pc = "hs" \/ h.pc \in CmdSteps \/ h.pc \in FieldPcs
  BY <1>1, <1>2, HostAt DEF Inv
<1> QED
  BY <1>3, WriteByteStep, WriteFieldStep

-----------------------------------------------------------------------------
(* The host reads *)

\* What a step of the host that writes nothing leaves alone
LEMMA ReadFrame ==
    ASSUME StepInv, UNCHANGED <<t, mem, toT>>, faults'["bad"] = faults["bad"],
           h.pc \in {"go", "done", "panic"} => h'.pc \in {"go", "done", "panic"},
           h'.pc \in {"go", "done"} => Whole /\ (t.pc \in IdlePcs \/ toT = <<>>)
    PROVE  ToTargetInv' /\ StoredInv' /\ GarbageInv' /\ WholeInv'
<1>1. ToTargetInv'
  BY DEF StepInv, ToTargetInv
<1>2. StoredInv'
  BY DEF StepInv, StoredInv, PrefixIntact
<1>3. GarbageInv'
  BY DEF StepInv, GarbageInv
<1>4. Whole' = Whole
  BY DEF Whole
<1>5. WholeInv'
  BY <1>4 DEF StepInv, WholeInv
<1> QED
  BY <1>1, <1>2, <1>3, <1>5

\* A panic of the host ends its part.
LEMMA PanicStep ==
    ASSUME StepInv, UNCHANGED <<t, mem, toT>>, faults'["bad"] = faults["bad"],
           h'.pc = "panic", h'.round = h.round, h'.baud = h.baud
    PROVE  StepInv'
<1>1. ToTargetInv' /\ StoredInv' /\ GarbageInv' /\ WholeInv'
  BY ReadFrame
<1>2. RoundInv'
  BY DEF StepInv, RoundInv
<1>3. BetweenInv' /\ CommandInv' /\ FieldInv' /\ BaudInv'
  BY DEF BetweenInv, CommandInv, FieldInv, BaudInv, CmdSteps, FieldPcs
<1> QED
  BY <1>1, <1>2, <1>3 DEF StepInv

LEMMA HandshakeStep ==
    ASSUME Inv, StepInv, HostHandshake
    PROVE  StepInv'
<1>a. h \in Hosts /\ toH \in Seq(Fields)
  BY DEF Inv, HostInv, LineInv
<1>b. h.pc = "hs" /\ toH # <<>> /\ toH' = Tail(toH) /\ UNCHANGED <<t, mem, toT, faults>>
  BY DEF HostHandshake
<1>c. /\ h'.pc \in {"hs", "settle"} /\ h'.round = h.round /\ h'.baud = h.baud
      /\ h'.idx = h.idx /\ h'.p = h.p
  <2>1. PICK match \in BOOLEAN : HostHandshakeByte(match)
    BY DEF HostHandshake, ReadsAs
  <2> DEFINE i == IF match THEN h.i + 1 ELSE h.i
             c == IF match /\ h.i = 3 THEN "settle" ELSE h.pc
  <2>2. h' = [h EXCEPT !.wait = FALSE, !.i = i, !.pc = c]
    BY <2>1 DEF HostHandshakeByte
  <2>3. c \in {"hs", "settle"}
    BY <1>b
  <2> HIDE DEF i, c
  <2> QED
    BY <1>a, <2>2, <2>3 DEF Hosts
<1>1. ToTargetInv' /\ StoredInv' /\ GarbageInv' /\ WholeInv'
  BY <1>b, <1>c, ReadFrame
<1>2. RoundInv'
  BY <1>b, <1>c DEF StepInv, RoundInv
<1>3. BetweenInv'
  <2>1. toT \in Seq(HsFields) /\ t.pc \in IdlePcs /\ toH \in Seq(Others)
    BY <1>b DEF StepInv, BetweenInv
  <2>2. toH' \in Seq(Others)
    BY <1>b, <2>1
  <2> QED
    BY <1>b, <2>1, <2>2 DEF BetweenInv
<1>4. CommandInv' /\ FieldInv'
  BY <1>c DEF CommandInv, FieldInv, CmdSteps, FieldPcs
<1>5. BaudInv'
  BY <1>b, <1>c DEF StepInv, BaudInv
<1> QED
  BY <1>1, <1>2, <1>3, <1>4, <1>5 DEF StepInv

LEMMA SettleStep ==
    ASSUME Inv, StepInv, HostSettle
    PROVE  StepInv'
<1>a. h \in Hosts /\ ~h.wait /\ h.round \in {1, 2}
  BY DEF Inv, HostInv, HostSettle, Hosts
<1>b. h.pc = "settle" /\ toH' = <<>> /\ UNCHANGED <<t, mem, toT, faults>>
  BY DEF HostSettle
<1>c. /\ h'.pc = (IF h.round = 1 THEN "ver" ELSE "load") /\ h'.round = h.round
      /\ h'.baud = h.baud /\ h'.idx = h.idx /\ h'.p = h.p
  BY <1>a DEF HostSettle, Hosts
<1>d. h'.wait = h.wait
  BY <1>a DEF HostSettle, Hosts
<1>1. ToTargetInv' /\ StoredInv' /\ GarbageInv' /\ WholeInv'
  BY <1>b, <1>c, ReadFrame
<1>2. RoundInv'
  BY <1>b, <1>c DEF StepInv, RoundInv
<1>3. BetweenInv'
  BY <1>b DEF StepInv, BetweenInv
<1>4. CommandInv'
  BY <1>a, <1>d DEF CommandInv
<1>5. FieldInv'
  BY <1>c DEF FieldInv, FieldPcs
<1>6. BaudInv'
  BY <1>b, <1>c DEF StepInv, BaudInv
<1> QED
  BY <1>1, <1>2, <1>3, <1>4, <1>5, <1>6 DEF StepInv

LEMMA VersionStep ==
    ASSUME Inv, StepInv, HostVersion
    PROVE  StepInv'
<1>a. h \in Hosts /\ toH \in Seq(Fields)
  BY DEF Inv, HostInv, LineInv
<1>b. h.pc = "vernum" /\ toH # <<>> /\ toH' = Tail(toH) /\ UNCHANGED <<t, mem, toT, faults>>
  BY DEF HostVersion
<1>c. /\ h'.pc = "setbaud" /\ h'.round = h.round
      /\ h'.baud = h.baud /\ h'.idx = h.idx /\ h'.p = h.p
  BY <1>a DEF HostVersion, Hosts
<1>d. h'.wait = FALSE
  BY <1>a DEF HostVersion, Hosts
<1>1. ToTargetInv' /\ StoredInv' /\ GarbageInv' /\ WholeInv'
  BY <1>b, <1>c, ReadFrame
<1>2. RoundInv'
  BY <1>b, <1>c DEF StepInv, RoundInv
<1>3. BetweenInv'
  <2>1. toT \in Seq(HsFields) /\ t.pc \in IdlePcs /\ toH \in Seq(Others)
    BY <1>b DEF StepInv, BetweenInv
  <2>2. toH' \in Seq(Others)
    BY <1>b, <2>1
  <2> QED
    BY <1>b, <2>1, <2>2 DEF BetweenInv
<1>4. CommandInv' /\ FieldInv'
  BY <1>c, <1>d DEF CommandInv, FieldInv, FieldPcs
<1>5. BaudInv'
  BY <1>b, <1>c DEF StepInv, BaudInv
<1> QED
  BY <1>1, <1>2, <1>3, <1>4, <1>5 DEF StepInv

LEMMA TimeoutStep ==
    ASSUME Inv, StepInv, HostTimeout
    PROVE  StepInv'
<1>a. h \in Hosts /\ faults \in [Faults -> Nat]
  BY DEF Inv, HostInv, LineInv
<1>b. h.wait /\ toH = <<>> /\ UNCHANGED <<t, mem, toT, toH>>
  BY DEF HostTimeout
<1>c. faults'["bad"] = faults["bad"]
  BY <1>a DEF HostTimeout, Fault, Faults
<1>d. /\ h'.pc = (IF h.pc = "hs" THEN "hs" ELSE "panic") /\ h'.round = h.round
      /\ h'.baud = h.baud /\ h'.idx = h.idx /\ h'.p = h.p
  BY <1>a DEF HostTimeout, AfterTimeout, Hosts
<1>1. CASE h.pc # "hs"
  BY <1>b, <1>c, <1>d, <1>1, PanicStep
<1>2. CASE h.pc = "hs"
  <2>1. ToTargetInv' /\ StoredInv' /\ GarbageInv' /\ WholeInv'
    BY <1>b, <1>c, <1>d, <1>2, ReadFrame
  <2>2. RoundInv'
    BY <1>b, <1>d, <1>2 DEF StepInv, RoundInv
  <2>3. BetweenInv'
    BY <1>b, <1>2 DEF StepInv, BetweenInv
  <2>4. CommandInv' /\ FieldInv'
    BY <1>d, <1>2 DEF CommandInv, FieldInv, FieldPcs, CmdSteps
  <2>5. BaudInv'
    BY <1>b, <1>d, <1>2 DEF StepInv, BaudInv
  <2> QED
    BY <2>1, <2>2, <2>3, <2>4, <2>5 DEF StepInv
<1> QED
  BY <1>1, <1>2

LEMMA OthersIn ==
    ASSUME NEW q \in Seq(Fields), \A j \in 1 .. Len(q) : ~IsEcho(q[j])
    PROVE  q \in Seq(Others)
<1>1. Len(q) \in Nat /\ q \in [1 .. Len(q) -> Fields]
  BY LenProperties
<1>2. q \in [1 .. Len(q) -> Others]
  BY <1>1 DEF Others
<1> QED
  BY <1>1, <1>2, SeqDef

LEMMA EchoFacts ==
    ASSUME Inv, HostEcho, EchoOK(Head(toH))
    PROVE  /\ h.wait /\ toH # <<>> /\ toH' = Tail(toH) /\ toH[1] = Out(h)
           /\ UNCHANGED <<t, mem, toT, faults>>
           /\ h.pc \in CmdSteps \cup (FieldPcs \ {"data"})
           /\ h'.pc = AfterEcho[h.pc] /\ h'.idx = h.idx /\ h'.p = h.p /\ h'.len = h.len
           /\ h'.wait <=> h.pc = "ver"
           /\ h'.round = (IF h.pc = "baud" THEN 2 ELSE h.round)
           /\ h'.baud = (IF h.pc = "baud" THEN "new" ELSE h.baud)
           /\ Chunk(h') = Chunk(h)
<1>1. h \in Hosts /\ toH \in Seq(Fields)
  BY DEF Inv, HostInv, LineInv
<1>2. /\ h.wait /\ toH # <<>> /\ toH' = Tail(toH) /\ UNCHANGED <<t, mem, toT, faults>>
      /\ h.pc \notin {"hs", "vernum", "data"}
  BY DEF HostEcho
<1>3. toH[1] = Out(h)
  BY <1>1, <1>2, Taking DEF EchoOK
<1>4. h.pc \in CmdSteps \cup (FieldPcs \ {"data"})
  BY <1>1, <1>2 DEF Inv, HostInv, Hosts, HostPcs, FieldPcs
<1> DEFINE c == AfterEcho[h.pc]
           w == h.pc = "ver"
           r == IF h.pc = "baud" THEN 2 ELSE h.round
           b == IF h.pc = "baud" THEN "new" ELSE h.baud
<1>5. h' = [h EXCEPT !.pc = c, !.wait = w, !.i = 0, !.round = r, !.baud = b]
  BY DEF HostEcho
<1> HIDE DEF c, w, r, b
<1>6. /\ h'.pc = c /\ h'.idx = h.idx /\ h'.p = h.p /\ h'.len = h.len
      /\ h'.round = r /\ h'.baud = b
  BY <1>1, <1>5 DEF Hosts
<1>7. h'.wait = w
  BY <1>1, <1>5 DEF Hosts
<1>8. Chunk(h') = Chunk(h)
  BY <1>6 DEF Chunk
<1> QED
  BY <1>2, <1>3, <1>4, <1>6, <1>7, <1>8 DEF c, w, r, b

\* The echo of a command
LEMMA EchoCommandStep ==
    ASSUME Inv, StepInv, HostEcho, EchoOK(Head(toH)), h.pc \in CmdSteps
    PROVE  StepInv'
<1>a. toH \in Seq(Fields) /\ toH # <<>>
  BY EchoFacts DEF Inv, LineInv
<1>b. /\ h.wait /\ toH' = Tail(toH) /\ toH[1] = Out(h) /\ UNCHANGED <<t, mem, toT, faults>>
      /\ h'.idx = h.idx /\ h'.p = h.p /\ (h'.wait <=> h.pc = "ver")
      /\ h'.round = h.round /\ h'.baud = h.baud
  BY EchoFacts DEF CmdSteps
<1>c. /\ h.pc \in {"ver", "setbaud", "load", "go"}
      /\ h'.pc = AfterEcho[h.pc]
      /\ AfterEcho["ver"] = "vernum" /\ AfterEcho["setbaud"] = "baud"
      /\ AfterEcho["load"] = "size" /\ AfterEcho["go"] = "done"
  BY EchoFacts DEF CmdSteps, AfterEcho
<1>d. IsEcho(toH[1])
  <2>1. Out(h) = Msg("cmd", CmdOf[h.pc], 0) /\ CmdOf[h.pc] # UNKNOWN
    BY OutIs, CmdValues DEF UNKNOWN
  <2> QED
    BY <1>b, <2>1, MsgParts DEF IsEcho
<1>e. /\ toT = <<>> /\ Opened(h.pc)
      /\ h.pc # "ver" => Len(toH) = 1
      /\ \A l \in 1 .. Len(toH) : l # 1 => ~IsEcho(toH[l])
  <2>1. 1 \in 1 .. Len(toH)
    BY <1>a, Taking
  <2> QED
    BY <1>b, <1>d, <2>1 DEF StepInv, CommandInv
<1>f. toH' \in Seq(Others) /\ (h.pc # "ver" => toH' = <<>>)
  <2>1. Tail(toH) \in Seq(Fields)
    BY <1>a, HeadTail
  <2>2. \A j \in 1 .. Len(Tail(toH)) : ~IsEcho(Tail(toH)[j])
    <3>1. \A j \in 1 .. Len(Tail(toH)) :
            Tail(toH)[j] = toH[j + 1] /\ j + 1 \in 1 .. Len(toH) /\ j + 1 # 1
      BY <1>a, Taking
    <3> QED
      BY <1>e, <3>1
  <2> QED
    BY <1>a, <1>b, <1>e, <2>1, <2>2, OthersIn, Taking
<1>1. ToTargetInv' /\ StoredInv' /\ GarbageInv' /\ WholeInv'
  <2>1. h.pc = "go" => Whole
    BY DEF StepInv, WholeInv
  <2> QED
    BY <1>b, <1>c, <1>e, <2>1, ReadFrame
<1>2. RoundInv'
  BY <1>b, <1>c DEF StepInv, RoundInv
<1>3. BetweenInv'
  <2>1. h'.pc = "vernum" => t.pc \in IdlePcs
    BY <1>c, <1>e DEF Opened
  <2> QED
    BY <1>b, <1>c, <1>e, <1>f, <2>1 DEF BetweenInv, CmdSteps
<1>4. CommandInv'
  BY <1>c DEF CommandInv, CmdSteps
<1>5. FieldInv'
  <2>1. h.pc = "setbaud" => Awaits("baud")'
    BY <1>b, <1>e DEF Awaits, Opened
  <2>2. h.pc = "load" => Awaits("size")'
    BY <1>b, <1>e DEF Awaits, Opened
  <2> QED
    BY <1>b, <1>c, <1>e, <1>f, <2>1, <2>2 DEF FieldInv, FieldPcs
<1>6. BaudInv'
  BY <1>b, <1>c DEF StepInv, BaudInv
<1> QED
  BY <1>1, <1>2, <1>3, <1>4, <1>5, <1>6 DEF StepInv

\* The echo of a field
LEMMA EchoFieldStep ==
    ASSUME Inv, StepInv, HostEcho, EchoOK(Head(toH)), h.pc \in FieldPcs \ {"data"}
    PROVE  StepInv'
<1>a. toH \in Seq(Fields) /\ toH # <<>>
  BY EchoFacts DEF Inv, LineInv
<1>b. /\ h.wait /\ toH' = Tail(toH) /\ toH[1] = Out(h) /\ UNCHANGED <<t, mem, toT, faults>>
      /\ h'.idx = h.idx /\ h'.p = h.p /\ ~h'.wait /\ Chunk(h') = Chunk(h)
      /\ h'.round = (IF h.pc = "baud" THEN 2 ELSE h.round)
      /\ h'.baud = (IF h.pc = "baud" THEN "new" ELSE h.baud)
  BY EchoFacts DEF FieldPcs
<1>c. /\ h.pc \in {"baud", "size", "idx", "len", "csum"}
      /\ h'.pc = AfterEcho[h.pc]
      /\ AfterEcho["baud"] = "hs" /\ AfterEcho["size"] = "idx"
      /\ AfterEcho["idx"] = "len" /\ AfterEcho["len"] = "csum" /\ AfterEcho["csum"] = "data"
  BY EchoFacts DEF FieldPcs, AfterEcho
<1>d. toT = <<>> /\ AnswerInv
  BY <1>a, <1>b DEF StepInv, FieldInv
<1>e. toH \notin Seq(Fields \ {Out(h)})
  BY <1>a, <1>b
<1>f. toH' = <<>>
  <2>1. toH = <<Out(h)>>
    BY <1>c, <1>d, <1>e DEF AnswerInv
  <2> QED
    BY <1>b, <2>1
<1>1. ToTargetInv' /\ StoredInv' /\ GarbageInv' /\ WholeInv'
  BY <1>b, <1>c, ReadFrame
<1>2. RoundInv'
  BY <1>b, <1>c DEF StepInv, RoundInv
<1>3. CommandInv'
  BY <1>b DEF CommandInv
<1>4. CASE h.pc = "baud"
  <2>1. \/ t.pc = "switch" /\ t.hidx = 0 /\ t.baud = "old"
        \/ t.pc = "hs" /\ t.baud = "new"
    BY <1>d, <1>e, <1>4 DEF AnswerInv
  <2>2. BetweenInv'
    <3>1. t.pc \in IdlePcs
      BY <2>1 DEF IdlePcs, TargetPcs, FieldPcs
    <3>2. toT' = <<>> /\ toH' = <<>> /\ t'.pc \in IdlePcs
      BY <1>b, <1>d, <1>f, <3>1
    <3>3. <<>> \in Seq(HsFields) /\ <<>> \in Seq(Others)
      BY EmptySeq
    <3> QED
      BY <3>2, <3>3 DEF BetweenInv
  <2>3. FieldInv'
    BY <1>c, <1>4 DEF FieldInv, FieldPcs
  <2>4. BaudInv'
    BY <1>b, <2>1, <1>4 DEF BaudInv
  <2> QED
    BY <1>1, <1>2, <1>3, <2>2, <2>3, <2>4 DEF StepInv
<1>5. CASE h.pc # "baud"
  <2>1. BetweenInv'
    BY <1>c, <1>5 DEF BetweenInv, CmdSteps
  <2>2. FieldInv'
    <3>1. Awaits(AfterEcho[h.pc])
      BY <1>c, <1>d, <1>e, <1>5 DEF AnswerInv
    <3>2. Awaits(h.pc)'
      BY <1>b, <1>c, <3>1 DEF Awaits, AtPacket, InPacket, Even, Ahead
    <3> QED
      BY <1>b, <1>d, <1>f, <3>2 DEF FieldInv
  <2>3. BaudInv'
    BY <1>b, <1>c, <1>5 DEF StepInv, BaudInv
  <2> QED
    BY <1>1, <1>2, <1>3, <2>1, <2>2, <2>3 DEF StepInv
<1> QED
  BY <1>4, <1>5

LEMMA EchoStep ==
    ASSUME Inv, StepInv, HostEcho
    PROVE  StepInv'
<1>1. CASE ~EchoOK(Head(toH))
  <2>1. h \in Hosts
    BY DEF Inv, HostInv
  <2>2. h' = [h EXCEPT !.pc = "panic", !.wait = FALSE] /\ UNCHANGED <<t, mem, toT, faults>>
    BY <1>1 DEF HostEcho
  <2>3. h'.pc = "panic" /\ h'.round = h.round /\ h'.baud = h.baud
    BY <2>1, <2>2 DEF Hosts
  <2> QED
    BY <2>2, <2>3, PanicStep
<1>2. CASE EchoOK(Head(toH))
  BY <1>2, EchoFacts, EchoCommandStep, EchoFieldStep
<1> QED
  BY <1>1, <1>2

\* The answer to a packet
LEMMA ReplyStep ==
    ASSUME Inv, StepInv, HostReply
    PROVE  StepInv'
<1>a. h \in Hosts /\ toH \in Seq(Fields) /\ HostInv
  BY DEF Inv, HostInv, LineInv
<1>b. /\ h.pc = "data" /\ h.wait /\ toH # <<>> /\ toH' = Tail(toH)
      /\ UNCHANGED <<t, mem, toT, faults>>
  BY DEF HostReply
<1>c. Head(toH) = toH[1]
  BY <1>a, <1>b, Taking
<1>d. toT = <<>> /\ Len(toH) = 1 /\ AtPacket /\ (Acknowledged(toH[1]) => Ahead)
  BY <1>b DEF StepInv, FieldInv, AnswerInv, FieldPcs
<1>e. toH' = <<>>
  BY <1>a, <1>b, <1>d, Taking
<1>f. /\ h.idx \in Nat /\ h.p \in Nat /\ h.len \in Nat /\ h.p < Size /\ Size \in Nat
      /\ h.len >= 1
  BY <1>a, UartDlAssumption DEF HostInv, Hosts
<1>g. t.pc \in {"idx", "cmd"} /\ h.baud = t.baud
  BY <1>b, <1>d DEF AtPacket, StepInv, BaudInv
<1>1. CASE ~Acknowledged(Head(toH))
  <2>1. h' = Again(h)
    BY <1>1 DEF HostReply
  <2>2. /\ h'.pc = "idx" /\ h'.round = h.round /\ h'.baud = h.baud
        /\ h'.idx = h.idx /\ h'.p = h.p /\ h'.len = h.len
    BY <1>a, <2>1 DEF Again, Hosts
  <2>3. h'.wait = FALSE
    BY <1>a, <2>1 DEF Again, Hosts
  <2>4. ToTargetInv' /\ StoredInv' /\ GarbageInv' /\ WholeInv'
    BY <1>b, <2>2, ReadFrame
  <2>5. RoundInv'
    BY <2>2 DEF StepInv, RoundInv
  <2>6. BetweenInv' /\ CommandInv'
    BY <2>2 DEF BetweenInv, CommandInv, CmdSteps
  <2>7. FieldInv'
    <3>1. Awaits("idx")'
      BY <1>b, <1>d, <2>2 DEF Awaits, AtPacket, Even, Ahead, Chunk
    <3> QED
      BY <1>b, <1>d, <1>e, <2>2, <2>3, <3>1 DEF FieldInv
  <2>8. BaudInv'
    BY <1>b, <1>g, <2>2 DEF BaudInv
  <2> QED
    BY <2>4, <2>5, <2>6, <2>7, <2>8 DEF StepInv
<1>2. CASE Acknowledged(Head(toH)) /\ LastPacket(h)
  <2>1. h' = [h EXCEPT !.pc = "go", !.wait = FALSE]
    BY <1>2 DEF HostReply
  <2>2. /\ h'.pc = "go" /\ h'.round = h.round /\ h'.baud = h.baud
    BY <1>a, <2>1 DEF Hosts
  <2>3. h'.wait = FALSE
    BY <1>a, <2>1 DEF Hosts
  <2>4. t.rcvd = Size
    <3>1. Chunk(h) = Size - h.p
      BY <1>2, <1>f DEF LastPacket, Chunk
    <3> QED
      BY <1>2, <1>c, <1>d, <1>f, <3>1 DEF Ahead
  <2>5. t.pc = "cmd" /\ Whole
    BY <1>d, <1>f, <2>4 DEF AtPacket, StepInv, StoredInv, PrefixIntact, Whole
  <2>6. ToTargetInv' /\ StoredInv' /\ GarbageInv' /\ WholeInv'
    BY <1>b, <1>d, <2>2, <2>5, ReadFrame
  <2>7. RoundInv'
    BY <2>2 DEF StepInv, RoundInv
  <2>8. BetweenInv'
    <3>1. t.pc \in IdlePcs
      BY <2>5 DEF IdlePcs, TargetPcs, FieldPcs
    <3>2. toT' = <<>> /\ toH' = <<>> /\ t'.pc \in IdlePcs
      BY <1>b, <1>d, <1>e, <3>1
    <3>3. <<>> \in Seq(HsFields) /\ <<>> \in Seq(Others)
      BY EmptySeq
    <3> QED
      BY <3>2, <3>3 DEF BetweenInv
  <2>9. CommandInv' /\ FieldInv'
    BY <2>2, <2>3 DEF CommandInv, FieldInv, FieldPcs
  <2>10. BaudInv'
    BY <1>b, <1>g, <2>2 DEF BaudInv
  <2> QED
    BY <2>6, <2>7, <2>8, <2>9, <2>10 DEF StepInv
<1>3. CASE Acknowledged(Head(toH)) /\ ~LastPacket(h)
  <2>1. h' = [h EXCEPT !.pc = "idx", !.wait = FALSE, !.idx = h.idx + 1,
                       !.p = h.p + h.len, !.len = NextLen(h.len)]
    BY <1>3 DEF HostReply
  <2>2. /\ h'.pc = "idx" /\ h'.round = h.round /\ h'.baud = h.baud
        /\ h'.idx = h.idx + 1 /\ h'.p = h.p + h.len
    BY <1>a, <2>1 DEF Hosts
  <2>3. h'.wait = FALSE
    BY <1>a, <2>1 DEF Hosts
  <2>4. Chunk(h) = h.len
    BY <1>3, <1>f DEF LastPacket, Chunk
  <2>5. Even'
    BY <1>3, <1>b, <1>c, <1>d, <2>2, <2>4 DEF Ahead, Even
  <2>6. ToTargetInv' /\ StoredInv' /\ GarbageInv' /\ WholeInv'
    BY <1>b, <2>2, ReadFrame
  <2>7. RoundInv'
    BY <2>2 DEF StepInv, RoundInv
  <2>8. BetweenInv' /\ CommandInv'
    BY <2>2 DEF BetweenInv, CommandInv, CmdSteps
  <2>9. FieldInv'
    <3>1. Awaits("idx")'
      BY <1>b, <1>d, <2>5 DEF Awaits, AtPacket
    <3> QED
      BY <1>b, <1>d, <1>e, <2>2, <2>3, <3>1 DEF FieldInv
  <2>10. BaudInv'
    BY <1>b, <1>g, <2>2 DEF BaudInv
  <2> QED
    BY <2>6, <2>7, <2>8, <2>9, <2>10 DEF StepInv
<1> QED
  BY <1>1, <1>2, <1>3

-----------------------------------------------------------------------------
(* The target reads a field *)

\* The field a target reads is the one the host waits for, unless it panicked.
LEMMA Reading ==
    ASSUME Inv, StepInv, t.pc \in FieldPcs, toT # <<>>
    PROVE  /\ Len(toT) = 1 /\ Head(toT) = toT[1] /\ toT[1] \in Fields /\ toT[1].k = t.pc
           /\ Tail(toT) = <<>>
           /\ h.pc # "panic" =>
                /\ h.pc = t.pc /\ h.wait /\ toH = <<>> /\ Awaits(h.pc)
                /\ toT[1] = Out(h) \/ toT[1] = Damage(Out(h))
                /\ h.baud = t.baud
<1>1. Len(toT) = 1 /\ toT[1].k = t.pc
  BY DEF StepInv, ToTargetInv
<1>2. Head(toT) = toT[1] /\ toT[1] \in Fields /\ Tail(toT) = <<>>
  BY <1>1, Taking DEF Inv, LineInv
<1>3. t.pc \notin IdlePcs
  BY DEF IdlePcs
<1>4. h.pc \notin {"hs", "settle", "vernum", "done"} /\ h.pc \notin CmdSteps
  BY <1>3 DEF StepInv, BetweenInv, CommandInv, WholeInv
<1>5. h.pc # "panic" => h.pc \in FieldPcs
  BY <1>4, HostAt DEF Inv
<1>6. h.pc # "panic" =>
        /\ h.wait /\ toH = <<>> /\ Awaits(h.pc)
        /\ toT = <<Out(h)>> \/ toT = <<Damage(Out(h))>>
  BY <1>5 DEF StepInv, FieldInv
<1>7. h.pc # "panic" => h.pc = t.pc
  BY <1>5, <1>6, AwaitsPc DEF FieldPcs
<1>8. h.pc # "panic" => h.baud = t.baud
  BY DEF StepInv, BaudInv, FieldPcs
<1> QED
  BY <1>1, <1>2, <1>6, <1>7, <1>8

\* What follows from a field being read alone
LEMMA ReadField ==
    ASSUME Inv, StepInv, t.pc \in FieldPcs, TargetReads, UNCHANGED <<h, faults>>,
           t'.pc # "started", StoredInv', FieldInv',
           h.pc # "panic" =>
             (t'.pc # "switch" /\ t'.baud = t.baud) \/ h.pc = "baud"
    PROVE  StepInv'
<1>1. toT # <<>> /\ toT' = <<>> /\ Len(toT') = 0
  BY Reading DEF TargetReads
<1>2. h.pc # "panic" => h.pc \in FieldPcs /\ h.wait /\ h.baud = t.baud
  BY <1>1, Reading
<1>3. h.pc \notin {"hs", "settle", "vernum", "done"} /\ h.pc \notin CmdSteps
  BY <1>2 DEF FieldPcs, CmdSteps
<1>4. ToTargetInv' /\ GarbageInv'
  BY <1>1 DEF ToTargetInv, GarbageInv
<1>5. RoundInv'
  BY DEF StepInv, RoundInv
<1>6. BetweenInv' /\ CommandInv'
  BY <1>3 DEF BetweenInv, CommandInv
<1>7. BaudInv'
  BY <1>1, <1>2 DEF BaudInv
<1>8. WholeInv'
  BY <1>1, <1>3 DEF WholeInv, CmdSteps
<1> QED
  BY <1>4, <1>5, <1>6, <1>7, <1>8 DEF StepInv

\* The answer that EchoField leaves for the host
LEMMA Echoed ==
    ASSUME Inv, StepInv, EchoField, h.pc # "panic"
    PROVE  /\ UNCHANGED <<h, mem, faults>> /\ TargetReads
           /\ h.pc = t.pc /\ h.wait /\ Awaits(h.pc) /\ toT' = <<>> /\ Out(h) \in Fields
           /\ \/ Head(toT) = Out(h) /\ toH' = <<Out(h)>> /\ Head(toT).ok
              \/ /\ ~Head(toT).ok /\ toH' = <<Damage(Out(h))>>
                 /\ toH' \in Seq(Fields \ {Out(h)})
<1>1. /\ t.pc \in FieldPcs /\ toT # <<>> /\ toT' = Tail(toT) /\ toH' = toH \o <<Head(toT)>>
      /\ UNCHANGED <<h, mem, faults>>
  BY DEF EchoField, TargetReads, ToHost
<1>2. /\ Head(toT) = toT[1] /\ Tail(toT) = <<>>
      /\ h.pc = t.pc /\ h.wait /\ toH = <<>> /\ Awaits(h.pc)
      /\ toT[1] = Out(h) \/ toT[1] = Damage(Out(h))
  BY <1>1, Reading
<1>3. Out(h) \in Fields /\ Out(h).ok
  BY <1>1, <1>2, OutField DEF Inv
<1>4. Damage(Out(h)) \in Fields /\ ~Damage(Out(h)).ok
  BY <1>3, DamagedParts
<1>5. Damage(Out(h)) \in Fields \ {Out(h)}
  BY <1>3, <1>4
<1>6. toH' = <<Head(toT)>>
  <2>1. <<Head(toT)>> \in Seq({Head(toT)})
    OBVIOUS
  <2> QED
    BY <1>1, <1>2, <2>1, ConcatEmptySeq
<1>7. <<Damage(Out(h))>> \in Seq(Fields \ {Out(h)})
  BY <1>5
<1> HIDE DEF Damage
<1> QED
  BY <1>1, <1>2, <1>3, <1>4, <1>6, <1>7 DEF TargetReads

LEMMA BaudStep ==
    ASSUME Inv, StepInv, TargetBaud
    PROVE  StepInv'
<1>a. t \in Targets
  BY DEF Inv, TargetInv
<1>b. t.pc = "baud" /\ EchoField /\ TargetReads /\ t.pc \in FieldPcs
      /\ UNCHANGED <<h, mem, faults>>
  BY DEF TargetBaud, EchoField, FieldPcs
<1> DEFINE d == IF Head(toT).ok THEN 0 ELSE NoIdx
<1>c. t' = [t EXCEPT !.pc = "switch", !.hidx = d]
  BY DEF TargetBaud
<1>d. Head(toT).ok => d = 0
  OBVIOUS
<1> HIDE DEF d
<1>e. /\ t'.pc = "switch" /\ t'.hidx = d /\ t'.baud = t.baud /\ t'.rcvd = t.rcvd
  BY <1>a, <1>c DEF Targets
<1>1. StoredInv'
  BY <1>b, <1>e DEF StepInv, StoredInv, PrefixIntact
<1>2. FieldInv'
  <2> SUFFICES ASSUME h.pc # "panic" PROVE FieldInv'
    BY <1>b DEF FieldInv, FieldPcs
  <2>1. /\ h.pc = "baud" /\ h.wait /\ toT' = <<>>
        /\ \/ Head(toT).ok /\ toH' = <<Out(h)>>
           \/ toH' \in Seq(Fields \ {Out(h)})
    BY <1>b, Echoed
  <2>2. t.baud = "old"
    <3>1. h.baud = t.baud
      BY <1>b, Reading DEF TargetReads
    <3> QED
      BY <2>1, <3>1 DEF StepInv, RoundInv
  <2>3. AnswerInv'
    BY <1>b, <1>d, <1>e, <2>1, <2>2 DEF AnswerInv
  <2> QED
    BY <1>b, <2>1, <2>3 DEF FieldInv
<1>3. h.pc # "panic" => h.pc = "baud"
  BY <1>b, Echoed
<1> QED
  BY <1>b, <1>e, <1>1, <1>2, <1>3, ReadField

\* What the loop of receive_data() makes of the target
LEMMA NextPacketIs ==
    ASSUME NEW x \in Targets
    PROVE  LET y == NextPacket(x)
           IN  /\ y.i = x.i /\ y.size = x.size /\ y.idx = x.idx /\ y.rcvd = x.rcvd
               /\ y.baud = x.baud
               /\ x.rcvd < x.size => y.pc = "idx" /\ y.dsize = x.dsize
               /\ ~(x.rcvd < x.size) => y.pc = "cmd" /\ y.dsize = x.size
<1>1. CASE x.rcvd < x.size
  <2>1. NextPacket(x) = [x EXCEPT !.pc = "idx"]
    BY <1>1 DEF NextPacket
  <2> QED
    BY <1>1, <2>1 DEF Targets
<1>2. CASE ~(x.rcvd < x.size)
  <2>1. NextPacket(x) = [x EXCEPT !.pc = "cmd", !.dsize = x.size]
    BY <1>2 DEF NextPacket
  <2> QED
    BY <1>2, <2>1 DEF Targets
<1> QED
  BY <1>1, <1>2

LEMMA SizeStep ==
    ASSUME Inv, StepInv, TargetSize
    PROVE  StepInv'
<1>a. t \in Targets /\ t.rcvd \in Nat
  BY DEF Inv, TargetInv, Targets
<1>b. t.pc = "size" /\ EchoField /\ TargetReads /\ t.pc \in FieldPcs
      /\ UNCHANGED <<h, mem, faults>>
  BY DEF TargetSize, EchoField, FieldPcs
<1>c. Head(toT).v \in Nat
  BY <1>b, Reading DEF TargetReads, Fields
<1>d. PICK s \in Nat : /\ t' = NextPacket([t EXCEPT !.size = s])
                       /\ Head(toT).ok => s = Head(toT).v
  <2>1. PICK s \in IF Head(toT).ok THEN {Head(toT).v} ELSE 0 .. Size + 1 :
          t' = NextPacket([t EXCEPT !.size = s])
    BY Zenon DEF TargetSize
  <2>2. s \in Nat /\ (Head(toT).ok => s = Head(toT).v)
    BY <1>c, <2>1, UartDlAssumption
  <2> QED
    BY <2>1, <2>2
<1> DEFINE x == [t EXCEPT !.size = s]
<1>e. /\ x \in Targets /\ x.size = s /\ x.idx = t.idx /\ x.rcvd = t.rcvd /\ x.baud = t.baud
  BY <1>a DEF Targets
<1>f. t' = NextPacket(x)
  BY <1>d
<1> HIDE DEF x
<1>g. /\ t'.size = s /\ t'.idx = t.idx /\ t'.rcvd = t.rcvd /\ t'.baud = t.baud
      /\ t'.pc \in {"idx", "cmd"} /\ (t.rcvd < s => t'.pc = "idx")
  BY <1>e, <1>f, NextPacketIs
<1>1. StoredInv'
  BY <1>b, <1>g DEF StepInv, StoredInv, PrefixIntact
<1>2. FieldInv'
  <2> SUFFICES ASSUME h.pc # "panic" PROVE FieldInv'
    BY <1>b DEF FieldInv, FieldPcs
  <2>1. /\ h.pc = "size" /\ h.wait /\ toT' = <<>> /\ Awaits(h.pc)
        /\ \/ Head(toT).ok /\ Head(toT) = Out(h) /\ toH' = <<Out(h)>>
           \/ toH' \in Seq(Fields \ {Out(h)})
    BY <1>b, Echoed
  <2>2. Head(toT) = Out(h) /\ Head(toT).ok => Awaits(AfterEcho[h.pc])'
    <3> SUFFICES ASSUME Head(toT) = Out(h), Head(toT).ok PROVE Awaits(AfterEcho[h.pc])'
      OBVIOUS
    <3>1. AfterEcho[h.pc] = "idx" /\ AfterEcho[h'.pc] = "idx"
      BY <1>b, <2>1 DEF AfterEcho
    <3>2. s = Size
      BY <1>d, <2>1, OutIs, MsgParts
    <3>3. t.idx = 0 /\ t.rcvd = 0 /\ h.idx = 0 /\ h.p = 0
      BY <2>1 DEF Awaits, StepInv, RoundInv
    <3>4. AtPacket'
      BY <1>b, <1>g, <3>2, <3>3, UartDlAssumption DEF AtPacket, Even
    <3> QED
      BY <3>1, <3>4 DEF Awaits
  <2>3. AnswerInv'
    BY <1>b, <2>1, <2>2 DEF AnswerInv
  <2> QED
    BY <1>b, <2>1, <2>3 DEF FieldInv
<1> QED
  BY <1>b, <1>g, <1>1, <1>2, ReadField

LEMMA IdxStep ==
    ASSUME Inv, StepInv, TargetIdx
    PROVE  StepInv'
<1>a. t \in Targets
  BY DEF Inv, TargetInv
<1>b. t.pc = "idx" /\ EchoField /\ TargetReads /\ t.pc \in FieldPcs
      /\ UNCHANGED <<h, mem, faults>>
  BY DEF TargetIdx, EchoField, FieldPcs
<1> DEFINE d == IF Head(toT).ok THEN Head(toT).v ELSE NoIdx
<1>c. t' = [t EXCEPT !.pc = "len", !.hidx = d]
  BY DEF TargetIdx
<1>d. Head(toT).ok => d = Head(toT).v
  OBVIOUS
<1> HIDE DEF d
<1>e. /\ t'.pc = "len" /\ t'.hidx = d /\ t'.baud = t.baud /\ t'.rcvd = t.rcvd
      /\ t'.idx = t.idx /\ t'.size = t.size
  BY <1>a, <1>c DEF Targets
<1>1. StoredInv'
  BY <1>b, <1>e DEF StepInv, StoredInv, PrefixIntact
<1>2. FieldInv'
  <2> SUFFICES ASSUME h.pc # "panic" PROVE FieldInv'
    BY <1>b DEF FieldInv, FieldPcs
  <2>1. /\ h.pc = "idx" /\ h.wait /\ toT' = <<>> /\ Awaits(h.pc)
        /\ \/ Head(toT).ok /\ Head(toT) = Out(h) /\ toH' = <<Out(h)>>
           \/ toH' \in Seq(Fields \ {Out(h)})
    BY <1>b, Echoed
  <2>2. Head(toT) = Out(h) /\ Head(toT).ok => Awaits(AfterEcho[h.pc])'
    <3> SUFFICES ASSUME Head(toT) = Out(h), Head(toT).ok PROVE Awaits(AfterEcho[h.pc])'
      OBVIOUS
    <3>1. AfterEcho[h'.pc] = "len"
      BY <1>b, <2>1 DEF AfterEcho
    <3>2. d = h.idx
      BY <1>d, <2>1, OutIs, MsgParts
    <3>3. InPacket'
      BY <1>b, <1>e, <2>1, <3>2 DEF Awaits, AtPacket, InPacket, Even, Ahead
    <3> QED
      BY <1>e, <3>1, <3>3 DEF Awaits
  <2>3. AnswerInv'
    BY <1>b, <2>1, <2>2 DEF AnswerInv
  <2> QED
    BY <1>b, <2>1, <2>3 DEF FieldInv
<1> QED
  BY <1>b, <1>e, <1>1, <1>2, ReadField

LEMMA LenStep ==
    ASSUME Inv, StepInv, TargetLen
    PROVE  StepInv'
<1>a. t \in Targets
  BY DEF Inv, TargetInv
<1>b. t.pc = "len" /\ EchoField /\ TargetReads /\ t.pc \in FieldPcs
      /\ UNCHANGED <<h, mem, faults>>
  BY DEF TargetLen, EchoField, FieldPcs
<1> DEFINE d == IF Head(toT).ok THEN Head(toT).v ELSE 0
<1>c. t' = [t EXCEPT !.pc = "csum", !.hlen = d]
  BY DEF TargetLen
<1>d. Head(toT).ok => d = Head(toT).v
  OBVIOUS
<1> HIDE DEF d
<1>e. /\ t'.pc = "csum" /\ t'.hlen = d /\ t'.baud = t.baud /\ t'.rcvd = t.rcvd
      /\ t'.idx = t.idx /\ t'.size = t.size /\ t'.hidx = t.hidx
  BY <1>a, <1>c DEF Targets
<1>1. StoredInv'
  BY <1>b, <1>e DEF StepInv, StoredInv, PrefixIntact
<1>2. FieldInv'
  <2> SUFFICES ASSUME h.pc # "panic" PROVE FieldInv'
    BY <1>b DEF FieldInv, FieldPcs
  <2>1. /\ h.pc = "len" /\ h.wait /\ toT' = <<>> /\ Awaits(h.pc)
        /\ \/ Head(toT).ok /\ Head(toT) = Out(h) /\ toH' = <<Out(h)>>
           \/ toH' \in Seq(Fields \ {Out(h)})
    BY <1>b, Echoed
  <2>2. Head(toT) = Out(h) /\ Head(toT).ok => Awaits(AfterEcho[h.pc])'
    <3> SUFFICES ASSUME Head(toT) = Out(h), Head(toT).ok PROVE Awaits(AfterEcho[h.pc])'
      OBVIOUS
    <3>1. AfterEcho[h'.pc] = "csum"
      BY <1>b, <2>1 DEF AfterEcho
    <3>2. d = Chunk(h)
      BY <1>d, <2>1, OutIs, MsgParts
    <3>3. InPacket'
      BY <1>b, <1>e, <2>1 DEF Awaits, InPacket, Even, Ahead
    <3> QED
      BY <1>b, <1>e, <3>1, <3>2, <3>3 DEF Awaits
  <2>3. AnswerInv'
    BY <1>b, <2>1, <2>2 DEF AnswerInv
  <2> QED
    BY <1>b, <2>1, <2>3 DEF FieldInv
<1> QED
  BY <1>b, <1>e, <1>1, <1>2, ReadField

LEMMA CsumStep ==
    ASSUME Inv, StepInv, TargetCsum
    PROVE  StepInv'
<1>a. t \in Targets
  BY DEF Inv, TargetInv
<1>b. t.pc = "csum" /\ EchoField /\ TargetReads /\ t.pc \in FieldPcs
      /\ UNCHANGED <<h, mem, faults>>
  BY DEF TargetCsum, EchoField, FieldPcs
<1> DEFINE d == IF Head(toT).ok THEN Head(toT).v ELSE Damaged
<1>c. t' = [t EXCEPT !.pc = "data", !.hsum = d]
  BY DEF TargetCsum
<1>d. Head(toT).ok => d = Head(toT).v
  OBVIOUS
<1> HIDE DEF d
<1>e. /\ t'.pc = "data" /\ t'.hsum = d /\ t'.baud = t.baud /\ t'.rcvd = t.rcvd
      /\ t'.idx = t.idx /\ t'.size = t.size /\ t'.hidx = t.hidx /\ t'.hlen = t.hlen
  BY <1>a, <1>c DEF Targets
<1>1. StoredInv'
  BY <1>b, <1>e DEF StepInv, StoredInv, PrefixIntact
<1>2. FieldInv'
  <2> SUFFICES ASSUME h.pc # "panic" PROVE FieldInv'
    BY <1>b DEF FieldInv, FieldPcs
  <2>1. /\ h.pc = "csum" /\ h.wait /\ toT' = <<>> /\ Awaits(h.pc)
        /\ \/ Head(toT).ok /\ Head(toT) = Out(h) /\ toH' = <<Out(h)>>
           \/ toH' \in Seq(Fields \ {Out(h)})
    BY <1>b, Echoed
  <2>2. Head(toT) = Out(h) /\ Head(toT).ok => Awaits(AfterEcho[h.pc])'
    <3> SUFFICES ASSUME Head(toT) = Out(h), Head(toT).ok PROVE Awaits(AfterEcho[h.pc])'
      OBVIOUS
    <3>1. AfterEcho[h'.pc] = "data"
      BY <1>b, <2>1 DEF AfterEcho
    <3>2. d = Intact
      BY <1>d, <2>1, OutIs, MsgParts
    <3>3. InPacket' /\ t'.hlen = Chunk(h)
      BY <1>b, <1>e, <2>1 DEF Awaits, InPacket, Even, Ahead
    <3> QED
      BY <1>b, <1>e, <3>1, <3>2, <3>3 DEF Awaits
  <2>3. AnswerInv'
    BY <1>b, <2>1, <2>2 DEF AnswerInv
  <2> QED
    BY <1>b, <2>1, <2>3 DEF FieldInv
<1> QED
  BY <1>b, <1>e, <1>1, <1>2, ReadField

\* The data of a packet, taken or refused
LEMMA DataStep ==
    ASSUME Inv, StepInv, TargetData
    PROVE  StepInv'
<1> DEFINE m == Head(toT)
           r == Msg("reply", t.idx, IF t.hidx = t.idx THEN Sum(m) ELSE Damaged)
<1>a. /\ t \in Targets /\ t.rcvd \in Nat /\ t.idx \in Nat /\ t.hlen \in Nat /\ t.size \in Nat
      /\ mem \in [Addrs -> Nat]
  BY DEF Inv, TargetInv, LineInv, Targets
<1>b. /\ t.pc = "data" /\ TargetReads /\ t.pc \in FieldPcs /\ toT # <<>>
      /\ UNCHANGED <<h, faults>> /\ t' = Received(m) /\ toH' = toH \o <<r>>
      /\ mem' = [a \in Addrs |->
                   IF a \in t.rcvd + 1 .. t.rcvd + m.n
                   THEN (IF m.ok THEN m.v + a - t.rcvd ELSE 0)
                   ELSE mem[a]]
  BY DEF TargetData, FieldPcs, TargetReads, ToHost
<1>c. m = toT[1] /\ m \in Fields /\ m.k = "data" /\ m.v \in Nat /\ m.n \in Nat
  BY <1>b, Reading DEF Fields
<1>d. /\ m.n = t.hlen /\ t.hsum = Intact
      /\ t.hidx = t.idx => m.v = t.rcvd /\ t.rcvd + t.hlen <= Size
  BY <1>b, <1>c DEF StepInv, ToTargetInv
<1>e. Taken(m) <=> t.hidx = t.idx /\ m.ok
  BY <1>d DEF Taken, Sum, Intact, Damaged
<1>f. t.hidx = t.idx /\ Sum(m) = Intact => m.ok
  BY DEF Sum, Intact, Damaged
\* What the loop goes on with
<1>g. /\ t'.size = t.size /\ t'.baud = t.baud
      /\ Taken(m) => t'.idx = t.idx + 1 /\ t'.rcvd = t.rcvd + t.hlen
      /\ ~Taken(m) => t'.idx = t.idx /\ t'.rcvd = t.rcvd
      /\ t'.rcvd < t.size => t'.pc = "idx"
      /\ ~(t'.rcvd < t.size) => t'.pc = "cmd" /\ t'.dsize = t.size
  <2>1. CASE Taken(m)
    <3> DEFINE x == [t EXCEPT !.idx = t.idx + 1, !.rcvd = t.rcvd + t.hlen]
    <3>1. t' = NextPacket(x)
      BY <1>b, <2>1 DEF Received
    <3>2. x \in Targets
      <4>1. t.idx + 1 \in Nat /\ t.rcvd + t.hlen \in Nat
        BY <1>a
      <4> QED
        BY <1>a, <4>1, TargetUpdates
    <3>3. /\ x.size = t.size /\ x.baud = t.baud /\ x.idx = t.idx + 1
          /\ x.rcvd = t.rcvd + t.hlen
      BY <1>a DEF Targets
    <3> HIDE DEF x
    <3> QED
      BY <2>1, <3>1, <3>2, <3>3, NextPacketIs
  <2>2. CASE ~Taken(m)
    <3>1. t' = NextPacket(t)
      BY <1>b, <2>2 DEF Received
    <3> QED
      BY <1>a, <2>2, <3>1, NextPacketIs
  <2> QED
    BY <2>1, <2>2
<1> HIDE DEF m, r
<1>1. StoredInv'
  <2>1. t.rcvd <= Size /\ \A a \in 1 .. t.rcvd : mem[a] = a
    BY DEF StepInv, StoredInv, PrefixIntact
  <2>2. t'.rcvd \in Nat /\ t'.rcvd <= Size
    BY <1>a, <1>d, <1>e, <1>g, <2>1, UartDlAssumption
  <2>3. ASSUME NEW a \in 1 .. t'.rcvd PROVE mem'[a] = a
    <3>1. a \in Addrs /\ a \in Nat /\ a >= 1
      BY <2>2, UartDlAssumption DEF Addrs
    <3>2. mem'[a] = IF a \in t.rcvd + 1 .. t.rcvd + m.n
                    THEN (IF m.ok THEN m.v + a - t.rcvd ELSE 0) ELSE mem[a]
      BY <1>b, <3>1
    <3>3. CASE a <= t.rcvd
      <4>1. a \in 1 .. t.rcvd /\ a \notin t.rcvd + 1 .. t.rcvd + m.n
        BY <1>a, <1>c, <3>1, <3>3
      <4> QED
        BY <2>1, <3>2, <4>1
    <3>4. CASE ~(a <= t.rcvd)
      <4>1. Taken(m)
        BY <1>a, <1>g, <3>4, <3>1
      <4>2. m.ok /\ m.v = t.rcvd /\ m.n = t.hlen /\ t'.rcvd = t.rcvd + t.hlen
        BY <1>d, <1>e, <1>g, <4>1
      <4>3. a \in t.rcvd + 1 .. t.rcvd + m.n
        BY <1>a, <3>1, <3>4, <4>2
      <4>4. mem'[a] = t.rcvd + a - t.rcvd
        BY <3>2, <4>2, <4>3
      <4> QED
        BY <1>a, <3>1, <4>4
    <3> QED
      BY <3>3, <3>4
  <2> QED
    BY <2>2, <2>3 DEF StoredInv, PrefixIntact
<1>2. FieldInv'
  <2> SUFFICES ASSUME h.pc # "panic" PROVE FieldInv'
    BY <1>b DEF FieldInv, FieldPcs
  <2>1. h.pc = "data" /\ h.wait /\ toH = <<>> /\ Awaits(h.pc) /\ toT' = <<>>
    BY <1>b, Reading DEF TargetReads
  <2>2. t.size = Size /\ (Even \/ Ahead) /\ t.hidx = h.idx /\ t.hlen = Chunk(h)
    BY <2>1 DEF Awaits, InPacket
  <2>3. h.idx \in Nat
    BY DEF Inv, HostInv, Hosts
  <2>4. Taken(m) => Ahead'
    BY <1>b, <1>e, <1>g, <2>2, <2>3 DEF Even, Ahead
  <2>5. AtPacket'
    <3>1. t'.size = Size /\ (Even' \/ Ahead')
      BY <1>b, <1>g, <2>2, <2>4 DEF Even, Ahead
    <3>2. t'.rcvd <= Size /\ t'.rcvd \in Nat
      BY <1>1, <1>a, <1>g DEF StoredInv
    <3> QED
      BY <1>g, <2>2, <3>1, <3>2, UartDlAssumption DEF AtPacket
  <2>6. Len(toH') = 1 /\ toH'[1] = r
    BY <1>b, <2>1
  <2>7. Acknowledged(toH[1])' => Ahead'
    <3> SUFFICES ASSUME Acknowledged(toH[1])' PROVE Ahead'
      OBVIOUS
    <3>1. r.v = h.idx /\ r.n = Intact
      BY <1>b, <2>6 DEF Acknowledged
    <3>2. t.idx = h.idx /\ (IF t.hidx = t.idx THEN Sum(m) ELSE Damaged) = Intact
      BY <3>1, MsgParts DEF r
    <3>3. Taken(m)
      BY <1>d, <2>2, <3>2 DEF Taken
    <3> QED
      BY <2>4, <3>3
  <2>8. AnswerInv'
    BY <1>b, <2>1, <2>5, <2>6, <2>7 DEF AnswerInv
  <2> QED
    BY <1>b, <2>1, <2>8 DEF FieldInv
<1>3. t'.pc \notin {"started", "switch"}
  BY <1>g
<1> QED
  BY <1>b, <1>g, <1>1, <1>2, <1>3, ReadField

-----------------------------------------------------------------------------
(* The target reads handshake bytes and commands *)

\* The pieces of the line that stay where they are when the first is taken
LEMMA TakenFromLine ==
    ASSUME Inv, toT # <<>>
    PROVE  /\ Len(toT) \in Nat /\ Len(toT) >= 1 /\ Head(toT) = toT[1] /\ toT[1] \in Fields
           /\ Len(Tail(toT)) = Len(toT) - 1
           /\ \A j \in 1 .. Len(Tail(toT)) :
                Tail(toT)[j] = toT[j + 1] /\ j + 1 \in 1 .. Len(toT)
           /\ Len(toT) = 1 => Tail(toT) = <<>>
BY Taking DEF Inv, LineInv

LEMMA SwitchStep ==
    ASSUME Inv, StepInv, TargetSwitch
    PROVE  StepInv'
<1>a. t \in Targets
  BY DEF Inv, TargetInv
<1>b. t.pc = "switch" /\ UNCHANGED <<h, mem, toT, toH, faults>>
  BY DEF TargetSwitch
<1>c. /\ t'.pc = "hs" /\ t'.i = 0 /\ t'.rcvd = t.rcvd /\ t'.dsize = t.dsize
      /\ t.hidx # NoIdx => t'.baud = "new"
  BY <1>a DEF TargetSwitch, Targets
<1>d. t'.pc \in IdlePcs /\ t'.pc \notin FieldPcs
  BY <1>c DEF IdlePcs, TargetPcs, FieldPcs
<1>e. t.hidx = 0 => t'.baud = "new"
  BY <1>c DEF NoIdx
<1>1. ToTargetInv'
  BY <1>b, <1>c, <1>d DEF StepInv, ToTargetInv
<1>2. StoredInv'
  BY <1>b, <1>c DEF StepInv, StoredInv, PrefixIntact
<1>3. RoundInv'
  BY <1>b DEF StepInv, RoundInv
<1>4. BetweenInv'
  BY <1>b, <1>d DEF StepInv, BetweenInv
<1>5. CommandInv'
  <2>1. Opened(h.pc) => Opened(h.pc)'
    BY <1>b, <1>d DEF Opened
  <2> QED
    BY <1>b, <1>d, <2>1 DEF StepInv, CommandInv
<1>6. FieldInv'
  <2> SUFFICES ASSUME h.pc \in FieldPcs PROVE FieldInv'
    BY <1>b DEF FieldInv
  <2>1. ~Awaits(h.pc)
    BY <1>b, AwaitsPc DEF FieldPcs
  <2>2. h.wait /\ toT = <<>> /\ AnswerInv
    BY <2>1 DEF StepInv, FieldInv
  <2>3. h.pc \in {"size", "idx", "len", "csum"} => ~Awaits(AfterEcho[h.pc])
    BY <1>b DEF Awaits, AtPacket, AfterEcho
  <2>4. h.pc = "data" => toH = <<>>
    BY <1>b, <2>2 DEF AnswerInv, AtPacket
  <2>5. AnswerInv'
    BY <1>b, <1>c, <1>e, <2>2, <2>3, <2>4 DEF AnswerInv
  <2> QED
    BY <1>b, <2>2, <2>5 DEF FieldInv
<1>7. BaudInv'
  BY <1>b, <1>c, <1>e DEF StepInv, BaudInv
<1>8. GarbageInv'
  BY <1>b, <1>c DEF StepInv, GarbageInv
<1>9. WholeInv'
  <2>1. Whole' = Whole
    BY <1>b, <1>c DEF Whole
  <2> QED
    BY <1>b, <1>c, <1>d, <2>1 DEF StepInv, WholeInv
<1> QED
  BY <1>1, <1>2, <1>3, <1>4, <1>5, <1>6, <1>7, <1>8, <1>9 DEF StepInv

\* A handshake byte is answered, or starts the handshake over.
LEMMA ByteStep ==
    ASSUME Inv, StepInv, TargetHandshake
    PROVE  StepInv'
<1> DEFINE m == Head(toT)
           g == Msg("hs", t.i, 0)
<1>a. t \in Targets /\ t.i \in Nat /\ toT \in Seq(Fields) /\ toH \in Seq(Fields)
  BY DEF Inv, TargetInv, LineInv, Targets
<1>b. t.pc = "hs" /\ toT # <<>> /\ toT' = Tail(toT) /\ UNCHANGED <<h, mem, faults>>
  BY DEF TargetHandshake, TargetReads
<1>c. \/ /\ TRUE \in ReadsAs(m, t.i)
         /\ toH' = toH \o <<g>> /\ t' = Matched(t)
      \/ toH' = toH /\ t' = [t EXCEPT !.i = 0]
  <2>1. PICK match \in ReadsAs(m, t.i) :
          IF match
          THEN /\ ToHost(<<Msg("hs", t.i, 0)>>)
               /\ t' = Matched(t)
          ELSE /\ t' = [t EXCEPT !.i = 0]
               /\ UNCHANGED toH
    BY DEF TargetHandshake
  <2>2. match \in BOOLEAN
    BY DEF ReadsAs
  <2>3. CASE match = TRUE
    BY <2>1, <2>3 DEF ToHost
  <2>4. CASE match = FALSE
    BY <2>1, <2>4
  <2> QED
    BY <2>2, <2>3, <2>4
<1>d. /\ t'.pc \in {"hs", "cmd"} /\ t'.rcvd = t.rcvd /\ t'.dsize = t.dsize
      /\ t'.baud = t.baud
  <2>1. CASE t' = [t EXCEPT !.i = 0]
    BY <1>a, <1>b, <2>1 DEF Targets
  <2>2. CASE t' = Matched(t)
    BY <1>a, <1>b, <2>2 DEF Targets, Matched
  <2> QED
    BY <1>c, <2>1, <2>2
<1>e. t'.pc \in IdlePcs /\ t'.pc \notin FieldPcs
  BY <1>d DEF IdlePcs, TargetPcs, FieldPcs
<1>f. g \in Fields /\ ~IsEcho(g) /\ g \in Others
  <2>1. g \in Fields
    BY <1>a, MsgIsField
  <2>2. g.k = "hs"
    BY MsgParts
  <2> HIDE DEF g
  <2> QED
    BY <2>1, <2>2 DEF IsEcho, Others
<1>g. /\ Len(toT) \in Nat /\ Len(toT) >= 1 /\ m = toT[1]
      /\ Len(toT') = Len(toT) - 1
      /\ \A j \in 1 .. Len(toT') : toT'[j] = toT[j + 1] /\ j + 1 \in 1 .. Len(toT)
      /\ toT' \in Seq(Fields)
  BY <1>a, <1>b, TakenFromLine, HeadTail
<1> HIDE DEF m, g
<1>1. ToTargetInv'
  <2>1. \A j \in 1 .. Len(toT) : /\ toT[j].k # "hs" => j = Len(toT)
                                 /\ toT[j].k # "data"
    BY <1>b DEF StepInv, ToTargetInv
  <2>2. \A j \in 1 .. Len(toT') : /\ toT'[j].k # "hs" => j + 1 = Len(toT)
                                  /\ toT'[j].k # "data"
    BY <1>g, <2>1
  <2>3. \A j \in 1 .. Len(toT') : toT'[j].k # "hs" => j = Len(toT')
    BY <1>g, <2>2
  <2> QED
    BY <1>d, <1>e, <2>2, <2>3 DEF ToTargetInv
<1>2. StoredInv'
  BY <1>b, <1>d DEF StepInv, StoredInv, PrefixIntact
<1>3. RoundInv'
  BY <1>b DEF StepInv, RoundInv
<1>4. BetweenInv'
  <2> DEFINE B == h.pc \in {"hs", "settle", "vernum"} \/ (h.pc \in CmdSteps /\ ~h.wait)
  <2>1. B => toT \in Seq(HsFields) /\ toH \in Seq(Others)
    BY DEF StepInv, BetweenInv
  <2>2. B => toT' \in Seq(HsFields)
    BY <1>b, <2>1
  <2>3. toH \in Seq(Others) => toH' \in Seq(Others)
    <3>1. <<g>> \in Seq(Others)
      BY <1>f
    <3>2. toH \in Seq(Others) => toH \o <<g>> \in Seq(Others)
      BY <3>1, ConcatProperties
    <3> QED
      BY <1>c, <3>2
  <2> QED
    BY <1>b, <1>e, <2>1, <2>2, <2>3 DEF BetweenInv
<1>5. CommandInv'
  <2> SUFFICES ASSUME h.pc \in CmdSteps, h.wait PROVE CommandInv'
    BY <1>b DEF CommandInv
  <2>1. \A j \in 1 .. Len(toH) : ~IsEcho(toH[j])
    BY <1>b DEF StepInv, CommandInv
  <2>2. \A j \in 1 .. Len(toH') : ~IsEcho(toH'[j])
    <3>1. CASE toH' = toH \o <<g>>
      <4>1. Len(toH) \in Nat /\ toH' = Append(toH, g)
        BY <1>a, <3>1, Adding
      <4>2. \A j \in 1 .. Len(toH') : j \in 1 .. Len(toH) \/ toH'[j] = g
        BY <1>a, <4>1, Adding
      <4> QED
        BY <1>a, <1>f, <2>1, <4>1, <4>2, Adding
    <3> QED
      BY <1>c, <2>1, <3>1
  <2>3. \A j \in 1 .. Len(toT) :
          toT[j].k # "hs" => toT[j].k = "cmd" /\ toT[j].v = CmdOf[h.pc] /\ toT[j].n = 0
    BY DEF StepInv, CommandInv
  <2>4. \A j \in 1 .. Len(toT') :
          toT'[j].k # "hs" => toT'[j].k = "cmd" /\ toT'[j].v = CmdOf[h.pc] /\ toT'[j].n = 0
    BY <1>g, <2>3
  <2> QED
    BY <1>b, <1>e, <2>2, <2>4 DEF CommandInv
<1>6. FieldInv'
  <2>1. h.pc \in FieldPcs => Awaits(h.pc)
    BY <1>b DEF StepInv, FieldInv
  <2>2. h.pc \notin FieldPcs
    BY <1>b, <2>1, AwaitsPc DEF FieldPcs
  <2> QED
    BY <1>b, <2>2 DEF FieldInv
<1>7. BaudInv'
  BY <1>b, <1>d DEF StepInv, BaudInv
<1>8. GarbageInv'
  <2> SUFFICES ASSUME faults["bad"] = 0 PROVE GarbageInv'
    BY <1>b DEF GarbageInv
  <2>1. \A j \in 1 .. Len(toT) : toT[j].k # "data"
    BY <1>b DEF StepInv, ToTargetInv
  <2>2. \A j \in 1 .. Len(toT) : ~toT[j].ok =>
          /\ toT[j].k = "hs" /\ toT[j].v = 0 /\ t.i = 0
          /\ \A l \in 1 .. j : ~toT[l].ok
    BY <1>b, <2>1 DEF StepInv, GarbageInv
  <2>3. ASSUME NEW j \in 1 .. Len(toT'), ~toT'[j].ok
        PROVE  /\ toT'[j].k = "hs" /\ toT'[j].v = 0
               /\ t'.pc = "hs" /\ t'.i = 0
               /\ \A l \in 1 .. j : ~toT'[l].ok
    <3>1. j + 1 \in 1 .. Len(toT) /\ toT'[j] = toT[j + 1] /\ ~toT[j + 1].ok
      BY <1>g, <2>3
    <3>2. /\ toT[j + 1].k = "hs" /\ toT[j + 1].v = 0
          /\ \A l \in 1 .. j + 1 : ~toT[l].ok
      BY <2>2, <3>1
    <3>3. \A l \in 1 .. j : ~toT'[l].ok
      <4>1. \A l \in 1 .. j : l \in 1 .. Len(toT') /\ l + 1 \in 1 .. j + 1
        BY <1>g
      <4> QED
        BY <1>g, <3>2, <4>1
    <3>4. ~m.ok /\ m.k = "hs" /\ m.v = 0 /\ t.i = 0
      <4>1. 1 \in 1 .. j + 1 /\ 1 \in 1 .. Len(toT)
        BY <1>g
      <4> QED
        BY <1>g, <2>2, <3>2, <4>1
    <3>5. ReadsAs(m, t.i) = {FALSE}
      BY <3>4 DEF ReadsAs
    <3>6. t' = [t EXCEPT !.i = 0]
      BY <1>c, <3>5
    <3>7. t'.pc = "hs" /\ t'.i = 0
      BY <1>a, <1>b, <3>6 DEF Targets
    <3> QED
      BY <3>1, <3>2, <3>3, <3>7
  <2> QED
    BY <1>b, <1>d, <2>3 DEF GarbageInv
<1>9. WholeInv'
  <2>1. Whole' = Whole
    BY <1>b, <1>d DEF Whole
  <2> QED
    BY <1>b, <1>d, <1>e, <1>g, <2>1 DEF StepInv, WholeInv
<1> QED
  BY <1>1, <1>2, <1>3, <1>4, <1>5, <1>6, <1>7, <1>8, <1>9 DEF StepInv

\* What the target makes of a command
LEMMA CommandRead ==
    ASSUME Inv, TargetCommand
    PROVE  /\ t.pc = "cmd" /\ toT # <<>> /\ toT' = Tail(toT) /\ UNCHANGED <<h, mem, faults>>
           /\ t'.dsize = t.dsize /\ t'.baud = t.baud
           /\ t'.pc \in {"cmd", "baud", "size", "started", "hung"}
           /\ t'.pc \in {"baud", "size"} => Head(toT).k = "cmd"
           /\ t'.pc = "size" => t'.idx = 0 /\ t'.rcvd = 0
           /\ t'.rcvd = t.rcvd \/ t'.rcvd = 0
           /\ t'.pc = "started" =>
                ~Head(toT).ok \/ (Head(toT).k = "cmd" /\ Head(toT).v = GO)
           /\ \E e \in Fields :
                /\ e.k = "cmd"
                /\ \/ toH' = toH \o <<e>> /\ (IsEcho(e) => e.v # GET_VER)
                   \/ toH' = toH \o <<e, Msg("ver", 0, 0)>> /\ (IsEcho(e) => e.v = GET_VER)
                /\ IsEcho(e) => /\ e = Head(toT)
                                /\ e.v = GET_VER => t'.pc = "cmd"
                                /\ e.v = SET_BAUD => t'.pc = "baud"
                                /\ e.v = LOAD_DATA => t'.pc = "size"
                                /\ e.v = GO => t'.pc = "started"
<1>a. t \in Targets /\ toT \in Seq(Fields)
  BY DEF Inv, TargetInv, LineInv
<1>b. t.pc = "cmd" /\ toT # <<>> /\ toT' = Tail(toT) /\ UNCHANGED <<h, mem, faults>>
  BY DEF TargetCommand, TargetReads
<1> DEFINE m == Head(toT)
<1>c. m \in Fields /\ m.v \in Nat
  BY <1>a, <1>b, HeadTail DEF Fields
<1>d. PICK c \in CommandsIn(m) :
         LET echo == IF m.k = "cmd" /\ m.ok
                     THEN m ELSE [Msg("cmd", c, 0) EXCEPT !.ok = FALSE] IN
         \/ c = GET_VER /\ ToHost(<<echo, Msg("ver", 0, 0)>>) /\ UNCHANGED t
         \/ c = SET_BAUD /\ ToHost(<<echo>>) /\ t' = [t EXCEPT !.pc = "baud"]
         \/ c = LOAD_DATA /\ ToHost(<<echo>>)
            /\ t' = [t EXCEPT !.pc = "size", !.idx = 0, !.rcvd = 0]
         \/ c = GO /\ ToHost(<<echo>>) /\ t' = [t EXCEPT !.pc = "started"]
         \/ c = UNKNOWN /\ ToHost(<<Msg("cmd", UNKNOWN, 0)>>) /\ t' = [t EXCEPT !.pc = "hung"]
  BY DEF TargetCommand
<1> DEFINE echo == IF m.k = "cmd" /\ m.ok
                   THEN m ELSE [Msg("cmd", c, 0) EXCEPT !.ok = FALSE]
           u == Msg("cmd", UNKNOWN, 0)
<1>e. /\ c \in Nat
      /\ m.k = "cmd" /\ m.ok => c = m.v
      /\ m.k # "cmd" => c \in {GET_VER, GO, UNKNOWN}
      /\ m.k # "cmd" /\ m.ok => c = UNKNOWN
  <2>1. CASE m.k = "cmd" /\ m.ok
    BY <1>c, <1>d, <2>1 DEF CommandsIn
  <2>2. CASE m.k = "cmd" /\ ~m.ok
    BY <1>d, <2>2 DEF CommandsIn, Commands
  <2>3. CASE m.k # "cmd"
    BY <1>d, <2>3 DEF CommandsIn, GET_VER, GO, UNKNOWN
  <2> QED
    BY <2>1, <2>2, <2>3
<1>f. /\ echo \in Fields /\ echo.k = "cmd"
      /\ IsEcho(echo) => echo = m /\ echo.v = c /\ m.k = "cmd"
  <2>1. CASE m.k = "cmd" /\ m.ok
    BY <1>c, <1>e, <2>1
  <2>2. CASE ~(m.k = "cmd" /\ m.ok)
    <3> DEFINE w == Msg("cmd", c, 0)
    <3>1. echo = Damage(w)
      BY <2>2 DEF Damage
    <3>2. w \in Fields
      BY <1>e, MsgIsField
    <3>3. w.k = "cmd"
      BY MsgParts
    <3> HIDE DEF w, echo
    <3>4. echo \in Fields /\ ~echo.ok /\ echo.k = "cmd"
      BY <3>1, <3>2, <3>3, DamagedParts
    <3> QED
      BY <3>4 DEF IsEcho
  <2> QED
    BY <2>1, <2>2
<1>g. u \in Fields /\ u.k = "cmd" /\ ~IsEcho(u)
  <2>1. u.k = "cmd" /\ u.v = UNKNOWN
    BY MsgParts
  <2>2. u \in Fields
    BY MsgIsField DEF UNKNOWN
  <2> HIDE DEF u
  <2> QED
    BY <2>1, <2>2 DEF IsEcho
<1>h. \/ c = GET_VER /\ toH' = toH \o <<echo, Msg("ver", 0, 0)>> /\ t' = t
      \/ c = SET_BAUD /\ toH' = toH \o <<echo>> /\ t' = [t EXCEPT !.pc = "baud"]
      \/ c = LOAD_DATA /\ toH' = toH \o <<echo>>
         /\ t' = [t EXCEPT !.pc = "size", !.idx = 0, !.rcvd = 0]
      \/ c = GO /\ toH' = toH \o <<echo>> /\ t' = [t EXCEPT !.pc = "started"]
      \/ c = UNKNOWN /\ toH' = toH \o <<u>> /\ t' = [t EXCEPT !.pc = "hung"]
  BY <1>d DEF ToHost
<1> HIDE DEF m, echo, u
<1>i. /\ GET_VER # SET_BAUD /\ GET_VER # LOAD_DATA /\ GET_VER # GO
      /\ SET_BAUD # LOAD_DATA /\ SET_BAUD # GO /\ LOAD_DATA # GO
      /\ UNKNOWN \notin {GET_VER, SET_BAUD, LOAD_DATA, GO}
  BY DEF GET_VER, SET_BAUD, LOAD_DATA, GO, UNKNOWN
<1>j. /\ c = GET_VER => t' = t
      /\ c = SET_BAUD => t'.pc = "baud" /\ t'.dsize = t.dsize /\ t'.baud = t.baud /\ t'.rcvd = t.rcvd
      /\ c = LOAD_DATA => t'.pc = "size" /\ t'.dsize = t.dsize /\ t'.baud = t.baud
                          /\ t'.idx = 0 /\ t'.rcvd = 0
      /\ c = GO => t'.pc = "started" /\ t'.dsize = t.dsize /\ t'.baud = t.baud /\ t'.rcvd = t.rcvd
      /\ c = UNKNOWN => t'.pc = "hung" /\ t'.dsize = t.dsize /\ t'.baud = t.baud /\ t'.rcvd = t.rcvd
  <2>1. CASE c = GET_VER
    BY <1>h, <1>i, <2>1
  <2>2. CASE c = SET_BAUD
    BY <1>a, <1>h, <1>i, <2>2 DEF Targets
  <2>3. CASE c = LOAD_DATA
    BY <1>a, <1>h, <1>i, <2>3 DEF Targets
  <2>4. CASE c = GO
    BY <1>a, <1>h, <1>i, <2>4 DEF Targets
  <2>5. CASE c = UNKNOWN
    BY <1>a, <1>h, <1>i, <2>5 DEF Targets
  <2> QED
    BY <1>h, <1>i, <2>1, <2>2, <2>3, <2>4, <2>5
<1>k. c \in {GET_VER, SET_BAUD, LOAD_DATA, GO, UNKNOWN}
  BY <1>h
<1>1. /\ t'.dsize = t.dsize /\ t'.baud = t.baud
      /\ t'.pc \in {"cmd", "baud", "size", "started", "hung"}
      /\ t'.pc = "size" => t'.idx = 0 /\ t'.rcvd = 0
      /\ t'.rcvd = t.rcvd \/ t'.rcvd = 0
  BY <1>b, <1>i, <1>j, <1>k
<1>2. t'.pc \in {"baud", "size"} => m.k = "cmd"
  BY <1>b, <1>e, <1>i, <1>j, <1>k
<1>3. t'.pc = "started" => ~m.ok \/ (m.k = "cmd" /\ m.v = GO)
  BY <1>b, <1>e, <1>i, <1>j, <1>k
<1>4. \E e \in Fields :
        /\ e.k = "cmd"
        /\ \/ toH' = toH \o <<e>> /\ (IsEcho(e) => e.v # GET_VER)
           \/ toH' = toH \o <<e, Msg("ver", 0, 0)>> /\ (IsEcho(e) => e.v = GET_VER)
        /\ IsEcho(e) => /\ e = m
                        /\ e.v = GET_VER => t'.pc = "cmd"
                        /\ e.v = SET_BAUD => t'.pc = "baud"
                        /\ e.v = LOAD_DATA => t'.pc = "size"
                        /\ e.v = GO => t'.pc = "started"
  <2>1. CASE c = UNKNOWN
    <3>1. toH' = toH \o <<u>>
      BY <1>h, <1>i, <2>1
    <3> QED
      BY <1>g, <3>1
  <2>2. CASE c # UNKNOWN
    <3>1. /\ c = GET_VER => toH' = toH \o <<echo, Msg("ver", 0, 0)>>
          /\ c # GET_VER => toH' = toH \o <<echo>>
      BY <1>h, <1>i, <2>2
    <3>2. IsEcho(echo) => /\ echo = m
                          /\ echo.v = GET_VER => t'.pc = "cmd"
                          /\ echo.v = SET_BAUD => t'.pc = "baud"
                          /\ echo.v = LOAD_DATA => t'.pc = "size"
                          /\ echo.v = GO => t'.pc = "started"
      BY <1>b, <1>f, <1>j
    <3> QED
      BY <1>f, <3>1, <3>2
  <2> QED
    BY <2>1, <2>2
<1> QED
  BY <1>b, <1>1, <1>2, <1>3, <1>4 DEF m

LEMMA CommandStep ==
    ASSUME Inv, StepInv, TargetCommand
    PROVE  StepInv'
<1> DEFINE m == Head(toT)
           ver == Msg("ver", 0, 0)
<1>a. t \in Targets /\ t.rcvd \in Nat /\ toT \in Seq(Fields) /\ toH \in Seq(Fields)
  BY DEF Inv, TargetInv, LineInv, Targets
<1>b. /\ t.pc = "cmd" /\ toT # <<>> /\ toT' = Tail(toT) /\ UNCHANGED <<h, mem, faults>>
      /\ t'.dsize = t.dsize /\ t'.baud = t.baud
      /\ t'.pc \in {"cmd", "baud", "size", "started", "hung"}
      /\ t'.pc \in {"baud", "size"} => m.k = "cmd"
      /\ t'.pc = "size" => t'.idx = 0 /\ t'.rcvd = 0
      /\ t'.rcvd = t.rcvd \/ t'.rcvd = 0
      /\ t'.pc = "started" => ~m.ok \/ (m.k = "cmd" /\ m.v = GO)
  BY CommandRead
<1>c. PICK e \in Fields :
        /\ e.k = "cmd"
        /\ \/ toH' = toH \o <<e>> /\ (IsEcho(e) => e.v # GET_VER)
           \/ toH' = toH \o <<e, ver>> /\ (IsEcho(e) => e.v = GET_VER)
        /\ IsEcho(e) => /\ e = m
                        /\ e.v = GET_VER => t'.pc = "cmd"
                        /\ e.v = SET_BAUD => t'.pc = "baud"
                        /\ e.v = LOAD_DATA => t'.pc = "size"
                        /\ e.v = GO => t'.pc = "started"
  BY CommandRead
<1>d. ver \in Fields /\ ver.k = "ver"
  <2>1. ver \in Fields
    BY MsgIsField
  <2>2. ver.k = "ver"
    BY MsgParts
  <2> QED
    BY <2>1, <2>2
<1> HIDE DEF ver
<1>e. ~IsEcho(ver) /\ ver \in Others
  BY <1>d DEF IsEcho, Others
<1>f. /\ Len(toT) \in Nat /\ Len(toT) >= 1 /\ m = toT[1] /\ 1 \in 1 .. Len(toT)
      /\ Len(toT') = Len(toT) - 1
      /\ \A j \in 1 .. Len(toT') : toT'[j] = toT[j + 1] /\ j + 1 \in 1 .. Len(toT)
      /\ Len(toT) = 1 => toT' = <<>>
  BY <1>a, <1>b, TakenFromLine
<1> HIDE DEF m
<1>g. m.k # "hs" => Len(toT) = 1 /\ toT' = <<>> /\ Len(toT') = 0
  <2>1. m.k # "hs" => 1 = Len(toT)
    BY <1>f DEF StepInv, ToTargetInv
  <2> QED
    BY <1>f, <2>1
<1>h. /\ t'.pc \in FieldPcs => t'.pc \in {"baud", "size"} /\ toT' = <<>> /\ Len(toT') = 0
      /\ t'.pc \in IdlePcs \/ toT' = <<>>
      /\ m.k # "cmd" => t'.pc \in IdlePcs
  BY <1>b, <1>g DEF FieldPcs, IdlePcs, TargetPcs
<1>1. ToTargetInv'
  <2>1. \A j \in 1 .. Len(toT) : /\ toT[j].k # "hs" => j = Len(toT)
                                 /\ toT[j].k # "data"
    BY <1>b DEF StepInv, ToTargetInv
  <2>2. \A j \in 1 .. Len(toT') : /\ toT'[j].k # "hs" => j + 1 = Len(toT)
                                  /\ toT'[j].k # "data"
    BY <1>f, <2>1
  <2>3. \A j \in 1 .. Len(toT') : toT'[j].k # "hs" => j = Len(toT')
    BY <1>f, <2>2
  <2> QED
    BY <1>b, <1>h, <2>2, <2>3 DEF ToTargetInv
<1>2. StoredInv'
  <2>1. t.rcvd <= Size /\ \A a \in 1 .. t.rcvd : mem[a] = a
    BY DEF StepInv, StoredInv, PrefixIntact
  <2>2. CASE t'.rcvd = t.rcvd
    BY <1>b, <2>1, <2>2 DEF StoredInv, PrefixIntact
  <2>3. CASE t'.rcvd = 0
    BY <2>3, UartDlAssumption DEF StoredInv, PrefixIntact
  <2> QED
    BY <1>b, <2>2, <2>3
<1>3. RoundInv'
  BY <1>b DEF StepInv, RoundInv
<1>4. BetweenInv'
  <2> SUFFICES ASSUME h.pc \in {"hs", "settle", "vernum"} \/ (h.pc \in CmdSteps /\ ~h.wait)
               PROVE  BetweenInv'
    BY <1>b DEF BetweenInv
  <2>1. toT \in Seq(HsFields) /\ toH \in Seq(Others)
    BY DEF StepInv, BetweenInv
  <2>2. toT' \in Seq(HsFields)
    BY <1>b, <2>1
  <2>3. m.k = "hs"
    BY <1>f, <2>1, HsSeq
  <2>4. e \in Others
    BY <1>c, <2>3 DEF Others
  <2>5. <<e>> \in Seq(Others) /\ <<e, ver>> \in Seq(Others)
    BY <1>e, <2>4
  <2>6. toH' \in Seq(Others)
    BY <1>c, <2>1, <2>5, ConcatProperties
  <2> QED
    BY <1>h, <2>2, <2>3, <2>6 DEF BetweenInv
<1>5. CommandInv'
  <2> SUFFICES ASSUME h.pc \in CmdSteps, h.wait PROVE CommandInv'
    BY <1>b DEF CommandInv
  <2>0. \A j \in 1 .. Len(toT) :
          toT[j].k # "hs" => toT[j].k = "cmd" /\ toT[j].v = CmdOf[h.pc] /\ toT[j].n = 0
    BY DEF StepInv, CommandInv
  <2>1. \A j \in 1 .. Len(toH) : ~IsEcho(toH[j])
    BY <1>b DEF StepInv, CommandInv
  <2>2. \A j \in 1 .. Len(toT') :
          toT'[j].k # "hs" => toT'[j].k = "cmd" /\ toT'[j].v = CmdOf[h.pc] /\ toT'[j].n = 0
    BY <1>f, <2>0
  \* The echo, if it is one, is alone and the target has opened the command.
  <2>3. IsEcho(e) => /\ toT' = <<>> /\ Opened(h.pc)'
                     /\ h.pc # "ver" => toH' = toH \o <<e>>
    <3> SUFFICES ASSUME IsEcho(e)
                 PROVE  toT' = <<>> /\ Opened(h.pc)' /\ (h.pc # "ver" => toH' = toH \o <<e>>)
      OBVIOUS
    <3>1. toT' = <<>>
      BY <1>c, <1>g
    <3>2. e.v = CmdOf[h.pc]
      BY <1>c, <1>f, <2>0
    <3>3. h.pc \in {"ver", "setbaud", "load", "go"}
      BY DEF CmdSteps
    <3>4. h.pc = "ver" => t'.pc \in IdlePcs
      BY <1>c, <3>2, CmdValues DEF IdlePcs, TargetPcs, FieldPcs
    <3>5. Opened(h.pc)'
      BY <1>b, <1>c, <3>2, <3>4, CmdValues DEF Opened
    <3>6. h.pc # "ver" => e.v # GET_VER
      BY <3>2, <3>3, CmdValues DEF GET_VER, SET_BAUD, LOAD_DATA, GO
    <3> QED
      BY <1>c, <3>1, <3>5, <3>6
  <2>4. /\ Len(toH) \in Nat
        /\ \A j \in 1 .. Len(toH) : toH'[j] = toH[j]
        /\ \/ toH' = toH \o <<e>> /\ Len(toH') = Len(toH) + 1 /\ toH'[Len(toH) + 1] = e
           \/ /\ toH' = toH \o <<e, ver>> /\ Len(toH') = Len(toH) + 2
              /\ toH'[Len(toH) + 1] = e /\ toH'[Len(toH) + 2] = ver
    <3>1. CASE toH' = toH \o <<e>>
      BY <1>a, <3>1
    <3>2. CASE toH' = toH \o <<e, ver>>
      BY <1>a, <1>c, <1>d, <3>2
    <3> QED
      BY <1>c, <3>1, <3>2
  <2>5. \A j \in 1 .. Len(toH') :
          j \in 1 .. Len(toH) \/ j = Len(toH) + 1 \/ (j = Len(toH) + 2 /\ toH'[j] = ver)
    BY <2>4
  <2>6. \A j \in 1 .. Len(toH') : IsEcho(toH'[j]) => j = Len(toH) + 1 /\ IsEcho(e)
    BY <1>e, <2>1, <2>4, <2>5
  <2>7. toH' = toH \o <<e>> => Len(toH') = Len(toH) + 1
    BY <1>a
  <2>8. \A j \in 1 .. Len(toH') : IsEcho(toH'[j]) =>
          /\ toT' = <<>> /\ Opened(h.pc)'
          /\ h.pc # "ver" => j = Len(toH')
          /\ \A l \in 1 .. Len(toH') : l # j => ~IsEcho(toH'[l])
    BY <2>3, <2>6, <2>7
  <2> QED
    BY <1>b, <1>h, <2>2, <2>8 DEF CommandInv
<1>6. FieldInv'
  <2> SUFFICES ASSUME h.pc \in FieldPcs PROVE FieldInv'
    BY <1>b DEF FieldInv
  <2>1. /\ h.wait /\ toH = <<>> /\ Awaits(h.pc)
        /\ toT = <<Out(h)>> \/ toT = <<Damage(Out(h))>>
    BY <1>b DEF StepInv, FieldInv
  <2>2. h.pc = "idx"
    BY <1>b, <2>1, AwaitsPc DEF FieldPcs
  <2>3. Out(h) \in Fields /\ Out(h).k = "idx"
    BY <2>2, OutField DEF Inv
  <2>4. toT' = <<>>
    <3>1. Len(toT) = 1
      BY <2>1
    <3> QED
      BY <1>f, <3>1
  <2>5. e \in Fields \ {Out(h)} /\ ver \in Fields \ {Out(h)}
    BY <1>c, <1>d, <2>3
  <2>6. <<e>> \in Seq(Fields \ {Out(h)}) /\ <<e, ver>> \in Seq(Fields \ {Out(h)})
    BY <2>5
  <2>7. toH' = <<e>> \/ toH' = <<e, ver>>
    BY <1>c, <2>1, <2>6, ConcatEmptySeq
  <2>8. AnswerInv'
    BY <1>b, <2>2, <2>6, <2>7 DEF AnswerInv
  <2> QED
    BY <1>b, <2>1, <2>4, <2>8 DEF FieldInv
<1>7. BaudInv'
  BY <1>b DEF StepInv, BaudInv
<1>8. GarbageInv' /\ (faults["bad"] = 0 => m.ok)
  <2>1. \A j \in 1 .. Len(toT) : toT[j].k # "data"
    BY <1>b DEF StepInv, ToTargetInv
  <2>2. faults["bad"] = 0 => \A j \in 1 .. Len(toT) : toT[j].ok
    BY <1>b, <2>1 DEF StepInv, GarbageInv
  <2>3. faults["bad"] = 0 => \A j \in 1 .. Len(toT') : toT'[j].ok
    BY <1>f, <2>2
  <2> QED
    BY <1>b, <1>f, <2>2, <2>3 DEF GarbageInv
<1>9. WholeInv'
  <2>1. Whole' = Whole
    BY <1>b DEF Whole
  <2>2. \A j \in 1 .. Len(toT) :
          toT[j].k = "cmd" /\ toT[j].ok /\ toT[j].v = GO =>
            Whole /\ h.pc \in {"go", "done", "panic"}
    BY DEF StepInv, WholeInv
  <2>3. \A j \in 1 .. Len(toT') :
          toT'[j].k = "cmd" /\ toT'[j].ok /\ toT'[j].v = GO =>
            Whole /\ h.pc \in {"go", "done", "panic"}
    BY <1>f, <2>2
  <2>4. t'.pc = "started" /\ faults["bad"] = 0 => Whole /\ h.pc \in {"go", "done", "panic"}
    BY <1>b, <1>f, <1>8, <2>2
  <2>5. h.pc \in {"go", "done"} => Whole
    BY DEF StepInv, WholeInv
  <2> QED
    BY <1>b, <1>h, <2>1, <2>3, <2>4, <2>5 DEF WholeInv
<1> QED
  BY <1>1, <1>2, <1>3, <1>4, <1>5, <1>6, <1>7, <1>8, <1>9 DEF StepInv

-----------------------------------------------------------------------------
(* The line loses or damages a field *)

LEMMA LoseRequestStep ==
    ASSUME Inv, StepInv, LoseRequest
    PROVE  StepInv'
<1>a. toT \in Seq(Fields) /\ toH \in Seq(Fields) /\ faults \in [Faults -> Nat]
  BY DEF Inv, LineInv
<1>b. toT # <<>> /\ toT' = Tail(toT) /\ UNCHANGED <<h, t, mem, toH>>
  BY DEF LoseRequest
<1>c. faults'["bad"] = faults["bad"]
  BY <1>a DEF LoseRequest, Fault, Faults
<1>d. /\ Len(toT) \in Nat /\ Len(toT) >= 1
      /\ Len(toT') = Len(toT) - 1
      /\ \A j \in 1 .. Len(toT') : toT'[j] = toT[j + 1] /\ j + 1 \in 1 .. Len(toT)
      /\ Len(toT) = 1 => toT' = <<>>
  BY <1>b, TakenFromLine
<1>1. ToTargetInv'
  <2>1. \A j \in 1 .. Len(toT) : /\ toT[j].k # "hs" => j = Len(toT)
                                 /\ toT[j].k = "data" => t.pc = "data"
    BY DEF StepInv, ToTargetInv
  <2>2. \A j \in 1 .. Len(toT') : /\ toT'[j].k # "hs" => j + 1 = Len(toT)
                                  /\ toT'[j].k = "data" => t.pc = "data"
    BY <1>d, <2>1
  <2>3. \A j \in 1 .. Len(toT') : toT'[j].k # "hs" => j = Len(toT')
    <3>1. \A j \in 1 .. Len(toT') : j + 1 = Len(toT) => j = Len(toT')
      BY <1>d
    <3> QED
      BY <2>2, <3>1
  <2>4. t.pc \in FieldPcs => toT' = <<>>
    BY <1>b, <1>d DEF StepInv, ToTargetInv
  <2>5. "data" \in FieldPcs
    BY DEF FieldPcs
  <2> QED
    BY <1>b, <2>2, <2>3, <2>4, <2>5 DEF ToTargetInv
<1>2. StoredInv'
  BY <1>b DEF StepInv, StoredInv, PrefixIntact
<1>3. RoundInv'
  BY <1>b DEF StepInv, RoundInv
<1>4. BetweenInv'
  <2>1. toT \in Seq(HsFields) => toT' \in Seq(HsFields)
    BY <1>b
  <2> QED
    BY <1>b, <2>1 DEF StepInv, BetweenInv
<1>5. CommandInv'
  <2> SUFFICES ASSUME h.pc \in CmdSteps, h.wait PROVE CommandInv'
    BY <1>b DEF CommandInv
  <2>1. \A j \in 1 .. Len(toT) :
          toT[j].k # "hs" => toT[j].k = "cmd" /\ toT[j].v = CmdOf[h.pc] /\ toT[j].n = 0
    BY DEF StepInv, CommandInv
  <2>2. \A j \in 1 .. Len(toT') :
          toT'[j].k # "hs" => toT'[j].k = "cmd" /\ toT'[j].v = CmdOf[h.pc] /\ toT'[j].n = 0
    BY <1>d, <2>1
  <2>3. t.pc \in IdlePcs /\ \A j \in 1 .. Len(toH) : ~IsEcho(toH[j])
    BY <1>b DEF StepInv, CommandInv
  <2> QED
    BY <1>b, <2>2, <2>3 DEF CommandInv
<1>6. FieldInv'
  <2> SUFFICES ASSUME h.pc \in FieldPcs PROVE FieldInv'
    BY <1>b DEF FieldInv
  <2>1. h.wait /\ toH = <<>> /\ Len(toT) = 1
    BY <1>b DEF StepInv, FieldInv
  <2>2. <<>> \in Seq(Fields \ {Out(h)})
    BY EmptySeq
  <2>3. AnswerInv'
    BY <1>b, <2>1, <2>2 DEF AnswerInv
  <2> QED
    BY <1>b, <1>d, <2>1, <2>3 DEF FieldInv
<1>7. BaudInv'
  BY <1>b DEF StepInv, BaudInv
<1>8. GarbageInv'
  <2> SUFFICES ASSUME faults["bad"] = 0 PROVE GarbageInv'
    BY <1>c DEF GarbageInv
  <2>1. /\ \A j \in 1 .. Len(toT) : ~toT[j].ok /\ toT[j].k # "data" =>
             /\ toT[j].k = "hs" /\ toT[j].v = 0
             /\ t.pc = "switch" \/ (t.pc = "hs" /\ t.i = 0)
             /\ \A l \in 1 .. j : ~toT[l].ok
        /\ t.pc = "switch" => \A j \in 1 .. Len(toT) : ~toT[j].ok
    BY DEF StepInv, GarbageInv
  <2>2. ASSUME NEW j \in 1 .. Len(toT'), ~toT'[j].ok, toT'[j].k # "data"
        PROVE  /\ toT'[j].k = "hs" /\ toT'[j].v = 0
               /\ t.pc = "switch" \/ (t.pc = "hs" /\ t.i = 0)
               /\ \A l \in 1 .. j : ~toT'[l].ok
    <3>1. j + 1 \in 1 .. Len(toT) /\ toT'[j] = toT[j + 1]
      BY <1>d
    <3>2. \A l \in 1 .. j + 1 : ~toT[l].ok
      BY <2>1, <2>2, <3>1
    <3>3. \A l \in 1 .. j : l \in 1 .. Len(toT') /\ l + 1 \in 1 .. j + 1
      BY <1>d
    <3> QED
      BY <1>d, <2>1, <2>2, <3>1, <3>2, <3>3
  <2>3. t.pc = "switch" => \A j \in 1 .. Len(toT') : ~toT'[j].ok
    BY <1>d, <2>1
  <2> QED
    BY <1>b, <2>2, <2>3 DEF GarbageInv
<1>9. WholeInv'
  <2>1. Whole' = Whole
    BY <1>b DEF Whole
  <2>2. \A j \in 1 .. Len(toT) :
          toT[j].k = "cmd" /\ toT[j].ok /\ toT[j].v = GO =>
            Whole /\ h.pc \in {"go", "done", "panic"}
    BY DEF StepInv, WholeInv
  <2>3. \A j \in 1 .. Len(toT') :
          toT'[j].k = "cmd" /\ toT'[j].ok /\ toT'[j].v = GO =>
            Whole /\ h.pc \in {"go", "done", "panic"}
    BY <1>d, <2>2
  <2> QED
    BY <1>b, <1>c, <2>1, <2>3 DEF StepInv, WholeInv
<1> QED
  BY <1>1, <1>2, <1>3, <1>4, <1>5, <1>6, <1>7, <1>8, <1>9 DEF StepInv

LEMMA LoseResponseStep ==
    ASSUME Inv, StepInv, LoseResponse
    PROVE  StepInv'
<1>a. toT \in Seq(Fields) /\ toH \in Seq(Fields) /\ faults \in [Faults -> Nat]
  BY DEF Inv, LineInv
<1>b. toH # <<>> /\ toH' = Tail(toH) /\ UNCHANGED <<h, t, mem, toT>>
  BY DEF LoseResponse
<1>c. faults'["bad"] = faults["bad"]
  BY <1>a DEF LoseResponse, Fault, Faults
<1>d. /\ Len(toH) \in Nat /\ Len(toH) >= 1
      /\ Len(toH') = Len(toH) - 1
      /\ \A j \in 1 .. Len(toH') : toH'[j] = toH[j + 1] /\ j + 1 \in 1 .. Len(toH)
      /\ Len(toH) = 1 => toH' = <<>>
  BY <1>a, <1>b, Taking
<1>1. ToTargetInv' /\ StoredInv' /\ GarbageInv' /\ WholeInv'
  <2>1. h.pc \in {"go", "done"} => Whole /\ (t.pc \in IdlePcs \/ toT = <<>>)
    BY DEF StepInv, WholeInv
  <2> QED
    BY <1>b, <1>c, <2>1, ReadFrame
<1>2. RoundInv'
  BY <1>b DEF StepInv, RoundInv
<1>3. BetweenInv'
  <2>1. toH \in Seq(Others) => toH' \in Seq(Others)
    BY <1>b
  <2> QED
    BY <1>b, <2>1 DEF StepInv, BetweenInv
<1>4. CommandInv'
  <2> SUFFICES ASSUME h.pc \in CmdSteps, h.wait PROVE CommandInv'
    BY <1>b DEF CommandInv
  <2>1. \A j \in 1 .. Len(toH) : IsEcho(toH[j]) =>
          /\ toT = <<>> /\ Opened(h.pc)
          /\ h.pc # "ver" => j = Len(toH)
          /\ \A l \in 1 .. Len(toH) : l # j => ~IsEcho(toH[l])
    BY DEF StepInv, CommandInv
  <2>2. ASSUME NEW j \in 1 .. Len(toH'), IsEcho(toH'[j])
        PROVE  /\ toT = <<>> /\ Opened(h.pc)
               /\ h.pc # "ver" => j = Len(toH')
               /\ \A l \in 1 .. Len(toH') : l # j => ~IsEcho(toH'[l])
    <3>1. j + 1 \in 1 .. Len(toH) /\ IsEcho(toH[j + 1])
      BY <1>d, <2>2
    <3>2. /\ toT = <<>> /\ Opened(h.pc)
          /\ h.pc # "ver" => j + 1 = Len(toH)
          /\ \A l \in 1 .. Len(toH) : l # j + 1 => ~IsEcho(toH[l])
      BY <2>1, <3>1
    <3>3. \A l \in 1 .. Len(toH') : l # j => ~IsEcho(toH'[l])
      <4>1. \A l \in 1 .. Len(toH') : l # j => l + 1 # j + 1
        BY <1>d
      <4> QED
        BY <1>d, <3>2, <4>1
    <3> QED
      BY <1>d, <3>2, <3>3
  <2>3. Opened(h.pc)' <=> Opened(h.pc)
    BY <1>b DEF Opened
  <2> QED
    BY <1>b, <2>2, <2>3 DEF StepInv, CommandInv
<1>5. FieldInv'
  <2> SUFFICES ASSUME h.pc \in FieldPcs PROVE FieldInv'
    BY <1>b DEF FieldInv
  <2>1. h.wait /\ toT = <<>> /\ AnswerInv
    BY <1>b DEF StepInv, FieldInv
  <2>2. <<>> \in Seq(Fields \ {Out(h)})
    BY EmptySeq
  <2>3. toH \in Seq(Fields \ {Out(h)}) => toH' \in Seq(Fields \ {Out(h)})
    BY <1>b
  <2>4. toH = <<Out(h)>> => toH' = <<>>
    BY <1>b
  <2>5. h.pc = "data" => toH' = <<>>
    BY <1>b, <1>d, <2>1 DEF AnswerInv
  <2>6. h.pc # "data" => toH' \in Seq(Fields \ {Out(h)})
    BY <2>1, <2>2, <2>3, <2>4 DEF AnswerInv, FieldPcs
  <2>7. AnswerInv'
    BY <1>b, <2>5, <2>6 DEF AnswerInv
  <2> QED
    BY <1>b, <2>1, <2>7 DEF FieldInv
<1>6. BaudInv'
  BY <1>b DEF StepInv, BaudInv
<1> QED
  BY <1>1, <1>2, <1>3, <1>4, <1>5, <1>6 DEF StepInv

LEMMA DamageRequestStep ==
    ASSUME Inv, StepInv, DamageRequest
    PROVE  StepInv'
<1>a. toT \in Seq(Fields) /\ toH \in Seq(Fields) /\ faults \in [Faults -> Nat]
  BY DEF Inv, LineInv
<1> DEFINE d == Damage(Head(toT))
<1>b. toT # <<>> /\ Head(toT).ok /\ toT' = <<d>> \o Tail(toT) /\ UNCHANGED <<h, t, mem, toH>>
  BY DEF DamageRequest, Damage
<1>c. /\ Len(toT) \in Nat /\ Len(toT) >= 1 /\ Head(toT) = toT[1] /\ toT[1] \in Fields
      /\ Tail(toT) \in Seq(Fields)
  BY <1>b, TakenFromLine, HeadTail, <1>a
<1>d. d \in Fields /\ ~d.ok /\ d.k = toT[1].k /\ d.v = toT[1].v /\ d.n = toT[1].n
  BY <1>c, DamagedParts
<1>e. /\ Len(toT') = Len(toT) /\ toT'[1] = d
      /\ \A j \in 2 .. Len(toT) : toT'[j] = toT[j]
      /\ Len(toT) = 1 => toT' = <<d>>
  BY <1>a, <1>b, <1>c, Damaging
<1> HIDE DEF d
<1>f. /\ toT' # <<>>
      /\ \A j \in 1 .. Len(toT') : /\ j \in 1 .. Len(toT) /\ (j = 1 \/ j \in 2 .. Len(toT))
                                   /\ toT'[j].k = toT[j].k /\ toT'[j].v = toT[j].v
                                   /\ toT'[j].n = toT[j].n
                                   /\ toT'[j].ok => toT[j].ok
  <2>1. \A j \in 1 .. Len(toT') : j \in 1 .. Len(toT) /\ (j = 1 \/ j \in 2 .. Len(toT))
    BY <1>c, <1>e
  <2>2. toT' # <<>>
    <3>1. Len(toT') >= 1
      BY <1>c, <1>e
    <3> QED
      BY <3>1
  <2> QED
    BY <1>d, <1>e, <2>1, <2>2
\* Only the data of a packet can be damaged without a "bad".
<1>g. faults'["bad"] = 0 =>
        faults["bad"] = 0 /\ t.pc = "data" /\ Len(toT) = 1 /\ toT[1].k = "data"
  <2>1. toT[1].k # "data" => faults'["bad"] # 0
    BY <1>a, <1>c DEF DamageRequest, Fault, Faults
  <2>2. toT[1].k = "data" => faults'["bad"] = faults["bad"]
    BY <1>a, <1>c DEF DamageRequest, Fault, Faults
  <2>3. toT[1].k = "data" => t.pc = "data" /\ Len(toT) = 1
    <3>1. 1 \in 1 .. Len(toT)
      BY <1>c
    <3>2. toT[1].k = "data" => t.pc = "data" /\ 1 = Len(toT)
      BY <3>1 DEF StepInv, ToTargetInv
    <3> QED
      BY <3>2
  <2> QED
    BY <2>1, <2>2, <2>3
<1>1. ToTargetInv'
  <2>1. \A j \in 1 .. Len(toT) : /\ toT[j].k # "hs" => j = Len(toT)
                                 /\ toT[j].k = "data" => t.pc = "data"
    BY DEF StepInv, ToTargetInv
  <2>2. \A j \in 1 .. Len(toT') : /\ toT'[j].k # "hs" => j = Len(toT')
                                  /\ toT'[j].k = "data" => t.pc = "data"
    BY <1>e, <1>f, <2>1
  <2>3. t.pc \in FieldPcs => Len(toT) = 1 /\ toT[1].k = t.pc
    BY <1>b DEF StepInv, ToTargetInv
  <2>4. t.pc = "data" =>
          /\ toT[1].n = t.hlen /\ t.hsum = Intact
          /\ t.hidx = t.idx => toT[1].v = t.rcvd /\ t.rcvd + t.hlen <= Size
    BY <1>b DEF StepInv, ToTargetInv
  <2> QED
    BY <1>b, <1>d, <1>e, <2>2, <2>3, <2>4 DEF ToTargetInv
<1>2. StoredInv'
  BY <1>b DEF StepInv, StoredInv, PrefixIntact
<1>3. RoundInv'
  BY <1>b DEF StepInv, RoundInv
<1>4. BetweenInv'
  <2>1. toT \in Seq(HsFields) => toT' \in Seq(HsFields)
    <3> SUFFICES ASSUME toT \in Seq(HsFields) PROVE toT' \in Seq(HsFields)
      OBVIOUS
    <3>1. Tail(toT) \in Seq(HsFields)
      BY <1>b
    <3>2. toT[1].k = "hs"
      BY <1>c, HsSeq
    <3>3. d \in HsFields
      BY <1>d, <3>2 DEF HsFields
    <3>4. <<d>> \in Seq(HsFields)
      BY <3>3
    <3> QED
      BY <1>b, <3>1, <3>4, ConcatProperties
  <2> QED
    BY <1>b, <2>1 DEF StepInv, BetweenInv
<1>5. CommandInv'
  <2> SUFFICES ASSUME h.pc \in CmdSteps, h.wait PROVE CommandInv'
    BY <1>b DEF CommandInv
  <2>1. \A j \in 1 .. Len(toT) :
          toT[j].k # "hs" => toT[j].k = "cmd" /\ toT[j].v = CmdOf[h.pc] /\ toT[j].n = 0
    BY DEF StepInv, CommandInv
  <2>2. \A j \in 1 .. Len(toT') :
          toT'[j].k # "hs" => toT'[j].k = "cmd" /\ toT'[j].v = CmdOf[h.pc] /\ toT'[j].n = 0
    BY <1>f, <2>1
  <2>3. t.pc \in IdlePcs /\ \A j \in 1 .. Len(toH) : ~IsEcho(toH[j])
    BY <1>b DEF StepInv, CommandInv
  <2> QED
    BY <1>b, <2>2, <2>3 DEF CommandInv
<1>6. FieldInv'
  <2> SUFFICES ASSUME h.pc \in FieldPcs PROVE FieldInv'
    BY <1>b DEF FieldInv
  <2>1. /\ h.wait /\ toH = <<>> /\ Awaits(h.pc)
        /\ toT = <<Out(h)>> \/ toT = <<Damage(Out(h))>>
    BY <1>b DEF StepInv, FieldInv
  <2>2. Out(h) \in Fields
    BY OutField DEF Inv
  <2>3. toT = <<Out(h)>>
    <3>1. ~Damage(Out(h)).ok
      BY <2>2, DamagedParts
    <3>2. toT = <<Damage(Out(h))>> => toT[1] = Damage(Out(h))
      OBVIOUS
    <3>3. toT # <<Damage(Out(h))>>
      BY <1>b, <1>c, <3>1, <3>2
    <3> QED
      BY <2>1, <3>3
  <2>4. toT' = <<Damage(Out(h))>>
    <3>1. Len(toT) = 1 /\ toT[1] = Out(h)
      BY <2>3
    <3> QED
      BY <1>c, <1>e, <3>1 DEF d
  <2>5. Awaits(h.pc)'
    BY <1>b, <2>1 DEF Awaits, AtPacket, InPacket, Even, Ahead
  <2> QED
    BY <1>b, <2>1, <2>4, <2>5 DEF FieldInv
<1>7. BaudInv'
  BY <1>b, <1>f DEF StepInv, BaudInv
<1>8. GarbageInv'
  <2> SUFFICES ASSUME faults'["bad"] = 0 PROVE GarbageInv'
    BY DEF GarbageInv
  <2>1. t.pc = "data" /\ \A j \in 1 .. Len(toT') : toT'[j].k = "data"
    <3>1. t.pc = "data" /\ Len(toT') = 1 /\ toT[1].k = "data"
      BY <1>e, <1>g
    <3>2. \A j \in 1 .. Len(toT') : j = 1
      BY <3>1
    <3> QED
      BY <1>d, <1>e, <3>1, <3>2
  <2> QED
    BY <1>b, <2>1 DEF GarbageInv
<1>9. WholeInv'
  <2>1. Whole' = Whole
    BY <1>b DEF Whole
  <2>2. \A j \in 1 .. Len(toT) :
          toT[j].k = "cmd" /\ toT[j].ok /\ toT[j].v = GO =>
            Whole /\ h.pc \in {"go", "done", "panic"}
    BY DEF StepInv, WholeInv
  <2>3. \A j \in 1 .. Len(toT') :
          toT'[j].k = "cmd" /\ toT'[j].ok /\ toT'[j].v = GO =>
            Whole /\ h.pc \in {"go", "done", "panic"}
    BY <1>f, <2>2
  <2>4. h.pc \in {"go", "done"} => Whole /\ t.pc \in IdlePcs
    BY <1>b DEF StepInv, WholeInv
  <2> QED
    BY <1>b, <1>g, <2>1, <2>3, <2>4 DEF WholeInv
<1> QED
  BY <1>1, <1>2, <1>3, <1>4, <1>5, <1>6, <1>7, <1>8, <1>9 DEF StepInv

LEMMA DamageResponseStep ==
    ASSUME Inv, StepInv, DamageResponse
    PROVE  StepInv'
<1>a. toT \in Seq(Fields) /\ toH \in Seq(Fields) /\ faults \in [Faults -> Nat]
  BY DEF Inv, LineInv
<1> DEFINE d == Damage(Head(toH))
<1>b. toH # <<>> /\ toH' = <<d>> \o Tail(toH) /\ UNCHANGED <<h, t, mem, toT>>
  BY DEF DamageResponse, Damage
<1>c. faults'["bad"] # 0
  BY <1>a DEF DamageResponse, Fault, Faults
<1>d. /\ Len(toH) \in Nat /\ Len(toH) >= 1 /\ toH[1] \in Fields /\ Head(toH) = toH[1]
  BY <1>a, <1>b, Taking
<1>e. d \in Fields /\ ~d.ok
  BY <1>d, DamagedParts
<1>f. /\ Len(toH') = Len(toH) /\ toH'[1] = d
      /\ \A j \in 2 .. Len(toH) : toH'[j] = toH[j]
      /\ Len(toH) = 1 => toH' = <<d>>
  BY <1>a, <1>b, <1>d, Damaging
<1> HIDE DEF d
<1>g. ~IsEcho(d) /\ d \in Others
  BY <1>e DEF IsEcho, Others
<1>1. ToTargetInv' /\ StoredInv'
  BY <1>b DEF StepInv, ToTargetInv, StoredInv, PrefixIntact
<1>2. RoundInv'
  BY <1>b DEF StepInv, RoundInv
<1>3. BetweenInv'
  <2>1. toH \in Seq(Others) => toH' \in Seq(Others)
    <3> SUFFICES ASSUME toH \in Seq(Others) PROVE toH' \in Seq(Others)
      OBVIOUS
    <3>1. Tail(toH) \in Seq(Others) /\ <<d>> \in Seq(Others)
      BY <1>b, <1>g
    <3> QED
      BY <1>b, <3>1, ConcatProperties
  <2> QED
    BY <1>b, <2>1 DEF StepInv, BetweenInv
<1>4. CommandInv'
  <2> SUFFICES ASSUME h.pc \in CmdSteps, h.wait PROVE CommandInv'
    BY <1>b DEF CommandInv
  <2>1. \A j \in 1 .. Len(toH) : IsEcho(toH[j]) =>
          /\ toT = <<>> /\ Opened(h.pc)
          /\ h.pc # "ver" => j = Len(toH)
          /\ \A l \in 1 .. Len(toH) : l # j => ~IsEcho(toH[l])
    BY DEF StepInv, CommandInv
  <2>2. \A j \in 1 .. Len(toH') : j \in 1 .. Len(toH) /\ (IsEcho(toH'[j]) => IsEcho(toH[j]))
    <3>1. \A j \in 1 .. Len(toH') : j \in 1 .. Len(toH) /\ (j = 1 \/ j \in 2 .. Len(toH))
      BY <1>d, <1>f
    <3> QED
      BY <1>f, <1>g, <3>1
  <2>3. Opened(h.pc)' <=> Opened(h.pc)
    BY <1>b DEF Opened
  <2>4. ASSUME NEW j \in 1 .. Len(toH'), IsEcho(toH'[j])
        PROVE  /\ toT' = <<>> /\ Opened(h.pc)'
               /\ h.pc # "ver" => j = Len(toH')
               /\ \A l \in 1 .. Len(toH') : l # j => ~IsEcho(toH'[l])
    <3>1. /\ toT = <<>> /\ Opened(h.pc)
          /\ h.pc # "ver" => j = Len(toH)
          /\ \A l \in 1 .. Len(toH) : l # j => ~IsEcho(toH[l])
      BY <2>1, <2>2, <2>4
    <3>2. \A l \in 1 .. Len(toH') : l # j => ~IsEcho(toH'[l])
      BY <2>2, <3>1
    <3> QED
      BY <1>b, <1>f, <2>3, <3>1, <3>2
  <2> QED
    BY <1>b, <2>4 DEF StepInv, CommandInv
<1>5. FieldInv'
  <2> SUFFICES ASSUME h.pc \in FieldPcs PROVE FieldInv'
    BY <1>b DEF FieldInv
  <2>1. h.wait /\ toT = <<>> /\ AnswerInv
    BY <1>b DEF StepInv, FieldInv
  <2>2. Out(h).ok
    BY OutField DEF Inv
  <2>3. d \in Fields \ {Out(h)} /\ <<d>> \in Seq(Fields \ {Out(h)})
    BY <1>e, <2>2
  <2>4. toH \in Seq(Fields \ {Out(h)}) => toH' \in Seq(Fields \ {Out(h)})
    <3>1. toH \in Seq(Fields \ {Out(h)}) => Tail(toH) \in Seq(Fields \ {Out(h)})
      BY <1>b
    <3> QED
      BY <1>b, <2>3, <3>1, ConcatProperties
  <2>5. toH = <<Out(h)>> => toH' = <<d>>
    <3>1. toH = <<Out(h)>> => Len(toH) = 1
      OBVIOUS
    <3> QED
      BY <1>f, <3>1
  <2>6. h.pc # "data" => toH' \in Seq(Fields \ {Out(h)})
    BY <2>1, <2>3, <2>4, <2>5 DEF AnswerInv, FieldPcs
  <2>7. h.pc = "data" => Len(toH') = 1 /\ AtPacket' /\ ~Acknowledged(toH[1])'
    <3>1. h.pc = "data" => Len(toH) = 1 /\ AtPacket
      BY <1>b, <2>1 DEF AnswerInv
    <3>2. AtPacket' <=> AtPacket
      BY <1>b DEF AtPacket, Even, Ahead
    <3>3. ~Acknowledged(toH[1])'
      BY <1>e, <1>f DEF Acknowledged
    <3> QED
      BY <1>f, <3>1, <3>2, <3>3
  <2>8. AnswerInv'
    BY <1>b, <2>6, <2>7 DEF AnswerInv
  <2> QED
    BY <1>b, <2>1, <2>8 DEF FieldInv
<1>6. BaudInv'
  BY <1>b DEF StepInv, BaudInv
<1>7. GarbageInv'
  BY <1>c DEF GarbageInv
<1>8. WholeInv'
  <2>1. Whole' = Whole
    BY <1>b DEF Whole
  <2> QED
    BY <1>b, <1>c, <2>1 DEF StepInv, WholeInv
<1> QED
  BY <1>1, <1>2, <1>3, <1>4, <1>5, <1>6, <1>7, <1>8 DEF StepInv

-----------------------------------------------------------------------------
LEMMA StepInvStep ==
    ASSUME Inv, StepInv, [Next]_vars
    PROVE  StepInv'
<1>1. CASE UNCHANGED vars
  <2>1. UNCHANGED <<h, t, mem, toT, toH, faults>>
    BY <1>1 DEF vars
  <2>2. ToTargetInv' /\ StoredInv' /\ RoundInv' /\ BetweenInv'
    BY <2>1 DEF StepInv, ToTargetInv, StoredInv, PrefixIntact, RoundInv, BetweenInv
  <2>3. CommandInv'
    BY <2>1 DEF StepInv, CommandInv, Opened
  <2>4. Awaits(h.pc)' = Awaits(h.pc) /\ AnswerInv' = AnswerInv
    BY <2>1 DEF AnswerInv, Awaits, AtPacket, InPacket, Even, Ahead, Acknowledged
  <2>5. FieldInv'
    BY <2>1, <2>4 DEF StepInv, FieldInv
  <2>6. BaudInv' /\ GarbageInv' /\ WholeInv'
    BY <2>1 DEF StepInv, BaudInv, GarbageInv, WholeInv, Whole
  <2> QED
    BY <2>2, <2>3, <2>5, <2>6 DEF StepInv
<1>2. CASE HostStep
  BY <1>2, WriteStep, HandshakeStep, SettleStep, EchoStep, VersionStep, ReplyStep DEF HostStep
<1>3. CASE HostTimeout
  BY <1>3, TimeoutStep
<1>4. CASE TargetStep
  BY <1>4, ByteStep, CommandStep, BaudStep, SwitchStep, SizeStep, IdxStep, LenStep,
     CsumStep, DataStep DEF TargetStep
<1>5. CASE LineStep
  BY <1>5, LoseRequestStep, LoseResponseStep, DamageRequestStep, DamageResponseStep
     DEF LineStep
<1> QED
  BY <1>1, <1>2, <1>3, <1>4, <1>5 DEF Next

\* Host, target and what is on the line fit each other after every step of the
\* two programs and every loss, damage or delay.
THEOREM StepInvariance == Spec => []StepInv
<1>1. Init => StepInv
  BY InitStep
<1>2. Inv /\ StepInv /\ [Next]_vars => StepInv'
  BY StepInvStep
<1> QED
  BY <1>1, <1>2, Invariance, PTL DEF Spec

\* What a target inside a command finds on the line is the field it reads, for
\* every image and every number of faults: the echoes keep host and target in
\* step.
THEOREM StaysInStep == Spec => []InStep
<1>1. Inv /\ StepInv => InStep
  <2> SUFFICES ASSUME Inv, StepInv, t.pc \in FieldPcs, NEW j \in 1 .. Len(toT)
               PROVE  toT[j].k = t.pc
    BY DEF InStep
  <2>1. toT \in Seq(Fields)
    BY DEF Inv, LineInv
  <2>2. toT # <<>>
    BY <2>1
  <2>3. Len(toT) = 1 /\ toT[1].k = t.pc
    BY <2>2 DEF StepInv, ToTargetInv
  <2> QED
    BY <2>3
<1> QED
  BY <1>1, Invariance, StepInvariance, PTL

\* What receive_data() counts as received is the image's beginning.
THEOREM ReceivedIsIntact == Spec => []PrefixIntact
<1>1. StepInv => PrefixIntact
  BY DEF StepInv, StoredInv
<1> QED
  BY <1>1, StepInvariance, PTL

\* After the last packet was acknowledged the target has the whole FIP.
THEOREM SentIsReceived == Spec => []FipSent
<1>1. StepInv => FipSent
  BY DEF StepInv, WholeInv, Whole, FipSent
<1> QED
  BY <1>1, StepInvariance, PTL

\* Without a damaged byte outside the packets' data, the target starts nothing
\* but the whole FIP.
THEOREM StartsOnlyWhole == Spec => []StartsWholeImage
<1>1. StepInv => StartsWholeImage
  BY DEF StepInv, WholeInv, Whole, StartsWholeImage
<1> QED
  BY <1>1, StepInvariance, PTL

=============================================================================
