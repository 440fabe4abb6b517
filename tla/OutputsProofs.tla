--------------------------- MODULE OutputsProofs ----------------------------
(***************************************************************************)
(* Proofs about Outputs: a FIFO is open or tried again, the numbers of RTP *)
(* datagrams count packets over the wrap, the generated PATs have          *)
(* consecutive counters, and buffers hold what was accepted and not sent,  *)
(* for every size of packets, datagrams and buffers and every range of the *)
(* numbers.                                                                *)
(***************************************************************************)
EXTENDS Outputs, TLAPS

(* The types of what the properties are about. *)
TypeOK ==
    /\ type \in {"udp", "rtp", "pipe"}
    /\ up \in BOOLEAN
    /\ receiver \in {0, 1}
    /\ rtpseq \in 0 .. SeqMod - 1
    /\ n \in Nat
    /\ buffer \in Seq(Int)

(* A FIFO is open or tried again; any other output, and one that could not *)
(* be initialised, has the receiver it was given.                          *)
PipeInv ==
    /\ PipeOpenOrRetried
    /\ ~(type = "pipe" /\ up) =>
         /\ ~armed
         /\ type = "pipe" => receiver = 0

(* The buffer of an RTP output has the packets since the last datagram,    *)
(* and rtpseq counts the datagrams.                                        *)
RtpInv ==
    type = "rtp" /\ receiver # 0 =>
        \E k \in 0 .. MaxTs - 1 :
            Len(buffer) = k * PacketLen /\ n = rtpseq * MaxTs + k

IInv == TypeOK /\ PipeInv /\ RtpInv

-----------------------------------------------------------------------------
(* Arithmetic: a number below the modulus is its own remainder, and a      *)
(* factor smaller by one makes a product smaller by the other one.         *)
LEMMA ModBelow ==
    ASSUME NEW m \in Nat \ {0}, NEW a \in 0 .. m - 1
    PROVE  a % m = a
OBVIOUS

LEMMA ModWhole ==
    ASSUME NEW m \in Nat \ {0}
    PROVE  m % m = 0
OBVIOUS

LEMMA Below ==
    ASSUME NEW a \in Nat, NEW b \in Nat, NEW c \in Nat, a < b
    PROVE  a * c + c <= b * c
OBVIOUS

(* Remainders: a number is a multiple of the modulus and its remainder,    *)
(* in one way only, so multiples do not matter, and a remainder may be     *)
(* taken early.                                                            *)
LEMMA ModSplit ==
    ASSUME NEW m \in Nat \ {0}, NEW a \in Int
    PROVE  /\ a % m \in 0 .. m - 1
           /\ a \div m \in Int
           /\ a = (a \div m) * m + (a % m)
OBVIOUS

LEMMA MultipleBelow ==
    ASSUME NEW m \in Nat \ {0}, NEW q \in Int, NEW p \in Int, q < p
    PROVE  q * m + m <= p * m
OBVIOUS

LEMMA ModUnique ==
    ASSUME NEW m \in Nat \ {0}, NEW q \in Int, NEW r \in 0 .. m - 1
    PROVE  (q * m + r) % m = r
<1>1. q * m \in Int /\ q * m + r \in Int
    OBVIOUS
<1>2. PICK p \in Int, s \in 0 .. m - 1 : q * m + r = p * m + s /\ (q * m + r) % m = s
    BY <1>1, ModSplit
<1>3. p * m \in Int
    OBVIOUS
<1>4. ~(q < p)
    <2> SUFFICES ASSUME q < p PROVE FALSE
        OBVIOUS
    <2>1. q * m + m <= p * m
        BY MultipleBelow
    <2> QED
        BY <1>1, <1>2, <1>3, <2>1
<1>5. ~(p < q)
    <2> SUFFICES ASSUME p < q PROVE FALSE
        OBVIOUS
    <2>1. p * m + m <= q * m
        BY MultipleBelow
    <2> QED
        BY <1>1, <1>2, <1>3, <2>1
<1>6. p = q
    BY <1>4, <1>5
<1> QED
    BY <1>1, <1>2, <1>6

LEMMA ModShift ==
    ASSUME NEW m \in Nat \ {0}, NEW a \in Int, NEW k \in Int
    PROVE  (a + k * m) % m = a % m
<1>1. PICK p \in Int, r \in 0 .. m - 1 : a = p * m + r /\ a % m = r
    BY ModSplit
<1>2. p + k \in Int /\ (p + k) * m = p * m + k * m /\ p * m \in Int /\ k * m \in Int
    OBVIOUS
<1>3. ((p + k) * m + r) % m = r
    BY <1>2, ModUnique
<1>4. a + k * m = (p + k) * m + r
    BY <1>1, <1>2
<1> QED
    BY <1>1, <1>3, <1>4

LEMMA ModAdd ==
    ASSUME NEW m \in Nat \ {0}, NEW a \in Int, NEW b \in Int
    PROVE  ((a % m) + b) % m = (a + b) % m
<1>1. PICK p \in Int, r \in 0 .. m - 1 : a = p * m + r /\ a % m = r
    BY ModSplit
<1>2. r + b \in Int /\ p * m \in Int /\ (r + b) + p * m = a + b
    BY <1>1
<1>3. ((r + b) + p * m) % m = (r + b) % m
    BY <1>2, ModShift
<1> QED
    BY <1>1, <1>2, <1>3

LEMMA ModSub ==
    ASSUME NEW m \in Nat \ {0}, NEW a \in Int, NEW b \in Int
    PROVE  (b - (a % m)) % m = (b - a) % m
<1>1. PICK p \in Int, r \in 0 .. m - 1 : a = p * m + r /\ a % m = r
    BY ModSplit
<1>2. b - a \in Int /\ p * m \in Int /\ (b - a) + p * m = b - r
    BY <1>1
<1>3. ((b - a) + p * m) % m = (b - a) % m
    BY <1>2, ModShift
<1> QED
    BY <1>1, <1>2, <1>3

(* PacketMod is a positive number. *)
LEMMA PacketModType ==
    PacketMod \in Nat \ {0} /\ PacketMod = SeqMod * MaxTs
<1>1. SeqMod \in Nat /\ MaxTs \in Nat /\ SeqMod > 0 /\ MaxTs > 0
    BY OutputsAssumption
<1>2. 0 * MaxTs + MaxTs <= SeqMod * MaxTs
    BY <1>1, Below
<1> QED
    BY <1>1, <1>2 DEF PacketMod

(* The units of a packet. *)
LEMMA UnitsType ==
    ASSUME n \in Nat
    PROVE  Units \in Seq(Int) /\ Len(Units) = PacketLen
BY OutputsAssumption DEF Units

LEMMA ConcatType ==
    ASSUME NEW s \in Seq(Int), NEW t \in Seq(Int)
    PROVE  s \o t \in Seq(Int) /\ Len(s \o t) = Len(s) + Len(t)
OBVIOUS

-----------------------------------------------------------------------------
(* A packet for an output without receiver, or for UDP or RTP. *)
LEMMA DatagramSends ==
    ASSUME IInv, n' = (n + 1) % PacketMod, UNCHANGED <<config, reader>>,
           Ignored \/ Collected \/ Datagram
    PROVE  IInv'
<1> USE OutputsAssumption DEF IInv
<1>1. /\ PacketLen \in Nat \ {0} /\ MaxTs \in Nat \ {0} /\ SeqMod \in Nat \ {0}
      /\ n \in Nat /\ rtpseq \in 0 .. SeqMod - 1 /\ buffer \in Seq(Int)
      /\ UNCHANGED <<type, up, receiver, fd, armed>>
    BY DEF TypeOK, config, pipe, Ignored, Collected, Datagram
<1>2. n' \in Nat
    BY <1>1, PacketModType
<1>3. PipeInv'
    BY <1>1 DEF PipeInv, PipeOpenOrRetried
<1>4. CASE Ignored
    <2>1. UNCHANGED <<buffer, rtpseq>> /\ receiver = 0
        BY <1>4 DEF Ignored
    <2> QED
        BY <1>1, <1>2, <1>3, <2>1 DEF TypeOK, RtpInv
<1>5. CASE Collected
    <2>1. /\ Len(buffer) + PacketLen < MaxTs * PacketLen
          /\ buffer' = buffer \o Units /\ rtpseq' = rtpseq
        BY <1>5 DEF Collected
    <2>2. buffer' \in Seq(Int) /\ Len(buffer') = Len(buffer) + PacketLen
        BY <1>1, <2>1, UnitsType, ConcatType
    <2>3. TypeOK'
        BY <1>1, <1>2, <2>1, <2>2 DEF TypeOK
    <2>4. ASSUME type = "rtp", receiver # 0
          PROVE  \E k \in 0 .. MaxTs - 1 :
                     Len(buffer') = k * PacketLen /\ n' = rtpseq * MaxTs + k
        <3>1. PICK k \in 0 .. MaxTs - 1 :
                  Len(buffer) = k * PacketLen /\ n = rtpseq * MaxTs + k
            BY <2>4 DEF RtpInv
        <3>2. (k + 1) * PacketLen = k * PacketLen + PacketLen
            BY <1>1
        <3>3. k + 1 < MaxTs
            <4>1. k + 1 >= MaxTs => k + 1 = MaxTs
                BY <1>1
            <4> QED
                BY <1>1, <2>1, <3>1, <3>2, <4>1
        <3>4. n + 1 \in 0 .. PacketMod - 1
            <4>1. rtpseq * MaxTs + MaxTs <= SeqMod * MaxTs
                BY <1>1, Below
            <4>2. rtpseq * MaxTs \in Nat /\ SeqMod * MaxTs \in Nat
                BY <1>1
            <4> QED
                BY <1>1, <3>1, <3>3, <4>1, <4>2, PacketModType
        <3>5. n' = n + 1
            BY <3>4, PacketModType, ModBelow
        <3>6. k + 1 \in 0 .. MaxTs - 1
            BY <1>1, <3>3
        <3>7. Len(buffer') = (k + 1) * PacketLen
            BY <2>2, <3>1, <3>2
        <3>8. n' = rtpseq * MaxTs + (k + 1)
            BY <1>1, <3>1, <3>5
        <3> QED
            BY <3>6, <3>7, <3>8
    <2> QED
        BY <1>1, <1>3, <2>1, <2>3, <2>4 DEF RtpInv
<1>6. CASE Datagram
    <2>1. /\ Len(buffer) + PacketLen >= MaxTs * PacketLen
          /\ buffer' = <<>> /\ type # "pipe"
          /\ rtpseq' = IF type = "rtp" THEN (rtpseq + 1) % SeqMod ELSE rtpseq
        BY <1>6 DEF Datagram, NextSeq
    <2>2. (rtpseq + 1) % SeqMod \in 0 .. SeqMod - 1
        BY <1>1
    <2>3. TypeOK'
        BY <1>1, <1>2, <2>1, <2>2 DEF TypeOK
    <2>4. ASSUME type = "rtp", receiver # 0
          PROVE  n' = rtpseq' * MaxTs
        <3>1. PICK k \in 0 .. MaxTs - 1 :
                  Len(buffer) = k * PacketLen /\ n = rtpseq * MaxTs + k
            BY <2>4 DEF RtpInv
        <3>2. k + 1 = MaxTs
            <4>1. (k + 1) * PacketLen = k * PacketLen + PacketLen
                BY <1>1
            <4>2. k + 1 < MaxTs => (k + 1) * PacketLen + PacketLen <= MaxTs * PacketLen
                BY <1>1, Below
            <4>3. k * PacketLen \in Nat /\ MaxTs * PacketLen \in Nat
                BY <1>1
            <4> QED
                BY <1>1, <2>1, <3>1, <4>1, <4>2, <4>3
        <3>3. n + 1 = (rtpseq + 1) * MaxTs
            BY <1>1, <3>1, <3>2
        <3>4. CASE rtpseq + 1 = SeqMod
            <4>1. n' = 0
                BY <3>3, <3>4, PacketModType, ModWhole
            <4>2. rtpseq' = 0
                BY <1>1, <2>1, <2>4, <3>4, ModWhole
            <4> QED
                BY <1>1, <4>1, <4>2
        <3>5. CASE rtpseq + 1 # SeqMod
            <4>0. rtpseq + 1 \in 0 .. SeqMod - 1
                BY <1>1, <3>5
            <4>1. rtpseq' = rtpseq + 1
                BY <1>1, <2>1, <2>4, <4>0, ModBelow
            <4>2. (rtpseq + 1) * MaxTs + MaxTs <= SeqMod * MaxTs
                BY <1>1, <3>5, Below
            <4>3. (rtpseq + 1) * MaxTs \in Nat
                BY <1>1
            <4>4. n + 1 \in 0 .. PacketMod - 1
                BY <1>1, <3>3, <4>2, <4>3, PacketModType
            <4>5. n' = n + 1
                BY <4>4, PacketModType, ModBelow
            <4> QED
                BY <3>3, <4>1, <4>5
        <3> QED
            BY <3>4, <3>5
    <2>5. ASSUME type = "rtp", receiver # 0
          PROVE  \E k \in 0 .. MaxTs - 1 :
                     Len(buffer') = k * PacketLen /\ n' = rtpseq' * MaxTs + k
        <3>1. Len(buffer') = 0 * PacketLen /\ n' = rtpseq' * MaxTs + 0
            BY <1>1, <2>1, <2>3, <2>4, <2>5 DEF TypeOK
        <3> QED
            BY <1>1, <3>1
    <2> QED
        BY <1>1, <1>3, <2>3, <2>5 DEF RtpInv
<1> QED
    BY <1>4, <1>5, <1>6

(* A packet for a FIFO. *)
LEMMA PipeSends ==
    ASSUME IInv, n' = (n + 1) % PacketMod, UNCHANGED <<config, reader>>,
           PipeFull \/ PipeWrite \/ PipeAgain \/ PipeReaderGone
    PROVE  IInv'
<1> USE OutputsAssumption DEF IInv
<1>1. /\ n \in Nat /\ buffer \in Seq(Int) /\ type = "pipe" /\ receiver = 1
      /\ UNCHANGED <<type, up, rtpseq>>
    BY DEF TypeOK, config, pipe, PipeFull, PipeWrite, PipeAgain, PipeReaderGone,
           PipeClose, PipeRoom
<1>2. n' \in Nat
    BY <1>1, PacketModType
<1>3. Filled \in Seq(Int)
    BY <1>1, UnitsType DEF Filled
<1>4. buffer' \in Seq(Int)
    <2>1. CASE PipeFull
        BY <1>1, <2>1 DEF PipeFull
    <2>2. CASE PipeWrite
        <3>1. PICK len \in 1 .. Len(Filled) : buffer' = Dropped(Filled, len)
            BY <2>2 DEF PipeWrite
        <3> QED
            BY <1>3, <3>1 DEF Dropped
    <2>3. CASE PipeAgain \/ PipeReaderGone
        BY <1>3, <2>3 DEF PipeAgain, PipeReaderGone
    <2> QED
        BY <2>1, <2>2, <2>3
<1>5. \/ receiver' = 0 /\ fd' = FALSE /\ armed' = TRUE
      \/ UNCHANGED <<receiver, fd, armed>>
    BY <1>1 DEF PipeFull, PipeWrite, PipeAgain, PipeReaderGone, PipeClose, Retry, pipe
<1>6. up
    BY <1>1 DEF PipeInv
<1>7. PipeInv'
    <2>1. CASE receiver' = 0 /\ fd' = FALSE /\ armed' = TRUE
        BY <1>1, <1>6, <2>1 DEF PipeInv, PipeOpenOrRetried
    <2>2. CASE UNCHANGED <<receiver, fd, armed>>
        BY <1>1, <2>2 DEF PipeInv, PipeOpenOrRetried
    <2> QED
        BY <1>5, <2>1, <2>2
<1>8. TypeOK' /\ RtpInv'
    BY <1>1, <1>2, <1>4, <1>5 DEF TypeOK, RtpInv
<1> QED
    BY <1>7, <1>8

(* The other steps: the FIFO is opened, or not, and has a reader, or not. *)
LEMMA OthersKeep ==
    ASSUME IInv, StreamSendPat \/ PipeOpen \/ PipeOpenFails \/ Reader \/ UNCHANGED vars
    PROVE  IInv'
<1> USE DEF IInv
<1>1. CASE StreamSendPat \/ Reader \/ UNCHANGED vars
    <2>1. UNCHANGED <<type, up, receiver, buffer, rtpseq, fd, armed, n>>
        BY <1>1 DEF StreamSendPat, Reader, vars, config, pipe
    <2> QED
        BY <2>1 DEF TypeOK, PipeInv, PipeOpenOrRetried, RtpInv
<1>2. CASE PipeOpen
    <2>1. /\ armed /\ fd' = TRUE /\ armed' = FALSE /\ receiver' = receiver + 1
          /\ buffer' = <<>>
          /\ UNCHANGED <<type, up, rtpseq, n>>
        BY <1>2 DEF PipeOpen, Zapped, config
    <2>2. type = "pipe" /\ up /\ receiver = 0
        BY <2>1 DEF PipeInv, PipeOpenOrRetried
    <2> QED
        BY <2>1, <2>2 DEF TypeOK, PipeInv, PipeOpenOrRetried, RtpInv
<1>3. CASE PipeOpenFails
    <2>1. /\ armed /\ armed' = TRUE
          /\ UNCHANGED <<type, up, rtpseq, n, receiver, buffer, fd>>
        BY <1>3 DEF PipeOpenFails, Retry, config
    <2> QED
        BY <2>1 DEF TypeOK, PipeInv, PipeOpenOrRetried, RtpInv
<1> QED
    BY <1>1, <1>2, <1>3

(* The invariant is inductive. *)
THEOREM Invariance == Spec => []IInv
<1>1. Init => IInv
    <2> SUFFICES ASSUME Init PROVE IInv
        OBVIOUS
    <2>1. TypeOK
        BY OutputsAssumption DEF Init, InitDatagram, TypeOK
    <2>2. PipeInv
        BY DEF Init, InitDatagram, InitPipe, PipeInv, PipeOpenOrRetried
    <2>3. Len(buffer) = 0 * PacketLen /\ n = rtpseq * MaxTs + 0 /\ 0 \in 0 .. MaxTs - 1
        BY OutputsAssumption DEF Init
    <2> QED
        BY <2>1, <2>2, <2>3 DEF IInv, RtpInv
<1>2. IInv /\ [Next]_vars => IInv'
    <2> SUFFICES ASSUME IInv, [Next]_vars PROVE IInv'
        OBVIOUS
    <2>1. Send => IInv'
        BY DatagramSends, PipeSends DEF Send
    <2> QED
        BY <2>1, OthersKeep DEF Next, StreamSend, PatPacket
<1> QED
    BY <1>1, <1>2, PTL DEF Spec

-----------------------------------------------------------------------------
(* A FIFO is open, with one receiver, or its timer is armed (output_pipe.c). *)
THEOREM PipeRetried == Spec => []PipeOpenOrRetried
<1>1. IInv => PipeOpenOrRetried
    BY DEF IInv, PipeInv
<1> QED
    BY <1>1, Invariance, PTL

(* The RTP sequence number counts packets, over its wrap and for datagrams *)
(* the socket refuses (output_rtp.c).                                      *)
THEOREM SequenceCounts == Spec => []SeqCountsPackets
<1>1. IInv => SeqCountsPackets
    <2> SUFFICES ASSUME IInv, type = "rtp", receiver # 0
                 PROVE  rtpseq * MaxTs * PacketLen + Len(buffer) = n * PacketLen
        BY DEF SeqCountsPackets
    <2>1. PICK k \in 0 .. MaxTs - 1 :
              Len(buffer) = k * PacketLen /\ n = rtpseq * MaxTs + k
        BY DEF IInv, RtpInv
    <2>2. PacketLen \in Nat /\ MaxTs \in Nat /\ rtpseq \in Nat /\ k \in Nat
        BY OutputsAssumption DEF IInv, TypeOK
    <2>3. (rtpseq * MaxTs + k) * PacketLen = rtpseq * MaxTs * PacketLen + k * PacketLen
        BY <2>2
    <2> QED
        BY <2>1, <2>3
<1> QED
    BY <1>1, Invariance, PTL

-----------------------------------------------------------------------------
(* The PAT: the counter of the packet that comes next follows that of the  *)
(* last one, within a PAT and from one PAT to the next.                    *)
PatInv ==
    /\ pkts \in Nat \ {0}
    /\ patcc \in 0 .. CCMod - 1
    /\ lastcc \in 0 .. CCMod - 1
    /\ patleft \in 0 .. pkts
    /\ PatContinues

LEMMA PatPacketKeeps ==
    ASSUME PatInv, PatPacket, pkts' = pkts
    PROVE  PatInv'
<1> DEFINE x == patcc + pkts - patleft
<1>1. /\ CCMod \in Nat \ {0} /\ pkts \in Nat \ {0} /\ patcc \in 0 .. CCMod - 1
      /\ patleft \in 1 .. pkts /\ patleft' = patleft - 1
      /\ lastcc' = x % CCMod
      /\ patcc' = IF patleft = 1 THEN (patcc + pkts) % CCMod ELSE patcc
    BY OutputsAssumption DEF PatInv, PatPacket, PacketCC, PatCC
<1>2. x \in Int /\ x + 1 \in Int
    BY <1>1
<1>3. NextCC(lastcc') = (x + 1) % CCMod
    <2>1. ((x % CCMod) + 1) % CCMod = (x + 1) % CCMod
        <3>1. CCMod \in Nat \ {0} /\ x \in Int /\ 1 \in Int
            BY <1>1, <1>2
        <3> HIDE DEF x
        <3> QED
            BY <3>1, ModAdd, Zenon
    <2> QED
        BY <1>1, <2>1 DEF NextCC
<1>4. PacketCC' = (x + 1) % CCMod
    <2>1. CASE patleft = 1
        <3>1. x + 1 = patcc + pkts
            BY <1>1, <2>1
        <3> QED
            BY <1>1, <2>1, <3>1 DEF PacketCC
    <2>2. CASE patleft # 1
        <3>1. patcc + pkts - (patleft - 1) = x + 1
            BY <1>1
        <3> QED
            BY <1>1, <2>2, <3>1 DEF PacketCC
    <2> QED
        BY <2>1, <2>2
<1>5. x % CCMod \in 0 .. CCMod - 1 /\ (patcc + pkts) % CCMod \in 0 .. CCMod - 1
    <2>1. patcc + pkts \in Int
        BY <1>1
    <2> QED
        BY <1>1, <1>2, <2>1, ModSplit
<1>6. PatContinues'
    BY <1>3, <1>4 DEF PatContinues, NextCC
<1> QED
    BY <1>1, <1>5, <1>6 DEF PatInv

LEMMA PatStarts ==
    ASSUME PatInv, StreamSendPat
    PROVE  PatInv'
<1>1. /\ CCMod \in Nat \ {0} /\ pkts \in Nat \ {0} /\ patcc \in 0 .. CCMod - 1
      /\ patleft = 0 /\ patleft' = pkts
      /\ UNCHANGED <<pkts, patcc, lastcc>>
    BY OutputsAssumption DEF PatInv, StreamSendPat, config
<1>2. patcc + pkts - pkts = patcc /\ patcc % CCMod = patcc
    BY <1>1, ModBelow
<1>3. PacketCC' = PacketCC
    BY <1>1, <1>2 DEF PacketCC
<1> QED
    BY <1>1, <1>3 DEF PatInv, PatContinues, NextCC

(* The packets of the generated PATs have consecutive counters (stream.c,  *)
(* pat.c), for any number of packets of a PAT and any width of the counter.*)
THEOREM PatCounters == Spec => []PatContinues
<1>1. Init => PatInv
    <2> SUFFICES ASSUME Init PROVE PatInv
        OBVIOUS
    <2>1. /\ CCMod \in Nat \ {0} /\ pkts \in Nat \ {0}
          /\ patleft = 0 /\ patcc = 0 /\ lastcc = CCMod - 1
        BY OutputsAssumption DEF Init
    <2>2. (CCMod - 1) + 1 = CCMod /\ CCMod % CCMod = 0
        BY <2>1, ModWhole
    <2> QED
        BY <2>1, <2>2 DEF PatInv, PatContinues, PacketCC, NextCC
<1>2. PatInv /\ [Next]_vars => PatInv'
    <2> SUFFICES ASSUME PatInv, [Next]_vars PROVE PatInv'
        OBVIOUS
    <2>1. CASE PatPacket
        BY <2>1, PatPacketKeeps DEF PatPacket, Send, config
    <2>2. CASE StreamSendPat
        BY <2>2, PatStarts
    <2>3. CASE StreamSend \/ PipeOpen \/ PipeOpenFails \/ Reader \/ UNCHANGED vars
        <3>1. UNCHANGED <<pkts, patleft, patcc, lastcc>>
            BY <2>3 DEF StreamSend, Send, PipeOpen, PipeOpenFails, Reader, vars, config, pat
        <3> QED
            BY <3>1 DEF PatInv, PatContinues, PacketCC, NextCC
    <2> QED
        BY <2>1, <2>2, <2>3 DEF Next
<1>3. PatInv => PatContinues
    BY DEF PatInv
<1> QED
    BY <1>1, <1>2, <1>3, PTL DEF Spec

-----------------------------------------------------------------------------
(* The buffer: its units are those before place e of the stream.           *)
Follows(b, e) == \A i \in 1 .. Len(b) : b[i] = (e - Len(b) + i - 1) % Period

(* There is less in the buffer than would come around (so that its length  *)
(* is known from its first unit), it ends with the last packet, and begins *)
(* behind the unit that left it last or, before the first, with a packet.  *)
BufInv ==
    receiver # 0 =>
        /\ Len(buffer) < Period
        /\ type = "pipe" => Len(buffer) <= PipeBuffer
        /\ Follows(buffer, n * PacketLen)
        /\ IF wrote = None THEN \E k \in Nat : Len(buffer) = k * PacketLen
           ELSE wrote \in Int /\ (wrote + 1) % Period = (n * PacketLen - Len(buffer)) % Period

NRange == n \in 0 .. PacketMod - 1

LEMMA PeriodType ==
    /\ Period \in Nat \ {0} /\ Period = PacketMod * PacketLen
    /\ MaxTs * PacketLen <= Period
    /\ PacketLen \in Nat \ {0}
<1>1. SeqMod \in Nat \ {0} /\ MaxTs \in Nat \ {0} /\ PacketLen \in Nat \ {0}
    BY OutputsAssumption
<1>2. PacketMod \in Nat \ {0} /\ MaxTs <= PacketMod
    BY <1>1, PacketModType, Below
<1>3. 0 * PacketLen + PacketLen <= PacketMod * PacketLen
    BY <1>1, <1>2, Below
<1>4. MaxTs * PacketLen <= PacketMod * PacketLen
    <2>1. MaxTs = PacketMod \/ MaxTs * PacketLen + PacketLen <= PacketMod * PacketLen
        BY <1>1, <1>2, Below
    <2> QED
        BY <1>1, <1>2, <2>1
<1> QED
    BY <1>1, <1>2, <1>3, <1>4 DEF Period

(* The next packet ends PacketLen units later, or the stream comes around. *)
LEMMA NextPlace ==
    ASSUME NRange, n' = (n + 1) % PacketMod, NEW c \in Int
    PROVE  /\ NRange'
           /\ (n' * PacketLen - c) % Period = (n * PacketLen + PacketLen - c) % Period
<1>1. /\ PacketMod \in Nat \ {0} /\ PacketLen \in Nat \ {0}
      /\ Period \in Nat \ {0} /\ Period = PacketMod * PacketLen
      /\ n \in 0 .. PacketMod - 1
    BY PacketModType, PeriodType DEF NRange
<1>2. (n + 1) * PacketLen = n * PacketLen + PacketLen /\ n * PacketLen \in Int
    BY <1>1
<1>3. CASE n + 1 = PacketMod
    <2>1. n' = 0
        BY <1>1, <1>3, ModWhole
    <2>2. n * PacketLen + PacketLen = Period
        BY <1>1, <1>2, <1>3
    <2>3. n' * PacketLen = 0
        BY <1>1, <2>1
    <2>4. (n' * PacketLen - c) + 1 * Period = n * PacketLen + PacketLen - c
        BY <1>1, <2>2, <2>3
    <2>5. n' * PacketLen - c \in Int /\ 1 \in Int
        BY <2>3
    <2>6. ((n' * PacketLen - c) + 1 * Period) % Period = (n' * PacketLen - c) % Period
        BY <1>1, <2>5, ModShift, Zenon
    <2>7. n' \in 0 .. PacketMod - 1
        BY <1>1, <2>1
    <2> QED
        BY <2>4, <2>6, <2>7 DEF NRange
<1>4. CASE n + 1 # PacketMod
    <2>1. n + 1 \in 0 .. PacketMod - 1
        BY <1>1, <1>4
    <2>2. n' = n + 1
        BY <1>1, <2>1, ModBelow
    <2>3. n' * PacketLen = n * PacketLen + PacketLen
        BY <1>2, <2>2
    <2>4. NRange'
        BY <2>1, <2>2 DEF NRange
    <2>5. n' * PacketLen - c = n * PacketLen + PacketLen - c
        <3>1. n' * PacketLen \in Int
            BY <1>1, <1>2, <2>3
        <3> QED
            BY <1>1, <1>2, <2>3, <3>1
    <2> QED
        BY <2>4, <2>5, Zenon
<1> QED
    BY <1>3, <1>4

(* A packet behind what ends with the last one. *)
LEMMA FollowsOn ==
    ASSUME NRange, n' = (n + 1) % PacketMod, NEW b \in Seq(Int), Follows(b, n * PacketLen)
    PROVE  /\ b \o Units \in Seq(Int) /\ Len(b \o Units) = Len(b) + PacketLen
           /\ Follows(b \o Units, n' * PacketLen)
           /\ (n' * PacketLen - Len(b \o Units)) % Period = (n * PacketLen - Len(b)) % Period
<1> DEFINE e == n * PacketLen
<1>1. /\ PacketMod \in Nat \ {0} /\ PacketLen \in Nat \ {0}
      /\ Period \in Nat \ {0} /\ Period = PacketMod * PacketLen
      /\ n \in 0 .. PacketMod - 1 /\ n \in Nat
    BY PacketModType, PeriodType DEF NRange
<1>2. /\ Units \in Seq(Int) /\ Len(Units) = PacketLen
      /\ \A j \in 1 .. PacketLen : Units[j] = e + j - 1
    BY <1>1, UnitsType DEF Units
<1>3. e \in Nat /\ e + PacketLen <= Period
    BY <1>1, Below
<1>4. /\ b \o Units \in Seq(Int) /\ Len(b \o Units) = Len(b) + PacketLen /\ Len(b) \in Nat
      /\ \A i \in 1 .. Len(b) : (b \o Units)[i] = b[i]
      /\ \A i \in Len(b) + 1 .. Len(b) + PacketLen : (b \o Units)[i] = Units[i - Len(b)]
    <2> DEFINE u == Units
    <2>1. u \in Seq(Int) /\ Len(u) = PacketLen
        BY <1>2
    <2> HIDE DEF u
    <2>2. b \o u \in Seq(Int) /\ Len(b \o u) = Len(b) + PacketLen /\ Len(b) \in Nat
        BY <1>1, <2>1, SMTT(30)
    <2>3. \A i \in 1 .. Len(b) : (b \o u)[i] = b[i]
        BY <1>1, <2>1, <2>2
    <2>4. \A i \in Len(b) + 1 .. Len(b) + PacketLen : (b \o u)[i] = u[i - Len(b)]
        BY <1>1, <2>1, <2>2
    <2> QED
        BY <2>2, <2>3, <2>4 DEF u
<1> HIDE DEF e
<1>5. \A c \in Int : (n' * PacketLen - c) % Period = (e + PacketLen - c) % Period
    BY NextPlace DEF e
<1>6. ASSUME NEW i \in 1 .. Len(b) + PacketLen
      PROVE  (b \o Units)[i] = (n' * PacketLen - (Len(b) + PacketLen) + i - 1) % Period
    <2> DEFINE c == Len(b) + PacketLen - i + 1
    <2>0. NRange' /\ n' * PacketLen \in Int
        <3>1. NRange'
            BY NextPlace, 0 \in Int
        <3> QED
            BY <1>1, <3>1, PacketModType DEF NRange
    <2>1. /\ c \in Int
          /\ n' * PacketLen - (Len(b) + PacketLen) + i - 1 = n' * PacketLen - c
          /\ e + PacketLen - c = e - Len(b) + i - 1
        BY <1>1, <1>3, <1>4, <2>0
    <2>2. (n' * PacketLen - (Len(b) + PacketLen) + i - 1) % Period = (e - Len(b) + i - 1) % Period
        BY <1>5, <2>1
    <2>3. CASE i \in 1 .. Len(b)
        BY <1>4, <2>2, <2>3 DEF Follows, e
    <2>4. CASE i \in Len(b) + 1 .. Len(b) + PacketLen
        <3>1. i - Len(b) \in 1 .. PacketLen /\ (b \o Units)[i] = e + (i - Len(b)) - 1
            BY <1>2, <1>4, <2>4
        <3>2. e - Len(b) + i - 1 \in 0 .. Period - 1 /\ e - Len(b) + i - 1 = e + (i - Len(b)) - 1
            BY <1>1, <1>3, <1>4, <3>1
        <3> QED
            BY <1>1, <2>2, <3>1, <3>2, ModBelow
    <2> QED
        BY <1>1, <1>4, <2>3, <2>4, SMTT(30)
<1>7. (n' * PacketLen - (Len(b) + PacketLen)) % Period = (e - Len(b)) % Period
    <2>1. Len(b) + PacketLen \in Int /\ e + PacketLen - (Len(b) + PacketLen) = e - Len(b)
        BY <1>1, <1>3, <1>4
    <2> QED
        BY <1>5, <2>1
<1> QED
    BY <1>4, <1>6, <1>7 DEF Follows, e

(* What is left of a buffer from which the first units have gone. *)
LEMMA FollowsRest ==
    ASSUME NEW b \in Seq(Int), NEW e \in Int, Follows(b, e), NEW len \in 1 .. Len(b)
    PROVE  /\ Dropped(b, len) \in Seq(Int) /\ Len(Dropped(b, len)) = Len(b) - len
           /\ Follows(Dropped(b, len), e)
           /\ b[len] \in Int
           /\ (b[len] + 1) % Period = (e - Len(Dropped(b, len))) % Period
<1> DEFINE r == SubSeq(b, len + 1, Len(b))
<1>1. /\ r \in Seq(Int) /\ Len(r) = Len(b) - len /\ Len(b) \in Nat
      /\ \A i \in 1 .. Len(r) : r[i] = b[len + i]
    OBVIOUS
<1> HIDE DEF r
<1>2. ASSUME NEW i \in 1 .. Len(r)
      PROVE  r[i] = (e - Len(r) + i - 1) % Period
    <2>1. len + i \in 1 .. Len(b) /\ e - Len(b) + (len + i) - 1 = e - Len(r) + i - 1
        BY <1>1
    <2> QED
        BY <1>1, <2>1 DEF Follows
<1>3. (b[len] + 1) % Period = (e - Len(r)) % Period
    <2> DEFINE a == e - Len(b) + len - 1
    <2>1. b[len] = a % Period
        BY DEF Follows
    <2>2. Period \in Nat \ {0} /\ a \in Int /\ 1 \in Int /\ a + 1 = e - Len(r)
        BY <1>1, PeriodType
    <2> HIDE DEF a
    <2>3. ((a % Period) + 1) % Period = (a + 1) % Period
        BY <2>2, ModAdd, Zenon
    <2> QED
        BY <2>1, <2>2, <2>3
<1>4. Dropped(b, len) = r
    BY DEF Dropped, r
<1>5. b[len] \in Int
    OBVIOUS
<1>6. Follows(r, e)
    BY <1>2 DEF Follows
<1> QED
    BY <1>1, <1>3, <1>4, <1>5, <1>6

LEMMA SendKeepsBuffer ==
    ASSUME IInv, BufInv, NRange, n' = (n + 1) % PacketMod, UNCHANGED <<config, reader>>,
           \/ Ignored \/ Collected \/ Datagram
           \/ PipeFull \/ PipeWrite \/ PipeAgain \/ PipeReaderGone
    PROVE  BufInv' /\ NRange'
<1>1. /\ PacketMod \in Nat \ {0} /\ PacketLen \in Nat \ {0} /\ Period \in Nat \ {0}
      /\ MaxTs * PacketLen <= Period /\ PipeBuffer < Period
      /\ MaxTs * PacketLen \in Int /\ PipeBuffer \in Nat
    BY OutputsAssumption, PacketModType, PeriodType
<1>2. /\ buffer \in Seq(Int) /\ Len(buffer) \in Nat /\ receiver \in {0, 1}
      /\ n \in Nat /\ n * PacketLen \in Int /\ type' = type
    BY <1>1 DEF IInv, TypeOK, config
<1>3. NRange' /\ n' * PacketLen \in Int
    <2>1. NRange'
        BY NextPlace, 0 \in Int
    <2> QED
        BY <1>1, <2>1 DEF NRange
<1>4. receiver # 0 =>
        /\ Filled \in Seq(Int) /\ Len(Filled) = Len(buffer) + PacketLen
        /\ Follows(Filled, n' * PacketLen)
        /\ (n' * PacketLen - Len(Filled)) % Period = (n * PacketLen - Len(buffer)) % Period
    BY <1>2, FollowsOn DEF BufInv, Filled
<1>5. wrote = None /\ receiver # 0 => \E k \in Nat : Len(Filled) = k * PacketLen
    <2> SUFFICES ASSUME wrote = None, receiver # 0
                 PROVE  \E k \in Nat : Len(Filled) = k * PacketLen
        OBVIOUS
    <2>1. PICK k \in Nat : Len(buffer) = k * PacketLen
        BY DEF BufInv
    <2>2. k + 1 \in Nat /\ (k + 1) * PacketLen = k * PacketLen + PacketLen
        BY <1>1
    <2>3. Len(Filled) = (k + 1) * PacketLen
        BY <1>4, <2>1, <2>2
    <2> QED
        BY <2>2, <2>3
<1>6. ASSUME receiver # 0, buffer' = Filled, wrote' = wrote, Len(Filled) < Period,
             type = "pipe" => Len(Filled) <= PipeBuffer
      PROVE  BufInv'
    BY <1>2, <1>4, <1>5, <1>6 DEF BufInv
<1>7. receiver' = 0 => BufInv'
    BY DEF BufInv
<1>8. CASE Ignored \/ PipeFull \/ PipeReaderGone
    <2>1. receiver' = 0
        BY <1>2, <1>8 DEF Ignored, PipeFull, PipeReaderGone, PipeClose, PipeRoom
    <2> QED
        BY <1>3, <1>7, <2>1
<1>9. CASE Collected
    <2>1. receiver # 0 /\ type # "pipe" /\ Len(buffer) + PacketLen < MaxTs * PacketLen
          /\ buffer' = Filled /\ wrote' = wrote
        BY <1>9 DEF Collected, Filled
    <2>2. Len(Filled) < Period
        BY <1>1, <1>2, <1>4, <2>1
    <2> QED
        BY <1>3, <1>6, <2>1, <2>2
<1>10. CASE Datagram
    <2>1. receiver # 0 /\ type # "pipe" /\ buffer' = <<>> /\ wrote' = Units[PacketLen]
        BY <1>10 DEF Datagram
    <2>2. wrote' = n * PacketLen + PacketLen - 1
        BY <1>1, <2>1 DEF Units
    <2>3. wrote' \in Int /\ wrote' + 1 = n * PacketLen + PacketLen - 0
        BY <1>1, <1>2, <2>2
    <2>4. (n' * PacketLen - 0) % Period = (n * PacketLen + PacketLen - 0) % Period
        BY NextPlace, 0 \in Int
    <2>5. Len(buffer') = 0 /\ Follows(buffer', n' * PacketLen)
        BY <2>1 DEF Follows
    <2>6. wrote' # None
        BY <2>3, OutputsAssumption
    <2>7. (wrote' + 1) % Period = (n' * PacketLen - Len(buffer')) % Period
        BY <2>3, <2>4, <2>5
    <2> QED
        BY <1>1, <1>2, <1>3, <2>1, <2>3, <2>5, <2>6, <2>7 DEF BufInv
<1>11. CASE PipeAgain
    <2>1. receiver # 0 /\ type = "pipe" /\ PipeBuffer - Len(buffer) >= PacketLen
          /\ buffer' = Filled /\ wrote' = wrote
        BY <1>11 DEF PipeAgain, PipeRoom
    <2>2. Len(Filled) <= PipeBuffer /\ Len(Filled) < Period
        BY <1>1, <1>2, <1>4, <2>1
    <2> QED
        BY <1>3, <1>6, <2>1, <2>2
<1>12. CASE PipeWrite
    <2>1. PICK len \in 1 .. Len(Filled) :
              buffer' = Dropped(Filled, len) /\ wrote' = Filled[len]
        BY <1>12 DEF PipeWrite
    <2>2. receiver # 0 /\ type = "pipe" /\ PipeBuffer - Len(buffer) >= PacketLen
        BY <1>12 DEF PipeWrite, PipeRoom
    <2>3. Len(Filled) <= PipeBuffer
        BY <1>1, <1>2, <1>4, <2>2
    <2>4. /\ Len(buffer') = Len(Filled) - len /\ Follows(buffer', n' * PacketLen)
          /\ wrote' \in Int
          /\ (wrote' + 1) % Period = (n' * PacketLen - Len(buffer')) % Period
        BY <1>3, <1>4, <2>1, <2>2, FollowsRest
    <2>5. Len(buffer') <= PipeBuffer /\ Len(buffer') < Period
        <3>1. Len(Filled) \in Nat /\ len \in Nat /\ Len(buffer') <= Len(Filled)
            BY <1>4, <2>2, <2>4
        <3>2. Len(buffer') \in Int
            BY <2>4, <3>1
        <3> QED
            BY <1>1, <2>3, <3>1, <3>2
    <2>6. wrote' # None
        BY <2>4, OutputsAssumption
    <2> QED
        BY <1>3, <2>4, <2>5, <2>6 DEF BufInv
<1> QED
    BY <1>8, <1>9, <1>10, <1>11, <1>12

LEMMA OthersKeepBuffer ==
    ASSUME BufInv, NRange,
           StreamSendPat \/ PipeOpen \/ PipeOpenFails \/ Reader \/ UNCHANGED vars
    PROVE  BufInv' /\ NRange'
<1>1. CASE StreamSendPat \/ PipeOpenFails \/ Reader \/ UNCHANGED vars
    <2>1. UNCHANGED <<type, receiver, buffer, n, wrote>>
        BY <1>1 DEF StreamSendPat, PipeOpenFails, Reader, vars, config, pipe
    <2> QED
        BY <2>1 DEF BufInv, NRange
<1>2. CASE PipeOpen
    <2>1. buffer' = <<>> /\ wrote' = None /\ n' = n
        BY <1>2 DEF PipeOpen, Zapped
    <2>2. Len(buffer') = 0 * PacketLen /\ 0 \in Nat
        BY <2>1, OutputsAssumption
    <2>3. Len(buffer') = 0 /\ 0 < Period /\ 0 <= PipeBuffer
        BY <2>1, PeriodType, OutputsAssumption
    <2> QED
        BY <2>1, <2>2, <2>3 DEF BufInv, NRange, Follows
<1> QED
    BY <1>1, <1>2

THEOREM BufInvariance == Spec => [](BufInv /\ NRange)
<1>1. Init => BufInv /\ NRange
    <2> SUFFICES ASSUME Init PROVE BufInv /\ NRange
        OBVIOUS
    <2>1. buffer = <<>> /\ wrote = None /\ n = 0
        BY DEF Init
    <2>2. Len(buffer) = 0 * PacketLen /\ 0 \in Nat
        BY <2>1, OutputsAssumption
    <2>3. Len(buffer) = 0 /\ 0 < Period /\ 0 <= PipeBuffer /\ 0 \in 0 .. PacketMod - 1
        BY <2>1, PeriodType, PacketModType, OutputsAssumption
    <2> QED
        BY <2>1, <2>2, <2>3 DEF BufInv, NRange, Follows
<1>2. IInv /\ (BufInv /\ NRange) /\ [Next]_vars => (BufInv /\ NRange)'
    <2> SUFFICES ASSUME IInv, BufInv, NRange, [Next]_vars PROVE BufInv' /\ NRange'
        OBVIOUS
    <2>1. Send => BufInv' /\ NRange'
        BY SendKeepsBuffer DEF Send
    <2> QED
        BY <2>1, OthersKeepBuffer DEF Next, StreamSend, PatPacket
<1> QED
    BY <1>1, <1>2, Invariance, PTL DEF Spec

(* Between the stream and the socket or FIFO nothing is lost, doubled or   *)
(* reordered while the output is open, and a FIFO that was opened gets     *)
(* whole packets from the first on (output_pipe.c, simplebuffer.c).        *)
THEOREM BufferHolds == Spec => []BufferHoldsRest
<1>1. IInv /\ BufInv /\ NRange => BufferHoldsRest
    <2> SUFFICES ASSUME IInv, BufInv, NRange, receiver # 0
                 PROVE  IF wrote # None THEN buffer = From((wrote + 1) % Period)
                        ELSE buffer # <<>> => buffer[1] % PacketLen = 0 /\ buffer = From(buffer[1])
        BY DEF BufferHoldsRest
    <2> DEFINE e == n * PacketLen
               a == e - Len(buffer)
    <2>1. /\ PacketMod \in Nat \ {0} /\ PacketLen \in Nat \ {0} /\ Period \in Nat \ {0}
          /\ Period = PacketMod * PacketLen
        BY OutputsAssumption, PacketModType, PeriodType
    <2>2. buffer \in Seq(Int) /\ Len(buffer) \in Nat /\ n \in Nat /\ Len(buffer) < Period
          /\ e \in Int
        BY <2>1 DEF IInv, TypeOK, BufInv
    <2>3. a \in Int /\ e - a = Len(buffer)
        BY <2>2
    <2>4. \A i \in 1 .. Len(buffer) : buffer[i] = (a + (i - 1)) % Period
        <3>1. \A i \in 1 .. Len(buffer) : a + (i - 1) = e - Len(buffer) + i - 1
            BY <2>2
        <3> QED
            BY <3>1 DEF BufInv, Follows
    <2>5. buffer = From(a % Period)
        <3> HIDE DEF e, a
        <3> DEFINE c == a % Period
        <3>1. c \in Int
            BY <2>1, <2>3
        <3>2. (e - c) % Period = Len(buffer)
            <4>1. (e - c) % Period = (e - a) % Period
                BY <2>1, <2>2, <2>3, ModSub, Zenon
            <4>2. Len(buffer) % Period = Len(buffer)
                <5>1. Len(buffer) \in 0 .. Period - 1
                    BY <2>1, <2>2
                <5> QED
                    BY <2>1, <5>1, ModBelow, Zenon
            <4> QED
                BY <2>3, <4>1, <4>2
        <3>3. \A i \in 1 .. Len(buffer) : buffer[i] = (c + (i - 1)) % Period
            <4> SUFFICES ASSUME NEW i \in 1 .. Len(buffer)
                         PROVE  buffer[i] = (c + (i - 1)) % Period
                OBVIOUS
            <4>1. i - 1 \in Int
                OBVIOUS
            <4>2. (c + (i - 1)) % Period = (a + (i - 1)) % Period
                BY <2>1, <2>3, <4>1, ModAdd, Zenon
            <4> QED
                BY <2>4, <4>2
        <3> HIDE DEF c
        <3>4. \A i \in 1 .. Len(buffer) : c + (i - 1) = c + i - 1
            BY <2>2, <3>1
        <3>5. From(c) = [i \in 1 .. Len(buffer) |-> (c + i - 1) % Period]
            BY <3>2 DEF From, e
        <3>6. buffer = [i \in 1 .. Len(buffer) |-> buffer[i]]
            BY <2>2
        <3> QED
            BY <3>3, <3>4, <3>5, <3>6 DEF c
    <2>6. wrote # None => (wrote + 1) % Period = a % Period
        BY DEF BufInv
    <2>7. ASSUME wrote = None, buffer # <<>>
          PROVE  buffer[1] = a % Period /\ buffer[1] % PacketLen = 0
        <3>1. 1 \in 1 .. Len(buffer) /\ a + (1 - 1) = a
            BY <2>2, <2>3, <2>7
        <3>2. buffer[1] = a % Period
            BY <2>4, <3>1
        <3>3. PICK k \in Nat : Len(buffer) = k * PacketLen
            BY <2>7 DEF BufInv
        <3>4. PICK p \in Int : a = p * Period + (a % Period)
            BY <2>1, <2>3, ModSplit
        <3> DEFINE q == (n - k) - p * PacketMod
        <3>5. q \in Int /\ q * PacketLen = (n - k) * PacketLen - (p * PacketMod) * PacketLen
            BY <2>1, <2>2
        <3>6. (n - k) * PacketLen = a
            BY <2>1, <2>2, <3>3
        <3>7. (p * PacketMod) * PacketLen = p * Period
            BY <2>1
        <3>8. a % Period \in Int /\ p * Period \in Int
            BY <2>1, <2>3
        <3>9. a % Period = q * PacketLen + 0
            <4> HIDE DEF a, q
            <4> QED
                BY <2>3, <3>4, <3>5, <3>6, <3>7, <3>8
        <3>10. (q * PacketLen + 0) % PacketLen = 0
            <4>1. 0 \in 0 .. PacketLen - 1
                BY <2>1
            <4> HIDE DEF q
            <4> QED
                BY <2>1, <3>5, <4>1, ModUnique, Zenon
        <3> QED
            BY <3>2, <3>9, <3>10
    <2> QED
        BY <2>5, <2>6, <2>7
<1> QED
    BY <1>1, Invariance, BufInvariance, PTL
=============================================================================
