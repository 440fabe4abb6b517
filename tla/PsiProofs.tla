----------------------------- MODULE PsiProofs ------------------------------
(***************************************************************************)
(* Proofs about Psi: what psi_reassemble puts together is the beginning of *)
(* one section, sections reach the callbacks as Delivery says, and one     *)
(* whose packets all arrive is delivered; for any number and lengths of    *)
(* sections, any size of packets and any range of the continuity counter   *)
(* that is larger than the number of faults.                               *)
(***************************************************************************)
EXTENDS Psi, Integers, SequenceTheorems, TLAPS

Octets == (0 .. Sections) \X Nat

Packets == [pusi : BOOLEAN, ptr : Nat, cc : 0 .. CCMod - 1, ok : BOOLEAN,
            since : Nat \cup {None}, data : Seq(Octets)]

Buffers == [data : Seq(Octets), len : Nat, cc : 0 .. CCMod - 1, ok : BOOLEAN]

TypeOK ==
    /\ len \in [1 .. Sections -> Lengths]
    /\ cur \in 0 .. Sections /\ pos \in Nat
    /\ cc \in 0 .. CCMod - 1
    /\ wire \in Packets \cup {None}
    /\ ts \in Packets \cup {None}
    /\ faults \in 0 .. MaxFaults
    /\ whole \in BOOLEAN
    /\ buf \in Buffers
    /\ off \in Nat
    /\ last \in Nat /\ calls \in BOOLEAN /\ repeats \in Nat

SenderInv == IF cur = 0 THEN pos = 0 ELSE pos \in 1 .. len[cur]

(* Packets: section m begins at place a of p. *)
Begins(p, a, m) ==
    \A i \in a .. Len(p.data) : i - a < len[m] => p.data[i] = <<m, i - a + 1>>

(* The section that the sender is at begins at place a of p, and is the    *)
(* last one in p.                                                          *)
EndsWith(p, a) ==
    /\ a \in 1 .. Len(p.data)
    /\ Begins(p, a, cur)
    /\ pos = Smaller(len[cur], Len(p.data) - a + 1)
    /\ a + len[cur] <= Len(p.data) => p.data[a + len[cur]] = Stuffing

(* A packet with a unit start: the pointer leads to the first of the one   *)
(* or two sections that start.                                             *)
StartsFrom(p) ==
    /\ Len(p.data) = Payload - 1
    /\ \/ EndsWith(p, p.ptr + 1)
       \/ /\ cur > 1
          /\ Begins(p, p.ptr + 1, cur - 1)
          /\ EndsWith(p, p.ptr + 1 + len[cur - 1])

(* The bytes of its section that were sent before packet p. *)
Before(p) == p.data[1][2] - 1

(* A packet without unit start: it goes on with the sender's section. *)
GoesOn(p) ==
    /\ Len(p.data) = Payload
    /\ Before(p) \in 1 .. len[cur] - 1
    /\ \A i \in 1 .. Payload : Before(p) + i <= len[cur] => p.data[i] = <<cur, Before(p) + i>>
    /\ pos = Smaller(len[cur], Before(p) + Payload)
    /\ len[cur] - Before(p) < Payload => p.data[len[cur] - Before(p) + 1] = Stuffing

(* p is the packet that was sent last. *)
Latest(p) ==
    /\ cur > 0
    /\ cc = NextCC(p.cc)
    /\ IF p.pusi THEN StartsFrom(p) ELSE GoesOn(p)

(* A damaged packet may hold anything. *)
Frame(p) ==
    IF p.pusi THEN Len(p.data) = Payload - 1 /\ p.ptr + 1 <= Payload - 1
    ELSE Len(p.data) = Payload

Holds(p) == IF p.ok THEN Latest(p) ELSE Frame(p)

PacketInv == (wire # None => Holds(wire)) /\ (ts # None => Holds(ts))

(* The buffer: the section in it, and whether it is all there. *)
Sec == buf.data[1][1]

Complete == Len(buf.data) = len[Sec]

BufInv ==
    /\ buf.len = 0 => Len(buf.data) <= HdrLen
    /\ buf.data # <<>> /\ buf.ok =>
        /\ Sec \in 1 .. cur
        /\ Len(buf.data) <= len[Sec]
        /\ \A i \in 1 .. Len(buf.data) : buf.data[i] = <<Sec, i>>
        /\ buf.len = IF Len(buf.data) > HdrLen THEN len[Sec] ELSE 0

(* The number of packets between the one with counter d and the one with   *)
(* counter c, if it is less than CCMod.                                    *)
Between(d, c) == IF c > d THEN c - d - 1 ELSE c + CCMod - d - 1

Fresh(p) == p # None /\ p.since = None

(* The packet that was sent last has not been looked at yet. *)
Waiting == Fresh(wire) \/ (Fresh(ts) /\ off = 0)

(* The counter of the packet that was sent last. *)
Prev(c) == IF c = 0 THEN CCMod - 1 ELSE c - 1

(* Packets between the one that went into the buffer and p, which was sent *)
(* last, were lost, or p goes on where the buffer ends.                    *)
Reaches(p) ==
    /\ Between(buf.cc, Prev(cc)) <= faults
    /\ (Between(buf.cc, Prev(cc)) = 0 /\ p.ok /\ ~p.pusi) =>
          Sec = cur /\ Len(buf.data) = Before(p)

(* The same between the buffer and the sender. *)
ReachesEnd ==
    /\ Between(buf.cc, cc) <= faults
    /\ (Between(buf.cc, cc) = 0 /\ off = 0) =>
          Sec = cur /\ Len(buf.data) = pos

(* Nothing is known of a buffer with damaged bytes, and nothing need be:   *)
(* it stays damaged until it is cleared.                                   *)
LagInv ==
    buf.data # <<>> /\ buf.ok =>
        /\ Fresh(wire) => Reaches(wire)
        /\ Fresh(ts) /\ off = 0 => Reaches(ts)
        /\ ~Waiting => ReachesEnd
        /\ (wire # None \/ ts # None) /\ ~Waiting => Between(buf.cc, cc) = 0

RepeatInv ==
    /\ wire # None /\ ~Fresh(wire) => faults >= 1
    /\ ts # None /\ ~Fresh(ts) => faults >= 1
    /\ Fresh(wire) => ts = None

(* The loop goes on only behind a section that was delivered. *)
LoopInv ==
    off > 0 =>
        /\ ts # None /\ ts.ok /\ off <= Len(ts.data)
        /\ buf.data # <<>> /\ buf.ok /\ Complete /\ last = Sec
        /\ \/ ts.data[off] = Stuffing /\ Sec = cur /\ pos = len[cur]
           \/ ts.pusi /\ Sec = cur - 1 /\ EndsWith(ts, off)

(* The section that a packet holds first, behind its pointer. *)
FirstSec(p) == p.data[First(p)][1]

OrderInv ==
    /\ last <= cur
    /\ last < cur \/ cur = 0 \/ pos = len[cur]
    /\ wire # None => Since <= last /\ (wire.ok => Since < FirstSec(wire))
    /\ ts # None /\ off = 0 /\ ts.ok => last < FirstSec(ts)

WholeInv ==
    whole =>
        /\ cur > 0
        /\ wire # None => wire.ok /\ wire.since = None
        /\ ts # None => ts.ok /\ ts.since = None /\ wire = None
        /\ wire # None /\ ~wire.pusi =>
              buf.data # <<>> /\ buf.ok /\ Between(buf.cc, wire.cc) = 0
        /\ ts # None /\ off = 0 /\ ~ts.pusi =>
              buf.data # <<>> /\ buf.ok /\ Between(buf.cc, ts.cc) = 0
        /\ wire = None /\ ts = None =>
              /\ buf.data # <<>> /\ buf.ok /\ Between(buf.cc, cc) = 0
              /\ pos = len[cur] => last = cur

IInv ==
    /\ TypeOK /\ SenderInv /\ PacketInv /\ BufInv /\ LagInv
    /\ RepeatInv /\ LoopInv /\ OrderInv /\ WholeInv

-----------------------------------------------------------------------------
(* The constants, the lengths of sections, and the parts of packets.       *)
LEMMA Sizes ==
    /\ Sections \in Nat /\ HdrLen \in Nat /\ HdrLen >= 2 /\ LenByte = 2
    /\ Payload \in Nat /\ Payload > HdrLen
    /\ MaxFaults \in Nat /\ CCMod \in Nat \ {0} /\ CCMod > MaxFaults
    /\ None \notin Nat
BY PsiAssumption DEF LenByte

LEMMA NoneIsNoPacket == None \notin Packets
<1>1. Packets \subseteq [pusi : BOOLEAN, ptr : Nat, cc : Nat, ok : BOOLEAN,
                         since : Nat \cup {None}, data : Seq(Nat \X Nat)]
    <2>1. Seq(Octets) \subseteq Seq(Nat \X Nat)
        <3>1. Octets \subseteq Nat \X Nat
            BY Sizes DEF Octets
        <3> QED
            BY <3>1
    <2> QED
        BY <2>1, Sizes DEF Packets
<1> QED
    BY <1>1, PsiAssumption

LEMMA LengthType ==
    ASSUME TypeOK, NEW m \in 1 .. Sections
    PROVE  len[m] \in Nat /\ len[m] > HdrLen /\ len[m] <= MaxSize
BY PsiAssumption DEF TypeOK

LEMMA PacketFields ==
    ASSUME NEW p \in Packets
    PROVE  /\ p.pusi \in BOOLEAN /\ p.ptr \in Nat /\ p.cc \in 0 .. CCMod - 1
           /\ p.ok \in BOOLEAN /\ p.since \in Nat \cup {None}
           /\ p.data \in Seq(Octets)
BY DEF Packets

LEMMA BufferFields ==
    ASSUME NEW b \in Buffers
    PROVE  /\ b.data \in Seq(Octets) /\ b.len \in Nat /\ b.cc \in 0 .. CCMod - 1
           /\ b.ok \in BOOLEAN
BY DEF Buffers

(* Counters: the next one, and the number of packets between two. *)
LEMMA NextIs ==
    ASSUME NEW c \in 0 .. CCMod - 1
    PROVE  /\ NextCC(c) = IF c = CCMod - 1 THEN 0 ELSE c + 1
           /\ NextCC(c) \in 0 .. CCMod - 1
<1>1. CCMod \in Nat \ {0}
    BY Sizes
<1>2. c = CCMod - 1 => (c + 1) % CCMod = 0
    BY <1>1
<1>3. c # CCMod - 1 => (c + 1) % CCMod = c + 1
    BY <1>1
<1> QED
    BY <1>1, <1>2, <1>3 DEF NextCC

LEMMA BetweenIs ==
    ASSUME NEW c \in 0 .. CCMod - 1, NEW d \in 0 .. CCMod - 1
    PROVE  /\ Between(d, c) \in 0 .. CCMod - 1
           /\ Between(d, c) = 0 <=> c = NextCC(d)
           /\ Between(d, c) + 1 < CCMod => Between(d, NextCC(c)) = Between(d, c) + 1
           /\ (CCMod > 1 /\ c = NextCC(d)) => NextCC(c) # NextCC(d)
BY Sizes, NextIs DEF Between

LEMMA PrevIs ==
    ASSUME NEW c \in 0 .. CCMod - 1
    PROVE  /\ Prev(c) \in 0 .. CCMod - 1 /\ NextCC(Prev(c)) = c
           /\ Prev(NextCC(c)) = c
<1>1. Prev(c) \in 0 .. CCMod - 1
    BY Sizes DEF Prev
<1>2. NextCC(Prev(c)) = IF Prev(c) = CCMod - 1 THEN 0 ELSE Prev(c) + 1
    BY <1>1, NextIs
<1>3. NextCC(c) = IF c = CCMod - 1 THEN 0 ELSE c + 1
    BY NextIs
<1> QED
    BY <1>1, <1>2, <1>3, Sizes DEF Prev

(* What a packet holds first is one of the sections of the sender. *)
LEMMA FirstSecIs ==
    ASSUME TypeOK, NEW p \in Packets, Latest(p)
    PROVE  /\ FirstSec(p) \in 1 .. cur
           /\ ~p.pusi => FirstSec(p) = cur
<1>1. cur \in 1 .. Sections
    BY DEF TypeOK, Latest
<1>2. len[cur] \in Nat /\ len[cur] > 0
    BY <1>1, LengthType, Sizes
<1>3. p.ptr \in Nat /\ p.data \in Seq(Octets) /\ Len(p.data) \in Nat
    BY PacketFields
<1>4. CASE ~p.pusi
    <2>1. GoesOn(p) /\ 1 \in 1 .. Payload
        BY <1>4, Sizes DEF Latest
    <2>2. p.data[1] = <<cur, Before(p) + 1>>
        BY <1>2, <2>1 DEF GoesOn
    <2> QED
        BY <1>1, <1>4, <2>2 DEF FirstSec, First
<1>5. CASE p.pusi
    <2> DEFINE a == p.ptr + 1
    <2>1. StartsFrom(p) /\ First(p) = a
        BY <1>5 DEF Latest, First
    <2>2. CASE EndsWith(p, a)
        <3>1. a \in a .. Len(p.data) /\ a - a < len[cur]
            BY <1>2, <1>3, <2>2, SMTT(30) DEF EndsWith
        <3>2. p.data[a] = <<cur, a - a + 1>>
            BY <2>2, <3>1 DEF EndsWith, Begins
        <3> QED
            BY <1>1, <1>5, <2>1, <3>2 DEF FirstSec
    <2>3. CASE cur > 1 /\ Begins(p, a, cur - 1) /\ EndsWith(p, a + len[cur - 1])
        <3>1. cur - 1 \in 1 .. Sections
            BY <1>1, <2>3, Sizes
        <3>2. len[cur - 1] \in Nat /\ len[cur - 1] > 0
            BY <3>1, LengthType, Sizes
        <3>3. a \in a .. Len(p.data) /\ a - a < len[cur - 1]
            <4>1. a + len[cur - 1] \in 1 .. Len(p.data)
                BY <2>3, Zenon DEF EndsWith
            <4>2. a \in Int
                BY <1>3
            <4> HIDE DEF a
            <4> QED
                BY <1>3, <3>2, <4>1, <4>2
        <3>4. p.data[a] = <<cur - 1, a - a + 1>>
            BY <2>3, <3>3 DEF Begins
        <3> QED
            BY <1>1, <1>5, <2>1, <2>3, <3>4 DEF FirstSec
    <2> QED
        BY <2>1, <2>2, <2>3 DEF StartsFrom
<1> QED
    BY <1>3, <1>4, <1>5

-----------------------------------------------------------------------------
(* Steps of the sender: what they have in common. *)
LEMMA SendKeeps ==
    ASSUME IInv, wire = None, ts = None,
           wire' \in Packets, wire'.since = None, wire'.ok, wire'.cc = cc,
           cc' = NextCC(cc), Latest(wire)', SenderInv',
           cur' \in 1 .. Sections, cur <= cur', pos' \in Nat,
           last < FirstSec(wire'), last < cur',
           whole' \in BOOLEAN,
           \/ wire'.pusi
           \/ cur' = cur /\ Before(wire') = pos /\ pos < len[cur] /\ whole' = whole,
           UNCHANGED <<len, faults, buf, ts, off, last, calls, repeats>>
    PROVE  IInv'
<1> USE DEF IInv
<1>1. off = 0 /\ off' = 0 /\ ts' = None
    BY DEF TypeOK, LoopInv
<1>2. wire' # None /\ Fresh(wire)' /\ ~Fresh(ts)'
    BY <1>1, NoneIsNoPacket DEF Fresh
<1>3. cc \in 0 .. CCMod - 1 /\ cc' \in 0 .. CCMod - 1
    BY NextIs DEF TypeOK
<1>4. TypeOK'
    BY <1>1, <1>3, Sizes DEF TypeOK
<1>5. PacketInv' /\ RepeatInv' /\ LoopInv'
    <2>1. Holds(wire)'
        BY DEF Holds
    <2> QED
        BY <1>1, <1>2, <2>1 DEF PacketInv, RepeatInv, LoopInv
<1>6. Sec' = Sec /\ (Complete' <=> Complete)
    BY DEF Sec, Complete
<1>7. BufInv'
    <2>1. buf.data # <<>> /\ buf.ok => Sec \in 1 .. cur
        BY DEF BufInv
    <2>2. cur \in Nat /\ cur' \in Nat
        BY Sizes DEF TypeOK
    <2>3. buf.data # <<>> /\ buf.ok => Sec \in 1 .. cur'
        BY <2>1, <2>2
    <2> QED
        BY <1>6, <2>3 DEF BufInv
<1>8. LagInv'
    <2> SUFFICES ASSUME buf.data # <<>>, buf.ok
                 PROVE  Reaches(wire)'
        BY <1>1, <1>2 DEF LagInv, Waiting
    <2>1. ReachesEnd
        BY DEF LagInv, Waiting, Fresh
    <2>2. Between(buf.cc', Prev(cc')) = Between(buf.cc, cc)
        BY <1>3, PrevIs
    <2>3. CASE wire'.pusi
        BY <2>1, <2>2, <2>3 DEF ReachesEnd, Reaches
    <2>4. CASE ~wire'.pusi
        BY <1>1, <1>6, <2>1, <2>2, <2>4 DEF ReachesEnd, Reaches
    <2> QED
        BY <2>3, <2>4
<1>9. OrderInv'
    <2>1. Since' = last
        BY <1>2 DEF Since, Fresh
    <2>2. FirstSec(wire)' = FirstSec(wire')
        BY DEF FirstSec, First
    <2> QED
        BY <1>1, <1>4, <2>1, <2>2 DEF OrderInv, TypeOK
<1>10. WholeInv'
    <2> SUFFICES ASSUME whole'
                 PROVE  ~wire'.pusi => /\ buf.data # <<>> /\ buf.ok
                                       /\ Between(buf.cc, cc) = 0
        BY <1>1, <1>2, <1>4 DEF WholeInv, TypeOK, Fresh
    <2> QED
        BY DEF WholeInv
<1> QED
    BY <1>4, <1>5, <1>7, <1>8, <1>9, <1>10

(* The bytes of a section, and those that were not sent. *)
LEMMA BytesAre ==
    ASSUME TypeOK, NEW m \in 1 .. Sections
    PROVE  /\ Bytes(m) \in Seq(Octets) /\ Len(Bytes(m)) = len[m]
           /\ \A i \in 1 .. len[m] : Bytes(m)[i] = <<m, i>>
<1>1. len[m] \in Nat /\ m \in Nat
    BY LengthType, Sizes
<1> QED
    BY <1>1, Sizes DEF Bytes, Octets

LEMMA SubSeqIs ==
    ASSUME NEW s \in Seq(Octets), NEW m \in Nat, NEW n \in Nat,
           1 <= m, m <= n + 1, n <= Len(s)
    PROVE  /\ SubSeq(s, m, n) \in Seq(Octets) /\ Len(SubSeq(s, m, n)) = (n + 1) - m
           /\ \A i \in 1 .. (n + 1) - m : SubSeq(s, m, n)[i] = s[(m + i) - 1]
OBVIOUS

LEMMA RestIs ==
    ASSUME TypeOK, SenderInv
    PROVE  /\ Rest \in Seq(Octets)
           /\ cur = 0 => Rest = <<>>
           /\ cur # 0 => /\ Len(Rest) = len[cur] - pos
                         /\ \A i \in 1 .. len[cur] - pos : Rest[i] = <<cur, pos + i>>
<1>1. CASE cur = 0
    BY <1>1 DEF Rest
<1>2. CASE cur # 0
    <2>1. cur \in 1 .. Sections /\ pos \in 1 .. len[cur]
        BY <1>2, Sizes DEF TypeOK, SenderInv
    <2> DEFINE b == Bytes(cur)
               r == SubSeq(b, pos + 1, len[cur])
    <2>2. /\ b \in Seq(Octets) /\ Len(b) = len[cur] /\ len[cur] \in Nat
          /\ \A i \in 1 .. len[cur] : b[i] = <<cur, i>>
        BY <2>1, BytesAre, LengthType
    <2> HIDE DEF b
    <2>3. /\ r \in Seq(Octets) /\ Len(r) = len[cur] - pos
          /\ \A i \in 1 .. len[cur] - pos : r[i] = b[pos + i]
        <3>1. len[cur] \in Nat /\ pos \in Nat /\ pos <= len[cur]
            BY <2>1, <2>2
        <3>0. /\ pos + 1 \in Nat /\ 1 <= pos + 1 /\ pos + 1 <= len[cur] + 1
              /\ len[cur] <= Len(b) /\ b \in Seq(Octets)
            BY <2>2, <3>1
        <3>2. /\ r \in Seq(Octets) /\ Len(r) = (len[cur] + 1) - (pos + 1)
              /\ \A i \in 1 .. (len[cur] + 1) - (pos + 1) : r[i] = b[((pos + 1) + i) - 1]
            BY <3>0, <3>1, SubSeqIs, ZenonT(30)
        <3>3. /\ (len[cur] + 1) - (pos + 1) = len[cur] - pos
              /\ \A i \in 1 .. len[cur] - pos : ((pos + 1) + i) - 1 = pos + i
            BY <3>1
        <3> QED
            BY <3>2, <3>3
    <2> HIDE DEF r
    <2>4. ASSUME NEW i \in 1 .. len[cur] - pos
          PROVE  r[i] = <<cur, pos + i>>
        <3>1. pos + i \in 1 .. len[cur]
            <4>1. len[cur] \in Nat /\ pos \in 1 .. len[cur]
                BY <2>1, <2>2
            <4> QED
                BY <4>1
        <3> QED
            BY <2>2, <2>3, <3>1
    <2> QED
        BY <1>2, <2>3, <2>4 DEF Rest, b, r
<1> QED
    BY <1>1, <1>2

LEMMA ConcatIs ==
    ASSUME NEW s \in Seq(Octets), NEW t \in Seq(Octets)
    PROVE  /\ s \o t \in Seq(Octets) /\ Len(s \o t) = Len(s) + Len(t)
           /\ \A i \in 1 .. Len(s) : (s \o t)[i] = s[i]
           /\ \A i \in 1 .. Len(t) : (s \o t)[Len(s) + i] = t[i]
<1>1. s \o t \in Seq(Octets) /\ Len(s \o t) = Len(s) + Len(t)
    OBVIOUS
<1>2. \A i \in 1 .. Len(s) : (s \o t)[i] = s[i]
    OBVIOUS
<1>3. \A i \in 1 .. Len(t) : (s \o t)[Len(s) + i] = t[i]
    OBVIOUS
<1> QED
    BY <1>1, <1>2, <1>3

(* Packets: their bytes, and stuffing behind them. *)
LEMMA Padded ==
    ASSUME NEW size \in Nat, NEW s \in Seq(Octets),
           NEW d, d = [i \in 1 .. size |-> IF i <= Len(s) THEN s[i] ELSE Stuffing]
    PROVE  /\ d \in Seq(Octets) /\ Len(d) = size
           /\ \A i \in 1 .. size : d[i] = IF i <= Len(s) THEN s[i] ELSE Stuffing
<1>1. \A i \in 1 .. size : (IF i <= Len(s) THEN s[i] ELSE Stuffing) \in Octets
    <2>1. Stuffing \in Octets
        BY Sizes DEF Stuffing, Octets
    <2> QED
        BY <2>1
<1> QED
    BY <1>1

LEMMA RestPacketIs ==
    ASSUME TypeOK, NEW d \in Seq(Octets), NEW p,
           p = [pusi |-> FALSE, ptr |-> 0, cc |-> cc, ok |-> TRUE, since |-> None, data |-> d]
    PROVE  /\ p \in Packets /\ p.since = None /\ p.ok /\ p.cc = cc
           /\ ~p.pusi /\ p.data = d
<1>1. cc \in 0 .. CCMod - 1
    BY DEF TypeOK
<1> QED
    BY <1>1 DEF Packets

LEMMA StartPacketIs ==
    ASSUME TypeOK, NEW ptr \in Nat, NEW d \in Seq(Octets), NEW p,
           p = [pusi |-> TRUE, ptr |-> ptr, cc |-> cc, ok |-> TRUE, since |-> None, data |-> d]
    PROVE  /\ p \in Packets /\ p.since = None /\ p.ok /\ p.cc = cc
           /\ p.pusi /\ p.ptr = ptr /\ p.data = d
<1>1. cc \in 0 .. CCMod - 1
    BY DEF TypeOK
<1> QED
    BY <1>1 DEF Packets

(* A section behind s. *)
LEMMA BehindIs ==
    ASSUME TypeOK, NEW s \in Seq(Octets), NEW m \in 1 .. Sections
    PROVE  /\ s \o Bytes(m) \in Seq(Octets)
           /\ Len(s \o Bytes(m)) = Len(s) + len[m]
           /\ \A i \in 1 .. Len(s) : (s \o Bytes(m))[i] = s[i]
           /\ \A i \in Len(s) + 1 .. Len(s) + len[m] : (s \o Bytes(m))[i] = <<m, i - Len(s)>>
<1> DEFINE b == Bytes(m)
           t == s \o b
<1>1. /\ b \in Seq(Octets) /\ Len(b) = len[m]
      /\ \A i \in 1 .. len[m] : b[i] = <<m, i>>
    BY BytesAre
<1>2. len[m] \in Nat /\ Len(s) \in Nat
    BY LengthType
<1> HIDE DEF b
<1>3. /\ t \in Seq(Octets) /\ Len(t) = Len(s) + Len(b)
      /\ \A i \in 1 .. Len(s) : t[i] = s[i]
      /\ \A i \in 1 .. Len(b) : t[Len(s) + i] = b[i]
    BY <1>1, ConcatIs, Zenon
<1> HIDE DEF t
<1>4. ASSUME NEW i \in Len(s) + 1 .. Len(s) + len[m]
      PROVE  t[i] = <<m, i - Len(s)>>
    <2>1. i - Len(s) \in 1 .. len[m] /\ Len(s) + (i - Len(s)) = i
        BY <1>2
    <2>2. t[Len(s) + (i - Len(s))] = b[i - Len(s)]
        BY <1>1, <1>3, <2>1
    <2> QED
        BY <1>1, <2>1, <2>2
<1> QED
    BY <1>1, <1>3, <1>4 DEF t, b

(* What a packet holds in which section m starts behind k bytes, and what  *)
(* of the section was sent with it.                                        *)
Behind(d, size, m, k) ==
    \A i \in 1 .. size :
        /\ k < i /\ i <= k + len[m] => d[i] = <<m, i - k>>
        /\ k + len[m] < i => d[i] = Stuffing

LEMMA StartAt ==
    ASSUME TypeOK, NEW m \in 1 .. Sections, NEW k \in Nat, NEW size \in Nat, k < size,
           NEW d, Behind(d, size, m, k)
    PROVE  /\ k + 1 \in 1 .. size
           /\ \A i \in k + 1 .. size :
                  i - (k + 1) < len[m] => d[i] = <<m, i - (k + 1) + 1>>
           /\ k + 1 + len[m] <= size => d[k + 1 + len[m]] = Stuffing
           /\ (IF k + len[m] <= size THEN len[m] ELSE len[m] - ((k + len[m]) - size))
                = Smaller(len[m], size - (k + 1) + 1)
<1>1. len[m] \in Nat
    BY LengthType
<1>2. ASSUME NEW i \in k + 1 .. size, i - (k + 1) < len[m]
      PROVE  d[i] = <<m, i - (k + 1) + 1>>
    <2>1. i \in 1 .. size /\ k < i /\ i <= k + len[m] /\ i - k = i - (k + 1) + 1
        BY <1>1, <1>2
    <2> QED
        BY <2>1 DEF Behind
<1>3. ASSUME k + 1 + len[m] <= size
      PROVE  d[k + 1 + len[m]] = Stuffing
    <2>1. k + 1 + len[m] \in 1 .. size /\ k + len[m] < k + 1 + len[m]
        BY <1>1, <1>3
    <2> QED
        BY <2>1 DEF Behind
<1>4. (IF k + len[m] <= size THEN len[m] ELSE len[m] - ((k + len[m]) - size))
          = Smaller(len[m], size - (k + 1) + 1)
    BY <1>1 DEF Smaller
<1>5. k + 1 \in 1 .. size
    OBVIOUS
<1> QED
    BY <1>2, <1>3, <1>4, <1>5

LEMMA PaddedBehind ==
    ASSUME TypeOK, NEW s \in Seq(Octets), NEW m \in 1 .. Sections, NEW size \in Nat,
           NEW t, t = s \o Bytes(m),
           NEW d, d = [i \in 1 .. size |-> IF i <= Len(t) THEN t[i] ELSE Stuffing]
    PROVE  Behind(d, size, m, Len(s))
<1> DEFINE k == Len(s)
<1>1. k \in Nat /\ len[m] \in Nat
    BY LengthType
<1>2. Len(t) = k + len[m] /\ \A i \in k + 1 .. k + len[m] : t[i] = <<m, i - k>>
    BY BehindIs
<1> HIDE DEF k
<1> SUFFICES ASSUME NEW i \in 1 .. size
             PROVE  /\ k < i /\ i <= k + len[m] => d[i] = <<m, i - k>>
                    /\ k + len[m] < i => d[i] = Stuffing
    BY DEF Behind, k
<1>3. d[i] = IF i <= k + len[m] THEN t[i] ELSE Stuffing
    BY <1>2
<1>4. k < i /\ i <= k + len[m] => i \in k + 1 .. k + len[m]
    BY <1>1
<1>5. k + len[m] < i => ~(i <= k + len[m])
    BY <1>1
<1> QED
    BY <1>2, <1>3, <1>4, <1>5

LEMMA SendRestKeeps ==
    ASSUME IInv, SendRest
    PROVE  IInv'
<1> USE DEF IInv
<1> DEFINE r == Rest
           d == [i \in 1 .. Payload |-> IF i <= Len(r) THEN r[i] ELSE Stuffing]
<1>1. /\ wire = None /\ ts = None /\ r # <<>>
      /\ wire' = [pusi |-> FALSE, ptr |-> 0, cc |-> cc, ok |-> TRUE, since |-> None,
                  data |-> d]
      /\ cur' = cur /\ cc' = NextCC(cc)
      /\ pos' = IF Len(r) <= Len(wire'.data) THEN len[cur]
                ELSE len[cur] - (Len(r) - Len(wire'.data))
      /\ UNCHANGED <<len, faults, buf, ts, off, last, calls, repeats, whole>>
    BY DEF SendRest, Sent, Packet
<1>2. r \in Seq(Octets) /\ cur # 0 /\ Len(r) = len[cur] - pos
      /\ \A i \in 1 .. len[cur] - pos : r[i] = <<cur, pos + i>>
    BY <1>1, RestIs
<1> HIDE DEF r
<1>3. cur \in 1 .. Sections /\ len[cur] \in Nat /\ pos \in 1 .. len[cur] /\ Payload \in Nat /\ Payload > 0
    <2>1. cur \in 1 .. Sections
        BY <1>2, Sizes DEF TypeOK
    <2> QED
        BY <1>2, <2>1, LengthType, Sizes DEF SenderInv
<1>4. pos < len[cur]
    BY <1>1, <1>2, <1>3
<1>5. /\ wire' \in Packets /\ wire'.since = None /\ wire'.ok /\ wire'.cc = cc /\ ~wire'.pusi
      /\ Len(wire'.data) = Payload
      /\ \A i \in 1 .. Payload : wire'.data[i] = IF i <= Len(r) THEN r[i] ELSE Stuffing
    <2>1. /\ d \in Seq(Octets) /\ Len(d) = Payload
          /\ \A i \in 1 .. Payload : d[i] = IF i <= Len(r) THEN r[i] ELSE Stuffing
        <3>1. Payload \in Nat /\ r \in Seq(Octets)
            BY <1>2, Sizes
        <3> QED
            BY <3>1, Padded, Zenon
    <2> HIDE DEF d
    <2>2. /\ wire' \in Packets /\ wire'.since = None /\ wire'.ok /\ wire'.cc = cc
          /\ ~wire'.pusi /\ wire'.data = d
        BY <1>1, <2>1, RestPacketIs
    <2> QED
        BY <2>1, <2>2
<1>6. \A i \in 1 .. Payload : wire'.data[i] = IF pos + i <= len[cur] THEN <<cur, pos + i>> ELSE Stuffing
    <2> SUFFICES ASSUME NEW i \in 1 .. Payload
                 PROVE  wire'.data[i] = IF pos + i <= len[cur] THEN <<cur, pos + i>> ELSE Stuffing
        OBVIOUS
    <2>1. (pos + i <= len[cur] <=> i <= Len(r)) /\ (i <= Len(r) => i \in 1 .. len[cur] - pos)
        BY <1>2, <1>3, <1>4
    <2> QED
        BY <1>2, <1>5, <2>1
<1>7. wire'.data[1] = <<cur, pos + 1>> /\ Before(wire') = pos
    <2>1. 1 \in 1 .. Payload /\ pos + 1 <= len[cur] /\ (pos + 1) - 1 = pos
        BY <1>3, <1>4
    <2>2. wire'.data[1] = <<cur, pos + 1>>
        BY <1>6, <2>1
    <2> QED
        BY <2>1, <2>2 DEF Before
<1>8. pos' = Smaller(len[cur], pos + Payload)
    <2>1. pos' = IF len[cur] - pos <= Payload THEN len[cur]
                 ELSE len[cur] - ((len[cur] - pos) - Payload)
        BY <1>1, <1>2, <1>5
    <2> QED
        BY <1>3, <1>4, <2>1 DEF Smaller
<1>9. Latest(wire)'
    <2>1. len[cur] - pos < Payload => wire'.data[len[cur] - pos + 1] = Stuffing
        <3> SUFFICES ASSUME len[cur] - pos < Payload
                     PROVE  wire'.data[len[cur] - pos + 1] = Stuffing
            OBVIOUS
        <3>1. len[cur] - pos + 1 \in 1 .. Payload /\ ~(pos + (len[cur] - pos + 1) <= len[cur])
            BY <1>3, <1>4
        <3> QED
            BY <1>6, <3>1
    <2>2. Before(wire)' = pos
        BY <1>7 DEF Before
    <2>3. GoesOn(wire)'
        <3>1. pos \in 1 .. len[cur] - 1
            BY <1>3, <1>4
        <3> QED
            BY <1>1, <1>5, <1>6, <1>8, <2>1, <2>2, <3>1 DEF GoesOn
    <2>4. cur' > 0
        BY <1>1, <1>3
    <2>5. cc' = NextCC(wire'.cc)
        BY <1>1, <1>5
    <2> QED
        BY <1>5, <2>3, <2>4, <2>5 DEF Latest
<1>10. pos' \in 1 .. len[cur] /\ SenderInv'
    <2>1. pos' \in 1 .. len[cur]
        BY <1>3, <1>8 DEF Smaller
    <2>2. cur' = cur /\ len' = len /\ cur # 0
        BY <1>1, <1>2
    <2> QED
        BY <2>1, <2>2 DEF SenderInv
<1>11. last < cur /\ FirstSec(wire') = cur
    <2>1. last < cur
        BY <1>3, <1>4 DEF OrderInv
    <2> QED
        BY <1>5, <1>7, <2>1 DEF FirstSec, First
<1>12. cur <= cur' /\ whole' \in BOOLEAN /\ pos' \in Nat
    <2>1. cur' = cur /\ whole' = whole
        BY <1>1
    <2> QED
        BY <1>3, <1>10, <2>1 DEF TypeOK
<1> QED
    BY <1>1, <1>3, <1>4, <1>5, <1>7, <1>9, <1>10, <1>11, <1>12, SendKeeps

LEMMA SendStartKeeps ==
    ASSUME IInv, SendStart
    PROVE  IInv'
<1> USE DEF IInv
<1> DEFINE r == Rest
           m == cur + 1
           t == r \o Bytes(m)
           size == Payload - 1
           d == [i \in 1 .. size |-> IF i <= Len(t) THEN t[i] ELSE Stuffing]
<1>1. /\ wire = None /\ ts = None /\ cur < Sections
      /\ r = <<>> \/ Len(r) < size
      /\ wire' = [pusi |-> TRUE, ptr |-> Len(r), cc |-> cc, ok |-> TRUE, since |-> None,
                  data |-> d]
      /\ cur' = m /\ cc' = NextCC(cc) /\ whole' = TRUE
      /\ pos' = IF Len(t) <= Len(wire'.data) THEN len[m]
                ELSE len[m] - (Len(t) - Len(wire'.data))
      /\ UNCHANGED <<len, faults, buf, ts, off, last, calls, repeats>>
    BY DEF SendStart, Sent, Packet
<1>2. r \in Seq(Octets) /\ Len(r) \in Nat
    BY RestIs
<1>3. m \in 1 .. Sections /\ cur \in Nat /\ size \in Nat /\ size > 0
    BY <1>1, Sizes DEF TypeOK
<1>4. Len(r) < size
    BY <1>1, <1>2, <1>3
<1> HIDE DEF r, m
<1>5. t \in Seq(Octets) /\ Len(t) = Len(r) + len[m]
    BY <1>2, <1>3, BehindIs, Zenon
<1> HIDE DEF t, size
<1>6. /\ d \in Seq(Octets) /\ Len(d) = size
      /\ \A i \in 1 .. size : d[i] = IF i <= Len(t) THEN t[i] ELSE Stuffing
    BY <1>3, <1>5, Padded, Zenon
<1> HIDE DEF d
<1>7. /\ wire' \in Packets /\ wire'.since = None /\ wire'.ok /\ wire'.cc = cc
      /\ wire'.pusi /\ wire'.ptr = Len(r) /\ wire'.data = d
    BY <1>1, <1>2, <1>6, StartPacketIs
<1> DEFINE a == Len(r) + 1
<1>8. /\ a \in 1 .. size
      /\ \A i \in a .. size : i - a < len[m] => d[i] = <<m, i - a + 1>>
      /\ a + len[m] <= size => d[a + len[m]] = Stuffing
      /\ (IF Len(t) <= size THEN len[m] ELSE len[m] - (Len(t) - size))
             = Smaller(len[m], size - a + 1)
    <2>1. Behind(d, size, m, Len(r))
        BY <1>2, <1>3, PaddedBehind, Zenon DEF d, t
    <2>2. TypeOK /\ m \in 1 .. Sections /\ Len(r) \in Nat /\ size \in Nat /\ Len(r) < size
        BY <1>2, <1>3, <1>4
    <2>3. Len(t) = Len(r) + len[m]
        BY <1>5
    <2> DEFINE k == Len(r)
    <2> HIDE DEF k
    <2>4. /\ k + 1 \in 1 .. size
          /\ \A i \in k + 1 .. size :
                 i - (k + 1) < len[m] => d[i] = <<m, i - (k + 1) + 1>>
          /\ k + 1 + len[m] <= size => d[k + 1 + len[m]] = Stuffing
          /\ (IF k + len[m] <= size THEN len[m] ELSE len[m] - ((k + len[m]) - size))
                = Smaller(len[m], size - (k + 1) + 1)
        BY <2>1, <2>2, StartAt, Zenon DEF k
    <2> QED
        BY <2>3, <2>4 DEF k
<1> HIDE DEF a
<1>9. pos' = Smaller(len[m], size - a + 1)
    BY <1>1, <1>6, <1>7, <1>8
<1>10. len[m] \in Nat /\ len[m] > 0
    BY <1>3, LengthType, Sizes
<1>11. EndsWith(wire, wire.ptr + 1)'
    <2>1. wire'.ptr + 1 = a
        BY <1>7 DEF a
    <2> QED
        BY <1>1, <1>6, <1>7, <1>8, <1>9, <2>1, SMTT(30) DEF EndsWith, Begins
<1>12. Latest(wire)'
    <2>1. StartsFrom(wire)'
        BY <1>6, <1>7, <1>11 DEF StartsFrom, size
    <2>2. cur' > 0
        BY <1>1, <1>3, Sizes
    <2>3. cc' = NextCC(wire'.cc)
        BY <1>1, <1>7
    <2> QED
        BY <1>7, <2>1, <2>2, <2>3 DEF Latest
<1>13. pos' \in 1 .. len[m] /\ SenderInv'
    <2>1. pos' \in 1 .. len[m]
        BY <1>3, <1>8, <1>9, <1>10 DEF Smaller
    <2>2. cur' = m /\ len' = len /\ m # 0
        BY <1>1, <1>3
    <2> QED
        BY <2>1, <2>2 DEF SenderInv
<1>14. FirstSec(wire') = m
    <2>1. wire'.ptr + 1 = a /\ a \in a .. size /\ a - a < len[m]
        BY <1>3, <1>7, <1>8, <1>10 DEF a
    <2>2. d[a] = <<m, a - a + 1>>
        BY <1>8, <2>1
    <2>3. First(wire') = a
        BY <1>7, <2>1 DEF First
    <2> QED
        BY <1>7, <2>2, <2>3 DEF FirstSec
<1>15. cur <= cur' /\ whole' \in BOOLEAN /\ pos' \in Nat /\ last < m /\ cur' = m
    <2>1. last \in Nat /\ last <= cur
        BY DEF TypeOK, OrderInv
    <2>2. cur < m
        BY <1>3 DEF m
    <2> QED
        BY <1>1, <1>3, <1>10, <1>13, <2>1, <2>2
<1> QED
    BY <1>1, <1>3, <1>7, <1>12, <1>13, <1>14, <1>15, SendKeeps

LEMMA SendTwoKeeps ==
    ASSUME IInv, SendTwo
    PROVE  IInv'
<1> USE DEF IInv
<1> DEFINE r == Rest
           m == cur + 1
           n == cur + 2
           s == r \o Bytes(m)
           t == s \o Bytes(n)
           size == Payload - 1
           d == [i \in 1 .. size |-> IF i <= Len(t) THEN t[i] ELSE Stuffing]
<1>1. /\ wire = None /\ ts = None /\ cur + 1 < Sections
      /\ Len(s) < size
      /\ wire' = [pusi |-> TRUE, ptr |-> Len(r), cc |-> cc, ok |-> TRUE, since |-> None,
                  data |-> d]
      /\ cur' = n /\ cc' = NextCC(cc) /\ whole' = TRUE
      /\ pos' = IF Len(t) <= Len(wire'.data) THEN len[n]
                ELSE len[n] - (Len(t) - Len(wire'.data))
      /\ UNCHANGED <<len, faults, buf, ts, off, last, calls, repeats>>
    BY DEF SendTwo, Sent, Packet
<1>2. r \in Seq(Octets) /\ Len(r) \in Nat
    BY RestIs
<1>3. /\ m \in 1 .. Sections /\ n \in 1 .. Sections /\ n - 1 = m /\ n > 1
      /\ cur \in Nat /\ cur < n /\ size \in Nat
    BY <1>1, Sizes DEF TypeOK
<1> HIDE DEF r, m, n
<1>4. /\ len[m] \in Nat /\ len[m] > 0 /\ len[n] \in Nat /\ len[n] > 0
    BY <1>3, LengthType, Sizes
<1>5. /\ s \in Seq(Octets) /\ Len(s) = Len(r) + len[m]
      /\ \A i \in Len(r) + 1 .. Len(r) + len[m] : s[i] = <<m, i - Len(r)>>
    BY <1>2, <1>3, BehindIs, Zenon
<1> HIDE DEF s
<1>6. /\ t \in Seq(Octets) /\ Len(t) = Len(s) + len[n]
      /\ \A i \in 1 .. Len(s) : t[i] = s[i]
    BY <1>3, <1>5, BehindIs, Zenon
<1> HIDE DEF t, size
<1>7. /\ d \in Seq(Octets) /\ Len(d) = size
      /\ \A i \in 1 .. size : d[i] = IF i <= Len(t) THEN t[i] ELSE Stuffing
    BY <1>3, <1>6, Padded, Zenon
<1> HIDE DEF d
<1>8. Behind(d, size, n, Len(s))
    BY <1>3, <1>5, PaddedBehind, Zenon DEF d, t
<1>9. /\ wire' \in Packets /\ wire'.since = None /\ wire'.ok /\ wire'.cc = cc
      /\ wire'.pusi /\ wire'.ptr = Len(r) /\ wire'.data = d
    BY <1>1, <1>2, <1>7, StartPacketIs
<1> DEFINE k == Len(s)
           a == Len(r) + 1
<1>10. k \in Nat /\ k < size /\ k = Len(r) + len[m] /\ a + len[m] = k + 1 /\ a \in Nat
    <2>1. /\ Len(r) \in Nat /\ len[m] \in Nat /\ size \in Nat
          /\ Len(s) = Len(r) + len[m] /\ Len(s) < size
        BY <1>1, <1>2, <1>3, <1>4, <1>5
    <2> QED
        BY <2>1
<1>11. Behind(d, size, n, k) /\ TypeOK
    BY <1>8
<1>12. Len(t) = k + len[n] /\ k = Len(s) /\ a = Len(r) + 1
    BY <1>6
<1> HIDE DEF k, a
<1>13. \A i \in a .. size : i - a < len[m] => d[i] = <<m, i - a + 1>>
    <2> SUFFICES ASSUME NEW i \in a .. size, i - a < len[m]
                 PROVE  d[i] = <<m, i - a + 1>>
        OBVIOUS
    <2> DEFINE lr == Len(r)
               lm == len[m]
               ln == len[n]
    <2>1. /\ lr \in Nat /\ lm \in Nat /\ ln \in Nat /\ size \in Nat /\ k \in Nat
          /\ k = lr + lm /\ k < size /\ a = lr + 1
        BY <1>2, <1>3, <1>4, <1>10, <1>12
    <2>2. i \in a .. size /\ i - a < lm
        OBVIOUS
    <2> HIDE DEF lr, lm, ln
    <2>3. /\ i \in 1 .. size /\ i \in lr + 1 .. lr + lm /\ i \in 1 .. k
          /\ i <= k + ln /\ i - lr = i - a + 1
        BY <2>1, <2>2
    <2>4. d[i] = IF i <= Len(t) THEN t[i] ELSE Stuffing
        BY <1>7, <2>3
    <2>5. t[i] = s[i]
        BY <1>6, <1>12, <2>3
    <2>6. s[i] = <<m, i - lr>>
        BY <1>5, <2>3 DEF lr, lm
    <2>7. i <= Len(t)
        BY <1>12, <2>3 DEF ln
    <2> QED
        BY <2>3, <2>4, <2>5, <2>6, <2>7
<1>14. /\ k + 1 \in 1 .. size
       /\ \A i \in k + 1 .. size :
              i - (k + 1) < len[n] => d[i] = <<n, i - (k + 1) + 1>>
       /\ k + 1 + len[n] <= size => d[k + 1 + len[n]] = Stuffing
       /\ (IF k + len[n] <= size THEN len[n] ELSE len[n] - ((k + len[n]) - size))
             = Smaller(len[n], size - (k + 1) + 1)
    <2>1. n \in 1 .. Sections /\ k \in Nat /\ size \in Nat /\ k < size
        BY <1>3, <1>10
    <2> QED
        BY <1>11, <2>1, StartAt, Zenon
<1>15. pos' = Smaller(len[n], size - (k + 1) + 1)
    BY <1>1, <1>7, <1>9, <1>12, <1>14
<1>16. wire'.ptr + 1 = a /\ n - 1 = m /\ a + len[m] = k + 1
    BY <1>3, <1>9, <1>10 DEF a
<1>17. EndsWith(wire, wire.ptr + 1 + len[cur - 1])'
    <2>1. wire'.ptr + 1 + len[n - 1] = k + 1
        BY <1>16
    <2> QED
        BY <1>1, <1>7, <1>9, <1>14, <1>15, <2>1, SMTT(30) DEF EndsWith, Begins
<1>18. Begins(wire, wire.ptr + 1, cur - 1)'
    BY <1>1, <1>7, <1>9, <1>13, <1>16, ZenonT(40) DEF Begins
<1>19. Latest(wire)'
    <2>1. cur' > 1 /\ cur' > 0
        BY <1>1, <1>3
    <2>2. StartsFrom(wire)'
        BY <1>7, <1>9, <1>17, <1>18, <2>1 DEF StartsFrom, size
    <2>3. cc' = NextCC(wire'.cc)
        BY <1>1, <1>9
    <2> QED
        BY <1>9, <2>1, <2>2, <2>3 DEF Latest
<1>20. pos' \in 1 .. len[n] /\ SenderInv'
    <2>1. pos' \in 1 .. len[n]
        BY <1>3, <1>4, <1>14, <1>15 DEF Smaller
    <2>2. cur' = n /\ len' = len /\ n # 0
        BY <1>1, <1>3
    <2> QED
        BY <2>1, <2>2 DEF SenderInv
<1>21. FirstSec(wire') = m
    <2>1. a \in a .. size /\ a - a < len[m]
        BY <1>4, <1>10, <1>3
    <2>2. d[a] = <<m, a - a + 1>>
        BY <1>13, <2>1
    <2>3. First(wire') = a
        BY <1>9, <1>16 DEF First
    <2> QED
        BY <1>9, <2>2, <2>3 DEF FirstSec
<1>22. cur <= cur' /\ whole' \in BOOLEAN /\ pos' \in Nat /\ last < m /\ last < n /\ cur' = n
    <2>1. last \in Nat /\ last <= cur
        BY DEF TypeOK, OrderInv
    <2>2. cur < m
        BY <1>3 DEF m
    <2> QED
        BY <1>1, <1>3, <1>4, <1>20, <2>1, <2>2
<1> QED
    BY <1>1, <1>3, <1>9, <1>19, <1>20, <1>21, <1>22, SendKeeps

-----------------------------------------------------------------------------
(* Steps of the line.  A packet that differs only in what is known about   *)
(* its way holds the same.                                                 *)
LEMMA SamePacket ==
    ASSUME NEW p, NEW q,
           q.pusi = p.pusi, q.ptr = p.ptr, q.cc = p.cc, q.data = p.data, q.ok = p.ok
    PROVE  /\ Holds(p) => Holds(q)
           /\ FirstSec(q) = FirstSec(p)
           /\ Before(q) = Before(p)
<1>1. Before(q) = Before(p)
    BY DEF Before
<1>2. GoesOn(p) => GoesOn(q)
    BY <1>1 DEF GoesOn
<1>3. \A a : EndsWith(p, a) => EndsWith(q, a)
    BY DEF EndsWith, Begins
<1>4. \A a, m : Begins(p, a, m) => Begins(q, a, m)
    BY DEF Begins
<1>5. StartsFrom(p) => StartsFrom(q)
    BY <1>3, <1>4 DEF StartsFrom
<1>6. Latest(p) => Latest(q)
    BY <1>2, <1>5 DEF Latest
<1>7. FirstSec(q) = FirstSec(p)
    BY DEF FirstSec, First
<1>8. Frame(p) => Frame(q)
    BY DEF Frame
<1> QED
    BY <1>1, <1>6, <1>7, <1>8 DEF Holds

LEMMA StillHolds ==
    ASSUME UNCHANGED <<len, cur, pos, cc>>
    PROVE  /\ Holds(wire') => Holds(wire)'
           /\ Holds(ts') => Holds(ts)'
BY DEF Holds, Frame, Latest, StartsFrom, GoesOn, EndsWith, Begins, Before

LEMMA LoseKeeps ==
    ASSUME IInv, Lose
    PROVE  IInv'
<1> USE DEF IInv
<1>1. /\ wire # None /\ wire' = None /\ faults < MaxFaults /\ faults' = faults + 1
      /\ whole' = FALSE
      /\ UNCHANGED <<len, cur, pos, cc, buf, ts, off, last, calls, repeats>>
    BY DEF Lose, Fault
<1>2. TypeOK'
    <2>1. faults' \in 0 .. MaxFaults
        BY <1>1, Sizes DEF TypeOK
    <2>2. wire' \in Packets \cup {None} /\ whole' \in BOOLEAN
        BY <1>1
    <2> QED
        BY <1>1, <2>1, <2>2 DEF TypeOK
<1>3. SenderInv' /\ WholeInv'
    BY <1>1 DEF SenderInv, WholeInv
<1>4. PacketInv'
    BY <1>1, StillHolds DEF PacketInv
<1>5. BufInv' /\ Sec' = Sec /\ (Complete' <=> Complete)
    BY <1>1 DEF BufInv, Sec, Complete
<1>6. ~Fresh(wire)' /\ (Fresh(ts)' <=> Fresh(ts))
    BY <1>1 DEF Fresh
<1>7. RepeatInv'
    BY <1>1, <1>6, Sizes DEF RepeatInv, TypeOK
<1>8. LoopInv'
    BY <1>1 DEF LoopInv, Sec, Complete, EndsWith, Begins
<1>9. OrderInv'
    BY <1>1 DEF OrderInv, FirstSec, First
<1>10. LagInv'
    <2> SUFFICES ASSUME buf.data # <<>>, buf.ok
                 PROVE  /\ Fresh(ts) /\ off = 0 => Reaches(ts)'
                        /\ ~Waiting' => ReachesEnd'
                        /\ ts # None /\ ~Waiting' => Between(buf.cc, cc) = 0
        BY <1>1, <1>6 DEF LagInv
    <2>1. faults \in Nat /\ faults' = faults + 1 /\ faults + 1 < CCMod /\ CCMod \in Nat
        BY <1>1, Sizes DEF TypeOK
    <2>2. ASSUME Fresh(ts), off = 0 PROVE Reaches(ts)'
        <3>1. Reaches(ts)
            BY <2>2 DEF LagInv
        <3>2. Prev(cc) \in 0 .. CCMod - 1 /\ buf.cc \in 0 .. CCMod - 1
            BY PrevIs, BufferFields DEF TypeOK
        <3>3. Between(buf.cc, Prev(cc)) \in 0 .. CCMod - 1
            BY <3>2, BetweenIs
        <3> QED
            BY <1>1, <1>5, <2>1, <3>1, <3>3 DEF Reaches, Before
    <2>3. CASE Fresh(wire)
        <3>1. Reaches(wire) /\ ts = None
            BY <2>3 DEF LagInv, RepeatInv
        <3>2. Prev(cc) \in 0 .. CCMod - 1 /\ buf.cc \in 0 .. CCMod - 1
              /\ cc = NextCC(Prev(cc))
            BY PrevIs, BufferFields DEF TypeOK
        <3>3. /\ Between(buf.cc, Prev(cc)) \in 0 .. CCMod - 1
              /\ Between(buf.cc, Prev(cc)) + 1 < CCMod =>
                     Between(buf.cc, cc) = Between(buf.cc, Prev(cc)) + 1
            BY <3>2, BetweenIs
        <3>4. Between(buf.cc, Prev(cc)) <= faults
            BY <3>1 DEF Reaches
        <3>5. Between(buf.cc, cc) <= faults + 1 /\ Between(buf.cc, cc) # 0
            BY <2>1, <3>3, <3>4
        <3> QED
            BY <1>1, <2>2, <3>1, <3>5 DEF ReachesEnd
    <2>4. CASE ~Fresh(wire)
        <3>1. Waiting' <=> Waiting
            BY <1>1, <1>6, <2>4 DEF Waiting
        <3>2. cc \in 0 .. CCMod - 1 /\ buf.cc \in 0 .. CCMod - 1
            BY BufferFields DEF TypeOK
        <3>3. Between(buf.cc, cc) \in 0 .. CCMod - 1
            BY <3>2, BetweenIs
        <3>4. ~Waiting => ReachesEnd'
            BY <1>1, <1>5, <2>1, <3>3 DEF ReachesEnd, LagInv
        <3> QED
            BY <1>1, <2>2, <3>1, <3>4 DEF LagInv
    <2> QED
        BY <2>3, <2>4
<1> QED
    BY <1>2, <1>3, <1>4, <1>5, <1>7, <1>8, <1>9, <1>10

(* Damage: a packet of the same size with a pointer into it. *)
LEMMA DamagedIs ==
    ASSUME NEW p \in Packets, NEW pusi \in BOOLEAN, NEW c \in 0 .. CCMod - 1,
           NEW ptr \in IF pusi THEN 0 .. Payload - 2 ELSE {0},
           NEW q, q = Damaged(p, pusi, ptr, c)
    PROVE  q \in Packets /\ q.since = p.since /\ ~q.ok /\ Frame(q)
<1> DEFINE size == IF pusi THEN Payload - 1 ELSE Payload
           d == [i \in 1 .. size |-> Noise]
<1>1. size \in Nat
    BY Sizes
<1>2. q = [p EXCEPT !.ok = FALSE, !.pusi = pusi, !.ptr = ptr, !.cc = c, !.data = d]
    BY DEF Damaged
<1>3. d \in Seq(Octets) /\ Len(d) = size
    <2> HIDE DEF size
    <2>1. Noise \in Octets
        BY Sizes DEF Noise, Octets
    <2> QED
        BY <1>1, <2>1
<1>4. ptr \in Nat /\ (pusi => ptr + 1 <= Payload - 1)
    BY Sizes
<1> HIDE DEF d
<1> QED
    BY <1>2, <1>3, <1>4 DEF Packets, Frame

LEMMA DamageKeeps ==
    ASSUME IInv, Damage
    PROVE  IInv'
<1> USE DEF IInv
<1>1. /\ wire # None /\ wire.ok /\ faults < MaxFaults /\ faults' = faults + 1 /\ whole' = FALSE
      /\ \E pusi \in BOOLEAN, c \in 0 .. CCMod - 1 :
           \E ptr \in IF pusi THEN 0 .. Payload - 2 ELSE {0} :
             wire' = Damaged(wire, pusi, ptr, c)
      /\ UNCHANGED <<len, cur, pos, cc, buf, ts, off, last, calls, repeats>>
    BY DEF Damage, Fault
<1>2. wire \in Packets
    BY <1>1 DEF TypeOK
<1>3. wire' \in Packets /\ wire'.since = wire.since /\ ~wire'.ok /\ Frame(wire')
    <2>1. PICK pusi \in BOOLEAN, c \in 0 .. CCMod - 1 :
               \E ptr \in IF pusi THEN 0 .. Payload - 2 ELSE {0} :
                 wire' = Damaged(wire, pusi, ptr, c)
        BY <1>1
    <2>2. PICK ptr \in IF pusi THEN 0 .. Payload - 2 ELSE {0} :
               wire' = Damaged(wire, pusi, ptr, c)
        BY <2>1
    <2> QED
        BY <1>2, <2>2, DamagedIs
<1>4. wire' # None
    BY <1>3, NoneIsNoPacket
<1>5. TypeOK'
    <2>1. faults' \in 0 .. MaxFaults
        BY <1>1, Sizes DEF TypeOK
    <2>2. wire' \in Packets \cup {None} /\ whole' \in BOOLEAN
        BY <1>1, <1>3
    <2> QED
        BY <1>1, <2>1, <2>2 DEF TypeOK
<1>6. SenderInv' /\ WholeInv'
    BY <1>1 DEF SenderInv, WholeInv
<1>7. PacketInv'
    <2>1. Holds(wire')
        BY <1>3 DEF Holds
    <2> QED
        BY <1>1, <2>1, StillHolds DEF PacketInv
<1>8. BufInv' /\ Sec' = Sec
    BY <1>1 DEF BufInv, Sec
<1>9. (Fresh(wire)' <=> Fresh(wire)) /\ (Fresh(ts)' <=> Fresh(ts)) /\ (Waiting' <=> Waiting)
    BY <1>1, <1>3, <1>4 DEF Fresh, Waiting
<1>10. faults \in Nat /\ faults' = faults + 1 /\ faults' >= 1
    BY <1>1, Sizes DEF TypeOK
<1>11. RepeatInv'
    BY <1>1, <1>9, <1>10 DEF RepeatInv
<1>12. LoopInv'
    BY <1>1 DEF LoopInv, Sec, Complete, EndsWith, Begins
<1>13. OrderInv'
    <2>1. Since' = Since
        BY <1>1, <1>3 DEF Since
    <2> QED
        BY <1>1, <1>3, <2>1 DEF OrderInv, FirstSec, First
<1>14. LagInv'
    <2> SUFFICES ASSUME buf.data # <<>>, buf.ok
                 PROVE  /\ Fresh(wire) => Reaches(wire)'
                        /\ Fresh(ts) /\ off = 0 => Reaches(ts)'
                        /\ ~Waiting => ReachesEnd'
                        /\ ~Waiting => Between(buf.cc, cc) = 0
        BY <1>1, <1>9 DEF LagInv
    <2>1. buf.cc \in 0 .. CCMod - 1 /\ cc \in 0 .. CCMod - 1 /\ Prev(cc) \in 0 .. CCMod - 1
        BY PrevIs, BufferFields DEF TypeOK
    <2>2. Between(buf.cc, cc) \in 0 .. CCMod - 1 /\ Between(buf.cc, Prev(cc)) \in 0 .. CCMod - 1
        BY <2>1, BetweenIs
    <2>3. Fresh(wire) => Reaches(wire)'
        BY <1>1, <1>3, <1>10, <2>2 DEF Reaches, LagInv
    <2>4. Fresh(ts) /\ off = 0 => Reaches(ts)'
        BY <1>1, <1>8, <1>10, <2>2 DEF Reaches, LagInv, Before
    <2>5. ~Waiting => ReachesEnd' /\ Between(buf.cc, cc) = 0
        BY <1>1, <1>8, <1>10, <2>2 DEF ReachesEnd, LagInv
    <2> QED
        BY <2>3, <2>4, <2>5
<1> QED
    BY <1>5, <1>6, <1>7, <1>8, <1>11, <1>12, <1>13, <1>14

LEMMA ComeKeeps ==
    ASSUME IInv, Come,
           \/ wire' = None /\ UNCHANGED <<faults, whole>>
           \/ wire' = [wire EXCEPT !.since = Since] /\ Fault
    PROVE  IInv'
<1> USE DEF IInv
<1>1. /\ wire # None /\ ts = None /\ ts' = wire /\ off' = 0 /\ last' = Since
      /\ repeats' = IF wire.since = None THEN repeats ELSE repeats + 1
      /\ UNCHANGED <<len, cur, pos, cc, buf, calls>>
    BY DEF Come
<1>2. off = 0
    BY <1>1 DEF LoopInv, TypeOK
<1>3. wire \in Packets /\ ts' # None
    BY <1>1 DEF TypeOK
<1>4. Since \in Nat /\ Since <= last /\ (wire.ok => Since < FirstSec(wire))
    <2>1. wire.since \in Nat \cup {None} /\ last \in Nat
        BY <1>3, PacketFields DEF TypeOK
    <2> QED
        BY <1>1, <2>1 DEF Since, OrderInv
<1>5. wire' = None \/ wire' = [wire EXCEPT !.since = Since]
    OBVIOUS
<1>6. wire' # None =>
        /\ wire' \in Packets /\ wire'.pusi = wire.pusi /\ wire'.ptr = wire.ptr
        /\ wire'.cc = wire.cc /\ wire'.data = wire.data /\ wire'.ok = wire.ok
        /\ wire'.since = Since /\ wire'.since # None
    <2>1. Since # None
        BY <1>4, Sizes
    <2> QED
        BY <1>3, <1>4, <1>5, <2>1 DEF Packets
<1>7. \/ faults' = faults /\ whole' = whole
      \/ faults' = faults + 1 /\ faults < MaxFaults /\ whole' = FALSE
    BY DEF Fault
<1>8. faults' \in 0 .. MaxFaults /\ faults <= faults' /\ faults \in Nat /\ faults' \in Nat
    BY <1>7, Sizes DEF TypeOK
<1>9. TypeOK'
    <2>1. wire' \in Packets \cup {None} /\ ts' \in Packets \cup {None} /\ whole' \in BOOLEAN
        BY <1>1, <1>3, <1>6, <1>7 DEF TypeOK
    <2>2. repeats' \in Nat /\ off' \in Nat /\ last' \in Nat
        BY <1>1, <1>4 DEF TypeOK
    <2> QED
        BY <1>1, <1>8, <2>1, <2>2 DEF TypeOK
<1>10. SenderInv' /\ LoopInv'
    BY <1>1 DEF SenderInv, LoopInv
<1>11. Holds(wire) /\ (wire.ok => FirstSec(wire) \in 1 .. cur)
    BY <1>1, <1>3, FirstSecIs DEF PacketInv, Holds
<1>12. wire' # None => Holds(wire') /\ FirstSec(wire') = FirstSec(wire)
    BY <1>6, <1>11, SamePacket
<1>13. PacketInv'
    BY <1>1, <1>11, <1>12, StillHolds DEF PacketInv
<1>14. BufInv' /\ Sec' = Sec /\ (Complete' <=> Complete)
    BY <1>1 DEF BufInv, Sec, Complete
<1>15. ~Fresh(wire)' /\ (Fresh(ts)' <=> Fresh(wire)) /\ ~Fresh(ts)
    BY <1>1, <1>6 DEF Fresh
<1>16. (Waiting' <=> Fresh(wire)) /\ (Waiting <=> Fresh(wire))
    BY <1>1, <1>15 DEF Waiting
<1>17. RepeatInv'
    <2>1. wire' # None => faults' >= 1
        <3> SUFFICES ASSUME wire' # None
                     PROVE  faults' >= 1
            OBVIOUS
        <3>1. Fault
            OBVIOUS
        <3> QED
            BY <1>8, <3>1 DEF Fault
    <2>2. ~Fresh(wire) => faults' >= 1
        BY <1>1, <1>8 DEF RepeatInv
    <2> QED
        BY <1>1, <1>15, <2>1, <2>2 DEF RepeatInv
<1>18. OrderInv'
    <2>1. cur \in Nat /\ last \in Nat /\ last' \in Nat /\ last' <= last
        BY <1>1, <1>4, Sizes DEF TypeOK
    <2>2. last' <= cur /\ (last' < cur \/ cur = 0 \/ pos = len[cur])
        <3>1. last <= cur /\ (last < cur \/ cur = 0 \/ pos = len[cur])
            BY DEF OrderInv
        <3> QED
            BY <2>1, <3>1
    <2>3. FirstSec(ts)' = FirstSec(wire)
        BY <1>1 DEF FirstSec, First
    <2>4. wire' # None => Since' = Since /\ FirstSec(wire)' = FirstSec(wire)
        BY <1>6, <1>12 DEF Since, FirstSec, First
    <2>5. wire' # None => Since' <= last' /\ (wire'.ok => Since' < FirstSec(wire)')
        BY <1>1, <1>4, <1>6, <2>1, <2>4
    <2> QED
        BY <1>1, <1>4, <2>2, <2>3, <2>5 DEF OrderInv
<1>19. LagInv'
    <2> SUFFICES ASSUME buf.data # <<>>, buf.ok
                 PROVE  /\ Fresh(wire) => Reaches(ts)'
                        /\ ~Fresh(wire) => ReachesEnd'
                        /\ ~Fresh(wire) => Between(buf.cc, cc) = 0
        BY <1>1, <1>15, <1>16 DEF LagInv
    <2>1. buf.cc \in 0 .. CCMod - 1 /\ cc \in 0 .. CCMod - 1 /\ Prev(cc) \in 0 .. CCMod - 1
        BY PrevIs, BufferFields DEF TypeOK
    <2>2. /\ Between(buf.cc, cc) \in 0 .. CCMod - 1
          /\ Between(buf.cc, Prev(cc)) \in 0 .. CCMod - 1
        BY <2>1, BetweenIs
    <2>3. Fresh(wire) => Reaches(ts)'
        <3>1. Before(ts)' = Before(wire)
            BY <1>1 DEF Before
        <3> QED
            BY <1>1, <1>8, <1>14, <2>2, <3>1 DEF Reaches, LagInv
    <2>4. ~Fresh(wire) => ReachesEnd' /\ Between(buf.cc, cc) = 0
        BY <1>1, <1>2, <1>8, <1>14, <1>16, <2>2 DEF ReachesEnd, LagInv
    <2> QED
        BY <2>3, <2>4
<1>20. WholeInv'
    <2> SUFFICES ASSUME whole'
                 PROVE  WholeInv'
        BY DEF WholeInv
    <2>1. wire' = None /\ whole
        BY DEF Fault
    <2> QED
        BY <1>1, <2>1 DEF WholeInv
<1> QED
    BY <1>9, <1>10, <1>13, <1>14, <1>17, <1>18, <1>19, <1>20

LEMMA ArriveKeeps ==
    ASSUME IInv, Arrive \/ ArriveRepeated
    PROVE  IInv'
BY ComeKeeps DEF Arrive, ArriveRepeated

-----------------------------------------------------------------------------
(* Rounds of the loop.  What psi_reassemble has put together in b of       *)
(* undamaged bytes, with n the next place in the packet: the beginning of  *)
(* a section, and                                                          *)
(*  - all that was sent of the section that the sender is at, or           *)
(*  - the whole section before it; the sender's starts at n.               *)
Whole(b) == Len(b.data) = len[b.data[1][1]]

PutTogether(b, n) ==
    /\ b \in Buffers /\ n \in Nat /\ n > 0
    /\ b.data # <<>> /\ b.cc = ts.cc
    /\ b.data[1][1] \in 1 .. cur
    /\ Len(b.data) <= len[b.data[1][1]]
    /\ \A i \in 1 .. Len(b.data) : b.data[i] = <<b.data[1][1], i>>
    /\ b.len = IF Len(b.data) > HdrLen THEN len[b.data[1][1]] ELSE 0
    /\ Whole(b) => last < b.data[1][1]
    /\ b.ok /\ ts.ok
    /\ \/ /\ b.data[1][1] = cur /\ Len(b.data) = pos
          /\ n <= Len(ts.data) => Whole(b) /\ ts.data[n] = Stuffing
       \/ ts.pusi /\ b.data[1][1] = cur - 1 /\ Whole(b) /\ EndsWith(ts, n)

(* The condition under which the callbacks are called. *)
Done(b) ==
    /\ b.len = Len(b.data)
    /\ Len(b.data) >= HdrLen
    /\ b.ok
    /\ b.data = Bytes(b.data[1][1])

LEMMA DoneIs ==
    ASSUME TypeOK, NEW b, NEW n, PutTogether(b, n)
    PROVE  Done(b) <=> b.ok /\ Whole(b)
<1> DEFINE m == b.data[1][1]
<1>1. /\ b.data \in Seq(Octets) /\ Len(b.data) \in Nat /\ Len(b.data) # 0
    <2>1. b.data \in Seq(Octets) /\ b.data # <<>>
        BY BufferFields DEF PutTogether
    <2> QED
        BY <2>1
<1>2. m \in 1 .. Sections /\ len[m] \in Nat /\ len[m] > HdrLen /\ HdrLen \in Nat
    <2>1. m \in 1 .. Sections
        BY Sizes DEF PutTogether, TypeOK
    <2> QED
        BY <2>1, LengthType, Sizes
<1>3. /\ Bytes(m) \in Seq(Octets) /\ Len(Bytes(m)) = len[m]
      /\ \A i \in 1 .. len[m] : Bytes(m)[i] = <<m, i>>
    BY <1>2, BytesAre
<1>4. /\ \A i \in 1 .. Len(b.data) : b.data[i] = <<m, i>>
      /\ b.len = IF Len(b.data) > HdrLen THEN len[m] ELSE 0
    BY DEF PutTogether
<1>5. ASSUME Done(b) PROVE b.ok /\ Whole(b)
    BY <1>3, <1>5 DEF Done, Whole
<1>6. ASSUME b.ok, Whole(b) PROVE Done(b)
    <2>1. Len(b.data) = len[m]
        BY <1>6 DEF Whole
    <2>2. b.data = Bytes(m)
        <3> HIDE DEF m
        <3> DEFINE d == b.data
                   e == Bytes(m)
        <3>1. d \in Seq(Octets) /\ e \in Seq(Octets) /\ Len(d) = Len(e)
              /\ \A i \in 1 .. Len(d) : d[i] = e[i]
            BY <1>1, <1>3, <1>4, <2>1
        <3> HIDE DEF d, e
        <3>2. d = e
            BY <3>1, SeqEqual, Zenon
        <3> QED
            BY <3>2 DEF d, e
    <2>3. b.len = Len(b.data) /\ Len(b.data) >= HdrLen
        BY <1>2, <1>4, <2>1
    <2> QED
        BY <1>6, <2>2, <2>3 DEF Done
<1> QED
    BY <1>5, <1>6

LEMMA FinishIs ==
    ASSUME TypeOK, NEW b, NEW n, PutTogether(b, n), Finish(b, n)
    PROVE  /\ buf' = b
           /\ UNCHANGED <<len, cur, pos, cc, wire, faults, whole, repeats>>
           /\ \/ /\ b.ok /\ Whole(b)
                 /\ last' = b.data[1][1] /\ calls' = ~calls
                 /\ \/ n <= Len(ts.data) /\ ts' = ts /\ off' = n
                    \/ ~(n <= Len(ts.data)) /\ ts' = None /\ off' = 0
              \/ /\ ~(b.ok /\ Whole(b))
                 /\ last' = last /\ calls' = calls /\ ts' = None /\ off' = 0
<1>1. /\ buf' = b
      /\ last' = IF Done(b) THEN b.data[1][1] ELSE last
      /\ calls' = (Done(b) # calls)
      /\ ts' = IF Done(b) /\ n <= Len(ts.data) THEN ts ELSE None
      /\ off' = IF Done(b) /\ n <= Len(ts.data) THEN n ELSE 0
      /\ UNCHANGED <<len, cur, pos, cc, wire, faults, whole, repeats>>
    BY DEF Finish, Done
<1>2. calls \in BOOLEAN
    BY DEF TypeOK
<1>3. CASE Done(b)
    <2>1. b.ok /\ Whole(b)
        BY <1>3, DoneIs
    <2>2. calls' = ~calls
        BY <1>1, <1>2, <1>3
    <2>3. last' = b.data[1][1]
        BY <1>1, <1>3
    <2>4. \/ n <= Len(ts.data) /\ ts' = ts /\ off' = n
          \/ ~(n <= Len(ts.data)) /\ ts' = None /\ off' = 0
        BY <1>1, <1>3
    <2> QED
        BY <1>1, <2>1, <2>2, <2>3, <2>4
<1>4. CASE ~Done(b)
    <2>1. ~(b.ok /\ Whole(b))
        BY <1>4, DoneIs
    <2>2. calls' = calls
        <3>0. Done(b) = FALSE
            BY <1>4 DEF Done
        <3>1. CASE calls = TRUE
            BY <1>1, <1>4, <3>1
        <3>2. CASE calls = FALSE
            BY <1>1, <3>0, <3>2
        <3> QED
            BY <1>2, <3>1, <3>2
    <2>3. last' = last /\ ts' = None /\ off' = 0
        BY <1>1, <1>4
    <2> QED
        BY <1>1, <2>1, <2>2, <2>3
<1> QED
    BY <1>3, <1>4

LEMMA FinishKeeps ==
    ASSUME IInv, ts # None, NEW b, NEW n, PutTogether(b, n), Finish(b, n)
    PROVE  IInv'
<1> USE DEF IInv
<1> DEFINE m == b.data[1][1]
<1>1. /\ buf' = b
      /\ UNCHANGED <<len, cur, pos, cc, wire, faults, whole, repeats>>
      /\ \/ /\ b.ok /\ Whole(b)
            /\ last' = m /\ calls' = ~calls
            /\ \/ n <= Len(ts.data) /\ ts' = ts /\ off' = n
               \/ ~(n <= Len(ts.data)) /\ ts' = None /\ off' = 0
         \/ /\ ~(b.ok /\ Whole(b))
            /\ last' = last /\ calls' = calls /\ ts' = None /\ off' = 0
    BY FinishIs
<1>2. /\ b \in Buffers /\ n \in Nat /\ n > 0 /\ b.data # <<>> /\ b.cc = ts.cc
      /\ m \in 1 .. cur
      /\ b.ok /\ ts.ok
      /\ Whole(b) => last < m
    BY DEF PutTogether
<1>3. /\ ts \in Packets /\ cur \in 0 .. Sections /\ m \in Nat /\ cur \in Nat /\ m <= cur
      /\ last \in Nat
    <2>1. ts \in Packets /\ cur \in 0 .. Sections /\ last \in Nat
        BY DEF TypeOK
    <2>2. cur \in Nat
        BY <2>1, Sizes
    <2> QED
        BY <1>2, <2>1, <2>2
<1>4. /\ ~Fresh(wire) /\ ~Fresh(wire)' /\ ~Waiting'
    <2>1. ~Fresh(wire)
        BY DEF RepeatInv
    <2>2. Fresh(ts)' => off' # 0
        BY <1>1, <1>2 DEF Fresh
    <2>3. ~Fresh(wire)'
        BY <1>1, <2>1 DEF Fresh
    <2> QED
        BY <2>1, <2>2, <2>3 DEF Waiting
<1>5. Sec' = m /\ (Complete' <=> Whole(b))
    BY <1>1 DEF Sec, Complete, Whole
<1>6. Between(buf'.cc, cc') = 0
    <2>1. ts.cc \in 0 .. CCMod - 1 /\ cc \in 0 .. CCMod - 1 /\ cc = NextCC(ts.cc)
        BY <1>2, <1>3, PacketFields DEF TypeOK, PacketInv, Holds, Latest
    <2>2. Between(ts.cc, cc) = 0
        BY <2>1, BetweenIs
    <2> QED
        BY <1>1, <1>2, <2>2
<1>7. TypeOK'
    <2>1. calls' \in BOOLEAN
        <3>1. calls \in BOOLEAN
            BY DEF TypeOK
        <3> QED
            BY <1>1, <3>1
    <2>2. ts' \in Packets \cup {None} /\ off' \in Nat /\ last' \in Nat
        <3> HIDE DEF m
        <3> QED
            BY <1>1, <1>2, <1>3
    <2> QED
        BY <1>1, <1>2, <2>1, <2>2 DEF TypeOK
<1>8. SenderInv' /\ PacketInv'
    <2>1. Holds(wire') => Holds(wire)'
        BY <1>1, StillHolds
    <2>2. Holds(ts') => Holds(ts)'
        BY <1>1, StillHolds
    <2> QED
        BY <1>1, <2>1, <2>2 DEF SenderInv, PacketInv
<1>9. BufInv'
    <2>1. b.len = 0 => Len(b.data) <= HdrLen
        <3>1. m \in 1 .. Sections
            BY <1>2, <1>3, Sizes
        <3>2. len[m] \in Nat /\ len[m] > HdrLen /\ HdrLen \in Nat
            BY <3>1, LengthType, Sizes
        <3>3. b.len = IF Len(b.data) > HdrLen THEN len[m] ELSE 0
            BY DEF PutTogether
        <3>4. Len(b.data) \in Nat
            BY <1>2, BufferFields
        <3> QED
            BY <3>2, <3>3, <3>4
    <2> QED
        BY <1>1, <1>5, <2>1 DEF BufInv, PutTogether, Sec
<1>10. RepeatInv'
    BY <1>1, <1>4 DEF RepeatInv, Fresh
<1>11. PICK where \in 1 .. 2 :
          /\ where = 1 => /\ m = cur /\ Len(b.data) = pos
                          /\ n <= Len(ts.data) => Whole(b) /\ ts.data[n] = Stuffing
          /\ where = 2 => ts.pusi /\ m = cur - 1 /\ Whole(b) /\ EndsWith(ts, n)
    <2>1. CASE m = cur /\ Len(b.data) = pos /\ (n <= Len(ts.data) => Whole(b) /\ ts.data[n] = Stuffing)
        <3> WITNESS 1 \in 1 .. 2
        <3> QED
            BY <2>1
    <2>2. CASE ts.pusi /\ m = cur - 1 /\ Whole(b) /\ EndsWith(ts, n)
        <3> WITNESS 2 \in 1 .. 2
        <3> QED
            BY <2>2
    <2> QED
        BY <2>1, <2>2 DEF PutTogether
<1> HIDE DEF m
<1>12. where = 2 => n <= Len(ts.data)
    <2>1. Len(ts.data) \in Nat
        BY <1>3, PacketFields
    <2>2. EndsWith(ts, n) => n \in 1 .. Len(ts.data)
        BY DEF EndsWith
    <2> QED
        BY <1>2, <1>11, <2>1, <2>2
<1>13. off' = 0 => m = cur /\ Len(b.data) = pos
    BY <1>1, <1>2, <1>11, <1>12
<1>14. LagInv'
    <2>1. ReachesEnd'
        <3>1. faults' \in Nat
            BY <1>7 DEF TypeOK
        <3> QED
            BY <1>1, <1>5, <1>6, <1>13, <3>1 DEF ReachesEnd
    <2>2. ~(Fresh(ts)' /\ off' = 0)
        BY <1>4 DEF Waiting
    <2> QED
        BY <1>4, <1>6, <2>1, <2>2 DEF LagInv
<1>15. LoopInv'
    <2> SUFFICES ASSUME off' > 0
                 PROVE  LoopInv'
        BY DEF LoopInv
    <2>1. /\ b.ok /\ Whole(b) /\ last' = m /\ n <= Len(ts.data) /\ ts' = ts /\ off' = n
          /\ ts'.ok
        BY <1>1, <1>2
    <2>2. CASE where = 1
        <3>1. pos = len[cur]
            BY <1>11, <2>1, <2>2 DEF Whole, m
        <3>2. ts'.data[off'] = Stuffing /\ Sec' = cur' /\ pos' = len'[cur']
            BY <1>1, <1>5, <1>11, <2>1, <2>2, <3>1
        <3> QED
            BY <1>1, <1>2, <1>5, <2>1, <3>2 DEF LoopInv
    <2>3. CASE where = 2
        <3>1. EndsWith(ts, off)'
            BY <1>1, <1>11, <2>1, <2>3 DEF EndsWith, Begins
        <3>2. ts'.pusi /\ Sec' = cur' - 1
            BY <1>1, <1>5, <1>11, <2>1, <2>3
        <3> QED
            BY <1>1, <1>2, <1>5, <2>1, <3>1, <3>2 DEF LoopInv
    <2> QED
        BY <1>11, <2>1, <2>2, <2>3
<1>16. last <= last' /\ last' <= cur /\ last' \in Nat
    <2>1. last <= cur
        BY DEF OrderInv
    <2> QED
        BY <1>1, <1>2, <1>3, <2>1
<1>17. OrderInv'
    <2>1. last' < cur \/ cur = 0 \/ pos = len[cur]
        <3>1. CASE last' = last
            BY <3>1 DEF OrderInv
        <3>2. CASE last' = m /\ b.ok /\ Whole(b) /\ where = 1
            BY <1>11, <3>2 DEF Whole, m
        <3>3. CASE last' = m /\ b.ok /\ Whole(b) /\ where = 2
            BY <1>3, <1>11, <3>3
        <3> QED
            BY <1>1, <1>11, <3>1, <3>2, <3>3
    <2>2. wire # None => /\ Since' = Since /\ FirstSec(wire)' = FirstSec(wire)
                         /\ Since \in Nat
        <3>1. wire # None => wire.since # None /\ wire.since \in Nat \cup {None}
            BY <1>4, PacketFields DEF Fresh, TypeOK
        <3> QED
            BY <1>1, <3>1 DEF Since, FirstSec, First
    <2>3. wire # None => Since' <= last' /\ (wire'.ok => Since' < FirstSec(wire)')
        BY <1>1, <1>3, <1>16, <2>2 DEF OrderInv
    <2>4. ~(ts' # None /\ off' = 0)
        BY <1>1, <1>2
    <2> QED
        BY <1>1, <1>16, <2>1, <2>3, <2>4 DEF OrderInv
<1>18. WholeInv'
    <2> SUFFICES ASSUME whole
                 PROVE  WholeInv'
        BY <1>1 DEF WholeInv
    <2>1. cur > 0 /\ ts.ok /\ ts.since = None /\ wire = None /\ b.ok
        <3>1. b.ok
            BY <1>2
        <3>2. cur > 0 /\ ts.ok /\ ts.since = None /\ wire = None
            BY DEF WholeInv
        <3> QED
            BY <3>1, <3>2
    <2>2. ~(ts' # None /\ off' = 0)
        BY <1>1, <1>2
    <2>3. ASSUME ts' = None, pos = len[cur]
          PROVE  last' = cur
        <3>1. off' = 0
            BY <1>1, <2>3, <1>3, NoneIsNoPacket
        <3>2. m = cur /\ Len(b.data) = pos
            BY <1>13, <2>1, <3>1
        <3>3. Whole(b)
            BY <2>3, <3>2 DEF Whole, m
        <3> QED
            BY <1>1, <2>1, <3>2, <3>3
    <2>4. ts' # None => ts' = ts
        BY <1>1
    <2> QED
        BY <1>1, <1>2, <1>6, <2>1, <2>2, <2>3, <2>4 DEF WholeInv
<1> QED
    BY <1>7, <1>8, <1>9, <1>10, <1>14, <1>15, <1>17, <1>18

(* The packet is done with and leaves the line as it was. *)
LEMMA DropKeeps ==
    ASSUME IInv, ts # None, ts' = None, off' = 0, buf' \in Buffers, BufInv', LagInv', WholeInv',
           UNCHANGED <<len, cur, pos, cc, wire, faults, whole, last, calls, repeats>>
    PROVE  IInv'
<1> USE DEF IInv
<1>1. TypeOK' /\ SenderInv' /\ LoopInv'
    BY DEF TypeOK, SenderInv, LoopInv
<1>2. PacketInv'
    <2>1. Holds(wire') => Holds(wire)'
        BY StillHolds
    <2> QED
        BY <2>1 DEF PacketInv
<1>3. RepeatInv'
    BY DEF RepeatInv, Fresh
<1>4. OrderInv'
    <2>1. Since' = Since /\ FirstSec(wire)' = FirstSec(wire)
        BY DEF Since, FirstSec, First
    <2> QED
        BY <2>1 DEF OrderInv
<1> QED
    BY <1>1, <1>2, <1>3, <1>4

(* Damaged bytes in the buffer: nothing is delivered and the packet is     *)
(* done with.                                                              *)
LEMMA BrokenKeeps ==
    ASSUME IInv, ts # None, NEW b \in Buffers, NEW n, ~b.ok, ~whole,
           b.len = 0 => Len(b.data) <= HdrLen, Finish(b, n)
    PROVE  IInv' /\ UNCHANGED <<cur, last, calls, repeats>>
<1> USE DEF IInv
<1>1. /\ buf' = b
      /\ last' = IF Done(b) THEN b.data[1][1] ELSE last
      /\ calls' = (Done(b) # calls)
      /\ ts' = IF Done(b) /\ n <= Len(ts.data) THEN ts ELSE None
      /\ off' = IF Done(b) /\ n <= Len(ts.data) THEN n ELSE 0
      /\ UNCHANGED <<len, cur, pos, cc, wire, faults, whole, repeats>>
    BY DEF Finish, Done
<1>2. Done(b) = FALSE
    BY DEF Done
<1>3. calls' = calls
    <2>1. calls \in BOOLEAN
        BY DEF TypeOK
    <2>2. CASE calls = TRUE
        BY <1>1, <1>2, <2>2
    <2>3. CASE calls = FALSE
        BY <1>1, <1>2, <2>3
    <2> QED
        BY <2>1, <2>2, <2>3
<1>4. /\ buf' = b /\ ts' = None /\ off' = 0
      /\ UNCHANGED <<len, cur, pos, cc, wire, faults, whole, last, calls, repeats>>
    BY <1>1, <1>2, <1>3
<1>5. BufInv' /\ LagInv' /\ WholeInv'
    BY <1>4 DEF BufInv, LagInv, WholeInv
<1> QED
    BY <1>4, <1>5, DropKeeps

(* Where a section starts in the packet: at the pointer, or behind the     *)
(* section that was delivered last.                                        *)
LEMMA StartsAt ==
    ASSUME IInv, ts # None, ts.ok, ts.pusi, off > 0 => ts.data[At] # Stuffing
    PROVE  \E m \in 1 .. cur :
               /\ At \in 1 .. Len(ts.data) /\ Begins(ts, At, m) /\ last < m
               /\ \/ m = cur /\ EndsWith(ts, At)
                  \/ m = cur - 1 /\ EndsWith(ts, At + len[m])
<1> USE DEF IInv
<1>1. ts \in Packets /\ Latest(ts)
    BY DEF TypeOK, PacketInv, Holds
<1>2. cur \in 1 .. Sections /\ cur \in Nat /\ cur \in 1 .. cur /\ last \in Nat /\ off \in Nat
    BY <1>1, Sizes DEF TypeOK, Latest
<1>3. CASE off > 0
    <2>1. At = off
        BY <1>2, <1>3 DEF At
    <2>2. Sec = cur - 1 /\ EndsWith(ts, off) /\ last = Sec
        BY <1>3, <2>1 DEF LoopInv
    <2>3. off \in 1 .. Len(ts.data) /\ Begins(ts, off, cur) /\ last < cur
        BY <1>2, <2>2 DEF EndsWith
    <2> QED
        BY <1>2, <2>1, <2>2, <2>3
<1>4. CASE off = 0
    <2> DEFINE a == ts.ptr + 1
    <2>1. At = a /\ First(ts) = a
        BY <1>4 DEF At, First
    <2>2. StartsFrom(ts) /\ last < FirstSec(ts)
        BY <1>1, <1>4 DEF Latest, OrderInv
    <2>3. ts.ptr \in Nat /\ Len(ts.data) \in Nat
        BY <1>1, PacketFields
    <2> HIDE DEF a
    <2>4. CASE EndsWith(ts, a)
        <3>1. a \in 1 .. Len(ts.data) /\ Begins(ts, a, cur)
            BY <2>4 DEF EndsWith
        <3>2. last < cur
            BY <1>1, <1>2, <2>2, FirstSecIs
        <3> QED
            BY <1>2, <2>1, <2>4, <3>1, <3>2
    <2>5. CASE cur > 1 /\ Begins(ts, a, cur - 1) /\ EndsWith(ts, a + len[cur - 1])
        <3>1. cur - 1 \in 1 .. Sections /\ cur - 1 \in 1 .. cur
            BY <1>2, <2>5, Sizes
        <3>2. len[cur - 1] \in Nat /\ len[cur - 1] > 0
            BY <3>1, LengthType, Sizes
        <3>3. a + len[cur - 1] \in 1 .. Len(ts.data) /\ a \in Nat /\ a > 0
            <4>1. a + len[cur - 1] \in 1 .. Len(ts.data)
                BY <2>5, Zenon DEF EndsWith
            <4>2. a \in Nat /\ a > 0
                BY <2>3 DEF a
            <4> QED
                BY <4>1, <4>2
        <3>4. a \in 1 .. Len(ts.data) /\ a \in a .. Len(ts.data) /\ a - a < len[cur - 1]
            BY <2>3, <3>2, <3>3
        <3>5. ts.data[a] = <<cur - 1, a - a + 1>>
            BY <2>5, <3>4 DEF Begins
        <3>6. FirstSec(ts) = cur - 1
            BY <2>1, <3>5 DEF FirstSec
        <3> QED
            BY <2>1, <2>2, <2>5, <3>1, <3>4, <3>6
    <2> QED
        BY <2>2, <2>4, <2>5 DEF StartsFrom, a
<1> QED
    BY <1>2, <1>3, <1>4

LEMMA StartWell ==
    ASSUME IInv, Start, ts.ok
    PROVE  IInv' /\ \E b, n : PutTogether(b, n) /\ Finish(b, n)
<1> USE DEF IInv
<1> DEFINE a == At
           left == Left
<1>0. ts # None /\ ts.pusi /\ (off > 0 => ts.data[At] # Stuffing)
    BY DEF Start, Going
<1> PICK l \in IF Left > HdrLen THEN LenField(ts.data[At + LenByte - 1]) ELSE {0} :
        LET copy == IF Left > HdrLen THEN Smaller(l, Left) ELSE Left
        IN  Finish([data |-> SubSeq(ts.data, At, At + copy - 1), len |-> l,
                    cc |-> StartedCC(ts), ok |-> ts.ok],
                   At + copy)
    BY DEF Start
<1> DEFINE copy == IF left > HdrLen THEN Smaller(l, left) ELSE left
           d == SubSeq(ts.data, At, At + copy - 1)
           b == [data |-> d, len |-> l, cc |-> StartedCC(ts), ok |-> ts.ok]
           n == At + copy
<1>1. /\ ts # None /\ ts.pusi /\ (off > 0 => ts.data[At] # Stuffing)
      /\ Finish(b, n)
    BY <1>0
<1>2. PICK m \in 1 .. cur :
          /\ a \in 1 .. Len(ts.data) /\ Begins(ts, a, m) /\ last < m
          /\ \/ m = cur /\ EndsWith(ts, a)
             \/ m = cur - 1 /\ EndsWith(ts, a + len[m])
    BY <1>1, StartsAt
<1>3. ts \in Packets /\ cur \in 0 .. Sections
    BY <1>1 DEF TypeOK
<1>4. /\ ts.data \in Seq(Octets) /\ Len(ts.data) \in Nat /\ ts.cc \in 0 .. CCMod - 1
      /\ ts.ok \in BOOLEAN
    BY <1>3, PacketFields
<1>5. m \in 1 .. Sections /\ HdrLen \in Nat /\ HdrLen >= 2 /\ LenByte = 2
    BY <1>3, Sizes
<1>6. len[m] \in Nat /\ len[m] > HdrLen
    BY <1>5, LengthType
<1> HIDE DEF a
<1>7. left \in Nat /\ left > 0 /\ left = Len(ts.data) - a + 1 /\ a \in Nat
    BY <1>2, <1>4 DEF a, Left
<1>8. left > HdrLen => l = len[m]
    <2> SUFFICES ASSUME left > HdrLen
                 PROVE  LenField(ts.data[At + LenByte - 1]) = {len[m]}
        OBVIOUS
    <2>1. At + LenByte - 1 = a + 1 /\ a + 1 \in a .. Len(ts.data) /\ (a + 1) - a < len[m]
        <3>1. At + LenByte - 1 = a + 1
            BY <1>5, <1>7 DEF a
        <3>2. Len(ts.data) - a + 1 > HdrLen /\ a \in Nat
            BY <1>7
        <3>3. Len(ts.data) \in Nat /\ HdrLen \in Nat /\ HdrLen >= 2
              /\ len[m] \in Nat /\ len[m] > HdrLen
            BY <1>4, <1>5, <1>6
        <3>4. a + 1 \in a .. Len(ts.data) /\ (a + 1) - a < len[m]
            BY <3>2, <3>3
        <3> QED
            BY <3>1, <3>4
    <2>2. ts.data[a + 1] = <<m, (a + 1) - a + 1>>
        BY <1>2, <2>1 DEF Begins
    <2> QED
        <3>1. (a + 1) - a + 1 = LenByte /\ m # 0
            BY <1>5, <1>7
        <3>2. ts.data[At + LenByte - 1] = <<m, LenByte>>
            BY <2>1, <2>2, <3>1
        <3> QED
            BY <3>1, <3>2 DEF LenField
<1>8a. ~(left > HdrLen) => l = 0
    OBVIOUS
<1> HIDE DEF left
<1>9. /\ copy = Smaller(len[m], left) /\ copy \in Nat /\ copy > 0 /\ copy <= left
      /\ copy <= len[m]
      /\ l = IF copy > HdrLen THEN len[m] ELSE 0
    <2>1. left > HdrLen => copy = Smaller(len[m], left)
        BY <1>8
    <2>2. ~(left > HdrLen) => copy = left /\ l = 0
        BY <1>8a
    <2> HIDE DEF copy
    <2> QED
        BY <1>5, <1>6, <1>7, <1>8, <2>1, <2>2 DEF Smaller
<1> HIDE DEF copy
<1>10. /\ d \in Seq(Octets) /\ Len(d) = copy
       /\ \A i \in 1 .. copy : d[i] = <<m, i>>
    <2> DEFINE e == a + copy - 1
    <2>0. a \in Nat /\ 1 <= a /\ copy \in Nat /\ copy > 0 /\ Len(ts.data) \in Nat
          /\ copy <= Len(ts.data) - a + 1
        BY <1>2, <1>4, <1>7, <1>9
    <2>1. e \in Nat /\ 1 <= a /\ a <= e + 1 /\ e <= Len(ts.data) /\ (e + 1) - a = copy
        BY <2>0
    <2>2. d = SubSeq(ts.data, a, e)
        BY DEF a
    <2> HIDE DEF d, e
    <2>3. /\ SubSeq(ts.data, a, e) \in Seq(Octets) /\ Len(SubSeq(ts.data, a, e)) = (e + 1) - a
          /\ \A i \in 1 .. (e + 1) - a : SubSeq(ts.data, a, e)[i] = ts.data[(a + i) - 1]
        <3>1. /\ ts.data \in Seq(Octets) /\ a \in Nat /\ e \in Nat
              /\ 1 <= a /\ a <= e + 1 /\ e <= Len(ts.data)
            BY <1>4, <2>0, <2>1
        <3> QED
            BY <3>1, SubSeqIs, Zenon
    <2>4. \A i \in 1 .. copy : d[i] = ts.data[(a + i) - 1]
        BY <2>1, <2>2, <2>3
    <2>5. ASSUME NEW i \in 1 .. copy
          PROVE  d[i] = <<m, i>>
        <3>1. /\ (a + i) - 1 \in a .. Len(ts.data) /\ ((a + i) - 1) - a < len[m]
              /\ ((a + i) - 1) - a + 1 = i
            BY <1>4, <1>6, <1>7, <1>9
        <3>2. ts.data[(a + i) - 1] = <<m, ((a + i) - 1) - a + 1>>
            BY <1>2, <3>1 DEF Begins
        <3> QED
            BY <2>4, <3>1, <3>2
    <2> QED
        BY <2>1, <2>2, <2>3, <2>5
<1> HIDE DEF d
<1>11. d # <<>> /\ d[1] = <<m, 1>>
    BY <1>9, <1>10
<1>12. /\ b \in Buffers /\ b.data = d /\ b.len = l /\ b.cc = ts.cc /\ b.ok = ts.ok
    <2>1. l \in Nat
        BY <1>6, <1>9
    <2> QED
        BY <1>4, <1>10, <2>1 DEF Buffers, StartedCC
<1>13. n = a + copy /\ n \in Nat /\ n > 0
    BY <1>7, <1>9 DEF a
<1> HIDE DEF b, n
<1>14. b.data[1][1] = m
    BY <1>11, <1>12
<1>15. \/ /\ m = cur /\ Len(d) = pos
          /\ n <= Len(ts.data) => Len(d) = len[m] /\ ts.data[n] = Stuffing
       \/ m = cur - 1 /\ Len(d) = len[m] /\ EndsWith(ts, n)
    <2>1. CASE m = cur /\ EndsWith(ts, a)
        <3>1. pos = Smaller(len[m], left) /\ (a + len[m] <= Len(ts.data) => ts.data[a + len[m]] = Stuffing)
            BY <1>7, <2>1 DEF EndsWith
        <3>2. n <= Len(ts.data) => copy = len[m] /\ n = a + len[m]
            BY <1>4, <1>6, <1>7, <1>9, <1>13 DEF Smaller
        <3> QED
            BY <1>9, <1>10, <2>1, <3>1, <3>2
    <2>2. CASE m = cur - 1 /\ EndsWith(ts, a + len[m])
        <3>1. a + len[m] \in 1 .. Len(ts.data)
            BY <2>2, Zenon DEF EndsWith
        <3>2. copy = len[m] /\ n = a + len[m]
            BY <1>4, <1>6, <1>7, <1>9, <1>13, <3>1 DEF Smaller
        <3> QED
            BY <1>10, <2>2, <3>2
    <2> QED
        BY <1>2, <2>1, <2>2
<1>17. PutTogether(b, n)
    BY <1>1, <1>2, <1>6, <1>9, <1>10, <1>11, <1>12, <1>13, <1>14, <1>15
       DEF PutTogether, Whole
<1> QED
    BY <1>1, <1>17, FinishKeeps

(* The length that is read in any packet. *)
LEMMA LenFieldIs ==
    ASSUME TypeOK, NEW e \in Octets, NEW l \in LenField(e)
    PROVE  l \in Nat /\ l > 0
<1>1. CASE e[1] # 0 /\ e[2] = LenByte
    <2>1. e[1] \in 1 .. Sections /\ l = len[e[1]]
        BY <1>1, Sizes DEF Octets, LenField
    <2> QED
        BY <2>1, LengthType, Sizes
<1>2. CASE ~(e[1] # 0 /\ e[2] = LenByte)
    <2>1. l \in LenByte .. MaxLen /\ MaxLen \in Nat
        BY <1>2, PsiAssumption DEF LenField
    <2> QED
        BY <2>1, Sizes
<1> QED
    BY <1>1, <1>2

LEMMA StartBadly ==
    ASSUME IInv, Start, ~ts.ok
    PROVE  IInv' /\ UNCHANGED <<cur, last, calls, repeats>>
<1> USE DEF IInv
<1>1. ts # None /\ ts.pusi
    BY DEF Start, Going
<1>2. PICK l \in IF Left > HdrLen THEN LenField(ts.data[At + LenByte - 1]) ELSE {0} :
        LET copy == IF Left > HdrLen THEN Smaller(l, Left) ELSE Left
        IN  Finish([data |-> SubSeq(ts.data, At, At + copy - 1), len |-> l,
                    cc |-> StartedCC(ts), ok |-> ts.ok],
                   At + copy)
    BY DEF Start
<1> DEFINE copy == IF Left > HdrLen THEN Smaller(l, Left) ELSE Left
           d == SubSeq(ts.data, At, At + copy - 1)
           b == [data |-> d, len |-> l, cc |-> StartedCC(ts), ok |-> ts.ok]
           n == At + copy
<1>3. Finish(b, n)
    BY <1>2
<1>4. /\ ts \in Packets /\ ts.data \in Seq(Octets) /\ ts.ptr \in Nat /\ ts.cc \in 0 .. CCMod - 1
      /\ ts.ok \in BOOLEAN
    BY <1>1, PacketFields DEF TypeOK
<1>5. Len(ts.data) = Payload - 1 /\ ts.ptr + 1 <= Payload - 1
    BY <1>1 DEF PacketInv, Holds, Frame
<1>6. off = 0 /\ ~whole
    BY <1>1 DEF LoopInv, WholeInv, TypeOK
<1>7. At \in Nat /\ At >= 1 /\ At <= Len(ts.data) /\ Left = Len(ts.data) - At + 1
    BY <1>1, <1>4, <1>5, <1>6, Sizes DEF At, First, Left
<1>8. Left \in Nat /\ Left >= 1 /\ Len(ts.data) \in Nat
    BY <1>4, <1>7
<1>9. l \in Nat /\ (Left > HdrLen => l > 0)
    <2>1. CASE Left > HdrLen
        <3>1. At + LenByte - 1 \in 1 .. Len(ts.data)
            BY <1>7, <1>8, <2>1, Sizes
        <3>2. ts.data[At + LenByte - 1] \in Octets
            BY <1>4, <3>1
        <3> QED
            BY <1>2, <2>1, <3>2, LenFieldIs
    <2>2. CASE ~(Left > HdrLen)
        BY <1>2, <2>2
    <2> QED
        BY <2>1, <2>2
<1>10. copy \in Nat /\ copy <= Left /\ (~(Left > HdrLen) => copy <= HdrLen)
    BY <1>8, <1>9, Sizes DEF Smaller
<1> HIDE DEF copy
<1>11. d \in Seq(Octets) /\ Len(d) = copy
    <2> DEFINE e == At + copy - 1
    <2>1. e \in Nat /\ At <= e + 1 /\ e <= Len(ts.data) /\ (e + 1) - At = copy
        BY <1>7, <1>8, <1>10
    <2> HIDE DEF e
    <2>2. SubSeq(ts.data, At, e) \in Seq(Octets) /\ Len(SubSeq(ts.data, At, e)) = (e + 1) - At
        <3>1. ts.data \in Seq(Octets) /\ At \in Nat /\ e \in Nat /\ 1 <= At /\ At <= e + 1
              /\ e <= Len(ts.data)
            BY <1>4, <1>7, <2>1
        <3> QED
            BY <3>1, SubSeqIs, Zenon
    <2> QED
        BY <2>1, <2>2 DEF e
<1> HIDE DEF d
<1>12. b \in Buffers /\ ~b.ok /\ b.data = d /\ b.len = l
    BY <1>4, <1>9, <1>11 DEF Buffers, StartedCC
<1>13. b.len = 0 => Len(b.data) <= HdrLen
    BY <1>9, <1>10, <1>11, <1>12
<1> HIDE DEF b, n
<1> QED
    BY <1>1, <1>3, <1>6, <1>12, <1>13, BrokenKeeps

LEMMA StartKeeps ==
    ASSUME IInv, Start
    PROVE  /\ IInv'
           /\ \/ \E b, n : PutTogether(b, n) /\ Finish(b, n)
              \/ UNCHANGED <<cur, last, calls, repeats>>
BY StartWell, StartBadly

(* A part of t behind s: what psi_reassemble_continue appends. *)
Appended(s, t, a, h, x) ==
    /\ x \in Seq(Octets) /\ Len(x) = Len(s) + h
    /\ \A i \in 1 .. Len(s) : x[i] = s[i]
    /\ \A i \in 1 .. h : x[Len(s) + i] = t[(a + i) - 1]

LEMMA AppendIs ==
    ASSUME NEW s \in Seq(Octets), NEW t \in Seq(Octets), NEW a \in Nat,
           NEW h \in Nat, a >= 1, a + h - 1 <= Len(t)
    PROVE  Appended(s, t, a, h, s \o SubSeq(t, a, a + h - 1))
<1> DEFINE e == a + h - 1
           x == s \o SubSeq(t, a, a + h - 1)
           u == SubSeq(t, a, e)
<1>1. Len(s) \in Nat /\ Len(t) \in Nat
    OBVIOUS
<1>2. e \in Nat /\ a <= e + 1 /\ e <= Len(t) /\ (e + 1) - a = h
    BY <1>1
<1>3. x = s \o u
    OBVIOUS
<1> HIDE DEF e, x
<1>4. /\ u \in Seq(Octets) /\ Len(u) = (e + 1) - a
      /\ \A i \in 1 .. (e + 1) - a : u[i] = t[(a + i) - 1]
    <2>1. t \in Seq(Octets) /\ a \in Nat /\ e \in Nat /\ 1 <= a /\ a <= e + 1 /\ e <= Len(t)
        BY <1>2
    <2> QED
        BY <2>1, SubSeqIs, ZenonT(30)
<1> HIDE DEF u
<1>5. /\ x \in Seq(Octets) /\ Len(x) = Len(s) + Len(u)
      /\ \A i \in 1 .. Len(s) : x[i] = s[i]
      /\ \A i \in 1 .. Len(u) : x[Len(s) + i] = u[i]
    <2>1. /\ s \o u \in Seq(Octets) /\ Len(s \o u) = Len(s) + Len(u)
          /\ \A i \in 1 .. Len(s) : (s \o u)[i] = s[i]
          /\ \A i \in 1 .. Len(u) : (s \o u)[Len(s) + i] = u[i]
        BY <1>4, ConcatIs, Zenon
    <2> QED
        BY <1>3, <2>1, Zenon
<1>6. Len(u) = h /\ Len(x) = Len(s) + h
    BY <1>2, <1>4, <1>5
<1>7. ASSUME NEW i \in 1 .. h
      PROVE  x[Len(s) + i] = t[(a + i) - 1]
    BY <1>2, <1>4, <1>5, <1>6
<1>8. Appended(s, t, a, h, x)
    BY <1>5, <1>6, <1>7 DEF Appended
<1> QED
    BY <1>8 DEF x

(* The packet that goes on with the buffer has come for the first time, as *)
(* the counter of one that comes again is that of the buffer.              *)
LEMMA ContinuesIs ==
    ASSUME IInv, ts # None, off > 0 => ts.data[At] # Stuffing,
           ~ts.pusi, buf.data # <<>>, Continues(ts), buf.ok, ts.ok
    PROVE  /\ off = 0 /\ At = 1 /\ cur \in 1 .. Sections /\ GoesOn(ts) /\ last < cur
           /\ Sec = cur /\ Len(buf.data) = Before(ts)
<1> USE DEF IInv
<1>1. ts \in Packets /\ Latest(ts) /\ off \in Nat /\ cur \in 0 .. Sections
    BY DEF TypeOK, PacketInv, Holds
<1>2. cur \in 1 .. Sections /\ GoesOn(ts) /\ cc = NextCC(ts.cc)
    BY <1>1, Sizes DEF Latest
<1>3. off = 0
    <2> SUFFICES ASSUME off > 0
                 PROVE  FALSE
        BY <1>1
    <2>1. At = off
        BY <1>1 DEF At
    <2> QED
        BY <2>1 DEF LoopInv
<1>4. At = 1
    BY <1>3 DEF At, First
<1>5. last < cur
    BY <1>1, <1>3, FirstSecIs DEF OrderInv
<1>6. buf.cc \in 0 .. CCMod - 1 /\ ts.cc \in 0 .. CCMod - 1 /\ cc \in 0 .. CCMod - 1
    BY <1>1, PacketFields, BufferFields DEF TypeOK
<1>7. ts.cc = NextCC(buf.cc) /\ Between(buf.cc, ts.cc) = 0
    BY <1>6, BetweenIs DEF Continues
<1>8. Fresh(ts)
    <2> SUFFICES ASSUME ~Fresh(ts)
                 PROVE  FALSE
        OBVIOUS
    <2>1. faults >= 1 /\ ~Fresh(wire)
        BY DEF RepeatInv
    <2>2. CCMod > 1
        BY <2>1, Sizes DEF TypeOK
    <2>3. Between(buf.cc, cc) = 0
        BY <2>1 DEF LagInv, Waiting
    <2>4. cc = NextCC(buf.cc)
        BY <1>6, <2>3, BetweenIs
    <2>5. NextCC(ts.cc) # NextCC(buf.cc)
        BY <1>6, <1>7, <2>2, BetweenIs
    <2> QED
        BY <1>2, <2>4, <2>5
<1>9. Reaches(ts)
    BY <1>3, <1>8 DEF LagInv
<1>10. Sec = cur /\ Len(buf.data) = Before(ts)
    <2>1. Prev(cc) = ts.cc
        BY <1>2, <1>6, PrevIs
    <2> QED
        BY <1>7, <1>9, <2>1 DEF Reaches
<1> QED
    BY <1>2, <1>3, <1>4, <1>5, <1>10

LEMMA ContinueWell ==
    ASSUME IInv, Continue, buf.ok, ts.ok
    PROVE  IInv' /\ \E b, n : PutTogether(b, n) /\ Finish(b, n)
<1> USE DEF IInv
<1> DEFINE k == Len(buf.data)
           hdr == HdrRest
           head == Begun
<1>0. /\ ts # None /\ (off > 0 => ts.data[At] # Stuffing)
      /\ ~ts.pusi /\ buf.data # <<>> /\ Continues(ts)
    BY DEF Continue, Going
<1> PICK l \in IF buf.len = 0 THEN LenField(Begun[LenByte]) ELSE {buf.len} :
        LET at   == At + HdrRest
            copy == Copied(Left - HdrRest, l, Len(Begun))
        IN  Finish([data |-> Begun \o SubSeq(ts.data, at, at + copy - 1), len |-> l,
                    cc |-> ts.cc, ok |-> buf.ok /\ ts.ok],
                   at + copy)
    BY DEF Continue
<1> DEFINE copy == Copied(Left - hdr, l, Len(head))
           d == head \o SubSeq(ts.data, At + hdr, At + hdr + copy - 1)
           b == [data |-> d, len |-> l, cc |-> ts.cc, ok |-> buf.ok /\ ts.ok]
           n == At + hdr + copy
<1>1. /\ ts # None /\ (off > 0 => ts.data[At] # Stuffing)
      /\ ~ts.pusi /\ buf.data # <<>> /\ Continues(ts)
      /\ Finish(b, n)
    BY <1>0
<1>1a. l \in IF buf.len = 0 THEN LenField(head[LenByte]) ELSE {buf.len}
    OBVIOUS
<1>2. /\ off = 0 /\ At = 1 /\ cur \in 1 .. Sections /\ GoesOn(ts) /\ last < cur
      /\ Sec = cur /\ k = Before(ts)
    BY <1>1, ContinuesIs
<1>3. /\ ts \in Packets /\ buf \in Buffers /\ cur \in Nat
      /\ Sec \in 1 .. cur /\ Sec \in 1 .. Sections
      /\ k <= len[Sec]
      /\ \A i \in 1 .. k : buf.data[i] = <<Sec, i>>
      /\ buf.len = IF k > HdrLen THEN len[Sec] ELSE 0
    <2>1. ts \in Packets /\ buf \in Buffers /\ cur \in Nat
        BY <1>1, <1>2, Sizes, SMTT(30) DEF TypeOK
    <2>2. /\ Sec \in 1 .. cur /\ k <= len[Sec]
          /\ \A i \in 1 .. k : buf.data[i] = <<Sec, i>>
          /\ buf.len = IF k > HdrLen THEN len[Sec] ELSE 0
        BY <1>1 DEF BufInv
    <2>3. Sec \in 1 .. Sections
        BY <1>2, <2>2, Sizes
    <2> QED
        BY <2>1, <2>2, <2>3
<1>4. /\ ts.data \in Seq(Octets) /\ ts.cc \in 0 .. CCMod - 1
      /\ ts.ok \in BOOLEAN /\ buf.ok \in BOOLEAN
      /\ buf.data \in Seq(Octets)
    BY <1>3, PacketFields, BufferFields
<1>5. k \in Nat /\ k > 0
    <2>1. buf.data \in Seq(Octets) /\ buf.data # <<>>
        BY <1>1, <1>4
    <2> QED
        BY <2>1
<1>6. HdrLen \in Nat /\ HdrLen >= 2 /\ LenByte = 2 /\ Payload \in Nat /\ Payload > HdrLen
    BY Sizes
<1>7. len[Sec] \in Nat /\ len[Sec] > HdrLen /\ len[cur] \in Nat /\ len[cur] > HdrLen
    BY <1>2, <1>3, LengthType
<1>8. /\ Len(ts.data) = Payload
      /\ Before(ts) \in 1 .. len[cur] - 1
      /\ \A i \in 1 .. Payload : Before(ts) + i <= len[cur] => ts.data[i] = <<cur, Before(ts) + i>>
      /\ pos = Smaller(len[cur], Before(ts) + Payload)
      /\ len[cur] - Before(ts) < Payload => ts.data[len[cur] - Before(ts) + 1] = Stuffing
    BY <1>2 DEF GoesOn
<1>9. buf.len = 0 <=> ~(k > HdrLen)
    <2>1. buf.len = (IF k > HdrLen THEN len[Sec] ELSE 0) /\ len[Sec] # 0
        BY <1>3, <1>6, <1>7
    <2> HIDE DEF k
    <2> QED
        BY <2>1
<1>10. hdr = IF k > HdrLen THEN 0 ELSE HdrLen - k
    BY <1>9 DEF HdrRest
<1>10a. head = buf.data \o SubSeq(ts.data, At, At + hdr - 1)
    BY DEF Begun
<1> HIDE DEF hdr, k, head
<1>11. hdr \in Nat /\ hdr < Payload
    BY <1>5, <1>6, <1>10
<1>12. /\ head \in Seq(Octets) /\ Len(head) = k + hdr
       /\ \A i \in 1 .. k : head[i] = <<Sec, i>>
       /\ \A i \in 1 .. hdr : head[k + i] = ts.data[i]
    <2>1. At \in Nat /\ At >= 1 /\ At + hdr - 1 <= Len(ts.data)
        BY <1>2, <1>8, <1>11, <1>6
    <2> DEFINE x == head
    <2>2. x = buf.data \o SubSeq(ts.data, At, At + hdr - 1)
        BY <1>10a
    <2> HIDE DEF x
    <2>3. /\ x \in Seq(Octets) /\ Len(x) = Len(buf.data) + hdr
          /\ \A i \in 1 .. Len(buf.data) : x[i] = buf.data[i]
          /\ \A i \in 1 .. hdr : x[Len(buf.data) + i] = ts.data[(At + i) - 1]
        <3>1. /\ buf.data \in Seq(Octets) /\ ts.data \in Seq(Octets)
              /\ At \in Nat /\ hdr \in Nat /\ At >= 1 /\ At + hdr - 1 <= Len(ts.data)
            BY <1>4, <1>11, <2>1
        <3>2. Appended(buf.data, ts.data, At, hdr, buf.data \o SubSeq(ts.data, At, At + hdr - 1))
            BY <3>1, AppendIs, Zenon
        <3> QED
            BY <2>2, <3>2 DEF Appended
    <2>4. \A i \in 1 .. hdr : (At + i) - 1 = i
        BY <1>2, <1>11
    <2> QED
        BY <1>3, <2>3, <2>4 DEF k, x
<1>13. /\ l = len[cur]
       /\ copy \in Nat /\ hdr + copy <= Payload
       /\ k + hdr + copy = pos /\ pos > HdrLen
       /\ hdr + copy < Payload => pos = len[cur] /\ ts.data[1 + (hdr + copy)] = Stuffing
    <2>1. l = len[cur]
        <3>1. CASE k > HdrLen
            <4>1. buf.len # 0 /\ buf.len = len[Sec]
                BY <1>3, <1>9, <3>1
            <4> QED
                BY <1>1a, <1>2, <4>1
        <3>2. CASE ~(k > HdrLen)
            <4>1. LenByte \in 1 .. k + hdr
                BY <1>5, <1>6, <1>10, <3>2
            <4>2. head[LenByte] = <<cur, LenByte>>
                <5>1. CASE LenByte <= k
                    BY <1>2, <1>5, <1>6, <1>12, <5>1
                <5>2. CASE ~(LenByte <= k)
                    <6>1. k = 1 /\ 1 \in 1 .. hdr /\ 1 \in 1 .. Payload /\ 1 + 1 <= len[cur]
                        BY <1>5, <1>6, <1>7, <1>11, <4>1, <5>2
                    <6>2. head[1 + 1] = ts.data[1] /\ ts.data[1] = <<cur, 1 + 1>>
                        BY <1>2, <1>8, <1>12, <6>1
                    <6> QED
                        BY <1>6, <6>2
                <5> QED
                    BY <5>1, <5>2
            <4>3. LenField(head[LenByte]) = {len[cur]}
                BY <1>2, <4>2 DEF LenField
            <4> QED
                BY <1>1a, <1>9, <3>2, <4>3
        <3> QED
            BY <3>1, <3>2
    <2>2. copy = Smaller(Payload - hdr, len[cur] - (k + hdr))
        <3>1. Left - hdr = Payload - hdr
            BY <1>2, <1>6, <1>8, <1>11 DEF Left
        <3>2. l - Len(head) = len[cur] - (k + hdr) /\ l >= Len(head)
            <4>1. k < len[cur] /\ k + hdr <= len[cur]
                BY <1>2, <1>5, <1>6, <1>7, <1>8, <1>10
            <4> QED
                BY <1>5, <1>7, <1>11, <1>12, <2>1, <4>1
        <3> QED
            BY <3>1, <3>2 DEF copy, Copied
    <2> HIDE DEF copy
    <2>3. k < len[cur]
        BY <1>2, <1>5, <1>7, <1>8
    <2>4. /\ copy \in Nat /\ hdr + copy <= Payload
          /\ k + hdr + copy = Smaller(len[cur], k + Payload)
          /\ k + hdr + copy > HdrLen
          /\ hdr + copy < Payload => hdr + copy = len[cur] - k
        <3>1. /\ Payload \in Nat /\ k \in Nat /\ len[cur] \in Nat /\ HdrLen \in Nat
              /\ Payload > HdrLen /\ len[cur] > HdrLen /\ k < len[cur]
            BY <1>5, <1>6, <1>7, <2>3
        <3> DEFINE m == len[cur]
                   c == copy
                   Fits(x, y) == /\ x \in Nat /\ hdr + x <= Payload
                                 /\ k + hdr + x = Smaller(y, k + Payload)
                                 /\ k + hdr + x > HdrLen
                                 /\ hdr + x < Payload => hdr + x = y - k
        <3>2. /\ Payload \in Nat /\ k \in Nat /\ m \in Nat /\ HdrLen \in Nat
              /\ Payload > HdrLen /\ m > HdrLen /\ k < m
              /\ hdr \in Nat /\ hdr < Payload
              /\ c = IF Payload - hdr <= m - (k + hdr) THEN Payload - hdr ELSE m - (k + hdr)
            BY <1>11, <2>2, <3>1 DEF Smaller
        <3>3. k + hdr <= m
            BY <1>10, <3>1
        <3> HIDE DEF m, c, Fits
        <3>4. ASSUME Payload - hdr <= m - (k + hdr)
              PROVE  Fits(c, m)
            <4>1. c = Payload - hdr /\ k + Payload <= m
                BY <3>2, <3>4
            <4> QED
                BY <3>2, <4>1 DEF Smaller, Fits
        <3>5. ASSUME ~(Payload - hdr <= m - (k + hdr))
              PROVE  Fits(c, m)
            <4>1. c = m - (k + hdr) /\ ~(k + Payload <= m) /\ hdr + c = m - k /\ c \in Nat
                BY <3>2, <3>3, <3>5
            <4> QED
                BY <3>2, <4>1 DEF Smaller, Fits
        <3> QED
            BY <3>4, <3>5 DEF Fits, m, c
    <2>5. k + hdr + copy = pos
        BY <1>2, <1>8, <2>4
    <2>6. ASSUME hdr + copy < Payload
          PROVE  pos = len[cur] /\ ts.data[1 + (hdr + copy)] = Stuffing
        <3>1. hdr + copy = len[cur] - k
            BY <2>4, <2>6
        <3>2. pos = len[cur] /\ 1 + (hdr + copy) = len[cur] - k + 1
            <4>1. k \in Nat /\ len[cur] \in Nat /\ hdr \in Nat /\ copy \in Nat
                BY <1>5, <1>7, <1>11, <2>4
            <4>2. k + hdr + copy = len[cur] /\ 1 + (hdr + copy) = len[cur] - k + 1
                <5> DEFINE m == len[cur]
                <5>1. k \in Nat /\ hdr \in Nat /\ copy \in Nat /\ m \in Nat /\ hdr + copy = m - k
                    BY <3>1, <4>1
                <5> HIDE DEF m
                <5>2. k + hdr + copy = m /\ 1 + (hdr + copy) = m - k + 1
                    BY <5>1
                <5> QED
                    BY <5>2 DEF m
            <4> QED
                BY <2>5, <4>2, Zenon
        <3>3. len[cur] - k < Payload
            BY <2>6, <3>1
        <3> QED
            BY <1>2, <1>8, <3>2, <3>3
    <2> QED
        BY <2>1, <2>4, <2>5, <2>6
<1> HIDE DEF copy
<1>15. /\ copy \in Nat /\ hdr + copy <= Payload
       /\ l = len[Sec] /\ k + hdr + copy > HdrLen /\ k + hdr + copy <= len[Sec]
       /\ k + hdr + copy = pos
       /\ hdr + copy < Payload => pos = len[cur] /\ ts.data[1 + (hdr + copy)] = Stuffing
    <2>1. pos <= len[cur]
        BY <1>6, <1>7, <1>8 DEF Smaller
    <2> QED
        BY <1>2, <1>13, <2>1
<1>16. /\ d \in Seq(Octets) /\ Len(d) = k + hdr + copy
       /\ \A i \in 1 .. k + hdr : d[i] = head[i]
       /\ \A i \in 1 .. copy : d[(k + hdr) + i] = ts.data[(At + hdr + i) - 1]
    <2> DEFINE x == d
               a == At + hdr
    <2>1. head \in Seq(Octets) /\ ts.data \in Seq(Octets)
          /\ a \in Nat /\ copy \in Nat /\ a >= 1 /\ a + copy - 1 <= Len(ts.data)
        BY <1>2, <1>4, <1>6, <1>8, <1>11, <1>12, <1>15
    <2>2. x = head \o SubSeq(ts.data, a, a + copy - 1)
        OBVIOUS
    <2> HIDE DEF x, a
    <2>3. /\ x \in Seq(Octets) /\ Len(x) = Len(head) + copy
          /\ \A i \in 1 .. Len(head) : x[i] = head[i]
          /\ \A i \in 1 .. copy : x[Len(head) + i] = ts.data[(a + i) - 1]
        <3>1. Appended(head, ts.data, a, copy, head \o SubSeq(ts.data, a, a + copy - 1))
            BY <2>1, AppendIs, Zenon
        <3> QED
            BY <2>2, <3>1 DEF Appended
    <2> QED
        BY <1>12, <2>3 DEF x, a
<1> HIDE DEF d
<1>17. \A i \in 1 .. k + hdr + copy : d[i] = <<Sec, i>>
    <2> SUFFICES ASSUME NEW i \in 1 .. k + hdr + copy
                 PROVE  d[i] = <<Sec, i>>
        OBVIOUS
    <2>1. CASE i <= k
        <3>1. i \in 1 .. k /\ i \in 1 .. k + hdr
            BY <1>5, <1>11, <2>1
        <3> QED
            BY <1>12, <1>16, <3>1
    <2>2. CASE ~(i <= k)
        <3> DEFINE j == i - k
        <3>1. j \in 1 .. hdr + copy /\ j \in 1 .. Payload /\ k + j = i
            BY <1>5, <1>6, <1>11, <1>15, <2>2
        <3>2. i <= k + hdr + copy /\ i \in Nat
            BY <1>5, <1>11, <1>15
        <3> HIDE DEF j
        <3>3. Sec = cur /\ k = Before(ts) /\ k + hdr + copy <= len[cur]
            BY <1>2, <1>15
        <3>4. ts.data[j] = <<cur, i>>
            <4>0. k \in Nat /\ len[cur] \in Nat /\ hdr \in Nat /\ copy \in Nat
                BY <1>5, <1>7, <1>11, <1>15
            <4>1. Before(ts) + j = i
                BY <3>1, <3>3, Zenon
            <4>2. i <= len[cur]
                BY <3>2, <3>3, <4>0
            <4> QED
                BY <1>8, <3>1, <4>1, <4>2
        <3>5. d[i] = ts.data[j]
            <4>1. CASE j <= hdr
                <5>1. j \in 1 .. hdr /\ i \in 1 .. k + hdr
                    BY <1>5, <1>11, <3>1, <4>1
                <5> QED
                    BY <1>12, <1>16, <3>1, <5>1
            <4>2. CASE ~(j <= hdr)
                <5>1. /\ j - hdr \in 1 .. copy /\ (k + hdr) + (j - hdr) = i
                      /\ (At + hdr + (j - hdr)) - 1 = j
                    <6>1. k \in Nat /\ hdr \in Nat /\ copy \in Nat /\ At = 1
                        BY <1>2, <1>5, <1>11, <1>15
                    <6> QED
                        BY <3>1, <4>2, <6>1
                <5> QED
                    BY <1>16, <5>1
            <4> QED
                BY <4>1, <4>2
        <3> QED
            BY <3>3, <3>4, <3>5
    <2> QED
        BY <2>1, <2>2
<1>18. d # <<>> /\ d[1] = <<Sec, 1>>
    <2>1. 1 \in 1 .. k + hdr + copy /\ Len(d) # 0
        BY <1>5, <1>11, <1>15, <1>16
    <2> QED
        BY <1>17, <2>1
<1>19. /\ b \in Buffers /\ b.data = d /\ b.len = l /\ b.cc = ts.cc
       /\ b.ok = (buf.ok /\ ts.ok)
    <2>1. l \in Nat
        BY <1>7, <1>15
    <2> QED
        BY <1>4, <1>16, <2>1 DEF Buffers
<1>20. n = 1 + (hdr + copy) /\ n \in Nat /\ n > 0
    BY <1>2, <1>11, <1>15
<1> HIDE DEF b, n
<1>21. b.data[1][1] = Sec
    BY <1>18, <1>19
<1>24. Whole(b) <=> k + hdr + copy = len[Sec]
    BY <1>16, <1>19, <1>21 DEF Whole
<1>25. /\ b.data[1][1] = cur /\ Len(b.data) = pos
       /\ n <= Len(ts.data) => Whole(b) /\ ts.data[n] = Stuffing
    <2>1. n <= Len(ts.data) => hdr + copy < Payload
        BY <1>6, <1>8, <1>11, <1>15, <1>20
    <2> QED
        BY <1>2, <1>15, <1>16, <1>19, <1>20, <1>21, <1>24, <2>1
<1>26. last < Sec
    BY <1>2
<1>27. PutTogether(b, n)
    BY <1>3, <1>15, <1>16, <1>17, <1>18, <1>19, <1>20, <1>21, <1>25, <1>26
       DEF PutTogether
<1> QED
    BY <1>1, <1>27, FinishKeeps

LEMMA ContinueBadly ==
    ASSUME IInv, Continue, ~(buf.ok /\ ts.ok)
    PROVE  IInv' /\ UNCHANGED <<cur, last, calls, repeats>>
<1> USE DEF IInv
<1>1. ts # None /\ (off > 0 => ts.data[At] # Stuffing) /\ ~ts.pusi /\ buf.data # <<>>
    BY DEF Continue, Going
<1>2. PICK l \in IF buf.len = 0 THEN LenField(Begun[LenByte]) ELSE {buf.len} :
        LET at   == At + HdrRest
            copy == Copied(Left - HdrRest, l, Len(Begun))
        IN  Finish([data |-> Begun \o SubSeq(ts.data, at, at + copy - 1), len |-> l,
                    cc |-> ts.cc, ok |-> buf.ok /\ ts.ok],
                   at + copy)
    BY DEF Continue
<1> DEFINE at == At + HdrRest
           copy == Copied(Left - HdrRest, l, Len(Begun))
           d == Begun \o SubSeq(ts.data, at, at + copy - 1)
           b == [data |-> d, len |-> l, cc |-> ts.cc, ok |-> buf.ok /\ ts.ok]
           n == at + copy
<1>3. Finish(b, n)
    BY <1>2
<1>4. /\ ts \in Packets /\ ts.data \in Seq(Octets) /\ ts.cc \in 0 .. CCMod - 1
      /\ ts.ok \in BOOLEAN /\ buf.ok \in BOOLEAN
      /\ buf.data \in Seq(Octets) /\ buf.len \in Nat
    BY <1>1, PacketFields, BufferFields DEF TypeOK
<1>5. Len(ts.data) = Payload
    BY <1>1 DEF PacketInv, Holds, Latest, GoesOn, Frame
<1>6. off = 0 /\ ~whole
    <2>1. off \in Nat
        BY DEF TypeOK
    <2>2. off = 0
        <3> SUFFICES ASSUME off > 0
                     PROVE  FALSE
            BY <2>1
        <3>1. At = off
            BY <2>1 DEF At
        <3> QED
            BY <1>1, <3>1 DEF LoopInv
    <2> QED
        BY <1>1, <2>2 DEF WholeInv
<1>7. At = 1 /\ Left = Payload
    BY <1>1, <1>5, <1>6, Sizes DEF At, First, Left
<1>8. Len(buf.data) \in Nat /\ Len(buf.data) >= 1 /\ (buf.len = 0 => Len(buf.data) <= HdrLen)
    BY <1>1, <1>4 DEF BufInv
<1>9. /\ HdrRest \in Nat /\ HdrRest < Payload
      /\ buf.len = 0 => Len(buf.data) + HdrRest = HdrLen
    <2>1. HdrLen \in Nat /\ Payload \in Nat /\ Payload > HdrLen
        BY Sizes
    <2>2. CASE buf.len = 0
        <3>1. HdrRest = HdrLen - Len(buf.data) /\ Len(buf.data) <= HdrLen
            BY <1>8, <2>2 DEF HdrRest
        <3> QED
            BY <1>8, <2>1, <3>1
    <2>3. CASE buf.len # 0
        <3>1. HdrRest = 0
            BY <2>3 DEF HdrRest
        <3> QED
            BY <2>1, <2>3, <3>1
    <2> QED
        BY <2>2, <2>3
<1>10. Begun \in Seq(Octets) /\ Len(Begun) = Len(buf.data) + HdrRest
    <2>1. Appended(buf.data, ts.data, 1, HdrRest, buf.data \o SubSeq(ts.data, 1, 1 + HdrRest - 1))
        <3>1. 1 \in Nat /\ 1 >= 1 /\ 1 + HdrRest - 1 <= Len(ts.data)
            BY <1>5, <1>9, Sizes
        <3> QED
            BY <1>4, <1>9, <3>1, AppendIs, Zenon
    <2> QED
        BY <1>7, <2>1 DEF Begun, Appended
<1>11. l \in Nat /\ l > 0
    <2>1. CASE buf.len = 0
        <3>1. LenByte \in 1 .. Len(Begun)
            BY <1>9, <1>10, <2>1, Sizes
        <3>2. Begun[LenByte] \in Octets
            BY <1>10, <3>1
        <3> QED
            BY <1>2, <2>1, <3>2, LenFieldIs
    <2>2. CASE buf.len # 0
        BY <1>2, <1>4, <2>2
    <2> QED
        BY <2>1, <2>2
<1>12. copy \in Nat /\ copy <= Payload - HdrRest
    <2>1. Len(Begun) \in Nat /\ Left - HdrRest = Payload - HdrRest
        BY <1>7, <1>8, <1>9, <1>10
    <2> QED
        BY <1>9, <1>11, <2>1, Sizes DEF Copied, Smaller
<1> HIDE DEF copy
<1>13. d \in Seq(Octets)
    <2>1. Appended(Begun, ts.data, at, copy, Begun \o SubSeq(ts.data, at, at + copy - 1))
        <3>1. at \in Nat /\ at >= 1 /\ at + copy - 1 <= Len(ts.data)
            BY <1>5, <1>7, <1>9, <1>12, Sizes
        <3> HIDE DEF at
        <3> QED
            BY <1>4, <1>10, <1>12, <3>1, AppendIs, Zenon
    <2> QED
        BY <2>1 DEF Appended
<1> HIDE DEF d, at
<1>14. b \in Buffers /\ ~b.ok /\ b.len # 0
    BY <1>4, <1>11, <1>13 DEF Buffers
<1> HIDE DEF b, n
<1> QED
    BY <1>1, <1>3, <1>6, <1>14, BrokenKeeps

LEMMA ContinueKeeps ==
    ASSUME IInv, Continue
    PROVE  /\ IInv'
           /\ \/ \E b, n : PutTogether(b, n) /\ Finish(b, n)
              \/ UNCHANGED <<cur, last, calls, repeats>>
BY ContinueWell, ContinueBadly

LEMMA GapKeeps ==
    ASSUME IInv, Gap
    PROVE  IInv'
<1> USE DEF IInv
<1>1. /\ ts # None /\ (off > 0 => ts.data[At] # Stuffing)
      /\ ~ts.pusi /\ buf.data # <<>> /\ ~Continues(ts)
      /\ buf' = Cleared(buf) /\ ts' = None /\ off' = 0
      /\ UNCHANGED <<len, cur, pos, cc, wire, faults, whole, last, calls, repeats>>
    BY DEF Gap, Going
<1>2. buf' \in Buffers /\ buf'.data = <<>>
    <2>1. <<>> \in Seq(Octets) /\ 0 \in Nat
        OBVIOUS
    <2>2. buf \in [data : Seq(Octets), len : Nat, cc : 0 .. CCMod - 1, ok : BOOLEAN]
        BY DEF TypeOK, Buffers
    <2>3. buf' = [[buf EXCEPT !.data = <<>>] EXCEPT !.len = 0]
        BY <1>1, <2>2 DEF Cleared
    <2> QED
        BY <2>1, <2>2, <2>3 DEF Buffers
<1>3. ~whole
    <2> SUFFICES ASSUME whole
                 PROVE  FALSE
        OBVIOUS
    <2>1. ts \in Packets /\ off \in Nat
        BY <1>1 DEF TypeOK
    <2>2. off = 0
        <3> SUFFICES ASSUME off > 0
                     PROVE  FALSE
            BY <2>1
        <3>1. At = off
            BY <2>1 DEF At
        <3> QED
            BY <1>1, <3>1 DEF LoopInv
    <2>3. Between(buf.cc, ts.cc) = 0
        BY <1>1, <2>2 DEF WholeInv
    <2>4. buf.cc \in 0 .. CCMod - 1 /\ ts.cc \in 0 .. CCMod - 1
        BY <2>1, PacketFields, BufferFields DEF TypeOK
    <2> QED
        BY <1>1, <2>3, <2>4, BetweenIs DEF Continues
<1>4. BufInv' /\ LagInv' /\ WholeInv'
    <2>1. Len(<<>>) = 0 /\ HdrLen \in Nat /\ HdrLen >= 0
        BY Sizes
    <2> QED
        BY <1>1, <1>2, <1>3, <2>1 DEF BufInv, LagInv, WholeInv
<1> QED
    BY <1>1, <1>2, <1>4, DropKeeps

LEMMA NoPayloadKeeps ==
    ASSUME IInv, NoPayload
    PROVE  IInv'
<1> USE DEF IInv
<1>1. /\ ts # None
      /\ \/ off > 0 /\ ts.data[At] = Stuffing
         \/ ~ts.pusi /\ buf.data = <<>>
      /\ ts' = None /\ off' = 0
      /\ UNCHANGED <<len, cur, pos, cc, wire, faults, whole, buf, last, calls, repeats>>
    BY DEF NoPayload
<1>2. ts \in Packets /\ off \in Nat /\ ~Fresh(wire)
    BY <1>1 DEF TypeOK, RepeatInv
<1>3. Sec' = Sec /\ (Complete' <=> Complete) /\ ~Waiting'
    BY <1>1, <1>2 DEF Sec, Complete, Waiting, Fresh
<1>4. BufInv'
    BY <1>1, <1>3 DEF BufInv
<1>5. CASE off > 0
    <2>1. At = off /\ ts.data[off] = Stuffing /\ buf.data # <<>>
        BY <1>1, <1>2, <1>5 DEF At, LoopInv
    <2>2. ~EndsWith(ts, off)
        <3> SUFFICES ASSUME EndsWith(ts, off)
                     PROVE  FALSE
            OBVIOUS
        <3>1. cur \in 1 .. Sections
            BY <1>1, <1>5, Sizes DEF TypeOK, LoopInv, PacketInv, Holds, Latest
        <3>2. len[cur] \in Nat /\ len[cur] > 0 /\ cur # 0
            BY <3>1, LengthType, Sizes
        <3>3. off \in off .. Len(ts.data) /\ off - off < len[cur]
            BY <3>2 DEF EndsWith
        <3>4. ts.data[off] = <<cur, off - off + 1>>
            BY <3>3 DEF EndsWith, Begins
        <3> QED
            BY <2>1, <3>2, <3>4 DEF Stuffing
    <2>3. buf.ok /\ Complete /\ last = Sec /\ Sec = cur /\ pos = len[cur]
        BY <1>5, <2>1, <2>2 DEF LoopInv
    <2>4. Between(buf.cc, cc) = 0
        BY <1>1, <1>2, <1>5, <2>1, <2>3 DEF LagInv, Waiting
    <2>5. faults \in Nat
        BY DEF TypeOK
    <2>6. LagInv'
        BY <1>1, <1>2, <1>3, <2>3, <2>4, <2>5 DEF LagInv, ReachesEnd, Complete, Fresh
    <2>7. WholeInv'
        BY <1>1, <2>1, <2>3, <2>4 DEF WholeInv
    <2> QED
        BY <1>1, <1>4, <2>6, <2>7, DropKeeps DEF TypeOK
<1>6. CASE off = 0
    <2>1. ~ts.pusi /\ buf.data = <<>>
        BY <1>1, <1>6
    <2>2. LagInv'
        BY <1>1, <2>1 DEF LagInv
    <2>3. WholeInv'
        BY <1>1, <1>6, <2>1 DEF WholeInv
    <2> QED
        BY <1>1, <1>4, <2>2, <2>3, DropKeeps DEF TypeOK
<1> QED
    BY <1>2, <1>5, <1>6

-----------------------------------------------------------------------------
LEMMA StutterKeeps ==
    ASSUME IInv, UNCHANGED vars
    PROVE  IInv'
<1> USE DEF IInv, vars
<1>1. TypeOK' /\ SenderInv'
    BY DEF TypeOK, SenderInv
<1>2. PacketInv'
    BY StillHolds DEF PacketInv
<1>3. BufInv'
    BY DEF BufInv, Sec
<1>4. LagInv'
    BY DEF LagInv, Reaches, ReachesEnd, Complete, Sec, Before, Waiting, Fresh
<1>5. RepeatInv' /\ LoopInv'
    BY DEF RepeatInv, LoopInv, Fresh, Complete, Sec, EndsWith, Begins
<1>6. OrderInv' /\ WholeInv'
    BY DEF OrderInv, WholeInv, Since, FirstSec, First
<1> QED
    BY <1>1, <1>2, <1>3, <1>4, <1>5, <1>6

(* What psi_segment_and_send, the line and dvr_section_reassemble keep, in *)
(* every state: how far the buffer is behind the packet, and what the      *)
(* packet that came last holds.                                            *)
LEMMA InitIInv ==
    ASSUME Init
    PROVE  IInv
<1>1. TypeOK
    <2>1. 0 \in 0 .. CCMod - 1 /\ 0 \in 0 .. Sections /\ 0 \in 0 .. MaxFaults /\ 0 \in Nat
        BY Sizes
    <2>2. <<>> \in Seq(Octets)
        OBVIOUS
    <2>3. [data |-> <<>>, len |-> 0, cc |-> 0, ok |-> TRUE] \in Buffers
        BY <2>1, <2>2 DEF Buffers
    <2> QED
        BY <2>1, <2>3 DEF Init, TypeOK
<1>2. BufInv
    <2>1. Len(<<>>) = 0 /\ HdrLen \in Nat
        BY Sizes
    <2> QED
        BY <2>1 DEF Init, BufInv
<1>3. SenderInv /\ PacketInv /\ LagInv /\ RepeatInv /\ LoopInv /\ WholeInv
    BY DEF Init, SenderInv, PacketInv, LagInv, RepeatInv, LoopInv, WholeInv, Fresh
<1>4. OrderInv
    BY DEF Init, OrderInv
<1> QED
    BY <1>1, <1>2, <1>3, <1>4 DEF IInv

THEOREM Invariance == Spec => []IInv
<1>1. IInv /\ [Next]_vars => IInv'
    <2> SUFFICES ASSUME IInv, [Next]_vars
                 PROVE  IInv'
        OBVIOUS
    <2>1. CASE SendRest
        BY <2>1, SendRestKeeps
    <2>2. CASE SendStart
        BY <2>2, SendStartKeeps
    <2>3. CASE SendTwo
        BY <2>3, SendTwoKeeps
    <2>4. CASE Lose
        BY <2>4, LoseKeeps
    <2>5. CASE Damage
        BY <2>5, DamageKeeps
    <2>6. CASE Arrive \/ ArriveRepeated
        BY <2>6, ArriveKeeps
    <2>7. CASE NoPayload
        BY <2>7, NoPayloadKeeps
    <2>8. CASE Start
        BY <2>8, StartKeeps
    <2>9. CASE Continue
        BY <2>9, ContinueKeeps
    <2>10. CASE Gap
        BY <2>10, GapKeeps
    <2>11. CASE UNCHANGED vars
        BY <2>11, StutterKeeps
    <2> QED
        BY <2>1, <2>2, <2>3, <2>4, <2>5, <2>6, <2>7, <2>8, <2>9, <2>10, <2>11 DEF Next, Round
<1> QED
    BY <1>1, InitIInv, PTL DEF Spec

-----------------------------------------------------------------------------
(* An undamaged buffer has not been written behind its end. *)
AliveInv == buf.data # <<>> /\ buf.ok => alive

LEMMA AliveKeeps ==
    ASSUME AliveInv, IInv', [Next]_vars
    PROVE  AliveInv'
<1> USE DEF IInv, AliveInv
<1>1. ASSUME NEW b, NEW n, Finish(b, n)
      PROVE  AliveInv'
    <2> SUFFICES ASSUME buf'.data # <<>>, buf'.ok
                 PROVE  alive'
        OBVIOUS
    <2>1. Sec' \in 1 .. Sections /\ Len(buf'.data) <= len'[Sec']
        <3>1. Sec' \in 1 .. cur' /\ Len(buf'.data) <= len'[Sec']
            BY DEF BufInv
        <3> QED
            BY <3>1, Sizes DEF TypeOK
    <2>2. len'[Sec'] \in Nat /\ len'[Sec'] <= MaxSize /\ MaxSize \in Nat
        BY <2>1, PsiAssumption DEF TypeOK
    <2>3. Len(buf'.data) \in Nat
        <3>1. buf'.data \in Seq(Octets)
            BY DEF TypeOK, Buffers
        <3> QED
            BY <3>1
    <2>4. Len(buf'.data) <= MaxSize
        BY <2>1, <2>2, <2>3
    <2> QED
        BY <1>1, <2>4 DEF Finish
<1>2. CASE Start
    BY <1>1, <1>2 DEF Start
<1>3. CASE Continue
    BY <1>1, <1>3 DEF Continue
<1>4. CASE Gap
    BY <1>4 DEF Gap, Going
<1>5. CASE SendRest \/ SendStart \/ SendTwo
    BY <1>5 DEF SendRest, SendStart, SendTwo, Sent
<1>6. CASE Lose \/ Damage \/ Arrive \/ ArriveRepeated \/ NoPayload
    BY <1>6 DEF Lose, Damage, Arrive, ArriveRepeated, Come, NoPayload
<1>7. CASE UNCHANGED vars
    BY <1>7 DEF vars
<1> QED
    BY <1>2, <1>3, <1>4, <1>5, <1>6, <1>7 DEF Next, Round

(* As long as no damaged byte is in it, what psi_reassemble has in         *)
(* section->data is the beginning of one section, section->len is known    *)
(* exactly behind the header, and nothing was written behind its end.      *)
THEOREM PrefixKept == Spec => []BufferIsPrefix
<1>1. ASSUME IInv, AliveInv
      PROVE  BufferIsPrefix
    <2> USE <1>1 DEF IInv
    <2> SUFFICES ASSUME buf.data # <<>>, buf.ok
                 PROVE  /\ Sec \in 1 .. Sections
                        /\ Len(buf.data) <= len[Sec]
                        /\ buf.data = SubSeq(Bytes(Sec), 1, Len(buf.data))
                        /\ buf.len = IF Len(buf.data) > HdrLen THEN len[Sec] ELSE 0
        BY <1>1 DEF BufferIsPrefix, Sec, AliveInv
    <2>1. /\ Sec \in 1 .. cur /\ Len(buf.data) <= len[Sec]
          /\ \A i \in 1 .. Len(buf.data) : buf.data[i] = <<Sec, i>>
          /\ buf.len = IF Len(buf.data) > HdrLen THEN len[Sec] ELSE 0
        BY DEF BufInv
    <2>2. Sec \in 1 .. Sections
        BY <2>1, Sizes DEF TypeOK
    <2>3. buf.data \in Seq(Octets) /\ Len(buf.data) \in Nat
        BY BufferFields DEF TypeOK
    <2> DEFINE m == Sec
               d == buf.data
               k == Len(d)
               e == SubSeq(Bytes(m), 1, k)
    <2>4. /\ Bytes(m) \in Seq(Octets) /\ Len(Bytes(m)) = len[m]
          /\ \A i \in 1 .. len[m] : Bytes(m)[i] = <<m, i>>
        BY <2>2, BytesAre
    <2>5. len[m] \in Nat
        BY <2>2, LengthType
    <2> HIDE DEF m
    <2>6. /\ e \in Seq(Octets) /\ Len(e) = (k + 1) - 1
          /\ \A i \in 1 .. (k + 1) - 1 : e[i] = Bytes(m)[(1 + i) - 1]
        <3>1. /\ Bytes(m) \in Seq(Octets) /\ 1 \in Nat /\ k \in Nat
              /\ 1 <= 1 /\ 1 <= k + 1 /\ k <= Len(Bytes(m))
            BY <2>1, <2>3, <2>4 DEF m
        <3> HIDE DEF k
        <3> QED
            BY <3>1, SubSeqIs, Zenon
    <2> HIDE DEF e
    <2>7. \A i \in 1 .. k : d[i] = e[i]
        <3> SUFFICES ASSUME NEW i \in 1 .. k
                     PROVE  d[i] = e[i]
            OBVIOUS
        <3>1. i \in 1 .. (k + 1) - 1 /\ (1 + i) - 1 = i /\ i \in 1 .. len[m]
            BY <2>1, <2>3, <2>5 DEF m
        <3> QED
            BY <2>1, <2>4, <2>6, <3>1 DEF m
    <2>8. d \in Seq(Octets) /\ e \in Seq(Octets) /\ Len(d) = Len(e)
          /\ \A i \in 1 .. Len(d) : d[i] = e[i]
        BY <2>3, <2>6, <2>7
    <2> HIDE DEF d
    <2>9. d = e
        BY <2>8, SeqEqual, Zenon
    <2> QED
        BY <2>1, <2>2, <2>9 DEF d, e, k, m
<1>2. Init => AliveInv
    BY DEF Init, AliveInv
<1>3. AliveInv /\ IInv' /\ [Next]_vars => AliveInv'
    BY AliveKeeps
<1> QED
    BY <1>1, <1>2, <1>3, Invariance, PTL DEF Spec

(* A section of which psi_reassemble gets all packets, once and undamaged, *)
(* is given to the callbacks with the last of them, in whatever state the  *)
(* buffer was before.                                                      *)
THEOREM WholeDelivered == Spec => []WholeSectionDelivered
<1>1. IInv => WholeSectionDelivered
    BY DEF IInv, WholeInv, WholeSectionDelivered
<1> QED
    BY <1>1, Invariance, PTL

(* Every step of the reassembly is one of Delivery or changes nothing that *)
(* the callbacks see.                                                      *)
LEMMA StepDelivers ==
    ASSUME IInv, [Next]_vars
    PROVE  Deliveries!Next \/ UNCHANGED <<cur, last, calls, repeats>>
<1> USE DEF IInv
<1>1. cur \in Nat /\ last \in Nat
    BY Sizes DEF TypeOK
<1>2. CASE SendRest
    BY <1>2 DEF SendRest, Sent
<1>3. ASSUME UNCHANGED <<last, calls, repeats>>, cur' > cur
      PROVE  Deliveries!Send(cur')
    BY <1>3 DEF Deliveries!Send
<1>4. CASE SendStart
    BY <1>1, <1>3, <1>4 DEF SendStart, Sent, Deliveries!Next
<1>5. CASE SendTwo
    BY <1>1, <1>3, <1>5 DEF SendTwo, Sent, Deliveries!Next
<1>6. CASE Lose \/ Damage \/ NoPayload \/ Gap
    BY <1>6 DEF Lose, Damage, NoPayload, Gap
<1>7. CASE Arrive \/ ArriveRepeated
    <2>1. /\ wire # None /\ last' = Since /\ UNCHANGED <<cur, calls>>
          /\ repeats' = IF wire.since = None THEN repeats ELSE repeats + 1
        BY <1>7 DEF Arrive, ArriveRepeated, Come
    <2>2. CASE wire.since = None
        BY <2>1, <2>2 DEF Since
    <2>3. CASE wire.since # None
        <3>1. Since <= last
            BY <2>1 DEF OrderInv
        <3> QED
            BY <2>1, <2>3, <3>1 DEF Deliveries!Next, Deliveries!Again
    <2> QED
        BY <2>2, <2>3
<1>8. ASSUME ts # None, NEW b, NEW n, PutTogether(b, n), Finish(b, n)
      PROVE  Deliveries!Deliver(last') \/ UNCHANGED <<cur, last, calls, repeats>>
    <2>1. b.data[1][1] \in 1 .. cur /\ (Whole(b) => last < b.data[1][1])
        BY <1>8 DEF PutTogether
    <2>2. /\ UNCHANGED <<cur, repeats>>
          /\ \/ b.ok /\ Whole(b) /\ last' = b.data[1][1] /\ calls' = ~calls
             \/ last' = last /\ calls' = calls
        BY <1>8, FinishIs
    <2>3. CASE b.ok /\ Whole(b) /\ last' = b.data[1][1] /\ calls' = ~calls
        <3>1. last' > last /\ last' <= cur
            BY <1>1, <2>1, <2>3
        <3> QED
            BY <2>2, <2>3, <3>1 DEF Deliveries!Deliver
    <2> QED
        BY <2>2, <2>3
<1>9. CASE Start \/ Continue
    <2>1. ts # None
        BY <1>9 DEF Start, Continue, Going
    <2>2. \/ \E b, n : PutTogether(b, n) /\ Finish(b, n)
          \/ UNCHANGED <<cur, last, calls, repeats>>
        BY <1>9, StartKeeps, ContinueKeeps
    <2> QED
        BY <1>8, <2>1, <2>2 DEF Deliveries!Next
<1>10. CASE UNCHANGED vars
    BY <1>10 DEF vars
<1> QED
    BY <1>2, <1>4, <1>5, <1>6, <1>7, <1>9, <1>10 DEF Next, Round

(* dvr_section_reassemble implements Delivery: the callbacks get sections  *)
(* in the order in which they were sent and each at most once, except for  *)
(* those of a packet that comes again.                                     *)
THEOREM Refinement == Spec => DeliveredInOrder
<1>1. Init => Deliveries!Init
    BY DEF Init, Deliveries!Init
<1>2. IInv /\ [Next]_vars => [Deliveries!Next]_<<cur, last, calls, repeats>>
    BY StepDelivers
<1> QED
    BY <1>1, <1>2, Invariance, PTL DEF Spec, DeliveredInOrder, Deliveries!Spec
=============================================================================
