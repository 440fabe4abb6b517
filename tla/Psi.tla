-------------------------------- MODULE Psi ---------------------------------
(***************************************************************************)
(* Sections in TS packets: psi_segment_and_send, which cuts a section into *)
(* packets, and psi_reassemble with the loop around it in                  *)
(* dvr_section_reassemble, which puts the sections of a PID together.      *)
(*                                                                         *)
(* A byte is <<n, i>>, the i-th byte of the n-th section.  A section has   *)
(* its length in its header; its CRC is right iff it is the whole section  *)
(* and no byte of it was damaged.  Between sender and receiver packets are *)
(* lost, repeated and damaged: then the unit start, the pointer, the       *)
(* counter and every byte may be anything (a packet marked as erroneous by *)
(* the demodulator is dropped at once, like a lost one, and so is one with *)
(* another PID or a pointer behind its end).                               *)
(*                                                                         *)
(* The sender starts every section in a packet of its own, as              *)
(* psi_segment_and_send does, or packs them: then a section starts right   *)
(* behind the one before, and a packet in which sections start begins with *)
(* the rest of the previous one.                                           *)
(***************************************************************************)
EXTENDS Naturals, Sequences

CONSTANTS
    Sections,   \* bound: the number of sections sent
    Lengths,    \* the lengths of sections
    MaxSize,    \* PSI_MAX_SIZE, the bytes of section->data
    MaxLen,     \* the largest value of _psi_len
    Payload,    \* the bytes of a packet behind its header
    HdrLen,     \* PSI_HDR_LEN
    CCMod,      \* continuity counters are modulo this (16)
    MaxFaults,  \* bound: packets lost, repeated or damaged
    None

LenByte == 2    \* the byte of a section in which its length is known, PSI_SECLEN_ADD

ASSUME PsiAssumption ==
    /\ Sections \in Nat
    /\ HdrLen \in Nat /\ HdrLen >= LenByte
    /\ MaxSize \in Nat /\ MaxLen \in Nat
    /\ \A l \in Lengths : l \in Nat /\ l > HdrLen /\ l <= MaxSize
    /\ Payload \in Nat /\ Payload > HdrLen
    /\ MaxFaults \in Nat
    /\ CCMod \in Nat /\ CCMod > MaxFaults
    /\ None \notin Nat
    /\ None \notin [pusi : BOOLEAN, ptr : Nat, cc : Nat, ok : BOOLEAN,
                    since : Nat \cup {None}, data : Seq(Nat \X Nat)]

VARIABLES
    alive,   \* the process has not been killed
    packed,  \* how the sender puts sections into packets
    len,     \* the length of each section
    cur,     \* the section that the sender is at
    pos,     \* the bytes of it that were sent
    cc,      \* the continuity counter of the next packet
    wire,    \* the packet on its way
    faults,  \* the number of faults so far
    whole,   \* the section cur has arrived in full so far
    buf,     \* pidentry->section: the section that is put together
    ts,      \* the packet that dvr_section_reassemble works on
    off,     \* the place of its next byte, 0 when it has just come
    last,    \* the section that the callbacks got last, before the packet
             \* came first if it comes again
    calls,   \* changes with every call of the callbacks
    repeats  \* the number of packets that came again

vars == <<alive, packed, len, cur, pos, cc, wire, faults, whole, buf, ts, off, last, calls, repeats>>

Bytes(n) == [i \in 1 .. len[n] |-> <<n, i>>]

Stuffing == <<0, 0>>

Noise == <<0, 1>>

(* psi_section_clear *)
Cleared(b) == [b EXCEPT !.data = <<>>, !.len = 0]

Smaller(m, n) == IF m <= n THEN m ELSE n

-----------------------------------------------------------------------------
(* The sender and the line.                                                *)

(* The bytes of section cur that were not sent. *)
Rest == IF cur = 0 THEN <<>> ELSE SubSeq(Bytes(cur), pos + 1, len[cur])

(* (cc+pkts)&TS_CC_MASK *)
NextCC(n) == (n + 1) % CCMod

(* A packet with the bytes of s, padded with stuffing.  With a unit start  *)
(* one byte of it is the pointer to the first section that starts.         *)
Packet(s, pusi, ptr) ==
    [pusi |-> pusi, ptr |-> ptr, cc |-> cc, ok |-> TRUE, since |-> None,
     data |-> [i \in 1 .. (IF pusi THEN Payload - 1 ELSE Payload) |->
                 IF i <= Len(s) THEN s[i] ELSE Stuffing]]

(* The sender has sent what fits into packet p of s, which ends with       *)
(* section n.                                                              *)
Sent(n, s, p) ==
    /\ wire' = p
    /\ cur' = n
    /\ pos' = IF Len(s) <= Len(p.data) THEN len[n]
              ELSE len[n] - (Len(s) - Len(p.data))
    /\ cc' = NextCC(cc)
    /\ UNCHANGED <<alive, packed, len, faults, buf, ts, off, last, calls, repeats>>

(* A packet that goes on with a section. *)
SendRest ==
    /\ alive /\ wire = None /\ ts = None
    /\ Rest # <<>>
    /\ Sent(cur, Rest, Packet(Rest, FALSE, 0))
    /\ UNCHANGED whole

(* A packet in which one section starts. *)
SendStart ==
    LET s == Rest \o Bytes(cur + 1)
    IN  /\ alive /\ wire = None /\ ts = None
        /\ cur < Sections
        /\ (Rest = <<>> \/ (packed /\ Len(Rest) < Payload - 1))
        /\ Sent(cur + 1, s, Packet(s, TRUE, Len(Rest)))
        /\ whole' = TRUE

(* A packet in which two sections start. *)
SendTwo ==
    LET s == Rest \o Bytes(cur + 1)
        t == s \o Bytes(cur + 2)
    IN  /\ alive /\ wire = None /\ ts = None
        /\ cur + 1 < Sections
        /\ packed /\ Len(s) < Payload - 1
        /\ Sent(cur + 2, t, Packet(t, TRUE, Len(Rest)))
        /\ whole' = TRUE

Fault ==
    /\ faults < MaxFaults
    /\ faults' = faults + 1
    /\ whole' = FALSE

Lose ==
    /\ alive /\ wire # None /\ Fault
    /\ wire' = None
    /\ UNCHANGED <<alive, packed, len, cur, pos, cc, buf, ts, off, last, calls, repeats>>

(* What p may become. *)
Damaged(p, pusi, ptr, c) ==
    [p EXCEPT !.ok = FALSE, !.pusi = pusi, !.ptr = ptr, !.cc = c,
              !.data = [i \in 1 .. (IF pusi THEN Payload - 1 ELSE Payload) |-> Noise]]

Damage ==
    /\ alive /\ wire # None /\ wire.ok /\ Fault
    /\ \E pusi \in BOOLEAN, c \in 0 .. CCMod - 1 :
         \E ptr \in IF pusi THEN 0 .. Payload - 2 ELSE {0} :
           wire' = Damaged(wire, pusi, ptr, c)
    /\ UNCHANGED <<alive, packed, len, cur, pos, cc, buf, ts, off, last, calls, repeats>>

(* What the callbacks had got when the packet came first. *)
Since == IF wire.since = None THEN last ELSE wire.since

(* dvr_section_reassemble is called for a packet. *)
Come ==
    /\ alive /\ wire # None /\ ts = None
    /\ ts' = wire
    /\ off' = 0
    /\ last' = Since
    /\ repeats' = IF wire.since = None THEN repeats ELSE repeats + 1
    /\ UNCHANGED <<alive, packed, len, cur, pos, cc, buf, calls>>

Arrive == Come /\ wire' = None /\ UNCHANGED <<faults, whole>>

(* It will be called again for the same packet. *)
ArriveRepeated == Come /\ wire' = [wire EXCEPT !.since = Since] /\ Fault

-----------------------------------------------------------------------------
(* One round of the loop in dvr_section_reassemble.                        *)

\* Mutant: the pointer of a unit start is not skipped.
MutFirst(p) == 1

(* Where the payload of a packet is read first: behind the pointer. *)
First(p) == IF p.pusi THEN p.ptr + 1 ELSE 1

(* The place of the next byte. *)
At == IF off = 0 THEN First(ts) ELSE off

(* _psi_len: what is read where the length of a section is expected. *)
LenField(b) == IF b[1] # 0 /\ b[2] = LenByte THEN {len[b[1]]} ELSE LenByte .. MaxLen

(* The end of psi_reassemble, with section b and n the next byte: a        *)
(* complete section with a valid CRC goes to the callbacks, and the rest   *)
(* of the packet is looked at.  Bytes that were written behind             *)
(* section->data may have killed the process.                              *)
Finish(b, n) ==
    LET done == /\ b.len = Len(b.data)
                /\ Len(b.data) >= HdrLen
                /\ b.ok
                /\ b.data = Bytes(b.data[1][1])
    IN  /\ buf' = b
        /\ last' = IF done THEN b.data[1][1] ELSE last
        /\ calls' = (done # calls)
        /\ ts' = IF done /\ n <= Len(ts.data) THEN ts ELSE None
        /\ off' = IF done /\ n <= Len(ts.data) THEN n ELSE 0
        /\ alive' \in {TRUE, Len(b.data) <= MaxSize}
        /\ UNCHANGED <<packed, len, cur, pos, cc, wire, faults, whole, repeats>>

(* Stuffing behind a section, or a packet without unit start while no      *)
(* section is begun: PSI_RC_NOPAYLOAD.                                     *)
NoPayload ==
    /\ alive /\ ts # None
    /\ \/ off > 0 /\ ts.data[At] = Stuffing
       \/ ~ts.pusi /\ buf.data = <<>>
    /\ ts' = None
    /\ off' = 0
    /\ UNCHANGED <<alive, packed, len, cur, pos, cc, wire, faults, whole, buf, last, calls, repeats>>

(* There is something to put together. *)
Going == alive /\ ts # None /\ (off > 0 => ts.data[At] # Stuffing)

\* Mutant: the counter of the packet is not remembered.
MutStartedCC(b) == buf.cc

(* section->cc=ts_cc(ts) *)
StartedCC(p) == p.cc

(* The bytes of the packet from the next one on. *)
Left == Len(ts.data) - At + 1

(* psi_reassemble_start: the length is known only if there is more than    *)
(* the header.                                                             *)
Start ==
    /\ Going /\ ts.pusi
    /\ \E l \in IF Left > HdrLen THEN LenField(ts.data[At + LenByte - 1]) ELSE {0} :
         LET copy == IF Left > HdrLen THEN Smaller(l, Left) ELSE Left
         IN  Finish([data |-> SubSeq(ts.data, At, At + copy - 1), len |-> l,
                     cc |-> StartedCC(ts), ok |-> ts.ok],
                    At + copy)

\* Mutant: every packet continues a section.
MutContinues(p) == TRUE

(* The continuity check *)
Continues(p) == p.cc = NextCC(buf.cc)

(* What psi_reassemble_continue takes first: the rest of the header, if it *)
(* is not complete.                                                        *)
HdrRest == IF buf.len = 0 THEN HdrLen - Len(buf.data) ELSE 0

Begun == buf.data \o SubSeq(ts.data, At, At + HdrRest - 1)

(* MIN(TS_PACKET_SIZE-off, section->len-section->valid), of which the      *)
(* latter is unsigned: it is huge when less than the header is the length. *)
Copied(left, l, valid) == IF l >= valid THEN Smaller(left, l - valid) ELSE left

(* psi_reassemble_continue, with what there is of the section ...          *)
Continue ==
    /\ Going /\ ~ts.pusi /\ buf.data # <<>>
    /\ Continues(ts)
    /\ \E l \in IF buf.len = 0 THEN LenField(Begun[LenByte]) ELSE {buf.len} :
         LET at   == At + HdrRest
             copy == Copied(Left - HdrRest, l, Len(Begun))
         IN  Finish([data |-> Begun \o SubSeq(ts.data, at, at + copy - 1), len |-> l,
                     cc |-> ts.cc, ok |-> buf.ok /\ ts.ok],
                    at + copy)

(* ... unless a packet is missing or repeated: the section is cleared. *)
Gap ==
    /\ Going /\ ~ts.pusi /\ buf.data # <<>>
    /\ ~Continues(ts)
    /\ buf' = Cleared(buf)
    /\ ts' = None
    /\ off' = 0
    /\ UNCHANGED <<alive, packed, len, cur, pos, cc, wire, faults, whole, last, calls, repeats>>

-----------------------------------------------------------------------------
(* Only differences of counters matter: the first one may be 0. *)
Init ==
    /\ alive = TRUE
    /\ packed \in BOOLEAN
    /\ len \in [1 .. Sections -> Lengths]
    /\ cur = 0 /\ pos = 0
    /\ cc = 0
    /\ wire = None
    /\ faults = 0
    /\ whole = FALSE
    /\ buf = [data |-> <<>>, len |-> 0, cc |-> 0, ok |-> TRUE]
    /\ ts = None
    /\ off = 0
    /\ last = 0
    /\ calls = FALSE
    /\ repeats = 0

Round == NoPayload \/ Start \/ Continue \/ Gap

Next ==
    \/ SendRest \/ SendStart \/ SendTwo
    \/ Lose \/ Damage \/ Arrive \/ ArriveRepeated
    \/ Round

Spec == Init /\ [][Next]_vars /\ WF_vars(Round)

-----------------------------------------------------------------------------
(* Properties.                                                             *)

(* As long as no damaged byte is in it, what is in the buffer is the       *)
(* beginning of one section, never parts of two, and its length is known   *)
(* exactly if more than the header is there; and then the process has not  *)
(* written behind section->data.  (A damaged length makes the code put     *)
(* bytes of the next section behind the first, until the CRC is found      *)
(* wrong, the counter has a gap or the next unit starts.)                  *)
BufferIsPrefix ==
    buf.data # <<>> /\ buf.ok =>
        LET n == buf.data[1][1]
        IN  /\ n \in 1 .. Sections
            /\ Len(buf.data) <= len[n]
            /\ buf.data = SubSeq(Bytes(n), 1, Len(buf.data))
            /\ buf.len = IF Len(buf.data) > HdrLen THEN len[n] ELSE 0
            /\ alive

(* A section whose packets all arrive once and undamaged is delivered with *)
(* its last packet, whatever happened before: packets of earlier sections  *)
(* lost, repeated or damaged, the buffer in any state.  (A section of a    *)
(* packed stream that ends in the packet in which a later one starts is    *)
(* not meant: psi_reassemble goes to the pointer of the unit start, the    *)
(* rest of that section is passed over, and cur is the later one here.)    *)
WholeSectionDelivered ==
    (wire = None /\ ts = None /\ whole /\ pos = len[cur]) => last = cur

Deliveries == INSTANCE Delivery WITH sent <- cur, last <- last, calls <- calls,
                                    repeats <- repeats

(* Reassembly implements Delivery: sections reach the callbacks in order   *)
(* and at most once, except for those of a packet that comes again.        *)
DeliveredInOrder == Deliveries!Spec

(* dvr_section_reassemble returns for every packet. *)
LoopEnds == ts # None ~> ts = None
=============================================================================
