------------------------------ MODULE Outputs -------------------------------
(***************************************************************************)
(* A stream and one of its outputs (stream.c, output.c): UDP               *)
(* (output_udp.c), RTP (output_rtp.c) or a FIFO (output_pipe.c), with the  *)
(* buffer in which packets are gathered (simplebuffer.c), and the PAT that *)
(* the stream sends by a timer (stream_send_pat, pat_send).  The outputs   *)
(* of a stream do not touch each other, so one is enough.  HTTP outputs    *)
(* are in module Http.                                                     *)
(*                                                                         *)
(* What is sent is numbered: a packet has PacketLen units, and a unit is   *)
(* its place in the stream modulo Period.                                  *)
(*                                                                         *)
(* External: the reader of the FIFO, and write.  A write of more than      *)
(* PipeBuf units to a FIFO may write a part, one of less writes all or     *)
(* nothing (EAGAIN); without reader it fails.                              *)
(***************************************************************************)
EXTENDS Integers, Sequences

CONSTANTS
    PacketLen,   \* TS_PACKET_SIZE
    MaxTs,       \* UDP_MAX_TS, RTP_MAX_TS: packets of a datagram
    PipeBuffer,  \* PIPE_BUFFER, in units
    PipeBuf,     \* PIPE_BUF of the system
    SeqMod,      \* 2^16: rtpseq is a uint16_t
    CCMod,       \* continuity counters are modulo this (16)
    PatPackets,  \* the packets that a PAT may need
    None

(* The number of packets after which numbers start again. *)
PacketMod == SeqMod * MaxTs

Period == PacketMod * PacketLen

ASSUME OutputsAssumption ==
    /\ PacketLen \in Nat \ {0}
    /\ MaxTs \in Nat \ {0}
    /\ PipeBuffer \in Nat /\ PipeBuffer >= PacketLen
    /\ PipeBuf \in Nat
    /\ SeqMod \in Nat \ {0}
    /\ CCMod \in Nat \ {0}
    /\ PatPackets \subseteq Nat \ {0}
    /\ PipeBuffer < Period
    /\ None \notin Int

VARIABLES
    type,      \* o->type
    up,        \* output_init succeeded
    receiver,  \* o->receiver
    buffer,    \* o->buffer: the units in it
    rtpseq,    \* o->rtpseq
    fd,        \* o->pipe.fd is open
    armed,     \* o->pipe.event is pending
    reader,    \* a process reads from the FIFO
    n,         \* the packets the stream has sent, modulo PacketMod
    wrote,     \* the last unit that left the buffer, None before the first
    pkts,      \* the packets of a PAT of this stream
    patleft,   \* how many of them stream_send_pat has still to send
    patcc,     \* stream->patcc
    lastcc     \* the continuity counter of the last packet of a PAT

vars == <<type, up, receiver, buffer, rtpseq, fd, armed, reader, n, wrote,
          pkts, patleft, patcc, lastcc>>

config == <<type, up, pkts>>
pipe == <<fd, armed>>
pat == <<patleft, patcc, lastcc>>

NextCC(c) == (c + 1) % CCMod

(* The units of the packet that is sent next. *)
Units == [i \in 1 .. PacketLen |-> n * PacketLen + i - 1]

-----------------------------------------------------------------------------
(* output_send for the next packet, one disjunct per way it may go.        *)

(* No receiver. *)
Ignored ==
    /\ receiver = 0
    /\ UNCHANGED <<receiver, buffer, rtpseq, wrote, pipe>>

(* UDP and RTP: another packet would fit. *)
Collected ==
    /\ receiver # 0 /\ type # "pipe"
    /\ Len(buffer) + PacketLen < MaxTs * PacketLen
    /\ buffer' = buffer \o Units
    /\ UNCHANGED <<receiver, rtpseq, wrote, pipe>>

\* Mutant: a datagram that could not be sent is not counted.
MutNextSeq(s, ok) == IF ok THEN (s + 1) % SeqMod ELSE s

(* o->rtpseq++, whatever sendto returned *)
NextSeq(s, ok) == (s + 1) % SeqMod

(* UDP and RTP: a datagram is full and given to the socket, which may      *)
(* refuse it.                                                              *)
Datagram ==
    /\ receiver # 0 /\ type # "pipe"
    /\ Len(buffer) + PacketLen >= MaxTs * PacketLen
    /\ wrote' = Units[PacketLen]
    /\ buffer' = <<>>
    /\ \E ok \in BOOLEAN :
          rtpseq' = IF type = "rtp" THEN NextSeq(rtpseq, ok) ELSE rtpseq
    /\ UNCHANGED <<receiver, pipe>>

\* Mutant: nobody looks whether a reader has come back.
MutRetry(a) == a

(* output_pipe_event_init *)
Retry(a) == TRUE

(* output_pipe_close *)
PipeClose ==
    /\ receiver' = receiver - 1
    /\ fd' = FALSE
    /\ armed' = Retry(armed)
    /\ UNCHANGED <<rtpseq, wrote>>

PipeFull ==
    /\ receiver # 0 /\ type = "pipe"
    /\ PipeBuffer - Len(buffer) < PacketLen
    /\ PipeClose
    /\ UNCHANGED buffer

(* The buffer with the packet, if there is room for it. *)
Filled == buffer \o Units

PipeRoom == receiver # 0 /\ type = "pipe" /\ PipeBuffer - Len(buffer) >= PacketLen

\* Mutant: the buffer is emptied, as the comment has it.
MutDropped(b, len) == <<>>

(* sb_drop_atoms *)
Dropped(b, len) == SubSeq(b, len + 1, Len(b))

PipeWrite ==
    /\ PipeRoom /\ reader
    /\ \E len \in 1 .. Len(Filled) :
          /\ Len(Filled) <= PipeBuf => len = Len(Filled)
          /\ buffer' = Dropped(Filled, len)
          /\ wrote' = Filled[len]
    /\ UNCHANGED <<receiver, rtpseq, pipe>>

(* EAGAIN *)
PipeAgain ==
    /\ PipeRoom /\ reader
    /\ buffer' = Filled
    /\ UNCHANGED <<receiver, rtpseq, wrote, pipe>>

(* EPIPE *)
PipeReaderGone ==
    /\ PipeRoom /\ ~reader
    /\ PipeClose
    /\ buffer' = Filled

Send ==
    /\ n' = (n + 1) % PacketMod
    /\ \/ Ignored \/ Collected \/ Datagram
       \/ PipeFull \/ PipeWrite \/ PipeAgain \/ PipeReaderGone
    /\ UNCHANGED <<config, reader>>

-----------------------------------------------------------------------------
(* The handlers.                                                           *)

(* stream_send, for a packet of an input. *)
StreamSend ==
    /\ patleft = 0
    /\ Send
    /\ UNCHANGED pat

(* stream_send_pat: until the PAT is sent nothing else runs. *)
StreamSendPat ==
    /\ patleft = 0
    /\ patleft' = pkts
    /\ UNCHANGED <<config, receiver, buffer, rtpseq, pipe, reader, n, wrote, patcc, lastcc>>

\* Mutant: the packets of a PAT are not counted.
MutPatCC(c) == (c + 1) % CCMod

(* (stream->patcc+pkts)&TS_CC_MASK *)
PatCC(c) == (c + pkts) % CCMod

(* (cc+pkts)&TS_CC_MASK, where pkts packets of the PAT have been sent. *)
PacketCC == IF patleft = 0 THEN patcc ELSE (patcc + pkts - patleft) % CCMod

PatPacket ==
    /\ patleft > 0
    /\ patleft' = patleft - 1
    /\ lastcc' = PacketCC
    /\ patcc' = IF patleft = 1 THEN PatCC(patcc) ELSE patcc
    /\ Send

(* sb_zap *)
Zapped(b) == <<>>

(* output_pipe_open_event: output_pipe_tryopen succeeds ... *)
PipeOpen ==
    /\ patleft = 0 /\ armed
    /\ reader
    /\ fd' = TRUE /\ armed' = FALSE
    /\ receiver' = receiver + 1
    /\ buffer' = Zapped(buffer)
    /\ wrote' = None
    /\ UNCHANGED <<config, rtpseq, reader, n, pat>>

(* ... or not, for want of a reader or another reason. *)
PipeOpenFails ==
    /\ patleft = 0 /\ armed
    /\ armed' = Retry(FALSE)
    /\ UNCHANGED <<config, receiver, buffer, rtpseq, fd, reader, n, wrote, pat>>

(* A process opens the FIFO for reading, or the last one closes it. *)
Reader ==
    /\ patleft = 0 /\ type = "pipe"
    /\ reader' = ~reader
    /\ UNCHANGED <<config, receiver, buffer, rtpseq, pipe, n, wrote, pat>>

(* output_init_udp, output_init_rtp: a receiver from the start, if the      *)
(* socket could be opened.                                                 *)
InitDatagram == receiver = IF up /\ type # "pipe" THEN 1 ELSE 0

(* output_init_pipe: the FIFO is opened by the timer only. *)
InitPipe ==
    /\ fd = FALSE
    /\ armed = (up /\ type = "pipe")

(* stream_init, output_init *)
Init ==
    /\ type \in {"udp", "rtp", "pipe"}
    /\ up \in BOOLEAN
    /\ InitDatagram
    /\ InitPipe
    /\ buffer = <<>>
    /\ rtpseq = 0
    /\ reader = FALSE
    /\ n = 0
    /\ wrote = None
    /\ pkts \in PatPackets
    /\ patleft = 0
    /\ patcc = 0
    /\ lastcc = CCMod - 1

Next ==
    \/ StreamSend \/ StreamSendPat \/ PatPacket
    \/ PipeOpen \/ PipeOpenFails \/ Reader

(* The event loop serves its timers, a handler goes on, and opening the    *)
(* FIFO does not fail for ever if it has a reader.                         *)
Spec == Init /\ [][Next]_vars /\ WF_vars(PatPacket) /\ SF_vars(PipeOpen)

-----------------------------------------------------------------------------
(* Properties.                                                             *)

(* The units from a on up to those of the last packet. *)
From(a) == [i \in 1 .. (n * PacketLen - a) % Period |-> (a + i - 1) % Period]

(* Nothing is lost, doubled or out of order between the stream and the     *)
(* socket or FIFO while the output is open: the buffer has what follows    *)
(* the last unit that left it, up to the last packet, also after partial   *)
(* and refused writes; and what is written first to a FIFO that was opened *)
(* is the beginning of a packet.                                           *)
BufferHoldsRest ==
    receiver # 0 =>
        IF wrote # None THEN buffer = From((wrote + 1) % Period)
        ELSE buffer # <<>> => buffer[1] % PacketLen = 0 /\ buffer = From(buffer[1])

(* An RTP receiver can tell from the sequence numbers how many packets it  *)
(* misses, over the wrap of rtpseq, and when datagrams are refused by the  *)
(* socket: the number counts all datagrams.                                *)
SeqCountsPackets ==
    type = "rtp" /\ receiver # 0 =>
        rtpseq * MaxTs * PacketLen + Len(buffer) = n * PacketLen

(* A FIFO is open and counted as one receiver, or a timer will try to open *)
(* it: never both, which would count the receiver twice, and never none.   *)
PipeOpenOrRetried ==
    type = "pipe" /\ up =>
        \/ fd /\ receiver = 1 /\ ~armed
        \/ ~fd /\ receiver = 0 /\ armed

(* The packets of the generated PATs have consecutive continuity counters, *)
(* whatever the number of packets of a PAT.                                *)
PatContinues == PacketCC = NextCC(lastcc)

(* A FIFO gets its output back when it gets a reader, after any number of  *)
(* readers that left or were too slow.                                     *)
ReaderServed == (type = "pipe" /\ up /\ reader) ~> (fd \/ ~reader)
=============================================================================
