# getstream: TLA+ specifications

getstream receives a DVB transponder from a card, picks programs and PIDs out of
it and sends them to multicast groups, HTTP clients and pipes. This directory
holds specifications of the parts of it in which the order of events decides
whether it works, the TLC runs that check them on small instances, and proofs
about all of them, for every value of their constants.

    cd tla
    tlc -workers 2 -config MCPrograms.cfg MCPrograms     # model-check a run
    tlapm PsiProofs.tla                                  # check proofs, also Http, Main, Outputs,
                                                         # Programs, Settings, Startup, Supervision

`PROJECT.json` lists the runs, the source lines of every definition, the
hazards, the findings and the theorems.

## 1. The system

One process per configuration, one libevent thread per process, and for every
adapter one more thread that watches the frontend (`fe_event_checkstatus_thread`);
one more thread guards the event loop (`guard_thread`, always there, as
getstream.h:45 defines `DEBUG`). Everything else is a callback of the event loop
and runs to its end. Before the loop, `main` reads the configuration, tunes the
cards and starts the outputs.

    card --TS--> dvr.c --packets--> input.c / pmt.c --> stream.c --> output_*.c --> clients
                  | ^
         sections | | join and leave PIDs (dmx.c filters)
                  v |
            psi.c -> pat.c -> pmt.c

    getstream.conf -> libconf.c -> config.c -> main -> fe.c, stream.c, output_*.c, sap.c

| Component | State | Operations | Talks to | What makes it correct |
|---|---|---|---|---|
| PAT tracking (`pat.c`) | last section of each number, parsed PAT | a PAT section arrives; PAT of a stream is generated | DVR table (callback on PID 0), PMT tracking | follows every change of the PAT, in whatever order its sections come |
| PMT tracking (`pmt.c`) | per program: PMT PID, last PMT section, parsed PMT, callbacks on PIDs | PMT PID changes; a PMT section arrives | DVR table, stream (packets, PMT PID) | a program gets the PIDs of its current PMT, each once, and no other |
| DVR PID table (`dvr.c`) | per PID: TS callbacks, section callbacks, one reassembler | add and delete a callback; a packet arrives; statistics and stuck timers | filters, all users of packets | the packet is given to each callback once; lists change only where no walk stands |
| DMX filters (`dmx.c`) | a filter per PID or one for the transponder | join, leave, bounce | kernel | a filter is open while the PID has a callback, and only then |
| PSI sections (`psi.c`) | the section that is put together; the last sections of a table | reassemble, segment, "did it change" | DVR table | no mixed sections, recovery after errors, order |
| Inputs (`input.c`) | none beyond the callbacks | start of static PIDs, programs, full stream | PMT tracking, DVR table | - |
| Stream (`stream.c`) | continuity counter of the generated PAT | forward a packet; send the PAT every half second | PMT tracking, outputs | PAT tells the PMT PIDs in use |
| HTTP server (`libhttp.c`) | connections with the state of their request | connect, data, output written, error | HTTP output | every request is answered; a connection is not used after it is freed |
| HTTP output (`output_http.c`, `simplebuffer.c`) | receivers, a chunk that is filled | request, packet, end of a connection | HTTP server, stream | only slow receivers are dropped, all of them, memory stays bounded |
| Pipe output (`output_pipe.c`) | FIFO descriptor, buffer, retry timer | open retry, packet, reader exits | stream | what is not written stays in order; comes back with its reader |
| UDP and RTP outputs (`output_udp.c`, `output_rtp.c`) | buffer, RTP sequence number | packet | stream | packets in order, sequence number counts them mod 2^16 |
| Frontend and card supervision (`fe.c`, stuck timer in `dvr.c`) | time of the last tuning, count of reads | thread: poll the lock, retune; timer: no reads, retune and bounce | filters, card | a lost lock leads to a retune, a locked up card to a bounce, and neither more often than meant |
| Configuration (`libconf.c`, `config.c`) | tree of entries; pointers to the last adapter, stream, output and SAP session; the configuration | parse, four passes of validation, callbacks | main | the tree is that of the braces; a setting lands in the object of its block; what is mandatory is there |
| Main (`getstream.c`) | HTTP server | start of everything, in order | all | a file that is accepted starts; what crashes it is known |
| Guard thread (`getstream.c`) | a counter shared by two threads | beat, check and reset | event loop | aborts a loop that hangs and no other |
| SAP (`sap.c`) | sessions, their number | start; timer | outputs, socket | announces what the output does, whatever the order of the file |
| SDT, logging, utilities, CRC | none that others use | - | - | - |
| `ringbuffer.c`, `tsdecode.c` | - | - | - | not part of the program |

The hard behaviours are: sections that come in any order and change over days;
callbacks that change the very lists that are being walked; programs that share
filters of which a card has few; packets that are lost, damaged or repeated in
the middle of a section; HTTP clients that read slowly, send more than expected
or go away at any point; the two threads that retune the card and the third that
watches one of them; and configuration files of any shape, of which the settings
reach their objects through static pointers.

## 2. Modules

| Module | Models | Checked in | Proved in |
|---|---|---|---|
| `Programs` | `pat.c`, `pmt.c`, PID table of `dvr.c`, filters of `dmx.c`, `psi_update_table`, start of programs in `input.c` | `MCPrograms` | `ProgramsProofs` |
| `Psi` | `psi_segment_and_send`, `psi_reassemble`, `dvr_section_reassemble` | `MCPsi` | `PsiProofs` |
| `Delivery` | abstract: what users of sections rely on | refined by `Psi` | refinement in `PsiProofs` |
| `Http` | `libhttp.c`, `output_http.c`, chunk buffer | `MCHttp` | `HttpProofs` |
| `Supervision` | `fe_retune`, `fe_tune` and the frontend thread of `fe.c`, `dvr_read` and the stuck timer of `dvr.c`, `dmx_bounce_filter`, the guard thread of `getstream.c` | `MCSupervision` | `SupervisionProofs` |
| `Outputs` | `stream.c`, `output.c`, `output_udp.c`, `output_rtp.c`, `output_pipe.c`, `simplebuffer.c`, `pat_send` | `MCOutputs` | `OutputsProofs` |
| `Config` | `libconf.c`, the tables and callbacks of `config.c` | with `Startup` | with `Startup` |
| `Startup` | extends `Config`: `main`, what `fe.c` tunes to, start of outputs and inputs, `sap.c` | `MCStartup` | `StartupProofs`, `SettingsProofs`, `MainProofs` |

### Programs

The environment is the multiplex. It may send any PAT section of `PatSection`
and any PMT section of `PmtSection` at any time, on the PIDs that get to the
adapter. A PMT section is one step (`PmtSectionCb`), down to the filters it opens
and closes, because it is one callback of one thread. A PAT section is a step
(`PatSectionCb`) that leaves in `todo` the programs for which `pat_update` calls
`pmt_pidfrompat`; each call is a step (`PmtPidFromPat`), and no other section
comes in between.

* `patPsi` and `pmtPsi` are the section tables of `psi_update_table`, `pat` and
  `pmt` the parsed tables, `pmtpid` the `pmtpid` of a program.
* The callbacks a program has on a PID are represented by the set of reasons for
  which it joined (`"es"`, `"pcr"`, `"pmt"`: the type argument of
  `pmt_prog_join_pid`). The real list has one callback per reason and stream;
  the streams of a program never change after the start, so the set determines
  the list, and two reasons on one PID are two copies of each packet.
* `dvr` is the PID table of the demux: per PID the cookies of the TS callbacks (a
  program and its reason, a static input, the reassembler), the owners of the section
  callbacks, `secuser`, and whether the filter is open. `AddTs`, `DelTs`,
  `AddSection` and `DelSection` are the cases of `dvr_add_pcb` and `dvr_del_pcb`: the
  first section user adds a reassembler, the last takes it away, the first TS
  callback opens the filter, the last closes it. If filters are `limited` opening
  one may fail, of which the code takes no notice. With `budget` there is one filter
  for all and none for single PIDs. Nothing of `dvr` is derived from what the
  programs remember: that the two agree is what `FiltersMatchCallbacks` says.
* `Started` is the table after the start: static PIDs and those of the adapter's own
  tables (`TablePid`: PAT, and SDT if it is to be in an instance).
* A PAT may list a program or not (`Absent`), may name the invalid PID 0, may be
  of one or two sections and may be marked "not current"; a PMT may lack a PCR
  PID (`PidMax`), share PIDs with other programs or have streams on PIDs that
  are also PMT PIDs. `crcpid` stands for the PID that `pmt_parse` reads out of
  the CRC when the ES loop is empty (its `do ... while`, pmt.c:251-259).
* PID 0x1fff is one behind the PID table of a program, where `prog->psi` lies
  (pmt.c:26-43). As an ES or from the CRC it is looked up there: a pointer that is
  not NULL, as the PMT was just stored, so the program is taken to get that PID and
  nothing is joined (`GetsPid`). As a PMT PID it is not looked up but joined, and
  written over `prog->psi`: `PmtPidOverrun`, after which the model stops. (No more is
  said of it than that: the run `programs_crash` stops at the other way.)
* `PatSectionCrash` is the read through NULL in `pat_update` when the PAT is
  incomplete; the process is gone then.
* A PMT is one section, as ISO 13818-1 says (2.4.4.9).

### Psi and Delivery

A byte is `<<section, index>>`; the CRC is right iff the bytes are exactly one
section, undamaged. The sender sends a section per unit start (as
`psi_segment_and_send` does) or packs sections behind each other as broadcasters
do; one and two sections may start in a packet. On the line packets are lost
(which also stands for the transport error indicator, on which the code drops
them), damaged or repeated. Each round of the loop in `dvr_section_reassemble`
is a step: `Start`, `Continue`, `Gap`, `NoPayload`; `Finish` is what they share.
A damaged packet has any unit start, pointer and counter, and none of its bytes is known:
`LenField`, the length that is read from them, may be anything up to `MaxLen`. So
bytes of following sections may come behind those of the damaged one, until the CRC
is found wrong, the counter has a gap, or a unit starts. They may also come to more
than `section->data` has: a length less than the header makes the count of what is
missing wrap (`section->len` is unsigned, psi.c:71), so that every packet is taken in
full (`Copied`). Then anything may happen: `alive` says whether the process still
runs. That needs damage the demodulator did not mark, and a counter that fits. (A
length of 4097 or 4098 is two bytes more than `data` has; that is in the model, too,
though these two bytes lie in the padding of the allocation.)

`Delivery` states what `pat.c` and `pmt.c` may assume: sections come in order,
each at most once, some not at all, except for the sections of a packet that is
received again. That exception is real: a repeated packet with a unit start
starts over and delivers its sections a second time (`psi_update_table` ignores
them, as their version has not changed). A repeated packet *without* one fails
the continuity check and costs the section.

### Http

A connection is a slot of memory that is freed and used again. Callbacks are
steps, except that `http_read_head` takes one step per line it reads (`ReadLine`)
while `busy` keeps everything else from running. libevent's bufferevent is
external: data is added to the input and reported; the write callback comes when
the output has become empty; an error or end of data is reported once and ends
reading. `MaxTs` packets make a chunk; `queue` counts writes.
A request is three kinds of lines: the command, attributes, the empty line. A
line of the wrong kind stands for everything the parser refuses.
`client` is where a client is in its request. In `http_clients` the client of one
connection waits for its answers and that of the other sends what it likes at any
time: attributes (then it is "chatty") or commands and bad lines while its answer is
under way (then it is `Early` for good). `Sent` and `Ahead` name these lines, `Again`
allows an empty line that ends no request, which is finding 5 and only in
`http_session`.

`wild` has the clients whose connection a callback used after it had freed it. There
is such a case (see the end of section 4), and `FreedUseOnlyEarly` says that there is
no other; after it the model goes on as if the read had found what was there before.
`PacketFlush` is one step over all receivers: the walk of `g_list_foreach`, which
reads the next element before it calls, is not modelled.

### Supervision

`pc` has the two threads; the event loop is in `fe_retune` (`check`, `tune`,
`clock`, `store`) and then between the two loops of `dmx_bounce_filter` (`stop`,
`start`), the frontend thread only in `fe_retune`. A step is what touches shared
state: reading `tunelast`, tuning, reading the clock, storing what was read to
`tunelast` (`stamp`), over what the other thread may have stored since. The ioctls of tuning that do not
end the process and the waits for the satellite switch are inside `Tune`; time
passes anywhere (`Tick`), so that a tuning may take longer than the delay. Times
are ages, capped at what they are compared with; `since`, `raced` and `quiet` are history
variables of the properties. The thread's `select` has the descriptor as its
first argument where the number of descriptors belongs, so it only times out, and
`Poll` is the branch for that; the one for events is dead code. The card loses its
lock, gets it after a tuning, or not, and locks up at any time. Time does not go
back: `tunelast` is a wall clock, and one that is set back suppresses retuning
until it has caught up.

The guard thread is two steps, `GuardCheck` and `GuardReset`, between which the
event loop may count a beat that is then lost. `Beat` is the timer of 50 ms; it
and all other callbacks run only while the event loop is not in `fe_retune` or the
bounce, and an event loop that is idle serves the timer before time passes. How
long a tuning in the event loop takes is open: it may hang (an ioctl, or the
`sleep(1)` after a DiSEqC message), which is what the guard is for.

### Outputs

A stream with one output (the outputs of a stream do not touch each other) of
type UDP, RTP or pipe. What is sent is numbered by unit: a unit of the model is
the amount that a FIFO may split, `PacketLen` of them are a packet. `buffer` is
the content of the simple buffer; `wrote` and `n` are history variables. `Send` is
`output_send` with one disjunct per way through it; the packets of inputs
(`StreamSend`) and those of the PAT (`PatPacket`, once per packet, while the timer
callback `stream_send_pat` runs) both go through it. A datagram may be refused by
the socket, a write to a FIFO may take a part (if it is longer than `PIPE_BUF`),
nothing, or fail for want of a reader.

### Config and Startup

A file is a sequence of lexemes; a step of `libconf_parse` takes one. Those in `Long`
do not fit into `tb` (`TokenOverrun`). `entries` are
the `lc_centry` structures in the order of their creation, so that a link is a
number and 0 is NULL. Each pass of `libconf_validate` is a step, as it only reads
the tree; the fourth takes one step per entry (`Callback`), because the callbacks
see the tree only through their order: `cur` has the pointers they write through,
and `wrote` maps each entry to the object its callback wrote to. `conf` holds the
tables of `config.c` with their minima, maxima and types. `strtol` and
`getaddrinfo` are constants. Reading or writing through NULL or outside of an object
ends in the phase `"crashed"`, `exit` in `"exited"`, and a `return NULL` or 0 in `"rejected"`.

`Startup` goes on from there in the order of `main`: HTTP server, then for each
adapter its tuning and for each of its streams the outputs, with their announcements,
and the inputs; then the announcements are sent. `StartInput` says whether a PID is in
the tables; what an input does there is in `Programs`. Numbers are cut to the width of what
they are stored in where that matters (`Port`, the `uint16_t` of a PID), and
`SocketTtl` is what a socket makes of a TTL. Whether a name fits into `cdata` and
`odata` (128 bytes) is a set (`LongNames`), whether the texts of an announcement fit into
`sappkt` (1024) a sum of lengths (`Bytes`, `SapRoom`). A setting of an
object is the last one written to it, `Num` what `strtol` makes of it, and 0 is
what `calloc` leaves. `Tuning` is what the card is told; `Delivered` is external:
what an LNB makes of tone and voltage. Opening a card or a socket may fail. An
adapter with blocks of two kinds (`Mixed`) has its settings in one union; what
comes out is left open.

## 3. Runs

| Run | Checks | Result |
|---|---|---|
| `programs` | PMT PIDs follow the PAT, in two sections and with exchanged PIDs; PIDs follow the PMT, none twice; callbacks, counts and filters of the demux agree with what the programs remember, also when filters fail to open; a shared one is never closed under a program; lists only change where no walk stands | holds |
| `programs_added` | a program that a later PAT adds is joined | **violated** |
| `programs_no_pcr` | a program only gets PIDs its PMT names | **violated** |
| `programs_crash` | no PAT ends the process | **violated** |
| `http_clients` | receivers and connections agree, the parser returns, requests are answered, slow receivers are dropped and only they, queues are bounded, what is freed is used in one case only | holds |
| `http_gone` | a connection whose peer is gone is dropped | **violated** |
| `http_session` | a receiver in the list has a connection | **violated** |
| `psi_reassembly` | no mixed sections but with damaged bytes, recovery with the next section, order (refinement of `Delivery`), the loop over a packet ends | holds |
| `supervision` | a lost lock and a lockup end; filters run after a bounce; a card that delivers is not bounced; tunings come within the delay only after both threads were tuning; the guard ends a loop that hangs and no other | holds |
| `supervision_race` | the two threads together keep the delay | **violated** |
| `outputs` | nothing lost, doubled or reordered in buffers; RTP and PAT counters; a FIFO is open or retried and comes back | holds |
| `startup` | the tree is that of the braces, settings land where they stand, mandatory ones are there, files crash in the known ways only, cards are tuned to what the LNB delivers, announcements are true | holds |

**Bounds.** *Programs*: three programs (two in `programs_added` and `programs_no_pcr`), two PIDs that may
carry PMTs and `PidMax` as a third, two that may not, one static PID, `PidMax` 5,
versions 0 and 1; `PidMax` also as an ES, as PCR and in the CRC. Two programs are
enough for every sharing and exchange of a PID; with two PMT PIDs a program can
move, and move back, and take over the one of the other; versions are only
compared for equality, and two values allow both a change and a changed section
under an old number. The state space is finite without a bound on steps.
*Psi*: three sections of lengths 3 and 7 with packets of 5 bytes and headers
of 2, so that sections fill more than one packet, start so late that the header is
split, and two start in one packet; damaged lengths up to 9 with room for 7; two
faults, so that a section that is damaged once goes on in a packet that is damaged
too or goes missing; counters modulo 3.
Faults are fewer than the modulus, as a run of 16 lost packets cannot be
seen in the counter (only the CRC then stands between it and a mixed section).
*Http*: two connections, two receivers, one output, chunks of two
packets, a queue of one write, one overflow, two lines outstanding, and clients send
while at most one write is under way (`MaxWrites`), as 404 pages of requests sent
at once would queue up without end. The second client only asks for the stream; the
first also for the page that is not there, by HTTP/1.0 and 1.1, and sends at the wrong
times. (In `http_gone` both are such, but wait.)
The limits are of the code (`HTTP_MAX_*`), only smaller; with two connections
one is dropped while the other is served, and a freed slot is used
for a new client while the old receiver would still be found.
*Supervision*: a minimal delay of 2 ticks, a polling interval of 1, stuck intervals
of 0 (off) and 1, less than the delay, so that the debounce gets in the way of the
stuck timer; one PID beside that of the PAT or the filter of the transponder; the guard looks every 2 ticks, its timer beats
every tick. Only the order of these numbers matters to the code.
*Outputs*: packets of two units, datagrams of two packets, a FIFO buffer of 7
units, which is not a multiple of a packet (nor is the real one), writes of up to
3 atomic, counters modulo 4, PATs of one to three packets: every counter wraps,
and the buffer overflows, with different amounts left in it.
*Startup*: three files that use every kind of block, and every file that differs
from one of them by one edit: one or three lexemes left out or doubled, two
exchanged, or one of 15 pieces put in anywhere (braces, semicolons, strings, quotes
without end, lexemes too long, options without block or value, second values). So each rule of the
parser and each check of the tables is broken in each place once. Besides, dishes
of both types below, at and above `slof`, with LNBs of one and two oscillators, a
negative frequency, cable adapters with known and unknown values, and streams of which
address, port, TTL, announcement, texts or PID are at the edge of their range or beyond. `ULong` is
smaller than the code's, as TLC has 32 bits; the proof has it for any value.

**Deadlock** is checked in `outputs`. It is
off where the system may stop: the process has crashed, was aborted or ended as
tuning failed, PID 0 has no filter, both connections are lost, the last section
was sent, a file was rejected.

**Fairness.** *Programs*: none, its properties are safety. *Http*: weak for
`ReadLine` (a loop in a callback goes on), strong for `Read` and `Packet`: the
event loop serves every descriptor that is ready again and again, and the card
goes on delivering. None for clients: they may stop reading, never finish a
request, or never go away. *Psi*: weak for the rounds of the loop; nothing is
assumed of sender or line. *Supervision*: weak for the frontend thread in
`fe_retune`, for the stuck timer and the bounce, for the guard's thread and its
timer, and for time; strong for `Poll` (`FE_READ_STATUS` may fail, but not for
ever). Nothing of lock, packets and lockups, and nothing of tuning in the event
loop, which may hang. *Startup*: none, its properties are safety. *Outputs*:
weak for `PatPacket` (a callback goes on), strong for
`PipeOpen`: the timer is served, and opening a FIFO that has a reader again and
again does not fail for ever.

## 4. Findings

1. `ListedProgramJoined` (pat.c:246): `pat_update` joins the PMT of a program in
   the second loop only if the *previous* PAT listed it. A program that is added
   or comes back is not received until the program restarts or its PMT PID
   changes. The first PAT goes another way, so this does not show at the start.
2. `OnlyAnnouncedPcr` (pmt.c:307): without PCR PID the program joins PID 0, and its
   outputs get the PAT of the transponder beside the generated one.
3. `NeverCrashes` (pat.c:231): section 1 of a PAT before section 0 ends the process.
4. `GonePeerDropped` (libhttp.c:209): the 404 handler ends a request where it was
   to drop the connection; a keep-alive connection that ended stays allocated.
5. `ReceiversAreSessions` (output_http.c:47): an empty line after the head of a
   stream request adds the connection a second time; the first receiver stays in
   the list after the connection is freed.
6. `RetuneDebounced` (fe.c:451): `tunelast` is checked before and stored after a
   tuning, and nothing locks it, so the frontend thread and the stuck timer may
   tune one after the other. A time that is stored may also be older
   than the one it overwrites, so that even one thread may come too early twice; but
   all this needs both threads in `fe_tune` at once (`DebouncedUnlessRaced`).

Seen on the way, without a run of their own:

* a program that disappears from the PAT keeps its streams (FIXME, pmt.c:421);
* `pmt_pidfrompat` joins the new PMT PID without asking whether the program gets
  the PID already: then its outputs get the packets twice; and leaving the old
  PMT PID takes away a stream on the same PID. `NoDoubleDelivery` and
  `CurrentPmtReceived` therefore speak of PIDs that are never PMT PIDs;
* the stored PMT is not cleared when the PMT PID moves: an equal version on the
  new PID is not read;
* an ES on PID 0x1fff, or a CRC that reads so behind an empty ES loop, looks up the entry
  behind `program_s.pidtable`; that is a pointer which is set, so the ES is not joined.
  A PMT PID of 0x1fff is joined and its list stored there, over `prog->psi`
  (pmt.c:83, 419): `PmtPidOverrun`;
* `http_cb_write` reads `hc->status` after the handler may have freed `hc`
  (libhttp.c:478-487). It takes a client that does not wait: a 404 page is under way by
  HTTP/1.1, data that arrives ends the request (libhttp.c:466), a command of HTTP/1.0
  resets keepalive, and when the first page is written, the status is not
  `HC_STATUS_END` any more: HCB_WRITE goes to the 404 handler, which drops the
  connection. No other order of events leads there (`FreedUseOnlyEarly`);
* 404 pages that a client asks for one after the other without waiting are all queued;
  the bound on what is queued is for streams only, and on top of such pages if the
  client asks for a stream behind them (`QueueBounded` leaves these clients out);
* a damaged length that is longer than the section takes bytes of the next one into the
  buffer, and one that is less than the header (or 4097, 4098) makes
  `psi_reassemble_continue` write behind `section->data` if enough packets with the right
  counters follow (psi.c:71, 104-108): see section 2;
* packets in the chunk buffer when the last receiver leaves go to the next one;
* in packed streams a section that ends where a later one starts is lost;
* `select` in the frontend thread never sees an event (fe.c:586): a lost lock is
  noticed up to one polling interval late;
* the comment on output_pipe.c:120-124 says that the buffer is zapped whether the
  write succeeds or not; the code keeps what was not written, which is what makes
  `BufferHoldsRest` hold for readers that are slow;
* after an overflow the FIFO is closed in the middle of a packet; a reader that
  keeps its end open sees the rest of that packet replaced by a new one;
* `pat_send` puts all programs into one section, whatever their number (FIXME in
  the code);
* a retune by the stuck timer of a card behind a DiSEqC switch sleeps for a second in
  the event loop (fe.c:240), as long as the guard waits: it may abort the process;
* `main` ignores that `dvr_init` could not open the device (dvr.c:307): the adapter
  then has no timers and no packets; and the size of the packet buffer is multiplied
  by the packet size twice;
* `sdt_section_cb` has a `return` without semicolon in front of a log message: it
  logs "Received sdt" for every table that is *not* an SDT.

In the configuration:

* what is mandatory is only counted in blocks that exist (libconf.c:459-464):
  `output-udp;` passes, and `inet_aton` then reads NULL; `http;`, or port 0, with an
  HTTP output makes `http_register_url` read a server that is NULL;
* `sap` is accepted directly in a stream (README.mdwn:241 knows it in `output-rtp`
  and `output-udp` only): it goes to the output before it, or to NULL;
* an entry without name (`{` at the wrong place) crashes the first pass, unless a word
  comes behind the block: a block before the first word of its level becomes that of
  this word (libconf.c:147-152, 189-191);
* a second block of an entry replaces the first; blocks still open at the end of
  the file are accepted; a last word that touches the end is lost;
* values are unique as strings: adapters `0` and `00` are two;
* the interval of SAP is 10 by default (config.c:103), not 1 (README.mdwn:257);
* `remote-address` is checked with `getaddrinfo` but used with `inet_aton`: names and
  IPv6 addresses pass, and the output sends to 0.0.0.0 (socket.c:93);
* a `ttl` of 0 is not set, for UDP, RTP and SAP (socket.c:54): multicast packets leave with the
  kernel's 1; -1 asks the kernel for its default, which is the same, and what is less or
  above 255 is refused without notice. Ports are cut to 16 bits by `htons`. The
  announcement has the values of the file all the same;
* a word or string of more than 255 bytes is written behind `tb` (libconf.c:83, 118, 131);
* `pid` is not checked, only cut to 16 bits (config.c:125): above 0x2000 the callback is
  stored behind `dvr.pidtable` (dvr.c:161-165), and the filter behind that of dmx.c;
* the address of an output is printed to `cdata` and `odata` (sap.c:207, 265; 128
  bytes), and name and texts of an announcement to `sappkt` (sap.c:86-122; 1024), whatever
  their length;
* DVB-S2 ignores `diseqc` and `lnb-sharing`, has no tone exactly at `slof` where it
  takes the upper oscillator, and has the tone on for a C band LNB (fe.c:166-172,
  other than fe.c:182-208);
* an adapter without a `dvb-*` block is tuned as DVB-S with zeros; blocks of two
  kinds share a union; of two outputs with one URL the first is never served.

## 5. Proofs

A section for each module says what it proves, from which assumptions, and by which
invariant: few of the properties are inductive alone, so most modules define `IInv`,
which implies them and is, with the theorem `Invariance == Spec => []IInv`.

### Programs

`ProgramsProofs` proves, for every number of programs, every set of PIDs and every
set of sections the two assumptions admit:

| Theorem | States |
|---|---|
| `TypeCorrect` | `[]TypeOK` |
| `Invariance` | `[]IInv` |
| `PmtReceived`, `PatFollowed`, `PmtFollowed`, `OnlyActive`, `DeliveredOnce`, `FiltersMatched` | the state invariants of the runs (`PmtFollowed`: `CurrentPmtReceived`) |
| `SharedFilter`, `WalkedList` | the action properties |

*Assumptions.* `ProgramAssumption` (static PIDs and those of the adapter's tables are
below `PidMax`, those of PMTs may be `PidMax`, too, but not 0, and there are finitely
many programs, as the section users are counted) and `SectionAssumption` (sections
have the form a parser finds; a program is listed by one section number of the PAT;
PCR, ES and what is read from the CRC may be any PID, `PidMax` included). TLC
evaluates both in each run of `MCPrograms`.

*Argument.* `IInv` is the conjunction of
`TypeOK`, `PmtPidReceived`, `PmtPidFollowsPat`, `OnlyActivePids`,
`CurrentPmtReceived`, `NoDoubleDelivery` and `FiltersMatchCallbacks`. For example that a program gets every ES of
its PMT after the next one arrives rests on it having got those of the last PMT
(`pmt_update` skips them unseen), which the previous PMT's step has left only if
the leaving loop spared them. For an entry of the demux `Sound` is what
`FiltersMatchCallbacks` says, with the callbacks that are owned as a parameter; the lemmas
`DelTsSound`, `AddTsSound`, `DelSectionSound` and `AddSectionSound` say what the
operations of dvr.c make of it (that the count of section users is 1 exactly if one
is left is where finite programs are needed). `MoveDvr` and `PmtDvr` put them together
for a call of `pmt_pidfrompat` and a PMT: each needs `PmtPidReceived`, as the callbacks
that are removed must be there. `MoveStep` and `PmtStep` say what the handlers do to the
programs; `PatKeeps`, `MoveKeeps` and `PmtKeeps` preserve `IInv`, with a step per
conjunct; crashes and stutter change nothing of it. The action properties follow
from `IInv` and the step lemmas.

### Http

`HttpProofs` proves, for every number of connections, outputs and receivers and
every limit,

| Theorem | States |
|---|---|
| `TypeCorrect` | `[]TypeOK` |
| `SessionsLive` | `[]ReceiversLive` |
| `FreedUseKnown` | `[]FreedUseOnlyEarly` |
| `MemoryBounded` | `[]QueueBounded` |
| `OnlySlowDropped` | `StreamKeptWhileServed` |

*Assumptions.* `HttpAssumption`, `LineAssumption`, and in each theorem `~Again`: no client
sends an empty line that ends no request, as in `MCHttp.cfg`. It is needed: with
such lines the invariants are false (finding 5). Clients may send everything else at any
time, answers under way or not, stop reading, and go at any point.

*Argument.* `IInv` is `TypeOK`, `~Again`, `ReceiversLive`, `QueueBounded`
and `FreedUseOnlyEarly` with `LinesInv`, `StatusInv` and `BusyInv`. `LinesInv` is the heart:
of a client that is not early, behind an empty line, in the input or still in the socket,
there are only attributes; and of any client, between two empty lines there is a
command (`Separated`), which is refused where a request has ended and a stream is on
its way. So `http_read_head` processes a query once per request, and a connection gets no
second receiver.
`StatusInv` says that the write callback finds a request to end only where
there is no stream, so that it drops no connection a receiver names; and that an answer
that is under way stands at the end of its request, or on a connection that is kept,
unless the client is early, so that only then the handler drops what is read again. One lemma per
callback (`Connecting`, `Parsing`, `ParsingCommand`, `Answering404`,
`StartingStream`, `Flushing`), and `Frame`, `Handled` and `LinesKept` for what they
share. `OnlySlowDropped` is about steps: it needs `IInv`, as only with it a connection
that streams is named by one receiver, which counts its overflows, and
`OverflowInv`, that no receiver is above the limit (`MaxOverflow`). The lemmas
`HandledKeeps`, `FlushKeeps` and `QuietKeeps` say what the end of a connection, a chunk
and the other callbacks leave of a stream.

### Psi

`PsiProofs` proves, for every number and lengths of sections, every size of packets
and every number of faults,

| Theorem | States |
|---|---|
| `Invariance` | `[]IInv` |
| `PrefixKept` | `[]BufferIsPrefix` |
| `WholeDelivered` | `[]WholeSectionDelivered` |
| `Refinement` | `DeliveredInOrder`: `Psi` implements `Delivery` |

*Assumptions.* `PsiAssumption`: sections are longer than their header, a packet holds
more than a header, and the continuity counter has more values than there are
faults. The last is needed: after as many lost packets as the counter has values
nothing shows the loss, and the rest of another section is taken for that of the
one in the buffer.

*Argument.* That an undamaged buffer is the beginning of one section (`BufInv`) is not
inductive: a packet that goes on must also go on *there*. `LagInv` says why: the
distance between the counter of the buffer and that of the packet which is coming
(or of the sender, if none is) is at most the number of faults, so distance 0 means
that nothing is missing, and then the packet's bytes follow those of the buffer.
`PacketInv` says of the packet on the line and of the one in the loop that they are
the last the sender made, and where the sections in them begin (`Latest`), or, if they
are damaged, only what `psi_reassemble` needs not to read beyond the packet (`Frame`). A
buffer with damaged bytes keeps them until it is cleared or started again, so `StartBadly`
and `ContinueBadly` have nothing to show of its content but types, and that it is not
delivered. `AliveInv`, that nothing was written behind an undamaged buffer, follows. `RepeatInv` that only
a fault brings a packet a second time. `LoopInv` holds between the rounds of the loop:
behind a section that was delivered there is stuffing or the section that starts
next. `OrderInv` puts `last`, the sections in the packets and `cur` in order, which is what
the refinement needs: a step that delivers a new section is `Deliver`, one that
delivers sections of a packet again is `Again` (the packet remembers in `since` which section
preceded it), `SendStart` and `SendTwo` are `Send`, and the rest changes nothing
`Delivery` knows. `WholeInv` says that while no packet of the section is missing the
buffer takes each. One lemma per action (`SendRestKeeps` to `NoPayloadKeeps`), with a
step per part of `IInv`, and `StepDelivers` for the refinement.

### Outputs

`OutputsProofs` proves, for every size of packet, datagram and buffer and every range
of the counters,

| Theorem | States |
|---|---|
| `PipeRetried` | `[]PipeOpenOrRetried` |
| `SequenceCounts` | `[]SeqCountsPackets` |
| `PatCounters` | `[]PatContinues` |
| `BufferHolds` | `[]BufferHoldsRest` |

*Argument.* `IInv` has the types, that an output other than an open
FIFO never arms the timer, and that the buffer of an RTP output holds exactly the
packets since the last datagram, of which `rtpseq` has counted the ones before.
`BufInv` is about all three outputs: the last unit of the buffer is the last of the last
packet and each unit follows the one before it, so what leaves at the front, all
of it or a part, leaves a rest of the same form; and if nothing was written since
the FIFO was opened the buffer has whole packets. As units are numbered modulo
`Period`, it also says that the buffer is shorter than `Period`, for else its length
would not follow from its first unit. The lemmas `ModSplit`, `ModUnique` and
`ModShift` are about remainders by a modulus that is a constant.

### Startup

Three modules, each on the one before, for every set of files:

| Theorem | States | Module |
|---|---|---|
| `TreeStaysATree` | `[]TreeOK` | `StartupProofs` |
| `NestingStays` | `[]NestingKept` | `StartupProofs` |
| `SettingsInvariance` | `[]SInv` | `SettingsProofs` |
| `SettingsKept` | `[]SettingsLand` | `SettingsProofs` |
| `OutputsGetSettings` | `[]OutputsAddressed` | `MainProofs` |
| `CrashesKnown` | `[]OnlyKnownCrashes` | `MainProofs` |
| `Announcements` | `[]AnnouncedTruly` | `MainProofs` |
| `CardsTunedToLnb` | `[]TunedToLnb` | `MainProofs` |

*Assumptions.* `ConfigAssumption` (lexemes are words that are not empty, and
punctuation is not quoted) and `StartupAssumption` (`strtol` gives integers); TLC
evaluates both. The tables of `config.c` are definitions, not assumptions: what the
proofs need of them (`TableFits`, `NeededOnce`, `AddressOption`, `TtlOption`) is
proved option by option.

*The tree.* Each link goes to an entry that was made later and knows its parent, so the
recursions of `libconf_validate` end. `TreeOK` is inductive; the lemmas say what an
exchanged and an added entry do to the links. From it follows that the recursive
functions of the model (`Table`, `Enclosing`, the walk) satisfy their equations,
by the least entry for which they would not.

*The braces.* The braces are not in the tree, and an entry has a place in the file only
once it has a name, so `NestingKept` is far from inductive. `NestInv` says that there is
a function from the entries to the braces of their blocks, such that names stand in
their blocks (`Placed`), blocks in those of the entries they belong to, one deeper
(`Blocks`), and the current entry is in the innermost open block (`Current`). That no
other name comes between a name and its block (`Owners`) needs that an entry no
other follows is the last of its block, and the only one while it has no name
(`Lasts`); that a closing brace leads back to such an entry needs that the blocks of
all others are closed (the last part of `Blocks`). The file is followed by its depth:
what is open behind a closing brace is what was open at the brace it closes
(`OpenClosing`). The attempt corrected the property: in an earlier form it said that
the name is always before the block, which a block before the first word violates.

*The pointers.* That settings land where they belong needs more than the pointer each
callback uses: behind every callback *all* objects around its entry are those their
pointers name (`At`). It is inductive because (1) the walk meets an entry behind
one that the parent of the entry is around (`PreorderIs`), so that all objects around the
next entry are around the last; and (2) nothing inside an object is of its kind
(`NotNested`), so that no callback in a block moves a pointer to what is around the
block. (2) is a fact about the tables, by induction along `Around`: `Below` says what may be
created in the blocks of a table, and `Fits` that each option takes from it what it
creates itself. `AllHeld` then says that the innermost object is of the kind the
table of the entry writes to. The exception is found by the proof as well: a `sap` in
a stream has the pointer of another table (`PointerIs`).

*What follows.* `SInv` also says what each pass leaves. So the settings of an object are
the entries of its block (`WritersAre`), and the counts of `libconf_validate_valueopt`
are counts of settings. A crash is then that of the step that ends in it: no pointer
a callback uses is NULL, as what it names is around the entry; `CrashInv` adds that
without the HTTP server there is no port. `OnlyKnownCrashes` is a list, so its worth is in
what is not on it: no other file crashes, from the first lexeme to the announcements,
as far as the model goes (section 6).
`SessionInv` says that an announcement has the settings of an output of which it
was written as `sap`, with a number below the next one. `CardsTunedToLnb` holds for all
frequencies, oscillators, polarisations and either type, by the cases of `Offset` and
`Tone`; its invariant is that what a card was told still follows from the settings,
which do not change once `main` runs.

### Supervision

`SupervisionProofs` proves, for every delay, interval and number of PIDs,

| Theorem | States |
|---|---|
| `TypeCorrect` | `[](TypeOK /\ GuardTypeOK)` |
| `Invariance` | `[]IInv` |
| `FiltersStarted`, `QuietBounced` | `[]FiltersRun`, `BouncesOnlyQuiet` |
| `OnlyRacesDefeatDebounce` | `DebouncedUnlessRaced` |
| `GuardIsJust` | `[]GuardJust` |

*Assumptions.* `SupervisionAssumption`: delay, polling interval and number of PIDs
are positive, stuck intervals are numbers, the guard's timer beats more often than
the guard looks.

*Argument.* `IInv` is the types with four parts. `BounceInv`: no filter is stopped
except between the two loops of the bounce. `DebounceInv`: neither
`tunelast` nor a time that a thread is about to store is older than a tuning, unless
both threads have been in `fe_tune` since (`NotAfter`); a thread that has passed the
check comes from there, so the tunings are as far apart as the check says, but after
such a race. (What was claimed of one thread alone before is false: the other one
may store an older time over its own.) `QuietInv`: with no reads counted, the time since
the last read is at least the part of the interval that is over; it stays true
through `fe_retune`, in which the event loop does not read. `GuardInv`: if the counter
is 0 after its reset, the timer has not come since, so the silence is at least the
part of the guard's interval that is over; a beat between check and reset, which
is lost, leaves the counter 0 but the guard's interval whole. One lemma per group of
actions, with a step per conjunct.

*Only model-checked:* liveness.

## 6. Not modelled

Planned, in this order:

1. Convergence: `Programs` under a multiplex that repeats its sections, up to the
   state in which each program gets what the multiplex says, as liveness; and an
   abstract specification of what a stream is given (the PIDs of the announced
   programs), which `Programs` refines where the findings do not stop it.
2. The walk over the callbacks of a packet (`dvr_input_ts`) step by step, with the
   callbacks that join and leave PIDs on the way, as a module that implements the
   atomic section callbacks of `Programs`.

Left out for good, of the start: how deep `libconf_validate` recurses and what `malloc` gives
(stack and memory are taken as enough); what `long` values lose where the configuration
stores them in an `int`; `sdt_init`, whose callback stays in its table; and what becomes
of a crash, which is where the model stops. `OnlyKnownCrashes` therefore speaks of the
time until the event loop runs, and of announcements; packets, clients and sections
are in the other modules.

Left out for good: SDT (a callback that only logs), the text of announcements,
ioctls and DiSEqC messages (device I/O), command line options, logging, the CRC
table, `ringbuffer.c` (not linked) and `tsdecode.c` (a separate tool). Memory that
is not freed (such as the reassembler of a PID that lost its last section
callback) is not represented.
