-------------------------------- MODULE Http --------------------------------
(***************************************************************************)
(* The HTTP server (libhttp.c) and the HTTP outputs of the streams         *)
(* (output_http.c): connections, their requests, and the receivers that    *)
(* get the packets of a stream.                                            *)
(*                                                                         *)
(* Server and outputs run in callbacks of one libevent thread.  A callback *)
(* is one step, except that http_read_head works through the lines it has  *)
(* in one step each; busy names the connection it is at, and nothing else  *)
(* runs meanwhile.  A connection is a slot of memory: it is used again for *)
(* a later client.                                                         *)
(*                                                                         *)
(* External: the clients; and the buffered sockets of libevent, as far as  *)
(* the code relies on them.  Data that arrives is added to the input and   *)
(* the read callback is called; the write callback is called when the      *)
(* output has become empty by writing; an error or the end of the peer's   *)
(* data is reported once and ends reading.                                 *)
(***************************************************************************)
EXTENDS Naturals, Sequences, FiniteSets

CONSTANTS
    Conn,         \* http_connection structures
    Output,       \* outputs of type HTTP, each with a URL of its own
    Receiver,     \* http_receiver_s structures
    Other,        \* a URL that no output registered
    None,         \* a NULL pointer
    MaxTs,        \* HTTP_MAX_TS: packets that are sent as one chunk
    MaxQueued,    \* HTTP_MAX_QUEUED, counted in writes
    MaxOverflow,  \* HTTP_MAX_OVERFLOW
    Sent,         \* the lines that the client of a connection may send
    Ahead,        \* those it may send at the wrong time, as too early
    Again,        \* they may send an empty line that ends no request
    MaxLines,     \* bound: lines not read, per connection
    MaxWrites     \* bound: writes not done when a client sends a line

ASSUME HttpAssumption ==
    /\ Other \notin Output
    /\ None \notin Output \cup {Other}
    /\ None \notin Receiver
    /\ None \notin Conn
    /\ MaxTs \in Nat \ {0}
    /\ MaxQueued \in Nat
    /\ MaxOverflow \in Nat
    /\ MaxLines \in Nat \ {0}
    /\ MaxWrites \in Nat

Url == Output \cup {Other}

(* A line of a request: the command, an attribute, the empty line.  A line *)
(* that is no line of HTTP is treated like one at the wrong place.         *)
Line ==
    [kind : {"command"}, url : Url, http11 : BOOLEAN]
    \cup [kind : {"attrib", "empty"}, url : {Other}, http11 : {FALSE}]

ASSUME LineAssumption ==
    /\ Sent \in [Conn -> SUBSET Line]
    /\ Ahead \in [Conn -> SUBSET Line]
    /\ Again \in BOOLEAN

VARIABLES
    client,     \* where a client is in its request
    ready,      \* connections with data for which http_cb_read was not called yet
    gone,       \* connections with an error or the end of data reported
    open,       \* hs->conn: the connections that are not freed
    hc,         \* the fields of a connection
    input,      \* lines in the socket and the input of the bufferevent
    queue,      \* writes in its output
    busy,       \* the connection http_read_head works on
    receivers,  \* o->http_receiver
    hr,         \* the fields of a receiver
    fill,       \* packets in o->buffer
    wild        \* the clients whose connection was used after it was freed

vars == <<client, ready, gone, open, hc, input, queue, busy, receivers, hr,
          fill, wild>>

(* A connection after calloc. *)
NewConnection ==
    [status |-> "head", keepalive |-> FALSE, url |-> None,
     handler |-> "404", arg |-> None]

NewReceiver == [hc |-> None, overflow |-> 0]

Streaming(c) == c \in open /\ hc[c].handler = "stream"

-----------------------------------------------------------------------------
(* Ends of requests and connections.                                       *)

(* http_drop_connection *)
Drop(c) ==
    /\ open' = open \ {c}
    /\ hc' = [hc EXCEPT ![c] = NewConnection]

\* Mutant: the URL of the finished request is kept.
MutRequestEndUrl(c) ==
    IF hc[c].keepalive
    THEN /\ hc' = [hc EXCEPT ![c].status = "head", ![c].handler = "404"]
         /\ UNCHANGED open
    ELSE Drop(c)

(* http_request_end *)
RequestEnd(c) ==
    IF hc[c].keepalive
    THEN /\ hc' = [hc EXCEPT ![c].url = None, ![c].status = "head",
                             ![c].handler = "404"]
         /\ UNCHANGED open
    ELSE Drop(c)

\* Mutant: the receiver stays in the output's list.
MutRemoveReceiverList(r) ==
    /\ UNCHANGED receivers
    /\ hr' = [hr EXCEPT ![r] = NewReceiver]
    /\ Drop(hr[r].hc)

(* output_remove_receiver *)
RemoveReceiver(r) ==
    /\ receivers' = [o \in Output |-> receivers[o] \ {r}]
    /\ hr' = [hr EXCEPT ![r] = NewReceiver]
    /\ Drop(hr[r].hc)

(* The handlers for every callback but HCB_QUERY: http_url_handler_404     *)
(* ends the request whatever it is called for, output_cb_http only knows   *)
(* errors.                                                                 *)
Handle(c, cbtype) ==
    IF hc[c].handler = "404"
    THEN RequestEnd(c) /\ UNCHANGED <<receivers, hr>>
    ELSE IF cbtype = "error"
    THEN RemoveReceiver(hc[c].arg)
    ELSE UNCHANGED <<open, hc, receivers, hr>>

-----------------------------------------------------------------------------
(* Clients.                                                                *)

(* A client sends a command, attributes and an empty line and waits for    *)
(* the answer, which a stream never ends.  It is "chatty" when it sent     *)
(* attributes while it waited, and "early" once it sent a line at another  *)
(* wrong place; "earlyHead" is early with a request begun.                 *)
Early == {"early", "earlyHead"}

NextPhase(phase, l) ==
    CASE phase = "idle" /\ l.kind = "command" -> "head"
      [] phase = "head" /\ l.kind = "attrib"  -> "head"
      [] phase = "head" /\ l.kind = "empty"   -> "waiting"
      [] phase \in {"waiting", "chatty"} /\ l.kind = "attrib" -> "chatty"
      [] phase = "earlyHead" /\ l.kind = "attrib" -> "earlyHead"
      [] OTHER -> IF l.kind = "command" THEN "earlyHead" ELSE "early"

(* The client of c may send l. *)
Allowed(c, l) ==
    /\ NextPhase(client[c], l) \in Early \cup {"chatty"} => l \in Ahead[c]
    /\ l.kind = "empty" => client[c] \in {"head", "earlyHead"} \/ Again

Send(c, l) ==
    /\ busy = None
    /\ c \in open \ gone
    /\ Len(input[c]) < MaxLines
    /\ queue[c] <= MaxWrites
    /\ Allowed(c, l)
    /\ input' = [input EXCEPT ![c] = Append(@, l)]
    /\ ready' = ready \cup {c}
    /\ client' = [client EXCEPT ![c] = NextPhase(@, l)]
    /\ UNCHANGED <<gone, open, hc, queue, busy, receivers, hr, fill, wild>>

(* http_connect: calloc, HC_STATUS_HEAD, the 404 handler. *)
Connect(c) ==
    /\ busy = None
    /\ c \notin open
    /\ open' = open \cup {c}
    /\ gone' = gone \ {c}
    /\ hc' = [hc EXCEPT ![c] = NewConnection]
    /\ client' = [client EXCEPT ![c] = "idle"]
    /\ ready' = ready \ {c}
    /\ input' = [input EXCEPT ![c] = <<>>]
    /\ queue' = [queue EXCEPT ![c] = 0]
    /\ UNCHANGED <<busy, receivers, hr, fill, wild>>

-----------------------------------------------------------------------------
(* Callbacks of a connection.                                              *)

(* http_cb_read with HC_STATUS_END: the request is ended, and what has     *)
(* arrived stays in the input until more arrives.                          *)
ReadEnd(c) ==
    /\ busy = None
    /\ c \in ready
    /\ hc[c].status = "end"
    /\ Handle(c, "end")
    /\ ready' = ready \ {c}
    /\ input' = [input EXCEPT ![c] = IF c \in open' THEN @ ELSE <<>>]
    /\ queue' = [queue EXCEPT ![c] = IF c \in open' THEN @ ELSE 0]
    /\ UNCHANGED <<client, gone, busy, fill, wild>>

(* http_cb_read with HC_STATUS_HEAD: http_read_head starts. *)
ReadHead(c) ==
    /\ busy = None
    /\ c \in ready
    /\ hc[c].status = "head"
    /\ ready' = ready \ {c}
    /\ busy' = c
    /\ UNCHANGED <<client, gone, open, hc, input, queue, receivers, hr, fill, wild>>

(* http_parse_command_url: the first line. *)
ParseCommand(c) ==
    LET l == Head(input[c])
    IN  /\ busy = c
        /\ input[c] # <<>>
        /\ hc[c].url = None
        /\ l.kind = "command"
        /\ hc' = [hc EXCEPT ![c].url = l.url, ![c].keepalive = l.http11]
        /\ input' = [input EXCEPT ![c] = Tail(@)]
        /\ UNCHANGED <<client, ready, gone, open, queue, busy, receivers, hr,
                       fill, wild>>

\* Mutant: the line is not drained.
MutParseAttribStays(c) ==
    /\ busy = c
    /\ input[c] # <<>>
    /\ hc[c].url # None
    /\ Head(input[c]).kind = "attrib"
    /\ UNCHANGED <<input, client, ready, gone, open, hc, queue, busy,
                   receivers, hr, fill, wild>>

(* http_parse_attrib: the attributes have no reader. *)
ParseAttrib(c) ==
    /\ busy = c
    /\ input[c] # <<>>
    /\ hc[c].url # None
    /\ Head(input[c]).kind = "attrib"
    /\ input' = [input EXCEPT ![c] = Tail(@)]
    /\ UNCHANGED <<client, ready, gone, open, hc, queue, busy, receivers, hr,
                   fill, wild>>

(* http_process_query of a URL without output: the 404 page. *)
Query404(c) ==
    /\ busy = c
    /\ input[c] # <<>>
    /\ hc[c].url = Other
    /\ Head(input[c]).kind = "empty"
    /\ hc' = [hc EXCEPT ![c].status = "end"]
    /\ queue' = [queue EXCEPT ![c] = @ + 1]
    /\ input' = [input EXCEPT ![c] = Tail(@)]
    /\ UNCHANGED <<client, ready, gone, open, busy, receivers, hr, fill, wild>>

(* http_process_query of the URL of an output: output_cb_http makes the    *)
(* connection a receiver and sends the header.                             *)
QueryStream(c, r) ==
    /\ busy = c
    /\ input[c] # <<>>
    /\ hc[c].url \in Output
    /\ Head(input[c]).kind = "empty"
    /\ hr[r].hc = None
    /\ hr' = [hr EXCEPT ![r] = [hc |-> c, overflow |-> 0]]
    /\ receivers' = [receivers EXCEPT ![hc[c].url] = @ \cup {r}]
    /\ hc' = [hc EXCEPT ![c].handler = "stream", ![c].arg = r]
    /\ queue' = [queue EXCEPT ![c] = @ + 1]
    /\ input' = [input EXCEPT ![c] = Tail(@)]
    /\ UNCHANGED <<client, ready, gone, open, busy, fill, wild>>

(* A line that is not right: http_read_head stops, the rest stays in the   *)
(* input, and the handler gets HCB_ERROR.                                  *)
BadLine(c) ==
    /\ busy = c
    /\ input[c] # <<>>
    /\ (hc[c].url = None) <=> (Head(input[c]).kind # "command")
    /\ Handle(c, "error")
    /\ busy' = None
    /\ input' = [input EXCEPT ![c] = IF c \in open' THEN Tail(@) ELSE <<>>]
    /\ queue' = [queue EXCEPT ![c] = IF c \in open' THEN @ ELSE 0]
    /\ UNCHANGED <<client, ready, gone, fill, wild>>

(* No more lines: http_cb_read returns. *)
ReadDone(c) ==
    /\ busy = c
    /\ input[c] = <<>>
    /\ busy' = None
    /\ UNCHANGED <<client, ready, gone, open, hc, input, queue, receivers, hr,
                   fill, wild>>

(* The socket takes a write and more is left. *)
Write(c) ==
    /\ busy = None
    /\ c \in open \ gone
    /\ queue[c] > 1
    /\ queue' = [queue EXCEPT ![c] = @ - 1]
    /\ UNCHANGED <<client, ready, gone, open, hc, input, busy, receivers, hr,
                   fill, wild>>

(* The connection c is used, of which the handler was called. *)
UsedFreed(c) == IF c \in open' THEN {} ELSE {client[c]}

\* Mutant: HCB_WRITE goes to the handler whatever the status is.
MutWriteCbEnd(c) ==
    /\ Handle(c, "write")
    /\ wild' = wild \cup UsedFreed(c)

(* http_cb_write.  With HC_STATUS_END the handler gets HCB_END; otherwise  *)
(* it gets HCB_WRITE, after which hc->status is read again although the    *)
(* handler may have freed the connection.                                  *)
WriteCb(c) ==
    IF hc[c].status = "end"
    THEN Handle(c, "end") /\ UNCHANGED wild
    ELSE /\ Handle(c, "write")
         /\ wild' = wild \cup UsedFreed(c)

(* The socket takes the last write and http_cb_write is called.  A client  *)
(* that waited has its answer, unless the answer is a stream.              *)
WriteLast(c) ==
    /\ busy = None
    /\ c \in open \ gone
    /\ queue[c] = 1
    /\ WriteCb(c)
    /\ queue' = [queue EXCEPT ![c] = 0]
    /\ client' = [client EXCEPT ![c] =
                    IF @ = "waiting" /\ ~Streaming(c) THEN "idle" ELSE @]
    /\ ready' = ready \cap open'
    /\ input' = [input EXCEPT ![c] = IF c \in open' THEN @ ELSE <<>>]
    /\ UNCHANGED <<gone, busy, fill>>

(* http_cb_error: the peer is gone.  Nothing is read or written after it.  *)
Error(c) ==
    /\ busy = None
    /\ c \in open \ gone
    /\ Handle(c, "error")
    /\ gone' = gone \cup {c}
    /\ queue' = [queue EXCEPT ![c] = 0]
    /\ ready' = ready \ {c}
    /\ input' = [input EXCEPT ![c] = <<>>]
    /\ UNCHANGED <<client, busy, fill, wild>>

-----------------------------------------------------------------------------
(* Packets.                                                                *)

\* Mutant: the overflow counter is never reset.
MutOverflowKept(r) ==
    IF queue[hr[r].hc] > MaxQueued THEN hr[r].overflow + 1
    ELSE hr[r].overflow

\* Mutant: the overflow is noted, not counted.
MutOverflowOnce(r) == IF queue[hr[r].hc] > MaxQueued THEN 1 ELSE 0

(* hr->overflow after output_send_http_one. *)
Overflow(r) == IF queue[hr[r].hc] > MaxQueued THEN hr[r].overflow + 1 ELSE 0

(* The receivers output_send_http_one drops. *)
TooSlow(o) == {r \in receivers[o] : Overflow(r) > MaxOverflow}

\* Mutant: a chunk is queued however much is queued already.
MutServedAll(o) == receivers[o] \ TooSlow(o)

(* The receivers it sends the chunk to. *)
Served(o) == {r \in receivers[o] : queue[hr[r].hc] <= MaxQueued}

\* Mutant: the buffer is filled beyond the packet that makes it full.
MutPacketAddLate(o) ==
    /\ busy = None
    /\ receivers[o] # {}
    /\ fill[o] + 1 <= MaxTs
    /\ fill' = [fill EXCEPT ![o] = @ + 1]
    /\ UNCHANGED <<client, ready, gone, open, hc, input, queue, busy,
                   receivers, hr, wild>>

(* output_send_http, buffer not full *)
PacketAdd(o) ==
    /\ busy = None
    /\ receivers[o] # {}
    /\ fill[o] + 1 < MaxTs
    /\ fill' = [fill EXCEPT ![o] = @ + 1]
    /\ UNCHANGED <<client, ready, gone, open, hc, input, queue, busy,
                   receivers, hr, wild>>

(* The receivers whose connection is freed, or is dropped for another      *)
(* receiver in this loop. *)
UsesFreed(o) ==
    {r \in receivers[o] :
        \/ hr[r].hc \notin open
        \/ \E q \in TooSlow(o) : q # r /\ hr[q].hc = hr[r].hc}

(* output_send_http, buffer full: every receiver gets the chunk, waits or  *)
(* is dropped.                                                             *)
PacketFlush(o) ==
    LET dropped == {hr[r].hc : r \in TooSlow(o)}
    IN  /\ busy = None
        /\ receivers[o] # {}
        /\ fill[o] + 1 = MaxTs
        /\ fill' = [fill EXCEPT ![o] = 0]
        /\ receivers' = [receivers EXCEPT ![o] = @ \ TooSlow(o)]
        /\ hr' = [r \in Receiver |->
                    IF r \in TooSlow(o) THEN NewReceiver
                    ELSE IF r \in receivers[o]
                    THEN [hr[r] EXCEPT !.overflow = Overflow(r)]
                    ELSE hr[r]]
        /\ open' = open \ dropped
        /\ hc' = [c \in Conn |-> IF c \in dropped THEN NewConnection ELSE hc[c]]
        /\ queue' = [c \in Conn |->
                       IF c \in dropped THEN 0
                       ELSE queue[c] + Cardinality({r \in Served(o) : hr[r].hc = c})]
        /\ ready' = ready \ dropped
        /\ input' = [c \in Conn |-> IF c \in dropped THEN <<>> ELSE input[c]]
        /\ wild' = wild \cup {"output" : r \in UsesFreed(o)}
        /\ UNCHANGED <<client, gone, busy>>

Packet(o) == PacketAdd(o) \/ PacketFlush(o)

-----------------------------------------------------------------------------
Init ==
    /\ client = [c \in Conn |-> "idle"]
    /\ ready = {}
    /\ gone = {}
    /\ open = {}
    /\ hc = [c \in Conn |-> NewConnection]
    /\ input = [c \in Conn |-> <<>>]
    /\ queue = [c \in Conn |-> 0]
    /\ busy = None
    /\ receivers = [o \in Output |-> {}]
    /\ hr = [r \in Receiver |-> NewReceiver]
    /\ fill = [o \in Output |-> 0]
    /\ wild = {}

(* One round of the loop in http_read_head. *)
ReadLine(c) ==
    \/ ParseCommand(c)
    \/ ParseAttrib(c)
    \/ Query404(c)
    \/ \E r \in Receiver : QueryStream(c, r)
    \/ BadLine(c)
    \/ ReadDone(c)

Read(c) == ReadEnd(c) \/ ReadHead(c)

Next ==
    \/ \E c \in Conn :
          \/ \E l \in Sent[c] : Send(c, l)
          \/ Connect(c)
          \/ Read(c)
          \/ ReadLine(c)
          \/ Write(c)
          \/ WriteLast(c)
          \/ Error(c)
    \/ \E o \in Output : Packet(o)

(* The loop in http_read_head goes on; the event loop serves every event   *)
(* that stays or becomes active again, such as data in a socket, and the   *)
(* card delivers packets for every output.  Clients may do what they like: *)
(* no fairness for Send, Connect, Write, WriteLast (a client that does not *)
(* read keeps the socket full) and Error.                                  *)
Fairness ==
    /\ WF_vars(\E c \in Conn : ReadLine(c))
    /\ \A c \in Conn : SF_vars(Read(c))
    /\ \A o \in Output : SF_vars(Packet(o))

Spec == Init /\ [][Next]_vars /\ Fairness

-----------------------------------------------------------------------------
(* Properties.                                                             *)

Connection ==
    [status : {"head", "end"}, keepalive : BOOLEAN, url : Url \cup {None},
     handler : {"404", "stream"}, arg : Receiver \cup {None}]

Phase == {"idle", "head", "waiting", "chatty"} \cup Early

(* Types.  The buffer of an output is never full between two packets. *)
TypeOK ==
    /\ client \in [Conn -> Phase]
    /\ ready \in SUBSET Conn
    /\ gone \in SUBSET Conn
    /\ open \in SUBSET Conn
    /\ hc \in [Conn -> Connection]
    /\ input \in [Conn -> Seq(Line)]
    /\ queue \in [Conn -> Nat]
    /\ busy \in Conn \cup {None}
    /\ receivers \in [Output -> SUBSET Receiver]
    /\ hr \in [Receiver -> [hc : Conn \cup {None}, overflow : Nat]]
    /\ fill \in [Output -> 0 .. MaxTs - 1]
    /\ wild \in SUBSET (Phase \cup {"output"})

(* output_send_http loops on all HTTP sessions of an output: a receiver in *)
(* its list belongs to a connection that is not freed, whose peer is not   *)
(* gone and which knows this receiver as its argument; and a connection    *)
(* that streams is in the list of the output with its URL.                 *)
ReceiversLive ==
    /\ \A o \in Output : \A r \in receivers[o] :
         /\ hr[r].hc \in open \ gone
         /\ Streaming(hr[r].hc)
         /\ hc[hr[r].hc].arg = r
         /\ hc[hr[r].hc].url = o
    /\ \A c \in Conn : Streaming(c) => hc[c].arg \in receivers[hc[c].url]

(* No callback uses a connection after it was freed, in one case only:     *)
(* http_cb_write reads the status after a handler that has dropped the     *)
(* connection of a client that had sent more than attributes before it had *)
(* its answer.  (The end of a request of HTTP/1.1 by early data, a next    *)
(* request of HTTP/1.0 and then the end of the first answer lead there.)   *)
FreedUseOnlyEarly == wild \subseteq Early

(* "We must avoid consuming all memory" (output_send_http_one): what is    *)
(* queued for a receiver never exceeds the limit by more than one chunk.   *)
(* (An early client may have more in front of it: answers to requests that *)
(* it sent before.)                                                        *)
QueueBounded ==
    \A c \in Conn :
        Streaming(c) /\ client[c] \notin Early => queue[c] <= MaxQueued + 1

(* Only a receiver that is behind for more than MaxOverflow chunks in a    *)
(* row is dropped: a chunk it gets starts the count again, each chunk      *)
(* counts once, and no other receiver and no other step takes the          *)
(* connection away, except the end of its peer and a line that is no       *)
(* attribute.                                                              *)
StreamKept ==
    \A c \in Conn :
        Streaming(c) =>
            LET r == hc[c].arg
            IN  /\ queue'[c] > queue[c] => hr'[r].overflow = 0
                /\ hr'[r].overflow <= hr[r].overflow + 1
                /\ c \notin open' =>
                     \/ c \in gone'
                     \/ busy = c /\ Head(input[c]).kind = "command"
                     \/ hr[r].overflow = MaxOverflow /\ queue[c] > MaxQueued

StreamKeptWhileServed == [][StreamKept]_vars

(* "If the situation persists too long we drop the connection": a receiver *)
(* that is behind catches up or loses its connection.                      *)
SlowReceiverDropped ==
    \A c \in Conn :
        (Streaming(c) /\ queue[c] > MaxQueued) ~>
            (c \notin open \/ queue[c] <= MaxQueued)

(* A client that has sent a request and waits gets an answer, the first    *)
(* time and every further time on a connection that is kept alive.         *)
RequestAnswered ==
    \A c \in Conn :
        (c \in open \ gone /\ client[c] = "waiting") ~>
            (queue[c] > 0 \/ Streaming(c) \/ c \notin open \ gone)

(* http_read_head returns: every round takes a line from the input. *)
ReadHeadReturns == busy # None ~> busy = None

-----------------------------------------------------------------------------
(* What comments say and the code does not do.                             *)

(* http_url_handler_404 is to "Drop connection if socket gets writeable    *)
(* again or we have an error".  It ends the request, which keeps a         *)
(* connection of HTTP/1.1: it stays allocated with its descriptor.         *)
GonePeerDropped == \A c \in gone : c \notin open

(* output_send_http says that it loops on all HTTP sessions, so what is in *)
(* the list is a session.  An empty line after the request of a stream     *)
(* makes the connection a second receiver, and only one of them is removed *)
(* with the connection.                                                    *)
ReceiversAreSessions ==
    \A o \in Output : \A r \in receivers[o] : hr[r].hc \in open
=============================================================================
