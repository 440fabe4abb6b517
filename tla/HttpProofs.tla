----------------------------- MODULE HttpProofs -----------------------------
(***************************************************************************)
(* Proofs about Http, for any number of connections, outputs and limits:   *)
(* types, the agreement of receivers and connections, in which case alone  *)
(* a freed connection is used, the bound on what is queued for a receiver, *)
(* and that only receivers that are too slow are dropped.                  *)
(*                                                                         *)
(* Clients may send any line at any time, but no empty line that ends no   *)
(* request: ~Again.  Without that the invariants are false (the run with   *)
(* empty lines shows it), so the heart of the argument is about the lines  *)
(* that are on their way: between two empty ones there is a command.       *)
(***************************************************************************)
EXTENDS Http, FiniteSetTheorems, TLAPS

USE DEF Early, Phase

-----------------------------------------------------------------------------
(* Lines.                                                                  *)

Attribs(s) == \A i \in 1 .. Len(s) : s[i].kind = "attrib"

NoEmpty(s) == \A i \in 1 .. Len(s) : s[i].kind # "empty"

(* Behind an empty line there are only attributes. *)
Calm(s) ==
    \A i, j \in 1 .. Len(s) :
        i < j /\ s[i].kind = "empty" => s[j].kind = "attrib"

(* A request ends with the i-th line of s, or has ended before it. *)
Ends(s, ended, i) == IF i = 0 THEN ended ELSE s[i].kind = "empty"

CommandIn(s, i, j) == \E k \in i + 1 .. j - 1 : s[k].kind = "command"

(* Behind the end of a request there is a command before the next end ... *)
Separated(s, ended) ==
    \A i \in 0 .. Len(s), j \in 1 .. Len(s) :
        i < j /\ Ends(s, ended, i) /\ s[j].kind = "empty" => CommandIn(s, i, j)

(* ... and there is one already. *)
Begun(s, ended) ==
    \A i \in 0 .. Len(s) : Ends(s, ended, i) => CommandIn(s, i, Len(s) + 1)

LEMMA NoLines ==
    /\ Attribs(<<>>) /\ NoEmpty(<<>>) /\ Calm(<<>>)
    /\ \A ended : Separated(<<>>, ended)
    /\ Begun(<<>>, FALSE)
BY DEF Attribs, NoEmpty, Calm, Separated, Begun, Ends

LEMMA AttribsCalm ==
    ASSUME NEW s \in Seq(Line), Attribs(s)
    PROVE  NoEmpty(s) /\ Calm(s)
BY DEF Attribs, NoEmpty, Calm

(* Nothing is asked for where no request has ended. *)
LEMMA NotEnded ==
    ASSUME NEW s, NEW ended \in BOOLEAN, NEW ended2 \in BOOLEAN, ended2 => ended
    PROVE  /\ Separated(s, ended) => Separated(s, ended2)
           /\ Begun(s, ended) => Begun(s, ended2)
BY DEF Separated, Begun, Ends

(* A line is added at the end. *)
LEMMA Appended ==
    ASSUME NEW s \in Seq(Line), NEW l \in Line
    PROVE  /\ Append(s, l) \in Seq(Line)
           /\ NoEmpty(s) => Calm(Append(s, l))
           /\ NoEmpty(s) /\ l.kind # "empty" => NoEmpty(Append(s, l))
           /\ Attribs(s) /\ l.kind = "attrib" => Attribs(Append(s, l))
           /\ Calm(s) /\ l.kind = "attrib" => Calm(Append(s, l))
<1>1. /\ Len(Append(s, l)) = Len(s) + 1
      /\ \A i \in 1 .. Len(s) : Append(s, l)[i] = s[i]
      /\ Append(s, l)[Len(s) + 1] = l
      /\ Len(s) \in Nat
      /\ Append(s, l) \in Seq(Line)
    OBVIOUS
<1> QED
    BY <1>1 DEF NoEmpty, Calm, Attribs

LEMMA AppendedEnds ==
    ASSUME NEW s \in Seq(Line), NEW l \in Line, NEW ended \in BOOLEAN,
           Separated(s, ended)
    PROVE  /\ l.kind # "empty" => Separated(Append(s, l), ended)
           /\ Begun(s, ended) => Separated(Append(s, l), ended)
           /\ l.kind = "command" => Begun(Append(s, l), ended)
           /\ Begun(s, ended) /\ l.kind # "empty" => Begun(Append(s, l), ended)
<1> DEFINE u == Append(s, l)
<1>1. /\ Len(u) = Len(s) + 1
      /\ \A i \in 1 .. Len(s) : u[i] = s[i]
      /\ u[Len(s) + 1] = l
      /\ Len(s) \in Nat
    OBVIOUS
<1> HIDE DEF u
<1>2. \A i \in 0 .. Len(s) : Ends(u, ended, i) <=> Ends(s, ended, i)
    BY <1>1 DEF Ends
<1>3. ASSUME NEW i \in 0 .. Len(s), NEW j \in 1 .. Len(s) + 1, CommandIn(s, i, j)
      PROVE  \A m \in j .. Len(s) + 2 : CommandIn(u, i, m)
    <2>1. PICK k \in i + 1 .. j - 1 : s[k].kind = "command"
        BY <1>3 DEF CommandIn
    <2>2. k \in 1 .. Len(s) /\ u[k].kind = "command"
        BY <1>1, <2>1
    <2> QED
        BY <1>1, <2>1, <2>2 DEF CommandIn
<1>4. l.kind # "empty" => Separated(u, ended)
    <2> SUFFICES ASSUME l.kind # "empty",
                        NEW i \in 0 .. Len(u), NEW j \in 1 .. Len(u),
                        i < j, Ends(u, ended, i), u[j].kind = "empty"
                 PROVE  CommandIn(u, i, j)
        BY DEF Separated
    <2>1. i \in 0 .. Len(s) /\ j \in 1 .. Len(s) /\ s[j].kind = "empty"
        BY <1>1
    <2>2. CommandIn(s, i, j)
        BY <1>2, <2>1 DEF Separated
    <2> QED
        BY <1>1, <1>3, <2>1, <2>2
<1>5. Begun(s, ended) => Separated(u, ended)
    <2> SUFFICES ASSUME Begun(s, ended),
                        NEW i \in 0 .. Len(u), NEW j \in 1 .. Len(u),
                        i < j, Ends(u, ended, i), u[j].kind = "empty"
                 PROVE  CommandIn(u, i, j)
        BY DEF Separated
    <2>1. i \in 0 .. Len(s)
        BY <1>1
    <2>2. CASE j \in 1 .. Len(s)
        <3>1. CommandIn(s, i, j)
            BY <1>1, <1>2, <2>1, <2>2 DEF Separated
        <3> QED
            BY <1>1, <1>3, <2>1, <2>2, <3>1
    <2>3. CASE j = Len(s) + 1
        <3>1. CommandIn(s, i, Len(s) + 1)
            BY <1>2, <2>1 DEF Begun
        <3> QED
            BY <1>1, <1>3, <2>1, <2>3, <3>1
    <2> QED
        BY <1>1, <2>2, <2>3
<1>6. l.kind = "command" => Begun(u, ended)
    <2> SUFFICES ASSUME l.kind = "command", NEW i \in 0 .. Len(u), Ends(u, ended, i)
                 PROVE  CommandIn(u, i, Len(u) + 1)
        BY DEF Begun
    <2>1. i # Len(u)
        BY <1>1 DEF Ends
    <2> QED
        BY <1>1, <2>1 DEF CommandIn
<1>7. Begun(s, ended) /\ l.kind # "empty" => Begun(u, ended)
    <2> SUFFICES ASSUME Begun(s, ended), l.kind # "empty",
                        NEW i \in 0 .. Len(u), Ends(u, ended, i)
                 PROVE  CommandIn(u, i, Len(u) + 1)
        BY DEF Begun
    <2>1. i \in 0 .. Len(s)
        BY <1>1 DEF Ends
    <2>2. CommandIn(s, i, Len(s) + 1)
        BY <1>2, <2>1 DEF Begun
    <2> QED
        BY <1>1, <1>3, <2>1, <2>2
<1> QED
    BY <1>4, <1>5, <1>6, <1>7 DEF u

(* The first line is taken off. *)
LEMMA Drained ==
    ASSUME NEW s \in Seq(Line), s # <<>>
    PROVE  /\ Tail(s) \in Seq(Line) /\ Head(s) \in Line
           /\ NoEmpty(s) => NoEmpty(Tail(s))
           /\ Attribs(s) => Attribs(Tail(s)) /\ Head(s).kind = "attrib"
           /\ Calm(s) => Calm(Tail(s))
           /\ Calm(s) /\ Head(s).kind = "empty" => Attribs(Tail(s))
           /\ Head(s).kind = "empty" => ~NoEmpty(s)
<1>1. /\ Len(Tail(s)) = Len(s) - 1
      /\ \A i \in 1 .. Len(s) - 1 : Tail(s)[i] = s[i + 1]
      /\ Head(s) = s[1]
      /\ Len(s) \in Nat \ {0}
      /\ Tail(s) \in Seq(Line)
      /\ Head(s) \in Line
    OBVIOUS
<1> HIDE DEF Line
<1>2. NoEmpty(s) => NoEmpty(Tail(s))
    BY <1>1 DEF NoEmpty
<1>3. Attribs(s) => Attribs(Tail(s)) /\ Head(s).kind = "attrib"
    BY <1>1 DEF Attribs
<1>4. Calm(s) => Calm(Tail(s))
    BY <1>1 DEF Calm
<1>5. Calm(s) /\ Head(s).kind = "empty" => Attribs(Tail(s))
    BY <1>1 DEF Calm, Attribs
<1>6. Head(s).kind = "empty" => ~NoEmpty(s)
    BY <1>1 DEF NoEmpty
<1> QED
    BY <1>1, <1>2, <1>3, <1>4, <1>5, <1>6

(* Then what follows is as it was, behind the line that was taken off. *)
LEMMA DrainedEnds ==
    ASSUME NEW s \in Seq(Line), s # <<>>, NEW ended \in BOOLEAN, Separated(s, ended)
    PROVE  /\ ~(ended /\ Head(s).kind = "empty")
           /\ ~ended \/ Head(s).kind # "command"
              => /\ Separated(Tail(s), ended \/ Head(s).kind = "empty")
                 /\ Begun(s, ended) => Begun(Tail(s), ended \/ Head(s).kind = "empty")
           /\ Separated(Tail(s), FALSE)
           /\ Begun(s, ended) => Begun(Tail(s), FALSE)
<1> DEFINE t == Tail(s)
           now == ended \/ Head(s).kind = "empty"
<1>1. /\ Len(t) = Len(s) - 1
      /\ \A i \in 1 .. Len(s) - 1 : t[i] = s[i + 1]
      /\ Head(s) = s[1]
      /\ Len(s) \in Nat \ {0}
    OBVIOUS
<1> HIDE DEF t
<1>2. ~(ended /\ Head(s).kind = "empty")
    <2> SUFFICES ASSUME ended, s[1].kind = "empty" PROVE FALSE
        BY <1>1
    <2>1. CommandIn(s, 0, 1)
        BY <1>1 DEF Separated, Ends
    <2> QED
        BY <2>1 DEF CommandIn
<1>3. ASSUME NEW i \in 0 .. Len(t), NEW j \in 1 .. Len(t) + 1, CommandIn(s, i + 1, j + 1)
      PROVE  CommandIn(t, i, j)
    <2>1. PICK k \in i + 2 .. j : s[k].kind = "command"
        BY <1>1, <1>3 DEF CommandIn
    <2>2. k - 1 \in i + 1 .. j - 1 /\ t[k - 1].kind = "command"
        BY <1>1, <2>1
    <2> QED
        BY <2>2 DEF CommandIn
<1>4. ASSUME NEW i \in 1 .. Len(t), NEW b
      PROVE  Ends(t, b, i) <=> Ends(s, ended, i + 1)
    BY <1>1 DEF Ends
<1>5. ASSUME ended, Head(s).kind # "command", NEW j \in 1 .. Len(t) + 1, CommandIn(s, 0, j + 1)
      PROVE  CommandIn(t, 0, j)
    <2>1. PICK k \in 1 .. j : s[k].kind = "command"
        BY <1>1, <1>5 DEF CommandIn
    <2>2. k # 1
        BY <1>1, <1>5, <2>1
    <2>3. k - 1 \in 1 .. j - 1 /\ t[k - 1].kind = "command"
        BY <1>1, <2>1, <2>2
    <2> QED
        BY <2>3 DEF CommandIn
<1>6. ASSUME NEW b \in BOOLEAN,
             b => (ended /\ Head(s).kind # "command") \/ Head(s).kind = "empty"
      PROVE  Separated(t, b) /\ (Begun(s, ended) => Begun(t, b))
    <2>1. ASSUME NEW i \in 0 .. Len(t), NEW j \in 1 .. Len(t), i < j,
                 Ends(t, b, i), t[j].kind = "empty"
          PROVE  CommandIn(t, i, j)
        <3>1. j + 1 \in 1 .. Len(s) /\ s[j + 1].kind = "empty"
            BY <1>1, <2>1
        <3>2. CASE i # 0 \/ Head(s).kind = "empty"
            <4>1. Ends(s, ended, i + 1) /\ i + 1 \in 0 .. Len(s)
                BY <1>1, <1>4, <2>1, <3>2 DEF Ends
            <4>2. CommandIn(s, i + 1, j + 1)
                BY <2>1, <3>1, <4>1 DEF Separated
            <4> QED
                BY <1>3, <2>1, <4>2
        <3>3. CASE i = 0 /\ Head(s).kind # "empty"
            <4>1. ended /\ Head(s).kind # "command"
                BY <1>6, <2>1, <3>3 DEF Ends
            <4>2. CommandIn(s, 0, j + 1)
                BY <1>1, <3>1, <4>1 DEF Separated, Ends
            <4> QED
                BY <1>5, <2>1, <3>3, <4>1, <4>2
        <3> QED
            BY <3>2, <3>3
    <2>2. ASSUME Begun(s, ended), NEW i \in 0 .. Len(t), Ends(t, b, i)
          PROVE  CommandIn(t, i, Len(t) + 1)
        <3>1. CASE i # 0 \/ Head(s).kind = "empty"
            <4>1. Ends(s, ended, i + 1) /\ i + 1 \in 0 .. Len(s)
                BY <1>1, <1>4, <2>2, <3>1 DEF Ends
            <4>2. CommandIn(s, i + 1, Len(s) + 1)
                BY <2>2, <4>1 DEF Begun
            <4> QED
                BY <1>1, <1>3, <2>2, <4>2
        <3>2. CASE i = 0 /\ Head(s).kind # "empty"
            <4>1. ended /\ Head(s).kind # "command"
                BY <1>6, <2>2, <3>2 DEF Ends
            <4>2. CommandIn(s, 0, Len(s) + 1)
                BY <1>1, <2>2, <4>1 DEF Begun, Ends
            <4> QED
                BY <1>1, <1>5, <2>2, <3>2, <4>1, <4>2
        <3> QED
            BY <3>1, <3>2
    <2> QED
        BY <2>1, <2>2 DEF Separated, Begun
<1>7. now \in BOOLEAN
    OBVIOUS
<1>8. ~ended \/ Head(s).kind # "command" =>
        Separated(t, now) /\ (Begun(s, ended) => Begun(t, now))
    BY <1>6, <1>7
<1>9. Separated(t, FALSE) /\ (Begun(s, ended) => Begun(t, FALSE))
    BY <1>6
<1> QED
    BY <1>2, <1>8, <1>9 DEF t

-----------------------------------------------------------------------------
(* The invariant.                                                          *)

(* An answer is under way, or a stream. *)
Active(c) == c \in open /\ (queue[c] > 0 \/ Streaming(c))

(* What is on its way from a client, and where its request is. *)
LinesOK(i, phase, active, streaming) ==
    /\ Separated(i, streaming)
    /\ phase \in {"head", "earlyHead"} => Begun(i, streaming)
    /\ phase \in {"idle", "head"} => NoEmpty(i) /\ ~active
    /\ phase \in {"waiting", "chatty"} => Calm(i) /\ (active => Attribs(i))

LinesInv ==
    \A c \in Conn : LinesOK(input[c], client[c], Active(c), Streaming(c))

(* An answer is only under way at the end of a request, or the connection  *)
(* is kept anyway, unless the client is early; a stream has no end, and a  *)
(* receiver of its own.                                                    *)
StatusInv ==
    \A c \in open :
        /\ ~Streaming(c) /\ queue[c] > 0 =>
             hc[c].status = "end" \/ hc[c].keepalive \/ client[c] \in Early
        /\ hc[c].status = "end" => hc[c].url = Other
        /\ Streaming(c) => /\ hc[c].status = "head"
                           /\ hc[c].url \in Output
                           /\ hr[hc[c].arg].hc = c

BusyInv ==
    /\ busy # None => busy \in open \ gone /\ busy \notin ready
    /\ ready \subseteq open \ gone

IInv ==
    /\ TypeOK
    /\ ~Again
    /\ LinesInv
    /\ StatusInv
    /\ BusyInv
    /\ ReceiversLive
    /\ QueueBounded
    /\ FreedUseOnlyEarly

(* A receiver belongs to one output, and a connection has one at most. *)
LEMMA OneReceiver ==
    ASSUME ReceiversLive, NEW o \in Output, NEW r \in receivers[o]
    PROVE  /\ hr[r].hc \in open \ gone /\ Streaming(hr[r].hc)
           /\ hc[hr[r].hc].arg = r /\ hc[hr[r].hc].url = o
           /\ \A p \in Output : \A q \in receivers[p] :
                hr[q].hc = hr[r].hc => q = r /\ p = o
BY DEF ReceiversLive

(* What a handler does: it leaves a stream alone, ends a request on a      *)
(* connection that is kept, or drops the connection with its receiver.     *)
LEMMA HandleCases ==
    ASSUME IInv, NEW c \in open, NEW cbtype, Handle(c, cbtype)
    PROVE  \/ /\ Streaming(c) /\ cbtype # "error"
              /\ UNCHANGED <<open, hc, receivers, hr>>
           \/ /\ ~Streaming(c) /\ hc[c].keepalive
              /\ hc' = [hc EXCEPT ![c] = [hc[c] EXCEPT !.url = None, !.status = "head",
                                                       !.handler = "404"]]
              /\ UNCHANGED <<open, receivers, hr>>
           \/ /\ ~Streaming(c) /\ ~hc[c].keepalive
              /\ open' = open \ {c}
              /\ hc' = [hc EXCEPT ![c] = NewConnection]
              /\ UNCHANGED <<receivers, hr>>
           \/ /\ Streaming(c) /\ cbtype = "error"
              /\ open' = open \ {c}
              /\ hc' = [hc EXCEPT ![c] = NewConnection]
              /\ \E r \in Receiver :
                    /\ r = hc[c].arg /\ hr[r].hc = c
                    /\ receivers' = [o \in Output |-> receivers[o] \ {r}]
                    /\ hr' = [hr EXCEPT ![r] = NewReceiver]
<1>1. c \in Conn /\ hc[c] \in Connection
    BY DEF IInv, TypeOK
<1>2. CASE hc[c].handler = "404"
    <2>1. ~Streaming(c) /\ RequestEnd(c) /\ UNCHANGED <<receivers, hr>>
        BY <1>2 DEF Handle, Streaming
    <2>2. CASE hc[c].keepalive
        <3>1. /\ hc' = [hc EXCEPT ![c].url = None, ![c].status = "head",
                                  ![c].handler = "404"]
              /\ UNCHANGED open
            BY <2>1, <2>2 DEF RequestEnd
        <3>2. hc' = [hc EXCEPT ![c] = [hc[c] EXCEPT !.url = None, !.status = "head",
                                                       !.handler = "404"]]
            BY <1>1, <3>1 DEF IInv, TypeOK
        <3> QED
            BY <2>1, <2>2, <3>1, <3>2
    <2>3. CASE ~hc[c].keepalive
        BY <2>1, <2>3 DEF RequestEnd, Drop
    <2> QED
        BY <2>2, <2>3
<1>3. CASE hc[c].handler # "404" /\ cbtype # "error"
    BY <1>1, <1>3 DEF Handle, Streaming, Connection
<1>4. CASE hc[c].handler # "404" /\ cbtype = "error"
    <2>1. Streaming(c) /\ RemoveReceiver(hc[c].arg)
        BY <1>1, <1>4 DEF Handle, Streaming, Connection
    <2>2. hc[c].arg \in Receiver
        BY <1>1, <2>1, ZenonT(40) DEF IInv, StatusInv, ReceiversLive, TypeOK
    <2>3. hr[hc[c].arg].hc = c
        BY <2>1 DEF IInv, StatusInv
    <2> QED
        BY <1>4, <2>1, <2>2, <2>3 DEF RemoveReceiver, Drop, IInv, TypeOK
<1> QED
    BY <1>2, <1>3, <1>4

-----------------------------------------------------------------------------
(* Types.                                                                  *)

LEMMA Fields ==
    ASSUME NEW x \in Connection
    PROVE  /\ \A u \in Url, k \in BOOLEAN :
                [x EXCEPT !.url = u, !.keepalive = k] \in Connection
           /\ [x EXCEPT !.status = "end"] \in Connection
           /\ \A r \in Receiver :
                [x EXCEPT !.handler = "stream", !.arg = r] \in Connection
           /\ [x EXCEPT !.url = None, !.status = "head", !.handler = "404"]
                \in Connection
BY DEF Connection, Url

LEMMA HandleTypes ==
    ASSUME IInv, NEW c \in open, NEW cbtype, Handle(c, cbtype)
    PROVE  /\ open' \in SUBSET Conn
           /\ hc' \in [Conn -> Connection]
           /\ receivers' \in [Output -> SUBSET Receiver]
           /\ hr' \in [Receiver -> [hc : Conn \cup {None}, overflow : Nat]]
<1>1. TypeOK /\ c \in Conn /\ hc[c] \in Connection
    BY DEF IInv, TypeOK
<1>2. NewConnection \in Connection /\ NewReceiver \in [hc : Conn \cup {None}, overflow : Nat]
    BY DEF NewConnection, Connection, NewReceiver
<1> DEFINE ended == [hc[c] EXCEPT !.url = None, !.status = "head", !.handler = "404"]
<1>4. ended \in Connection
    BY <1>1, Fields
<1>5. \/ UNCHANGED <<open, hc, receivers, hr>>
      \/ hc' = [hc EXCEPT ![c] = ended] /\ UNCHANGED <<open, receivers, hr>>
      \/ /\ open' = open \ {c} /\ hc' = [hc EXCEPT ![c] = NewConnection]
         /\ UNCHANGED <<receivers, hr>>
      \/ /\ open' = open \ {c} /\ hc' = [hc EXCEPT ![c] = NewConnection]
         /\ \E r \in Receiver :
               /\ receivers' = [o \in Output |-> receivers[o] \ {r}]
               /\ hr' = [hr EXCEPT ![r] = NewReceiver]
    BY HandleCases
<1> HIDE DEF Connection, NewConnection, NewReceiver, ended
<1>6. open' \in SUBSET Conn
    BY <1>1, <1>5 DEF TypeOK
<1>7. hc' \in [Conn -> Connection]
    BY <1>1, <1>2, <1>4, <1>5 DEF TypeOK
<1>8. receivers' \in [Output -> SUBSET Receiver]
    BY <1>1, <1>5 DEF TypeOK
<1>9. hr' \in [Receiver -> [hc : Conn \cup {None}, overflow : Nat]]
    BY <1>1, <1>2, <1>5 DEF TypeOK
<1> QED
    BY <1>6, <1>7, <1>8, <1>9

(* A flush sends a connection at most one chunk. *)
LEMMA OneChunk ==
    ASSUME ReceiversLive, NEW o \in Output, NEW c
    PROVE  Cardinality({r \in Served(o) : hr[r].hc = c}) \in {0, 1}
<1>1. CASE {r \in Served(o) : hr[r].hc = c} = {}
    BY <1>1, FS_EmptySet
<1>2. ASSUME NEW q \in Served(o), hr[q].hc = c
      PROVE  Cardinality({r \in Served(o) : hr[r].hc = c}) = 1
    <2>1. {r \in Served(o) : hr[r].hc = c} = {q}
        BY <1>2, OneReceiver DEF Served
    <2> QED
        BY <2>1, FS_Singleton
<1> QED
    BY <1>1, <1>2

LEMMA NoLine == <<>> \in Seq(Line)
OBVIOUS

LEMMA Types ==
    ASSUME IInv, [Next]_vars
    PROVE  TypeOK'
<1> USE DEF TypeOK
<1>0. TypeOK
    BY DEF IInv
<1>1. ASSUME NEW c \in Conn, NEW l \in Sent[c], Send(c, l)
      PROVE  TypeOK'
    <2>1. l \in Line
        BY LineAssumption
    <2>2. Append(input[c], l) \in Seq(Line)
        BY <1>0, <2>1
    <2>3. NextPhase(client[c], l) \in Phase
        BY DEF NextPhase
    <2> HIDE DEF Line, Connection
    <2> QED
        BY <1>0, <1>1, <2>2, <2>3 DEF Send
<1>2. ASSUME NEW c \in Conn, Connect(c) PROVE TypeOK'
    BY <1>0, <1>2, NoLine DEF Connect, NewConnection, Connection
<1>3. ASSUME NEW c \in Conn, ReadEnd(c) PROVE TypeOK'
    <2>1. Handle(c, "end") /\ c \in open
        BY <1>3 DEF ReadEnd, IInv, BusyInv
    <2>2. (IF c \in open' THEN input[c] ELSE <<>>) \in Seq(Line)
        BY <1>0, NoLine
    <2> HIDE DEF Line, Connection
    <2> QED
        BY <1>0, <1>3, <2>1, <2>2, NoLine, HandleTypes DEF ReadEnd
<1>4. ASSUME NEW c \in Conn, ReadHead(c) PROVE TypeOK'
    <2> HIDE DEF Line, Connection
    <2> QED
        BY <1>0, <1>4 DEF ReadHead
<1>5. ASSUME NEW c \in Conn, input[c] # <<>>
      PROVE  Tail(input[c]) \in Seq(Line) /\ Head(input[c]) \in Line
    BY <1>0, <1>5, Drained
<1>6. ASSUME NEW c \in Conn, ParseCommand(c) PROVE TypeOK'
    <2>1. /\ Tail(input[c]) \in Seq(Line)
          /\ Head(input[c]).url \in Url /\ Head(input[c]).http11 \in BOOLEAN
        BY <1>5, <1>6 DEF ParseCommand, Line, Url
    <2>2. hc' = [hc EXCEPT ![c].url = Head(input[c]).url,
                           ![c].keepalive = Head(input[c]).http11]
        BY <1>6 DEF ParseCommand
    <2>3. hc' \in [Conn -> Connection]
        <3> DEFINE new == [hc[c] EXCEPT !.url = Head(input[c]).url,
                                        !.keepalive = Head(input[c]).http11]
        <3>1. new \in Connection
            BY <1>0, <2>1, Fields
        <3>2. hc' = [hc EXCEPT ![c] = new]
            BY <1>0, <2>2
        <3> HIDE DEF Connection, new
        <3> QED
            BY <1>0, <3>1, <3>2
    <2> HIDE DEF Line, Connection
    <2> QED
        BY <1>0, <1>6, <2>1, <2>3 DEF ParseCommand
<1>7. ASSUME NEW c \in Conn, ParseAttrib(c) PROVE TypeOK'
    <2> HIDE DEF Line, Connection
    <2> QED
        BY <1>0, <1>5, <1>7 DEF ParseAttrib
<1>8. ASSUME NEW c \in Conn, Query404(c) PROVE TypeOK'
    <2>1. hc' \in [Conn -> Connection]
        <3> DEFINE new == [hc[c] EXCEPT !.status = "end"]
        <3>1. new \in Connection
            BY <1>0, Fields
        <3>2. hc' = [hc EXCEPT ![c] = new]
            BY <1>0, <1>8 DEF Query404
        <3> HIDE DEF Connection, new
        <3> QED
            BY <1>0, <3>1, <3>2
    <2> HIDE DEF Line, Connection
    <2> QED
        BY <1>0, <1>5, <1>8, <2>1 DEF Query404
<1>9. ASSUME NEW c \in Conn, NEW r \in Receiver, QueryStream(c, r)
      PROVE  TypeOK'
    <2>1. hc' \in [Conn -> Connection]
        <3> DEFINE new == [hc[c] EXCEPT !.handler = "stream", !.arg = r]
        <3>1. new \in Connection
            BY <1>0, Fields
        <3>2. hc' = [hc EXCEPT ![c] = new]
            BY <1>0, <1>9 DEF QueryStream
        <3> HIDE DEF Connection, new
        <3> QED
            BY <1>0, <3>1, <3>2
    <2>2. receivers' \in [Output -> SUBSET Receiver]
        BY <1>0, <1>9 DEF QueryStream
    <2>3. hr' \in [Receiver -> [hc : Conn \cup {None}, overflow : Nat]]
        BY <1>0, <1>9 DEF QueryStream
    <2> HIDE DEF Line, Connection
    <2> QED
        BY <1>0, <1>5, <1>9, <2>1, <2>2, <2>3 DEF QueryStream
<1>10. ASSUME NEW c \in Conn, BadLine(c) PROVE TypeOK'
    <2>1. Handle(c, "error") /\ c \in open /\ input[c] # <<>>
        BY <1>10, HttpAssumption DEF BadLine, IInv, BusyInv
    <2>2. (IF c \in open' THEN Tail(input[c]) ELSE <<>>) \in Seq(Line)
        BY <1>5, <2>1, NoLine
    <2> HIDE DEF Line, Connection
    <2> QED
        BY <1>0, <1>10, <2>1, <2>2, HandleTypes DEF BadLine
<1>11. ASSUME NEW c \in Conn, ReadDone(c) \/ Write(c) PROVE TypeOK'
    <2> HIDE DEF Line, Connection
    <2>1. CASE ReadDone(c)
        BY <1>0, <2>1 DEF ReadDone
    <2>2. CASE Write(c)
        BY <1>0, <2>2 DEF Write
    <2> QED
        BY <1>11, <2>1, <2>2
<1>12. ASSUME NEW c \in Conn, WriteLast(c) PROVE TypeOK'
    <2>1. c \in open /\ \E cbtype : Handle(c, cbtype)
        BY <1>12 DEF WriteLast, WriteCb
    <2>2. wild' \in SUBSET (Phase \cup {"output"})
        BY <1>0, <1>12 DEF WriteLast, WriteCb, UsedFreed
    <2> HIDE DEF Line, Connection
    <2> QED
        BY <1>0, <1>12, <2>1, <2>2, NoLine, HandleTypes DEF WriteLast
<1>13. ASSUME NEW c \in Conn, Error(c) PROVE TypeOK'
    <2> HIDE DEF Line, Connection
    <2> QED
        BY <1>0, <1>13, NoLine, HandleTypes DEF Error
<1>14. ASSUME NEW o \in Output, Packet(o) PROVE TypeOK'
    <2>1. CASE PacketAdd(o)
        <3> HIDE DEF Line, Connection
        <3> QED
            BY <1>0, <2>1, HttpAssumption DEF PacketAdd
    <2>2. CASE PacketFlush(o)
        <3>1. hc' \in [Conn -> Connection]
            BY <1>0, <2>2 DEF PacketFlush, NewConnection, Connection
        <3>2. hr' \in [Receiver -> [hc : Conn \cup {None}, overflow : Nat]]
            <4>1. /\ NewReceiver \in [hc : Conn \cup {None}, overflow : Nat]
                  /\ \A r \in Receiver : Overflow(r) \in Nat
                BY <1>0 DEF NewReceiver, Overflow
            <4>2. \A r \in Receiver : [hr[r] EXCEPT !.overflow = Overflow(r)] \in
                                        [hc : Conn \cup {None}, overflow : Nat]
                BY <1>0, <4>1
            <4> HIDE DEF NewReceiver
            <4>3. hr' = [r \in Receiver |->
                           IF r \in TooSlow(o) THEN NewReceiver
                           ELSE IF r \in receivers[o]
                           THEN [hr[r] EXCEPT !.overflow = Overflow(r)]
                           ELSE hr[r]]
                BY <2>2 DEF PacketFlush
            <4> QED
                BY <1>0, <4>1, <4>2, <4>3
        <3>3. queue' \in [Conn -> Nat]
            <4> DEFINE chunks(c) == Cardinality({r \in Served(o) : hr[r].hc = c})
            <4>1. ASSUME NEW c \in Conn PROVE chunks(c) \in Nat
                <5>1. ReceiversLive
                    BY DEF IInv
                <5>2. Cardinality({r \in Served(o) : hr[r].hc = c}) \in {0, 1}
                    BY <5>1, OneChunk, Zenon
                <5> QED
                    BY <5>2
            <4>2. \E dropped : queue' = [c \in Conn |-> IF c \in dropped THEN 0
                                                        ELSE queue[c] + chunks(c)]
                BY <2>2 DEF PacketFlush
            <4> HIDE DEF chunks
            <4> QED
                BY <1>0, <4>1, <4>2
        <3>4. /\ client' \in [Conn -> Phase] /\ ready' \in SUBSET Conn
              /\ gone' \in SUBSET Conn /\ open' \in SUBSET Conn
              /\ busy' \in Conn \cup {None}
              /\ wild' \in SUBSET (Phase \cup {"output"})
            BY <1>0, <2>2 DEF PacketFlush
        <3>5. /\ receivers' \in [Output -> SUBSET Receiver]
              /\ fill' \in [Output -> 0 .. MaxTs - 1]
            BY <1>0, <2>2, HttpAssumption DEF PacketFlush
        <3> HIDE DEF Line, Connection
        <3> QED
            BY <1>0, <2>2, <3>1, <3>2, <3>3, <3>4, <3>5, NoLine DEF PacketFlush
    <2> QED
        BY <1>14, <2>1, <2>2 DEF Packet
<1>15. ASSUME UNCHANGED vars PROVE TypeOK'
    BY <1>0, <1>15 DEF vars
<1> QED
    BY <1>1, <1>2, <1>3, <1>4, <1>6, <1>7, <1>8, <1>9, <1>10, <1>11, <1>12, <1>13,
       <1>14, <1>15 DEF Next, Read, ReadLine

-----------------------------------------------------------------------------
(* What the lines allow.                                                   *)

(* On a stream nothing comes before the next command but attributes, and  *)
(* while an answer is under way only early clients send more than that.    *)
LEMMA LinesFacts ==
    ASSUME IInv, NEW c \in Conn
    PROVE  /\ input[c] \in Seq(Line)
           /\ LinesOK(input[c], client[c], Active(c), Streaming(c))
           /\ input[c] # <<>> /\ Head(input[c]).kind = "empty" => ~Streaming(c)
           /\ client[c] \notin Early /\ input[c] # <<>> =>
                /\ Active(c) => Head(input[c]).kind = "attrib"
                /\ Head(input[c]).kind = "empty" =>
                     client[c] \in {"waiting", "chatty"} /\ Attribs(Tail(input[c]))
<1>1. input[c] \in Seq(Line) /\ client[c] \in Phase
    BY DEF IInv, TypeOK
<1>2. LinesOK(input[c], client[c], Active(c), Streaming(c))
    BY DEF IInv, LinesInv
<1>3. Streaming(c) \in BOOLEAN
    BY DEF Streaming
<1> HIDE DEF Line
<1>4. CASE input[c] # <<>>
    <2>1. ~(Streaming(c) /\ Head(input[c]).kind = "empty")
        BY <1>1, <1>2, <1>3, <1>4, DrainedEnds DEF LinesOK
    <2>2. ASSUME client[c] \notin Early
          PROVE  /\ Active(c) => Head(input[c]).kind = "attrib"
                 /\ Head(input[c]).kind = "empty" =>
                      client[c] \in {"waiting", "chatty"} /\ Attribs(Tail(input[c]))
        BY <1>1, <1>2, <1>4, <2>2, Drained DEF LinesOK
    <2> QED
        BY <1>1, <1>2, <2>1, <2>2
<1> QED
    BY <1>1, <1>2, <1>4

(* An early client stays early. *)
EarlyKept == \A c \in Conn : client[c] \in Early => client'[c] \in Early

-----------------------------------------------------------------------------
(* Steps that leave the connections and receivers alone.                   *)

LEMMA Frame ==
    ASSUME IInv, TypeOK', UNCHANGED <<open, gone, hc, receivers, hr, wild>>, EarlyKept,
           \A c \in Conn : queue'[c] <= queue[c]
    PROVE  /\ StatusInv' /\ ReceiversLive' /\ QueueBounded' /\ FreedUseOnlyEarly'
           /\ \A c \in Conn : Active(c)' => Active(c)
<1>1. \A c \in Conn : queue[c] \in Nat /\ queue'[c] \in Nat
    BY DEF IInv, TypeOK
<1>2. \A c \in Conn : Streaming(c)' <=> Streaming(c)
    BY DEF Streaming
<1>3. open \subseteq Conn /\ MaxQueued \in Nat
    BY HttpAssumption DEF IInv, TypeOK
<1>4. StatusInv'
    BY <1>1, <1>2, <1>3 DEF IInv, StatusInv, EarlyKept
<1>5. ReceiversLive'
    BY <1>2 DEF IInv, ReceiversLive, Streaming
<1>6. QueueBounded'
    BY <1>1, <1>2, <1>3 DEF IInv, QueueBounded, EarlyKept
<1>7. FreedUseOnlyEarly'
    BY DEF IInv, FreedUseOnlyEarly
<1>8. \A c \in Conn : Active(c)' => Active(c)
    BY <1>1, <1>2 DEF Active
<1> QED
    BY <1>4, <1>5, <1>6, <1>7, <1>8

-----------------------------------------------------------------------------
(* Steps that call a handler.                                              *)

(* A handler leaves the connections in one of four ways; the queue of its  *)
(* connection is kept or emptied, and after an error the peer is gone.     *)
LEMMA Handled ==
    ASSUME IInv, TypeOK', NEW c \in open, NEW cbtype, Handle(c, cbtype), EarlyKept,
           queue' = [queue EXCEPT ![c] = queue'[c]],
           queue'[c] \in {0, queue[c]},
           gone' = gone \/ (gone' = gone \cup {c} /\ cbtype = "error")
    PROVE  /\ StatusInv' /\ ReceiversLive' /\ QueueBounded'
           /\ \A d \in Conn : Active(d)' => Active(d)
           /\ \A d \in Conn : Streaming(d)' => Streaming(d)
           /\ Streaming(c)' => cbtype # "error"
<1>1. /\ c \in Conn /\ open \subseteq Conn /\ MaxQueued \in Nat
      /\ queue \in [Conn -> Nat] /\ hc \in [Conn -> Connection]
      /\ hr \in [Receiver -> [hc : Conn \cup {None}, overflow : Nat]]
      /\ receivers \in [Output -> SUBSET Receiver]
    BY HttpAssumption DEF IInv, TypeOK
<1>2. \A d \in Conn : queue'[d] \in Nat /\ queue[d] \in Nat /\ queue'[d] <= queue[d] /\
                       (d # c => queue'[d] = queue[d])
    BY <1>1
<1>3. open' \subseteq open /\ open \ {c} \subseteq open'
    BY HandleCases
<1>3a. \A d \in Conn : d # c => hc'[d] = hc[d]
    <2>1. \/ hc' = hc
          \/ hc' = [hc EXCEPT ![c] = [hc[c] EXCEPT !.url = None, !.status = "head",
                                                  !.handler = "404"]]
          \/ hc' = [hc EXCEPT ![c] = NewConnection]
        BY HandleCases
    <2> DEFINE ended == [hc[c] EXCEPT !.url = None, !.status = "head", !.handler = "404"]
    <2>2. \E x : hc' = [hc EXCEPT ![c] = x]
        <3>1. CASE hc' = hc
            BY <1>1, <3>1
        <3>2. CASE hc' = [hc EXCEPT ![c] = ended]
            <4> HIDE DEF ended
            <4> QED
                BY <3>2
        <3>3. CASE hc' = [hc EXCEPT ![c] = NewConnection]
            BY <3>3
        <3> QED
            BY <2>1, <3>1, <3>2, <3>3
    <2> QED
        BY <1>1, <2>2
<1>3b. \E R \in SUBSET Receiver :
        /\ \A o \in Output : receivers'[o] = receivers[o] \ R
        /\ R # {} => Streaming(c) /\ R = {hc[c].arg} /\ c \notin open'
    <2>1. \/ UNCHANGED receivers
          \/ /\ Streaming(c) /\ open' = open \ {c}
             /\ \E r \in Receiver :
                  /\ r = hc[c].arg
                  /\ receivers' = [o \in Output |-> receivers[o] \ {r}]
        BY HandleCases
    <2>2. CASE UNCHANGED receivers
        <3> WITNESS {} \in SUBSET Receiver
        <3> QED
            BY <2>2
    <2>3. ASSUME NEW r \in Receiver, Streaming(c), open' = open \ {c}, r = hc[c].arg,
                 receivers' = [o \in Output |-> receivers[o] \ {r}]
          PROVE  \E R \in SUBSET Receiver :
                   /\ \A o \in Output : receivers'[o] = receivers[o] \ R
                   /\ R # {} => Streaming(c) /\ R = {hc[c].arg} /\ c \notin open'
        <3> WITNESS {r} \in SUBSET Receiver
        <3> QED
            BY <2>3
    <2> QED
        BY <2>1, <2>2, <2>3
<1>4. \A d \in Conn : Streaming(d)' =>
        /\ Streaming(d)
        /\ d = c => UNCHANGED <<open, hc, receivers, hr>> /\ cbtype # "error"
    <2>1. ASSUME NEW d \in Conn, d # c PROVE hc'[d] = hc[d]
        BY <1>3a, <2>1
    <2> DEFINE ended == [hc[c] EXCEPT !.url = None, !.status = "head", !.handler = "404"]
    <2>2. ended.handler = "404" /\ NewConnection.handler = "404"
        BY <1>1 DEF Connection, NewConnection
    <2>3. \/ UNCHANGED <<open, hc, receivers, hr>> /\ cbtype # "error"
          \/ hc' = [hc EXCEPT ![c] = ended]
          \/ hc' = [hc EXCEPT ![c] = NewConnection]
        BY HandleCases
    <2> HIDE DEF ended, NewConnection
    <2>4. \/ UNCHANGED <<open, hc, receivers, hr>> /\ cbtype # "error"
          \/ hc'[c].handler = "404"
        BY <1>1, <2>2, <2>3
    <2> QED
        BY <1>3, <2>1, <2>4 DEF Streaming
<1>5. \A d \in Conn : Active(d)' => Active(d)
    BY <1>2, <1>3, <1>4 DEF Active
<1>6. QueueBounded'
    BY <1>1, <1>2, <1>4 DEF IInv, QueueBounded, EarlyKept
<1>7. ASSUME NEW d \in open', d # c
      PROVE  /\ d \in open /\ d \in Conn /\ hc'[d] = hc[d]
             /\ (Streaming(d)' <=> Streaming(d))
             /\ Streaming(d) => hr'[hc[d].arg] = hr[hc[d].arg]
    <2>1. d \in open /\ d \in Conn /\ hc'[d] = hc[d]
        BY <1>1, <1>3, <1>7, <1>3a
    <2>2. Streaming(d) => hc[d].arg \in Receiver /\ hr[hc[d].arg].hc = d
        BY <1>1, <2>1 DEF IInv, StatusInv, ReceiversLive
    <2>3. Streaming(d) => hr'[hc[d].arg] = hr[hc[d].arg]
        BY <1>1, <1>7, <2>2, HandleCases, ZenonT(40)
    <2> QED
        BY <1>7, <2>1, <2>3 DEF Streaming
<1>8. StatusInv'
    <2> SUFFICES ASSUME NEW d \in open'
                 PROVE  /\ ~Streaming(d)' /\ queue'[d] > 0 =>
                             \/ hc'[d].status = "end" \/ hc'[d].keepalive
                             \/ client'[d] \in Early
                        /\ hc'[d].status = "end" => hc'[d].url = Other
                        /\ Streaming(d)' => /\ hc'[d].status = "head"
                                            /\ hc'[d].url \in Output
                                            /\ hr'[hc'[d].arg].hc = d
        BY DEF StatusInv
    <2>1. CASE d # c
        BY <1>2, <1>7, <2>1 DEF IInv, StatusInv, EarlyKept
    <2>2. CASE d = c /\ UNCHANGED <<open, hc, receivers, hr>>
        BY <1>1, <1>2, <2>2 DEF IInv, StatusInv, Streaming, EarlyKept
    <2>3. CASE d = c /\ ~Streaming(c) /\ hc[c].keepalive /\
               hc' = [hc EXCEPT ![c] = [hc[c] EXCEPT !.url = None, !.status = "head",
                                                     !.handler = "404"]]
        <3>1. /\ hc'[c].status = "head" /\ hc'[c].keepalive
              /\ hc'[c].handler = "404"
            BY <1>1, <2>3 DEF Connection
        <3> QED
            BY <2>3, <3>1 DEF Streaming
    <2> QED
        BY <2>1, <2>2, <2>3, HandleCases
<1>9. ASSUME NEW o \in Output, NEW r \in receivers'[o]
      PROVE  /\ r \in receivers[o] /\ hr[r].hc \in open \cap Conn
             /\ (hr[r].hc = c => UNCHANGED <<open, hc, receivers, hr>> /\ cbtype # "error")
             /\ hr'[r] = hr[r] /\ hr[r].hc \in open'
    <2>1. r \in receivers[o]
        BY <1>3b
    <2>2. hr[r].hc \in open \cap Conn /\ Streaming(hr[r].hc) /\ hc[hr[r].hc].arg = r
        BY <1>1, <2>1 DEF IInv, ReceiversLive
    <2>3. CASE UNCHANGED <<open, hc, receivers, hr>> /\ cbtype # "error"
        BY <2>1, <2>2, <2>3
    <2>4. CASE ~Streaming(c) /\ open' \in {open, open \ {c}} /\ UNCHANGED <<receivers, hr>>
        BY <2>1, <2>2, <2>4
    <2>5. ASSUME NEW q \in Receiver, q = hc[c].arg, open' = open \ {c},
                 receivers' = [p \in Output |-> receivers[p] \ {q}],
                 hr' = [hr EXCEPT ![q] = NewReceiver]
          PROVE  /\ hr[r].hc # c
                 /\ hr'[r] = hr[r] /\ hr[r].hc \in open'
        <3>1. r # q
            BY <2>5
        <3> QED
            BY <1>1, <2>1, <2>2, <2>5, <3>1
    <2> QED
        BY <2>1, <2>2, <2>3, <2>4, <2>5, HandleCases
<1>10. ReceiversLive'
    <2>1. ASSUME NEW o \in Output, NEW r \in receivers'[o]
          PROVE  /\ hr'[r].hc \in open' \ gone'
                 /\ Streaming(hr[r].hc)'
                 /\ hc'[hr[r].hc].arg = r
                 /\ hc'[hr[r].hc].url = o
        <3>1. /\ hr[r].hc \in open \ gone /\ Streaming(hr[r].hc)
              /\ hc[hr[r].hc].arg = r /\ hc[hr[r].hc].url = o
            BY <1>9 DEF IInv, ReceiversLive
        <3>2. CASE hr[r].hc = c
            BY <1>9, <3>1, <3>2 DEF Streaming
        <3>3. CASE hr[r].hc # c
            BY <1>7, <1>9, <3>1, <3>3 DEF Streaming
        <3> QED
            BY <3>2, <3>3
    <2>2. ASSUME NEW d \in Conn, Streaming(d)'
          PROVE  hc'[d].arg \in receivers'[hc'[d].url]
        <3>1. Streaming(d) /\ hc[d].arg \in receivers[hc[d].url] /\ d \in open /\ d \in open'
            BY <1>4, <2>2 DEF IInv, ReceiversLive, Streaming
        <3>2. CASE d = c
            BY <1>4, <2>2, <3>1, <3>2
        <3>3. CASE d # c
            <4>1. hc'[d] = hc[d]
                BY <1>7, <3>1, <3>3
            <4>2. /\ hr[hc[d].arg].hc = d /\ hc[d].url \in Output
                  /\ Streaming(c) => hr[hc[c].arg].hc = c
                BY <3>1 DEF IInv, StatusInv
            <4>3. Streaming(c) => hc[d].arg # hc[c].arg
                BY <3>3, <4>2
            <4>4. hc[d].arg \in receivers'[hc[d].url]
                BY <1>3b, <3>1, <4>2, <4>3
            <4> QED
                BY <4>1, <4>4
        <3> QED
            BY <3>2, <3>3
    <2>3. \A o \in Output : \A r \in receivers'[o] : hr'[r] = hr[r]
        BY <1>9
    <2> QED
        BY <2>1, <2>2, <2>3 DEF ReceiversLive
<1> QED
    BY <1>1, <1>4, <1>5, <1>6, <1>8, <1>10

-----------------------------------------------------------------------------
(* The other steps that change connections and receivers.                  *)

LEMMA Connecting ==
    ASSUME IInv, TypeOK', NEW c \in Conn, Connect(c)
    PROVE  /\ StatusInv' /\ ReceiversLive' /\ QueueBounded' /\ FreedUseOnlyEarly'
           /\ \A d \in Conn : Active(d)' => d # c /\ Active(d)
<1>1. /\ c \notin open /\ open' = open \cup {c} /\ gone' = gone \ {c}
      /\ hc'[c] = NewConnection /\ queue'[c] = 0
      /\ \A d \in Conn : d # c => /\ hc'[d] = hc[d] /\ queue'[d] = queue[d]
                                   /\ client'[d] = client[d]
      /\ UNCHANGED <<receivers, hr, wild>> /\ open \subseteq Conn
    BY DEF Connect, IInv, TypeOK
<1>2. NewConnection.handler = "404" /\ NewConnection.status = "head"
    BY DEF NewConnection
<1>3. \A d \in Conn : /\ Streaming(d)' <=> Streaming(d)
                      /\ Streaming(d) => d # c
    BY <1>1, <1>2 DEF Streaming
<1>4. StatusInv'
    BY <1>1, <1>2, <1>3 DEF IInv, StatusInv
<1>5. ReceiversLive'
    BY <1>1, <1>3 DEF IInv, ReceiversLive
<1>6. QueueBounded' /\ FreedUseOnlyEarly'
    BY <1>1, <1>3 DEF IInv, QueueBounded, FreedUseOnlyEarly
<1>7. \A d \in Conn : Active(d)' => d # c /\ Active(d)
    BY <1>1, <1>3 DEF Active
<1> QED
    BY <1>4, <1>5, <1>6, <1>7

(* The connection is no receiver yet, and nothing is under way on it       *)
(* unless its client is early.                                             *)
LEMMA Parsing ==
    ASSUME IInv, NEW c \in Conn, busy = c, input[c] # <<>>,
           Head(input[c]).kind # "attrib",
           hc[c].url \notin Output \/ Head(input[c]).kind = "empty"
    PROVE  /\ c \in open \ gone /\ ~Streaming(c)
           /\ client[c] \in Early \/ (~Active(c) /\ queue[c] = 0)
<1>1. c \in open \ gone
    BY HttpAssumption DEF IInv, BusyInv
<1>2. ~Streaming(c)
    BY <1>1, LinesFacts DEF IInv, StatusInv
<1>3. client[c] \in Early \/ ~Active(c)
    BY LinesFacts
<1> QED
    BY <1>1, <1>2, <1>3 DEF Active, IInv, TypeOK

LEMMA ParsingCommand ==
    ASSUME IInv, TypeOK', NEW c \in Conn, ParseCommand(c)
    PROVE  /\ StatusInv' /\ ReceiversLive' /\ QueueBounded' /\ FreedUseOnlyEarly'
           /\ \A d \in Conn : Active(d)' => Active(d)
<1>1. /\ c \in open \ gone /\ ~Streaming(c)
      /\ client[c] \in Early \/ (~Active(c) /\ queue[c] = 0)
      /\ hc[c].url = None
    BY Parsing, HttpAssumption DEF ParseCommand
<1>2. /\ UNCHANGED <<open, gone, queue, receivers, hr, wild, client>>
      /\ hc'[c].handler = hc[c].handler /\ hc'[c].status = hc[c].status
      /\ \A d \in Conn : d # c => hc'[d] = hc[d]
      /\ open \subseteq Conn
    <2>1. hc[c] \in Connection
        BY DEF IInv, TypeOK
    <2> DEFINE l == Head(input[c])
               new == [hc[c] EXCEPT !.url = l.url, !.keepalive = l.http11]
    <2>2. hc' = [hc EXCEPT ![c] = new]
        BY DEF ParseCommand, IInv, TypeOK
    <2>3. new.handler = hc[c].handler /\ new.status = hc[c].status
        BY <2>1 DEF Connection
    <2> HIDE DEF new
    <2> QED
        BY <2>2, <2>3 DEF ParseCommand, IInv, TypeOK
<1>3. hc[c].status # "end"
    BY <1>1, HttpAssumption DEF IInv, StatusInv
<1>4. \A d \in Conn : Streaming(d)' <=> Streaming(d)
    BY <1>2 DEF Streaming
<1>5. StatusInv'
    BY <1>1, <1>2, <1>3, <1>4 DEF IInv, StatusInv
<1>6. ReceiversLive'
    BY <1>1, <1>2, <1>4 DEF IInv, ReceiversLive
<1>7. QueueBounded' /\ FreedUseOnlyEarly'
    BY <1>2, <1>4 DEF IInv, QueueBounded, FreedUseOnlyEarly
<1>8. \A d \in Conn : Active(d)' => Active(d)
    BY <1>2, <1>4 DEF Active
<1> QED
    BY <1>5, <1>6, <1>7, <1>8

LEMMA Answering404 ==
    ASSUME IInv, TypeOK', NEW c \in Conn, Query404(c)
    PROVE  /\ StatusInv' /\ ReceiversLive' /\ QueueBounded' /\ FreedUseOnlyEarly'
           /\ \A d \in Conn : d # c /\ Active(d)' => Active(d)
<1>1. c \in open \ gone /\ ~Streaming(c) /\ hc[c].url = Other
    BY Parsing DEF Query404
<1>2. /\ UNCHANGED <<open, gone, receivers, hr, wild, client>>
      /\ hc'[c].handler = hc[c].handler /\ hc'[c].status = "end"
      /\ hc'[c].url = Other
      /\ \A d \in Conn : d # c => hc'[d] = hc[d] /\ queue'[d] = queue[d]
      /\ open \subseteq Conn
    <2>1. hc[c] \in Connection
        BY DEF IInv, TypeOK
    <2> DEFINE new == [hc[c] EXCEPT !.status = "end"]
    <2>2. hc' = [hc EXCEPT ![c] = new]
        BY DEF Query404, IInv, TypeOK
    <2>3. new.handler = hc[c].handler /\ new.status = "end" /\ new.url = hc[c].url
        BY <2>1 DEF Connection
    <2> HIDE DEF new
    <2> QED
        BY <1>1, <2>2, <2>3 DEF Query404, IInv, TypeOK
<1>3. \A d \in Conn : Streaming(d)' <=> Streaming(d)
    BY <1>2 DEF Streaming
<1>4. StatusInv'
    BY <1>1, <1>2, <1>3 DEF IInv, StatusInv
<1>5. ReceiversLive'
    BY <1>1, <1>2, <1>3 DEF IInv, ReceiversLive
<1>6. QueueBounded' /\ FreedUseOnlyEarly'
    BY <1>1, <1>2, <1>3 DEF IInv, QueueBounded, FreedUseOnlyEarly
<1>7. \A d \in Conn : d # c /\ Active(d)' => Active(d)
    BY <1>2, <1>3 DEF Active
<1> QED
    BY <1>4, <1>5, <1>6, <1>7

LEMMA StartingStream ==
    ASSUME IInv, TypeOK', NEW c \in Conn, NEW r \in Receiver, QueryStream(c, r)
    PROVE  /\ StatusInv' /\ ReceiversLive' /\ QueueBounded' /\ FreedUseOnlyEarly'
           /\ \A d \in Conn : d # c /\ Active(d)' => Active(d)
<1>1. /\ c \in open \ gone /\ ~Streaming(c)
      /\ client[c] \in Early \/ (~Active(c) /\ queue[c] = 0)
      /\ hc[c].url \in Output /\ hr[r].hc = None
    BY Parsing DEF QueryStream
<1>2. /\ UNCHANGED <<open, gone, wild, client>>
      /\ hc'[c].handler = "stream" /\ hc'[c].status = hc[c].status
      /\ hc'[c].url = hc[c].url /\ hc'[c].arg = r
      /\ \A d \in Conn : d # c => hc'[d] = hc[d] /\ queue'[d] = queue[d]
      /\ queue'[c] = queue[c] + 1 /\ queue[c] \in Nat
      /\ open \subseteq Conn
    <2>1. hc[c] \in Connection
        BY DEF IInv, TypeOK
    <2> DEFINE new == [hc[c] EXCEPT !.handler = "stream", !.arg = r]
    <2>2. hc' = [hc EXCEPT ![c] = new]
        BY DEF QueryStream, IInv, TypeOK
    <2>3. new.handler = "stream" /\ new.status = hc[c].status /\ new.url = hc[c].url
          /\ new.arg = r
        BY <2>1 DEF Connection
    <2> HIDE DEF new
    <2> QED
        BY <1>1, <2>2, <2>3 DEF QueryStream, IInv, TypeOK
<1>3. /\ hr'[r].hc = c
      /\ \A q \in Receiver : q # r => hr'[q] = hr[q]
      /\ receivers \in [Output -> SUBSET Receiver]
      /\ receivers'[hc[c].url] = receivers[hc[c].url] \cup {r}
      /\ \A o \in Output : o # hc[c].url => receivers'[o] = receivers[o]
    BY <1>1 DEF QueryStream, IInv, TypeOK
<1>4. \A d \in Conn : Streaming(d)' <=> (Streaming(d) \/ d = c)
    BY <1>1, <1>2 DEF Streaming
<1>5. hc[c].status = "head"
    BY <1>1, HttpAssumption DEF IInv, StatusInv, TypeOK, Connection
<1>6. ASSUME NEW d \in Conn, Streaming(d)
      PROVE  hc[d].arg \in Receiver /\ hc[d].arg # r /\ d # c
    <2>1. hc[d].url \in Output /\ hr[hc[d].arg].hc = d
        BY <1>6 DEF IInv, StatusInv, Streaming
    <2>2. hc[d].arg \in receivers[hc[d].url]
        BY <1>6 DEF IInv, ReceiversLive
    <2>3. None \notin Conn
        BY HttpAssumption
    <2> QED
        BY <1>1, <1>3, <1>6, <2>1, <2>2, <2>3
<1>7. StatusInv'
    <2> SUFFICES ASSUME NEW d \in open'
                 PROVE  /\ ~Streaming(d)' /\ queue'[d] > 0 =>
                             \/ hc'[d].status = "end" \/ hc'[d].keepalive
                             \/ client'[d] \in Early
                        /\ hc'[d].status = "end" => hc'[d].url = Other
                        /\ Streaming(d)' => /\ hc'[d].status = "head"
                                            /\ hc'[d].url \in Output
                                            /\ hr'[hc'[d].arg].hc = d
        BY DEF StatusInv
    <2>1. CASE d = c
        BY <1>1, <1>2, <1>3, <1>4, <1>5, <2>1
    <2>2. CASE d # c
        BY <1>2, <1>3, <1>4, <1>6, <2>2 DEF IInv, StatusInv
    <2> QED
        BY <2>1, <2>2
<1>8. ReceiversLive'
    <2>1. ASSUME NEW o \in Output, NEW q \in receivers'[o]
          PROVE  /\ hr'[q].hc \in open' \ gone'
                 /\ Streaming(hr[q].hc)'
                 /\ hc'[hr'[q].hc].arg = q
                 /\ hc'[hr'[q].hc].url = o
        <3>1. q \in Receiver /\ (q \in receivers[o] \/ (q = r /\ o = hc[c].url))
            BY <1>3
        <3>2. CASE q = r /\ o = hc[c].url
            <4>1. hr'[q].hc = c
                BY <1>3, <3>2
            <4> QED
                BY <1>1, <1>2, <3>2, <4>1 DEF Streaming
        <3>3. CASE q \in receivers[o]
            <4>1. /\ hr[q].hc \in open \ gone /\ Streaming(hr[q].hc)
                  /\ hc[hr[q].hc].arg = q /\ hc[hr[q].hc].url = o
                BY <3>3 DEF IInv, ReceiversLive
            <4>2. q # r
                BY <1>1, <1>2, <4>1, HttpAssumption
            <4>3. hr'[q] = hr[q] /\ hr[q].hc \in Conn /\ hr[q].hc # c
                BY <1>1, <1>2, <1>3, <3>1, <4>1, <4>2
            <4>4. hc'[hr[q].hc] = hc[hr[q].hc]
                BY <1>2, <4>3
            <4> QED
                BY <1>2, <4>1, <4>3, <4>4 DEF Streaming
        <3> QED
            BY <3>1, <3>2, <3>3
    <2>2. ASSUME NEW d \in Conn, Streaming(d)'
          PROVE  hc'[d].arg \in receivers'[hc'[d].url]
        BY <1>1, <1>2, <1>3, <1>4, <2>2 DEF IInv, ReceiversLive, StatusInv, Streaming
    <2> QED
        BY <2>1, <2>2 DEF ReceiversLive, Streaming
<1>9. QueueBounded' /\ FreedUseOnlyEarly'
    BY <1>1, <1>2, <1>4, HttpAssumption DEF IInv, QueueBounded, FreedUseOnlyEarly
<1>10. \A d \in Conn : d # c /\ Active(d)' => Active(d)
    BY <1>2, <1>4 DEF Active
<1> QED
    BY <1>7, <1>8, <1>9, <1>10

(* A chunk goes to receivers that are not behind, and only receivers are   *)
(* dropped, each with its own connection.                                  *)
LEMMA Flushing ==
    ASSUME IInv, TypeOK', NEW o \in Output, PacketFlush(o)
    PROVE  /\ StatusInv' /\ ReceiversLive' /\ QueueBounded' /\ FreedUseOnlyEarly'
           /\ \A d \in Conn : Active(d)' => Active(d)
           /\ \A d \in Conn : Streaming(d)' => Streaming(d)
           /\ \A d \in Conn : \/ input'[d] = input[d]
                              \/ input'[d] = <<>> /\ ~Streaming(d)'
           /\ ready' \subseteq open' \ gone'
<1> DEFINE dropped == {hr[r].hc : r \in TooSlow(o)}
           chunks(d) == Cardinality({r \in Served(o) : hr[r].hc = d})
<1>1. /\ ReceiversLive /\ open \subseteq Conn /\ MaxQueued \in Nat
      /\ receivers \in [Output -> SUBSET Receiver]
      /\ hr \in [Receiver -> [hc : Conn \cup {None}, overflow : Nat]]
      /\ queue \in [Conn -> Nat]
    BY HttpAssumption DEF IInv, TypeOK
<1>2. \A r \in receivers[o] :
        /\ hr[r].hc \in open /\ hr[r].hc \in Conn /\ hr[r].hc \notin gone
        /\ Streaming(hr[r].hc)
        /\ hc[hr[r].hc].arg = r /\ hc[hr[r].hc].url = o
    BY <1>1, OneReceiver
<1>3. TooSlow(o) \subseteq receivers[o] /\ Served(o) \subseteq receivers[o]
    BY DEF TooSlow, Served
<1>4. /\ open' = open \ dropped
      /\ receivers' = [receivers EXCEPT ![o] = @ \ TooSlow(o)]
      /\ hc' = [c \in Conn |-> IF c \in dropped THEN NewConnection ELSE hc[c]]
      /\ queue' = [c \in Conn |-> IF c \in dropped THEN 0 ELSE queue[c] + chunks(c)]
      /\ ready' = ready \ dropped
      /\ input' = [c \in Conn |-> IF c \in dropped THEN <<>> ELSE input[c]]
      /\ UNCHANGED <<gone, client>>
    BY DEF PacketFlush
<1>5. ASSUME NEW r \in Receiver, r \notin TooSlow(o) PROVE hr'[r].hc = hr[r].hc
    <2>1. hr'[r] = IF r \in receivers[o] THEN [hr[r] EXCEPT !.overflow = Overflow(r)]
                   ELSE hr[r]
        BY <1>5 DEF PacketFlush
    <2> QED
        BY <1>1, <2>1
<1>6. \A d \in dropped : Streaming(d) /\ hc[d].arg \in TooSlow(o) /\ hc[d].url = o
    BY <1>2, <1>3
<1>7. ASSUME NEW d \in Conn
      PROVE  chunks(d) \in {0, 1} /\
             (chunks(d) # 0 => Streaming(d) /\ queue[d] <= MaxQueued)
    <2>1. Cardinality({r \in Served(o) : hr[r].hc = d}) \in {0, 1}
        BY <1>1, OneChunk, Zenon
    <2>2. CASE {r \in Served(o) : hr[r].hc = d} = {}
        BY <2>2, FS_EmptySet
    <2>3. ASSUME NEW r \in Served(o), hr[r].hc = d
          PROVE  Streaming(d) /\ queue[d] <= MaxQueued
        BY <1>2, <1>3, <2>3 DEF Served
    <2> QED
        BY <2>1, <2>2, <2>3
<1>8. ASSUME NEW d \in Conn
      PROVE  /\ Streaming(d)' <=> Streaming(d) /\ d \notin dropped
             /\ d \notin dropped => hc'[d] = hc[d] /\ queue'[d] = queue[d] + chunks(d)
             /\ queue[d] \in Nat
             /\ client'[d] = client[d]
    BY <1>1, <1>4 DEF Streaming
<1> HIDE DEF dropped, chunks
<1>9. \A d \in Conn : Active(d)' => Active(d)
    BY <1>4, <1>7, <1>8 DEF Active
<1>10. QueueBounded'
    BY <1>1, <1>7, <1>8 DEF IInv, QueueBounded
<1>11. ASSUME NEW d \in Conn, Streaming(d), d \notin dropped
       PROVE  /\ hc[d].arg \in Receiver /\ hc[d].arg \notin TooSlow(o)
              /\ hr'[hc[d].arg].hc = d /\ hc[d].url \in Output
              /\ hc[d].arg \in receivers'[hc[d].url]
    <2>1. /\ hc[d].url \in Output /\ hr[hc[d].arg].hc = d
          /\ hc[d].arg \in receivers[hc[d].url]
        BY <1>1, <1>11 DEF IInv, StatusInv, ReceiversLive, Streaming
    <2>2. hc[d].arg \notin TooSlow(o)
        BY <1>11, <2>1 DEF dropped
    <2> QED
        BY <1>1, <1>4, <1>5, <2>1, <2>2
<1>12. StatusInv'
    <2> SUFFICES ASSUME NEW d \in open'
                 PROVE  /\ ~Streaming(d)' /\ queue'[d] > 0 =>
                             \/ hc'[d].status = "end" \/ hc'[d].keepalive
                             \/ client'[d] \in Early
                        /\ hc'[d].status = "end" => hc'[d].url = Other
                        /\ Streaming(d)' => /\ hc'[d].status = "head"
                                            /\ hc'[d].url \in Output
                                            /\ hr'[hc'[d].arg].hc = d
        BY DEF StatusInv
    <2>1. d \in open /\ d \in Conn /\ d \notin dropped /\ hc'[d] = hc[d]
        BY <1>1, <1>4, <1>8
    <2>2. ~Streaming(d) => queue'[d] = queue[d]
        BY <1>7, <1>8, <2>1
    <2> QED
        BY <1>8, <1>11, <2>1, <2>2 DEF IInv, StatusInv
<1>13. ReceiversLive'
    <2>1. ASSUME NEW p \in Output, NEW q \in receivers'[p]
          PROVE  /\ hr'[q].hc \in open' \ gone'
                 /\ Streaming(hr[q].hc)'
                 /\ hc'[hr'[q].hc].arg = q
                 /\ hc'[hr'[q].hc].url = p
        <3>1. q \in receivers[p] /\ q \in Receiver /\ (p = o => q \notin TooSlow(o))
            BY <1>1, <1>4
        <3>2. /\ hr[q].hc \in open \ gone /\ hr[q].hc \in Conn /\ Streaming(hr[q].hc)
              /\ hc[hr[q].hc].arg = q /\ hc[hr[q].hc].url = p
            BY <1>1, <3>1, OneReceiver
        <3>3. hr[q].hc \notin dropped /\ q \notin TooSlow(o)
            BY <1>2, <1>3, <1>6, <3>1, <3>2
        <3>4. hr'[q].hc = hr[q].hc /\ hr[q].hc \in open'
            BY <1>4, <1>5, <3>1, <3>2, <3>3
        <3>5. hc'[hr[q].hc] = hc[hr[q].hc]
            BY <1>8, <3>2, <3>3
        <3> QED
            BY <1>4, <3>2, <3>4, <3>5 DEF Streaming
    <2>2. ASSUME NEW d \in Conn, Streaming(d)'
          PROVE  hc'[d].arg \in receivers'[hc'[d].url]
        BY <1>8, <1>11, <2>2
    <2> QED
        BY <2>1, <2>2 DEF ReceiversLive, Streaming
<1>14. FreedUseOnlyEarly'
    <2>1. UsesFreed(o) = {}
        BY <1>2, <1>3 DEF UsesFreed
    <2>2. wild' = wild \cup {"output" : r \in UsesFreed(o)}
        BY DEF PacketFlush
    <2> QED
        BY <2>1, <2>2 DEF IInv, FreedUseOnlyEarly
<1>15. \A d \in Conn : \/ input'[d] = input[d]
                       \/ input'[d] = <<>> /\ ~Streaming(d)'
    BY <1>4, <1>8
<1>16. ready' \subseteq open' \ gone'
    BY <1>4 DEF IInv, BusyInv
<1> QED
    BY <1>8, <1>9, <1>10, <1>12, <1>13, <1>14, <1>15, <1>16

-----------------------------------------------------------------------------
(* The invariant is kept.                                                  *)

LEMMA Start == ~Again /\ Init => IInv
<1> SUFFICES ASSUME ~Again, Init PROVE IInv
    OBVIOUS
<1> USE DEF Init
<1>1. TypeOK
    <2>1. NewConnection \in Connection
        BY DEF NewConnection, Connection
    <2>2. NewReceiver \in [hc : Conn \cup {None}, overflow : Nat]
        BY DEF NewReceiver
    <2>3. 0 \in 0 .. MaxTs - 1
        BY HttpAssumption
    <2> QED
        BY <2>1, <2>2, <2>3, NoLine DEF TypeOK
<1>2. \A c \in Conn : ~Active(c) /\ ~Streaming(c)
    BY DEF Active, Streaming
<1>3. LinesInv
    BY <1>2, NoLines DEF LinesInv, LinesOK
<1> QED
    BY <1>1, <1>2, <1>3
       DEF IInv, StatusInv, BusyInv, ReceiversLive, QueueBounded, FreedUseOnlyEarly

(* All that a step has to show for the lines: nothing becomes active or a  *)
(* stream, and a line is taken off or all are.                             *)
LEMMA LinesKept ==
    ASSUME IInv, NEW d \in Conn, Active(d)' => Active(d), Streaming(d)' => Streaming(d),
           UNCHANGED client[d],
           \/ UNCHANGED input[d]
           \/ input'[d] = <<>> /\ ~Streaming(d)'
           \/ /\ input[d] # <<>> /\ input'[d] = Tail(input[d])
              /\ ~Streaming(d)' \/ Head(input[d]).kind = "attrib"
    PROVE  LinesOK(input[d], client[d], Active(d), Streaming(d))'
<1>1. /\ input[d] \in Seq(Line) /\ LinesOK(input[d], client[d], Active(d), Streaming(d))
      /\ Streaming(d) \in BOOLEAN /\ Streaming(d)' \in BOOLEAN
    BY LinesFacts DEF Streaming
<1> HIDE DEF Line
<1>2. CASE UNCHANGED input[d]
    BY <1>1, <1>2, NotEnded DEF LinesOK
<1>3. CASE input'[d] = <<>> /\ ~Streaming(d)'
    BY <1>1, <1>3, NoLines DEF LinesOK
<1>4. CASE /\ input[d] # <<>> /\ input'[d] = Tail(input[d])
           /\ ~Streaming(d)' \/ Head(input[d]).kind = "attrib"
    <2> DEFINE t == Tail(input[d])
    <2>1. Separated(t, Streaming(d)') /\
          (Begun(input[d], Streaming(d)) => Begun(t, Streaming(d)'))
        <3>1. CASE ~Streaming(d)'
            BY <1>1, <1>4, <3>1, DrainedEnds DEF LinesOK
        <3>2. CASE Streaming(d)'
            <4>1. Head(input[d]).kind = "attrib" /\ Streaming(d)
                BY <1>4, <3>2
            <4>2. /\ Separated(t, TRUE)
                  /\ Begun(input[d], Streaming(d)) => Begun(t, TRUE)
                BY <1>1, <1>4, <4>1, DrainedEnds DEF LinesOK
            <4> QED
                BY <3>2, <4>2
        <3> QED
            BY <1>1, <3>1, <3>2
    <2>2. /\ NoEmpty(input[d]) => NoEmpty(t)
          /\ Calm(input[d]) => Calm(t)
          /\ Attribs(input[d]) => Attribs(t)
        BY <1>1, <1>4, Drained
    <2> HIDE DEF t
    <2>3. input'[d] = t
        BY <1>4 DEF t
    <2> QED
        BY <1>1, <2>1, <2>2, <2>3 DEF LinesOK
<1> QED
    BY <1>2, <1>3, <1>4

(* A client sends a line, and no empty one that ends no request. *)
LEMMA SentLines ==
    ASSUME NEW s \in Seq(Line), NEW l \in Line, NEW phase \in Phase,
           NEW active \in BOOLEAN, NEW streaming \in BOOLEAN, streaming => active,
           LinesOK(s, phase, active, streaming),
           l.kind = "empty" => phase \in {"head", "earlyHead"}
    PROVE  LinesOK(Append(s, l), NextPhase(phase, l), active, streaming)
<1> DEFINE u == Append(s, l)
<1>1. /\ NoEmpty(s) => Calm(u)
      /\ NoEmpty(s) /\ l.kind # "empty" => NoEmpty(u)
      /\ Attribs(s) /\ l.kind = "attrib" => Attribs(u)
      /\ Calm(s) /\ l.kind = "attrib" => Calm(u)
    BY Appended
<1>2. /\ l.kind # "empty" => Separated(u, streaming)
      /\ Begun(s, streaming) => Separated(u, streaming)
      /\ l.kind = "command" => Begun(u, streaming)
      /\ Begun(s, streaming) /\ l.kind # "empty" => Begun(u, streaming)
    BY AppendedEnds DEF LinesOK
<1>3. l.kind \in {"command", "attrib", "empty"}
    BY DEF Line
<1> DEFINE next == NextPhase(phase, l)
<1>4. /\ l.kind = "empty" => next \in {"waiting", "early"}
      /\ next \in {"head", "earlyHead"} =>
           l.kind = "command" \/ (l.kind = "attrib" /\ phase = next)
      /\ next # "idle"
      /\ next = "head" => phase \in {"idle", "head"}
      /\ next = "waiting" => l.kind = "empty" /\ phase = "head"
      /\ next = "chatty" => l.kind = "attrib" /\ phase \in {"waiting", "chatty"}
    BY <1>3 DEF NextPhase
<1> HIDE DEF u, next, Line
<1>5. /\ Separated(s, streaming)
      /\ phase \in {"head", "earlyHead"} => Begun(s, streaming)
      /\ phase \in {"idle", "head"} => NoEmpty(s) /\ ~active
      /\ phase \in {"waiting", "chatty"} => Calm(s) /\ (active => Attribs(s))
    BY DEF LinesOK
<1>6. Separated(u, streaming)
    BY <1>2, <1>5
<1>7. next \in {"head", "earlyHead"} => Begun(u, streaming)
    BY <1>2, <1>4, <1>5
<1>8. next \in {"idle", "head"} => NoEmpty(u) /\ ~active
    BY <1>1, <1>4, <1>5
<1>9. next \in {"waiting", "chatty"} => Calm(u) /\ (active => Attribs(u))
    BY <1>1, <1>4, <1>5
<1>10. LinesOK(u, next, active, streaming)
    BY <1>6, <1>7, <1>8, <1>9 DEF LinesOK
<1> QED
    BY <1>10 DEF u, next

(* The empty line of a request is read. *)
LEMMA QueriedLines ==
    ASSUME NEW s \in Seq(Line), s # <<>>, Head(s).kind = "empty", NEW phase \in Phase,
           NEW active \in BOOLEAN, NEW active2 \in BOOLEAN, NEW streaming \in BOOLEAN,
           LinesOK(s, phase, active, FALSE)
    PROVE  LinesOK(Tail(s), phase, active2, streaming)
<1> DEFINE t == Tail(s)
<1> HIDE DEF Line
<1>1. /\ Separated(t, FALSE) /\ Separated(t, TRUE)
      /\ Begun(s, FALSE) => Begun(t, FALSE) /\ Begun(t, TRUE)
    BY DrainedEnds DEF LinesOK
<1>2. Separated(t, streaming) /\ (Begun(s, FALSE) => Begun(t, streaming))
    <2>1. CASE streaming
        BY <1>1, <2>1
    <2>2. CASE ~streaming
        BY <1>1, <2>2
    <2> QED
        BY <2>1, <2>2
<1>3. ~NoEmpty(s) /\ (Calm(s) => Attribs(t)) /\ t \in Seq(Line)
    BY Drained
<1>4. Attribs(t) => Calm(t)
    BY <1>3, AttribsCalm
<1> HIDE DEF t
<1>5. LinesOK(t, phase, active2, streaming)
    BY <1>2, <1>3, <1>4 DEF LinesOK
<1> QED
    BY <1>5 DEF t

Rest ==
    LinesInv /\ StatusInv /\ BusyInv /\ ReceiversLive /\ QueueBounded /\ FreedUseOnlyEarly

LEMMA Kept ==
    ASSUME IInv, [Next]_vars
    PROVE  IInv'
<1>0. TypeOK' /\ ~Again
    BY Types DEF IInv
<1>1. /\ None \notin Conn /\ open \subseteq Conn
      /\ client \in [Conn -> Phase]
      /\ input \in [Conn -> Seq(Line)]
      /\ queue \in [Conn -> Nat] /\ BusyInv /\ FreedUseOnlyEarly
    BY HttpAssumption DEF IInv, TypeOK
<1>2. \A d \in Conn : /\ Active(d) \in BOOLEAN /\ Streaming(d) \in BOOLEAN
                      /\ Active(d)' \in BOOLEAN /\ Streaming(d)' \in BOOLEAN
                      /\ Streaming(d) => Active(d)
    BY DEF Active, Streaming
<1> HIDE DEF Line
<1>3. ASSUME NEW c \in Conn, NEW l \in Sent[c], Send(c, l) PROVE Rest'
    <2>1. /\ UNCHANGED <<open, gone, hc, receivers, hr, wild, queue>>
          /\ l \in Line /\ input'[c] = Append(input[c], l)
          /\ client'[c] = NextPhase(client[c], l)
          /\ \A d \in Conn : d # c => UNCHANGED <<client[d], input[d]>>
        BY <1>1, <1>3, LineAssumption DEF Send
    <2>2. l.kind = "empty" => client[c] \in {"head", "earlyHead"}
        BY <1>0, <1>3 DEF Send, Allowed
    <2>3. EarlyKept
        <3>1. client[c] \in Early => NextPhase(client[c], l) \in Early
            BY DEF NextPhase
        <3> QED
            BY <2>1, <3>1 DEF EarlyKept
    <2>4. /\ StatusInv' /\ ReceiversLive' /\ QueueBounded' /\ FreedUseOnlyEarly'
          /\ \A d \in Conn : Active(d)' => Active(d)
        BY <1>0, <1>1, <2>1, <2>3, Frame
    <2>5. \A d \in Conn : (Active(d)' <=> Active(d)) /\ (Streaming(d)' <=> Streaming(d))
        BY <2>1 DEF Active, Streaming
    <2>6. ASSUME NEW d \in Conn, d # c
          PROVE  LinesOK(input[d], client[d], Active(d), Streaming(d))'
        BY <2>1, <2>5, <2>6, LinesKept
    <2>7. LinesOK(input[c], client[c], Active(c), Streaming(c))'
        <3>1. LinesOK(Append(input[c], l), NextPhase(client[c], l), Active(c), Streaming(c))
            <4>1. /\ input[c] \in Seq(Line) /\ l \in Line /\ client[c] \in Phase
                  /\ LinesOK(input[c], client[c], Active(c), Streaming(c))
                BY <1>1, <2>1, LinesFacts
            <4>2. /\ Active(c) \in BOOLEAN /\ Streaming(c) \in BOOLEAN
                  /\ Streaming(c) => Active(c)
                BY <1>2
            <4> HIDE DEF Phase
            <4> QED
                BY <2>2, <4>1, <4>2, SentLines, Zenon
        <3>2. Active(c)' = Active(c) /\ Streaming(c)' = Streaming(c)
            BY <1>2, <2>5
        <3> QED
            BY <2>1, <3>1, <3>2
    <2>8. BusyInv'
        BY <1>1, <1>3 DEF Send, BusyInv
    <2> QED
        BY <2>4, <2>6, <2>7, <2>8 DEF Rest, LinesInv
<1>4. ASSUME NEW c \in Conn, Connect(c) PROVE Rest'
    <2>1. /\ StatusInv' /\ ReceiversLive' /\ QueueBounded' /\ FreedUseOnlyEarly'
          /\ \A d \in Conn : Active(d)' => d # c /\ Active(d)
        BY <1>0, <1>4, Connecting
    <2>2. /\ \A d \in Conn : d # c => UNCHANGED <<client[d], input[d], hc[d]>>
          /\ input'[c] = <<>> /\ client'[c] = "idle"
          /\ open' = open \cup {c}
        BY <1>1, <1>4 DEF Connect
    <2>3. ASSUME NEW d \in Conn, d # c
          PROVE  LinesOK(input[d], client[d], Active(d), Streaming(d))'
        BY <2>1, <2>2, <2>3, LinesKept DEF Streaming
    <2>4. LinesOK(input[c], client[c], Active(c), Streaming(c))'
        <3>1. ~Active(c)' /\ ~Streaming(c)'
            BY <2>1 DEF Active, Streaming
        <3> QED
            BY <2>2, <3>1, NoLines DEF LinesOK
    <2>5. BusyInv'
        BY <1>1, <1>4 DEF Connect, BusyInv
    <2> QED
        BY <2>1, <2>3, <2>4, <2>5 DEF Rest, LinesInv
<1>5. ASSUME NEW c \in Conn, ReadHead(c) \/ ParseAttrib(c) \/ ReadDone(c) \/ Write(c)
      PROVE  Rest'
    <2>1. /\ UNCHANGED <<open, gone, hc, receivers, hr, wild, client>>
          /\ \A d \in Conn : queue'[d] <= queue[d]
        <3>1. CASE ReadHead(c)
            BY <1>1, <3>1 DEF ReadHead
        <3>2. CASE ParseAttrib(c)
            BY <1>1, <3>2 DEF ParseAttrib
        <3>3. CASE ReadDone(c)
            BY <1>1, <3>3 DEF ReadDone
        <3>4. CASE Write(c)
            BY <1>1, <3>4 DEF Write
        <3> QED
            BY <1>5, <3>1, <3>2, <3>3, <3>4
    <2>2. /\ StatusInv' /\ ReceiversLive' /\ QueueBounded' /\ FreedUseOnlyEarly'
          /\ \A d \in Conn : Active(d)' => Active(d)
          /\ \A d \in Conn : Streaming(d)' <=> Streaming(d)
        BY <1>0, <2>1, Frame DEF EarlyKept, Streaming
    <2>3. ASSUME NEW d \in Conn
          PROVE  \/ UNCHANGED input[d]
                 \/ /\ input[d] # <<>> /\ input'[d] = Tail(input[d])
                    /\ Head(input[d]).kind = "attrib"
        BY <1>1, <1>5 DEF ReadHead, ParseAttrib, ReadDone, Write
    <2>4. ASSUME NEW d \in Conn
          PROVE  LinesOK(input[d], client[d], Active(d), Streaming(d))'
        BY <2>1, <2>2, <2>3, LinesKept
    <2>5. BusyInv'
        BY <1>1, <1>5 DEF ReadHead, ParseAttrib, ReadDone, Write, BusyInv
    <2> QED
        BY <2>2, <2>4, <2>5 DEF Rest, LinesInv
<1>6. ASSUME NEW c \in Conn, ParseCommand(c) PROVE Rest'
    <2>1. /\ StatusInv' /\ ReceiversLive' /\ QueueBounded' /\ FreedUseOnlyEarly'
          /\ \A d \in Conn : Active(d)' => Active(d)
        BY <1>0, <1>6, ParsingCommand
    <2>2. /\ UNCHANGED <<client, open, gone, busy, ready>>
          /\ input[c] # <<>> /\ input'[c] = Tail(input[c])
          /\ \A d \in Conn : d # c => UNCHANGED <<hc[d], input[d]>>
        BY <1>1, <1>6 DEF ParseCommand, IInv, TypeOK
    <2>3. ~Streaming(c)'
        <3>1. ~Streaming(c)
            BY <1>6, Parsing, HttpAssumption DEF ParseCommand
        <3>2. hc'[c].handler = hc[c].handler
            <4>1. hc[c] \in Connection
                BY DEF IInv, TypeOK
            <4> QED
                BY <1>6, <4>1 DEF ParseCommand, Connection, IInv, TypeOK
        <3> QED
            BY <2>2, <3>1, <3>2 DEF Streaming
    <2>4. ASSUME NEW d \in Conn
          PROVE  LinesOK(input[d], client[d], Active(d), Streaming(d))'
        <3>1. CASE d = c
            BY <1>2, <2>1, <2>2, <2>3, <3>1, LinesKept
        <3>2. CASE d # c
            BY <2>1, <2>2, <3>2, LinesKept DEF Streaming
        <3> QED
            BY <3>1, <3>2
    <2>5. BusyInv'
        BY <1>1, <2>2 DEF BusyInv
    <2> QED
        BY <2>1, <2>4, <2>5 DEF Rest, LinesInv
<1>7. ASSUME NEW c \in Conn, Query404(c) \/ \E r \in Receiver : QueryStream(c, r)
      PROVE  Rest'
    <2>1. /\ StatusInv' /\ ReceiversLive' /\ QueueBounded' /\ FreedUseOnlyEarly'
          /\ \A d \in Conn : d # c /\ Active(d)' => Active(d)
        BY <1>0, <1>7, Answering404, StartingStream
    <2>2. /\ input[c] # <<>> /\ Head(input[c]).kind = "empty"
          /\ input' = [input EXCEPT ![c] = Tail(input[c])]
          /\ UNCHANGED <<client, ready, busy, open, gone>>
          /\ \A d \in Conn : d # c => UNCHANGED hc[d]
        BY <1>7 DEF Query404, QueryStream, IInv, TypeOK
    <2>3. ASSUME NEW d \in Conn, d # c
          PROVE  LinesOK(input[d], client[d], Active(d), Streaming(d))'
        BY <1>1, <2>1, <2>2, <2>3, LinesKept DEF Streaming
    <2>4. LinesOK(input[c], client[c], Active(c), Streaming(c))'
        <3>1. ~Streaming(c)
            BY <2>2, LinesFacts
        <3>2. LinesOK(input[c], client[c], Active(c), FALSE)
            <4>1. Streaming(c) = FALSE
                BY <1>2, <3>1
            <4>2. LinesOK(input[c], client[c], Active(c), Streaming(c))
                BY LinesFacts
            <4> QED
                BY <4>1, <4>2
        <3>3. LinesOK(Tail(input[c]), client[c], Active(c)', Streaming(c)')
            <4>1. /\ input[c] \in Seq(Line) /\ client[c] \in Phase
                  /\ Active(c) \in BOOLEAN /\ Active(c)' \in BOOLEAN
                  /\ Streaming(c)' \in BOOLEAN
                BY <1>1, <1>2
            <4> HIDE DEF Phase
            <4> QED
                BY <2>2, <3>2, <4>1, QueriedLines, Zenon
        <3> QED
            BY <1>1, <2>2, <3>3
    <2>5. BusyInv'
        BY <1>1, <2>2 DEF BusyInv
    <2> QED
        BY <2>1, <2>3, <2>4, <2>5 DEF Rest, LinesInv
<1>8. ASSUME NEW c \in Conn, ReadEnd(c) \/ BadLine(c) \/ Error(c) PROVE Rest'
    <2>0. c \in open \ gone
        BY <1>1, <1>8 DEF ReadEnd, BadLine, Error, BusyInv
    <2>1. /\ queue' = [queue EXCEPT ![c] = queue'[c]]
          /\ queue'[c] \in {0, queue[c]}
          /\ \E cbtype : /\ Handle(c, cbtype)
                         /\ gone' = gone \/ (gone' = gone \cup {c} /\ cbtype = "error")
        <3>1. CASE ReadEnd(c)
            <4>1. /\ Handle(c, "end") /\ gone' = gone
                  /\ queue' = [queue EXCEPT ![c] = IF c \in open' THEN queue[c] ELSE 0]
                BY <3>1 DEF ReadEnd
            <4>2. /\ queue' = [queue EXCEPT ![c] = queue'[c]]
                  /\ queue'[c] \in {0, queue[c]}
                BY <1>1, <4>1
            <4> QED
                BY <4>1, <4>2, Zenon
        <3>2. CASE BadLine(c)
            <4>1. /\ Handle(c, "error") /\ gone' = gone
                  /\ queue' = [queue EXCEPT ![c] = IF c \in open' THEN queue[c] ELSE 0]
                BY <3>2 DEF BadLine
            <4>2. /\ queue' = [queue EXCEPT ![c] = queue'[c]]
                  /\ queue'[c] \in {0, queue[c]}
                BY <1>1, <4>1
            <4> QED
                BY <4>1, <4>2, Zenon
        <3>3. CASE Error(c)
            <4>1. Handle(c, "error") /\ gone' = gone \cup {c}
                BY <3>3 DEF Error
            <4>2. queue' = [queue EXCEPT ![c] = 0]
                BY <3>3 DEF Error
            <4>3. /\ queue' = [queue EXCEPT ![c] = queue'[c]]
                  /\ queue'[c] \in {0, queue[c]}
                BY <1>1, <4>2
            <4> QED
                BY <4>1, <4>3, Zenon
        <3> QED
            BY <1>8, <3>1, <3>2, <3>3
    <2>2. UNCHANGED <<client, wild>>
        BY <1>8 DEF ReadEnd, BadLine, Error
    <2>3. PICK cbtype : /\ Handle(c, cbtype)
                        /\ gone' = gone \/ (gone' = gone \cup {c} /\ cbtype = "error")
        BY <2>1
    <2>4. EarlyKept
        BY <2>2 DEF EarlyKept
    <2>5. /\ StatusInv' /\ ReceiversLive' /\ QueueBounded'
          /\ \A d \in Conn : Active(d)' => Active(d)
          /\ \A d \in Conn : Streaming(d)' => Streaming(d)
        BY <1>0, <2>0, <2>1, <2>3, <2>4, Handled
    <2>6. open' \subseteq open /\ open \ {c} \subseteq open'
        BY <2>0, <2>3, HandleCases
    <2>7. ASSUME NEW d \in Conn, d # c PROVE UNCHANGED input[d]
        BY <1>1, <1>8, <2>7 DEF ReadEnd, BadLine, Error
    <2>8. \/ UNCHANGED input[c]
          \/ input'[c] = <<>> /\ ~Streaming(c)'
          \/ input[c] # <<>> /\ input'[c] = Tail(input[c]) /\ ~Streaming(c)'
        <3>1. CASE ReadEnd(c)
            BY <1>1, <3>1 DEF ReadEnd, Streaming
        <3>2. Handle(c, "error") => ~Streaming(c)'
            <4> SUFFICES ASSUME Handle(c, "error") PROVE ~Streaming(c)'
                OBVIOUS
            <4>1. gone' = gone \/ (gone' = gone \cup {c} /\ "error" = "error")
                BY <1>8 DEF ReadEnd, BadLine, Error
            <4> QED
                BY <1>0, <2>0, <2>1, <2>4, <4>1, Handled
        <3>3. CASE BadLine(c)
            BY <1>1, <3>2, <3>3 DEF BadLine
        <3>4. CASE Error(c)
            BY <1>1, <3>2, <3>4 DEF Error
        <3> QED
            BY <1>8, <3>1, <3>3, <3>4
    <2>9. ASSUME NEW d \in Conn
          PROVE  LinesOK(input[d], client[d], Active(d), Streaming(d))'
        BY <2>2, <2>5, <2>7, <2>8, LinesKept
    <2>10. BusyInv'
        <3>1. CASE ReadEnd(c)
            BY <1>1, <2>6, <3>1 DEF ReadEnd, BusyInv
        <3>2. CASE BadLine(c)
            BY <1>1, <2>6, <3>2 DEF BadLine, BusyInv
        <3>3. CASE Error(c)
            BY <1>1, <2>6, <3>3 DEF Error, BusyInv
        <3> QED
            BY <1>8, <3>1, <3>2, <3>3
    <2>11. FreedUseOnlyEarly'
        BY <1>1, <2>2 DEF FreedUseOnlyEarly
    <2> QED
        BY <2>5, <2>9, <2>10, <2>11 DEF Rest, LinesInv
<1>9. ASSUME NEW c \in Conn, WriteLast(c) PROVE Rest'
    <2>1. /\ c \in open /\ queue[c] = 1 /\ Active(c)
          /\ queue' = [queue EXCEPT ![c] = queue'[c]] /\ queue'[c] = 0
          /\ UNCHANGED <<gone, busy>> /\ busy = None
          /\ \A d \in Conn : d # c => UNCHANGED <<client[d], input[d]>>
        BY <1>1, <1>9 DEF WriteLast, Active
    <2>2. client'[c] = IF client[c] = "waiting" /\ ~Streaming(c) THEN "idle" ELSE client[c]
        BY <1>1, <1>9 DEF WriteLast
    <2>3. EarlyKept
        BY <2>1, <2>2 DEF EarlyKept
    <2>4. PICK cbtype : Handle(c, cbtype)
        BY <1>9 DEF WriteLast, WriteCb
    <2>5. /\ StatusInv' /\ ReceiversLive' /\ QueueBounded'
          /\ \A d \in Conn : Active(d)' => Active(d)
          /\ \A d \in Conn : Streaming(d)' => Streaming(d)
        <3>1. gone' = gone /\ queue'[c] \in {0, queue[c]}
            BY <2>1
        <3> QED
            BY <1>0, <2>1, <2>3, <2>4, <3>1, Handled, Zenon
    <2>6. open' \subseteq open /\ open \ {c} \subseteq open'
        BY <2>1, <2>4, HandleCases
    <2>7. FreedUseOnlyEarly'
        <3>1. CASE hc[c].status = "end"
            BY <1>1, <1>9, <3>1 DEF WriteLast, WriteCb, FreedUseOnlyEarly
        <3>2. CASE hc[c].status # "end"
            <4>1. Handle(c, "write") /\ wild' = wild \cup UsedFreed(c)
                BY <1>9, <3>2 DEF WriteLast, WriteCb
            <4>2. Streaming(c) \/ hc[c].keepalive \/ client[c] \in Early
                BY <2>1, <3>2 DEF IInv, StatusInv
            <4>3. Streaming(c) \/ hc[c].keepalive => UNCHANGED open
                BY <4>1 DEF Handle, RequestEnd, Streaming
            <4>4. UsedFreed(c) \subseteq Early
                BY <2>1, <4>2, <4>3 DEF UsedFreed
            <4> QED
                BY <1>1, <4>1, <4>4 DEF FreedUseOnlyEarly
        <3> QED
            BY <3>1, <3>2
    <2>8. ASSUME NEW d \in Conn, d # c
          PROVE  LinesOK(input[d], client[d], Active(d), Streaming(d))'
        BY <2>1, <2>5, <2>8, LinesKept
    <2>9. UNCHANGED input[c] \/ (input'[c] = <<>> /\ ~Streaming(c)')
        BY <1>1, <1>9 DEF WriteLast, Streaming
    <2>10. LinesOK(input[c], client[c], Active(c), Streaming(c))'
        <3>1. CASE UNCHANGED client[c]
            BY <2>1, <2>5, <2>9, <3>1, LinesKept
        <3>2. CASE client[c] = "waiting" /\ ~Streaming(c)
            <4>1. /\ input[c] \in Seq(Line)
                  /\ LinesOK(input[c], client[c], Active(c), Streaming(c))
                BY LinesFacts
            <4>2. Attribs(input[c]) /\ Separated(input[c], FALSE)
                BY <1>2, <2>1, <3>2, <4>1, NotEnded DEF LinesOK
            <4>3. NoEmpty(input'[c]) /\ Separated(input'[c], FALSE)
                BY <2>9, <4>1, <4>2, AttribsCalm, NoLines
            <4>4. Active(c)' = FALSE /\ Streaming(c)' = FALSE
                <5>1. ~Streaming(c)'
                    BY <2>1, <2>5, <3>2
                <5>2. ~Active(c)'
                    BY <2>1, <5>1 DEF Active
                <5> QED
                    BY <1>2, <5>1, <5>2
            <4>5. client'[c] = "idle"
                BY <2>2, <3>2
            <4> QED
                BY <4>3, <4>4, <4>5 DEF LinesOK
        <3> QED
            BY <2>2, <3>1, <3>2
    <2>11. BusyInv'
        BY <1>1, <1>9, <2>1, <2>6 DEF WriteLast, BusyInv
    <2> QED
        BY <2>5, <2>7, <2>8, <2>10, <2>11 DEF Rest, LinesInv
<1>10. ASSUME NEW o \in Output, Packet(o) PROVE Rest'
    <2>1. UNCHANGED <<client, busy>> /\ busy = None
        BY <1>10 DEF Packet, PacketAdd, PacketFlush
    <2>2. /\ StatusInv' /\ ReceiversLive' /\ QueueBounded' /\ FreedUseOnlyEarly'
          /\ \A d \in Conn : Active(d)' => Active(d)
          /\ \A d \in Conn : Streaming(d)' => Streaming(d)
          /\ \A d \in Conn : \/ input'[d] = input[d]
                             \/ input'[d] = <<>> /\ ~Streaming(d)'
          /\ ready' \subseteq open' \ gone'
        <3>1. CASE PacketAdd(o)
            <4>1. /\ UNCHANGED <<open, gone, hc, receivers, hr, wild, input, ready>>
                  /\ \A d \in Conn : queue'[d] <= queue[d]
                BY <1>1, <3>1 DEF PacketAdd
            <4>2. EarlyKept
                BY <2>1 DEF EarlyKept
            <4> QED
                BY <1>0, <1>1, <4>1, <4>2, Frame DEF Streaming, BusyInv
        <3>2. CASE PacketFlush(o)
            BY <1>0, <3>2, Flushing
        <3> QED
            BY <1>10, <3>1, <3>2 DEF Packet
    <2>3. ASSUME NEW d \in Conn
          PROVE  LinesOK(input[d], client[d], Active(d), Streaming(d))'
        BY <2>1, <2>2, LinesKept
    <2>4. BusyInv'
        BY <2>1, <2>2 DEF BusyInv
    <2> QED
        BY <2>2, <2>3, <2>4 DEF Rest, LinesInv
<1>11. ASSUME UNCHANGED vars PROVE Rest'
    <2>1. /\ StatusInv' /\ ReceiversLive' /\ QueueBounded' /\ FreedUseOnlyEarly'
          /\ \A d \in Conn : Active(d)' => Active(d)
          /\ \A d \in Conn : Streaming(d)' <=> Streaming(d)
        BY <1>0, <1>1, <1>11, Frame DEF vars, EarlyKept, Streaming
    <2>2. ASSUME NEW d \in Conn
          PROVE  LinesOK(input[d], client[d], Active(d), Streaming(d))'
        BY <1>11, <2>1, LinesKept DEF vars
    <2> QED
        BY <1>1, <1>11, <2>1, <2>2 DEF vars, Rest, LinesInv, BusyInv
<1>12. Rest'
    BY <1>3, <1>4, <1>5, <1>6, <1>7, <1>8, <1>9, <1>10, <1>11
       DEF Next, Read, ReadLine
<1> QED
    BY <1>0, <1>12 DEF IInv, Rest

LEMMA Invariance == ~Again /\ Spec => []IInv
<1>1. ~Again /\ Init => IInv
    BY Start
<1>2. IInv /\ [Next]_vars => IInv'
    BY Kept
<1> QED
    BY <1>1, <1>2, PTL DEF Spec

(* Types, and buffers that are sent when they are full. *)
THEOREM TypeCorrect == ~Again /\ Spec => []TypeOK
BY Invariance, PTL DEF IInv

(* The list of an output and the connections agree: output_send_http meets *)
(* only sessions that are alive, and a session that streams is in the list *)
(* of the output with its URL, for any number of clients and outputs.      *)
THEOREM SessionsLive == ~Again /\ Spec => []ReceiversLive
BY Invariance, PTL DEF IInv

(* No callback of the server or of an output uses a connection that it or  *)
(* another callback has freed, with one exception that is then the only    *)
(* one: http_cb_write after its handler, for a client that did not wait    *)
(* for its answers.                                                        *)
THEOREM FreedUseKnown == ~Again /\ Spec => []FreedUseOnlyEarly
BY Invariance, PTL DEF IInv

(* What is queued for a receiver never exceeds HTTP_MAX_QUEUED by more     *)
(* than one chunk, whatever the limit and however slow the client.         *)
THEOREM MemoryBounded == ~Again /\ Spec => []QueueBounded
BY Invariance, PTL DEF IInv

-----------------------------------------------------------------------------
(* Streams are kept.  A receiver that is still served is not behind for    *)
(* more than MaxOverflow chunks.                                           *)
OverflowInv == \A r \in Receiver : hr[r].overflow <= MaxOverflow

(* The receiver of a stream. *)
LEMMA ReceiverOf ==
    ASSUME IInv, NEW c \in Conn, Streaming(c)
    PROVE  /\ c \in open /\ hc[c].url \in Output
           /\ hc[c].arg \in Receiver /\ hr[hc[c].arg].hc = c
           /\ hc[c].arg \in receivers[hc[c].url]
           /\ hr[hc[c].arg].overflow \in Nat /\ queue[c] \in Nat
<1>1. c \in open /\ hc[c].url \in Output /\ hr[hc[c].arg].hc = c
    BY DEF IInv, StatusInv, Streaming
<1>2. hc[c].arg \in receivers[hc[c].url]
    BY DEF IInv, ReceiversLive
<1>3. hc[c].arg \in Receiver
    BY <1>1, <1>2 DEF IInv, TypeOK
<1>4. hr[hc[c].arg].overflow \in Nat /\ queue[c] \in Nat
    BY <1>3 DEF IInv, TypeOK
<1> QED
    BY <1>1, <1>2, <1>3, <1>4

(* Steps that count no overflow: they may free a receiver. *)
LEMMA Uncounted ==
    ASSUME TypeOK, OverflowInv,
           \/ UNCHANGED hr
           \/ \E r \in Receiver : \E x : hr' = [hr EXCEPT ![r] = x] /\ x.overflow = 0
    PROVE  OverflowInv'
<1>1. MaxOverflow \in Nat
    BY HttpAssumption
<1>2. hr \in [Receiver -> [hc : Conn \cup {None}, overflow : Nat]]
    BY DEF TypeOK
<1> QED
    BY <1>1, <1>2 DEF OverflowInv

(* What the end of a request or of a connection d does to the stream c. *)
LEMMA HandledKeeps ==
    ASSUME IInv, OverflowInv, NEW d \in open, NEW cbtype, Handle(d, cbtype),
           queue' = [queue EXCEPT ![d] = queue'[d]],
           queue'[d] \in {0, queue[d]},
           (Streaming(d) /\ cbtype = "error") =>
               d \in gone' \/ (busy = d /\ Head(input[d]).kind = "command")
    PROVE  StreamKept /\ OverflowInv'
<1>1. d \in Conn /\ queue \in [Conn -> Nat]
    BY DEF IInv, TypeOK
<1>2. \/ UNCHANGED <<open, hr>>
      \/ ~Streaming(d) /\ open' = open \ {d} /\ UNCHANGED hr
      \/ /\ Streaming(d) /\ cbtype = "error" /\ open' = open \ {d}
         /\ \E r \in Receiver : hr[r].hc = d /\ hr' = [hr EXCEPT ![r] = NewReceiver]
    BY HandleCases
<1>3. OverflowInv'
    <2>1. NewReceiver.overflow = 0
        BY DEF NewReceiver
    <2> HIDE DEF NewReceiver
    <2> QED
        BY <1>2, <2>1, Uncounted DEF IInv
<1>4. ASSUME NEW c \in Conn, Streaming(c), NEW r, r = hc[c].arg
      PROVE  /\ queue'[c] > queue[c] => hr'[r].overflow = 0
             /\ hr'[r].overflow <= hr[r].overflow + 1
             /\ c \notin open' =>
                  \/ c \in gone'
                  \/ busy = c /\ Head(input[c]).kind = "command"
                  \/ hr[r].overflow = MaxOverflow /\ queue[c] > MaxQueued
    <2>1. /\ c \in open /\ r \in Receiver /\ hr[r].hc = c
          /\ hr[r].overflow \in Nat /\ queue[c] \in Nat
        BY <1>4, ReceiverOf
    <2>2. ~(queue'[c] > queue[c])
        BY <1>1, <2>1
    <2>3. hr'[r].overflow \in {0, hr[r].overflow}
        <3>1. hr \in [Receiver -> [hc : Conn \cup {None}, overflow : Nat]]
            BY DEF IInv, TypeOK
        <3>2. NewReceiver.overflow = 0
            BY DEF NewReceiver
        <3> HIDE DEF NewReceiver
        <3>3. CASE UNCHANGED hr
            BY <3>3
        <3>4. ASSUME NEW q \in Receiver, hr' = [hr EXCEPT ![q] = NewReceiver]
              PROVE  hr'[r].overflow \in {0, hr[r].overflow}
            BY <2>1, <3>1, <3>2, <3>4
        <3> QED
            BY <1>2, <3>3, <3>4
    <2>4. c \notin open' => c \in gone' \/ (busy = c /\ Head(input[c]).kind = "command")
        BY <1>2, <1>4, <2>1
    <2> QED
        BY <2>1, <2>2, <2>3, <2>4
<1>5. StreamKept
    BY <1>4, Zenon DEF StreamKept
<1> QED
    BY <1>3, <1>5

LEMMA FlushKeeps ==
    ASSUME IInv, OverflowInv, NEW o \in Output, PacketFlush(o)
    PROVE  StreamKept /\ OverflowInv'
<1> DEFINE dropped == {hr[r].hc : r \in TooSlow(o)}
           chunks(d) == Cardinality({r \in Served(o) : hr[r].hc = d})
<1>1. /\ ReceiversLive /\ MaxQueued \in Nat /\ MaxOverflow \in Nat
      /\ hr \in [Receiver -> [hc : Conn \cup {None}, overflow : Nat]]
      /\ queue \in [Conn -> Nat]
      /\ receivers[o] \subseteq Receiver
    BY HttpAssumption DEF IInv, TypeOK
<1>2. TooSlow(o) \subseteq receivers[o] /\ Served(o) \subseteq receivers[o]
    BY DEF TooSlow, Served
<1>3. /\ open' = open \ dropped
      /\ queue' = [c \in Conn |-> IF c \in dropped THEN 0 ELSE queue[c] + chunks(c)]
    BY DEF PacketFlush
<1>4. ASSUME NEW r \in Receiver
      PROVE  hr'[r].overflow = IF r \in TooSlow(o) THEN 0
                               ELSE IF r \in receivers[o] THEN Overflow(r)
                               ELSE hr[r].overflow
    <2>1. hr'[r] = IF r \in TooSlow(o) THEN NewReceiver
                   ELSE IF r \in receivers[o] THEN [hr[r] EXCEPT !.overflow = Overflow(r)]
                   ELSE hr[r]
        BY DEF PacketFlush
    <2> QED
        BY <1>1, <2>1 DEF NewReceiver
<1>5. OverflowInv'
    <2>1. ASSUME NEW r \in Receiver PROVE hr'[r].overflow <= MaxOverflow
        <3>1. CASE r \in TooSlow(o)
            BY <1>1, <1>4, <3>1
        <3>2. CASE r \notin TooSlow(o) /\ r \in receivers[o]
            <4>1. Overflow(r) \in Nat /\ ~(Overflow(r) > MaxOverflow)
                BY <1>1, <3>2 DEF Overflow, TooSlow
            <4> QED
                BY <1>1, <1>4, <3>2, <4>1
        <3>3. CASE r \notin receivers[o]
            BY <1>2, <1>4, <3>3 DEF OverflowInv
        <3> QED
            BY <3>1, <3>2, <3>3
    <2> QED
        BY <2>1 DEF OverflowInv
<1> HIDE DEF dropped, chunks
<1>6. ASSUME NEW c \in Conn, Streaming(c), NEW r, r = hc[c].arg
      PROVE  /\ queue'[c] > queue[c] => hr'[r].overflow = 0
             /\ hr'[r].overflow <= hr[r].overflow + 1
             /\ c \notin open' =>
                  \/ c \in gone'
                  \/ busy = c /\ Head(input[c]).kind = "command"
                  \/ hr[r].overflow = MaxOverflow /\ queue[c] > MaxQueued
    <2>1. /\ c \in open /\ r \in Receiver /\ hr[r].hc = c
          /\ hr[r].overflow \in Nat /\ queue[c] \in Nat
          /\ hr[r].overflow <= MaxOverflow
        BY <1>6, ReceiverOf DEF OverflowInv
    <2>2. \A q \in receivers[o] : hr[q].hc = c => q = r
        BY <1>1, <1>6, OneReceiver
    <2>3. c \in dropped <=> r \in TooSlow(o)
        BY <1>2, <2>1, <2>2 DEF dropped
    <2>4. chunks(c) \in {0, 1} /\ (chunks(c) # 0 => r \in Served(o))
        <3>1. chunks(c) \in {0, 1}
            BY <1>1, OneChunk, Zenon DEF chunks
        <3>2. CASE {q \in Served(o) : hr[q].hc = c} = {}
            BY <3>1, <3>2, FS_EmptySet DEF chunks
        <3>3. CASE {q \in Served(o) : hr[q].hc = c} # {}
            BY <1>2, <2>2, <3>1, <3>3
        <3> QED
            BY <3>2, <3>3
    <2>5. CASE r \in TooSlow(o)
        <3>1. Overflow(r) > MaxOverflow
            BY <2>5 DEF TooSlow
        <3>2. queue[c] > MaxQueued /\ hr[r].overflow = MaxOverflow
            BY <1>1, <2>1, <3>1 DEF Overflow
        <3>3. queue'[c] = 0 /\ hr'[r].overflow = 0
            BY <1>3, <1>4, <2>1, <2>3, <2>5
        <3> QED
            BY <2>1, <3>2, <3>3
    <2>6. CASE r \notin TooSlow(o)
        <3>1. c \in open' /\ queue'[c] = queue[c] + chunks(c)
            BY <1>3, <2>1, <2>3, <2>6
        <3>2. hr'[r].overflow = IF r \in receivers[o] THEN Overflow(r) ELSE hr[r].overflow
            BY <1>4, <2>1, <2>6
        <3>3. queue'[c] > queue[c] => r \in Served(o)
            BY <2>1, <2>4, <3>1
        <3>4. r \in Served(o) => r \in receivers[o] /\ Overflow(r) = 0
            BY <1>1, <2>1 DEF Served, Overflow
        <3>5. Overflow(r) <= hr[r].overflow + 1
            BY <2>1 DEF Overflow
        <3> QED
            BY <2>1, <3>1, <3>2, <3>3, <3>4, <3>5
    <2> QED
        BY <2>5, <2>6
<1>7. StreamKept
    BY <1>6, Zenon DEF StreamKept
<1> QED
    BY <1>5, <1>7

(* Steps that leave receivers alone and queue nothing for a stream. *)
LEMMA QuietKeeps ==
    ASSUME IInv, TypeOK', OverflowInv, open \subseteq open',
           \A c \in Conn : Streaming(c) => queue'[c] <= queue[c],
           \/ UNCHANGED hr
           \/ \E r \in Receiver : \E x : /\ hr[r].hc = None
                                         /\ hr' = [hr EXCEPT ![r] = x] /\ x.overflow = 0
    PROVE  StreamKept /\ OverflowInv'
<1>1. OverflowInv'
    BY Uncounted DEF IInv
<1>2. ASSUME NEW c \in Conn, Streaming(c), NEW r, r = hc[c].arg
      PROVE  /\ queue'[c] > queue[c] => hr'[r].overflow = 0
             /\ hr'[r].overflow <= hr[r].overflow + 1
             /\ c \notin open' =>
                  \/ c \in gone'
                  \/ busy = c /\ Head(input[c]).kind = "command"
                  \/ hr[r].overflow = MaxOverflow /\ queue[c] > MaxQueued
    <2>1. /\ c \in open /\ r \in Receiver /\ hr[r].hc = c
          /\ hr[r].overflow \in Nat /\ queue[c] \in Nat
        BY <1>2, ReceiverOf
    <2>2. hr'[r] = hr[r]
        BY <2>1, HttpAssumption DEF IInv, TypeOK
    <2>3. queue'[c] <= queue[c] /\ c \in open'
        BY <1>2, <2>1
    <2>4. queue'[c] \in Nat
        BY <1>2 DEF TypeOK
    <2> QED
        BY <2>1, <2>2, <2>3, <2>4
<1>3. StreamKept
    BY <1>2, Zenon DEF StreamKept
<1> QED
    BY <1>1, <1>3

LEMMA StreamsKept ==
    ASSUME IInv, OverflowInv, [Next]_vars
    PROVE  StreamKept /\ OverflowInv'
<1>0. TypeOK'
    BY Types
<1>1. /\ queue \in [Conn -> Nat] /\ open \subseteq Conn
      /\ None \notin Conn /\ MaxQueued \in Nat
    BY HttpAssumption DEF IInv, TypeOK
<1>2. ASSUME UNCHANGED <<open, queue, hr>>
      PROVE  StreamKept /\ OverflowInv'
    BY <1>0, <1>1, <1>2, QuietKeeps
<1>3. ASSUME NEW c \in Conn, NEW l \in Sent[c], Send(c, l)
      PROVE  StreamKept /\ OverflowInv'
    BY <1>2, <1>3 DEF Send
<1>4. ASSUME NEW c \in Conn, Connect(c)
      PROVE  StreamKept /\ OverflowInv'
    <2>1. ~Streaming(c) /\ open \subseteq open' /\ UNCHANGED hr
        BY <1>4 DEF Connect, Streaming
    <2>2. \A d \in Conn : Streaming(d) => queue'[d] <= queue[d]
        BY <1>1, <1>4, <2>1 DEF Connect
    <2> QED
        BY <1>0, <2>1, <2>2, QuietKeeps
<1>5. ASSUME NEW c \in Conn, ReadHead(c) \/ ParseCommand(c) \/ ParseAttrib(c) \/ ReadDone(c)
      PROVE  StreamKept /\ OverflowInv'
    BY <1>2, <1>5 DEF ReadHead, ParseCommand, ParseAttrib, ReadDone
<1>6. ASSUME NEW c \in Conn, Query404(c)
      PROVE  StreamKept /\ OverflowInv'
    <2>1. ~Streaming(c)
        BY <1>6, Parsing DEF Query404
    <2>2. UNCHANGED <<open, hr>> /\ queue' = [queue EXCEPT ![c] = @ + 1]
        BY <1>6 DEF Query404
    <2>3. \A d \in Conn : Streaming(d) => queue'[d] <= queue[d]
        BY <1>1, <2>1, <2>2
    <2> QED
        BY <1>0, <2>2, <2>3, QuietKeeps
<1>7. ASSUME NEW c \in Conn, NEW r \in Receiver, QueryStream(c, r)
      PROVE  StreamKept /\ OverflowInv'
    <2>1. ~Streaming(c)
        BY <1>7, Parsing DEF QueryStream
    <2>2. /\ open' = open /\ queue' = [queue EXCEPT ![c] = @ + 1]
          /\ hr[r].hc = None /\ hr' = [hr EXCEPT ![r] = [hc |-> c, overflow |-> 0]]
        BY <1>7 DEF QueryStream
    <2>3. \A d \in Conn : Streaming(d) => queue'[d] <= queue[d]
        BY <1>1, <2>1, <2>2
    <2> DEFINE new == [hc |-> c, overflow |-> 0]
    <2>4. hr[r].hc = None /\ hr' = [hr EXCEPT ![r] = new] /\ new.overflow = 0
        BY <2>2
    <2> HIDE DEF new
    <2> QED
        BY <1>0, <2>2, <2>3, <2>4, QuietKeeps
<1>8. ASSUME NEW c \in Conn, ReadEnd(c)
      PROVE  StreamKept /\ OverflowInv'
    <2>1. c \in open /\ Handle(c, "end") /\ queue' = [queue EXCEPT ![c] = queue'[c]]
          /\ queue'[c] \in {0, queue[c]}
        BY <1>1, <1>8 DEF ReadEnd, IInv, BusyInv
    <2> QED
        BY <2>1, HandledKeeps
<1>9. ASSUME NEW c \in Conn, BadLine(c)
      PROVE  StreamKept /\ OverflowInv'
    <2>1. c \in open /\ Handle(c, "error") /\ queue' = [queue EXCEPT ![c] = queue'[c]]
          /\ queue'[c] \in {0, queue[c]}
        BY <1>1, <1>9 DEF BadLine, IInv, BusyInv
    <2>2. Streaming(c) => busy = c /\ Head(input[c]).kind = "command"
        BY <1>9, HttpAssumption, ReceiverOf DEF BadLine, Url
    <2> QED
        BY <2>1, <2>2, HandledKeeps
<1>10. ASSUME NEW c \in Conn, Write(c)
       PROVE  StreamKept /\ OverflowInv'
    <2>1. UNCHANGED <<open, hr>> /\ queue' = [queue EXCEPT ![c] = @ - 1]
        BY <1>10 DEF Write
    <2>2. \A d \in Conn : queue'[d] <= queue[d]
        BY <1>1, <2>1
    <2> QED
        BY <1>0, <2>1, <2>2, QuietKeeps
<1>11. ASSUME NEW c \in Conn, WriteLast(c)
       PROVE  StreamKept /\ OverflowInv'
    <2>1. c \in open /\ queue' = [queue EXCEPT ![c] = queue'[c]] /\ queue'[c] = 0
        BY <1>1, <1>11 DEF WriteLast
    <2>2. Handle(c, "end") \/ Handle(c, "write")
        BY <1>11 DEF WriteLast, WriteCb
    <2>3. CASE Handle(c, "end")
        BY <2>1, <2>3, HandledKeeps
    <2>4. CASE Handle(c, "write")
        BY <2>1, <2>4, HandledKeeps
    <2> QED
        BY <2>2, <2>3, <2>4
<1>12. ASSUME NEW c \in Conn, Error(c)
       PROVE  StreamKept /\ OverflowInv'
    <2>1. c \in open /\ Handle(c, "error") /\ queue' = [queue EXCEPT ![c] = queue'[c]]
          /\ queue'[c] = 0 /\ c \in gone'
        BY <1>1, <1>12 DEF Error
    <2> QED
        BY <2>1, HandledKeeps
<1>13. ASSUME NEW o \in Output, Packet(o)
       PROVE  StreamKept /\ OverflowInv'
    <2>1. CASE PacketAdd(o)
        BY <1>2, <2>1 DEF PacketAdd
    <2>2. CASE PacketFlush(o)
        BY <2>2, FlushKeeps
    <2> QED
        BY <1>13, <2>1, <2>2 DEF Packet
<1>14. CASE UNCHANGED vars
    BY <1>2, <1>14 DEF vars
<1> QED
    BY <1>3, <1>4, <1>5, <1>6, <1>7, <1>8, <1>9, <1>10, <1>11, <1>12, <1>13, <1>14
       DEF Next, Read, ReadLine

(* output_send_http_one drops a receiver only if it is behind for more     *)
(* than HTTP_MAX_OVERFLOW chunks in a row, and nothing but the end of its  *)
(* peer takes the connection of a stream otherwise, for any number of      *)
(* clients and outputs and all limits.                                     *)
THEOREM OnlySlowDropped == ~Again /\ Spec => StreamKeptWhileServed
<1>1. Init => OverflowInv
    BY HttpAssumption DEF Init, OverflowInv, NewReceiver
<1>2. IInv /\ OverflowInv /\ [Next]_vars => StreamKept /\ OverflowInv'
    BY StreamsKept
<1>3. IInv /\ OverflowInv /\ [Next]_vars => [StreamKept]_vars
    BY <1>2
<1> QED
    BY <1>1, <1>2, <1>3, Invariance, PTL DEF Spec, StreamKeptWhileServed
=============================================================================
