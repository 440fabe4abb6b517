------------------------------ MODULE Startup -------------------------------
(***************************************************************************)
(* From the configuration to the running program: main starts the HTTP     *)
(* server and tunes the adapters, the streams start their outputs and      *)
(* inputs, and the outputs their announcements (SAP), which are sent again *)
(* and again from then on.                                                 *)
(*                                                                         *)
(* The settings of an object are those the callbacks of Config wrote to    *)
(* it; what was not written is 0, as calloc leaves it, or a default.       *)
(* External: cards and sockets, which may fail.                            *)
(***************************************************************************)
EXTENDS Config

LOCAL INSTANCE Functions

CONSTANTS
    Literal,    \* inet_aton: the words that are an IPv4 address
    Direct,     \* the highest frequency that is tuned without LNB (2200000)
    ULong,      \* the number of values of an unsigned long
    PidMax,     \* PID_MAX: the tables of PIDs go to PidMax + 1 (8191)
    SapAddress, \* SAP_V4_*_ADDRESS: of each scope
    SapPort,    \* SAP_PORT
    LongNames,  \* the addresses for which cdata and odata are too short
    Bytes,      \* the length of words and strings
    SapRoom     \* what sappkt has room for besides the address

ASSUME StartupAssumption ==
    /\ Direct \in Nat
    /\ ULong \in Nat
    /\ \A w \in DOMAIN strtol : strtol[w].num \in Int

(* The number of values of an uint16_t. *)
UShort == 65536

VARIABLES
    hserver,    \* the HTTP server exists
    starting,   \* the adapters, outputs and inputs main has yet to start
    tuned,      \* what the card of an adapter was told
    sends,      \* where the outputs with receiver > 0 send to
    urls,       \* hs->urls: the output of each URL
    sid,        \* the next session number
    session,    \* the announcements that are sent
    heard       \* those that were sent at least once

started == <<hserver, starting, tuned, sends, urls, sid, session, heard>>
vars == <<configVars, started>>

-----------------------------------------------------------------------------
(* Settings.                                                               *)

Writers(o, name) ==
    {i \in DOMAIN wrote : wrote[i] = o /\ entries[i].token = name}

Last(s) == CHOOSE i \in s : \A j \in s : j <= i

(* The value that was written last, "" for NULL. *)
Setting(o, name) ==
    IF Writers(o, name) = {} THEN "" ELSE entries[Last(Writers(o, name))].value

Num(o, name) == Number(Setting(o, name))

(* cf_output_start: output->ttl=15 *)
OutputTtl(o) == IF Writers(o, "ttl") = {} THEN 15 ELSE Num(o, "ttl")

-----------------------------------------------------------------------------
(* main.                                                                   *)

Inputs == {"pid", "pnr", "full"}

AllStarts == {i \in Tree : entries[i].token \in {"adapter"} \cup Outputs \cup Inputs}

(* The adapter i itself, or the stream of output or input i. *)
Group(i) == IF entries[i].token = "adapter" THEN i ELSE wrote[i]

IsInput(i) == entries[i].token \in Inputs

(* main starts the adapters in the order of the file, each before its      *)
(* streams; stream_init starts all outputs of a stream before its inputs.  *)
StartsBefore(i, j) ==
    \/ Group(i) < Group(j)
    \/ Group(i) = Group(j) /\ ~IsInput(i) /\ IsInput(j)
    \/ Group(i) = Group(j) /\ IsInput(i) = IsInput(j) /\ i <= j

(* Object i, with one of these tokens, is the next that main starts. *)
Turn(i, tokens) ==
    /\ phase = "starting"
    /\ entries[i].token \in tokens
    /\ \A j \in starting : StartsBefore(i, j)
    /\ starting' = starting \ {i}

(* http_init, unless there is no port. *)
StartHttp ==
    /\ phase = "configured"
    /\ \/ /\ hserver' = (Num(Base, "port") # 0)
          /\ phase' = "starting"
       \/ /\ Num(Base, "port") # 0
          /\ phase' = "exited"
          /\ UNCHANGED hserver
    /\ starting' = AllStarts
    /\ UNCHANGED <<parsed, called, tuned, sends, urls, sid, session, heard>>

-----------------------------------------------------------------------------
(* fe_tune.                                                                *)

Types == {"dvb-s", "dvb-s2", "dvb-t", "dvb-c"}

(* adapter->type: the last one given, AT_DVBS if none. *)
TypeOf(a) ==
    LET given == UNION {Writers(a, t) : t \in Types}
    IN  IF given = {} THEN "dvb-s" ELSE entries[Last(given)].token

(* The settings of different types are in one union: with two of them in   *)
(* an adapter they overwrite each other, and anything may come out.        *)
Mixed(a) ==
    Cardinality({t \in {{"dvb-s", "dvb-s2"}, {"dvb-t"}, {"dvb-c"}} :
                    \E n \in t : Writers(a, n) # {}}) > 1

(* The frequency of the transponder and those of the LNB are unsigned. *)
Freq(a, name) ==
    LET n == Num(a, name)
    IN  IF n < 0 THEN n + ULong ELSE n

(* t_pol == POL_H, which is 0. *)
Horizontal(a) == Setting(a, "polarisation") # "v"

(* The intermediate frequency; the code computes modulo 2^32. *)
Offset(a) ==
    LET freq == Freq(a, "frequency")
        lof1 == Freq(a, "lof1")
        lof2 == Freq(a, "lof2")
        slof == Freq(a, "slof")
    IN  CASE freq <= Direct -> freq
          [] freq > Direct /\ slof # 0 /\ freq < slof -> freq - lof1
          [] freq > Direct /\ slof # 0 /\ freq >= slof -> freq - lof2
          [] freq > Direct /\ slof = 0 ->
                (IF lof2 # 0 /\ Horizontal(a) THEN lof2 ELSE lof1)
                - freq

\* Mutant: the tone of fe_get_tone, also in fe_tune_dvbs.
MutTone(a) == Freq(a, "frequency") > Freq(a, "slof")

(* SEC_TONE_ON, in fe_tune_dvbs and in fe_get_tone. *)
Tone(a) ==
    IF TypeOf(a) = "dvb-s2" THEN Freq(a, "frequency") > Freq(a, "slof")
    ELSE /\ Freq(a, "frequency") > Direct
         /\ Freq(a, "slof") # 0
         /\ Freq(a, "frequency") >= Freq(a, "slof")

(* setup_switch knows the position; DVB-S2 does not use the switch. *)
SwitchOK(a) ==
    TypeOf(a) = "dvb-s" /\ Setting(a, "lnb-sharing") \notin True =>
        Num(a, "diseqc") \in 0 .. 4

(* The values fe_tune_dvbc knows; those of DVB-T were checked by their     *)
(* callbacks.                                                              *)
CableOK(a) ==
    TypeOf(a) = "dvb-c" =>
        /\ Num(a, "modulation") \in {-1, 0, 16, 32, 64, 128, 256}
        /\ Num(a, "fec") \in 0 .. 9

(* What the card is told. *)
Tuning(a) ==
    IF TypeOf(a) \in {"dvb-s", "dvb-s2"}
    THEN [type |-> TypeOf(a), freq |-> Offset(a), tone |-> Tone(a),
          v18 |-> Horizontal(a)]
    ELSE [type |-> TypeOf(a), freq |-> Num(a, "frequency")]

(* fe_tune_init, dmx_init and dvr_init of the next adapter.  The process   *)
(* ends if there is no card, if it is of another type, or if it refuses.   *)
StartAdapter ==
    /\ \E a \in starting :
         /\ Turn(a, {"adapter"})
         /\ \/ phase' = "exited" /\ UNCHANGED tuned
            \/ /\ ~Mixed(a) => SwitchOK(a) /\ CableOK(a)
               /\ tuned' = IF Mixed(a) THEN tuned ELSE With(tuned, a, Tuning(a))
               /\ UNCHANGED phase
    /\ UNCHANGED <<parsed, called, hserver, sends, urls, sid, session, heard>>

-----------------------------------------------------------------------------
(* output_init and sap_init.                                               *)

ToSocket == {"output-udp", "output-rtp"}

(* output_init_http and http_register_url; a URL that another output has   *)
(* goes to the new one.                                                    *)
InitHttp(o) ==
    IF entries[o].token = "output-http" /\ Setting(o, "url") # ""
    THEN With(urls, Setting(o, "url"), o)
    ELSE urls

(* inet_aton leaves INADDR_ANY for a name or an address of version 6. *)
Address(o) ==
    LET a == Setting(o, "remote-address")
    IN  IF a \in Literal THEN a ELSE "any"

(* htons *)
Port(n) == n % UShort

(* External: the TTL of a multicast socket for which none was set. *)
KernelTtl == 1

(* The TTL of a multicast socket after socket_set_ttl, which ignores 0;    *)
(* setsockopt takes -1 for the default, and refuses what is no TTL.        *)
SocketTtl(ttl) == IF ttl \in 1 .. 255 THEN ttl ELSE KernelTtl

(* output_init_udp and output_init_rtp with a socket. *)
Destination(o) ==
    <<Address(o), Port(Num(o, "remote-port")), SocketTtl(OutputTtl(o))>>

(* http_register_url reads hserver, socket_join_multicast the address. *)
InitCrashes(o, open) ==
    \/ entries[o].token = "output-http" /\ Setting(o, "url") # "" /\ ~hserver
    \/ entries[o].token \in ToSocket /\ open /\ Setting(o, "remote-address") = ""

\* Mutant: cf_sap_start takes the TTL the output has at that time.
MutSapTtl(s) ==
    LET before == {i \in Writers(wrote[s], "ttl") : i < s}
    IN  IF Writers(s, "ttl") # {} THEN Num(s, "ttl")
        ELSE IF before # {} THEN Number(entries[Last(before)].value) ELSE 15

(* The TTL configured for the announcements of s (a negative one is as     *)
(* none).                                                                  *)
SapTtl(s) ==
    IF Writers(s, "ttl") # {} /\ Num(s, "ttl") >= 0 THEN Num(s, "ttl")
    ELSE OutputTtl(wrote[s])

(* sap_init_socket_single, sap_init_cdata, sap_init_mdata and sap_send:    *)
(* where announcements of s are sent, and what they say.                   *)
Announcement(s) ==
    LET o == wrote[s]
    IN  [sap   |-> s,
         sid   |-> sid,
         group |-> IF Setting(s, "sap-group") # "" THEN Setting(s, "sap-group")
                   ELSE IF Setting(s, "scope") = "" THEN SapAddress["global"]
                   ELSE SapAddress[Setting(s, "scope")],
         port  |-> Port(IF Num(s, "sap-port") # 0 THEN Num(s, "sap-port") ELSE SapPort),
         ttl   |-> SocketTtl(SapTtl(s)),
         name  |-> Setting(wrote[o], "name"),
         media |-> <<Setting(o, "remote-address"), Num(o, "remote-port"),
                     OutputTtl(o)>>]

(* output->sap *)
SapOf(o) == Writers(o, "sap")

(* sap_init for output o: the process ends without a socket, or if the     *)
(* output is none to a socket; cdata and odata have 128 bytes.             *)
SapInit(o) ==
    /\ sid' = sid + 1
    /\ \/ phase' = "exited" /\ UNCHANGED session
       \/ /\ entries[o].token \in ToSocket
          /\ Setting(o, "remote-address") \in LongNames
          /\ phase' = "crashed" /\ UNCHANGED session
       \/ /\ entries[o].token \in ToSocket
          /\ Setting(o, "remote-address") \notin LongNames
          /\ session' = session \cup {Announcement(Last(SapOf(o)))}
          /\ UNCHANGED phase

(* output_init of the next output: whether or not its socket could be      *)
(* opened, sap_init follows.                                               *)
StartOutput ==
    /\ \E o \in starting, open \in BOOLEAN :
         /\ Turn(o, Outputs)
         /\ \/ /\ InitCrashes(o, open)
               /\ phase' = "crashed"
               /\ UNCHANGED <<sends, urls, sid, session>>
            \/ /\ ~InitCrashes(o, open)
               /\ sends' = IF entries[o].token \in ToSocket /\ open
                           THEN With(sends, o, Destination(o)) ELSE sends
               /\ urls' = InitHttp(o)
               /\ IF SapOf(o) = {} THEN UNCHANGED <<phase, sid, session>>
                  ELSE SapInit(o)
    /\ UNCHANGED <<parsed, called, hserver, tuned, heard>>

(* The PID of an input, a uint16_t, is behind the tables of dvr.c and      *)
(* dmx.c.  (PidMax + 1 stands for all PIDs.)                               *)
Outside(i) ==
    entries[i].token = "pid" /\ Number(entries[i].value) % UShort > PidMax + 1

(* input_init of the next input, which adds its callback to a table; what  *)
(* becomes of it there is in Programs.                                     *)
StartInput ==
    /\ \E i \in starting :
         /\ Turn(i, Inputs)
         /\ phase' = IF Outside(i) THEN "crashed" ELSE phase
    /\ UNCHANGED <<parsed, called, hserver, tuned, sends, urls, sid, session, heard>>

(* event_dispatch *)
Run ==
    /\ phase = "starting" /\ starting = {}
    /\ phase' = "running"
    /\ UNCHANGED <<parsed, called, started>>

(* The settings that are copied into the announcements of s. *)
SapTexts(s) ==
    {i \in DOMAIN wrote :
        \/ wrote[i] = s
           /\ entries[i].token \in {"description", "uri", "email", "phone",
                                    "attribute", "playgroup"}
        \/ wrote[i] = wrote[wrote[s]] /\ entries[i].token = "name"}

(* sap_send writes more than SAP_MAX_SIZE bytes to sappkt. *)
SapOverrun(s) ==
    SumFunction([i \in SapTexts(s) |-> Bytes[entries[i].value]]) > SapRoom

(* sap_send, of which the timer is set again each time. *)
SapSend ==
    /\ phase = "running"
    /\ \E a \in session :
         \/ SapOverrun(a.sap) /\ phase' = "crashed" /\ UNCHANGED heard
         \/ ~SapOverrun(a.sap) /\ heard' = heard \cup {a} /\ UNCHANGED phase
    /\ UNCHANGED <<parsed, called, hserver, starting, tuned, sends, urls, sid,
                   session>>

-----------------------------------------------------------------------------
Init ==
    /\ ConfigInit
    /\ hserver = FALSE
    /\ starting = {}
    /\ tuned = <<>>
    /\ sends = <<>>
    /\ urls = <<>>
    /\ sid = 1
    /\ session = {}
    /\ heard = {}

Main ==
    StartHttp \/ StartAdapter \/ StartOutput \/ StartInput \/ Run \/ SapSend

Next ==
    \/ ReadConfig /\ UNCHANGED started
    \/ Main

Spec == Init /\ [][Next]_vars

-----------------------------------------------------------------------------
(* Properties.                                                             *)

(* Blocks by the braces of the file. *)
Depth(k) ==
    Cardinality({j \in 1 .. k - 1 : text[j] = "{"})
        - Cardinality({j \in 1 .. k - 1 : text[j] = "}"})

(* The innermost brace that is open at k, 0 if none. *)
OpenAt(k) ==
    LET open == {j \in 1 .. k - 1 :
                    text[j] = "{" /\ \A m \in j + 1 .. k : Depth(m) > Depth(j)}
    IN  IF open = {} THEN 0 ELSE Last(open)

(* The tree libconf_parse builds is that of the braces: an entry is in the *)
(* block of which the brace is the innermost one open at its token, and    *)
(* that block belongs to the last entry begun before the brace at its      *)
(* level, whatever empty blocks, missing semicolons and misplaced words    *)
(* come before.  (A block in front of the first word of its level becomes  *)
(* that of this word.)                                                     *)
NestingKept ==
    phase = "tokens" =>
        \A i \in {j \in Tree : entries[j].token # ""} :
            LET p == entries[i].parent
                b == OpenAt(entries[i].at)
                between == IF entries[p].at < b THEN entries[p].at + 1 .. b - 1
                           ELSE 1 .. entries[p].at - 1
            IN  /\ p = 0 <=> b = 0
                /\ p # 0 /\ entries[p].token # "" =>
                     /\ OpenAt(entries[p].at) = OpenAt(b)
                     /\ \A j \in Tree :
                          entries[j].at \in between => OpenAt(entries[j].at) # OpenAt(b)

Accept == {"configured", "starting", "running"}

(* The innermost block around entry i that is an object. *)
Enclosing ==
    LET f[i \in 0 .. Len(entries)] ==
            IF i = 0 THEN Base
            ELSE LET p == entries[i].parent
                 IN  IF p = 0 THEN Base
                     ELSE IF Created(entries[p].token) # {} THEN p ELSE f[p]
    IN  f

InStream(i) ==
    entries[i].token = "sap" /\ entries[entries[i].parent].token = "stream"

(* The callbacks write through the pointers of the last objects, and still *)
(* every setting lands in the object of the block it stands in.  (Except   *)
(* for a sap directly in a stream, which goes to the output before it.)    *)
SettingsLand ==
    \A i \in DOMAIN wrote : InStream(i) \/ wrote[i] = Enclosing[i]

(* An output that has a block got its mandatory settings, and each once:   *)
(* four passes and the pointers work together for that.  (An output        *)
(* without a block is accepted too and has none.)                          *)
OutputsAddressed ==
    phase \in Accept =>
        \A o \in {i \in Tree : entries[i].token \in Outputs /\ entries[i].child # 0} :
            \A p \in conf[Option(o).child] :
                p.min = 1 => Cardinality(Writers(o, p.name)) = 1

(* A file can crash the process, while it is read and the program starts   *)
(* and in the announcements, in these ways only: a lexeme of over 255      *)
(* bytes; an entry without a name; a sap in a stream that is no output's;  *)
(* an output to a socket without a block; an HTTP output without a port; a *)
(* PID over 0x2000; an announcement of a name too long for cdata and odata *)
(* or of texts too long for sappkt.  Whatever else is wrong in a file is   *)
(* rejected or harmless here.                                              *)
OnlyKnownCrashes ==
    phase = "crashed" =>
        \/ \E k \in 1 .. Len(text) : text[k] \in Long
        \/ \E i \in Tree :
              \/ entries[i].token = ""
              \/ InStream(i)
              \/ entries[i].token \in ToSocket /\ entries[i].child = 0
              \/ entries[i].token = "output-http" /\ Num(Base, "port") = 0
              \/ entries[i].token = "pid" /\ Number(entries[i].value) % UShort > PidMax + 1
              \/ entries[i].token = "sap" /\ i \in DOMAIN wrote
                 /\ \/ Setting(wrote[i], "remote-address") \in LongNames
                    \/ SapOverrun(i)

(* External: the frequency at which an LNB delivers the transponder, by    *)
(* what the receiver signals: the tone selects the oscillator of a Ku band *)
(* LNB, the voltage that of a C band LNB with two.                         *)
Delivered(a, tone, v18) ==
    LET freq == Freq(a, "frequency")
        lof1 == Freq(a, "lof1")
        lof2 == Freq(a, "lof2")
    IN  IF freq <= Direct THEN freq
        ELSE IF Freq(a, "slof") # 0 THEN freq - (IF tone THEN lof2 ELSE lof1)
        ELSE (IF lof2 # 0 /\ v18 THEN lof2 ELSE lof1) - freq

(* The card is tuned to the frequency at which the LNB delivers, given the *)
(* tone and voltage it is told to signal.  (Not with lnb-sharing, where    *)
(* another card signals; nor for DVB-S2 exactly at slof, where fe.c takes  *)
(* the upper oscillator without the tone.)                                 *)
TunedToLnb ==
    \A a \in DOMAIN tuned :
        LET t == tuned[a]
        IN  \/ t.type \notin {"dvb-s", "dvb-s2"}
            \/ t.type = "dvb-s" /\ Setting(a, "lnb-sharing") \in True
            \/ t.type = "dvb-s2" /\ Freq(a, "frequency") = Freq(a, "slof")
            \/ t.freq = Delivered(a, t.tone, t.v18)

(* The value of an option in the block of entry p, as the file has it. *)
InBlock(p, name) ==
    LET is == {i \in Tree : entries[i].parent = p /\ entries[i].token = name}
    IN  IF is = {} THEN "" ELSE entries[Last(is)].value

(* Announcements are told apart by their number and true: in whatever      *)
(* order the block of an output has its settings and its sap, they name    *)
(* the stream, the address, port and TTL of that output, and where it      *)
(* sends to if that is an address with a port and a TTL that exist (others *)
(* are announced, but the socket gets other ones); an announcement is sent *)
(* with its own TTL unless that is negative, else with that of the output, *)
(* if it exists.                                                           *)
AnnouncedTruly ==
    \A m \in heard :
        LET o == entries[m.sap].parent
        IN  /\ \A n \in heard : m.sid = n.sid => m = n
            /\ InStream(m.sap) \/
                 /\ m.name = InBlock(entries[o].parent, "name")
                 /\ m.media[1] = InBlock(o, "remote-address")
                 /\ /\ o \in DOMAIN sends
                    /\ m.media \in Literal \X (0 .. UShort - 1) \X (1 .. 255)
                    => m.media = sends[o]
                 /\ m.ttl = SocketTtl(
                        IF InBlock(m.sap, "ttl") # "" /\ Number(InBlock(m.sap, "ttl")) >= 0
                        THEN Number(InBlock(m.sap, "ttl"))
                        ELSE IF InBlock(o, "ttl") # "" THEN Number(InBlock(o, "ttl"))
                        ELSE 15)
=============================================================================
