----------------------------- MODULE MCStartup ------------------------------
(***************************************************************************)
(* TLC instance of Startup: three configuration files, and every file that *)
(* differs from one of them by one edit: a lexeme or three of them left    *)
(* out or doubled, a lexeme exchanged with the next one, or a piece of     *)
(* MCPieces put in.  Besides, satellite and cable adapters of all kinds,   *)
(* and streams with one thing that may be out of range.                    *)
(***************************************************************************)
EXTENDS Startup, TLC

Set(name, value) == <<name, value, ";">>

Block(head, body) == head \o <<"{">> \o body \o <<"}", ";">>

Http == Block(<<"http">>, Set("port", "8080"))

(* Two outputs, the announcement in front of a setting it depends on. *)
MCOutputs ==
    Block(<<"adapter", "0">>,
        Block(<<"stream">>,
            Set("name", "'one'")
            \o Block(<<"output-udp">>,
                 Set("remote-address", "239.0.0.1")
                 \o Block(<<"sap">>, Set("scope", "org"))
                 \o Set("remote-port", "1") \o Set("ttl", "4"))
            \o Block(<<"output-http">>, Set("url", "/one"))
            \o Block(<<"input">>, Set("pnr", "1"))))
    \o Http

(* Two streams in two adapters. *)
MCAdapters ==
    Http
    \o Block(<<"adapter", "0">>,
         Block(<<"stream">>,
             Set("name", "one")
             \o Block(<<"output-rtp">>,
                  Set("remote-address", "239.0.0.1") \o Set("remote-port", "1")
                  \o Block(<<"sap">>, Set("ttl", "1")))))
    \o Block(<<"adapter", "1">>,
         Block(<<"dvb-t">>, Set("frequency", "1") \o Set("hierarchy", "none"))
         \o Block(<<"stream">>,
             Set("name", "two") \o Block(<<"output-pipe">>, Set("filename", "/two"))))

(* Satellite adapters: below, at and above slof, with LNBs of all kinds. *)
MCDish(type, freq, pol, lnb) ==
    Http \o
    Block(<<"adapter", "0">>,
        Block(<<type>>,
            Block(<<"lnb">>, lnb)
            \o Block(<<"transponder">>,
                 Set("frequency", freq) \o Set("polarisation", pol)
                 \o Set("symbol-rate", "1") \o Set("diseqc", "4"))))

MCDishes ==
    {MCDish(type, freq, pol, Set("lof1", "9750000") \o lnb) :
        type \in {"dvb-s", "dvb-s2"}, pol \in {"h", "v"},
        freq \in {"-1", "1000000", "11000000", "11700000", "12000000"},
        lnb \in {<<>>, Set("lof2", "10600000"),
                 Set("lof2", "10600000") \o Set("slof", "11700000")}}

(* A cable adapter, with values that are known to fe.c or not. *)
MCCables ==
    {Http \o
     Block(<<"adapter", "0">>,
         Block(<<"dvb-c">>,
             Set("frequency", "1") \o Set("symbol-rate", "1")
             \o Set("modulation", modulation) \o Set("fec", fec))) :
        modulation \in {"0", "4"}, fec \in {"4", "8080"}}

(* A stream with an announced output and an input. *)
MCStream(type, output, sap, input) ==
    Http \o
    Block(<<"adapter", "0">>,
        Block(<<"stream">>,
            Set("name", "one") \o Block(<<"input">>, input)
            \o Block(<<type>>, Block(<<"sap">>, sap) \o output)))

MCSettings(address, port, ttl) ==
    Set("remote-address", address) \o Set("remote-port", port) \o Set("ttl", ttl)

(* Addresses, ports and TTLs, in range or not. *)
MCAnnounced ==
    {MCStream(type, MCSettings(address, port, ttl), sap, Set("pnr", "1")) :
        type \in {"output-udp", "output-rtp"},
        address \in {"239.0.0.1", "::1", "longhost"},
        port \in {"-1", "8080", "65536"}, ttl \in {"-1", "0", "255", "256"},
        sap \in {<<>>, Set("ttl", "-1"), Set("ttl", "0"), Set("ttl", "5"),
                 Set("sap-port", "65536")}}

(* Texts that fit into an announcement, and such that do not. *)
MCTexts ==
    {MCStream("output-udp", MCSettings("239.0.0.1", "1", "4"),
              Set("uri", "text") \o Set("email", "text") \o more, <<"full", ";">>) :
        more \in {<<>>, Set("playgroup", "one"), Set("email", "text")}}

(* PIDs in the tables and behind them. *)
MCPids ==
    {MCStream("output-udp", MCSettings("239.0.0.1", "1", "4"), <<>>,
              Set("pid", pid) \o Set("pnr", "1")) :
        pid \in {"-1", "0", "8191", "8192", "8193", "65536"}}

MCPieces ==
    {<<"{">>, <<"}">>, <<";">>, <<"'one'">>, <<"'open">>, <<"0">>,
     <<"sap", ";">>, <<"output-udp", ";">>, <<"{", "}">>,
     <<"{", "sap", ";", "}">>, <<"long">>, <<"'long">>,
     Set("diseqc", "5"), Set("lnb-sharing", "yes"),
     Block(<<"dvb-t">>, Set("frequency", "1"))}

(* File f with the lexemes from i on, n of them, replaced by piece. *)
Edit(f, i, n, piece) ==
    SubSeq(f, 1, i - 1) \o piece \o SubSeq(f, i + n, Len(f))

Edits(f) ==
    UNION {{Edit(f, i, n, <<>>), Edit(f, i, 0, SubSeq(f, i, i + n - 1))} :
              n \in {1, 3}, i \in 1 .. Len(f) - 2}
    \cup {Edit(f, i, 2, <<f[i + 1], f[i]>>) : i \in 1 .. Len(f) - 1}
    \cup {Edit(f, i, 0, p) : i \in 1 .. Len(f) + 1, p \in MCPieces}

MCFiles ==
    LET dish == MCDish("dvb-s", "12000000", "h",
                       Set("lof1", "9750000") \o Set("lof2", "10600000")
                       \o Set("slof", "11700000"))
    IN  MCDishes \cup MCCables \cup MCAnnounced \cup MCTexts \cup MCPids
        \cup Edits(MCOutputs) \cup Edits(MCAdapters)
        \cup Edits(dish)

MCNumbers ==
    ("-1" :> -1) @@ ("0" :> 0) @@ ("1" :> 1) @@ ("4" :> 4) @@ ("5" :> 5)
    @@ ("255" :> 255) @@ ("256" :> 256) @@ ("8080" :> 8080) @@ ("8191" :> 8191)
    @@ ("8192" :> 8192) @@ ("8193" :> 8193) @@ ("65536" :> 65536)
    @@ ("1000000" :> 1000000) @@ ("9750000" :> 9750000)
    @@ ("10600000" :> 10600000) @@ ("11000000" :> 11000000)
    @@ ("11700000" :> 11700000) @@ ("12000000" :> 12000000)

MCstrtol ==
    [w \in DOMAIN MCNumbers |-> [num |-> MCNumbers[w], whole |-> TRUE]]
    @@ ("239.0.0.1" :> [num |-> 239, whole |-> FALSE])

(* A number is an IPv4 address too. *)
MCfamily ==
    ("239.0.0.1" :> 4) @@ ("::1" :> 6) @@ ("longhost" :> 4)
    @@ [w \in {"0", "1", "4", "5"} |-> 4]

(* Three texts do not fit, two with a name do. *)
MCBytes == [w \in Text |-> IF w = "text" THEN 255 ELSE 3]

MCSapAddress ==
    [global |-> "224.2.127.254", org |-> "239.195.255.255",
     local |-> "239.255.255.255", link |-> "224.0.0.255"]
=============================================================================
