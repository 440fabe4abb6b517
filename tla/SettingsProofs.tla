--------------------------- MODULE SettingsProofs ---------------------------
(***************************************************************************)
(* Proofs about Startup: the settings.  The callbacks of config.c do not   *)
(* see the tree, they write through the pointers to the objects that were  *)
(* created last, and still every setting lands in the object of its block, *)
(* for every set of files.                                                 *)
(*                                                                         *)
(* The argument: the walk over the tree meets an entry behind one that the *)
(* parent of the entry is around (PreorderIs); by the tables nothing in an *)
(* object is of its kind (NotNested), so that behind every callback the    *)
(* pointers name all objects around its entry (At); and the innermost of   *)
(* them is of the kind the callbacks of the table write to (AllHeld).      *)
(***************************************************************************)
EXTENDS StartupProofs

-----------------------------------------------------------------------------
(* The tables.                                                             *)

Tables == DOMAIN conf

(* The names of the tables. *)
LEMMA TablesAre ==
    Tables = {"conf_main", "conf_http", "conf_adapter", "conf_dvbs",
              "conf_dvbs_lnb", "conf_dvbs_transponder", "conf_dvbt", "conf_dvbc",
              "conf_stream", "conf_input", "conf_output_udp", "conf_output_rtp",
              "conf_output_http", "conf_output_pipe", "conf_sap"}
BY DEF Tables, conf

(* What may be created in the blocks of a table. *)
Below(table) ==
    CASE table = "conf_main" -> {"adapter", "stream", "output", "sap"}
      [] table = "conf_adapter" -> {"stream", "output", "sap"}
      [] table = "conf_stream" -> {"output", "sap"}
      [] table \in {"conf_output_udp", "conf_output_rtp"} -> {"sap"}
      [] OTHER -> {}

OutputTables ==
    {"conf_output_udp", "conf_output_rtp", "conf_output_http", "conf_output_pipe"}

(* An option: its block has a table, in which nothing of its kind can be   *)
(* created, and of which the callbacks write to it if it is an object, or  *)
(* else to the object around it, which is no output and no announcement    *)
(* then.                                                                   *)
Fits(table, name, child) ==
    /\ Created(name) \subseteq Below(table)
    /\ name = "sap" => table \in {"conf_stream", "conf_output_udp", "conf_output_rtp"}
    /\ name \in Outputs \cup {"name"} => table = "conf_stream"
    /\ child # "" =>
          /\ child \in Tables \ {"conf_main"}
          /\ Below(child) \subseteq Below(table) \ Created(name)
          /\ child = "conf_stream" => name = "stream"
          /\ name \in Outputs => child \in OutputTables
          /\ name \in ToSocket => child \in {"conf_output_udp", "conf_output_rtp"}
          /\ IF Created(name) = {} THEN /\ PointerOf(child) = PointerOf(table)
                                       /\ PointerOf(child) \notin {"output", "sap"}
             ELSE Created(name) = {PointerOf(child)}

(* What Created says, case by case. *)
LEMMA CreatedIs ==
    /\ Created("adapter") = {"adapter"} /\ Created("stream") = {"stream"}
    /\ Created("sap") = {"sap"}
    /\ \A n \in Outputs : Created(n) = {"output"}
    /\ \A n : n \notin Outputs \cup {"adapter", "stream", "sap"} => Created(n) = {}
BY DEF Created, Outputs

(* What Below says, case by case. *)
LEMMA BelowIs ==
    /\ Below("conf_main") = {"adapter", "stream", "output", "sap"}
    /\ Below("conf_adapter") = {"stream", "output", "sap"}
    /\ Below("conf_stream") = {"output", "sap"}
    /\ Below("conf_output_udp") = {"sap"} /\ Below("conf_output_rtp") = {"sap"}
    /\ \A t : t \notin {"conf_main", "conf_adapter", "conf_stream",
                      "conf_output_udp", "conf_output_rtp"} => Below(t) = {}
BY DEF Below

(* What PointerOf says, case by case. *)
LEMMA PointerOfIs ==
    /\ PointerOf("conf_main") = "config" /\ PointerOf("conf_http") = "config"
    /\ \A t \in {"conf_adapter", "conf_dvbs", "conf_dvbs_lnb",
               "conf_dvbs_transponder", "conf_dvbt", "conf_dvbc"} :
          PointerOf(t) = "adapter"
    /\ PointerOf("conf_stream") = "stream" /\ PointerOf("conf_input") = "stream"
    /\ PointerOf("conf_sap") = "sap"
    /\ \A t \in {"conf_output_udp", "conf_output_rtp", "conf_output_http",
               "conf_output_pipe"} : PointerOf(t) = "output"
BY DEF PointerOf

Plain(name) == name \notin Outputs \cup {"adapter", "stream", "sap", "name"}

(* The fields of the options that Opt makes. *)
LEMMA OptIs ==
    ASSUME NEW names, NEW min, NEW max, NEW type, NEW child,
           NEW o \in Opt(names, min, max, type, child)
    PROVE  /\ o.name \in names /\ o.min = min /\ o.max = max
           /\ o.type = type /\ o.child = child
BY DEF Opt

(* Options fit a table by their names. *)
LEMMA OptFits ==
    ASSUME NEW table, NEW names, NEW min, NEW max, NEW type, NEW child,
           \A n \in names : Fits(table, n, child),
           NEW o \in Opt(names, min, max, type, child)
    PROVE  Fits(table, o.name, o.child)
BY OptIs

(* Options of which nothing is created, without a block, or with one that  *)
(* has settings of the same object.                                        *)
LEMMA PlainFits ==
    ASSUME NEW table, NEW names, \A n \in names : Plain(n),
           NEW child, \/ child = ""
                      \/ /\ child \in Tables \ {"conf_main", "conf_stream"}
                         /\ Below(child) = {} /\ PointerOf(child) = PointerOf(table)
                         /\ PointerOf(child) \notin {"output", "sap"}
    PROVE  \A n \in names : Fits(table, n, child)
<1>1. \A n \in names : Created(n) = {} /\ n \notin Outputs \cup {"sap", "name"}
    BY CreatedIs DEF Plain
<1> QED
    BY <1>1 DEF Fits, Outputs, ToSocket

(* The options of adapters. *)
LEMMA AdapterFits == \A o \in conf_adapter : Fits("conf_adapter", o.name, o.child)
<1> DEFINE t == "conf_adapter"
<1>1. \A n \in {"budget-mode"} : Fits(t, n, "")
    BY PlainFits DEF Plain, Outputs
<1>2. \A n \in {"packet-buffer", "dvr-buffer", "stat-interval", "stuck-interval"} :
          Fits(t, n, "")
    BY PlainFits DEF Plain, Outputs
<1>3. \A n \in {"stream"} : Fits(t, n, "conf_stream")
    BY TablesAre, CreatedIs, BelowIs, PointerOfIs DEF Fits, Outputs, OutputTables, ToSocket
<1>4. \A n \in {"dvb-s", "dvb-s2"} : Fits(t, n, "conf_dvbs")
    BY TablesAre, CreatedIs, BelowIs, PointerOfIs DEF Fits, Outputs, OutputTables, ToSocket
<1>5. \A n \in {"dvb-t"} : Fits(t, n, "conf_dvbt")
    BY TablesAre, CreatedIs, BelowIs, PointerOfIs DEF Fits, Outputs, OutputTables, ToSocket
<1>6. \A n \in {"dvb-c"} : Fits(t, n, "conf_dvbc")
    BY TablesAre, CreatedIs, BelowIs, PointerOfIs DEF Fits, Outputs, OutputTables, ToSocket
<1> QED
    BY <1>1, <1>2, <1>3, <1>4, <1>5, <1>6, OptFits, Zenon DEF conf_adapter, Once

(* The options outside of all blocks. *)
LEMMA MainFits == \A o \in conf_main : Fits("conf_main", o.name, o.child)
<1> DEFINE t == "conf_main"
<1>1. \A n \in {"adapter"} : Fits(t, n, "conf_adapter")
    BY TablesAre, CreatedIs, BelowIs, PointerOfIs DEF Fits, Outputs, OutputTables, ToSocket
<1>2. \A n \in {"http"} : Fits(t, n, "conf_http")
    BY TablesAre, CreatedIs, BelowIs, PointerOfIs DEF Fits, Outputs, OutputTables, ToSocket
<1> QED
    BY <1>1, <1>2, OptFits, Zenon DEF conf_main

(* The options of streams. *)
LEMMA StreamFits == \A o \in conf_stream : Fits("conf_stream", o.name, o.child)
<1> DEFINE t == "conf_stream"
<1>1. \A n \in {"name"} : Fits(t, n, "")
    BY CreatedIs DEF Fits, Outputs, OutputTables, ToSocket
<1>2. \A n \in {"sap"} : Fits(t, n, "conf_sap")
    BY TablesAre, CreatedIs, BelowIs, PointerOfIs DEF Fits, Outputs, OutputTables, ToSocket
<1>3. \A n \in {"input"} : Fits(t, n, "conf_input")
    BY TablesAre, CreatedIs, BelowIs, PointerOfIs DEF Fits, Outputs, OutputTables, ToSocket
<1>4. \A n \in {"output-udp"} : Fits(t, n, "conf_output_udp")
    BY TablesAre, CreatedIs, BelowIs, PointerOfIs DEF Fits, Outputs, OutputTables, ToSocket
<1>5. \A n \in {"output-rtp"} : Fits(t, n, "conf_output_rtp")
    BY TablesAre, CreatedIs, BelowIs, PointerOfIs DEF Fits, Outputs, OutputTables, ToSocket
<1>6. \A n \in {"output-http"} : Fits(t, n, "conf_output_http")
    BY TablesAre, CreatedIs, BelowIs, PointerOfIs DEF Fits, Outputs, OutputTables, ToSocket
<1>7. \A n \in {"output-pipe"} : Fits(t, n, "conf_output_pipe")
    BY TablesAre, CreatedIs, BelowIs, PointerOfIs DEF Fits, Outputs, OutputTables, ToSocket
<1> QED
    BY <1>1, <1>2, <1>3, <1>4, <1>5, <1>6, <1>7, OptFits, Zenon DEF conf_stream, Needed

(* The options of satellite adapters. *)
LEMMA DishFits == \A o \in conf_dvbs : Fits("conf_dvbs", o.name, o.child)
<1> DEFINE t == "conf_dvbs"
<1>1. \A n \in {"lnb-sharing"} : Fits(t, n, "")
    BY PlainFits DEF Plain, Outputs
<1>2. \A n \in {"lnb"} : Fits(t, n, "conf_dvbs_lnb")
    BY TablesAre, CreatedIs, BelowIs, PointerOfIs DEF Fits, Outputs, OutputTables, ToSocket
<1>3. \A n \in {"transponder"} : Fits(t, n, "conf_dvbs_transponder")
    BY TablesAre, CreatedIs, BelowIs, PointerOfIs DEF Fits, Outputs, OutputTables, ToSocket
<1> QED
    BY <1>1, <1>2, <1>3, OptFits, Zenon DEF conf_dvbs, Once

(* The options of outputs to sockets. *)
LEMMA SocketFits ==
    ASSUME NEW table \in {"conf_output_udp", "conf_output_rtp"}, NEW address
    PROVE  \A o \in conf_output_socket(address) : Fits(table, o.name, o.child)
<1>1. \A n \in {"local-address"} : Fits(table, n, "")
    BY PlainFits DEF Plain, Outputs
<1>2. \A n \in {"remote-address"} : Fits(table, n, "")
    BY PlainFits DEF Plain, Outputs
<1>3. \A n \in {"remote-port"} : Fits(table, n, "")
    BY PlainFits DEF Plain, Outputs
<1>4. \A n \in {"ttl"} : Fits(table, n, "")
    BY PlainFits DEF Plain, Outputs
<1>5. \A n \in {"sap"} : Fits(table, n, "conf_sap")
    BY TablesAre, CreatedIs, BelowIs, PointerOfIs DEF Fits, Outputs, OutputTables, ToSocket
<1> QED
    BY <1>1, <1>2, <1>3, <1>4, <1>5, OptFits, Zenon DEF conf_output_socket, Once, Needed

(* Tables without blocks. *)
LEMMA LeafTables ==
    ASSUME NEW t
    PROVE
    /\ \A o \in conf_sap : Fits(t, o.name, o.child)
    /\ \A o \in conf_input : Fits(t, o.name, o.child)
    /\ \A o \in conf_dvbt : Fits(t, o.name, o.child)
    /\ \A o \in conf_dvbc : Fits(t, o.name, o.child)
    /\ \A o \in conf_dvbs_lnb : Fits(t, o.name, o.child)
    /\ \A o \in conf_dvbs_transponder : Fits(t, o.name, o.child)
    /\ \A o \in conf_http : Fits(t, o.name, o.child)
    /\ \A o \in conf_output_http : Fits(t, o.name, o.child)
    /\ \A o \in conf_output_pipe : Fits(t, o.name, o.child)
<1>1. /\ \A n \in {"scope", "announce-host", "playgroup", "uri", "description"} : Fits(t, n, "")
      /\ \A n \in {"sap-group"} : Fits(t, n, "")
      /\ \A n \in {"sap-port", "announce-port", "ttl", "interval"} : Fits(t, n, "")
      /\ \A n \in {"email", "phone", "attribute"} : Fits(t, n, "")
      /\ \A n \in {"pid"} : Fits(t, n, "")
      /\ \A n \in {"pnr"} : Fits(t, n, "")
      /\ \A n \in {"full"} : Fits(t, n, "")
    BY PlainFits DEF Plain, Outputs
<1>2. /\ \A n \in {"bandwidth", "transmission-mode", "modulation", "guard-interval",
                 "hierarchy"} : Fits(t, n, "")
      /\ \A n \in {"frequency"} : Fits(t, n, "")
      /\ \A n \in {"frequency", "symbol-rate"} : Fits(t, n, "")
      /\ \A n \in {"polarisation"} : Fits(t, n, "")
      /\ \A n \in {"modulation", "fec"} : Fits(t, n, "")
      /\ \A n \in {"lof1"} : Fits(t, n, "")
      /\ \A n \in {"lof2", "slof"} : Fits(t, n, "")
      /\ \A n \in {"diseqc"} : Fits(t, n, "")
    BY PlainFits DEF Plain, Outputs
<1>3. /\ \A n \in {"port"} : Fits(t, n, "")
      /\ \A n \in {"url"} : Fits(t, n, "")
      /\ \A n \in {"filename"} : Fits(t, n, "")
    BY PlainFits DEF Plain, Outputs
<1>4. /\ \A o \in conf_sap : Fits(t, o.name, o.child)
      /\ \A o \in conf_input : Fits(t, o.name, o.child)
    BY <1>1, OptFits, Zenon DEF conf_sap, conf_input, Once
<1>5. \A o \in conf_dvbt : Fits(t, o.name, o.child)
    BY <1>2, OptFits, Zenon DEF conf_dvbt, Once, Needed
<1>6. /\ \A o \in conf_dvbc : Fits(t, o.name, o.child)
      /\ \A o \in conf_dvbs_lnb : Fits(t, o.name, o.child)
      /\ \A o \in conf_dvbs_transponder : Fits(t, o.name, o.child)
    BY <1>2, OptFits, Zenon DEF conf_dvbc, conf_dvbs_lnb, conf_dvbs_transponder,
                                 Once, Needed
<1>7. /\ \A o \in conf_http : Fits(t, o.name, o.child)
      /\ \A o \in conf_output_http : Fits(t, o.name, o.child)
      /\ \A o \in conf_output_pipe : Fits(t, o.name, o.child)
    BY <1>3, OptFits, Zenon DEF conf_http, conf_output_http, conf_output_pipe, Needed
<1> QED
    BY <1>4, <1>5, <1>6, <1>7

(* All options of all tables fit. *)
LEMMA TableFits ==
    ASSUME NEW table \in Tables, NEW o \in conf[table]
    PROVE  Fits(table, o.name, o.child)
<1>2. /\ conf["conf_main"] = conf_main /\ conf["conf_adapter"] = conf_adapter
      /\ conf["conf_stream"] = conf_stream /\ conf["conf_dvbs"] = conf_dvbs
      /\ conf["conf_output_udp"] = conf_output_socket("ipaddr")
      /\ conf["conf_output_rtp"] = conf_output_socket("ipv4addr")
      /\ conf["conf_sap"] = conf_sap /\ conf["conf_input"] = conf_input
      /\ conf["conf_dvbt"] = conf_dvbt /\ conf["conf_dvbc"] = conf_dvbc
      /\ conf["conf_dvbs_lnb"] = conf_dvbs_lnb
      /\ conf["conf_dvbs_transponder"] = conf_dvbs_transponder
      /\ conf["conf_http"] = conf_http
      /\ conf["conf_output_http"] = conf_output_http
      /\ conf["conf_output_pipe"] = conf_output_pipe
    BY DEF conf
<1>3. CASE table \in {"conf_main", "conf_adapter", "conf_stream", "conf_dvbs"}
    BY <1>2, <1>3, MainFits, AdapterFits, StreamFits, DishFits
<1>4. CASE table \in {"conf_output_udp", "conf_output_rtp"}
    BY <1>2, <1>4, SocketFits
<1>5. CASE table \in {"conf_sap", "conf_input", "conf_dvbt", "conf_dvbc", "conf_dvbs_lnb",
                      "conf_dvbs_transponder", "conf_http", "conf_output_http",
                      "conf_output_pipe"}
    BY <1>2, <1>5, LeafTables
<1> QED
    BY <1>3, <1>4, <1>5, TablesAre

-----------------------------------------------------------------------------
(* The tree against the tables.                                            *)

(* libconf_validate_token has found nothing. *)
TokensOK == \A x \in Tree : Table[x] # "" => ~BadToken(x)

(* Entry x is an option of its table. *)
Known(x) ==
    /\ Table[x] \in Tables
    /\ Option(x) \in conf[Table[x]]
    /\ Option(x).name = entries[x].token
    /\ entries[x].child # 0 => Option(x).child # ""
    /\ Fits(Table[x], entries[x].token, Option(x).child)

(* The equation of Table. *)
LEMMA TableIs ==
    ASSUME TreeOK, NEW x \in Entries
    PROVE  Table[x] = TableOf(Table, x)
<1>1. x \in 1 .. Len(entries)
    BY DEF Entries
<1> QED
    BY <1>1, TableEquals, Zenon

(* The equation of Enclosing. *)
LEMMA EnclosingIs ==
    ASSUME TreeOK, NEW x \in Entries
    PROVE  Enclosing[x] = EnclosingOf(Enclosing, x)
<1>1. x \in 0 .. Len(entries)
    BY DEF Entries, TreeOK
<1> QED
    BY <1>1, EnclosingEquals, Zenon

(* libconf_find_token finds an option with the name. *)
LEMMA FindIs ==
    ASSUME NEW t, NEW n \in Names(t)
    PROVE  Find(t, n) \in conf[t] /\ Find(t, n).name = n
BY DEF Names, Find

(* An entry of which the options are searched in a table is one of them. *)
LEMMA HasTable ==
    ASSUME TreeOK, TokensOK, NEW x \in Tree, Table[x] \in Tables
    PROVE  Known(x)
<1>1. "" \notin Tables
    BY TablesAre
<1>2. ~BadToken(x)
    BY <1>1 DEF TokensOK
<1>3. entries[x].token \in Names(Table[x])
    BY <1>2 DEF BadToken
<1>4. Option(x) \in conf[Table[x]] /\ Option(x).name = entries[x].token
    BY <1>3, FindIs DEF Option
<1>5. entries[x].child # 0 => Option(x).child # ""
    BY <1>2 DEF BadToken
<1>6. Fits(Table[x], Option(x).name, Option(x).child)
    BY <1>4, TableFits
<1> QED
    BY <1>4, <1>5, <1>6 DEF Known

(* The options of a block are looked up in the table of its option.        *)
LEMMA BlockTable ==
    ASSUME TreeOK, NEW x \in Entries, entries[x].parent # 0,
           Known(entries[x].parent), entries[entries[x].parent].child # 0
    PROVE  /\ Table[x] = Option(entries[x].parent).child
           /\ Table[x] \in Tables
<1> DEFINE p == entries[x].parent
<1>1. "" \notin Tables
    BY TablesAre
<1>2. Table[p] # "" /\ entries[p].token \in Names(Table[p])
    BY <1>1 DEF Known, Names
<1>3. Table[x] = Find(Table[p], entries[p].token).child
    BY <1>2, TableIs DEF TableOf
<1>4. Option(p).child # "" /\ Fits(Table[p], entries[p].token, Option(p).child)
    BY DEF Known
<1>5. Option(p).child \in Tables
    BY <1>4 DEF Fits
<1> QED
    BY <1>3, <1>5 DEF Option

(* So are those in the tree.                                               *)
LEMMA ParentTable ==
    ASSUME TreeOK, NEW x \in Tree, entries[x].parent # 0, Known(entries[x].parent)
    PROVE  /\ Table[x] = Option(entries[x].parent).child
           /\ Table[x] \in Tables
BY InTree, BlockTable

(* If libconf_validate_token accepts the tree, all entries are options. *)
LEMMA AllKnown ==
    ASSUME TreeOK, TokensOK
    PROVE  \A x \in Tree : Known(x)
<1> DEFINE T == {x \in Tree : ~Known(x)}
<1>1. SUFFICES ASSUME T # {} PROVE FALSE
    OBVIOUS
<1>2. PICK x \in T : \A y \in T : x <= y
    <2>1. T \in SUBSET Nat
        BY InTree, ParentIs
    <2> HIDE DEF T
    <2> QED
        BY <1>1, <2>1, Least
<1>3. x \in Tree /\ x \in Entries /\ ~Known(x)
    BY <1>2, InTree
<1>4. CASE entries[x].parent = 0
    <2>1. Table[x] = "conf_main"
        BY <1>3, <1>4, TableIs DEF TableOf
    <2>2. Table[x] \in Tables
        BY <2>1, TablesAre
    <2> QED
        BY <1>3, <2>2, HasTable
<1>5. CASE entries[x].parent # 0
    <2>1. /\ entries[x].parent \in Tree /\ entries[x].parent \in Nat /\ x \in Nat
          /\ entries[x].parent < x
        BY <1>3, <1>5, InTree, ParentIs
    <2>2. Known(entries[x].parent)
        BY <1>2, <2>1
    <2>3. Table[x] \in Tables
        BY <1>3, <1>5, <2>2, ParentTable
    <2> QED
        BY <1>3, <2>3, HasTable
<1> QED
    BY <1>4, <1>5

Kind(x) == Created(entries[x].token)

(* Nothing in an object is of its kind, at whatever depth. *)
LEMMA NotNested ==
    ASSUME TreeOK, TokensOK, NEW x \in Tree, NEW e \in Around(x), e # x
    PROVE  Kind(e) \cap Kind(x) = {}
<1> DEFINE S == {y \in Tree : /\ Below(Table[x]) \subseteq Below(Table[y])
                              /\ y = x \/ Kind(y) \cap Below(Table[x]) = {}}
<1>1. \A y \in Tree : Known(y)
    BY AllKnown
<1>2. S \in SUBSET Entries /\ x \in S
    BY InTree
<1>3. ASSUME NEW y \in S, entries[y].parent # 0 PROVE entries[y].parent \in S
    <2> DEFINE p == entries[y].parent
    <2>1. y \in Tree /\ p \in Tree /\ Known(p)
        BY <1>1, <1>3, InTree
    <2>2. Table[y] = Option(p).child /\ Table[y] \in Tables
        BY <1>3, <2>1, ParentTable
    <2>3. Below(Table[y]) \subseteq Below(Table[p]) \ Kind(p)
        BY <2>1, <2>2, TablesAre DEF Known, Fits, Kind
    <2> QED
        BY <2>1, <2>3
<1>4. Closed(S)
    BY <1>3 DEF Closed
<1> HIDE DEF S
<1>5. e \in S
    BY <1>2, <1>4, AroundLeast
<1>6. Kind(e) \cap Below(Table[x]) = {}
    BY <1>5 DEF S
<1>7. Kind(x) \subseteq Below(Table[x])
    BY <1>1 DEF Known, Fits, Kind
<1> QED
    BY <1>6, <1>7

(* The object around an entry is of the kind that the callbacks of its     *)
(* table write to.                                                         *)
Held(x) ==
    \/ Enclosing[x] = Base /\ PointerOf(Table[x]) = "config"
    \/ /\ entries[x].parent # 0
       /\ Enclosing[x] \in Around(entries[x].parent)
       /\ Kind(Enclosing[x]) = {PointerOf(Table[x])}

(* The object around every entry is of the kind its callback writes to. *)
LEMMA AllHeld ==
    ASSUME TreeOK, TokensOK
    PROVE  \A x \in Tree : Held(x)
<1> DEFINE T == {x \in Tree : ~Held(x)}
<1>1. SUFFICES ASSUME T # {} PROVE FALSE
    OBVIOUS
<1>2. PICK x \in T : \A y \in T : x <= y
    <2>1. T \in SUBSET Nat
        BY InTree, ParentIs
    <2> HIDE DEF T
    <2> QED
        BY <1>1, <2>1, Least
<1> DEFINE p == entries[x].parent
<1>3. x \in Tree /\ x \in Entries /\ ~Held(x)
    BY <1>2, InTree
<1>4. CASE p = 0
    <2>1. Table[x] = "conf_main"
        BY <1>3, <1>4, TableIs DEF TableOf
    <2>2. x # 0
        BY <1>3, ParentIs
    <2>3. Enclosing[x] = Base
        BY <1>3, <1>4, <2>2, EnclosingIs DEF EnclosingOf
    <2> QED
        BY <1>3, <2>1, <2>3, PointerOfIs DEF Held
<1>5. CASE p # 0
    <2>1. p \in Tree /\ p \in Entries /\ p \in Nat /\ x \in Nat /\ p < x
        BY <1>3, <1>5, InTree, ParentIs
    <2>2. Known(p) /\ Table[x] = Option(p).child /\ Table[x] \in Tables
        BY <1>3, <1>5, <2>1, AllKnown, ParentTable
    <2>3. IF Kind(p) = {} THEN PointerOf(Table[x]) = PointerOf(Table[p])
          ELSE Kind(p) = {PointerOf(Table[x])}
        BY <2>2, TablesAre DEF Known, Fits, Kind
    <2>4. x # 0 /\ Enclosing[x] = IF Kind(p) # {} THEN p ELSE Enclosing[p]
        <3>1. x # 0
            BY <1>3, ParentIs
        <3> QED
            BY <1>3, <1>5, <3>1, EnclosingIs DEF EnclosingOf, Kind
    <2>5. p \in Around(p) /\ Closed(Around(p)) /\ Around(p) \subseteq Entries
        BY <2>1, AroundIs
    <2>6. CASE Kind(p) # {}
        BY <1>3, <1>5, <2>3, <2>4, <2>5, <2>6 DEF Held
    <2>7. CASE Kind(p) = {}
        <3>1. Held(p)
            BY <1>2, <2>1
        <3>2. CASE Enclosing[p] = Base /\ PointerOf(Table[p]) = "config"
            BY <1>3, <2>3, <2>4, <2>7, <3>2 DEF Held
        <3>3. CASE /\ entries[p].parent # 0
                   /\ Enclosing[p] \in Around(entries[p].parent)
                   /\ Kind(Enclosing[p]) = {PointerOf(Table[p])}
            <4>1. entries[p].parent \in Around(p)
                BY <2>5, <3>3 DEF Closed
            <4>2. Around(entries[p].parent) \subseteq Around(p)
                BY <2>5, <4>1, AroundLeast
            <4> QED
                BY <1>3, <1>5, <2>3, <2>4, <2>7, <3>3, <4>2 DEF Held
        <3> QED
            BY <3>1, <3>2, <3>3 DEF Held
    <2> QED
        BY <2>6, <2>7
<1> QED
    BY <1>4, <1>5

(* Only the pointer of a sap in a stream is not that of its table. *)
LEMMA PointerIs ==
    ASSUME TreeOK, TokensOK, NEW x \in Tree
    PROVE  InStream(x) \/ Pointer(x) = PointerOf(Table[x])
<1>1. SUFFICES ASSUME entries[x].token = "sap"
               PROVE  InStream(x) \/ PointerOf(Table[x]) = "output"
    BY DEF Pointer
<1>2. x \in Entries /\ Known(x)
    BY AllKnown, InTree
<1>3. Table[x] \in {"conf_stream", "conf_output_udp", "conf_output_rtp"}
    BY <1>1, <1>2 DEF Known, Fits
<1>4. CASE Table[x] = "conf_stream"
    <2>1. entries[x].parent # 0
        BY <1>2, <1>4, TableIs DEF TableOf
    <2>2. entries[x].parent \in Tree /\ Known(entries[x].parent)
        BY <2>1, InTree, AllKnown
    <2>3. Table[x] = Option(entries[x].parent).child
        BY <2>1, <2>2, ParentTable
    <2>4. entries[entries[x].parent].token = "stream"
        BY <1>4, <2>2, <2>3 DEF Known, Fits
    <2> QED
        BY <1>1, <2>4 DEF InStream
<1>5. CASE Table[x] \in {"conf_output_udp", "conf_output_rtp"}
    BY <1>5, PointerOfIs
<1> QED
    BY <1>3, <1>4, <1>5

-----------------------------------------------------------------------------
(* The callbacks.                                                          *)

ValuesOK == \A x \in Tree : ValueOK(x)

CountsOK == \A l \in Lists : \A o \in conf[Table[l]] : CountOK(l, o)

(* What the first three passes of libconf_validate leave. *)
CheckedInv ==
    /\ phase \in {"values", "counts", "calling"} \cup Accept => TokensOK
    /\ phase \in {"counts", "calling"} \cup Accept => ValuesOK
    /\ phase \in {"calling"} \cup Accept => CountsOK

PointersInv ==
    /\ DOMAIN cur = {"config", "adapter", "stream", "output", "sap"}
    /\ cur["config"] = Base

(* The first k entries of the preorder that have a callback. *)
Called(k) == {x \in Tree : HasCallback(x) /\ \E j \in 1 .. k : Preorder[j] = x}

(* The callbacks of the first k entries have been called, and every object *)
(* around the last of them is the one its pointer names.                   *)
At(k) ==
    /\ todo \in Seq(Entries) /\ Len(todo) = Len(Preorder) - k
    /\ \A j \in 1 .. Len(todo) : todo[j] = Preorder[k + j]
    /\ k > 0 => \A e \in Around(Preorder[k]) : \A p \in Kind(e) : cur[p] = e
    /\ DOMAIN wrote = Called(k)

CalledInv ==
    /\ phase \in {"parsing", "tokens", "values", "counts"} => wrote = <<>>
    /\ phase = "calling" => \E k \in 0 .. Len(Preorder) : At(k)
    /\ phase \in Accept => DOMAIN wrote = Called(Len(Preorder))

SInv == TreeOK /\ CheckedInv /\ PointersInv /\ CalledInv /\ SettingsLand

(* The tree and what follows from it do not change behind libconf_parse. *)
LEMMA SameTree ==
    ASSUME UNCHANGED parsed
    PROVE  /\ UNCHANGED <<entries, Preorder, Tree, Table, Enclosing, Entries>>
           /\ \A x : UNCHANGED <<Around(x), Kind(x)>>
           /\ \A x : /\ HasCallback(x)' <=> HasCallback(x)
                     /\ InStream(x)' <=> InStream(x)
           /\ TokensOK' <=> TokensOK
           /\ ValuesOK' <=> ValuesOK
           /\ CountsOK' <=> CountsOK
<1>1. UNCHANGED entries
    BY DEF parsed
<1>2. UNCHANGED Preorder
    BY <1>1 DEF Preorder
<1>3. UNCHANGED Table
    BY <1>1 DEF Table
<1>4. UNCHANGED Enclosing
    BY <1>1 DEF Enclosing
<1>5. UNCHANGED Tree
    BY <1>2 DEF Tree
<1>6. UNCHANGED Entries
    BY <1>1 DEF Entries
<1>7. \A x : UNCHANGED Around(x)
    BY <1>1, <1>6 DEF Around, Closed
<1>8. \A x : UNCHANGED Kind(x)
    BY <1>1 DEF Kind
<1>9. \A x : /\ HasCallback(x)' <=> HasCallback(x)
             /\ InStream(x)' <=> InStream(x)
    BY <1>1 DEF HasCallback, InStream
<1>10. TokensOK' <=> TokensOK
    BY <1>1, <1>3, <1>5 DEF TokensOK, BadToken, Option
<1>11. ValuesOK' <=> ValuesOK
    BY <1>1, <1>3, <1>5 DEF ValuesOK, ValueOK, Option
<1>12. CountsOK' <=> CountsOK
    BY <1>1, <1>3, <1>5 DEF CountsOK, Lists, CountOK, List
<1> QED
    BY <1>1, <1>2, <1>3, <1>4, <1>5, <1>6, <1>7, <1>8, <1>9, <1>10, <1>11, <1>12

(* While the file is parsed no callback is called. *)
LEMMA ParseSteps ==
    ASSUME SInv, Parse
    PROVE  SInv'
<1>1. /\ phase = "parsing" /\ phase' \in {"parsing", "tokens", "rejected", "crashed"}
      /\ UNCHANGED called
    BY DEF Parse, OpenBracket, CloseBracket, Colon, String, QString,
           BrokenString, TokenOverrun, Eof, GetToken, Lexeme, Fail
<1>2. TreeOK'
    BY ParseKeepsTree DEF SInv
<1>3. wrote = <<>> /\ UNCHANGED <<cur, wrote>>
    BY <1>1 DEF SInv, CalledInv, called
<1>4. CheckedInv' /\ CalledInv'
    BY <1>1, <1>3 DEF CheckedInv, CalledInv, Accept
<1>5. PointersInv'
    BY <1>3 DEF SInv, PointersInv
<1>6. SettingsLand'
    BY <1>3 DEF SettingsLand
<1> QED
    BY <1>2, <1>4, <1>5, <1>6 DEF SInv

(* Steps that leave the tree, the pointers and what was written alone. *)
LEMMA QuietSteps ==
    ASSUME SInv, UNCHANGED <<parsed, cur, wrote>>, CheckedInv', CalledInv'
    PROVE  SInv'
<1>1. TreeOK'
    BY DEF SInv, TreeOK, parsed
<1>2. PointersInv'
    BY DEF SInv, PointersInv
<1>3. SettingsLand'
    BY SameTree DEF SInv, SettingsLand
<1> QED
    BY <1>1, <1>2, <1>3 DEF SInv

(* libconf_validate_token lets no unknown token pass. *)
LEMMA TokenSteps ==
    ASSUME SInv, ValidateToken
    PROVE  SInv'
<1>1. /\ phase = "tokens" /\ phase' \in {"values", "crashed", "rejected"}
      /\ UNCHANGED <<parsed, cur, wrote>>
    BY DEF ValidateToken, called
<1>2. phase' = "values" => TokensOK
    <2> SUFFICES ASSUME phase' = "values", NEW x \in Tree, Table[x] # "", BadToken(x)
                 PROVE  FALSE
        BY DEF TokensOK
    <2>1. PICK k \in 1 .. Len(Preorder) : Preorder[k] = x
        BY DEF Tree
    <2>2. {m \in 1 .. Len(Preorder) :
             Table[Preorder[m]] # "" /\ BadToken(Preorder[m])} # {}
        BY <2>1
    <2> QED
        BY <2>2 DEF ValidateToken
<1>3. CheckedInv'
    BY <1>1, <1>2, SameTree DEF CheckedInv, Accept
<1>4. CalledInv'
    BY <1>1 DEF SInv, CalledInv, Accept
<1> QED
    BY <1>1, <1>3, <1>4, QuietSteps

(* libconf_validate_value lets no wrong value pass. *)
LEMMA ValueSteps ==
    ASSUME SInv, ValidateValues
    PROVE  SInv'
<1>1. /\ phase = "values" /\ phase' \in {"counts", "rejected"}
      /\ UNCHANGED <<parsed, cur, wrote>>
      /\ phase' = "counts" => ValuesOK
    BY DEF ValidateValues, called, ValuesOK
<1>2. TokensOK
    BY <1>1 DEF SInv, CheckedInv
<1>3. CheckedInv'
    BY <1>1, <1>2, SameTree DEF CheckedInv, Accept
<1>4. CalledInv'
    BY <1>1 DEF SInv, CalledInv, Accept
<1> QED
    BY <1>1, <1>3, <1>4, QuietSteps

(* libconf_validate_valueopt lets no wrong number of options pass, and the *)
(* callbacks are called in the order of the tree.                          *)
LEMMA CountSteps ==
    ASSUME SInv, ValidateValueopt
    PROVE  SInv'
<1>1. /\ phase = "counts" /\ phase' \in {"calling", "rejected"}
      /\ UNCHANGED <<parsed, cur, wrote>> /\ todo' = Preorder
      /\ phase' = "calling" => CountsOK
    BY DEF ValidateValueopt, CountsOK
<1>2. TokensOK /\ ValuesOK /\ wrote = <<>> /\ TreeOK
    BY <1>1 DEF SInv, CheckedInv, CalledInv
<1>3. CheckedInv'
    BY <1>1, <1>2, SameTree DEF CheckedInv, Accept
<1>4. At(0)'
    <2>1. Preorder' = Preorder /\ Entries' = Entries
        BY <1>1, SameTree
    <2>2. Preorder \in Seq(Entries) /\ Len(Preorder) \in Nat
        BY <1>2, PreorderIs
    <2>3. DOMAIN wrote' = {} /\ Called(0)' = {}
        BY <1>1, <1>2 DEF Called
    <2>4. todo' \in Seq(Entries') /\ Len(todo') = Len(Preorder') - 0
        BY <1>1, <2>1, <2>2
    <2>5. \A j \in 1 .. Len(todo') : todo'[j] = Preorder'[0 + j]
        BY <1>1, <2>1, <2>2
    <2> QED
        BY <2>3, <2>4, <2>5 DEF At
<1>5. CalledInv'
    <2>1. 0 \in 0 .. Len(Preorder')
        BY <1>1, <1>2, SameTree, PreorderIs
    <2> QED
        BY <1>1, <1>4, <2>1 DEF CalledInv, Accept
<1> QED
    BY <1>1, <1>3, <1>5, QuietSteps

(* The next entry to be called, and how the pointers are then: they name   *)
(* all objects around it.                                                  *)
LEMMA NextCalled ==
    ASSUME TreeOK, NEW k \in 0 .. Len(Preorder), At(k), todo # <<>>
    PROVE  /\ k < Len(Preorder) /\ Head(todo) = Preorder[k + 1]
           /\ Head(todo) \in Tree
           /\ entries[Head(todo)].parent # 0 =>
                 \A e \in Around(entries[Head(todo)].parent) :
                     \A p \in Kind(e) : cur[p] = e
<1> DEFINE i == Head(todo)
<1>1. /\ Len(Preorder) \in Nat /\ Preorder \in Seq(Entries)
      /\ Tree = Elems(Preorder)
    BY PreorderIs
<1>2. todo \in Seq(Entries) /\ Len(todo) > 0 /\ Len(todo) = Len(Preorder) - k
    BY DEF At
<1>3. k < Len(Preorder) /\ k \in Nat
    BY <1>1, <1>2
<1>4. i = Preorder[k + 1]
    BY <1>2 DEF At
<1>5. i \in Tree
    BY <1>1, <1>3, <1>4 DEF Elems
<1>6. ASSUME entries[i].parent # 0, NEW e \in Around(entries[i].parent), NEW p \in Kind(e)
      PROVE  cur[p] = e
    <2>1. k > 0
        <3>1. k = 0 => entries[i].parent = 0
            BY <1>4, PreorderIs
        <3> QED
            BY <1>3, <1>6, <3>1
    <2>2. k \in 1 .. Len(Preorder) - 1
        BY <1>1, <1>3, <2>1
    <2>3. entries[i].parent \in Around(Preorder[k])
        BY <1>4, <1>6, <2>2, PreorderIs
    <2>4. Preorder[k] \in Entries
        BY <1>1, <2>2
    <2>5. Closed(Around(Preorder[k])) /\ Around(Preorder[k]) \subseteq Entries
        BY <2>4, AroundIs
    <2>6. e \in Around(Preorder[k])
        BY <1>6, <2>3, <2>5, AroundLeast
    <2> QED
        BY <1>6, <2>1, <2>6 DEF At
<1> QED
    BY <1>3, <1>4, <1>5, <1>6

(* The callback of entry i writes to the object around it.                 *)
LEMMA PointerNames ==
    ASSUME TreeOK, TokensOK, PointersInv, NEW i \in Tree,
           entries[i].parent # 0 =>
               \A e \in Around(entries[i].parent) : \A p \in Kind(e) : cur[p] = e
    PROVE  /\ cur[PointerOf(Table[i])] = Enclosing[i]
           /\ InStream(i) \/ cur[Pointer(i)] = Enclosing[i]
<1>1. Held(i)
    BY AllHeld
<1>2. cur[PointerOf(Table[i])] = Enclosing[i]
    BY <1>1 DEF Held, PointersInv
<1> QED
    BY <1>2, PointerIs

(* Behind its callback the pointers name the objects around entry i, with  *)
(* itself.                                                                 *)
LEMMA PointersAfter ==
    ASSUME TreeOK, TokensOK, PointersInv, NEW i \in Tree,
           entries[i].parent # 0 =>
               \A e \in Around(entries[i].parent) : \A p \in Kind(e) : cur[p] = e,
           NEW c, c = [p \in DOMAIN cur |->
                          IF p \in Created(entries[i].token) THEN i ELSE cur[p]]
    PROVE  \A e \in Around(i) : \A p \in Kind(e) : c[p] = e
<1> SUFFICES ASSUME NEW e \in Around(i), NEW p \in Kind(e) PROVE c[p] = e
    OBVIOUS
<1>1. Created(entries[e].token) \subseteq {"adapter", "stream", "output", "sap"}
    BY DEF Created
<1>2. p \in DOMAIN cur
    BY <1>1 DEF PointersInv, Kind
<1>3. CASE e = i
    BY <1>2, <1>3 DEF Kind
<1>4. CASE e # i
    <2>1. i \in Entries
        BY InTree
    <2>2. entries[i].parent # 0 /\ e \in Around(entries[i].parent)
        BY <1>4, <2>1, AroundParent
    <2>3. cur[p] = e
        BY <2>2
    <2>4. p \notin Created(entries[i].token)
        BY <1>4, NotNested DEF Kind
    <2> QED
        BY <1>2, <2>3, <2>4
<1> QED
    BY <1>3, <1>4

(* What has been called with the next entry. *)
LEMMA CalledNext ==
    ASSUME NEW k \in Nat, NEW i \in Tree, i = Preorder[k + 1]
    PROVE  Called(k + 1) = Called(k) \cup (IF HasCallback(i) THEN {i} ELSE {})
<1>1. \A j \in 1 .. k + 1 : j \in 1 .. k \/ j = k + 1
    OBVIOUS
<1>2. k + 1 \in 1 .. k + 1 /\ \A j \in 1 .. k : j \in 1 .. k + 1
    OBVIOUS
<1>3. ASSUME NEW x \in Tree
      PROVE  (\E j \in 1 .. k + 1 : Preorder[j] = x)
                <=> (\E j \in 1 .. k : Preorder[j] = x) \/ x = i
    BY <1>1, <1>2
<1> QED
    BY <1>3, Zenon DEF Called

(* A callback, which writes through the pointers of the last objects,      *)
(* reaches the object of the block around it.                              *)
LEMMA CallbackSteps ==
    ASSUME SInv, Callback
    PROVE  SInv'
<1> DEFINE i == Head(todo)
<1>1. /\ phase = "calling" /\ todo # <<>> /\ UNCHANGED parsed
      /\ TreeOK /\ PointersInv /\ CheckedInv /\ CalledInv /\ SettingsLand
    BY DEF Callback, SInv
<1>2. TokensOK /\ ValuesOK /\ CountsOK
    BY <1>1 DEF CheckedInv
<1>3. PICK k \in 0 .. Len(Preorder) : At(k)
    BY <1>1 DEF CalledInv
<1>4. CASE phase' \in {"crashed", "rejected"} /\ UNCHANGED <<cur, wrote>>
    <2>1. CheckedInv' /\ CalledInv'
        BY <1>4 DEF CheckedInv, CalledInv, Accept
    <2> QED
        BY <1>1, <1>4, <2>1, QuietSteps
<1>5. CASE /\ wrote' = IF HasCallback(i) THEN With(wrote, i, cur[Pointer(i)]) ELSE wrote
           /\ cur' = [p \in DOMAIN cur |->
                         IF p \in Created(entries[i].token) THEN i ELSE cur[p]]
           /\ phase' = phase /\ todo' = Tail(todo)
    <2>1. /\ k < Len(Preorder) /\ i = Preorder[k + 1] /\ i \in Tree
          /\ entries[i].parent # 0 =>
                \A e \in Around(entries[i].parent) : \A p \in Kind(e) : cur[p] = e
        BY <1>1, <1>3, NextCalled
    <2>2. TreeOK'
        BY <1>1 DEF TreeOK, parsed
    <2>3. CheckedInv'
        BY <1>1, <1>2, <1>5, SameTree DEF CheckedInv, Accept
    <2>4. PointersInv'
        <3>1. "config" \notin Created(entries[i].token)
            BY DEF Created
        <3> QED
            BY <1>1, <1>5, <3>1 DEF PointersInv
    <2>5. SettingsLand'
        <3>1. InStream(i) \/ cur[Pointer(i)] = Enclosing[i]
            BY <1>1, <1>2, <2>1, PointerNames
        <3>2. \A x \in DOMAIN wrote' : InStream(x) \/ wrote'[x] = Enclosing[x]
            BY <1>1, <1>5, <3>1 DEF With, SettingsLand
        <3> QED
            BY <1>1, <3>2, SameTree DEF SettingsLand
    <2>6. At(k + 1)'
        <3> HIDE DEF i
        <3>1. /\ todo \in Seq(Entries) /\ Len(todo) = Len(Preorder) - k
              /\ \A j \in 1 .. Len(todo) : todo[j] = Preorder[k + j]
              /\ DOMAIN wrote = Called(k)
            BY <1>3 DEF At
        <3>2. Len(Preorder) \in Nat /\ k \in Nat
            BY <1>1, PreorderIs
        <3>3. /\ Tail(todo) \in Seq(Entries) /\ Len(Tail(todo)) = Len(todo) - 1
              /\ \A j \in 1 .. Len(todo) - 1 : Tail(todo)[j] = todo[j + 1]
            BY <1>1, <3>1
        <3>4. /\ Tail(todo) \in Seq(Entries)
              /\ Len(Tail(todo)) = Len(Preorder) - (k + 1)
              /\ \A j \in 1 .. Len(Tail(todo)) : Tail(todo)[j] = Preorder[k + 1 + j]
            <4>1. Len(Tail(todo)) = Len(Preorder) - (k + 1)
                BY <3>1, <3>2, <3>3
            <4>2. ASSUME NEW j \in 1 .. Len(Tail(todo))
                  PROVE  Tail(todo)[j] = Preorder[k + 1 + j]
                <5>1. j + 1 \in 1 .. Len(todo) /\ k + (j + 1) = k + 1 + j
                    BY <3>1, <3>2, <3>3
                <5>2. Tail(todo)[j] = todo[j + 1]
                    BY <3>3
                <5> QED
                    BY <3>1, <5>1, <5>2
            <4> QED
                BY <3>3, <4>1, <4>2
        <3>5. \A e \in Around(i) : \A p \in Kind(e) : cur'[p] = e
            BY <1>1, <1>2, <1>5, <2>1, PointersAfter DEF i
        <3>6. DOMAIN wrote' = Called(k + 1)
            <4>1. Called(k + 1) = Called(k) \cup (IF HasCallback(i) THEN {i} ELSE {})
                BY <2>1, <3>2, CalledNext DEF i
            <4> QED
                BY <1>5, <3>1, <4>1 DEF With, i
        <3>7. Called(k + 1)' = Called(k + 1)
            BY <1>1, SameTree DEF Called
        <3>8. \A e \in Around(Preorder[k + 1])' : \A p \in Kind(e)' : cur'[p] = e
            BY <1>1, <2>1, <3>5, SameTree DEF i
        <3>9. Preorder' = Preorder /\ Entries' = Entries
            BY <1>1, SameTree
        <3> QED
            BY <1>5, <3>4, <3>6, <3>7, <3>8, <3>9 DEF At
    <2>7. CalledInv'
        <3>1. k + 1 \in 0 .. Len(Preorder')
            <4>1. Len(Preorder) \in Nat
                BY <1>1, PreorderIs
            <4> QED
                BY <1>1, <2>1, <4>1, SameTree
        <3> QED
            BY <1>1, <1>5, <2>6, <3>1 DEF CalledInv, Accept
    <2> QED
        BY <2>2, <2>3, <2>4, <2>5, <2>7 DEF SInv
<1> QED
    BY <1>4, <1>5 DEF Callback

(* The callbacks end with the tree. *)
LEMMA ConfiguredSteps ==
    ASSUME SInv, Configured
    PROVE  SInv'
<1>1. /\ phase = "calling" /\ todo = <<>> /\ phase' = "configured"
      /\ UNCHANGED <<parsed, cur, wrote>>
    BY DEF Configured, called
<1>2. TokensOK /\ ValuesOK /\ CountsOK /\ TreeOK
    BY <1>1 DEF SInv, CheckedInv
<1>3. CheckedInv'
    BY <1>1, <1>2, SameTree DEF CheckedInv
<1>4. PICK k \in 0 .. Len(Preorder) : At(k)
    BY <1>1 DEF SInv, CalledInv
<1>5. k = Len(Preorder)
    <2>1. Len(Preorder) \in Nat /\ Len(todo) = 0
        BY <1>1, <1>2, PreorderIs
    <2> QED
        BY <1>4, <2>1 DEF At
<1>6. DOMAIN wrote' = Called(Len(Preorder))'
    <2>1. DOMAIN wrote = Called(Len(Preorder))
        BY <1>4, <1>5 DEF At
    <2> QED
        BY <1>1, <2>1, SameTree DEF Called
<1>7. CalledInv'
    BY <1>1, <1>6 DEF CalledInv, Accept
<1> QED
    BY <1>1, <1>3, <1>7, QuietSteps

(* What main does changes no setting. *)
LEMMA MainSteps ==
    ASSUME SInv, Main \/ UNCHANGED vars
    PROVE  SInv'
<1>1. CASE Main
    <2>1. /\ phase \in Accept /\ phase' \in Accept \cup {"exited", "crashed"}
          /\ UNCHANGED <<parsed, cur, wrote>>
        BY <1>1 DEF Main, StartHttp, StartAdapter, StartOutput, StartInput,
                    SapInit, Turn, Run, SapSend,
                    called, Accept
    <2>2. TokensOK /\ ValuesOK /\ CountsOK
        BY <2>1 DEF SInv, CheckedInv
    <2>3. CheckedInv'
        BY <2>1, <2>2, SameTree DEF CheckedInv
    <2>4. CalledInv'
        BY <2>1, SameTree DEF SInv, CalledInv, Accept, Called
    <2> QED
        BY <2>1, <2>3, <2>4, QuietSteps
<1>2. CASE UNCHANGED vars
    <2>1. UNCHANGED <<parsed, phase, todo, cur, wrote>>
        BY <1>2 DEF vars, configVars, called
    <2>2. \A k : Called(k)' = Called(k)
        BY <2>1, SameTree DEF Called
    <2>3. CheckedInv'
        BY <2>1, SameTree DEF SInv, CheckedInv, Accept
    <2>4. \A k : At(k)' <=> At(k)
        BY <2>1, <2>2, SameTree DEF At
    <2>5. CalledInv'
        BY <2>1, <2>2, <2>4, SameTree DEF SInv, CalledInv, Accept
    <2> QED
        BY <2>1, <2>3, <2>5, QuietSteps
<1> QED
    BY <1>1, <1>2

(* The passes of readconfig together: from libconf_parse to the callbacks, *)
(* for every set of files.                                                 *)
THEOREM SettingsInvariance == Spec => []SInv
<1>1. Init /\ TreeOK => SInv
    BY DEF Init, ConfigInit, SInv, CheckedInv, PointersInv, CalledInv, SettingsLand,
           Accept
<1>2. SInv /\ [Next]_vars => SInv'
    BY ParseSteps, TokenSteps, ValueSteps, CountSteps, CallbackSteps,
       ConfiguredSteps, MainSteps DEF Next, ReadConfig, Validate
<1> QED
    BY <1>1, <1>2, TreeStaysATree, PTL DEF Spec

(* Every setting lands in the object of the block it stands in, though the *)
(* callbacks of config.c write through the pointers of the last objects.   *)
THEOREM SettingsKept == Spec => []SettingsLand
<1>1. SInv => SettingsLand
    BY DEF SInv
<1> QED
    BY <1>1, SettingsInvariance, PTL

=============================================================================
