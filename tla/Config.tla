------------------------------- MODULE Config -------------------------------
(***************************************************************************)
(* The configuration file.  libconf_parse makes a tree of entries out of   *)
(* it, libconf_validate holds the tree against the tables of config.c in   *)
(* three passes, and a fourth calls the callbacks of the tables, which     *)
(* create adapters, streams, inputs, outputs and announcements (SAP) and   *)
(* store their settings.  A callback does not see the tree: it writes      *)
(* through the pointers adapter, stream, output and sap, which name the    *)
(* object that was created last.                                           *)
(*                                                                         *)
(* A file is a sequence of lexemes; blanks, comments and line numbers are  *)
(* left out, and words are in lower case (the code compares with           *)
(* strcasecmp).  An entry is represented by its number in the order of     *)
(* their creation, 0 is the NULL pointer, and an object by the entry whose *)
(* callback created it.                                                    *)
(*                                                                         *)
(* The phase is "crashed" from where the code writes or reads outside of   *)
(* an object, or through a NULL pointer: nothing is said of what a process *)
(* does that survives this.                                                *)
(***************************************************************************)
EXTENDS Integers, Sequences, FiniteSets

CONSTANTS
    Files,  \* the configuration files
    Quoted, \* the lexemes that are strings in quotes
    Broken, \* the lexemes that are a quote without end
    Long,   \* the lexemes that do not fit into tb, which has 256 bytes
    strtol, \* words to the number they begin with, and whether it is all
    family  \* getaddrinfo: words to the IP version of the address they name

ASSUME ConfigAssumption ==
    /\ \A f \in Files : f \in Seq(STRING)
    /\ "" \notin UNION {{f[k] : k \in 1 .. Len(f)} : f \in Files}
    /\ {"{", "}", ";"} \cap (Quoted \cup Broken \cup Long) = {}

VARIABLES
    text,    \* the file
    pos,     \* off: the next lexeme
    entries, \* the lc_centry structures
    cce,     \* the current entry
    phase,   \* how far readconfig is
    todo,    \* the entries libconf_validate_callback has yet to call
    cur,     \* the pointers adapter, stream, output and sap
    wrote    \* the object each called entry has written to

parsed == <<text, pos, entries, cce>>
called == <<todo, cur, wrote>>
configVars == <<parsed, phase, called>>

-----------------------------------------------------------------------------
(* libconf_parse.                                                          *)

Entry(parent) ==
    [token |-> "", value |-> "", closed |-> FALSE, parent |-> parent,
     next |-> 0, child |-> 0, at |-> 0]

New == Len(entries) + 1

Word(l) == l \notin {"{", "}", ";"} \cup Quoted \cup Broken

(* gettoken goes on to the next lexeme. *)
Lexeme ==
    /\ phase = "parsing"
    /\ pos <= Len(text)
    /\ pos' = pos + 1
    /\ UNCHANGED <<text, called>>

(* It copies words and strings to tb without a bound. *)
TokenOverrun ==
    /\ Lexeme /\ text[pos] \in Long
    /\ phase' = "crashed"
    /\ UNCHANGED <<entries, cce>>

(* gettoken returns the next lexeme. *)
GetToken == Lexeme /\ text[pos] \notin Long

Fail == phase' = "rejected" /\ UNCHANGED <<entries, cce>>

(* TOKEN_OBRACKET: a second block of an entry replaces the first. *)
OpenBracket ==
    /\ GetToken /\ text[pos] = "{"
    /\ entries' = Append([entries EXCEPT ![cce].child = New], Entry(cce))
    /\ cce' = New
    /\ UNCHANGED phase

(* The removal of an empty block. *)
Without(parent) == [entries EXCEPT ![parent].child = 0]

(* TOKEN_CBRACKET *)
CloseBracket ==
    LET c == entries[cce]
    IN  /\ GetToken /\ text[pos] = "}"
        /\ \/ /\ c.parent = 0 \/ (c.token # "" /\ ~c.closed)
              /\ Fail
           \/ /\ c.parent # 0
              /\ cce' = c.parent
              /\ \/ c.token = "" /\ entries' = Without(c.parent)
                 \/ c.token # "" /\ c.closed /\ UNCHANGED entries
              /\ UNCHANGED phase

(* TOKEN_COLON *)
Colon ==
    /\ GetToken /\ text[pos] = ";"
    /\ entries' = [entries EXCEPT ![cce].closed = TRUE]
    /\ UNCHANGED <<cce, phase>>

\* Mutant: the new entry is made a child of the last one.
MutFollowing == Append([entries EXCEPT ![cce].next = New], Entry(cce))

(* The entries with a new one behind the current one. *)
Following ==
    Append([entries EXCEPT ![cce].next = New], Entry(entries[cce].parent))

(* The entries es with word l as the token or else the value of entry e. *)
Stored(es, e, l) ==
    IF es[e].token = "" THEN [es EXCEPT ![e].token = l, ![e].at = pos]
    ELSE [es EXCEPT ![e].value = l]

(* TOKEN_STRING: token or value of the current entry, or the token of a    *)
(* new one if that is closed.                                              *)
String ==
    LET c == entries[cce]
    IN  /\ GetToken /\ Word(text[pos])
        /\ \/ /\ c.closed
              /\ entries' = Stored(Following, New, text[pos])
              /\ cce' = New
              /\ UNCHANGED phase
           \/ /\ ~c.closed /\ c.value = ""
              /\ entries' = Stored(entries, cce, text[pos])
              /\ UNCHANGED <<cce, phase>>
           \/ /\ ~c.closed /\ c.value # ""
              /\ Fail

(* TOKEN_QSTRING: only ever the value of the current entry. *)
QString ==
    LET c == entries[cce]
    IN  /\ GetToken /\ text[pos] \in Quoted
        /\ \/ /\ c.token # "" /\ c.value = ""
              /\ entries' = Stored(entries, cce, text[pos])
              /\ UNCHANGED <<cce, phase>>
           \/ /\ c.token = "" \/ c.value # ""
              /\ Fail

(* TOKEN_QSTRING_EOL and the other errors. *)
BrokenString == GetToken /\ text[pos] \in Broken /\ Fail

(* TOKEN_EOF, also in the place of a word that touches the end of the      *)
(* file.  Blocks may still be open.                                        *)
Eof ==
    /\ phase = "parsing"
    /\ \/ pos = Len(text) + 1
       \/ pos = Len(text) /\ Word(text[pos]) /\ text[pos] \notin Long
    /\ phase' = "tokens"
    /\ UNCHANGED <<parsed, called>>

Parse ==
    OpenBracket \/ CloseBracket \/ Colon \/ String \/ QString \/ BrokenString
    \/ TokenOverrun \/ Eof

-----------------------------------------------------------------------------
(* The tables of config.c.  An option has a minimal and a maximal number   *)
(* of times it is given in a block (0: any), the type of its value and     *)
(* perhaps the table of its block.                                         *)

Opt(names, min, max, type, child) ==
    {[name |-> n, min |-> min, max |-> max, type |-> type, child |-> child] :
        n \in names}

Once(names, type) == Opt(names, 0, 1, type, "")

Needed(names, type) == Opt(names, 1, 1, type, "")

conf_sap ==
    Once({"scope", "announce-host", "playgroup", "uri", "description"}, "string")
    \cup Once({"sap-group"}, "ipv4addr")
    \cup Once({"sap-port", "announce-port", "ttl", "interval"}, "num")
    \cup Opt({"email", "phone", "attribute"}, 0, 0, "string", "")

conf_output_socket(address) ==
    Once({"local-address"}, "ipv4addr")
    \cup Needed({"remote-address"}, address)
    \cup Needed({"remote-port"}, "num")
    \cup Once({"ttl"}, "num")
    \cup Opt({"sap"}, 0, 1, "none", "conf_sap")

conf_input ==
    Opt({"pid"}, 0, 0, "num", "") \cup Once({"pnr"}, "num")
    \cup Once({"full"}, "none")

conf_stream ==
    Needed({"name"}, "string")
    \cup Opt({"sap"}, 0, 1, "none", "conf_sap")
    \cup Opt({"input"}, 0, 1, "none", "conf_input")
    \cup Opt({"output-udp"}, 0, 0, "none", "conf_output_udp")
    \cup Opt({"output-rtp"}, 0, 0, "none", "conf_output_rtp")
    \cup Opt({"output-http"}, 0, 0, "none", "conf_output_http")
    \cup Opt({"output-pipe"}, 0, 0, "none", "conf_output_pipe")

conf_dvbs ==
    Once({"lnb-sharing"}, "bool")
    \cup Opt({"lnb"}, 1, 1, "none", "conf_dvbs_lnb")
    \cup Opt({"transponder"}, 1, 1, "none", "conf_dvbs_transponder")

conf_dvbt ==
    Needed({"frequency"}, "num")
    \cup Once({"bandwidth", "transmission-mode", "modulation",
               "guard-interval", "hierarchy"}, "string")

conf_adapter ==
    Once({"budget-mode"}, "bool")
    \cup Once({"packet-buffer", "dvr-buffer", "stat-interval",
               "stuck-interval"}, "num")
    \cup Opt({"stream"}, 0, 0, "none", "conf_stream")
    \cup Opt({"dvb-s", "dvb-s2"}, 0, 1, "none", "conf_dvbs")
    \cup Opt({"dvb-t"}, 0, 1, "none", "conf_dvbt")
    \cup Opt({"dvb-c"}, 0, 1, "none", "conf_dvbc")

conf_main ==
    Opt({"adapter"}, 1, 0, "num", "conf_adapter")
    \cup Opt({"http"}, 1, 1, "none", "conf_http")

conf_http == Needed({"port"}, "num")

conf_dvbs_lnb == Needed({"lof1"}, "num") \cup Once({"lof2", "slof"}, "num")

conf_dvbs_transponder ==
    Needed({"frequency", "symbol-rate"}, "num")
    \cup Needed({"polarisation"}, "string") \cup Once({"diseqc"}, "num")

conf_dvbc ==
    Needed({"frequency", "symbol-rate"}, "num")
    \cup Once({"modulation", "fec"}, "num")

conf_output_http == Needed({"url"}, "string")

conf_output_pipe == Needed({"filename"}, "string")

conf ==
    [conf_main |-> conf_main, conf_http |-> conf_http,
     conf_adapter |-> conf_adapter, conf_dvbs |-> conf_dvbs,
     conf_dvbs_lnb |-> conf_dvbs_lnb,
     conf_dvbs_transponder |-> conf_dvbs_transponder,
     conf_dvbt |-> conf_dvbt, conf_dvbc |-> conf_dvbc,
     conf_stream |-> conf_stream, conf_input |-> conf_input,
     conf_output_udp |-> conf_output_socket("ipaddr"),
     conf_output_rtp |-> conf_output_socket("ipv4addr"),
     conf_output_http |-> conf_output_http,
     conf_output_pipe |-> conf_output_pipe, conf_sap |-> conf_sap]

(* The options with LCO_UNIQ. *)
Uniq == {"adapter", "pid", "pnr", "full"}

-----------------------------------------------------------------------------
(* libconf_validate.                                                       *)

(* The entries the tree has, in the order of the recursions. *)
Preorder ==
    LET f[i \in 0 .. Len(entries)] ==
            IF i = 0 THEN <<>>
            ELSE <<i>> \o f[entries[i].child] \o f[entries[i].next]
    IN  f[1]

Tree == {Preorder[k] : k \in 1 .. Len(Preorder)}

Names(table) == {o.name : o \in conf[table]}

(* libconf_find_token *)
Find(table, token) == CHOOSE o \in conf[table] : o.name = token

(* The table libconf_find_token searches for an entry, "" if none. *)
Table ==
    LET f[i \in 1 .. Len(entries)] ==
            LET p == entries[i].parent
            IN  IF p = 0 THEN "conf_main"
                ELSE IF f[p] # "" /\ entries[p].token \in Names(f[p])
                     THEN Find(f[p], entries[p].token).child
                     ELSE ""
    IN  f

Option(i) == Find(Table[i], entries[i].token)

(* Entry i stops libconf_validate_token: its token is NULL, unknown or has *)
(* a block it must not have.                                               *)
BadToken(i) ==
    \/ entries[i].token \notin Names(Table[i])
    \/ entries[i].child # 0 /\ Option(i).child = ""

First(s) == CHOOSE k \in s : \A m \in s : k <= m

(* libconf_validate_token; strcasecmp reads a NULL token. *)
ValidateToken ==
    /\ phase = "tokens"
    /\ LET bad == {k \in 1 .. Len(Preorder) :
                     Table[Preorder[k]] # "" /\ BadToken(Preorder[k])}
       IN  phase' = IF bad = {} THEN "values"
                    ELSE IF entries[Preorder[First(bad)]].token = "" THEN "crashed"
                    ELSE "rejected"
    /\ UNCHANGED <<parsed, called>>

Number(w) == IF w \in DOMAIN strtol THEN strtol[w].num ELSE 0

IsNumber(w) == w \in DOMAIN strtol /\ strtol[w].whole

True == {"true", "yes", "on", "1"}

False == {"false", "no", "off", "0"}

\* Mutant: an option may lack its value.
MutValueOK(i) == TRUE

(* libconf_validate_value *)
ValueOK(i) ==
    LET v == entries[i].value
        t == Option(i).type
    IN  IF v = "" THEN t = "none"
        ELSE CASE t = "none"     -> FALSE
               [] t = "string"   -> TRUE
               [] t = "bool"     -> v \in True \cup False
               [] t = "num"      -> IsNumber(v)
               [] t = "ipaddr"   -> v \in DOMAIN family
               [] t = "ipv4addr" -> v \in DOMAIN family /\ family[v] = 4

ValidateValues ==
    /\ phase = "values"
    /\ phase' = IF \A i \in Tree : ValueOK(i) THEN "counts" ELSE "rejected"
    /\ UNCHANGED <<parsed, called>>

(* The entries of the list that starts at entry first. *)
List(first) == {i \in Tree : entries[i].parent = entries[first].parent}

(* The entries that start a list: the options of a block that is empty or  *)
(* missing are not counted.                                                *)
Lists == ({1} \cup {entries[i].child : i \in Tree}) \ {0}

\* Mutant: the minimum is not checked.
MutCountOK(first, o) ==
    o.max # 0 => Cardinality({i \in List(first) : entries[i].token = o.name}) <= o.max

(* libconf_validate_valueopt for one option: how often it is given, and    *)
(* that its values differ as strings.                                      *)
CountOK(first, o) ==
    LET same == {i \in List(first) : entries[i].token = o.name}
    IN  /\ Cardinality(same) >= o.min
        /\ o.max # 0 => Cardinality(same) <= o.max
        /\ o.name \in Uniq =>
             \A i, j \in same :
                 entries[i].value # "" /\ entries[i].value = entries[j].value
                     => i = j

ValidateValueopt ==
    /\ phase = "counts"
    /\ phase' = IF \A l \in Lists : \A o \in conf[Table[l]] : CountOK(l, o)
                THEN "calling" ELSE "rejected"
    /\ todo' = Preorder
    /\ UNCHANGED <<parsed, cur, wrote>>

-----------------------------------------------------------------------------
(* The callbacks.                                                          *)

(* The entries with a callback. *)
HasCallback(i) ==
    entries[i].token \notin {"http", "input", "lnb", "transponder"}

(* The pointer the callbacks of a table write through. *)
PointerOf(table) ==
    CASE table \in {"conf_main", "conf_http"} -> "config"
      [] table \in {"conf_adapter", "conf_dvbs", "conf_dvbs_lnb",
                    "conf_dvbs_transponder", "conf_dvbt", "conf_dvbc"} -> "adapter"
      [] table \in {"conf_stream", "conf_input"} -> "stream"
      [] table = "conf_sap" -> "sap"
      [] OTHER -> "output"

Pointer(i) == IF entries[i].token = "sap" THEN "output" ELSE PointerOf(Table[i])

Outputs == {"output-udp", "output-rtp", "output-http", "output-pipe"}

\* Mutant: cf_output_start stores its object only for outputs to sockets.
MutCreated(token) ==
    CASE token \in {"output-udp", "output-rtp"} -> {"output"}
      [] token \in {"adapter", "stream", "sap"} -> {token}
      [] OTHER -> {}

(* The pointer that is set to a new object (those of inputs are not used   *)
(* by other callbacks).                                                    *)
Created(token) ==
    CASE token \in Outputs -> {"output"}
      [] token \in {"adapter", "stream", "sap"} -> {token}
      [] OTHER -> {}

(* The words and numbers that callbacks accept as values. *)
Choice(token) ==
    CASE token = "scope" -> {"global", "org", "local", "link"}
      [] token = "polarisation" -> {"h", "v"}
      [] token = "hierarchy" -> {"none", "auto"}
      [] OTHER -> {"auto"}

NumberChoice(token) ==
    CASE token = "hierarchy" -> {1, 2, 4}
      [] token = "bandwidth" -> {6, 7, 8}
      [] token = "modulation" -> {16, 32, 64, 128, 256}
      [] token = "transmission-mode" -> {2, 8}
      [] token = "guard-interval" -> {4, 8, 16, 32}
      [] OTHER -> {}

(* In the table of DVB-C modulation is any number. *)
Chosen(i) ==
    /\ entries[i].token \in {"scope", "polarisation", "hierarchy", "bandwidth",
                             "modulation", "transmission-mode", "guard-interval"}
    /\ Option(i).type = "string"

Accepted(i) ==
    LET v == entries[i].value
    IN  Chosen(i) => \/ v \in Choice(entries[i].token)
                     \/ Number(v) \in NumberChoice(entries[i].token)

(* A NULL pointer is written through, or a NULL value compared. *)
NullUsed(i) ==
    \/ cur[Pointer(i)] = 0
    \/ Chosen(i) /\ entries[i].value = ""

(* Function f with y at x. *)
With(f, x, y) == [z \in DOMAIN f \cup {x} |-> IF z = x THEN y ELSE f[z]]

(* libconf_validate_callback comes to the next entry. *)
Callback ==
    /\ phase = "calling" /\ todo # <<>>
    /\ LET i == Head(todo)
       IN  IF HasCallback(i) /\ NullUsed(i)
           THEN phase' = "crashed" /\ UNCHANGED <<cur, wrote>>
           ELSE IF HasCallback(i) /\ ~Accepted(i)
           THEN phase' = "rejected" /\ UNCHANGED <<cur, wrote>>
           ELSE /\ wrote' = IF HasCallback(i) THEN With(wrote, i, cur[Pointer(i)])
                            ELSE wrote
                /\ cur' = [p \in DOMAIN cur |->
                              IF p \in Created(entries[i].token) THEN i ELSE cur[p]]
                /\ UNCHANGED phase
    /\ todo' = Tail(todo)
    /\ UNCHANGED parsed

(* readconfig returns the configuration. *)
Configured ==
    /\ phase = "calling" /\ todo = <<>>
    /\ phase' = "configured"
    /\ UNCHANGED <<parsed, called>>

Validate == ValidateToken \/ ValidateValues \/ ValidateValueopt \/ Callback \/ Configured

(* The object of config_s, the base of the others. *)
Base == -1

(* What a token or a value may be. *)
Text == {""} \cup UNION {{f[k] : k \in 1 .. Len(f)} : f \in Files}

ConfigInit ==
    /\ text \in Files
    /\ pos = 1
    /\ entries = <<Entry(0)>>
    /\ cce = 1
    /\ phase = "parsing"
    /\ todo = <<>>
    /\ cur = [config |-> Base, adapter |-> 0, stream |-> 0, output |-> 0, sap |-> 0]
    /\ wrote = <<>>

ReadConfig == Parse \/ Validate

-----------------------------------------------------------------------------
(* lc_centry *)
CEntry ==
    [token : Text, value : Text, closed : BOOLEAN, parent : Nat, next : Nat,
     child : Nat, at : Nat]

(* Entries are linked to later ones, which know their parent. *)
Linked(es) ==
    \A i \in 1 .. Len(es) :
        /\ es[i].parent < i
        /\ es[i].child # 0 => /\ es[i].child \in i + 1 .. Len(es)
                              /\ es[es[i].child].parent = i
        /\ es[i].next # 0 => /\ es[i].next \in i + 1 .. Len(es)
                             /\ es[es[i].next].parent = es[i].parent

(* Types, and the shape of the tree: child and next go to entries that     *)
(* were made later, so that the passes of libconf_validate, which follow   *)
(* them recursively, end; and the parent pointers, by which libconf_parse  *)
(* finds its way back, agree with them.                                    *)
TreeOK ==
    /\ text \in Seq(Text)
    /\ pos \in Nat \ {0}
    /\ cce \in 1 .. Len(entries)
    /\ entries \in Seq(CEntry)
    /\ Linked(entries)
=============================================================================
