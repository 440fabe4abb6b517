----------------------------- MODULE MainProofs -----------------------------
(***************************************************************************)
(* Proofs about Startup: what main makes of the settings.  An output has   *)
(* its mandatory settings once, the ways in which a file can crash the     *)
(* process are those known, and announcements are true.  They rest on      *)
(* SettingsInvariance: by it the settings of an object are those of its    *)
(* block.  Cards are tuned to what their LNB delivers, for all frequencies *)
(* and whatever the settings are.                                          *)
(***************************************************************************)
EXTENDS SettingsProofs

-----------------------------------------------------------------------------
(* Sets of entries.                                                        *)

(* The last of some entries is one of them. *)
LEMMA LastIs ==
    ASSUME TreeOK, NEW T \in SUBSET Entries, T # {}
    PROVE  Last(T) \in T /\ \A j \in T : j <= Last(T)
<1>1. Len(entries) \in Nat /\ T \in SUBSET (1 .. Len(entries))
    BY DEF TreeOK, Entries
<1> QED
    BY <1>1, Greatest

(* Sets of entries are finite. *)
LEMMA EntriesFinite ==
    ASSUME TreeOK, NEW T \in SUBSET Entries
    PROVE  IsFiniteSet(T) /\ Cardinality(T) \in Nat
<1>1. IsFiniteSet(Entries)
    <2>1. Len(entries) \in Nat
        BY DEF TreeOK
    <2> QED
        BY <2>1, FS_Interval DEF Entries
<1> QED
    BY <1>1, FS_Subset, FS_CardinalityType

-----------------------------------------------------------------------------
(* The settings of an object are those of its block.                       *)

(* The callbacks have been called. *)
SettingsRead ==
    /\ TreeOK /\ TokensOK /\ ValuesOK /\ CountsOK /\ SettingsLand
    /\ DOMAIN wrote = Called(Len(Preorder))

(* What the passes of readconfig leave. *)
LEMMA AcceptedRead ==
    ASSUME SInv, phase \in Accept
    PROVE  SettingsRead
BY DEF SInv, CheckedInv, CalledInv, SettingsRead

(* The entries that were written are those of the tree with a callback. *)
LEMMA WrittenIs ==
    ASSUME SettingsRead
    PROVE  DOMAIN wrote = {x \in Tree : HasCallback(x)}
BY DEF SettingsRead, Called, Tree

(* A setting of an output, of an announcement, or of the table of streams  *)
(* stands directly in the block of its object.                             *)
LEMMA Inside ==
    ASSUME TreeOK, TokensOK, NEW i \in Tree, Enclosing[i] # Base,
           \/ Kind(Enclosing[i]) \in {{"output"}, {"sap"}}
           \/ Table[i] = "conf_stream"
    PROVE  entries[i].parent # 0 /\ entries[i].parent = Enclosing[i]
<1> DEFINE p == entries[i].parent
<1>1. /\ Held(i) /\ i \in Entries /\ i # 0
      /\ Enclosing[i] = EnclosingOf(Enclosing, i)
    BY AllHeld, InTree, EnclosingIs, ParentIs
<1>2. p # 0 /\ Kind(Enclosing[i]) = {PointerOf(Table[i])}
    BY <1>1 DEF Held
<1>3. Known(p) /\ Table[i] = Option(p).child /\ Table[i] \in Tables
    BY <1>2, InTree, AllKnown, ParentTable
<1>4. Fits(Table[p], entries[p].token, Table[i]) /\ Table[i] # ""
    BY <1>3, TablesAre DEF Known
<1>5. Kind(p) # {}
    <2>1. CASE Kind(Enclosing[i]) \in {{"output"}, {"sap"}}
        BY <1>2, <1>4, <2>1 DEF Fits, Kind
    <2>2. CASE Table[i] = "conf_stream"
        BY <1>4, <2>2, CreatedIs DEF Fits, Kind
    <2> QED
        BY <2>1, <2>2
<1> QED
    BY <1>1, <1>2, <1>5 DEF EnclosingOf, Kind

(* The settings of an object in the tree are those of its block. *)
LEMMA WritersAre ==
    ASSUME SettingsRead, NEW x \in Tree,
           NEW n, n \notin {"http", "input", "lnb", "transponder", "sap"},
           \/ Kind(x) \in {{"output"}, {"sap"}}
           \/ Kind(x) = {"stream"} /\ n = "name"
    PROVE  Writers(x, n) = {i \in Tree : entries[i].parent = x /\ entries[i].token = n}
<1>0. /\ TreeOK /\ TokensOK /\ SettingsLand
      /\ x \in Entries /\ x \in Nat \ {0} /\ x # Base
    BY InTree, ParentIs DEF SettingsRead, Base
<1>1. ASSUME NEW i \in Tree, entries[i].token = n
      PROVE  i \in DOMAIN wrote /\ wrote[i] = Enclosing[i]
    <2>1. HasCallback(i) /\ ~InStream(i)
        BY <1>1 DEF HasCallback, InStream
    <2> QED
        BY <1>0, <2>1, WrittenIs DEF SettingsLand
<1>2. ASSUME NEW i \in Tree, entries[i].token = n, entries[i].parent = x
      PROVE  Enclosing[i] = x
    <2>1. i \in Entries /\ i # 0 /\ Enclosing[i] = EnclosingOf(Enclosing, i)
        BY <1>0, InTree, EnclosingIs, ParentIs
    <2> QED
        BY <1>0, <1>2, <2>1 DEF EnclosingOf, Kind
<1>3. ASSUME NEW i \in Tree, entries[i].token = n, Enclosing[i] = x
      PROVE  entries[i].parent = x
    <2>1. n = "name" => Table[i] = "conf_stream"
        BY <1>0, <1>3, AllKnown DEF Known, Fits
    <2> QED
        BY <1>0, <1>3, <2>1, Inside
<1>4. ASSUME NEW i \in DOMAIN wrote PROVE i \in Tree
    BY <1>4, WrittenIs
<1> QED
    BY <1>1, <1>2, <1>3, <1>4 DEF Writers

-----------------------------------------------------------------------------
(* Outputs.                                                                *)

(* The fields of mandatory options. *)
LEMMA NeededIs ==
    ASSUME NEW names, NEW type, NEW p \in Needed(names, type)
    PROVE  p.name \in names /\ p.min = 1 /\ p.max = 1 /\ p.type = type
<1>1. PICK child : p \in Opt(names, 1, 1, type, child)
    BY Zenon DEF Needed
<1> QED
    BY <1>1, OptIs

(* The fields of options that may be given once. *)
LEMMA OnceIs ==
    ASSUME NEW names, NEW type, NEW p \in Once(names, type)
    PROVE  p.name \in names /\ p.type = type
<1>1. PICK child : p \in Opt(names, 0, 1, type, child)
    BY Zenon DEF Once
<1> QED
    BY <1>1, OptIs

(* Mandatory options of outputs are given once, and have a callback. *)
LEMMA NeededOnce ==
    ASSUME NEW t \in OutputTables, NEW p \in conf[t], p.min = 1
    PROVE  p.max = 1 /\ p.name \notin {"http", "input", "lnb", "transponder", "sap"}
<1>1. /\ conf["conf_output_udp"] = conf_output_socket("ipaddr")
      /\ conf["conf_output_rtp"] = conf_output_socket("ipv4addr")
      /\ conf["conf_output_http"] = conf_output_http
      /\ conf["conf_output_pipe"] = conf_output_pipe
    BY DEF conf
<1>2. ASSUME NEW names, NEW type,
             \A n \in names : n \notin {"http", "input", "lnb", "transponder", "sap"},
             p \in Needed(names, type)
      PROVE  p.max = 1 /\ p.name \notin {"http", "input", "lnb", "transponder", "sap"}
    BY <1>2, NeededIs
<1>3. ASSUME NEW names, NEW max, NEW type, NEW child, p \in Opt(names, 0, max, type, child)
      PROVE  FALSE
    BY <1>3, OptIs
<1>4. CASE \E address : p \in conf_output_socket(address)
    <2>1. PICK address : p \in conf_output_socket(address)
        BY <1>4
    <2>2. \/ p \in Needed({"remote-address"}, address)
          \/ p \in Needed({"remote-port"}, "num")
        BY <2>1, <1>3, Zenon DEF conf_output_socket, Once
    <2>3. \A n \in {"remote-address"} \cup {"remote-port"} :
              n \notin {"http", "input", "lnb", "transponder", "sap"}
        OBVIOUS
    <2> QED
        BY <1>2, <2>2, <2>3
<1>5. CASE p \in conf_output_http \cup conf_output_pipe
    <2>1. \/ p \in Needed({"url"}, "string")
          \/ p \in Needed({"filename"}, "string")
        BY <1>5 DEF conf_output_http, conf_output_pipe
    <2>2. \A n \in {"url"} \cup {"filename"} :
              n \notin {"http", "input", "lnb", "transponder", "sap"}
        OBVIOUS
    <2> QED
        BY <1>2, <2>1, <2>2
<1> QED
    BY <1>1, <1>4, <1>5 DEF OutputTables

(* An output with a block is of one of their tables, and holds the entries *)
(* of the block.                                                           *)
LEMMA OutputBlock ==
    ASSUME TreeOK, TokensOK, NEW o \in Tree,
           entries[o].token \in Outputs, entries[o].child # 0
    PROVE  /\ Option(o).child \in OutputTables
           /\ Kind(o) = {"output"}
           /\ entries[o].child \in Lists
           /\ Table[entries[o].child] = Option(o).child
           /\ entries[entries[o].child].parent = o
<1> DEFINE l == entries[o].child
<1>1. Known(o) /\ o \in Entries /\ o # 0
    BY AllKnown, InTree, ParentIs
<1>2. Option(o).child \in OutputTables
    BY <1>1 DEF Known, Fits
<1>3. Kind(o) = {"output"}
    BY CreatedIs DEF Kind
<1>4. l \in Lists
    BY DEF Lists
<1>5. l \in Entries /\ entries[l].parent = o
    <2>1. l \in o + 1 .. Len(entries) /\ entries[l].parent = o
        BY <1>1 DEF TreeOK, Linked, Entries
    <2> QED
        BY <1>1, <2>1, ParentIs DEF Entries, TreeOK
<1>6. Table[l] = Option(o).child
    BY <1>1, <1>5, BlockTable
<1> QED
    BY <1>2, <1>3, <1>4, <1>5, <1>6

(* Once the configuration is read, an output with a block has each of its  *)
(* mandatory settings once.                                                *)
LEMMA NeededWritten ==
    ASSUME SettingsRead, NEW o \in Tree,
           entries[o].token \in Outputs, entries[o].child # 0,
           NEW p \in conf[Option(o).child], p.min = 1
    PROVE  Cardinality(Writers(o, p.name)) = 1
<1> DEFINE l == entries[o].child
           same == {i \in List(l) : entries[i].token = p.name}
<1>1. TreeOK /\ TokensOK /\ CountsOK
    BY DEF SettingsRead
<1>2. /\ Option(o).child \in OutputTables /\ Kind(o) = {"output"}
      /\ l \in Lists /\ Table[l] = Option(o).child /\ entries[l].parent = o
    BY <1>1, OutputBlock
<1>3. p.max = 1 /\ p.name \notin {"http", "input", "lnb", "transponder", "sap"}
    BY <1>2, NeededOnce
<1>4. CountOK(l, p)
    BY <1>1, <1>2 DEF CountsOK
<1>5. Cardinality(same) >= 1 /\ Cardinality(same) <= 1
    <2>1. 1 # 0
        OBVIOUS
    <2> QED
        BY <1>3, <1>4, <2>1, Zenon DEF CountOK
<1>6. Writers(o, p.name) = same
    <2>1. Writers(o, p.name) = {i \in Tree : entries[i].parent = o /\ entries[i].token = p.name}
        BY <1>2, <1>3, WritersAre
    <2> QED
        BY <1>2, <2>1 DEF List
<1>7. Cardinality(same) \in Nat
    <2>1. same \in SUBSET Entries
        BY <1>1, InTree DEF List
    <2> HIDE DEF same
    <2> QED
        BY <1>1, <2>1, EntriesFinite
<1> HIDE DEF same
<1> QED
    BY <1>5, <1>6, <1>7

(* An output with a block got its mandatory settings, and each once: the   *)
(* four passes of readconfig and the pointers work together for that.      *)
THEOREM OutputsGetSettings == Spec => []OutputsAddressed
<1>1. SInv => OutputsAddressed
    BY AcceptedRead, NeededWritten DEF OutputsAddressed
<1> QED
    BY <1>1, SettingsInvariance, PTL

-----------------------------------------------------------------------------
(* Crashes.                                                                *)

(* A token stops libconf_validate_token by a crash only without a name. *)
LEMMA TokenCrash ==
    ASSUME TreeOK, ValidateToken, phase' = "crashed"
    PROVE  \E x \in Tree : entries[x].token = ""
<1> DEFINE bad == {k \in 1 .. Len(Preorder) :
                     Table[Preorder[k]] # "" /\ BadToken(Preorder[k])}
<1>1. bad # {} /\ entries[Preorder[First(bad)]].token = ""
    BY DEF ValidateToken
<1>2. PICK m \in bad : \A k \in bad : m <= k
    <2>1. bad \in SUBSET Nat
        <3>1. Len(Preorder) \in Nat
            BY PreorderIs
        <3>2. bad \subseteq 1 .. Len(Preorder)
            BY Zenon
        <3> HIDE DEF bad
        <3> QED
            BY <3>1, <3>2
    <2> HIDE DEF bad
    <2> QED
        BY <1>1, <2>1, Least
<1>3. First(bad) \in bad
    BY <1>2 DEF First
<1>4. Preorder[First(bad)] \in Tree
    BY <1>3 DEF Tree
<1> QED
    BY <1>1, <1>4

(* No callback crashes but that of a sap in a stream. *)
LEMMA CallbackCrash ==
    ASSUME SInv, Callback, phase' = "crashed"
    PROVE  \E x \in Tree : InStream(x)
<1> DEFINE i == Head(todo)
<1>1. /\ phase = "calling" /\ todo # <<>> /\ NullUsed(i)
      /\ TreeOK /\ PointersInv
    BY DEF Callback, SInv
<1>2. TokensOK /\ ValuesOK
    BY <1>1 DEF SInv, CheckedInv
<1>3. PICK k \in 0 .. Len(Preorder) : At(k)
    BY <1>1 DEF SInv, CalledInv
<1>4. /\ i \in Tree
      /\ entries[i].parent # 0 =>
            \A e \in Around(entries[i].parent) : \A p \in Kind(e) : cur[p] = e
    BY <1>1, <1>3, NextCalled
<1>5. InStream(i) \/ cur[Pointer(i)] = Enclosing[i]
    BY <1>1, <1>2, <1>4, PointerNames
<1>6. Enclosing[i] # 0
    <2>1. Held(i)
        BY <1>1, <1>2, <1>4, AllHeld
    <2>2. CASE Enclosing[i] = Base
        BY <2>2 DEF Base
    <2>3. CASE /\ entries[i].parent # 0
               /\ Enclosing[i] \in Around(entries[i].parent)
        <3>1. entries[i].parent \in Entries
            BY <1>1, <1>4, <2>3, InTree
        <3>2. Enclosing[i] \in Entries
            BY <1>1, <2>3, <3>1, AroundIs
        <3> QED
            BY <3>2 DEF Entries
    <2> QED
        BY <2>1, <2>2, <2>3 DEF Held
<1>7. ~(Chosen(i) /\ entries[i].value = "")
    <2>1. ValueOK(i)
        BY <1>2, <1>4 DEF ValuesOK
    <2>2. "string" # "none"
        OBVIOUS
    <2> QED
        BY <2>1, <2>2, Zenon DEF ValueOK, Chosen
<1> QED
    BY <1>1, <1>4, <1>5, <1>6, <1>7 DEF NullUsed

(* The address is mandatory for outputs to sockets, and no option without  *)
(* a value.                                                                *)
LEMMA AddressOption ==
    ASSUME NEW address
    PROVE  /\ \E p \in conf_output_socket(address) :
                 p.name = "remote-address" /\ p.min = 1
           /\ \A p \in conf_output_socket(address) :
                 p.name = "remote-address" => p.type = address
<1>1. \A p \in Needed({"remote-address"}, address) :
          p.name = "remote-address" /\ p.min = 1 /\ p.type = address
    BY NeededIs
<1>2. Needed({"remote-address"}, address) # {}
    <2>1. ASSUME NEW child PROVE Opt({"remote-address"}, 1, 1, address, child) # {}
        BY DEF Opt
    <2> QED
        BY <2>1, Zenon DEF Needed
<1>3. Needed({"remote-address"}, address) \subseteq conf_output_socket(address)
    BY DEF conf_output_socket
<1>4. ASSUME NEW p \in conf_output_socket(address),
             p \notin Needed({"remote-address"}, address)
      PROVE  p.name \in {"local-address", "remote-port", "ttl", "sap"}
    <2>1. \/ p \in Once({"local-address"}, "ipv4addr")
          \/ p \in Needed({"remote-port"}, "num")
          \/ p \in Once({"ttl"}, "num")
          \/ p \in Opt({"sap"}, 0, 1, "none", "conf_sap")
        BY <1>4, Zenon DEF conf_output_socket
    <2> QED
        BY <2>1, NeededIs, OnceIs, OptIs
<1> QED
    BY <1>1, <1>2, <1>3, <1>4

(* An output to a socket has an address if it has a block. *)
LEMMA AddressGiven ==
    ASSUME SettingsRead, NEW o \in Tree,
           entries[o].token \in ToSocket, entries[o].child # 0
    PROVE  Setting(o, "remote-address") # ""
<1> DEFINE n == "remote-address"
           t == Option(o).child
           w == Last(Writers(o, n))
<1>1. TreeOK /\ TokensOK /\ ValuesOK /\ o # 0
    BY InTree, ParentIs DEF SettingsRead
<1>2. entries[o].token \in Outputs
    BY DEF Outputs, ToSocket
<1>3. Kind(o) = {"output"} /\ Known(o)
    BY <1>1, <1>2, OutputBlock, AllKnown
<1>4. t \in {"conf_output_udp", "conf_output_rtp"}
    BY <1>3 DEF Known, Fits
<1>5. PICK address \in {"ipaddr", "ipv4addr"} : conf[t] = conf_output_socket(address)
    BY <1>4 DEF conf
<1>6. PICK p \in conf[t] : p.name = n /\ p.min = 1
    BY <1>5, AddressOption
<1>7. Cardinality(Writers(o, n)) = 1
    BY <1>2, <1>6, NeededWritten
<1>8. Writers(o, n) = {i \in Tree : entries[i].parent = o /\ entries[i].token = n}
    BY <1>3, WritersAre
<1>9. w \in Tree /\ entries[w].parent = o /\ entries[w].token = n /\ Writers(o, n) # {}
    <2>1. Writers(o, n) # {}
        BY <1>7, FS_EmptySet
    <2>2. Writers(o, n) \in SUBSET Entries
        BY <1>1, <1>8, InTree
    <2>3. w \in Writers(o, n)
        BY <1>1, <2>1, <2>2, LastIs
    <2> QED
        BY <1>8, <2>1, <2>3
<1>10. Table[w] = t /\ Known(w)
    BY <1>1, <1>3, <1>9, ParentTable, AllKnown
<1>11. Option(w).type = address
    <2>1. Option(w) \in conf_output_socket(address) /\ Option(w).name = n
        BY <1>5, <1>9, <1>10 DEF Known
    <2> QED
        BY <2>1, AddressOption
<1>12. entries[w].value # ""
    <2>1. ValueOK(w)
        BY <1>1, <1>9 DEF ValuesOK
    <2>2. address # "none"
        OBVIOUS
    <2> QED
        BY <1>11, <2>1, <2>2, Zenon DEF ValueOK
<1> QED
    BY <1>9, <1>12 DEF Setting

-----------------------------------------------------------------------------
(* Announcements.                                                          *)

(* What a setting is depends on the tree and on what was written. *)
LEMMA SameSettings ==
    ASSUME UNCHANGED <<parsed, wrote>>
    PROVE  /\ \A o, n : Setting(o, n)' = Setting(o, n)
           /\ \A o, n : Num(o, n)' = Num(o, n)
           /\ \A o : OutputTtl(o)' = OutputTtl(o)
           /\ \A s : SapTtl(s)' = SapTtl(s)
           /\ \A o : Destination(o)' = Destination(o)
           /\ SettingsRead' <=> SettingsRead
<1>1. UNCHANGED <<entries, wrote>>
    BY DEF parsed
<1>2. \A o, n : Writers(o, n)' = Writers(o, n)
    BY <1>1 DEF Writers
<1>3. \A o, n : Setting(o, n)' = Setting(o, n)
    BY <1>1, <1>2 DEF Setting
<1>4. \A o, n : Num(o, n)' = Num(o, n)
    BY <1>3 DEF Num
<1>5. \A o : OutputTtl(o)' = OutputTtl(o)
    BY <1>2, <1>4 DEF OutputTtl
<1>6. \A s : SapTtl(s)' = SapTtl(s)
    BY <1>1, <1>2, <1>4, <1>5 DEF SapTtl
<1>7. \A o : Destination(o)' = Destination(o)
    BY <1>1, <1>3, <1>4, <1>5 DEF Destination, Address
<1>8. SettingsRead' <=> SettingsRead
    BY <1>1, SameTree DEF SettingsRead, TreeOK, parsed, SettingsLand, Called
<1> QED
    BY <1>3, <1>4, <1>5, <1>6, <1>7, <1>8

(* Announcement m is of a sap that was written to an output to a socket,   *)
(* and says the settings.                                                  *)
Says(m) ==
    LET o == wrote[m.sap]
    IN  /\ m.sap \in Writers(o, "sap") /\ o \in Tree /\ entries[o].token \in ToSocket
        /\ m.name = Setting(wrote[o], "name")
        /\ m.media = <<Setting(o, "remote-address"), Num(o, "remote-port"), OutputTtl(o)>>
        /\ m.ttl = SocketTtl(SapTtl(m.sap))

SessionInv ==
    /\ sid \in Nat
    /\ phase = "starting" => starting \subseteq Tree
    /\ phase \in {"parsing", "tokens", "values", "counts", "calling", "configured"} =>
           session = {} /\ sends = <<>>
    /\ heard # {} => phase \in {"running", "crashed"}
    /\ session # {} => SettingsRead
    /\ heard \subseteq session
    /\ \A m \in session : m.sid \in Nat /\ m.sid < sid /\ Says(m)
    /\ \A m, n \in session : m.sid = n.sid => m = n
    /\ \A o \in DOMAIN sends : sends[o] = Destination(o)

(* The settings in the block of an object are those of the object. *)
LEMMA BlockSettings ==
    ASSUME SettingsRead, NEW x \in Tree,
           NEW n, n \notin {"http", "input", "lnb", "transponder", "sap"},
           \/ Kind(x) \in {{"output"}, {"sap"}}
           \/ Kind(x) = {"stream"} /\ n = "name"
    PROVE  Setting(x, n) = InBlock(x, n)
BY WritersAre DEF Setting, InBlock

(* A TTL is an option with a number, in the tables of outputs and of       *)
(* announcements.                                                          *)
LEMMA TtlOption ==
    ASSUME NEW p, p.name = "ttl",
           \/ \E address : p \in conf_output_socket(address)
           \/ p \in conf_sap
    PROVE  p.type = "num"
<1>1. ASSUME NEW address, p \in conf_output_socket(address) PROVE p.type = "num"
    <2>1. \/ p \in Once({"local-address"}, "ipv4addr")
          \/ p \in Needed({"remote-address"}, address)
          \/ p \in Needed({"remote-port"}, "num")
          \/ p \in Once({"ttl"}, "num")
          \/ p \in Opt({"sap"}, 0, 1, "none", "conf_sap")
        BY <1>1, Zenon DEF conf_output_socket
    <2> QED
        BY <2>1, NeededIs, OnceIs, OptIs
<1>2. CASE p \in conf_sap
    <2> DEFINE strings == {"scope", "announce-host", "playgroup", "uri", "description"}
               numbers == {"sap-port", "announce-port", "ttl", "interval"}
               more == {"email", "phone", "attribute"}
    <2>1. \/ p \in Once(strings, "string")
          \/ p \in Once({"sap-group"}, "ipv4addr")
          \/ p \in Once(numbers, "num")
          \/ \E child : p \in Opt(more, 0, 0, "string", child)
        BY <1>2, Zenon DEF conf_sap
    <2>2. "ttl" \notin strings \cup {"sap-group"} \cup more
        OBVIOUS
    <2> HIDE DEF strings, numbers, more
    <2> QED
        BY <2>1, <2>2, OnceIs, OptIs
<1> QED
    BY <1>1, <1>2

(* The TTL that was written to an output or an announcement has a value. *)
LEMMA TtlGiven ==
    ASSUME SettingsRead, NEW x \in Tree, entries[x].token \in ToSocket \cup {"sap"}
    PROVE  Writers(x, "ttl") # {} <=> Setting(x, "ttl") # ""
<1> DEFINE w == Last(Writers(x, "ttl"))
<1>0. TreeOK /\ TokensOK /\ ValuesOK /\ Known(x) /\ x # 0
    BY AllKnown, InTree, ParentIs DEF SettingsRead
<1>1. SUFFICES ASSUME Writers(x, "ttl") # {} PROVE entries[w].value # ""
    BY DEF Setting
<1>2. Kind(x) \in {{"output"}, {"sap"}}
    BY CreatedIs DEF Kind, ToSocket, Outputs
<1>3. Writers(x, "ttl") = {i \in Tree : entries[i].parent = x /\ entries[i].token = "ttl"}
    BY <1>2, WritersAre
<1>4. w \in Tree /\ entries[w].parent = x /\ entries[w].token = "ttl"
    <2>1. Writers(x, "ttl") \in SUBSET Entries
        BY <1>0, <1>3, InTree
    <2>2. w \in Writers(x, "ttl")
        BY <1>0, <1>1, <2>1, LastIs
    <2> QED
        BY <1>3, <2>2
<1>5. Known(w) /\ Table[w] = Option(x).child /\ Table[w] \in Tables
    BY <1>0, <1>4, AllKnown, ParentTable
<1>6. Table[w] \in {"conf_output_udp", "conf_output_rtp", "conf_sap"}
    <2>1. Fits(Table[x], entries[x].token, Table[w]) /\ Table[w] # ""
        BY <1>0, <1>5, TablesAre DEF Known
    <2>2. CASE entries[x].token \in ToSocket
        BY <2>1, <2>2 DEF Fits
    <2>3. CASE entries[x].token = "sap"
        <3>1. PointerOf(Table[w]) = "sap"
            BY <2>1, <2>3, CreatedIs DEF Fits
        <3> QED
            BY <1>5, <3>1, TablesAre, PointerOfIs
    <2> QED
        BY <2>2, <2>3
<1>7. \/ \E address : Option(w) \in conf_output_socket(address)
      \/ Option(w) \in conf_sap
    <2>1. /\ conf["conf_output_udp"] = conf_output_socket("ipaddr")
          /\ conf["conf_output_rtp"] = conf_output_socket("ipv4addr")
          /\ conf["conf_sap"] = conf_sap
        BY DEF conf
    <2> QED
        BY <1>5, <1>6, <2>1 DEF Known
<1>8. Option(w).type = "num"
    BY <1>4, <1>5, <1>7, TtlOption DEF Known
<1> QED
    <2>1. ValueOK(w) /\ "num" # "none"
        BY <1>0, <1>4 DEF ValuesOK
    <2> QED
        BY <1>8, <2>1, Zenon DEF ValueOK

(* An announcement of a sap in the block of an output is true. *)
Truly(m) ==
    LET o == entries[m.sap].parent
    IN  /\ m.name = InBlock(entries[o].parent, "name")
        /\ m.media[1] = InBlock(o, "remote-address")
        /\ /\ o \in DOMAIN sends
           /\ m.media \in Literal \X (0 .. UShort - 1) \X (1 .. 255)
           => m.media = sends[o]
        /\ m.ttl = SocketTtl(
               IF InBlock(m.sap, "ttl") # "" /\ Number(InBlock(m.sap, "ttl")) >= 0
               THEN Number(InBlock(m.sap, "ttl"))
               ELSE IF InBlock(o, "ttl") # "" THEN Number(InBlock(o, "ttl"))
               ELSE 15)

(* A number below the modulus is its own remainder. *)
LEMMA BelowModulus ==
    ASSUME NEW m \in Nat \ {0}, NEW n \in 0 .. m - 1
    PROVE  n % m = n
OBVIOUS

LEMMA UShortType == UShort \in Nat \ {0}
BY SMT DEF UShort

(* A port in range is used as it is. *)
LEMMA PortKept ==
    ASSUME NEW n \in 0 .. UShort - 1
    PROVE  Port(n) = n
BY UShortType, BelowModulus, SMT DEF Port

(* An announcement that says the settings is true. *)
LEMMA SaysTruly ==
    ASSUME SettingsRead, NEW m, Says(m), ~InStream(m.sap),
           \A x \in DOMAIN sends : sends[x] = Destination(x)
    PROVE  Truly(m)
<1> DEFINE s == m.sap
           o == wrote[s]
           st == wrote[o]
<1>1. /\ TreeOK /\ TokensOK /\ SettingsLand
      /\ s \in DOMAIN wrote /\ s \in Tree /\ entries[s].token = "sap"
      /\ o \in Tree /\ entries[o].token \in ToSocket
    BY WrittenIs DEF SettingsRead, Says, Writers
<1>2. /\ o \in Entries /\ o # Base /\ o # 0
      /\ Kind(o) = {"output"} /\ Kind(s) = {"sap"}
    BY <1>1, InTree, ParentIs, CreatedIs DEF Base, Kind, ToSocket, Outputs
<1>3. entries[s].parent = o
    <2>1. Enclosing[s] = o
        BY <1>1 DEF SettingsLand
    <2> QED
        BY <1>1, <1>2, <2>1, Inside
<1>4. /\ entries[o].parent = st /\ st \in Tree /\ Kind(st) = {"stream"}
    <2>1. o \in DOMAIN wrote /\ ~InStream(o)
        BY <1>1, WrittenIs DEF HasCallback, InStream, ToSocket
    <2>2. Enclosing[o] = st
        BY <1>1, <2>1 DEF SettingsLand
    <2>3. Table[o] = "conf_stream"
        BY <1>1, AllKnown DEF Known, Fits, ToSocket, Outputs
    <2>4. /\ entries[o].parent # 0 /\ st \in Around(entries[o].parent)
          /\ Kind(st) = {"stream"}
        BY <1>1, <2>2, <2>3, AllHeld, PointerOfIs DEF Held
    <2>5. st # Base
        <3>1. st \in Entries
            BY <1>1, <1>2, <2>4, ParentIs, AroundIs
        <3> QED
            BY <1>1, <3>1, ParentIs DEF Base
    <2>6. entries[o].parent = st
        BY <1>1, <2>2, <2>3, <2>5, Inside
    <2> QED
        BY <1>1, <2>4, <2>6, InTree
<1>5. Setting(st, "name") = InBlock(st, "name")
    BY <1>4, BlockSettings
<1>6. /\ Setting(o, "remote-address") = InBlock(o, "remote-address")
      /\ Setting(o, "ttl") = InBlock(o, "ttl")
      /\ Setting(s, "ttl") = InBlock(s, "ttl")
    BY <1>1, <1>2, BlockSettings
<1>7. OutputTtl(o) = IF InBlock(o, "ttl") # "" THEN Number(InBlock(o, "ttl")) ELSE 15
    <2>1. Writers(o, "ttl") # {} <=> Setting(o, "ttl") # ""
        BY <1>1, TtlGiven
    <2> QED
        BY <1>6, <2>1 DEF OutputTtl, Num
<1>8. SapTtl(s) = IF InBlock(s, "ttl") # "" /\ Number(InBlock(s, "ttl")) >= 0
                  THEN Number(InBlock(s, "ttl")) ELSE OutputTtl(o)
    <2>1. Writers(s, "ttl") # {} <=> Setting(s, "ttl") # ""
        BY <1>1, TtlGiven
    <2> QED
        BY <1>6, <2>1 DEF SapTtl, Num
<1>9. /\ m.name = Setting(st, "name")
      /\ m.media = <<Setting(o, "remote-address"), Num(o, "remote-port"), OutputTtl(o)>>
      /\ m.ttl = SocketTtl(SapTtl(s))
    BY DEF Says
<1>10. ASSUME o \in DOMAIN sends, m.media \in Literal \X (0 .. UShort - 1) \X (1 .. 255)
       PROVE  m.media = sends[o]
    <2>1. /\ Setting(o, "remote-address") \in Literal
          /\ Num(o, "remote-port") \in 0 .. UShort - 1 /\ OutputTtl(o) \in 1 .. 255
        BY <1>9, <1>10
    <2>2. Port(Num(o, "remote-port")) = Num(o, "remote-port")
        BY <2>1, PortKept
    <2>3. SocketTtl(OutputTtl(o)) = OutputTtl(o)
        BY <2>1 DEF SocketTtl
    <2> QED
        BY <1>9, <1>10, <2>1, <2>2, <2>3 DEF Destination, Address
<1>11. m.media[1] = InBlock(o, "remote-address") /\ m.name = InBlock(st, "name")
    BY <1>5, <1>6, <1>9
<1>12. m.ttl = SocketTtl(
           IF InBlock(s, "ttl") # "" /\ Number(InBlock(s, "ttl")) >= 0
           THEN Number(InBlock(s, "ttl"))
           ELSE IF InBlock(o, "ttl") # "" THEN Number(InBlock(o, "ttl"))
           ELSE 15)
    BY <1>7, <1>8, <1>9, Zenon
<1> QED
    BY <1>3, <1>4, <1>10, <1>11, <1>12, Zenon DEF Truly

(* The announcements of the next output. *)
LEMMA SessionOutput ==
    ASSUME SInv, SessionInv, StartOutput
    PROVE  SessionInv'
<1>1. PICK o \in starting, open \in BOOLEAN :
          /\ Turn(o, Outputs)
          /\ \/ /\ phase' = "crashed"
                /\ UNCHANGED <<sends, urls, sid, session>>
             \/ /\ sends' \in {sends, With(sends, o, Destination(o))}
                /\ IF SapOf(o) = {} THEN UNCHANGED <<phase, sid, session>>
                   ELSE SapInit(o)
    BY DEF StartOutput
<1> DEFINE s == Last(SapOf(o))
<1>2. /\ phase = "starting" /\ starting' \subseteq starting
      /\ UNCHANGED <<parsed, wrote, heard>>
    BY <1>1 DEF StartOutput, Turn, called
<1>3. SettingsRead /\ TreeOK
    BY <1>2, AcceptedRead DEF SInv, Accept
<1>4. starting \subseteq Tree /\ o \in Tree
    BY <1>1, <1>2 DEF SessionInv
<1>5. heard = {} /\ sid \in Nat
    BY <1>2 DEF SessionInv
<1>6. \A m : Says(m)' <=> Says(m)
    <2>1. UNCHANGED <<entries, wrote, Tree>>
        BY <1>2, SameTree
    <2> QED
        BY <1>2, <2>1, SameSettings DEF Says, Writers
<1>7. \A x \in DOMAIN sends' : sends'[x] = Destination(x)
    <2>1. sends' \in {sends, With(sends, o, Destination(o))}
        BY <1>1
    <2> QED
        BY <2>1 DEF SessionInv, With
<1>8. /\ starting' \subseteq Tree' /\ SettingsRead'
      /\ \A x \in DOMAIN sends' : sends'[x] = Destination(x)'
    BY <1>2, <1>3, <1>4, <1>7, SameSettings, SameTree
<1>9. phase' \in {"starting", "exited", "crashed"}
    BY <1>1, <1>2 DEF SapInit
<1>10. CASE session' = session /\ sid' \in {sid, sid + 1}
    <2>1. \A m \in session' : m.sid \in Nat /\ m.sid < sid' /\ Says(m)'
        BY <1>5, <1>6, <1>10 DEF SessionInv
    <2> QED
        BY <1>2, <1>5, <1>8, <1>9, <1>10, <2>1 DEF SessionInv
<1>11. CASE /\ session' = session \cup {Announcement(s)} /\ sid' = sid + 1
            /\ SapOf(o) # {} /\ entries[o].token \in ToSocket
    <2> DEFINE a == Announcement(s)
    <2>1. s \in SapOf(o)
        <3>1. SapOf(o) \in SUBSET Entries
            BY <1>3, WrittenIs, InTree DEF SapOf, Writers
        <3> QED
            BY <1>3, <1>11, <3>1, LastIs
    <2>2. wrote[s] = o /\ s \in Writers(o, "sap")
        BY <2>1 DEF SapOf, Writers
    <2>3. /\ a.sap = s /\ a.sid = sid /\ a.name = Setting(wrote[o], "name")
          /\ a.media = <<Setting(o, "remote-address"), Num(o, "remote-port"), OutputTtl(o)>>
          /\ a.ttl = SocketTtl(SapTtl(s))
        BY <2>2 DEF Announcement
    <2>4. Says(a)
        BY <1>4, <1>11, <2>2, <2>3 DEF Says
    <2> HIDE DEF a
    <2>5. \A m \in session' : m.sid \in Nat /\ m.sid < sid' /\ Says(m)'
        BY <1>5, <1>6, <1>11, <2>3, <2>4 DEF SessionInv, a
    <2>6. \A m, n \in session' : m.sid = n.sid => m = n
        BY <1>5, <1>11, <2>3 DEF SessionInv, a
    <2> QED
        BY <1>2, <1>5, <1>8, <1>9, <1>11, <2>5, <2>6 DEF SessionInv
<1> QED
    BY <1>1, <1>10, <1>11 DEF SapInit

(* The other steps. *)
LEMMA SessionSteps ==
    ASSUME SInv, SessionInv, [Next]_vars
    PROVE  SessionInv'
<1>1. CASE ReadConfig /\ UNCHANGED started
    <2>1. /\ phase \in {"parsing", "tokens", "values", "counts", "calling"}
          /\ phase' # "starting"
        BY <1>1 DEF ReadConfig, Parse, OpenBracket, CloseBracket, Colon, String,
            QString, BrokenString, TokenOverrun, Eof, GetToken, Lexeme, Fail,
            Validate, ValidateToken, ValidateValues, ValidateValueopt, Callback,
            Configured
    <2>2. session = {} /\ sends = <<>> /\ heard = {}
        BY <2>1 DEF SessionInv
    <2> QED
        BY <1>1, <2>1, <2>2 DEF SessionInv, started
<1>2. ASSUME UNCHANGED <<parsed, wrote, sid, session, sends>>
      PROVE  /\ \A m : Says(m)' <=> Says(m)
             /\ \A x \in DOMAIN sends' : sends'[x] = Destination(x)'
             /\ SettingsRead' <=> SettingsRead
             /\ UNCHANGED Tree
    <2>1. UNCHANGED <<entries, wrote, Tree>>
        BY <1>2, SameTree
    <2>2. \A m : Says(m)' <=> Says(m)
        BY <1>2, <2>1, SameSettings DEF Says, Writers
    <2>3. \A x \in DOMAIN sends' : sends'[x] = Destination(x)'
        BY <1>2, SameSettings DEF SessionInv
    <2> QED
        BY <1>2, <2>1, <2>2, <2>3, SameSettings
<1>3. CASE StartHttp
    <2>1. /\ phase = "configured" /\ phase' \in {"starting", "exited"}
          /\ UNCHANGED <<parsed, wrote, sid, session, sends, heard>>
          /\ starting' \subseteq Tree
        BY <1>3 DEF StartHttp, called, AllStarts
    <2> QED
        BY <1>2, <2>1 DEF SessionInv
<1>4. CASE StartAdapter \/ StartInput
    <2>1. /\ phase = "starting" /\ phase' \in {"starting", "exited", "crashed"}
          /\ UNCHANGED <<parsed, wrote, sid, session, sends, heard>>
          /\ starting' \subseteq starting
        BY <1>4 DEF StartAdapter, StartInput, Turn, called
    <2> QED
        BY <1>2, <2>1 DEF SessionInv
<1>5. CASE Run \/ SapSend
    <2>1. /\ phase \in {"starting", "running"} /\ phase' \in {"running", "crashed"}
          /\ UNCHANGED <<parsed, wrote, sid, session, sends>>
          /\ heard' \subseteq heard \cup session
        BY <1>5 DEF Run, SapSend, called, started
    <2> QED
        BY <1>2, <2>1 DEF SessionInv
<1>6. CASE UNCHANGED vars
    <2>1. UNCHANGED <<parsed, wrote, sid, session, sends, heard, phase, starting>>
        BY <1>6 DEF vars, configVars, called, started
    <2> QED
        BY <1>2, <2>1 DEF SessionInv
<1> QED
    BY <1>1, <1>3, <1>4, <1>5, <1>6, SessionOutput DEF Next, Main

(* Both invariants. *)
LEMMA SessionInvariance == Spec => [](SInv /\ SessionInv)
<1>1. Init => SessionInv
    BY DEF Init, ConfigInit, SessionInv
<1>2. SInv /\ SessionInv /\ [Next]_vars => SessionInv'
    BY SessionSteps
<1> QED
    BY <1>1, <1>2, SettingsInvariance, PTL DEF Spec

(* The announcements that are sent are told apart by their number and true *)
(* (sap.c): they name the stream, the address, the port and the TTL of the *)
(* output, in whatever order its block has its settings and its sap.       *)
THEOREM Announcements == Spec => []AnnouncedTruly
<1>1. SInv /\ SessionInv => AnnouncedTruly
    <2> SUFFICES ASSUME SInv, SessionInv, NEW m \in heard
                 PROVE  /\ \A n \in heard : m.sid = n.sid => m = n
                        /\ InStream(m.sap) \/ Truly(m)
        BY DEF AnnouncedTruly, Truly
    <2>1. m \in session /\ heard \subseteq session
        BY DEF SessionInv
    <2> QED
        BY <2>1, SaysTruly DEF SessionInv
<1> QED
    BY <1>1, SessionInvariance, PTL

-----------------------------------------------------------------------------
(* Crashes.                                                                *)

(* An output crashes for one of the known reasons. *)
LEMMA OutputCrash ==
    ASSUME SettingsRead, NEW o \in Tree, NEW open, InitCrashes(o, open),
           ~hserver => Num(Base, "port") = 0
    PROVE  \/ entries[o].token \in ToSocket /\ entries[o].child = 0
           \/ entries[o].token = "output-http" /\ Num(Base, "port") = 0
BY AddressGiven DEF InitCrashes

(* What is known to crash is so in the next state if nothing it depends on *)
(* changes.                                                                *)
TooLong == \E k \in 1 .. Len(text) : text[k] \in Long

Crash(i) ==
    \/ entries[i].token = ""
    \/ InStream(i)
    \/ entries[i].token \in ToSocket /\ entries[i].child = 0
    \/ entries[i].token = "output-http" /\ Num(Base, "port") = 0
    \/ Outside(i)
    \/ entries[i].token = "sap" /\ i \in DOMAIN wrote
       /\ \/ Setting(wrote[i], "remote-address") \in LongNames
          \/ SapOverrun(i)

Crashes == TooLong \/ \E i \in Tree : Crash(i)

(* They depend on the tree and on what was written only. *)
LEMMA SameCrashes ==
    ASSUME UNCHANGED <<parsed, wrote>>
    PROVE  /\ Num(Base, "port")' = Num(Base, "port")
           /\ Crashes' <=> Crashes
<1>1. UNCHANGED <<entries, wrote>>
    BY DEF parsed
<1>2. Writers(Base, "port")' = Writers(Base, "port")
    BY <1>1 DEF Writers, Base
<1>3. Num(Base, "port")' = Num(Base, "port")
    BY <1>1, <1>2 DEF Num, Setting, Base
<1>4. \A i : SapOverrun(i)' <=> SapOverrun(i)
    <2>1. \A i : SapTexts(i)' = SapTexts(i)
        BY <1>1 DEF SapTexts
    <2> QED
        BY <1>1, <2>1 DEF SapOverrun
<1>5. \A i : Setting(wrote[i], "remote-address")' = Setting(wrote[i], "remote-address")
    BY <1>1, SameSettings
<1>6. \A i : Crash(i)' <=> Crash(i)
    BY <1>1, <1>3, <1>4, <1>5, SameTree DEF Crash, Outside
<1>7. TooLong' <=> TooLong
    BY DEF TooLong, parsed
<1> QED
    BY <1>3, <1>6, <1>7, SameTree DEF Crashes

CrashInv ==
    /\ phase = "crashed" => Crashes
    /\ phase = "starting" => (~hserver => Num(Base, "port") = 0)

(* The steps of readconfig. *)
LEMMA CrashReadConfig ==
    ASSUME SInv, CrashInv, ReadConfig
    PROVE  CrashInv'
<1>1. phase' \notin {"starting", "crashed"} \/ phase' = "crashed"
    BY DEF ReadConfig, Parse, OpenBracket, CloseBracket, Colon, String,
           QString, BrokenString, TokenOverrun, Eof, GetToken, Lexeme, Fail,
           Validate, ValidateToken, ValidateValues, ValidateValueopt, Callback,
           Configured
<1>2. SUFFICES ASSUME phase' = "crashed" PROVE Crashes'
    BY <1>1 DEF CrashInv
<1>3. TokenOverrun \/ ValidateToken \/ Callback
    BY <1>2 DEF ReadConfig, Parse, OpenBracket, CloseBracket, Colon, String,
           QString, BrokenString, Eof, GetToken, Lexeme, Fail, Validate,
           ValidateValues, ValidateValueopt, Configured
<1>4. CASE TokenOverrun
    <2>1. pos \in 1 .. Len(text) /\ text[pos] \in Long /\ text' = text
        BY <1>4 DEF TokenOverrun, Lexeme, SInv, TreeOK
    <2> QED
        BY <2>1 DEF Crashes, TooLong
<1>5. CASE ValidateToken \/ Callback
    <2>1. UNCHANGED <<parsed, wrote>>
        BY <1>2, <1>5 DEF ValidateToken, Callback, called
    <2>2. Crashes
        BY <1>2, <1>5, TokenCrash, CallbackCrash DEF Crashes, Crash, SInv
    <2> QED
        BY <2>1, <2>2, SameCrashes
<1> QED
    BY <1>3, <1>4, <1>5

(* The steps of main. *)
LEMMA CrashMain ==
    ASSUME SInv, SessionInv, CrashInv, Main
    PROVE  CrashInv'
<1>1. UNCHANGED <<parsed, wrote>> /\ SettingsRead
    <2>1. phase \in Accept /\ UNCHANGED <<parsed, wrote>>
        BY DEF Main, StartHttp, StartAdapter, StartOutput, StartInput, SapInit,
               Turn, Run, SapSend, called, Accept
    <2> QED
        BY <2>1, AcceptedRead
<1>2. CASE StartHttp
    <2>1. /\ phase' # "crashed"
          /\ phase' = "starting" => hserver' = (Num(Base, "port") # 0)
        BY <1>2 DEF StartHttp
    <2>2. phase' = "starting" => (~hserver' => Num(Base, "port") = 0)
        BY <2>1, Zenon
    <2> QED
        BY <1>1, <2>1, <2>2, SameCrashes DEF CrashInv
<1>3. SUFFICES ASSUME phase' = "crashed", StartOutput \/ StartInput \/ SapSend
               PROVE  Crashes
    <2>1. ASSUME ~StartHttp
          PROVE  /\ UNCHANGED hserver
                 /\ phase' = "starting" => phase = "starting"
                 /\ phase' = "crashed" => StartOutput \/ StartInput \/ SapSend
        BY <2>1 DEF Main, StartAdapter, StartOutput, StartInput, Turn, Run,
                    SapSend, started
    <2> QED
        BY <1>1, <1>2, <1>3, <2>1, SameCrashes DEF CrashInv
<1>4. CASE StartOutput
    <2>1. PICK o \in starting, open \in BOOLEAN :
              /\ Turn(o, Outputs)
              /\ \/ InitCrashes(o, open)
                 \/ SapOf(o) # {} /\ SapInit(o)
        BY <1>3, <1>4 DEF StartOutput, Turn
    <2>2. o \in Tree /\ (~hserver => Num(Base, "port") = 0)
        BY <2>1 DEF CrashInv, SessionInv, Turn
    <2>3. CASE InitCrashes(o, open)
        BY <1>1, <2>2, <2>3, OutputCrash DEF Crashes, Crash
    <2>4. CASE SapOf(o) # {} /\ SapInit(o)
        <3> DEFINE s == Last(SapOf(o))
        <3>1. Setting(o, "remote-address") \in LongNames
            BY <1>3, <2>1, <2>4 DEF SapInit, Turn
        <3>2. SapOf(o) \in SUBSET Entries /\ SapOf(o) \subseteq Tree /\ TreeOK
            BY <1>1, WrittenIs, InTree DEF SapOf, Writers, SettingsRead
        <3>3. s \in SapOf(o)
            BY <2>4, <3>2, LastIs
        <3>4. s \in Tree /\ s \in DOMAIN wrote /\ wrote[s] = o /\ entries[s].token = "sap"
            BY <3>2, <3>3 DEF SapOf, Writers
        <3> QED
            BY <3>1, <3>4 DEF Crashes, Crash
    <2> QED
        BY <2>1, <2>3, <2>4
<1>5. CASE StartInput
    <2>1. PICK i \in starting : Turn(i, Inputs) /\ Outside(i)
        BY <1>3, <1>5 DEF StartInput, Turn
    <2>2. i \in Tree
        BY <2>1 DEF SessionInv, Turn
    <2> QED
        BY <2>1, <2>2 DEF Crashes, Crash
<1>6. CASE SapSend
    <2>1. PICK a \in session : SapOverrun(a.sap)
        BY <1>3, <1>6 DEF SapSend
    <2>2. a.sap \in DOMAIN wrote /\ entries[a.sap].token = "sap"
        BY DEF SessionInv, Says, Writers
    <2>3. a.sap \in Tree
        BY <1>1, <2>2, WrittenIs
    <2> QED
        BY <2>1, <2>2, <2>3 DEF Crashes, Crash
<1> QED
    BY <1>3, <1>4, <1>5, <1>6

(* A file can crash the process, until the event loop runs and in the      *)
(* announcements, in the ways listed only (libconf.c, config.c,            *)
(* output_udp.c, output_rtp.c, libhttp.c, input.c, sap.c).                 *)
THEOREM CrashesKnown == Spec => []OnlyKnownCrashes
<1>1. Init => CrashInv
    BY DEF Init, ConfigInit, CrashInv
<1>2. SInv /\ SessionInv /\ CrashInv /\ [Next]_vars => CrashInv'
    <2> SUFFICES ASSUME SInv, SessionInv, CrashInv, [Next]_vars PROVE CrashInv'
        OBVIOUS
    <2>1. CASE UNCHANGED vars
        <3>1. UNCHANGED <<parsed, wrote, phase, hserver>>
            BY <2>1 DEF vars, configVars, called, started
        <3> QED
            BY <3>1, SameCrashes DEF CrashInv
    <2>2. CASE ReadConfig /\ UNCHANGED started
        BY <2>2, CrashReadConfig
    <2> QED
        BY <2>1, <2>2, CrashMain DEF Next
<1>3. CrashInv => OnlyKnownCrashes
    BY DEF CrashInv, OnlyKnownCrashes, Crashes, TooLong, Crash, Outside
<1> QED
    BY <1>1, <1>2, <1>3, SessionInvariance, PTL DEF Spec

-----------------------------------------------------------------------------
(* Tuning.                                                                 *)

(* Adapters are tuned once the configuration is read, from the settings it *)
(* has left.                                                               *)
TunedInv ==
    /\ tuned = <<>> \/ phase \in {"starting", "running", "exited", "crashed"}
    /\ \A a \in DOMAIN tuned : tuned[a] = Tuning(a)

(* The settings are not changed any more after readconfig. *)
LEMMA SettingsStay ==
    ASSUME UNCHANGED <<parsed, called>>, NEW a
    PROVE  Tuning(a)' = Tuning(a)
<1>1. UNCHANGED <<entries, wrote>>
    BY DEF parsed, called
<1>2. \A o, name : Writers(o, name)' = Writers(o, name)
    BY <1>1 DEF Writers
<1>3. \A o, name : Setting(o, name)' = Setting(o, name)
    BY <1>1, <1>2 DEF Setting
<1>4. \A o, name : Num(o, name)' = Num(o, name)
    BY <1>3 DEF Num
<1>5. /\ \A o, name : Freq(o, name)' = Freq(o, name)
      /\ Horizontal(a)' = Horizontal(a)
    BY <1>3, <1>4 DEF Freq, Horizontal
<1>6. TypeOf(a)' = TypeOf(a)
    BY <1>1, <1>2 DEF TypeOf
<1>7. Offset(a)' = Offset(a)
    BY <1>5 DEF Offset
<1>8. Tone(a)' = Tone(a)
    BY <1>5, <1>6 DEF Tone
<1> QED
    BY <1>4, <1>5, <1>6, <1>7, <1>8 DEF Tuning

(* Numbers are integers. *)
LEMMA NumType ==
    ASSUME NEW o, NEW name
    PROVE  Num(o, name) \in Int
BY StartupAssumption DEF Num, Number

(* Frequencies too. *)
LEMMA FreqType ==
    ASSUME NEW o, NEW name
    PROVE  Freq(o, name) \in Int
BY NumType, StartupAssumption DEF Freq

(* What the card is told agrees with what the LNB is told. *)
LEMMA TuningRight ==
    ASSUME NEW a, TypeOf(a) \in {"dvb-s", "dvb-s2"},
           TypeOf(a) = "dvb-s2" => Freq(a, "frequency") # Freq(a, "slof")
    PROVE  Offset(a) = Delivered(a, Tone(a), Horizontal(a))
<1> DEFINE freq == Freq(a, "frequency")
           lof1 == Freq(a, "lof1")
           lof2 == Freq(a, "lof2")
           slof == Freq(a, "slof")
<1>1. freq \in Int /\ lof1 \in Int /\ lof2 \in Int /\ slof \in Int /\ Direct \in Int
    BY FreqType, StartupAssumption
<1>2. CASE freq <= Direct
    BY <1>1, <1>2 DEF Offset, Delivered
<1>3. CASE freq > Direct /\ slof = 0
    BY <1>1, <1>3 DEF Offset, Delivered
<1>4. CASE freq > Direct /\ slof # 0 /\ freq < slof
    <2>1. Offset(a) = freq - lof1
        BY <1>1, <1>4 DEF Offset
    <2>2. ~Tone(a)
        BY <1>1, <1>4 DEF Tone
    <2> QED
        BY <1>1, <1>4, <2>1, <2>2 DEF Delivered
<1>5. CASE freq > Direct /\ slof # 0 /\ freq >= slof
    <2>1. Offset(a) = freq - lof2
        BY <1>1, <1>5 DEF Offset
    <2>2. Tone(a)
        BY <1>1, <1>5 DEF Tone
    <2> QED
        BY <1>1, <1>5, <2>1, <2>2 DEF Delivered
<1> QED
    BY <1>1, <1>2, <1>3, <1>4, <1>5

(* The card of a satellite adapter is tuned to the frequency at which the  *)
(* LNB delivers, for all frequencies and oscillators (fe.c).               *)
THEOREM CardsTunedToLnb == Spec => []TunedToLnb
<1>1. Init => TunedInv
    BY DEF Init, TunedInv
<1>2. TunedInv /\ [Next]_vars => TunedInv'
    <2> SUFFICES ASSUME TunedInv, [Next]_vars PROVE TunedInv'
        OBVIOUS
    <2>1. CASE ReadConfig /\ UNCHANGED started
        <3>1. phase \in {"parsing", "tokens", "values", "counts", "calling"}
            BY <2>1 DEF ReadConfig, Parse, OpenBracket, CloseBracket, Colon, String,
                QString, BrokenString, TokenOverrun, Eof, GetToken, Lexeme,
                Validate, ValidateToken, ValidateValues, ValidateValueopt, Callback, Configured
        <3> QED
            BY <2>1, <3>1 DEF TunedInv, started
    <2>2. CASE UNCHANGED <<parsed, called, tuned>> /\ phase' = phase
        BY <2>2, SettingsStay DEF TunedInv
    <2>3. CASE StartHttp
        <3>1. tuned' = tuned /\ tuned = <<>>
            BY <2>3 DEF StartHttp, TunedInv
        <3> QED
            BY <3>1 DEF TunedInv
    <2>4. CASE StartAdapter
        <3>1. /\ UNCHANGED <<parsed, called>>
              /\ phase' \in {"starting", "exited"}
              /\ \/ tuned' = tuned
                 \/ \E b : tuned' = With(tuned, b, Tuning(b))
            BY <2>4 DEF StartAdapter, Turn
        <3>2. \A a \in DOMAIN tuned' : tuned'[a] = Tuning(a)
            BY <3>1 DEF TunedInv, With
        <3> QED
            BY <3>1, <3>2, SettingsStay DEF TunedInv
    <2>5. CASE StartOutput \/ StartInput \/ Run \/ SapSend
        <3>1. /\ UNCHANGED <<parsed, called, tuned>>
              /\ phase' \in {"starting", "running", "exited", "crashed"}
            BY <2>5 DEF StartOutput, StartInput, SapInit, Turn, Run, SapSend, started
        <3> QED
            BY <3>1, SettingsStay DEF TunedInv
    <2>6. CASE UNCHANGED vars
        BY <2>2, <2>6 DEF vars, configVars, started
    <2> QED
        BY <2>1, <2>3, <2>4, <2>5, <2>6 DEF Next, Main
<1>3. TunedInv => TunedToLnb
    <2> SUFFICES ASSUME TunedInv, NEW a \in DOMAIN tuned,
                        tuned[a].type \in {"dvb-s", "dvb-s2"},
                        ~(tuned[a].type = "dvb-s2"
                              /\ Freq(a, "frequency") = Freq(a, "slof"))
                 PROVE  tuned[a].freq = Delivered(a, tuned[a].tone, tuned[a].v18)
        BY DEF TunedToLnb
    <2>1. tuned[a] = Tuning(a)
        BY DEF TunedInv
    <2>2. tuned[a].type = TypeOf(a)
        BY <2>1 DEF Tuning
    <2>3. /\ tuned[a].freq = Offset(a)
          /\ tuned[a].tone = Tone(a)
          /\ tuned[a].v18 = Horizontal(a)
        BY <2>1, <2>2 DEF Tuning
    <2> QED
        BY <2>2, <2>3, TuningRight
<1> QED
    BY <1>1, <1>2, <1>3, PTL DEF Spec
=============================================================================
