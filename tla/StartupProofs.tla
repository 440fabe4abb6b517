--------------------------- MODULE StartupProofs ----------------------------
(***************************************************************************)
(* Proofs about Startup: the tree of the configuration.  It keeps its      *)
(* shape, and it is the tree of the braces of the file, for every set of   *)
(* files.  Besides, what the other proofs need of it: the recursive        *)
(* functions over the tree and the walk that the passes take.              *)
(*                                                                         *)
(* The braces are not in the tree, and an entry has a place in the file    *)
(* only when it has a name.  So the invariant (Nest) is that there is a    *)
(* function from the entries to the braces of their blocks, such that the  *)
(* names stand in the blocks (Placed), the blocks in those of the entries  *)
(* they belong to (Blocks), with no name between (Owners), and the current *)
(* entry is the last of the block that is open (Lasts, Current).           *)
(***************************************************************************)
EXTENDS Startup, TLAPS, WellFoundedInduction, FiniteSetTheorems

-----------------------------------------------------------------------------
(* The shape of the tree.                                                  *)

(* The fields of an entry. *)
LEMMA EntryFields ==
    ASSUME NEW es \in Seq(CEntry), NEW i \in 1 .. Len(es)
    PROVE  /\ es[i] \in CEntry
           /\ es[i].parent \in Nat /\ es[i].child \in Nat /\ es[i].next \in Nat
<1>1. es[i] \in CEntry
    OBVIOUS
<1> QED
    BY <1>1 DEF CEntry

(* An entry exchanged for one with no more links changes no other link. *)
LEMMA ExchangedLinked ==
    ASSUME NEW es \in Seq(CEntry), Linked(es), NEW e \in 1 .. Len(es),
           NEW x \in CEntry, x.parent = es[e].parent, x.next = es[e].next,
           x.child \in {0, es[e].child}, NEW fs, fs = [es EXCEPT ![e] = x]
    PROVE  fs \in Seq(CEntry) /\ Len(fs) = Len(es) /\ Linked(fs)
<1>1. fs \in Seq(CEntry) /\ Len(fs) = Len(es)
    OBVIOUS
<1>2. \A i \in 1 .. Len(es) : fs[i] = IF i = e THEN x ELSE es[i]
    OBVIOUS
<1>3. \A i \in 1 .. Len(es) : es[i].child \in Nat
    BY EntryFields
<1>4. \A i \in 1 .. Len(es) :
        /\ fs[i].parent = es[i].parent
        /\ fs[i].next = es[i].next
        /\ fs[i].child \in {0, es[i].child}
    BY <1>2
<1>5. ASSUME NEW i \in 1 .. Len(es)
      PROVE  /\ fs[i].parent < i
             /\ fs[i].child # 0 => /\ fs[i].child \in i + 1 .. Len(es)
                                   /\ fs[fs[i].child].parent = i
             /\ fs[i].next # 0 => /\ fs[i].next \in i + 1 .. Len(es)
                                  /\ fs[fs[i].next].parent = fs[i].parent
    <2>1. \A j \in i + 1 .. Len(es) : j \in 1 .. Len(es)
        OBVIOUS
    <2> QED
        BY <1>4, <2>1 DEF Linked
<1>6. Linked(fs)
    BY <1>1, <1>5 DEF Linked
<1> QED
    BY <1>1, <1>6

(* The entries es, of which entry e becomes x, are to have a new entry y:  *)
(* it is linked from e, as its child or as its next.                       *)
Added(es, e, x, y) ==
    /\ es \in Seq(CEntry) /\ Linked(es) /\ e \in 1 .. Len(es)
    /\ x \in CEntry /\ y \in CEntry /\ x.parent = es[e].parent
    /\ y.child = 0 /\ y.next = 0
    /\ \/ /\ x.child = Len(es) + 1 /\ x.next = es[e].next
          /\ y.parent = e
       \/ /\ x.next = Len(es) + 1 /\ x.child = es[e].child
          /\ y.parent = es[e].parent

Grown(gs, n) == gs \in Seq(CEntry) /\ Len(gs) = n /\ Linked(gs)

(* The entries with the new one are linked as those before. *)
LEMMA AppendedLinked ==
    ASSUME NEW es, NEW e, NEW x, NEW y, Added(es, e, x, y)
    PROVE  Grown(Append([es EXCEPT ![e] = x], y), Len(es) + 1)
<1> DEFINE fs == [es EXCEPT ![e] = x]
           gs == Append(fs, y)
           n == Len(es) + 1
<1>0. /\ es \in Seq(CEntry) /\ e \in 1 .. Len(es)
      /\ x \in CEntry /\ y \in CEntry
    BY DEF Added
<1>1. fs \in Seq(CEntry) /\ Len(fs) = Len(es)
    BY <1>0
<1>2. gs \in Seq(CEntry) /\ Len(gs) = n /\ gs[n] = y
    BY <1>0, <1>1
<1>3. \A i \in 1 .. Len(es) : gs[i] = IF i = e THEN x ELSE es[i]
    BY <1>0, <1>1
<1>4. \A i \in 1 .. Len(es) : es[i] \in CEntry
    BY <1>0
<1>5. \A i \in 1 .. Len(es) :
        /\ gs[i].parent = es[i].parent
        /\ gs[i].next = IF i = e THEN x.next ELSE es[i].next
        /\ gs[i].child = IF i = e THEN x.child ELSE es[i].child
    BY <1>3, <1>4 DEF Added
<1>6. \A i \in 1 .. Len(es) :
        /\ es[i].parent \in Nat /\ es[i].parent < i
        /\ es[i].child # 0 => /\ es[i].child \in i + 1 .. Len(es)
                              /\ es[es[i].child].parent = i
        /\ es[i].next # 0 => /\ es[i].next \in i + 1 .. Len(es)
                             /\ es[es[i].next].parent = es[i].parent
    BY <1>0, EntryFields DEF Linked, Added
<1> HIDE DEF gs
<1>7. \A i \in 1 .. Len(es) :
        /\ gs[i].parent < i
        /\ gs[i].child # 0 => /\ gs[i].child \in i + 1 .. n
                              /\ gs[gs[i].child].parent = i
        /\ gs[i].next # 0 => /\ gs[i].next \in i + 1 .. n
                             /\ gs[gs[i].next].parent = gs[i].parent
    <2> SUFFICES ASSUME NEW i \in 1 .. Len(es)
                 PROVE  /\ gs[i].parent < i
                        /\ gs[i].child # 0 => /\ gs[i].child \in i + 1 .. n
                                              /\ gs[gs[i].child].parent = i
                        /\ gs[i].next # 0 => /\ gs[i].next \in i + 1 .. n
                                             /\ gs[gs[i].next].parent = gs[i].parent
        OBVIOUS
    <2>1. gs[i].parent < i
        BY <1>5, <1>6
    <2>2. ASSUME gs[i].child # 0
          PROVE  gs[i].child \in i + 1 .. n /\ gs[gs[i].child].parent = i
        <3>1. CASE gs[i].child = n
            BY <1>2, <1>5, <1>6, <3>1 DEF Added
        <3>2. CASE gs[i].child = es[i].child
            <4>1. es[i].child \in i + 1 .. Len(es) /\ es[i].child \in 1 .. Len(es)
                BY <1>6, <2>2, <3>2
            <4> QED
                BY <1>5, <1>6, <2>2, <3>2, <4>1
        <3> QED
            BY <1>5, <3>1, <3>2 DEF Added
    <2>3. ASSUME gs[i].next # 0
          PROVE  gs[i].next \in i + 1 .. n /\ gs[gs[i].next].parent = gs[i].parent
        <3>1. CASE gs[i].next = n
            BY <1>2, <1>5, <1>6, <3>1 DEF Added
        <3>2. CASE gs[i].next = es[i].next
            <4>1. es[i].next \in i + 1 .. Len(es) /\ es[i].next \in 1 .. Len(es)
                BY <1>6, <2>3, <3>2
            <4> QED
                BY <1>5, <1>6, <2>3, <3>2, <4>1
        <3> QED
            BY <1>5, <3>1, <3>2 DEF Added
    <2> QED
        BY <2>1, <2>2, <2>3
<1>8. y.parent < n /\ y.child = 0 /\ y.next = 0
    BY <1>0, <1>6 DEF Added
<1>9. Linked(gs)
    <2>1. \A i \in 1 .. n : i \in 1 .. Len(es) \/ i = n
        OBVIOUS
    <2> QED
        BY <1>2, <1>7, <1>8, <2>1 DEF Linked
<1> QED
    BY <1>2, <1>9 DEF Grown, gs

(* Storing a word changes no link. *)
LEMMA StoredLinked ==
    ASSUME NEW es \in Seq(CEntry), Linked(es), NEW e \in 1 .. Len(es),
           NEW l \in Text, pos \in Nat
    PROVE  /\ Stored(es, e, l) \in Seq(CEntry)
           /\ Len(Stored(es, e, l)) = Len(es)
           /\ Linked(Stored(es, e, l))
<1>1. es[e] \in CEntry
    OBVIOUS
<1>2. CASE es[e].token = ""
    <2> DEFINE x == [es[e] EXCEPT !.token = l, !.at = pos]
    <2>1. Stored(es, e, l) = [es EXCEPT ![e] = x]
        BY <1>2 DEF Stored
    <2>2. /\ x \in CEntry /\ x.parent = es[e].parent
          /\ x.next = es[e].next /\ x.child = es[e].child
        BY <1>1 DEF CEntry
    <2> HIDE DEF x
    <2> QED
        BY <2>1, <2>2, ExchangedLinked
<1>3. CASE es[e].token # ""
    <2> DEFINE x == [es[e] EXCEPT !.value = l]
    <2>1. Stored(es, e, l) = [es EXCEPT ![e] = x]
        BY <1>3 DEF Stored
    <2>2. /\ x \in CEntry /\ x.parent = es[e].parent
          /\ x.next = es[e].next /\ x.child = es[e].child
        BY <1>1 DEF CEntry
    <2> HIDE DEF x
    <2> QED
        BY <2>1, <2>2, ExchangedLinked
<1> QED
    BY <1>2, <1>3

(* A new entry has no links but to its parent. *)
LEMMA EntryType ==
    ASSUME NEW p \in Nat
    PROVE  /\ Entry(p) \in CEntry
           /\ Entry(p).parent = p
           /\ Entry(p).child = 0
           /\ Entry(p).next = 0
BY DEF Entry, CEntry, Text

(* A new block: the new entry is the child of the current one. *)
LEMMA ChildLinked ==
    ASSUME TreeOK
    PROVE  LET es == Append([entries EXCEPT ![cce].child = New], Entry(cce))
           IN  es \in Seq(CEntry) /\ Len(es) = New /\ Linked(es)
<1> DEFINE x == [entries[cce] EXCEPT !.child = New]
           y == Entry(cce)
           gs == Append([entries EXCEPT ![cce] = x], y)
<1>1. /\ entries \in Seq(CEntry) /\ Linked(entries)
      /\ cce \in 1 .. Len(entries) /\ cce \in Nat
      /\ New \in Nat /\ New = Len(entries) + 1
    BY DEF TreeOK, New
<1>2. entries[cce] \in CEntry
    BY <1>1
<1>3. Append([entries EXCEPT ![cce].child = New], Entry(cce)) = gs
    OBVIOUS
<1>4. /\ x \in CEntry /\ x.parent = entries[cce].parent
      /\ x.next = entries[cce].next /\ x.child = Len(entries) + 1
    BY <1>1, <1>2 DEF CEntry
<1>5. y \in CEntry /\ y.parent = cce /\ y.child = 0 /\ y.next = 0
    BY <1>1, EntryType
<1>6. Added(entries, cce, x, y)
    BY <1>1, <1>4, <1>5 DEF Added
<1> HIDE DEF x, y
<1>7. Grown(gs, Len(entries) + 1)
    BY <1>6, AppendedLinked
<1> QED
    BY <1>1, <1>3, <1>7 DEF Grown

(* A new option: the new entry follows the current one in its block. *)
LEMMA NextLinked ==
    ASSUME TreeOK
    PROVE  Following \in Seq(CEntry) /\ Len(Following) = New /\ Linked(Following)
<1> DEFINE x == [entries[cce] EXCEPT !.next = New]
           y == Entry(entries[cce].parent)
           gs == Append([entries EXCEPT ![cce] = x], y)
<1>1. /\ entries \in Seq(CEntry) /\ Linked(entries)
      /\ cce \in 1 .. Len(entries) /\ cce \in Nat
      /\ New \in Nat /\ New = Len(entries) + 1
    BY DEF TreeOK, New
<1>2. entries[cce] \in CEntry /\ entries[cce].parent \in Nat
    BY <1>1, EntryFields
<1>3. Following = gs
    BY DEF Following
<1>4. /\ x \in CEntry /\ x.parent = entries[cce].parent
      /\ x.child = entries[cce].child /\ x.next = Len(entries) + 1
    BY <1>1, <1>2 DEF CEntry
<1>5. y \in CEntry /\ y.parent = entries[cce].parent /\ y.child = 0 /\ y.next = 0
    BY <1>2, EntryType
<1>6. Added(entries, cce, x, y)
    BY <1>1, <1>4, <1>5 DEF Added
<1> HIDE DEF x, y
<1>7. Grown(gs, Len(entries) + 1)
    BY <1>6, AppendedLinked
<1> QED
    BY <1>1, <1>3, <1>7 DEF Grown

(* An empty block is taken out of the tree. *)
LEMMA WithoutLinked ==
    ASSUME TreeOK, NEW p \in 1 .. Len(entries)
    PROVE  /\ Without(p) \in Seq(CEntry)
           /\ Len(Without(p)) = Len(entries)
           /\ Linked(Without(p))
<1> DEFINE x == [entries[p] EXCEPT !.child = 0]
           fs == [entries EXCEPT ![p] = x]
<1>1. entries \in Seq(CEntry) /\ Linked(entries) /\ entries[p] \in CEntry
    BY DEF TreeOK
<1>2. Without(p) = fs /\ fs = [entries EXCEPT ![p] = x]
    BY DEF Without
<1>3. /\ x \in CEntry /\ x.parent = entries[p].parent
      /\ x.next = entries[p].next /\ x.child = 0
    BY <1>1 DEF CEntry
<1> HIDE DEF x, fs
<1>4. x.child \in {0, entries[p].child}
    BY <1>3
<1>5. fs \in Seq(CEntry) /\ Len(fs) = Len(entries) /\ Linked(fs)
    BY <1>1, <1>2, <1>3, <1>4, ExchangedLinked
<1> QED
    BY <1>2, <1>5

(* TOKEN_COLON changes no link. *)
LEMMA ClosedLinked ==
    ASSUME TreeOK
    PROVE  LET es == [entries EXCEPT ![cce].closed = TRUE]
           IN  es \in Seq(CEntry) /\ Len(es) = Len(entries) /\ Linked(es)
<1> DEFINE x == [entries[cce] EXCEPT !.closed = TRUE]
           fs == [entries EXCEPT ![cce].closed = TRUE]
<1>1. /\ entries \in Seq(CEntry) /\ Linked(entries)
      /\ cce \in 1 .. Len(entries) /\ entries[cce] \in CEntry
    BY DEF TreeOK
<1>2. fs = [entries EXCEPT ![cce] = x]
    OBVIOUS
<1>3. /\ x \in CEntry /\ x.parent = entries[cce].parent
      /\ x.next = entries[cce].next /\ x.child = entries[cce].child
    BY <1>1 DEF CEntry
<1> HIDE DEF x, fs
<1>4. fs \in Seq(CEntry) /\ Len(fs) = Len(entries) /\ Linked(fs)
    BY <1>1, <1>2, <1>3, ExchangedLinked
<1> QED
    BY <1>4 DEF fs

(* The next lexeme is one of the file. *)
LEMMA TokenIsText ==
    ASSUME TreeOK, Lexeme
    PROVE  text[pos] \in Text /\ text' \in Seq(Text) /\ pos' \in Nat \ {0}
<1>1. text \in Seq(Text) /\ pos \in Nat \ {0}
    BY DEF TreeOK
<1>2. pos \in 1 .. Len(text) /\ text' = text /\ pos' = pos + 1
    BY <1>1 DEF Lexeme
<1> QED
    BY <1>1, <1>2

(* Every step of libconf_parse keeps the tree in shape. *)
LEMMA ParseKeepsTree ==
    ASSUME TreeOK, Parse
    PROVE  TreeOK'
<1>1. CASE OpenBracket
    <2>1. New \in 1 .. New
        BY DEF New, TreeOK
    <2> QED
        BY <1>1, <2>1, ChildLinked, TokenIsText DEF OpenBracket, GetToken, TreeOK
<1>2. CASE CloseBracket
    <2> DEFINE c == entries[cce]
    <2>1. c.parent \in Nat /\ c.parent < cce
        BY EntryFields DEF TreeOK, Linked
    <2>2. CASE UNCHANGED <<entries, cce>>
        BY <1>2, <2>2, TokenIsText DEF CloseBracket, GetToken, TreeOK
    <2>3. CASE cce' = c.parent /\ c.parent # 0 /\ UNCHANGED entries
        <3>1. c.parent \in 1 .. Len(entries)
            BY <2>1, <2>3 DEF TreeOK
        <3> QED
            BY <3>1, <1>2, <2>1, <2>3, TokenIsText DEF CloseBracket, GetToken, TreeOK
    <2>4. CASE cce' = c.parent /\ c.parent # 0 /\ entries' = Without(c.parent)
        <3>1. c.parent \in 1 .. Len(entries)
            BY <2>1, <2>4 DEF TreeOK
        <3> QED
            BY <1>2, <2>4, <3>1, WithoutLinked, TokenIsText DEF CloseBracket, GetToken, TreeOK
    <2> QED
        BY <1>2, <2>2, <2>3, <2>4 DEF CloseBracket, Fail
<1>3. CASE Colon
    BY <1>3, ClosedLinked, TokenIsText DEF Colon, GetToken, TreeOK
<1>4. CASE String
    <2>1. CASE UNCHANGED <<entries, cce>>
        BY <1>4, <2>1, TokenIsText DEF String, GetToken, TreeOK
    <2>2. CASE entries' = Stored(Following, New, text[pos]) /\ cce' = New
        <3>1. New \in 1 .. New
            BY DEF New, TreeOK
        <3> QED
            BY <1>4, <2>2, <3>1, NextLinked, StoredLinked, TokenIsText
               DEF String, GetToken, TreeOK
    <2>3. CASE entries' = Stored(entries, cce, text[pos]) /\ cce' = cce
        BY <1>4, <2>3, StoredLinked, TokenIsText DEF String, GetToken, TreeOK
    <2> QED
        BY <1>4, <2>1, <2>2, <2>3 DEF String, Fail
<1>5. CASE QString
    <2>1. CASE UNCHANGED <<entries, cce>>
        BY <1>5, <2>1, TokenIsText DEF QString, GetToken, TreeOK
    <2>2. CASE entries' = Stored(entries, cce, text[pos]) /\ cce' = cce
        BY <1>5, <2>2, StoredLinked, TokenIsText DEF QString, GetToken, TreeOK
    <2> QED
        BY <1>5, <2>1, <2>2 DEF QString, Fail
<1>6. CASE BrokenString
    BY <1>6, TokenIsText DEF BrokenString, GetToken, Fail, TreeOK
<1>7. CASE Eof
    BY <1>7 DEF Eof, parsed, TreeOK
<1>8. CASE TokenOverrun
    BY <1>8, TokenIsText DEF TokenOverrun, TreeOK
<1> QED
    BY <1>1, <1>2, <1>3, <1>4, <1>5, <1>6, <1>7, <1>8 DEF Parse

(* The tree of libconf_parse is a tree, whatever the file: its links go to *)
(* entries made later and agree with the parent pointers, so that every    *)
(* pass over it ends (libconf.c).                                          *)
THEOREM TreeStaysATree == Spec => []TreeOK
<1>1. Init => TreeOK
    <2>1. /\ Entry(0) \in CEntry /\ Entry(0).parent = 0
          /\ Entry(0).child = 0 /\ Entry(0).next = 0
        BY EntryType
    <2>2. ASSUME NEW f \in Files PROVE f \in Seq(Text)
        <3>1. f \in Seq(STRING)
            BY ConfigAssumption
        <3>2. ASSUME NEW k \in 1 .. Len(f) PROVE f[k] \in Text
            <4>1. f[k] \in {f[j] : j \in 1 .. Len(f)}
                OBVIOUS
            <4> QED
                BY <4>1 DEF Text
        <3> QED
            BY <3>1, <3>2
    <2> QED
        BY <2>1, <2>2 DEF Init, ConfigInit, TreeOK, Linked
<1>2. TreeOK /\ [Next]_vars => TreeOK'
    <2> SUFFICES ASSUME TreeOK, [Next]_vars PROVE TreeOK'
        OBVIOUS
    <2>1. CASE UNCHANGED parsed
        BY <2>1 DEF parsed, TreeOK
    <2>2. CASE Parse
        BY <2>2, ParseKeepsTree
    <2>3. Validate => UNCHANGED parsed
        BY DEF Validate, ValidateToken, ValidateValues, ValidateValueopt,
               Callback, Configured
    <2>4. Main => UNCHANGED parsed
        BY DEF Main, StartHttp, StartAdapter, StartOutput, StartInput,
               SapInit, Turn, Run, SapSend
    <2> QED
        BY <2>1, <2>2, <2>3, <2>4 DEF Next, ReadConfig, vars, configVars
<1> QED
    BY <1>1, <1>2, PTL DEF Spec

-----------------------------------------------------------------------------
(* Sets of numbers.                                                        *)

(* Every set of numbers has a least one. *)
LEMMA Least ==
    ASSUME NEW T \in SUBSET Nat, T # {}
    PROVE  \E m \in T : \A k \in T : m <= k
<1> DEFINE R == OpToRel(<, Nat)
<1>1. IsWellFoundedOn(R, Nat)
    BY NatLessThanWellFounded, Zenon
<1> HIDE DEF R
<1>2. PICK m \in T : \A k \in T : ~(<<k, m>> \in R)
    BY <1>1, WFMin, Zenon
<1>3. m \in Nat /\ \A k \in T : k \in Nat
    OBVIOUS
<1>4. \A k \in T : ~(k < m)
    BY <1>2, <1>3, Zenon DEF OpToRel, R
<1> QED
    BY <1>3, <1>4

(* Some numbers up to N have a last one. *)
LEMMA Greatest ==
    ASSUME NEW N \in Nat, NEW T \in SUBSET (1 .. N), T # {}
    PROVE  Last(T) \in T /\ \A j \in T : j <= Last(T)
<1> DEFINE R == {N - t : t \in T}
<1>1. \A t \in T : t \in 1 .. N
    OBVIOUS
<1>2. PICK m \in R : \A k \in R : m <= k
    <2>1. R \in SUBSET Nat
        BY <1>1
    <2>2. PICK t \in T : TRUE
        OBVIOUS
    <2>3. N - t \in R
        BY <2>2
    <2> HIDE DEF R
    <2> QED
        BY <2>1, <2>3, Least
<1>3. PICK t \in T : m = N - t
    BY <1>2
<1>4. ASSUME NEW j \in T PROVE j <= t
    <2>1. N - j \in R /\ j \in Nat /\ t \in Nat
        BY <1>1
    <2>2. N - t <= N - j
        BY <1>2, <1>3, <2>1
    <2> QED
        BY <1>1, <2>1, <2>2
<1> QED
    BY <1>4 DEF Last

-----------------------------------------------------------------------------
(* The recursive functions over the tree are what their equations say, as  *)
(* links go up, parents down in the order of entries.                      *)

TableOf(f, i) ==
    LET p == entries[i].parent
    IN  IF p = 0 THEN "conf_main"
        ELSE IF f[p] # "" /\ entries[p].token \in Names(f[p])
             THEN Find(f[p], entries[p].token).child
             ELSE ""

EnclosingOf(f, i) ==
    IF i = 0 THEN Base
    ELSE LET p == entries[i].parent
         IN  IF p = 0 THEN Base
             ELSE IF Created(entries[p].token) # {} THEN p ELSE f[p]

(* There is a function that satisfies the equations of Table. *)
LEMMA TableExists ==
    ASSUME TreeOK
    PROVE  \E f : f = [i \in 1 .. Len(entries) |-> TableOf(f, i)]
<1> DEFINE Exists(n) == \E f : f = [i \in 1 .. n |-> TableOf(f, i)]
           T == {n \in 0 .. Len(entries) : ~Exists(n)}
<1>1. Len(entries) \in Nat
    BY DEF TreeOK
<1>2. Exists(0)
    <2> DEFINE f == [i \in 1 .. 0 |-> 0]
    <2>1. f = [i \in 1 .. 0 |-> TableOf(f, i)]
        OBVIOUS
    <2> HIDE DEF f
    <2> QED
        BY <2>1
<1> HIDE DEF Exists
<1>3. SUFFICES ASSUME T # {} PROVE FALSE
    <2>1. Exists(Len(entries))
        BY <1>1, <1>3
    <2> QED
        BY <2>1 DEF Exists
<1>4. PICK m \in T : \A k \in T : m <= k
    <2>1. T \in SUBSET Nat
        BY <1>1
    <2> HIDE DEF T
    <2> QED
        BY <1>3, <2>1, Least
<1>5. m \in Nat \ {0} /\ m <= Len(entries) /\ ~Exists(m)
    BY <1>1, <1>2, <1>4
<1>6. Exists(m - 1)
    <2>1. m - 1 \in 0 .. Len(entries) /\ ~(m <= m - 1)
        BY <1>1, <1>5
    <2> QED
        BY <1>4, <2>1
<1>7. PICK f : f = [i \in 1 .. m - 1 |-> TableOf(f, i)]
    BY <1>6 DEF Exists
<1> DEFINE g == [i \in 1 .. m |-> IF i = m THEN TableOf(f, m) ELSE f[i]]
<1>8. ASSUME NEW i \in 1 .. m PROVE TableOf(g, i) = TableOf(f, i)
    <2>1. i # 0 => entries[i].parent \in Nat /\ entries[i].parent < i
        BY <1>1, <1>5, EntryFields DEF TreeOK, Linked
    <2>2. (i # 0 /\ entries[i].parent # 0) => g[entries[i].parent] = f[entries[i].parent]
        BY <1>5, <2>1
    <2>3. i # 0
        OBVIOUS
    <2> HIDE DEF g
    <2> QED
        BY <2>2, <2>3, Zenon DEF TableOf
<1>9. ASSUME NEW i \in 1 .. m PROVE g[i] = TableOf(f, i)
    <2>1. CASE i = m
        BY <2>1
    <2>2. CASE i # m
        <3>1. i \in 1 .. m - 1
            BY <1>5, <2>2
        <3> QED
            BY <1>7, <2>2, <3>1
    <2> QED
        BY <2>1, <2>2
<1>10. g = [i \in 1 .. m |-> TableOf(g, i)]
    BY <1>8, <1>9
<1>11. Exists(m)
    BY <1>10 DEF Exists
<1> QED
    BY <1>5, <1>11

(* There is one that satisfies those of Enclosing. *)
LEMMA EnclosingExists ==
    ASSUME TreeOK
    PROVE  \E f : f = [i \in 0 .. Len(entries) |-> EnclosingOf(f, i)]
<1> DEFINE Exists(n) == \E f : f = [i \in 0 .. n |-> EnclosingOf(f, i)]
           T == {n \in 0 .. Len(entries) : ~Exists(n)}
<1>1. Len(entries) \in Nat
    BY DEF TreeOK
<1>2. Exists(0)
    <2> DEFINE f == [i \in 0 .. 0 |-> Base]
    <2>1. \A i \in 0 .. 0 : EnclosingOf(f, i) = Base
        BY DEF EnclosingOf
    <2>2. f = [i \in 0 .. 0 |-> EnclosingOf(f, i)]
        BY <2>1
    <2> HIDE DEF f
    <2> QED
        BY <2>2
<1> HIDE DEF Exists
<1>3. SUFFICES ASSUME T # {} PROVE FALSE
    <2>1. Exists(Len(entries))
        BY <1>1, <1>3
    <2> QED
        BY <2>1 DEF Exists
<1>4. PICK m \in T : \A k \in T : m <= k
    <2>1. T \in SUBSET Nat
        BY <1>1
    <2> HIDE DEF T
    <2> QED
        BY <1>3, <2>1, Least
<1>5. m \in Nat \ {0} /\ m <= Len(entries) /\ ~Exists(m)
    BY <1>1, <1>2, <1>4
<1>6. Exists(m - 1)
    <2>1. m - 1 \in 0 .. Len(entries) /\ ~(m <= m - 1)
        BY <1>1, <1>5
    <2> QED
        BY <1>4, <2>1
<1>7. PICK f : f = [i \in 0 .. m - 1 |-> EnclosingOf(f, i)]
    BY <1>6 DEF Exists
<1> DEFINE g == [i \in 0 .. m |-> IF i = m THEN EnclosingOf(f, m) ELSE f[i]]
<1>8. ASSUME NEW i \in 0 .. m PROVE EnclosingOf(g, i) = EnclosingOf(f, i)
    <2>1. i # 0 => entries[i].parent \in Nat /\ entries[i].parent < i
        BY <1>1, <1>5, EntryFields DEF TreeOK, Linked
    <2>2. (i # 0 /\ entries[i].parent # 0) => g[entries[i].parent] = f[entries[i].parent]
        BY <1>5, <2>1
    <2> HIDE DEF g
    <2> QED
        BY <2>2 DEF EnclosingOf
<1>9. ASSUME NEW i \in 0 .. m PROVE g[i] = EnclosingOf(f, i)
    <2>1. CASE i = m
        BY <2>1
    <2>2. CASE i # m
        <3>1. i \in 0 .. m - 1
            BY <1>5, <2>2
        <3> QED
            BY <1>7, <2>2, <3>1
    <2> QED
        BY <2>1, <2>2
<1>10. g = [i \in 0 .. m |-> EnclosingOf(g, i)]
    BY <1>8, <1>9
<1>11. Exists(m)
    BY <1>10 DEF Exists
<1> QED
    BY <1>5, <1>11

(* Table satisfies its equations. *)
LEMMA TableEquals ==
    ASSUME TreeOK
    PROVE  Table = [i \in 1 .. Len(entries) |-> TableOf(Table, i)]
<1>1. PICK f : f = [i \in 1 .. Len(entries) |-> TableOf(f, i)]
    BY TableExists
<1> QED
    BY <1>1, Zenon DEF Table, TableOf

(* So does Enclosing. *)
LEMMA EnclosingEquals ==
    ASSUME TreeOK
    PROVE  Enclosing = [i \in 0 .. Len(entries) |-> EnclosingOf(Enclosing, i)]
<1>1. PICK f : f = [i \in 0 .. Len(entries) |-> EnclosingOf(f, i)]
    BY EnclosingExists
<1> QED
    BY <1>1, Zenon DEF Enclosing, EnclosingOf

(* The entries a preorder walk meets from entry i on, by those from its    *)
(* child and its next.                                                     *)
OrderOf(f, i) ==
    IF i = 0 THEN <<>> ELSE <<i>> \o f[entries[i].child] \o f[entries[i].next]

(* There is a function that satisfies the equations of the walk. *)
LEMMA OrderExists ==
    ASSUME TreeOK
    PROVE  \E f : f = [i \in 0 .. Len(entries) |-> OrderOf(f, i)]
<1> DEFINE N == Len(entries)
           D(n) == {0} \cup N - n + 1 .. N
           Exists(n) == \E f : f = [i \in D(n) |-> OrderOf(f, i)]
           T == {n \in 0 .. N : ~Exists(n)}
<1>1. N \in Nat
    BY DEF TreeOK
<1>2. Exists(0)
    <2> DEFINE f == [i \in D(0) |-> <<>>]
    <2>1. D(0) = {0}
        BY <1>1
    <2>2. \A i \in D(0) : OrderOf(f, i) = <<>>
        BY <2>1 DEF OrderOf
    <2>3. f = [i \in D(0) |-> OrderOf(f, i)]
        BY <2>2
    <2> HIDE DEF f, D
    <2> QED
        BY <2>3
<1>3. SUFFICES ASSUME T # {} PROVE FALSE
    <2> HIDE DEF Exists
    <2>1. Exists(N)
        BY <1>1, <1>3
    <2>2. D(N) = 0 .. N
        BY <1>1
    <2> QED
        BY <2>1, <2>2 DEF Exists
<1> HIDE DEF Exists
<1>4. PICK m \in T : \A k \in T : m <= k
    <2>1. T \in SUBSET Nat
        BY <1>1
    <2> HIDE DEF T
    <2> QED
        BY <1>3, <2>1, Least
<1>5. m \in Nat \ {0} /\ m <= N /\ ~Exists(m)
    BY <1>1, <1>2, <1>4
<1>6. Exists(m - 1)
    <2>1. m - 1 \in 0 .. N /\ ~(m <= m - 1)
        BY <1>1, <1>5
    <2> QED
        BY <1>4, <2>1
<1>7. PICK f : f = [i \in D(m - 1) |-> OrderOf(f, i)]
    BY <1>6, Zenon DEF Exists
<1> DEFINE l == N - m + 1
           g == [i \in D(m) |-> IF i = l THEN OrderOf(f, l) ELSE f[i]]
<1>8. /\ l \in 1 .. N /\ l \in D(m)
      /\ \A i \in D(m) : i = l \/ i \in D(m - 1)
      /\ \A i \in D(m - 1) : i # l /\ i \in D(m)
      /\ \A i \in D(m) : i # 0 => i \in 1 .. N /\ l <= i
      /\ \A i \in 1 .. N : l < i => i \in D(m - 1)
      /\ 0 \in D(m - 1)
    BY <1>1, <1>5
<1> HIDE DEF D, l
<1>9. \A i \in D(m - 1) : g[i] = f[i]
    BY <1>8
<1>10. ASSUME NEW i \in D(m) PROVE OrderOf(g, i) = OrderOf(f, i)
    <2>1. CASE i = 0
        BY <2>1 DEF OrderOf
    <2>2. CASE i # 0
        <3>1. i \in 1 .. N /\ l <= i /\ l \in 1 .. N
            BY <1>8, <2>2
        <3>2. /\ entries[i].child = 0 \/ entries[i].child \in i + 1 .. N
              /\ entries[i].next = 0 \/ entries[i].next \in i + 1 .. N
            BY <3>1 DEF TreeOK, Linked
        <3>3. entries[i].child \in D(m - 1) /\ entries[i].next \in D(m - 1)
            BY <1>1, <1>8, <3>1, <3>2
        <3> HIDE DEF g
        <3> QED
            BY <1>9, <2>2, <3>3 DEF OrderOf
    <2> QED
        BY <2>1, <2>2
<1>11. ASSUME NEW i \in D(m) PROVE g[i] = OrderOf(f, i)
    <2>1. CASE i = l
        BY <1>8, <2>1
    <2>2. CASE i # l
        <3>1. i \in D(m - 1)
            BY <1>8, <2>2
        <3>2. f[i] = OrderOf(f, i)
            BY <1>7, <3>1, Zenon
        <3> QED
            BY <1>9, <3>1, <3>2
    <2> QED
        BY <2>1, <2>2
<1>12. g = [i \in D(m) |-> OrderOf(g, i)]
    <2>1. g = [i \in D(m) |-> g[i]]
        BY Zenon
    <2>2. \A i \in D(m) : g[i] = OrderOf(g, i)
        BY <1>10, <1>11
    <2> HIDE DEF g
    <2> QED
        BY <2>1, <2>2, Zenon
<1>13. Exists(m)
    <2> HIDE DEF g
    <2> QED
        BY <1>12, Zenon DEF Exists
<1> QED
    BY <1>5, <1>13

(* The walk from every entry. *)
Walk ==
    LET f[i \in 0 .. Len(entries)] ==
            IF i = 0 THEN <<>>
            ELSE <<i>> \o f[entries[i].child] \o f[entries[i].next]
    IN  f

(* The walk satisfies its equations, and Preorder is that from the root. *)
LEMMA WalkEquals ==
    ASSUME TreeOK
    PROVE  /\ Preorder = Walk[1]
           /\ Walk = [i \in 0 .. Len(entries) |-> OrderOf(Walk, i)]
<1>1. PICK f : f = [i \in 0 .. Len(entries) |-> OrderOf(f, i)]
    BY OrderExists
<1>2. Walk = [i \in 0 .. Len(entries) |-> OrderOf(Walk, i)]
    BY <1>1, Zenon DEF Walk, OrderOf
<1>3. Preorder = Walk[1]
    BY Zenon DEF Preorder, Walk
<1> QED
    BY <1>2, <1>3

-----------------------------------------------------------------------------
(* The blocks around an entry.                                             *)

Entries == 1 .. Len(entries)

(* Sets that have the parents of their entries. *)
Closed(S) == \A y \in S : entries[y].parent # 0 => entries[y].parent \in S

(* Entry x, its parent, and so on: what every closed set with x has. *)
Around(x) ==
    {e \in Entries : \A S \in SUBSET Entries : x \in S /\ Closed(S) => e \in S}

(* The parent of an entry was made before it. *)
LEMMA ParentIs ==
    ASSUME TreeOK, NEW x \in Entries
    PROVE  /\ x \in Nat /\ entries[x].parent \in Nat /\ entries[x].parent < x
           /\ entries[x].parent # 0 => entries[x].parent \in Entries
<1>1. Len(entries) \in Nat /\ x \in 1 .. Len(entries)
    BY DEF TreeOK, Entries
<1>2. entries[x].parent \in Nat /\ entries[x].parent < x
    BY <1>1, EntryFields DEF TreeOK, Linked
<1> QED
    BY <1>1, <1>2 DEF Entries

(* An entry is around itself, with its parent if that is. *)
LEMMA AroundIs ==
    ASSUME TreeOK, NEW x \in Entries
    PROVE  /\ x \in Around(x)
           /\ Closed(Around(x))
           /\ entries[x].parent # 0 => entries[x].parent \in Around(x)
           /\ Around(x) \subseteq Entries
<1>1. x \in Around(x)
    BY DEF Around
<1>2. Closed(Around(x))
    <2> SUFFICES ASSUME NEW y \in Around(x), entries[y].parent # 0
                 PROVE  entries[y].parent \in Around(x)
        BY DEF Closed
    <2>1. entries[y].parent \in Entries
        BY ParentIs DEF Around
    <2>2. ASSUME NEW S \in SUBSET Entries, x \in S, Closed(S)
          PROVE  entries[y].parent \in S
        BY <2>2 DEF Around, Closed
    <2> QED
        BY <2>1, <2>2 DEF Around
<1> QED
    BY <1>1, <1>2 DEF Closed, Around

(* A closed set with x has everything around x. *)
LEMMA AroundLeast ==
    ASSUME NEW x, NEW S \in SUBSET Entries, x \in S, Closed(S)
    PROVE  Around(x) \subseteq S
BY DEF Around

(* What is around an entry is the entry or around its parent. *)
LEMMA AroundParent ==
    ASSUME TreeOK, NEW x \in Entries, NEW e \in Around(x), e # x
    PROVE  entries[x].parent # 0 /\ e \in Around(entries[x].parent)
<1> DEFINE p == entries[x].parent
<1>1. CASE p = 0
    <2>1. {x} \in SUBSET Entries /\ x \in {x} /\ Closed({x})
        BY <1>1 DEF Closed
    <2>2. e \in {x}
        BY <2>1, AroundLeast
    <2> QED
        BY <2>2
<1>2. CASE p # 0
    <2>1. p \in Entries
        BY <1>2, ParentIs
    <2>2. p \in Around(p) /\ Closed(Around(p)) /\ Around(p) \subseteq Entries
        BY <2>1, AroundIs
    <2>3. Closed({x} \cup Around(p))
        BY <2>2 DEF Closed
    <2>4. e \in {x} \cup Around(p)
        BY <2>2, <2>3, AroundLeast
    <2> QED
        BY <1>2, <2>4
<1> QED
    BY <1>1, <1>2

-----------------------------------------------------------------------------
(* The preorder.                                                           *)

(* Sequence s is i, then c, then n. *)
Joined(s, i, c, n) ==
    /\ Len(s) = 1 + Len(c) + Len(n) /\ s[1] = i
    /\ \A k \in 1 .. Len(c) : s[1 + k] = c[k]
    /\ \A k \in 1 .. Len(n) : s[1 + Len(c) + k] = n[k]

(* What the concatenations in Preorder are. *)
LEMMA Parts ==
    ASSUME NEW S, NEW i \in S, NEW c \in Seq(S), NEW n \in Seq(S)
    PROVE  <<i>> \o c \o n \in Seq(S) /\ Joined(<<i>> \o c \o n, i, c, n)
<1> DEFINE t == <<i>> \o c
           s == t \o n
<1>1. /\ t \in Seq(S) /\ Len(t) = 1 + Len(c) /\ t[1] = i
      /\ \A k \in 1 .. Len(c) : t[1 + k] = c[k]
    OBVIOUS
<1> HIDE DEF t
<1>2. s \in Seq(S) /\ Len(s) = Len(t) + Len(n)
    BY <1>1, SMTT(30)
<1>3. \A k \in 1 .. Len(t) : s[k] = t[k]
    BY <1>1
<1>4. \A k \in 1 .. Len(n) : s[Len(t) + k] = n[k]
    BY <1>1
<1>5. Len(c) \in Nat /\ Len(n) \in Nat
    OBVIOUS
<1> HIDE DEF s
<1>6. s[1] = i
    BY <1>1, <1>3, <1>5
<1>7. \A k \in 1 .. Len(c) : s[1 + k] = c[k]
    <2> TAKE k \in 1 .. Len(c)
    <2>1. 1 + k \in 1 .. Len(t)
        BY <1>1, <1>5
    <2> QED
        BY <1>1, <1>3, <2>1
<1>8. \A k \in 1 .. Len(n) : s[1 + Len(c) + k] = n[k]
    BY <1>1, <1>4
<1>9. /\ s \in Seq(S) /\ Len(s) = 1 + Len(c) + Len(n) /\ s[1] = i
      /\ \A k \in 1 .. Len(c) : s[1 + k] = c[k]
      /\ \A k \in 1 .. Len(n) : s[1 + Len(c) + k] = n[k]
    BY <1>1, <1>2, <1>6, <1>7, <1>8
<1> QED
    BY <1>9, Zenon DEF Joined, s, t

Elems(s) == {s[k] : k \in 1 .. Len(s)}

(* The walk from entry i starts there.  The parent of an entry it meets is *)
(* that of i or was met, and has its child; that of i is around each of    *)
(* them; and an entry is met behind one that its parent is around.         *)
IsWalk(s, i) ==
    /\ s \in Seq(Entries) /\ Len(s) > 0 /\ s[1] = i
    /\ \A x \in Elems(s) :
          \/ entries[x].parent = entries[i].parent
          \/ /\ entries[x].parent \in Elems(s)
             /\ entries[entries[x].parent].child # 0
    /\ entries[i].parent # 0 => \A x \in Elems(s) : entries[i].parent \in Around(x)
    /\ \A k \in 1 .. Len(s) - 1 :
          entries[s[k + 1]].parent # 0 => entries[s[k + 1]].parent \in Around(s[k])

(* A walk is made of those of the child and of the next entry. *)
LEMMA WalkStep ==
    ASSUME TreeOK, NEW i \in Entries,
           entries[i].child # 0 => IsWalk(Walk[entries[i].child], entries[i].child),
           entries[i].next # 0 => IsWalk(Walk[entries[i].next], entries[i].next)
    PROVE  IsWalk(Walk[i], i)
<1> DEFINE p == entries[i].parent
           j == entries[i].child
           h == entries[i].next
           c == Walk[j]
           n == Walk[h]
           s == Walk[i]
           lc == Len(c)
           ln == Len(n)
<1>1. /\ Len(entries) \in Nat /\ i \in 1 .. Len(entries)
      /\ j = 0 \/ (j \in Entries /\ entries[j].parent = i)
      /\ h = 0 \/ (h \in Entries /\ entries[h].parent = p)
    <2>1. Len(entries) \in Nat /\ i \in 1 .. Len(entries)
        BY DEF TreeOK, Entries
    <2>2. /\ j # 0 => j \in i + 1 .. Len(entries) /\ entries[j].parent = i
          /\ h # 0 => h \in i + 1 .. Len(entries) /\ entries[h].parent = p
        BY <2>1 DEF TreeOK, Linked
    <2> QED
        BY <2>1, <2>2 DEF Entries
<1>2. s = <<i>> \o c \o n
    <2>1. i \in 0 .. Len(entries) /\ i # 0
        BY <1>1
    <2>2. s = OrderOf(Walk, i)
        BY <2>1, WalkEquals, Zenon
    <2> QED
        BY <2>1, <2>2 DEF OrderOf
<1>3. j = 0 => c = <<>>
    <2>1. 0 \in 0 .. Len(entries)
        BY <1>1
    <2>2. Walk[0] = OrderOf(Walk, 0)
        BY <2>1, WalkEquals, Zenon
    <2> QED
        BY <2>2 DEF OrderOf
<1>4. h = 0 => n = <<>>
    <2>1. 0 \in 0 .. Len(entries)
        BY <1>1
    <2>2. Walk[0] = OrderOf(Walk, 0)
        BY <2>1, WalkEquals, Zenon
    <2> QED
        BY <2>2 DEF OrderOf
<1>5. c \in Seq(Entries) /\ n \in Seq(Entries) /\ lc \in Nat /\ ln \in Nat
    <2> DEFINE S == Seq(Entries)
    <2>0. <<>> \in S
        OBVIOUS
    <2>1. c \in S
        BY <1>3, <2>0, Zenon DEF IsWalk
    <2>2. n \in S
        BY <1>4, <2>0, Zenon DEF IsWalk
    <2> QED
        BY <2>1, <2>2
<1>6. /\ lc > 0 => j # 0 /\ c[1] = j
      /\ ln > 0 => h # 0 /\ n[1] = h
    BY <1>3, <1>4 DEF IsWalk
<1>7. /\ s \in Seq(Entries) /\ Len(s) = 1 + lc + ln /\ s[1] = i
      /\ \A k \in 1 .. lc : s[1 + k] = c[k]
      /\ \A k \in 1 .. ln : s[1 + lc + k] = n[k]
    <2>0. i \in Entries /\ c \in Seq(Entries) /\ n \in Seq(Entries)
        BY <1>5
    <2> HIDE DEF c, n
    <2>1. <<i>> \o c \o n \in Seq(Entries) /\ Joined(<<i>> \o c \o n, i, c, n)
        BY <2>0, Parts, Zenon
    <2> QED
        BY <1>2, <2>1, Zenon DEF Joined, lc, ln
<1>8. /\ lc > 0 => /\ \A x \in Elems(c) :
                         \/ entries[x].parent = i
                         \/ /\ entries[x].parent \in Elems(c)
                            /\ entries[entries[x].parent].child # 0
                   /\ \A x \in Elems(c) : i \in Around(x)
                   /\ \A k \in 1 .. lc - 1 :
                         entries[c[k + 1]].parent # 0
                            => entries[c[k + 1]].parent \in Around(c[k])
    <2> SUFFICES ASSUME lc > 0
                 PROVE  /\ \A x \in Elems(c) :
                             \/ entries[x].parent = i
                             \/ /\ entries[x].parent \in Elems(c)
                                /\ entries[entries[x].parent].child # 0
                        /\ \A x \in Elems(c) : i \in Around(x)
                        /\ \A k \in 1 .. lc - 1 :
                             entries[c[k + 1]].parent # 0
                                => entries[c[k + 1]].parent \in Around(c[k])
        OBVIOUS
    <2>1. IsWalk(c, j) /\ entries[j].parent = i /\ i # 0 /\ lc = Len(c)
        BY <1>1, <1>6
    <2> HIDE DEF c, j, lc
    <2> QED
        BY <2>1, Zenon DEF IsWalk
<1>9. /\ ln > 0 => /\ \A x \in Elems(n) :
                         \/ entries[x].parent = p
                         \/ /\ entries[x].parent \in Elems(n)
                            /\ entries[entries[x].parent].child # 0
                   /\ p # 0 => \A x \in Elems(n) : p \in Around(x)
                   /\ \A k \in 1 .. ln - 1 :
                         entries[n[k + 1]].parent # 0
                            => entries[n[k + 1]].parent \in Around(n[k])
    BY <1>1, <1>6 DEF IsWalk
<1> HIDE DEF s, c, n, lc, ln
<1>10. /\ Elems(s) = {i} \cup Elems(c) \cup Elems(n)
       /\ Elems(c) \subseteq Entries /\ Elems(n) \subseteq Entries
       /\ Elems(c) # {} => lc > 0
       /\ Elems(n) # {} => ln > 0
       /\ lc > 0 => c[1] \in Elems(c) /\ c[lc] \in Elems(c)
    <2>1. lc = Len(c) /\ ln = Len(n)
        BY DEF lc, ln
    <2>2. Elems(s) \subseteq {i} \cup Elems(c) \cup Elems(n)
        <3> SUFFICES ASSUME NEW k \in 1 .. 1 + lc + ln
                     PROVE  s[k] \in {i} \cup Elems(c) \cup Elems(n)
            BY <1>7 DEF Elems
        <3>1. CASE k = 1
            BY <1>7, <3>1
        <3>2. CASE k - 1 \in 1 .. lc
            <4>1. s[1 + (k - 1)] = c[k - 1] /\ 1 + (k - 1) = k
                BY <1>5, <1>7, <3>2
            <4> QED
                BY <2>1, <3>2, <4>1 DEF Elems
        <3>3. CASE k - 1 - lc \in 1 .. ln
            <4>1. s[1 + lc + (k - 1 - lc)] = n[k - 1 - lc] /\ 1 + lc + (k - 1 - lc) = k
                BY <1>5, <1>7, <3>3
            <4> QED
                BY <2>1, <3>3, <4>1 DEF Elems
        <3> QED
            BY <1>5, <3>1, <3>2, <3>3
    <2>3. i \in Elems(s)
        BY <1>5, <1>7 DEF Elems
    <2>4. Elems(c) \subseteq Elems(s)
        <3> SUFFICES ASSUME NEW k \in 1 .. lc PROVE c[k] \in Elems(s)
            BY <2>1 DEF Elems
        <3>1. 1 + k \in 1 .. Len(s)
            BY <1>5, <1>7
        <3> QED
            BY <1>7, <3>1 DEF Elems
    <2>5. Elems(n) \subseteq Elems(s)
        <3> SUFFICES ASSUME NEW k \in 1 .. ln PROVE n[k] \in Elems(s)
            BY <2>1 DEF Elems
        <3>1. 1 + lc + k \in 1 .. Len(s)
            BY <1>5, <1>7
        <3> QED
            BY <1>7, <3>1 DEF Elems
    <2>6. Elems(c) \subseteq Entries /\ Elems(n) \subseteq Entries
        BY <1>5 DEF Elems
    <2>7. /\ Elems(c) # {} => lc > 0
          /\ Elems(n) # {} => ln > 0
          /\ lc > 0 => c[1] \in Elems(c) /\ c[lc] \in Elems(c)
        BY <1>5, <2>1 DEF Elems
    <2> QED
        BY <2>2, <2>3, <2>4, <2>5, <2>6, <2>7
<1>11. ASSUME NEW x \in Elems(s)
       PROVE  \/ entries[x].parent = p
              \/ /\ entries[x].parent \in Elems(s)
                 /\ entries[entries[x].parent].child # 0
    <2>1. CASE x = i
        BY <2>1
    <2>2. CASE x \in Elems(c)
        BY <1>6, <1>8, <1>10, <2>2
    <2>3. CASE x \in Elems(n)
        BY <1>9, <1>10, <2>3
    <2> QED
        BY <1>10, <2>1, <2>2, <2>3
<1>12. ASSUME p # 0, NEW x \in Elems(s) PROVE p \in Around(x)
    <2>1. CASE x = i
        BY <1>12, <2>1, AroundIs
    <2>2. CASE x \in Elems(c)
        <3>1. i \in Around(x) /\ x \in Entries
            BY <1>8, <1>10, <2>2
        <3>2. Closed(Around(x))
            BY <3>1, AroundIs
        <3> QED
            BY <1>12, <3>1, <3>2 DEF Closed
    <2>3. CASE x \in Elems(n)
        BY <1>9, <1>10, <1>12, <2>3
    <2> QED
        BY <1>10, <2>1, <2>2, <2>3
<1>13. ASSUME NEW k \in 1 .. Len(s) - 1, entries[s[k + 1]].parent # 0
       PROVE  entries[s[k + 1]].parent \in Around(s[k])
    <2>0. /\ k \in 1 .. lc + ln
          /\ \/ k = 1 /\ lc > 0
             \/ k - 1 \in 1 .. lc - 1
             \/ k = 1 + lc /\ ln > 0
             \/ k - 1 - lc \in 1 .. ln - 1
        BY <1>5, <1>7
    <2>1. CASE k = 1 /\ lc > 0
        <3>1. s[k + 1] = c[1] /\ s[k] = i
            <4>1. s[1 + 1] = c[1]
                BY <1>5, <1>7, <2>1
            <4> QED
                BY <1>7, <2>1, <4>1
        <3>2. entries[s[k + 1]].parent = i
            BY <1>1, <1>6, <2>1, <3>1
        <3> QED
            BY <3>1, <3>2, AroundIs
    <2>2. CASE k - 1 \in 1 .. lc - 1
        <3> DEFINE m == k - 1
        <3>1. m \in 1 .. lc /\ m + 1 \in 1 .. lc /\ 1 + m = k /\ 1 + (m + 1) = k + 1 /\ lc > 0
            BY <1>5, <2>2
        <3>2. s[1 + m] = c[m] /\ s[1 + (m + 1)] = c[m + 1]
            BY <1>7, <3>1
        <3>3. m \in 1 .. lc - 1
            BY <2>2
        <3> HIDE DEF m
        <3>4. entries[c[m + 1]].parent # 0
            BY <1>13, <3>1, <3>2
        <3>5. entries[c[m + 1]].parent \in Around(c[m])
            BY <1>8, <3>1, <3>3, <3>4
        <3> QED
            BY <3>1, <3>2, <3>5
    <2>3. CASE k = 1 + lc /\ ln > 0
        <3>1. s[1 + lc + 1] = n[1] /\ 1 + lc + 1 = k + 1
            BY <1>5, <1>7, <2>3
        <3>2. entries[s[k + 1]].parent = p
            BY <1>1, <1>6, <2>3, <3>1
        <3>3. s[k] \in Elems(s)
            BY DEF Elems
        <3> QED
            BY <1>12, <1>13, <3>2, <3>3
    <2>4. CASE k - 1 - lc \in 1 .. ln - 1
        <3> DEFINE m == k - 1 - lc
        <3>1. /\ m \in 1 .. ln /\ m + 1 \in 1 .. ln /\ 1 + lc + m = k
              /\ 1 + lc + (m + 1) = k + 1 /\ ln > 0
            BY <1>5, <2>4
        <3>2. s[1 + lc + m] = n[m] /\ s[1 + lc + (m + 1)] = n[m + 1]
            BY <1>7, <3>1
        <3>3. m \in 1 .. ln - 1
            BY <2>4
        <3> HIDE DEF m
        <3>4. entries[n[m + 1]].parent # 0
            BY <1>13, <3>1, <3>2
        <3>5. entries[n[m + 1]].parent \in Around(n[m])
            BY <1>9, <3>1, <3>3, <3>4
        <3> QED
            BY <3>1, <3>2, <3>5
    <2> QED
        BY <2>0, <2>1, <2>2, <2>3, <2>4
<1>14. s \in Seq(Entries) /\ Len(s) > 0 /\ s[1] = i
    BY <1>5, <1>7
<1> QED
    BY <1>11, <1>12, <1>13, <1>14 DEF IsWalk, s

(* The walk from every entry is as IsWalk says. *)
LEMMA WalksAre ==
    ASSUME TreeOK
    PROVE  \A i \in Entries : IsWalk(Walk[i], i)
<1> DEFINE N == Len(entries)
           T == {n \in 0 .. N : \E i \in Entries : n = N - i /\ ~IsWalk(Walk[i], i)}
<1>1. N \in Nat /\ Entries = 1 .. N
    BY DEF TreeOK, Entries
<1>2. SUFFICES ASSUME T # {} PROVE FALSE
    <2>1. \A i \in Entries : N - i \in 0 .. N
        BY <1>1
    <2> QED
        BY <1>2, <2>1
<1>3. PICK m \in T : \A k \in T : m <= k
    <2>1. T \in SUBSET Nat
        BY <1>1
    <2> HIDE DEF T
    <2> QED
        BY <1>2, <2>1, Least
<1>4. PICK i \in Entries : m = N - i /\ ~IsWalk(Walk[i], i)
    BY <1>3
<1>5. ASSUME NEW j \in i + 1 .. N PROVE IsWalk(Walk[j], j)
    <2>1. j \in Entries /\ N - j \in 0 .. N /\ ~(m <= N - j)
        BY <1>1, <1>4, <1>5
    <2> QED
        BY <1>3, <2>1
<1>6. /\ entries[i].child = 0 \/ entries[i].child \in i + 1 .. N
      /\ entries[i].next = 0 \/ entries[i].next \in i + 1 .. N
    BY <1>1, <1>4 DEF TreeOK, Linked
<1>7. IsWalk(Walk[i], i)
    BY <1>4, <1>5, <1>6, WalkStep
<1> QED
    BY <1>4, <1>7

(* The walk over the tree: the parents of its entries are in the tree and  *)
(* have a block, and each entry comes behind one its parent is around.     *)
LEMMA PreorderIs ==
    ASSUME TreeOK
    PROVE  /\ Preorder \in Seq(Entries) /\ Tree = Elems(Preorder)
           /\ Len(Preorder) \in Nat \ {0}
           /\ entries[Preorder[1]].parent = 0
           /\ \A k \in 1 .. Len(Preorder) - 1 :
                 entries[Preorder[k + 1]].parent # 0
                     => entries[Preorder[k + 1]].parent \in Around(Preorder[k])
<1>1. 1 \in Entries
    BY DEF TreeOK, Entries
<1>2. IsWalk(Preorder, 1)
    BY <1>1, WalksAre, WalkEquals
<1>3. entries[1].parent = 0
    BY <1>1, ParentIs
<1>4. Len(Preorder) \in Nat \ {0}
    BY <1>2 DEF IsWalk
<1> QED
    BY <1>2, <1>3, <1>4, Zenon DEF IsWalk, Tree, Elems

(* The parent of an entry in the tree is in the tree, and has a block. *)
LEMMA InTree ==
    ASSUME TreeOK, NEW x \in Tree
    PROVE  /\ x \in Entries
           /\ entries[x].parent # 0 =>
                 /\ entries[x].parent \in Tree
                 /\ entries[entries[x].parent].child # 0
<1>1. 1 \in Entries
    BY DEF TreeOK, Entries
<1>2. IsWalk(Preorder, 1)
    BY <1>1, WalksAre, WalkEquals
<1>3. entries[1].parent = 0
    BY <1>1, ParentIs
<1>4. Tree = Elems(Preorder) /\ Preorder \in Seq(Entries)
    BY PreorderIs
<1>5. x \in Entries
    BY <1>4 DEF Elems
<1> QED
    BY <1>2, <1>3, <1>4, <1>5 DEF IsWalk

-----------------------------------------------------------------------------
(* Braces.                                                                 *)

(* The lexemes that are braces. *)
Opening(k) == text[k] = "{"

Closing(k) == text[k] = "}"

(* The lexemes l before k. *)
Before(l, k) == {j \in 1 .. k - 1 : text[j] = l}

(* The braces that are open at k. *)
Opens(k) ==
    {j \in 1 .. k - 1 : Opening(j) /\ \A m \in j + 1 .. k : Depth(m) > Depth(j)}

(* One lexeme on, there is one more of that lexeme. *)
LEMMA BeforeStep ==
    ASSUME NEW l, NEW k \in Nat \ {0}
    PROVE  /\ Cardinality(Before(l, k)) \in Nat
           /\ Cardinality(Before(l, k + 1)) =
                Cardinality(Before(l, k)) + (IF text[k] = l THEN 1 ELSE 0)
<1>1. IsFiniteSet(1 .. k - 1)
    BY FS_Interval
<1>2. IsFiniteSet(Before(l, k))
    BY <1>1, FS_Subset DEF Before
<1>3. Before(l, k + 1) = IF text[k] = l THEN Before(l, k) \cup {k} ELSE Before(l, k)
    BY DEF Before
<1>4. k \notin Before(l, k)
    BY DEF Before
<1>5. Cardinality(Before(l, k)) \in Nat
    BY <1>2, FS_CardinalityType
<1>6. Cardinality(Before(l, k) \cup {k}) = Cardinality(Before(l, k)) + 1
    BY <1>2, <1>4, FS_AddElement
<1> QED
    BY <1>3, <1>5, <1>6

(* The depth changes at braces only. *)
LEMMA DepthStep ==
    ASSUME NEW k \in Nat \ {0}
    PROVE  /\ Depth(k) \in Int
           /\ Opening(k) => Depth(k + 1) = Depth(k) + 1
           /\ Closing(k) => Depth(k + 1) = Depth(k) - 1
           /\ ~Opening(k) /\ ~Closing(k) => Depth(k + 1) = Depth(k)
<1> DEFINE o == Cardinality(Before("{", k))
           c == Cardinality(Before("}", k))
           o2 == Cardinality(Before("{", k + 1))
           c2 == Cardinality(Before("}", k + 1))
<1>1. Depth(k) = o - c
    BY Zenon DEF Depth, Before
<1>2. Depth(k + 1) = o2 - c2
    BY Zenon DEF Depth, Before
<1>3. o \in Nat /\ o2 = o + (IF Opening(k) THEN 1 ELSE 0)
    BY BeforeStep, Zenon DEF Opening
<1>4. c \in Nat /\ c2 = c + (IF Closing(k) THEN 1 ELSE 0)
    BY BeforeStep, Zenon DEF Closing
<1>5. ~(Opening(k) /\ Closing(k))
    BY Zenon DEF Opening, Closing
<1> HIDE DEF o, c, o2, c2
<1> QED
    BY <1>1, <1>2, <1>3, <1>4, <1>5

(* The last of the open braces is the innermost. *)
LEMMA OpenIs ==
    ASSUME NEW k \in Nat \ {0}
    PROVE  /\ OpenAt(k) \in Nat /\ OpenAt(k) < k
           /\ OpenAt(k) = 0 => Opens(k) = {}
           /\ OpenAt(k) # 0 => OpenAt(k) \in Opens(k)
           /\ \A j \in Opens(k) : j <= OpenAt(k)
<1>1. OpenAt(k) = IF Opens(k) = {} THEN 0 ELSE Last(Opens(k))
    BY Zenon DEF OpenAt, Opens, Opening
<1>2. Opens(k) \in SUBSET (1 .. k - 1) /\ k - 1 \in Nat
    BY DEF Opens
<1>3. CASE Opens(k) = {}
    BY <1>1, <1>3
<1>4. CASE Opens(k) # {}
    <2>1. Last(Opens(k)) \in Opens(k) /\ \A j \in Opens(k) : j <= Last(Opens(k))
        BY <1>2, <1>4, Greatest
    <2>2. Last(Opens(k)) \in 1 .. k - 1
        BY <1>2, <2>1
    <2> QED
        BY <1>1, <1>4, <2>1, <2>2
<1> QED
    BY <1>3, <1>4

(* With the same braces open, the innermost is the same. *)
LEMMA SameOpens ==
    ASSUME NEW k, NEW m, Opens(k) = Opens(m)
    PROVE  OpenAt(k) = OpenAt(m)
BY Zenon DEF OpenAt, Opens, Opening

(* A lexeme that is no brace leaves the same braces open. *)
LEMMA OpenOther ==
    ASSUME NEW k \in Nat \ {0}, ~Opening(k), ~Closing(k)
    PROVE  Opens(k + 1) = Opens(k) /\ OpenAt(k + 1) = OpenAt(k)
<1>1. Depth(k + 1) = Depth(k)
    BY DepthStep
<1>2. ASSUME NEW j \in 1 .. k - 1
      PROVE  (\A m \in j + 1 .. k + 1 : Depth(m) > Depth(j))
                <=> (\A m \in j + 1 .. k : Depth(m) > Depth(j))
    <2>1. k \in j + 1 .. k
        OBVIOUS
    <2>2. j + 1 .. k + 1 = (j + 1 .. k) \cup {k + 1}
        OBVIOUS
    <2> QED
        BY <1>1, <2>1, <2>2
<1>3. \A j \in 1 .. k : Opening(j) => j \in 1 .. k - 1
    OBVIOUS
<1>4. Opens(k + 1) = Opens(k)
    BY <1>2, <1>3 DEF Opens
<1> QED
    BY <1>4, SameOpens

(* Behind a lexeme no other braces are open but that lexeme. *)
LEMMA OpensStep ==
    ASSUME NEW k \in Nat \ {0}
    PROVE  Opens(k + 1) \subseteq Opens(k) \cup {k}
BY DEF Opens

(* An opening brace is the innermost behind it. *)
LEMMA OpenOpening ==
    ASSUME NEW k \in Nat \ {0}, Opening(k)
    PROVE  OpenAt(k + 1) = k
<1>1. Depth(k + 1) > Depth(k)
    BY DepthStep
<1>2. k \in Opens(k + 1)
    BY <1>1 DEF Opens
<1>3. OpenAt(k + 1) \in Nat /\ OpenAt(k + 1) < k + 1 /\ k <= OpenAt(k + 1)
    BY <1>2, OpenIs
<1> QED
    BY <1>3

(* Behind a closing brace those are open that were open at the brace it    *)
(* closes.                                                                 *)
LEMMA OpenClosing ==
    ASSUME NEW k \in Nat \ {0}, Closing(k), NEW b, b = OpenAt(k), b # 0,
           Depth(k) = Depth(b) + 1
    PROVE  OpenAt(k + 1) = OpenAt(b)
<1>1. /\ b \in Opens(k) /\ b \in 1 .. k - 1
      /\ \A j \in Opens(k) : j <= b
    <2>1. b \in Opens(k) /\ \A j \in Opens(k) : j <= b
        BY OpenIs
    <2> QED
        BY <2>1 DEF Opens
<1>2. \A m \in 1 .. k + 1 : Depth(m) \in Int
    BY DepthStep
<1>3. Depth(k + 1) = Depth(b)
    BY <1>1, <1>2, DepthStep
<1>4. \A m \in b + 1 .. k : Depth(m) > Depth(b)
    BY <1>1 DEF Opens
<1>5. ASSUME NEW j \in Opens(b) PROVE j \in Opens(k + 1)
    <2>1. /\ j \in 1 .. b - 1 /\ Opening(j)
          /\ \A m \in j + 1 .. b : Depth(m) > Depth(j)
        BY DEF Opens
    <2>2. Depth(b) > Depth(j) /\ Depth(j) \in Int
        BY <1>1, <1>2, <2>1
    <2>3. ASSUME NEW m \in j + 1 .. k + 1 PROVE Depth(m) > Depth(j)
        <3>1. m \in j + 1 .. b \/ m \in b + 1 .. k \/ m = k + 1
            BY <1>1, <2>1
        <3>2. Depth(m) \in Int /\ Depth(b) \in Int
            BY <1>1, <1>2, <2>1
        <3> QED
            BY <1>3, <1>4, <2>1, <2>2, <3>1, <3>2
    <2>4. j \in 1 .. k + 1 - 1
        BY <1>1, <2>1
    <2> QED
        BY <2>1, <2>3, <2>4 DEF Opens
<1>6. ASSUME NEW j \in Opens(k + 1) PROVE j \in Opens(b)
    <2>1. /\ j \in 1 .. k /\ Opening(j)
          /\ \A m \in j + 1 .. k + 1 : Depth(m) > Depth(j)
        BY DEF Opens
    <2>2. j # k
        BY <2>1, Zenon DEF Opening, Closing
    <2>3. j \in Opens(k)
        BY <2>1, <2>2 DEF Opens
    <2>4. Depth(k + 1) > Depth(j)
        BY <2>1
    <2>5. j # b
        BY <1>1, <1>2, <1>3, <2>4
    <2>6. j \in 1 .. b - 1
        BY <1>1, <2>1, <2>3, <2>5
    <2>7. \A m \in j + 1 .. b : Depth(m) > Depth(j)
        BY <1>1, <2>1, <2>6
    <2> QED
        BY <2>1, <2>6, <2>7 DEF Opens
<1>7. Opens(k + 1) = Opens(b)
    BY <1>5, <1>6
<1> QED
    BY <1>7, SameOpens


-----------------------------------------------------------------------------
(* The entries and the braces.  The brace of an entry is that of the block *)
(* it is in, 0 for those in none.                                          *)

(* Entry e has a name. *)
Named(e) == e.token # ""

(* The links of the entries es are numbers, and parents come before. *)
Shape(es) ==
    /\ Len(es) \in Nat
    /\ \A i \in 1 .. Len(es) :
         /\ es[i].parent \in Nat /\ es[i].parent < i
         /\ es[i].next \in Nat /\ es[i].at \in Nat

(* Names stand in the blocks of their entries. *)
Placed(es, n, brace) ==
    \A i \in 1 .. Len(es) :
        /\ es[i].parent = 0 <=> brace[i] = 0
        /\ ~Named(es[i]) => es[i].at = 0
        /\ Named(es[i]) => /\ es[i].at \in 1 .. n - 1
                           /\ OpenAt(es[i].at) = brace[i]

(* Blocks stand in the blocks of the entries they belong to; of an entry   *)
(* that is not the last of its block they are closed.                      *)
Blocks(es, n, brace) ==
    \A i \in 1 .. Len(es) :
        LET p == es[i].parent
        IN  p # 0 => /\ brace[i] \in 1 .. n - 1
                     /\ OpenAt(brace[i]) = brace[p]
                     /\ brace[p] # 0 => Depth(brace[i]) = Depth(brace[p]) + 1
                     /\ es[p].next # 0 => brace[i] \notin Opens(n)

(* An entry that no other follows is the last of its block; without a name *)
(* it is the only one.                                                     *)
Lasts(es, brace) ==
    \A i, j \in 1 .. Len(es) :
        es[i].next = 0 /\ j # i /\ brace[j] = brace[i] =>
            es[j].next # 0 /\ Named(es[i]) /\ es[j].at < es[i].at

(* The places between a name at a and the brace b of its block; those in   *)
(* front of both, if the brace is in front of the name.                    *)
Between(a, b) == IF a < b THEN a + 1 .. b - 1 ELSE 1 .. a - 1

(* Nothing behind name and block is between them. *)
LEMMA BehindBetween ==
    ASSUME NEW a \in Nat, NEW b \in Nat, NEW n \in Nat, a < n, b <= n
    PROVE  n \notin Between(a, b)
BY DEF Between

(* Between a name and its block there is no other name of its level. *)
Owners(es, brace) ==
    \A i, j \in 1 .. Len(es) :
        LET p == es[i].parent
        IN  p # 0 /\ Named(es[p]) /\ brace[j] = brace[p] =>
                es[j].at \notin Between(es[p].at, brace[i])

(* The current entry is the last of the block that is open. *)
Current(es, n, c, brace) ==
    /\ es[c].next = 0
    /\ OpenAt(n) = brace[c]
    /\ brace[c] # 0 => Depth(n) = Depth(brace[c]) + 1

(* At lexeme n, with entry c current, the entries es are in the blocks     *)
(* that begin at their braces.                                             *)
Nest(es, n, c, brace) ==
    /\ n \in Nat \ {0} /\ c \in 1 .. Len(es)
    /\ Shape(es)
    /\ brace \in [1 .. Len(es) -> Nat]
    /\ Placed(es, n, brace)
    /\ Blocks(es, n, brace)
    /\ Lasts(es, brace)
    /\ Owners(es, brace)
    /\ Current(es, n, c, brace)

(* Entry i is linked and named as before. *)
Same(es, fs, i) ==
    /\ fs[i].parent = es[i].parent /\ fs[i].next = es[i].next
    /\ fs[i].at = es[i].at
    /\ Named(fs[i]) <=> Named(es[i])

(* Behind a lexeme that is no brace the same entry is in the same block. *)
LEMMA CurrentStays ==
    ASSUME NEW es, NEW fs, NEW n, NEW c, NEW brace, Nest(es, n, c, brace),
           ~Opening(n), ~Closing(n), fs[c].next = 0
    PROVE  Current(fs, n + 1, c, brace)
<1>1. n \in Nat \ {0}
    BY DEF Nest
<1> QED
    BY <1>1, OpenOther, DepthStep DEF Nest, Current

(* Blocks stay where they are. *)
LEMMA BlocksStay ==
    ASSUME NEW es, NEW fs, NEW n \in Nat \ {0}, NEW brace, Blocks(es, n, brace),
           Len(fs) = Len(es), Opens(n + 1) = Opens(n),
           \A i \in 1 .. Len(es) :
             /\ fs[i].parent = es[i].parent /\ fs[i].next = es[i].next
             /\ es[i].parent # 0 => es[i].parent \in 1 .. Len(es)
    PROVE  Blocks(fs, n + 1, brace)
<1> SUFFICES ASSUME NEW i \in 1 .. Len(es), NEW p, p = es[i].parent, p # 0
             PROVE  /\ brace[i] \in 1 .. n
                    /\ OpenAt(brace[i]) = brace[p]
                    /\ brace[p] # 0 => Depth(brace[i]) = Depth(brace[p]) + 1
                    /\ fs[p].next # 0 => brace[i] \notin Opens(n)
    BY DEF Blocks
<1>1. p \in 1 .. Len(es)
    OBVIOUS
<1>2. /\ brace[i] \in 1 .. n - 1
      /\ OpenAt(brace[i]) = brace[p]
      /\ brace[p] # 0 => Depth(brace[i]) = Depth(brace[p]) + 1
      /\ es[p].next # 0 => brace[i] \notin Opens(n)
    BY DEF Blocks
<1> QED
    BY <1>1, <1>2

(* A lexeme that changes no links and no names. *)
LEMMA NestStays ==
    ASSUME NEW es, NEW fs, NEW n, NEW c, NEW brace, Nest(es, n, c, brace),
           ~Opening(n), ~Closing(n),
           Len(fs) = Len(es), \A i \in 1 .. Len(es) : Same(es, fs, i)
    PROVE  Nest(fs, n + 1, c, brace)
<1>1. /\ n \in Nat \ {0} /\ c \in 1 .. Len(es)
      /\ Len(es) \in Nat
      /\ \A i \in 1 .. Len(es) : es[i].parent \in Nat /\ es[i].parent < i
    BY DEF Nest, Shape
<1>2. Shape(fs)
    BY DEF Nest, Shape, Same
<1>3. Placed(fs, n + 1, brace)
    <2> SUFFICES ASSUME NEW i \in 1 .. Len(es)
                 PROVE  /\ es[i].parent = 0 <=> brace[i] = 0
                        /\ ~Named(es[i]) => es[i].at = 0
                        /\ Named(es[i]) => /\ es[i].at \in 1 .. n
                                           /\ OpenAt(es[i].at) = brace[i]
        BY <1>1 DEF Placed, Same
    <2> QED
        BY <1>1 DEF Nest, Placed
<1>4. Blocks(fs, n + 1, brace)
    <2>1. Opens(n + 1) = Opens(n)
        BY <1>1, OpenOther
    <2>2. \A i \in 1 .. Len(es) : es[i].parent # 0 => es[i].parent \in 1 .. Len(es)
        BY <1>1
    <2>3. \A i \in 1 .. Len(es) :
            fs[i].parent = es[i].parent /\ fs[i].next = es[i].next
        BY DEF Same
    <2> QED
        BY <1>1, <2>1, <2>2, <2>3, BlocksStay DEF Nest
<1>5. Lasts(fs, brace)
    BY DEF Nest, Lasts, Same
<1>6. Owners(fs, brace)
    <2>1. \A i \in 1 .. Len(es) : es[i].parent # 0 => es[i].parent \in 1 .. Len(es)
        BY <1>1
    <2> QED
        BY <2>1 DEF Nest, Owners, Same
<1>7. Current(fs, n + 1, c, brace)
    BY <1>1, CurrentStays DEF Nest, Current, Same
<1> QED
    BY <1>1, <1>2, <1>3, <1>4, <1>5, <1>6, <1>7 DEF Nest

(* The current entry gets its name. *)
LEMMA NestNamed ==
    ASSUME NEW es, NEW fs, NEW n, NEW c, NEW brace, Nest(es, n, c, brace),
           ~Opening(n), ~Closing(n), Len(fs) = Len(es),
           \A i \in 1 .. Len(es) : i # c => Same(es, fs, i),
           fs[c].parent = es[c].parent, fs[c].next = es[c].next,
           ~Named(es[c]), Named(fs[c]), fs[c].at = n
    PROVE  Nest(fs, n + 1, c, brace)
<1>1. /\ n \in Nat \ {0} /\ c \in 1 .. Len(es)
      /\ Len(es) \in Nat
      /\ \A i \in 1 .. Len(es) : es[i].parent \in Nat /\ es[i].parent < i
    BY DEF Nest, Shape
<1>2. \A i \in 1 .. Len(es) : es[i].parent # 0 => es[i].parent \in 1 .. Len(es)
    BY <1>1
<1>3. es[c].next = 0 /\ OpenAt(n) = brace[c]
    BY DEF Nest, Current
<1>4. \A i \in 1 .. Len(es) :
        /\ fs[i].parent = es[i].parent /\ fs[i].next = es[i].next
        /\ fs[i].at = IF i = c THEN n ELSE es[i].at
        /\ Named(fs[i]) <=> i = c \/ Named(es[i])
    BY DEF Same
<1>5. \A j \in 1 .. Len(es) : j # c => brace[j] # brace[c]
    BY <1>1, <1>3 DEF Nest, Lasts
<1>6. \A i \in 1 .. Len(es) : es[i].at \in Nat /\ es[i].at < n
    BY <1>1 DEF Nest, Shape, Placed
<1>7. Shape(fs)
    BY <1>1, <1>4 DEF Nest, Shape
<1>8. Placed(fs, n + 1, brace)
    BY <1>1, <1>3, <1>4 DEF Nest, Placed
<1>9. Blocks(fs, n + 1, brace)
    <2>1. Opens(n + 1) = Opens(n)
        BY <1>1, OpenOther
    <2> QED
        BY <1>1, <1>2, <1>4, <2>1, BlocksStay DEF Nest
<1>10. Lasts(fs, brace)
    BY <1>4, <1>5 DEF Nest, Lasts
<1>11. Owners(fs, brace)
    <2> SUFFICES ASSUME NEW i \in 1 .. Len(es), NEW j \in 1 .. Len(es), NEW p,
                        p = es[i].parent, p # 0, Named(fs[p]), brace[j] = brace[p]
                 PROVE  fs[j].at \notin Between(fs[p].at, brace[i])
        BY <1>4 DEF Owners
    <2>1. p \in 1 .. Len(es) /\ brace[i] \in 1 .. n - 1
        BY <1>1, <1>2 DEF Nest, Blocks
    <2>2. CASE p = c
        BY <1>1, <1>4, <1>5, <2>1, <2>2 DEF Between
    <2>3. CASE p # c /\ j = c
        BY <1>4, <1>5, <2>1, <2>3
    <2>4. CASE p # c /\ j # c
        BY <1>4, <2>1, <2>4 DEF Nest, Owners
    <2> QED
        BY <2>2, <2>3, <2>4
<1>12. Current(fs, n + 1, c, brace)
    BY <1>1, <1>3, <1>4, CurrentStays
<1> QED
    BY <1>1, <1>7, <1>8, <1>9, <1>10, <1>11, <1>12 DEF Nest


(* Behind a lexeme that is no brace, the current entry is followed by a    *)
(* new one with a name.                                                    *)
LEMMA NestFollows ==
    ASSUME NEW es, NEW fs, NEW n, NEW c, NEW brace, Nest(es, n, c, brace),
           ~Opening(n), ~Closing(n), NEW m, m = Len(es) + 1, Len(fs) = m,
           \A i \in 1 .. Len(es) : i # c => Same(es, fs, i),
           fs[c].parent = es[c].parent, fs[c].next = m, fs[c].at = es[c].at,
           Named(fs[c]) <=> Named(es[c]),
           fs[m].parent = es[c].parent, fs[m].next = 0, fs[m].at = n, Named(fs[m])
    PROVE  \E new : Nest(fs, n + 1, m, new)
<1> DEFINE new == [i \in 1 .. m |-> IF i = m THEN brace[c] ELSE brace[i]]
<1>1. /\ n \in Nat \ {0} /\ c \in 1 .. Len(es)
      /\ Len(es) \in Nat /\ m \in Nat /\ m \in 1 .. m
      /\ \A i \in 1 .. Len(es) : es[i].parent \in Nat /\ es[i].parent < i
    BY DEF Nest, Shape
<1>2. /\ \A i \in 1 .. Len(es) : i \in 1 .. m /\ i # m
      /\ \A i \in 1 .. m : i # m => i \in 1 .. Len(es)
    BY <1>1
<1>3. /\ \A i \in 1 .. Len(es) : es[i].parent # 0 => es[i].parent \in 1 .. Len(es)
      /\ es[c].parent # c
    BY <1>1
<1>4. es[c].next = 0 /\ OpenAt(n) = brace[c]
    BY DEF Nest, Current
<1>5. /\ new \in [1 .. m -> Nat]
      /\ new[m] = brace[c]
      /\ \A i \in 1 .. Len(es) : new[i] = brace[i]
    BY <1>1, <1>2 DEF Nest
<1>6. \A i \in 1 .. Len(es) :
        /\ fs[i].parent = es[i].parent
        /\ fs[i].next = IF i = c THEN m ELSE es[i].next
        /\ fs[i].at = es[i].at
        /\ Named(fs[i]) <=> Named(es[i])
    BY DEF Same
<1>7. \A i \in 1 .. Len(es) : es[i].at \in Nat /\ es[i].at < n
    BY <1>1 DEF Nest, Shape, Placed
<1> HIDE DEF new
<1>8. Shape(fs)
    <2>1. \A i \in 1 .. Len(es) : fs[i].parent \in Nat /\ fs[i].parent < i
                                  /\ fs[i].next \in Nat /\ fs[i].at \in Nat
        BY <1>1, <1>6 DEF Nest, Shape
    <2>2. fs[m].parent \in Nat /\ fs[m].parent < m /\ fs[m].next \in Nat /\ fs[m].at \in Nat
        BY <1>1
    <2> QED
        BY <1>1, <1>2, <2>1, <2>2 DEF Shape
<1>9. Placed(fs, n + 1, new)
    <2> SUFFICES ASSUME NEW i \in 1 .. m
                 PROVE  /\ fs[i].parent = 0 <=> new[i] = 0
                        /\ ~Named(fs[i]) => fs[i].at = 0
                        /\ Named(fs[i]) => /\ fs[i].at \in 1 .. n
                                           /\ OpenAt(fs[i].at) = new[i]
        BY <1>1 DEF Placed
    <2>1. CASE i = m
        BY <1>1, <1>4, <1>5, <2>1 DEF Nest, Placed
    <2>2. CASE i \in 1 .. Len(es)
        <3>1. /\ es[i].parent = 0 <=> brace[i] = 0
              /\ ~Named(es[i]) => es[i].at = 0
              /\ Named(es[i]) => /\ es[i].at \in 1 .. n - 1
                                 /\ OpenAt(es[i].at) = brace[i]
            BY <2>2 DEF Nest, Placed
        <3> QED
            BY <1>1, <1>5, <1>6, <2>2, <3>1
    <2> QED
        BY <1>2, <2>1, <2>2
<1>10. Blocks(fs, n + 1, new)
    <2>1. Opens(n + 1) = Opens(n)
        BY <1>1, OpenOther
    <2>2. ASSUME NEW i \in 1 .. Len(es), NEW p, p = es[i].parent, p # 0
          PROVE  /\ brace[i] \in 1 .. n - 1 /\ brace[i] \in Nat
                 /\ OpenAt(brace[i]) = brace[p]
                 /\ brace[p] # 0 => Depth(brace[i]) = Depth(brace[p]) + 1
                 /\ es[p].next # 0 => brace[i] \notin Opens(n)
        BY <2>2 DEF Nest, Blocks
    <2>3. ASSUME NEW i \in 1 .. Len(es), es[i].parent = c
          PROVE  brace[i] \notin Opens(n)
        <3>1. brace[i] \in 1 .. n - 1 /\ OpenAt(brace[i]) = brace[c]
            BY <1>1, <2>2, <2>3, SMTT(30)
        <3>2. brace[c] < brace[i]
            BY <3>1, OpenIs
        <3>3. \A j \in Opens(n) : j <= brace[c]
            BY <1>1, <1>4, OpenIs
        <3>4. brace[c] \in Nat
            BY DEF Nest
        <3> QED
            BY <3>1, <3>2, <3>3, <3>4
    <2> SUFFICES ASSUME NEW i \in 1 .. m, NEW p, p = fs[i].parent, p # 0
                 PROVE  /\ new[i] \in 1 .. n
                        /\ OpenAt(new[i]) = new[p]
                        /\ new[p] # 0 => Depth(new[i]) = Depth(new[p]) + 1
                        /\ fs[p].next # 0 => new[i] \notin Opens(n)
        BY <1>1, <2>1 DEF Blocks
    <2>4. CASE i = m
        <3>1. p \in 1 .. Len(es) /\ p # c /\ p = es[c].parent
            BY <1>1, <1>3, <2>4
        <3>2. /\ brace[c] \in 1 .. n - 1
              /\ OpenAt(brace[c]) = brace[p]
              /\ brace[p] # 0 => Depth(brace[c]) = Depth(brace[p]) + 1
              /\ es[p].next # 0 => brace[c] \notin Opens(n)
            BY <1>1, <2>2, <3>1
        <3>3. fs[p].next = es[p].next /\ new[p] = brace[p] /\ new[i] = brace[c]
            BY <1>5, <1>6, <2>4, <3>1
        <3> QED
            BY <1>1, <3>2, <3>3
    <2>5. CASE i \in 1 .. Len(es)
        <3>1. p \in 1 .. Len(es) /\ p = es[i].parent
            BY <1>3, <1>6, <2>5
        <3>2. new[p] = brace[p] /\ new[i] = brace[i]
            BY <1>5, <2>5, <3>1
        <3>3. fs[p].next # 0 => brace[i] \notin Opens(n)
            BY <1>6, <2>2, <2>3, <2>5, <3>1
        <3> QED
            BY <1>1, <2>2, <2>5, <3>1, <3>2, <3>3
    <2> QED
        BY <1>2, <2>4, <2>5
<1>11. Lasts(fs, new)
    <2> SUFFICES ASSUME NEW i \in 1 .. m, NEW j \in 1 .. m,
                        fs[i].next = 0, j # i, new[j] = new[i]
                 PROVE  fs[j].next # 0 /\ Named(fs[i]) /\ fs[j].at < fs[i].at
        BY DEF Lasts
    <2>1. CASE i = m
        <3>1. j \in 1 .. Len(es) /\ brace[j] = brace[c]
            BY <1>2, <1>5, <2>1
        <3>2. fs[j].next # 0
            BY <1>1, <1>4, <1>6, <3>1 DEF Nest, Lasts
        <3> QED
            BY <1>6, <1>7, <2>1, <3>1, <3>2
    <2>2. CASE i # m /\ j = m
        <3>1. i \in 1 .. Len(es) /\ brace[i] = brace[c] /\ i # c /\ es[i].next = 0
            BY <1>1, <1>2, <1>5, <1>6, <2>2
        <3> QED
            BY <1>1, <1>4, <3>1 DEF Nest, Lasts
    <2>3. CASE i # m /\ j # m
        <3>1. i \in 1 .. Len(es) /\ j \in 1 .. Len(es) /\ brace[i] = brace[j]
              /\ es[i].next = 0
            BY <1>1, <1>2, <1>5, <1>6, <2>3
        <3>2. es[j].next # 0 /\ Named(es[i]) /\ es[j].at < es[i].at
            BY <3>1 DEF Nest, Lasts
        <3> QED
            BY <1>1, <1>6, <3>1, <3>2
    <2> QED
        BY <2>1, <2>2, <2>3
<1>12. Owners(fs, new)
    <2> SUFFICES ASSUME NEW i \in 1 .. m, NEW j \in 1 .. m, NEW p,
                        p = fs[i].parent, p # 0, Named(fs[p]), new[j] = new[p]
                 PROVE  fs[j].at \notin Between(fs[p].at, new[i])
        BY DEF Owners
    <2> DEFINE k == IF i = m THEN c ELSE i
    <2>1. k \in 1 .. Len(es) /\ es[k].parent = p /\ new[i] = brace[k]
        BY <1>1, <1>2, <1>5, <1>6
    <2> HIDE DEF k
    <2>2. p \in 1 .. Len(es)
        BY <1>3, <2>1
    <2>3. fs[p].at = es[p].at /\ new[p] = brace[p] /\ Named(es[p])
        BY <1>5, <1>6, <2>2
    <2>4. CASE j = m
        <3>1. brace[k] \in 1 .. n - 1
            BY <2>1 DEF Nest, Blocks
        <3>2. es[p].at \in Nat /\ es[p].at < n
            BY <1>7, <2>2
        <3>3. n \notin Between(es[p].at, brace[k])
            <4>1. brace[k] \in Nat /\ brace[k] <= n
                BY <1>1, <3>1
            <4> QED
                BY <1>1, <3>2, <4>1, BehindBetween
        <3> QED
            BY <2>1, <2>2, <2>3, <2>4, <3>3
    <2>5. CASE j # m
        <3>1. j \in 1 .. Len(es) /\ brace[j] = brace[p] /\ fs[j].at = es[j].at
            BY <1>2, <1>5, <1>6, <2>2, <2>3, <2>5
        <3>2. es[j].at \notin Between(es[p].at, brace[k])
            BY <2>1, <2>2, <2>3, <3>1 DEF Nest, Owners
        <3> QED
            BY <2>1, <2>2, <2>3, <3>1, <3>2
    <2> QED
        BY <2>4, <2>5
<1>13. Current(fs, n + 1, m, new)
    <2>1. OpenAt(n + 1) = OpenAt(n) /\ Depth(n + 1) = Depth(n)
        BY <1>1, OpenOther, DepthStep
    <2> QED
        BY <1>5, <2>1 DEF Nest, Current
<1>14. Nest(fs, n + 1, m, new)
    BY <1>1, <1>5, <1>8, <1>9, <1>10, <1>11, <1>12, <1>13 DEF Nest
<1> QED
    BY <1>14


(* Behind an opening brace the current entry is a new one in its block.    *)
LEMMA NestOpens ==
    ASSUME NEW es, NEW fs, NEW n, NEW c, NEW brace, Nest(es, n, c, brace),
           Opening(n), NEW m, m = Len(es) + 1, Len(fs) = m,
           \A i \in 1 .. Len(es) : Same(es, fs, i),
           fs[m].parent = c, fs[m].next = 0, fs[m].at = 0, ~Named(fs[m])
    PROVE  \E new : Nest(fs, n + 1, m, new)
<1> DEFINE new == [i \in 1 .. m |-> IF i = m THEN n ELSE brace[i]]
<1>1. /\ n \in Nat \ {0} /\ c \in 1 .. Len(es)
      /\ Len(es) \in Nat /\ m \in Nat /\ m \in 1 .. m
      /\ \A i \in 1 .. Len(es) : es[i].parent \in Nat /\ es[i].parent < i
    BY DEF Nest, Shape
<1>2. /\ \A i \in 1 .. Len(es) : i \in 1 .. m /\ i # m
      /\ \A i \in 1 .. m : i # m => i \in 1 .. Len(es)
    BY <1>1
<1>3. \A i \in 1 .. Len(es) : es[i].parent # 0 => es[i].parent \in 1 .. Len(es)
    BY <1>1
<1>4. /\ es[c].next = 0 /\ OpenAt(n) = brace[c]
      /\ brace[c] # 0 => Depth(n) = Depth(brace[c]) + 1
    BY DEF Nest, Current
<1>5. /\ new \in [1 .. m -> Nat]
      /\ new[m] = n
      /\ \A i \in 1 .. Len(es) : new[i] = brace[i]
    BY <1>1, <1>2 DEF Nest
<1>6. \A i \in 1 .. Len(es) :
        /\ fs[i].parent = es[i].parent
        /\ fs[i].next = es[i].next
        /\ fs[i].at = es[i].at
        /\ Named(fs[i]) <=> Named(es[i])
    BY DEF Same
<1>7. \A i \in 1 .. Len(es) : es[i].at \in Nat /\ es[i].at < n
    BY <1>1 DEF Nest, Shape, Placed
<1>8. \A i \in 1 .. Len(es) : brace[i] \in Nat /\ brace[i] < n
    BY <1>1 DEF Nest, Blocks, Placed
<1> HIDE DEF new
<1>9. Shape(fs)
    <2>1. \A i \in 1 .. Len(es) : fs[i].parent \in Nat /\ fs[i].parent < i
                                  /\ fs[i].next \in Nat /\ fs[i].at \in Nat
        BY <1>1, <1>6 DEF Nest, Shape
    <2>2. fs[m].parent \in Nat /\ fs[m].parent < m /\ fs[m].next \in Nat /\ fs[m].at \in Nat
        BY <1>1
    <2> QED
        BY <1>1, <1>2, <2>1, <2>2 DEF Shape
<1>10. Placed(fs, n + 1, new)
    <2> SUFFICES ASSUME NEW i \in 1 .. m
                 PROVE  /\ fs[i].parent = 0 <=> new[i] = 0
                        /\ ~Named(fs[i]) => fs[i].at = 0
                        /\ Named(fs[i]) => /\ fs[i].at \in 1 .. n
                                           /\ OpenAt(fs[i].at) = new[i]
        BY <1>1 DEF Placed
    <2>1. CASE i = m
        BY <1>1, <1>5, <2>1
    <2>2. CASE i \in 1 .. Len(es)
        <3>1. /\ es[i].parent = 0 <=> brace[i] = 0
              /\ ~Named(es[i]) => es[i].at = 0
              /\ Named(es[i]) => /\ es[i].at \in 1 .. n - 1
                                 /\ OpenAt(es[i].at) = brace[i]
            BY <2>2 DEF Nest, Placed
        <3> QED
            BY <1>1, <1>5, <1>6, <2>2, <3>1
    <2> QED
        BY <1>2, <2>1, <2>2
<1>11. Blocks(fs, n + 1, new)
    <2>1. Opens(n + 1) \subseteq Opens(n) \cup {n}
        BY <1>1, OpensStep
    <2>2. ASSUME NEW i \in 1 .. Len(es), NEW p, p = es[i].parent, p # 0
          PROVE  /\ brace[i] \in 1 .. n - 1
                 /\ OpenAt(brace[i]) = brace[p]
                 /\ brace[p] # 0 => Depth(brace[i]) = Depth(brace[p]) + 1
                 /\ es[p].next # 0 => brace[i] \notin Opens(n)
        BY <2>2 DEF Nest, Blocks
    <2> SUFFICES ASSUME NEW i \in 1 .. m, NEW p, p = fs[i].parent, p # 0
                 PROVE  /\ new[i] \in 1 .. n
                        /\ OpenAt(new[i]) = new[p]
                        /\ new[p] # 0 => Depth(new[i]) = Depth(new[p]) + 1
                        /\ fs[p].next # 0 => new[i] \notin Opens(n + 1)
        BY <1>1 DEF Blocks
    <2>3. CASE i = m
        BY <1>1, <1>4, <1>5, <1>6, <2>3
    <2>4. CASE i \in 1 .. Len(es)
        <3>1. p \in 1 .. Len(es) /\ p = es[i].parent
            BY <1>3, <1>6, <2>4
        <3>2. new[p] = brace[p] /\ new[i] = brace[i] /\ fs[p].next = es[p].next
            BY <1>5, <1>6, <2>4, <3>1
        <3>3. /\ brace[i] \in 1 .. n - 1
              /\ OpenAt(brace[i]) = brace[p]
              /\ brace[p] # 0 => Depth(brace[i]) = Depth(brace[p]) + 1
              /\ es[p].next # 0 => brace[i] \notin Opens(n)
            BY <2>2, <2>4, <3>1
        <3>4. brace[i] \in 1 .. n /\ brace[i] # n
            BY <1>1, <3>3
        <3> QED
            BY <2>1, <3>2, <3>3, <3>4
    <2> QED
        BY <1>2, <2>3, <2>4
<1>12. Lasts(fs, new)
    <2> SUFFICES ASSUME NEW i \in 1 .. m, NEW j \in 1 .. m,
                        fs[i].next = 0, j # i, new[j] = new[i]
                 PROVE  fs[j].next # 0 /\ Named(fs[i]) /\ fs[j].at < fs[i].at
        BY DEF Lasts
    <2>1. i \in 1 .. Len(es) /\ j \in 1 .. Len(es) /\ brace[j] = brace[i]
        BY <1>1, <1>2, <1>5, <1>8
    <2>2. es[j].next # 0 /\ Named(es[i]) /\ es[j].at < es[i].at
        BY <1>6, <2>1 DEF Nest, Lasts
    <2> QED
        BY <1>6, <2>1, <2>2
<1>13. Owners(fs, new)
    <2> SUFFICES ASSUME NEW i \in 1 .. m, NEW j \in 1 .. m, NEW p,
                        p = fs[i].parent, p # 0, Named(fs[p]), new[j] = new[p]
                 PROVE  fs[j].at \notin Between(fs[p].at, new[i])
        BY DEF Owners
    <2>0. p \in 1 .. Len(es)
        BY <1>1, <1>2, <1>3, <1>6
    <2>1. /\ p \in 1 .. Len(es) /\ fs[p].at = es[p].at /\ new[p] = brace[p]
          /\ Named(es[p])
        BY <1>5, <1>6, <2>0
    <2>2. j \in 1 .. Len(es) /\ brace[j] = brace[p] /\ fs[j].at = es[j].at
        BY <1>1, <1>2, <1>5, <1>6, <1>8, <2>1
    <2>3. CASE i = m
        <3>1. es[j].at <= es[c].at /\ p = c /\ new[i] = n
            <4>1. p = c /\ new[i] = n
                BY <1>5, <2>3
            <4>2. j # c => es[j].at < es[c].at
                BY <1>1, <1>4, <2>2, <4>1 DEF Nest, Lasts
            <4>3. es[j].at \in Nat /\ es[c].at \in Nat
                BY <1>1, <1>7, <2>2
            <4> QED
                BY <4>1, <4>2, <4>3
        <3>2. es[j].at \in Nat /\ es[c].at \in Nat /\ es[c].at < n
            BY <1>1, <1>7, <2>2
        <3>3. es[j].at \notin Between(es[c].at, n)
            BY <1>1, <3>1, <3>2 DEF Between
        <3> QED
            BY <2>1, <2>2, <3>1, <3>3
    <2>4. CASE i \in 1 .. Len(es)
        <3>1. es[i].parent = p /\ new[i] = brace[i]
            BY <1>5, <1>6, <2>4
        <3>2. es[j].at \notin Between(es[p].at, brace[i])
            BY <2>1, <2>2, <2>4, <3>1 DEF Nest, Owners
        <3> QED
            BY <2>1, <2>2, <3>1, <3>2
    <2> QED
        BY <1>2, <2>3, <2>4
<1>14. Current(fs, n + 1, m, new)
    BY <1>1, <1>5, OpenOpening, DepthStep DEF Current
<1>15. Nest(fs, n + 1, m, new)
    BY <1>1, <1>5, <1>9, <1>10, <1>11, <1>12, <1>13, <1>14 DEF Nest
<1> QED
    BY <1>15

(* Behind a closing brace the entry is current again to which the block    *)
(* belongs.                                                                *)
LEMMA NestCloses ==
    ASSUME NEW es, NEW fs, NEW n, NEW c, NEW brace, Nest(es, n, c, brace),
           Closing(n), NEW p, p = es[c].parent, p # 0,
           Len(fs) = Len(es), \A i \in 1 .. Len(es) : Same(es, fs, i)
    PROVE  Nest(fs, n + 1, p, brace)
<1>1. /\ n \in Nat \ {0} /\ c \in 1 .. Len(es)
      /\ Len(es) \in Nat
      /\ \A i \in 1 .. Len(es) : es[i].parent \in Nat /\ es[i].parent < i
    BY DEF Nest, Shape
<1>2. \A i \in 1 .. Len(es) : es[i].parent # 0 => es[i].parent \in 1 .. Len(es)
    BY <1>1
<1>3. p \in 1 .. Len(es)
    BY <1>1, <1>2
<1>4. \A i \in 1 .. Len(es) :
        /\ fs[i].parent = es[i].parent
        /\ fs[i].next = es[i].next
        /\ fs[i].at = es[i].at
        /\ Named(fs[i]) <=> Named(es[i])
    BY DEF Same
<1>5. Shape(fs)
    BY <1>4 DEF Nest, Shape
<1>6. Placed(fs, n + 1, brace)
    BY <1>1, <1>4 DEF Nest, Placed
<1>7. Blocks(fs, n + 1, brace)
    <2>1. Opens(n + 1) \subseteq Opens(n) \cup {n}
        BY <1>1, OpensStep
    <2> SUFFICES ASSUME NEW i \in 1 .. Len(es), NEW q, q = es[i].parent, q # 0
                 PROVE  /\ brace[i] \in 1 .. n
                        /\ OpenAt(brace[i]) = brace[q]
                        /\ brace[q] # 0 => Depth(brace[i]) = Depth(brace[q]) + 1
                        /\ fs[q].next # 0 => brace[i] \notin Opens(n + 1)
        BY <1>1, <1>4 DEF Blocks
    <2>2. /\ brace[i] \in 1 .. n - 1
          /\ OpenAt(brace[i]) = brace[q]
          /\ brace[q] # 0 => Depth(brace[i]) = Depth(brace[q]) + 1
          /\ es[q].next # 0 => brace[i] \notin Opens(n)
        BY DEF Nest, Blocks
    <2>3. brace[i] \in 1 .. n /\ brace[i] # n
        BY <1>1, <2>2
    <2>4. q \in 1 .. Len(es)
        BY <1>2
    <2> QED
        BY <1>4, <2>1, <2>2, <2>3, <2>4
<1>8. Lasts(fs, brace)
    BY <1>4 DEF Nest, Lasts
<1>9. Owners(fs, brace)
    BY <1>2, <1>4 DEF Nest, Owners
<1>10. Current(fs, n + 1, p, brace)
    <2>1. /\ OpenAt(n) = brace[c] /\ brace[c] # 0
          /\ Depth(n) = Depth(brace[c]) + 1
        BY <1>1 DEF Nest, Current, Placed
    <2>2. brace[c] \in Opens(n)
        BY <1>1, <2>1, OpenIs
    <2>3. /\ OpenAt(brace[c]) = brace[p]
          /\ brace[p] # 0 => Depth(brace[c]) = Depth(brace[p]) + 1
          /\ es[p].next = 0
        BY <1>1, <2>2 DEF Nest, Blocks
    <2>4. OpenAt(n + 1) = brace[p]
        BY <1>1, <2>1, <2>3, OpenClosing
    <2>5. Depth(n + 1) = Depth(brace[c])
        <3>1. Depth(brace[c]) \in Int
            BY <1>1, DepthStep DEF Nest, Blocks
        <3> QED
            BY <1>1, <2>1, <3>1, DepthStep
    <2> QED
        BY <1>3, <1>4, <2>3, <2>4, <2>5 DEF Current
<1> QED
    BY <1>1, <1>3, <1>5, <1>6, <1>7, <1>8, <1>9, <1>10 DEF Nest


-----------------------------------------------------------------------------
(* The steps of libconf_parse.                                             *)

(* A lexeme is not empty. *)
Filled(l) == l # ""

(* fs is es with x as entry e. *)
Changed(es, e, x, fs) == fs = [es EXCEPT ![e] = x]

(* gs has the new entry y besides. *)
Extended(es, e, x, y, gs) == gs = Append([es EXCEPT ![e] = x], y)

(* An entry of es exchanged for x leaves the others. *)
LEMMA Exchanged ==
    ASSUME NEW es \in Seq(CEntry), NEW e \in 1 .. Len(es), NEW x, NEW fs,
           Changed(es, e, x, fs)
    PROVE  /\ Len(fs) = Len(es) /\ fs[e] = x
           /\ \A i \in 1 .. Len(es) : i # e => fs[i] = es[i] /\ Same(es, fs, i)
<1>1. Len(fs) = Len(es) /\ fs[e] = x /\ \A i \in 1 .. Len(es) : i # e => fs[i] = es[i]
    BY DEF Changed
<1> QED
    BY <1>1 DEF Same

(* A word becomes the name of an entry that has none, else its value. *)
LEMMA StoredNames ==
    ASSUME NEW es \in Seq(CEntry), NEW e \in 1 .. Len(es), NEW l, Filled(l)
    PROVE  LET fs == Stored(es, e, l)
           IN  /\ Len(fs) = Len(es)
               /\ \A i \in 1 .. Len(es) : i # e => Same(es, fs, i)
               /\ fs[e].parent = es[e].parent /\ fs[e].next = es[e].next
               /\ ~Named(es[e]) => Named(fs[e]) /\ fs[e].at = pos
               /\ Named(es[e]) => Same(es, fs, e)
<1>1. es[e] \in CEntry
    OBVIOUS
<1>2. CASE es[e].token = ""
    <2> DEFINE x == [es[e] EXCEPT !.token = l, !.at = pos]
    <2>1. Changed(es, e, x, Stored(es, e, l))
        BY <1>2 DEF Stored, Changed
    <2>2. /\ x.token = l /\ x.at = pos
          /\ x.parent = es[e].parent /\ x.next = es[e].next
        BY <1>1 DEF CEntry
    <2> HIDE DEF x
    <2>3. Named(x) /\ ~Named(es[e])
        BY <1>2, <2>2, Zenon DEF Named, Filled
    <2> QED
        BY <2>1, <2>2, <2>3, Exchanged
<1>3. CASE es[e].token # ""
    <2> DEFINE x == [es[e] EXCEPT !.value = l]
    <2>1. Changed(es, e, x, Stored(es, e, l))
        BY <1>3 DEF Stored, Changed
    <2>2. /\ x.token = es[e].token /\ x.at = es[e].at
          /\ x.parent = es[e].parent /\ x.next = es[e].next
        BY <1>1 DEF CEntry
    <2> HIDE DEF x
    <2>3. Named(x) /\ Named(es[e])
        BY <1>3, <2>2, Zenon DEF Named
    <2>4. \A fs : fs[e] = x => Same(es, fs, e)
        BY <2>2, <2>3 DEF Same
    <2> QED
        BY <2>1, <2>2, <2>3, <2>4, Exchanged
<1> QED
    BY <1>2, <1>3

(* A new entry has no name. *)
LEMMA NewNames ==
    ASSUME NEW p
    PROVE  /\ Entry(p).parent = p /\ Entry(p).next = 0 /\ Entry(p).at = 0
           /\ ~Named(Entry(p))
BY DEF Entry, Named

(* The entries with a new one at the end, and another one changed. *)
LEMMA AppendedNames ==
    ASSUME NEW es \in Seq(CEntry), NEW e \in 1 .. Len(es), NEW x \in CEntry,
           NEW y \in CEntry, NEW gs, Extended(es, e, x, y, gs)
    PROVE  /\ Len(gs) = Len(es) + 1 /\ gs[Len(es) + 1] = y /\ gs[e] = x
           /\ \A i \in 1 .. Len(es) : i # e => gs[i] = es[i] /\ Same(es, gs, i)
<1> DEFINE fs == [es EXCEPT ![e] = x]
<1>1. fs \in Seq(CEntry) /\ Len(fs) = Len(es) /\ Len(es) \in Nat
    OBVIOUS
<1>2. fs[e] = x /\ \A i \in 1 .. Len(es) : i # e => fs[i] = es[i]
    OBVIOUS
<1> HIDE DEF fs
<1>3. gs = Append(fs, y)
    BY DEF fs, Extended
<1>4. /\ Len(gs) = Len(es) + 1 /\ gs[Len(es) + 1] = y
      /\ \A i \in 1 .. Len(es) : gs[i] = fs[i]
    BY <1>1, <1>3
<1> QED
    BY <1>2, <1>4 DEF Same

(* The lexeme that is read. *)
LEMMA LexemeIs ==
    ASSUME TreeOK, text \in Files, GetToken
    PROVE  /\ pos \in 1 .. Len(text) /\ text[pos] \in Text /\ Filled(text[pos])
           /\ pos' = pos + 1 /\ text' = text
<1>1. pos \in 1 .. Len(text) /\ pos' = pos + 1 /\ text' = text
    BY DEF GetToken, Lexeme, TreeOK
<1>2. text[pos] \in UNION {{f[k] : k \in 1 .. Len(f)} : f \in Files}
    BY <1>1
<1>3. Filled(text[pos])
    BY <1>2, ConfigAssumption, Zenon DEF Filled
<1> QED
    BY <1>1, <1>3, TokenIsText DEF GetToken

(* Behind a word the current entry is a new one with this name. *)
LEMMA FollowingNests ==
    ASSUME TreeOK, NEW brace, Nest(entries, pos, cce, brace),
           NEW l, Filled(l), ~Opening(pos), ~Closing(pos)
    PROVE  \E new : Nest(Stored(Following, New, l), pos + 1, New, new)
<1> DEFINE x == [entries[cce] EXCEPT !.next = New]
           y == Entry(entries[cce].parent)
           fs == Stored(Following, New, l)
<1>1. entries \in Seq(CEntry) /\ cce \in 1 .. Len(entries) /\ entries[cce] \in CEntry
    BY DEF TreeOK
<1>2. New \in Nat /\ New = Len(entries) + 1 /\ entries[cce].parent \in Nat
    BY <1>1, EntryFields DEF New
<1>3. x \in CEntry /\ y \in CEntry
    BY <1>1, <1>2, EntryType DEF CEntry
<1>4. /\ x.parent = entries[cce].parent /\ x.next = New
      /\ x.at = entries[cce].at /\ x.token = entries[cce].token
    BY <1>1 DEF CEntry
<1>5. /\ y.parent = entries[cce].parent /\ y.next = 0 /\ y.at = 0
      /\ ~Named(y)
    BY NewNames
<1>6. Extended(entries, cce, x, y, Following)
    BY DEF Following, Extended
<1> HIDE DEF x, y, fs
<1>7. /\ Len(Following) = New /\ Following[New] = y /\ Following[cce] = x
      /\ \A i \in 1 .. Len(entries) : i # cce => Following[i] = entries[i]
    BY <1>1, <1>2, <1>3, <1>6, AppendedNames
<1>8. New \in 1 .. New /\ \A i \in 1 .. Len(entries) : i \in 1 .. New /\ i # New
    BY <1>1, <1>2
<1>9. /\ Len(fs) = New
      /\ \A i \in 1 .. Len(entries) : Same(Following, fs, i)
      /\ fs[New].parent = entries[cce].parent /\ fs[New].next = 0
      /\ Named(fs[New]) /\ fs[New].at = pos
    BY <1>5, <1>7, <1>8, NextLinked, StoredNames DEF fs
<1>10. \A i \in 1 .. Len(entries) : i # cce => Same(entries, fs, i)
    BY <1>7, <1>9 DEF Same
<1>11. Named(x) <=> Named(entries[cce])
    BY <1>4 DEF Named
<1>12. /\ fs[cce].parent = entries[cce].parent /\ fs[cce].next = New
       /\ fs[cce].at = entries[cce].at
       /\ Named(fs[cce]) <=> Named(entries[cce])
    BY <1>1, <1>4, <1>7, <1>9, <1>11 DEF Same
<1>13. \E new : Nest(fs, pos + 1, New, new)
    BY <1>2, <1>9, <1>10, <1>12, NestFollows
<1> QED
    BY <1>13 DEF fs

(* Behind a word that is stored in the current entry it is current still.  *)
LEMMA StoredNests ==
    ASSUME TreeOK, NEW brace, Nest(entries, pos, cce, brace),
           NEW l, Filled(l), ~Opening(pos), ~Closing(pos)
    PROVE  Nest(Stored(entries, cce, l), pos + 1, cce, brace)
<1> DEFINE fs == Stored(entries, cce, l)
<1>1. entries \in Seq(CEntry) /\ cce \in 1 .. Len(entries)
    BY DEF TreeOK
<1>2. /\ Len(fs) = Len(entries)
      /\ \A i \in 1 .. Len(entries) : i # cce => Same(entries, fs, i)
      /\ fs[cce].parent = entries[cce].parent /\ fs[cce].next = entries[cce].next
      /\ ~Named(entries[cce]) => Named(fs[cce]) /\ fs[cce].at = pos
      /\ Named(entries[cce]) => Same(entries, fs, cce)
    BY <1>1, StoredNames
<1> HIDE DEF fs
<1>3. Nest(fs, pos + 1, cce, brace)
    BY <1>2, NestNamed, NestStays
<1> QED
    BY <1>3 DEF fs

(* Behind an opening brace the current entry is the first of the block. *)
LEMMA OpenNests ==
    ASSUME TreeOK, NEW brace, Nest(entries, pos, cce, brace), Opening(pos), OpenBracket
    PROVE  \E new : Nest(entries', pos + 1, New, new)
<1> DEFINE x == [entries[cce] EXCEPT !.child = New]
           y == Entry(cce)
<1>1. /\ entries \in Seq(CEntry) /\ cce \in 1 .. Len(entries) /\ cce \in Nat
      /\ entries[cce] \in CEntry
    BY DEF TreeOK
<1>2. New \in Nat /\ New = Len(entries) + 1
    BY <1>1 DEF New
<1>3. x \in CEntry /\ y \in CEntry
    BY <1>1, <1>2, EntryType DEF CEntry
<1>4. /\ x.parent = entries[cce].parent /\ x.next = entries[cce].next
      /\ x.at = entries[cce].at /\ x.token = entries[cce].token
    BY <1>1 DEF CEntry
<1>5. y.parent = cce /\ y.next = 0 /\ y.at = 0 /\ ~Named(y)
    BY NewNames
<1>6. Extended(entries, cce, x, y, entries')
    BY DEF OpenBracket, Extended
<1> HIDE DEF x, y
<1>7. /\ Len(entries') = New /\ entries'[New] = y /\ entries'[cce] = x
      /\ \A i \in 1 .. Len(entries) : i # cce => Same(entries, entries', i)
    BY <1>1, <1>2, <1>3, <1>6, AppendedNames
<1>8. Same(entries, entries', cce)
    BY <1>4, <1>7 DEF Same, Named
<1> QED
    BY <1>2, <1>5, <1>7, <1>8, NestOpens

(* Behind a closing brace the entry of the block is current. *)
LEMMA CloseNests ==
    ASSUME TreeOK, NEW brace, Nest(entries, pos, cce, brace), Closing(pos),
           CloseBracket, cce' = entries[cce].parent, entries[cce].parent # 0,
           entries' = Without(entries[cce].parent) \/ UNCHANGED entries
    PROVE  Nest(entries', pos + 1, cce', brace)
<1>1. /\ entries \in Seq(CEntry) /\ entries[cce].parent \in 1 .. Len(entries)
    BY EntryFields DEF TreeOK, Linked
<1>2. CASE UNCHANGED entries
    <2>1. \A i \in 1 .. Len(entries) : Same(entries, entries', i)
        BY <1>2 DEF Same
    <2> QED
        BY <1>2, <2>1, NestCloses
<1>3. CASE entries' = Without(entries[cce].parent)
    <2> DEFINE p == entries[cce].parent
               x == [entries[p] EXCEPT !.child = 0]
    <2>1. Changed(entries, p, x, entries') /\ entries[p] \in CEntry
        BY <1>1, <1>3 DEF Without, Changed
    <2>2. /\ x.token = entries[p].token /\ x.at = entries[p].at
          /\ x.parent = entries[p].parent /\ x.next = entries[p].next
        BY <2>1 DEF CEntry
    <2> HIDE DEF x
    <2>3. /\ Len(entries') = Len(entries) /\ entries'[p] = x
          /\ \A i \in 1 .. Len(entries) : i # p => Same(entries, entries', i)
        BY <1>1, <2>1, Exchanged
    <2>4. Same(entries, entries', p)
        BY <2>2, <2>3 DEF Same, Named
    <2> QED
        BY <2>3, <2>4, NestCloses
<1> QED
    BY <1>2, <1>3

(* Behind a semicolon nothing else is current. *)
LEMMA ColonNests ==
    ASSUME TreeOK, NEW brace, Nest(entries, pos, cce, brace),
           ~Opening(pos), ~Closing(pos), Colon
    PROVE  Nest(entries', pos + 1, cce, brace)
<1> DEFINE x == [entries[cce] EXCEPT !.closed = TRUE]
<1>1. /\ entries \in Seq(CEntry) /\ cce \in 1 .. Len(entries) /\ entries[cce] \in CEntry
    BY DEF TreeOK
<1>2. Changed(entries, cce, x, entries')
    BY DEF Colon, Changed
<1>3. /\ x.token = entries[cce].token /\ x.at = entries[cce].at
      /\ x.parent = entries[cce].parent /\ x.next = entries[cce].next
    BY <1>1 DEF CEntry
<1> HIDE DEF x
<1>4. /\ Len(entries') = Len(entries) /\ entries'[cce] = x
      /\ \A i \in 1 .. Len(entries) : i # cce => Same(entries, entries', i)
    BY <1>1, <1>2, Exchanged
<1>5. Same(entries, entries', cce)
    BY <1>3, <1>4 DEF Same, Named
<1> QED
    BY <1>4, <1>5, NestStays


(* Every step of libconf_parse that does not reject the file keeps entries *)
(* and braces together.                                                    *)
LEMMA ParseNests ==
    ASSUME TreeOK, text \in Files, NEW brace, Nest(entries, pos, cce, brace),
           Parse, phase' \notin {"rejected", "crashed"}
    PROVE  \E new : Nest(entries', pos', cce', new)
<1>1. CASE OpenBracket
    <2>1. pos' = pos + 1 /\ cce' = New /\ Opening(pos)
        BY <1>1, LexemeIs DEF OpenBracket, Opening
    <2> QED
        BY <1>1, <2>1, OpenNests
<1>2. CASE CloseBracket
    <2>1. /\ pos' = pos + 1 /\ cce' = entries[cce].parent /\ Closing(pos)
          /\ entries[cce].parent # 0
          /\ entries' = Without(entries[cce].parent) \/ UNCHANGED entries
        BY <1>2, LexemeIs DEF CloseBracket, Closing, Fail
    <2> QED
        BY <1>2, <2>1, CloseNests
<1>3. CASE Colon
    <2>1. pos' = pos + 1 /\ cce' = cce
        BY <1>3, LexemeIs DEF Colon
    <2>2. ~Opening(pos) /\ ~Closing(pos)
        BY <1>3, Zenon DEF Colon, Opening, Closing
    <2> QED
        BY <1>3, <2>1, <2>2, ColonNests
<1>4. CASE String
    <2>1. /\ ~Opening(pos) /\ ~Closing(pos)
        BY <1>4, Zenon DEF String, Word, Opening, Closing
    <2>2. pos' = pos + 1 /\ Filled(text[pos])
        BY <1>4, LexemeIs DEF String
    <2>3. \/ entries' = Stored(Following, New, text[pos]) /\ cce' = New
          \/ entries' = Stored(entries, cce, text[pos]) /\ cce' = cce
        BY <1>4 DEF String, Fail
    <2> QED
        BY <2>1, <2>2, <2>3, FollowingNests, StoredNests
<1>5. CASE QString
    <2>1. /\ ~Opening(pos) /\ ~Closing(pos)
        BY <1>5, ConfigAssumption, Zenon DEF QString, Opening, Closing
    <2>2. pos' = pos + 1 /\ Filled(text[pos])
        BY <1>5, LexemeIs DEF QString
    <2>3. entries' = Stored(entries, cce, text[pos]) /\ cce' = cce
        BY <1>5 DEF QString, Fail
    <2> QED
        BY <2>1, <2>2, <2>3, StoredNests
<1>6. CASE Eof
    BY <1>6 DEF Eof, parsed
<1> QED
    BY <1>1, <1>2, <1>3, <1>4, <1>5, <1>6 DEF Parse, BrokenString, TokenOverrun, Fail

(* While the file is read and when it is read, entries and braces are      *)
(* together.                                                               *)
NestInv ==
    /\ text \in Files
    /\ phase \in {"parsing", "tokens"} => \E brace : Nest(entries, pos, cce, brace)

(* The braces of the file stay as they are. *)
LEMMA SameBraces ==
    ASSUME UNCHANGED text, NEW brace, Nest(entries', pos', cce', brace)
    PROVE  Nest(entries, pos, cce, brace)'
<1>1. \A k : Depth(k)' = Depth(k) /\ OpenAt(k)' = OpenAt(k) /\ Opens(k)' = Opens(k)
    <2>1. \A k : Depth(k)' = Depth(k)
        BY DEF Depth
    <2> QED
        BY <2>1 DEF OpenAt, Opens, Opening
<1> QED
    BY <1>1 DEF Nest, Shape, Placed, Blocks, Lasts, Owners, Current

(* At the start of the file there is one entry, in no block. *)
LEMMA NestStarts ==
    ASSUME Init
    PROVE  Nest(entries, pos, cce, [i \in 1 .. 1 |-> 0])
<1> DEFINE brace == [i \in 1 .. 1 |-> 0]
<1>1. entries = <<Entry(0)>> /\ pos = 1 /\ cce = 1
    BY DEF Init, ConfigInit
<1>2. /\ Len(entries) = 1 /\ entries[1].parent = 0 /\ entries[1].next = 0
      /\ entries[1].at = 0 /\ ~Named(entries[1])
    BY <1>1, NewNames
<1>3. brace \in [1 .. 1 -> Nat] /\ brace[1] = 0
    OBVIOUS
<1>4. \A i \in 1 .. 1 : i = 1
    OBVIOUS
<1>5. OpenAt(1) = 0
    BY OpenIs
<1> HIDE DEF brace
<1>6. Shape(entries)
    BY <1>2, <1>4 DEF Shape
<1>7. Placed(entries, pos, brace) /\ Blocks(entries, pos, brace)
    BY <1>2, <1>3, <1>4 DEF Placed, Blocks
<1>8. Lasts(entries, brace) /\ Owners(entries, brace)
    BY <1>2, <1>4 DEF Lasts, Owners
<1>9. Current(entries, pos, cce, brace)
    BY <1>1, <1>2, <1>3, <1>5 DEF Current
<1>10. Nest(entries, pos, cce, brace)
    BY <1>1, <1>2, <1>3, <1>6, <1>7, <1>8, <1>9 DEF Nest
<1> QED
    BY <1>10 DEF brace

(* What NestingKept says of an entry in a block of p with brace b. *)
Owner(p, b) ==
    /\ p = 0 <=> b = 0
    /\ p # 0 /\ Named(entries[p]) =>
         /\ OpenAt(entries[p].at) = OpenAt(b)
         /\ \A j \in Tree :
              entries[j].at \in Between(entries[p].at, b) =>
                  OpenAt(entries[j].at) # OpenAt(b)

(* The tree is that of the braces. *)
LEMMA NestIs ==
    ASSUME TreeOK, NestInv
    PROVE  NestingKept
<1> SUFFICES ASSUME phase = "tokens", NEW i \in Tree, Named(entries[i])
             PROVE  Owner(entries[i].parent, OpenAt(entries[i].at))
    BY Zenon DEF NestingKept, Owner, Named, Between
<1> DEFINE p == entries[i].parent
           b == OpenAt(entries[i].at)
<1>1. p = entries[i].parent /\ b = OpenAt(entries[i].at)
    OBVIOUS
<1> HIDE DEF p, b
<1>2. PICK brace : Nest(entries, pos, cce, brace)
    BY DEF NestInv
<1>3. \A j \in Tree : j \in 1 .. Len(entries)
    BY InTree DEF Entries
<1>4. b = brace[i] /\ b \in Nat /\ (p = 0 <=> b = 0)
    BY <1>1, <1>2, <1>3 DEF Nest, Placed
<1> SUFFICES ASSUME p # 0, Named(entries[p])
             PROVE  /\ OpenAt(entries[p].at) = OpenAt(b)
                    /\ \A j \in Tree :
                         entries[j].at \in Between(entries[p].at, b) =>
                             OpenAt(entries[j].at) # OpenAt(b)
    BY <1>1, <1>4 DEF Owner
<1>5. p \in 1 .. Len(entries)
    BY <1>1, <1>2, <1>3 DEF Nest, Shape
<1>6. OpenAt(entries[p].at) = brace[p] /\ OpenAt(b) = brace[p]
    BY <1>1, <1>2, <1>3, <1>4, <1>5 DEF Nest, Placed, Blocks
<1>7. ASSUME NEW j \in Tree, entries[j].at \in Between(entries[p].at, b)
      PROVE  OpenAt(entries[j].at) # OpenAt(b)
    <2>1. j \in 1 .. Len(entries)
        BY <1>3
    <2>2. brace[j] # brace[p]
        BY <1>1, <1>2, <1>3, <1>4, <1>7, <2>1 DEF Nest, Owners
    <2>3. entries[j].at # 0
        <3>1. entries[p].at \in Nat
            BY <1>2, <1>5 DEF Nest, Shape
        <3> QED
            BY <1>4, <1>7, <3>1 DEF Between
    <2>4. OpenAt(entries[j].at) = brace[j]
        BY <1>2, <2>1, <2>3 DEF Nest, Placed
    <2> QED
        BY <1>6, <2>2, <2>4
<1> QED
    BY <1>6, <1>7

(* The tree of libconf_parse is that of the braces, whatever the file      *)
(* (libconf.c).                                                            *)
THEOREM NestingStays == Spec => []NestingKept
<1>1. Init => NestInv
    BY NestStarts DEF Init, ConfigInit, NestInv
<1>2. TreeOK /\ NestInv /\ [Next]_vars => NestInv'
    <2> SUFFICES ASSUME TreeOK, NestInv, [Next]_vars PROVE NestInv'
        OBVIOUS
    <2>1. CASE Parse
        <3>1. phase = "parsing" /\ text' = text
            BY <2>1 DEF Parse, OpenBracket, CloseBracket, Colon, String, QString,
                        BrokenString, TokenOverrun, Eof, GetToken, Lexeme, parsed
        <3>2. CASE phase' \notin {"rejected", "crashed"}
            BY <2>1, <3>1, <3>2, ParseNests, SameBraces DEF NestInv
        <3> QED
            BY <3>1, <3>2 DEF NestInv
    <2>2. CASE UNCHANGED parsed /\ (phase' = phase \/ phase' \notin {"parsing", "tokens"})
        <3>1. UNCHANGED <<text, entries, pos, cce>>
            BY <2>2 DEF parsed
        <3>2. \A brace : Nest(entries, pos, cce, brace) => Nest(entries, pos, cce, brace)'
            BY <3>1, SameBraces
        <3> QED
            BY <2>2, <3>1, <3>2 DEF NestInv
    <2>3. CASE Validate
        BY <2>2, <2>3 DEF Validate, ValidateToken, ValidateValues, ValidateValueopt,
               Callback, Configured
    <2>4. CASE Main
        BY <2>2, <2>4 DEF Main, StartHttp, StartAdapter, StartOutput, StartInput,
               SapInit, Turn, Run, SapSend
    <2>5. CASE UNCHANGED vars
        BY <2>2, <2>5 DEF vars, configVars
    <2> QED
        BY <2>1, <2>3, <2>4, <2>5 DEF Next, ReadConfig
<1>3. TreeOK /\ NestInv => NestingKept
    BY NestIs
<1> QED
    BY <1>1, <1>2, <1>3, TreeStaysATree, PTL DEF Spec
=============================================================================
