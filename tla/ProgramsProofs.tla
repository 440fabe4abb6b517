--------------------------- MODULE ProgramsProofs ---------------------------
(***************************************************************************)
(* Proofs about Programs: its types and its safety properties, for every   *)
(* set of programs, PIDs and sections.  IInv collects the state properties *)
(* in the order in which they rest on each other.                          *)
(***************************************************************************)
EXTENDS Programs, FiniteSetTheorems, TLAPS

USE DEF Pid, SecNum, Reason, PatTable, PmtTable

(* A parsed PAT maps every program to a PMT PID, to 0 or to Absent. *)
LEMMA PatParseType ==
    ASSUME NEW psi \in [SecNum -> PatSection \cup {None}], psi[0] # None
    PROVE  PatParse(psi) \in PatTable
<1>1. ASSUME NEW q \in Program,
             SecOf[q] <= psi[0].last /\ psi[SecOf[q]] # None
      PROVE  psi[SecOf[q]].pid[q] \in PmtPid \cup {0, Absent}
  <2>1. psi[SecOf[q]] \in PatSection
    BY <1>1, ProgramAssumption
  <2> QED BY <2>1, SectionAssumption
<1> QED BY <1>1 DEF PatParse

(* A parsed PMT has a PCR PID below PID_MAX, and ES PIDs. *)
LEMMA PmtParseType ==
    ASSUME NEW s \in PmtSection
    PROVE  PmtParse(s) \in PmtTable
BY ProgramAssumption, SectionAssumption DEF PmtParse

(* Absent and 0 are no PMT PIDs. *)
LEMMA AbsentIsNoPid == Absent \notin PmtPid \cup {0} /\ 0 \notin PmtPid
<1>1. Absent \notin Nat /\ PmtPid \subseteq Nat /\ 0 \in Nat
  BY ProgramAssumption
<1>2. Absent \notin PmtPid \cup {0}
  BY <1>1, Zenon
<1>3. 0 \notin PmtPid
  BY ProgramAssumption
<1> QED BY <1>2, <1>3

(* A NULL pointer is neither a parsed PAT nor a parsed PMT. *)
LEMMA NoneIsNoTable == None \notin PatTable /\ None \notin PmtTable
BY SectionAssumption, ProgramAssumption

-----------------------------------------------------------------------------
(* One entry of the demux's PID table.  Sound(e, owned) says that it has   *)
(* the TS callbacks owned and the reassembler its section users need,      *)
(* counts them right, and opens its filter for them.                       *)
Sound(e, owned) ==
    /\ e \in Entry
    /\ e.callback = owned \cup (IF e.sectioncallback # {} THEN {Reassembler} ELSE {})
    /\ e.secuser = Cardinality(e.sectioncallback)
    /\ e.open => ~budget /\ e.callback # {}
    /\ ~budget /\ ~limited /\ e.callback # {} => e.open

(* The TS callbacks of PID p that are not the reassembler, when the        *)
(* programs' PID tables are tab.                                           *)
Owned(tab, p) ==
    {c \in Program \X Reason : c[2] \in tab[c[1]][p]}
    \cup (IF p \in StaticPid THEN {Static} ELSE {})

(* FiltersMatchCallbacks says that of every PID. *)
LEMMA SoundIs ==
    dvr \in [Pid -> Entry]
        => (FiltersMatchCallbacks <=> \A p \in Pid : Sound(dvr[p], Owned(pidtable, p)))
<1>1. \A x, y, z : (x \cup y) \cup z = x \cup (y \cup z)
  OBVIOUS
<1> QED BY DEF FiltersMatchCallbacks, Sound, Owned

(* The reassembler is neither static nor of a program. *)
LEMMA NotOwned ==
    ASSUME NEW tab, NEW p PROVE Reassembler \notin Owned(tab, p)
BY ProgramAssumption DEF Owned, Reassembler, Static

(* Removing TS callbacks of programs. *)
LEMMA DelTsSound ==
    ASSUME NEW e, NEW owned, Sound(e, owned), Reassembler \notin owned,
           NEW cookies, Reassembler \notin cookies
    PROVE  /\ Sound(DelTs(e, cookies), owned \ cookies)
           /\ DelTs(e, cookies).sectioncallback = e.sectioncallback
           /\ DelTs(e, cookies).callback = e.callback \ cookies
           /\ e.open /\ e.callback \ cookies # {} => DelTs(e, cookies).open
BY DEF Sound, DelTs, Entry

(* Adding one. *)
LEMMA AddTsSound ==
    ASSUME NEW e, NEW owned, Sound(e, owned), NEW cookie \in Cookie,
           cookie # Reassembler, NEW ok \in BOOLEAN, ok \/ limited,
           budget \in BOOLEAN
    PROVE  /\ Sound(AddTs(e, cookie, ok), owned \cup {cookie})
           /\ AddTs(e, cookie, ok).sectioncallback = e.sectioncallback
           /\ AddTs(e, cookie, ok).callback = e.callback \cup {cookie}
           /\ e.open => AddTs(e, cookie, ok).open
BY DEF Sound, AddTs, Entry

(* Section users are finitely many. *)
LEMMA UsersFinite ==
    ASSUME NEW e \in Entry
    PROVE  IsFiniteSet(e.sectioncallback)
<1>1. IsFiniteSet(Program \cup {Adapter})
  BY ProgramAssumption, FS_AddElement
<1> QED BY <1>1, FS_Subset DEF Entry

(* The last section user takes the reassembler along, no other does. *)
LEMMA DelSectionSound ==
    ASSUME NEW e, NEW owned, Sound(e, owned), Reassembler \notin owned,
           NEW q \in e.sectioncallback
    PROVE  /\ Sound(DelSection(e, q), owned)
           /\ DelSection(e, q).sectioncallback = e.sectioncallback \ {q}
           /\ owned \subseteq DelSection(e, q).callback
           /\ e.open /\ owned # {} => DelSection(e, q).open
<1> DEFINE left == e.sectioncallback \ {q}
<1>1. IsFiniteSet(e.sectioncallback) /\ IsFiniteSet(left)
  BY UsersFinite, FS_Subset DEF Sound
<1>2. Cardinality(left) = Cardinality(e.sectioncallback) - 1
  BY <1>1, FS_RemoveElement
<1>3. /\ Cardinality(left) \in Nat /\ Cardinality(e.sectioncallback) \in Nat
      /\ Cardinality(left) = 0 <=> left = {}
  BY <1>1, FS_CardinalityType, FS_EmptySet
<1>4. e.secuser = 1 <=> left = {}
  BY <1>2, <1>3 DEF Sound
<1>5. DelSection(e, q) =
        [e EXCEPT !.callback = IF left = {} THEN @ \ {Reassembler} ELSE @,
                  !.open = IF left = {} THEN @ /\ e.callback \ {Reassembler} # {} ELSE @,
                  !.secuser = Cardinality(left),
                  !.sectioncallback = left]
  <2> HIDE DEF left
  <2>1. e \in Entry /\ e.secuser - 1 = Cardinality(left)
    BY <1>2 DEF Sound
  <2> QED BY <1>4, <2>1 DEF DelSection, DelTs, Entry, left
<1>6. e \in Entry /\ e.sectioncallback # {}
  BY DEF Sound
<1> HIDE DEF left
<1>7. left \subseteq e.sectioncallback
  BY DEF left
<1> DEFINE d == DelSection(e, q)
<1>8. /\ d \in Entry
      /\ d.callback = IF left = {} THEN e.callback \ {Reassembler} ELSE e.callback
      /\ d.open = IF left = {} THEN e.open /\ e.callback \ {Reassembler} # {} ELSE e.open
      /\ d.secuser = Cardinality(left)
      /\ d.sectioncallback = left
  BY <1>3, <1>5, <1>6, <1>7 DEF Entry
<1>9. /\ e.callback = owned \cup {Reassembler}
      /\ e.open \in BOOLEAN
      /\ e.open => ~budget /\ e.callback # {}
      /\ ~budget /\ ~limited /\ e.callback # {} => e.open
  BY <1>6 DEF Sound, Entry
<1> HIDE DEF d
<1>10. d.callback = owned \cup (IF left # {} THEN {Reassembler} ELSE {})
  BY <1>8, <1>9
<1>11. /\ d.open => ~budget /\ d.callback # {}
       /\ ~budget /\ ~limited /\ d.callback # {} => d.open
       /\ e.open /\ owned # {} => d.open
  BY <1>8, <1>9
<1>12. Sound(d, owned)
  BY <1>8, <1>10, <1>11 DEF Sound
<1> QED BY <1>8, <1>10, <1>11, <1>12 DEF d, left

(* The first section user brings it. *)
LEMMA AddSectionSound ==
    ASSUME NEW e, NEW owned, Sound(e, owned), Reassembler \notin owned,
           NEW q \in Program, q \notin e.sectioncallback,
           NEW ok \in BOOLEAN, ok \/ limited, budget \in BOOLEAN
    PROVE  /\ Sound(AddSection(e, q, ok), owned)
           /\ AddSection(e, q, ok).sectioncallback = e.sectioncallback \cup {q}
           /\ e.callback \subseteq AddSection(e, q, ok).callback
           /\ e.open => AddSection(e, q, ok).open
<1> DEFINE more == e.sectioncallback \cup {q}
<1>1. IsFiniteSet(e.sectioncallback)
  BY UsersFinite DEF Sound
<1>2. Cardinality(more) = Cardinality(e.sectioncallback) + 1
  BY <1>1, FS_AddElement
<1>3. /\ Cardinality(e.sectioncallback) \in Nat
      /\ Cardinality(e.sectioncallback) = 0 <=> e.sectioncallback = {}
  BY <1>1, FS_CardinalityType, FS_EmptySet
<1>4. e.secuser = 0 <=> e.sectioncallback = {}
  BY <1>3 DEF Sound
<1>5. AddSection(e, q, ok) =
        [e EXCEPT !.callback = IF e.sectioncallback = {} THEN @ \cup {Reassembler} ELSE @,
                  !.open = IF e.sectioncallback = {}
                           THEN @ \/ (e.callback = {} /\ ~budget /\ ok) ELSE @,
                  !.secuser = Cardinality(more),
                  !.sectioncallback = more]
  <2> HIDE DEF more
  <2>1. e \in Entry /\ e.secuser + 1 = Cardinality(more)
    BY <1>2 DEF Sound
  <2> QED BY <1>4, <2>1 DEF AddSection, AddTs, Entry, more
<1>6. e \in Entry /\ Cardinality(more) \in Nat /\ more # {}
  BY <1>2, <1>3 DEF Sound
<1>7. more \subseteq Program \cup {Adapter} /\ e.sectioncallback \subseteq more
  BY <1>6 DEF Entry
<1> HIDE DEF more
<1> DEFINE d == AddSection(e, q, ok)
           none == e.sectioncallback = {}
<1> DEFINE cbs == IF none THEN e.callback \cup {Reassembler} ELSE e.callback
           opened == IF none THEN e.open \/ (e.callback = {} /\ ~budget /\ ok)
                     ELSE e.open
<1>8. d = [e EXCEPT !.callback = cbs, !.open = opened,
                    !.secuser = Cardinality(more), !.sectioncallback = more]
  BY <1>5
<1>9. cbs \in SUBSET Cookie
  BY <1>6 DEF Entry, Cookie
<1>10. opened \in BOOLEAN
  BY <1>6 DEF Entry
<1> HIDE DEF cbs, opened
<1>11. /\ d \in Entry
       /\ d.callback = cbs
       /\ d.open = opened
       /\ d.secuser = Cardinality(more)
       /\ d.sectioncallback = more
  BY <1>8, <1>9, <1>10, <1>6, <1>7 DEF Entry
<1> USE DEF cbs, opened
<1>12. /\ e.callback = owned \cup (IF none THEN {} ELSE {Reassembler})
       /\ e.open \in BOOLEAN
       /\ e.open => ~budget /\ e.callback # {}
       /\ ~budget /\ ~limited /\ e.callback # {} => e.open
  BY <1>6 DEF Sound, Entry
<1> HIDE DEF d, none
<1>13. d.callback = owned \cup {Reassembler} /\ e.callback \subseteq d.callback
  BY <1>11, <1>12
<1>14. /\ d.open => ~budget
       /\ ~budget /\ ~limited => d.open
       /\ e.open => d.open
  BY <1>11, <1>12, <1>13
<1>15. Sound(d, owned)
  BY <1>6, <1>11, <1>13, <1>14 DEF Sound
<1> QED BY <1>11, <1>13, <1>14, <1>15 DEF d, more


-----------------------------------------------------------------------------
(* How the callbacks of a PID follow the programs' tables: nothing changes *)
(* with equal tables, a program leaves with all its cookies, and a join    *)
(* adds one.                                                               *)
LEMMA OwnedSame ==
    ASSUME NEW tab, NEW tab2, NEW p,
           \A r \in Program : tab2[r][p] = tab[r][p]
    PROVE  Owned(tab2, p) = Owned(tab, p)
BY DEF Owned

Left(tab, tab2, q, p) ==
    /\ q \in Program
    /\ tab[q][p] \in SUBSET Reason
    /\ tab2[q][p] = {}
    /\ \A r \in Program \ {q} : tab2[r][p] = tab[r][p]

Joined(tab, tab2, q, p, x) ==
    /\ q \in Program
    /\ x \in Reason
    /\ tab2[q][p] = tab[q][p] \cup {x}
    /\ \A r \in Program \ {q} : tab2[r][p] = tab[r][p]

LEMMA OwnedLess ==
    ASSUME NEW tab, NEW tab2, NEW p, NEW q, Left(tab, tab2, q, p)
    PROVE  Owned(tab2, p) = Owned(tab, p) \ Cookies(q, tab[q][p])
<1> USE DEF Left
<1> DEFINE C == Cookies(q, tab[q][p])
<1>1. Static \notin C
  BY ProgramAssumption DEF Static, Cookies
<1>2. ASSUME NEW c \in Program \X Reason
      PROVE  c[2] \in tab2[c[1]][p] <=> c[2] \in tab[c[1]][p] /\ c \notin C
  <2>1. PICK r \in Program, x \in Reason : c = <<r, x>>
    OBVIOUS
  <2>2. <<r, x>> \in C <=> r = q /\ x \in tab[q][p]
    BY DEF Cookies
  <2> QED BY <2>1, <2>2
<1> HIDE DEF C
<1> QED BY <1>1, <1>2 DEF Owned, C

LEMMA OwnedMore ==
    ASSUME NEW tab, NEW tab2, NEW p, NEW q, NEW x, Joined(tab, tab2, q, p, x)
    PROVE  Owned(tab2, p) = Owned(tab, p) \cup {<<q, x>>}
<1> USE DEF Joined
<1>1. ASSUME NEW c \in Program \X Reason
      PROVE  c[2] \in tab2[c[1]][p] <=> c[2] \in tab[c[1]][p] \/ c = <<q, x>>
  BY <1>1
<1>2. <<q, x>> \in Program \X Reason
  OBVIOUS
<1> QED BY <1>1, <1>2 DEF Owned

(* The cookies of programs are not the reassembler's. *)
LEMMA CookiesOfPrograms ==
    ASSUME NEW q \in Program, NEW reasons \in SUBSET Reason
    PROVE  /\ Reassembler \notin Cookies(q, reasons)
           /\ \A x \in Reason : <<q, x>> \in Cookie /\ <<q, x>> # Reassembler
BY ProgramAssumption DEF Cookies, Cookie, Reassembler


-----------------------------------------------------------------------------
(* The inductive invariant.  PmtPidReceived carries most of the rest: it   *)
(* says which PIDs a PAT step can touch, and that a program which moves    *)
(* has the section callback it is about to remove.                         *)
IInv ==
    /\ TypeOK
    /\ PmtPidReceived
    /\ PmtPidFollowsPat
    /\ OnlyActivePids
    /\ CurrentPmtReceived
    /\ NoDoubleDelivery
    /\ FiltersMatchCallbacks

(* What a call of pmt_pidfrompat does to the programs. *)
LEMMA MoveStep ==
    ASSUME IInv, NEW q \in Program, PmtPidFromPat(q)
    PROVE  /\ pat \in PatTable /\ NewPmtPid(q) \in (PmtPid \ {PidMax}) \cup {0}
           /\ pmtpid' = [pmtpid EXCEPT ![q] = NewPmtPid(q)]
           /\ pmtpid' \in [Program -> (PmtPid \ {PidMax}) \cup {0}]
           /\ pidtable' \in [Program -> [Pid -> SUBSET Reason]]
           /\ \A r \in Program \ {q} : pidtable'[r] = pidtable[r]
           /\ \A p \in Pid :
                pidtable'[q][p] =
                    IF p = 0 \/ NewPmtPid(q) = pmtpid[q] THEN pidtable[q][p]
                    ELSE IF p = pmtpid[q] THEN {}
                    ELSE IF p = NewPmtPid(q) THEN pidtable[q][p] \cup {"pmt"}
                    ELSE pidtable[q][p]
<1>1. /\ pmtpid \in [Program -> (PmtPid \ {PidMax}) \cup {0}]
      /\ pidtable \in [Program -> [Pid -> SUBSET Reason]]
      /\ pat \in PatTable
  BY DEF IInv, TypeOK, PmtPidFromPat, Turn
<1>2. NewPmtPid(q) \in (PmtPid \ {PidMax}) \cup {0}
  BY <1>1 DEF PmtPidFromPat, NewPmtPid
<1> DEFINE tab == IF NewPmtPid(q) = pmtpid[q] THEN pidtable[q] ELSE Moved(q)
<1>3. tab \in [Pid -> SUBSET Reason]
  <2>1. pidtable[q] \in [Pid -> SUBSET Reason]
    BY <1>1
  <2> QED BY <2>1 DEF Moved
<1>4. \A p \in Pid :
        tab[p] = IF p = 0 \/ NewPmtPid(q) = pmtpid[q] THEN pidtable[q][p]
                 ELSE IF p = pmtpid[q] THEN {}
                 ELSE IF p = NewPmtPid(q) THEN pidtable[q][p] \cup {"pmt"}
                 ELSE pidtable[q][p]
  BY DEF Moved
<1>5. pidtable' = [pidtable EXCEPT ![q] = tab]
  <2>1. CASE NewPmtPid(q) = pmtpid[q]
    BY <1>1, <2>1 DEF PmtPidFromPat
  <2>2. CASE NewPmtPid(q) # pmtpid[q]
    BY <2>2 DEF PmtPidFromPat
  <2> QED BY <2>1, <2>2
<1>6. pmtpid' = [pmtpid EXCEPT ![q] = NewPmtPid(q)]
  BY <1>1 DEF PmtPidFromPat
<1> HIDE DEF tab
<1>7. /\ pmtpid' \in [Program -> (PmtPid \ {PidMax}) \cup {0}]
      /\ pidtable' \in [Program -> [Pid -> SUBSET Reason]]
      /\ \A r \in Program \ {q} : pidtable'[r] = pidtable[r]
      /\ pidtable'[q] = tab
  BY <1>1, <1>2, <1>3, <1>5, <1>6
<1> QED BY <1>1, <1>2, <1>4, <1>6, <1>7

(* ... and to the table of the demux: its entries stay sound, only the old *)
(* PMT PID loses callbacks, and its filter closes only after the last one. *)
LEMMA MoveDvr ==
    ASSUME IInv, NEW q \in Program, PmtPidFromPat(q)
    PROVE  /\ dvr' \in [Pid -> Entry]
           /\ \A p \in Pid :
                /\ Sound(dvr'[p], Owned(pidtable', p))
                /\ \A r \in Program :
                     r \in dvr'[p].sectioncallback <=>
                        IF r = q THEN p # 0 /\ p = NewPmtPid(q)
                        ELSE r \in dvr[p].sectioncallback
                /\ p = 0 \/ p # pmtpid[q] => OnlyGrows(p)
                /\ dvr[p].open /\ Owned(pidtable, p) \cap Owned(pidtable', p) # {}
                     => dvr'[p].open
<1>1. /\ dvr \in [Pid -> Entry] /\ budget \in BOOLEAN
      /\ pidtable \in [Program -> [Pid -> SUBSET Reason]]
      /\ pmtpid \in [Program -> (PmtPid \ {PidMax}) \cup {0}]
  BY DEF IInv, TypeOK
<1>2. \A p \in Pid : Sound(dvr[p], Owned(pidtable, p))
  BY <1>1, SoundIs DEF IInv
<1>3. \A r \in Program, p \in Pid :
        r \in dvr[p].sectioncallback <=> p # 0 /\ pmtpid[r] = p
  BY DEF IInv, PmtPidReceived
<1>4. /\ \A r \in Program \ {q} : pidtable'[r] = pidtable[r]
      /\ \A p \in Pid :
           pidtable'[q][p] =
               IF p = 0 \/ NewPmtPid(q) = pmtpid[q] THEN pidtable[q][p]
               ELSE IF p = pmtpid[q] THEN {}
               ELSE IF p = NewPmtPid(q) THEN pidtable[q][p] \cup {"pmt"}
               ELSE pidtable[q][p]
  BY MoveStep
<1>5. PICK ok \in BOOLEAN :
        /\ ok \/ limited
        /\ NewPmtPid(q) = pmtpid[q] => dvr' = dvr
        /\ NewPmtPid(q) # pmtpid[q] =>
             dvr' = [p \in Pid |->
                 IF p = 0 THEN dvr[p]
                 ELSE IF p = pmtpid[q] THEN LeavePmt(dvr[p], q, pidtable[q][p])
                 ELSE IF p = NewPmtPid(q) THEN JoinPmt(dvr[p], q, ok)
                 ELSE dvr[p]]
  <2>1. CASE NewPmtPid(q) = pmtpid[q]
    BY <2>1 DEF PmtPidFromPat
  <2>2. CASE NewPmtPid(q) # pmtpid[q]
    BY <2>2 DEF PmtPidFromPat
  <2> QED BY <2>1, <2>2
<1> DEFINE Goal(p) ==
        /\ Sound(dvr'[p], Owned(pidtable', p))
        /\ \A r \in Program :
             r \in dvr'[p].sectioncallback <=>
                IF r = q THEN p # 0 /\ p = NewPmtPid(q)
                ELSE r \in dvr[p].sectioncallback
        /\ p = 0 \/ p # pmtpid[q] => OnlyGrows(p)
        /\ dvr[p].open /\ Owned(pidtable, p) \cap Owned(pidtable', p) # {}
             => dvr'[p].open
<1>6. ASSUME NEW p \in Pid PROVE Goal(p)
  <2>1. CASE p = 0 \/ NewPmtPid(q) = pmtpid[q] \/ p \notin {pmtpid[q], NewPmtPid(q)}
    <3>1. dvr'[p] = dvr[p]
      BY <1>1, <1>5, <2>1
    <3>2. \A r \in Program : pidtable'[r][p] = pidtable[r][p]
      BY <1>4, <2>1
    <3>3. Owned(pidtable', p) = Owned(pidtable, p)
      BY <3>2, OwnedSame
    <3> QED BY <1>2, <1>3, <2>1, <3>1, <3>3 DEF OnlyGrows
  <2>2. CASE p # 0 /\ NewPmtPid(q) # pmtpid[q] /\ p = pmtpid[q]
    <3> DEFINE owned == Owned(pidtable, p)
               C == Cookies(q, pidtable[q][p])
               e == DelSection(dvr[p], q)
    <3>1. dvr'[p] = DelTs(e, C)
      BY <1>5, <2>2 DEF LeavePmt
    <3>2. pidtable'[q][p] = {} /\ pidtable[q][p] \in SUBSET Reason
      BY <1>1, <1>4, <2>2
    <3>3. \A r \in Program \ {q} : pidtable'[r][p] = pidtable[r][p]
      BY <1>4
    <3>4. Owned(pidtable', p) = owned \ C
      <4>1. Left(pidtable, pidtable', q, p)
        BY <3>2, <3>3 DEF Left
      <4> QED BY <4>1, OwnedLess
    <3>5. q \in dvr[p].sectioncallback
      BY <1>3, <2>2
    <3>6. Reassembler \notin owned /\ Reassembler \notin C
      BY <3>2, NotOwned, CookiesOfPrograms
    <3>7. Sound(dvr[p], owned)
      BY <1>2
    <3> HIDE DEF owned, C, e
    <3>8. /\ Sound(e, owned)
          /\ e.sectioncallback = dvr[p].sectioncallback \ {q}
          /\ owned \subseteq e.callback
          /\ dvr[p].open /\ owned # {} => e.open
      BY <3>5, <3>6, <3>7, DelSectionSound DEF e
    <3>9. /\ Sound(DelTs(e, C), owned \ C)
          /\ DelTs(e, C).sectioncallback = e.sectioncallback
          /\ e.open /\ e.callback \ C # {} => DelTs(e, C).open
      BY <3>6, <3>8, DelTsSound
    <3>10. dvr[p].open /\ owned \cap (owned \ C) # {} => dvr'[p].open
      BY <3>1, <3>8, <3>9
    <3>11. Sound(dvr'[p], Owned(pidtable', p))
      BY <3>1, <3>4, <3>9
    <3>12. \A r \in Program :
             r \in dvr'[p].sectioncallback <=> r # q /\ r \in dvr[p].sectioncallback
      BY <3>1, <3>8, <3>9
    <3> QED BY <2>2, <3>4, <3>10, <3>11, <3>12 DEF owned
  <2>3. CASE p # 0 /\ NewPmtPid(q) # pmtpid[q] /\ p = NewPmtPid(q)
    <3> DEFINE owned == Owned(pidtable, p)
               c == <<q, "pmt">>
               e == AddSection(dvr[p], q, ok)
    <3>1. dvr'[p] = AddTs(e, c, ok)
      BY <1>5, <2>3 DEF JoinPmt
    <3>2. pidtable'[q][p] = pidtable[q][p] \cup {"pmt"}
      BY <1>4, <2>3
    <3>3. \A r \in Program \ {q} : pidtable'[r][p] = pidtable[r][p]
      BY <1>4
    <3>4. Owned(pidtable', p) = owned \cup {c}
      <4>1. Joined(pidtable, pidtable', q, p, "pmt")
        BY <3>2, <3>3 DEF Joined
      <4> QED BY <4>1, OwnedMore
    <3>5. q \notin dvr[p].sectioncallback
      BY <1>3, <2>3
    <3>6. Reassembler \notin owned /\ c \in Cookie /\ c # Reassembler
      BY NotOwned, CookiesOfPrograms
    <3>7. Sound(dvr[p], owned)
      BY <1>2
    <3> HIDE DEF owned, c, e
    <3>8. /\ Sound(e, owned)
          /\ e.sectioncallback = dvr[p].sectioncallback \cup {q}
          /\ dvr[p].callback \subseteq e.callback
          /\ dvr[p].open => e.open
      BY <1>1, <1>5, <3>5, <3>6, <3>7, AddSectionSound DEF e
    <3>9. /\ Sound(AddTs(e, c, ok), owned \cup {c})
          /\ AddTs(e, c, ok).sectioncallback = e.sectioncallback
          /\ AddTs(e, c, ok).callback = e.callback \cup {c}
          /\ e.open => AddTs(e, c, ok).open
      <4>1. ok \in BOOLEAN /\ (ok \/ limited) /\ budget \in BOOLEAN
        BY <1>1, <1>5
      <4> QED BY <4>1, <3>6, <3>8, AddTsSound
    <3>10. OnlyGrows(p) /\ (dvr[p].open => dvr'[p].open)
      BY <3>1, <3>8, <3>9 DEF OnlyGrows
    <3>11. Sound(dvr'[p], Owned(pidtable', p))
      BY <3>1, <3>4, <3>9
    <3>12. \A r \in Program :
             r \in dvr'[p].sectioncallback <=> r = q \/ r \in dvr[p].sectioncallback
      BY <3>1, <3>8, <3>9
    <3> QED BY <2>3, <3>10, <3>11, <3>12
  <2> QED BY <2>1, <2>2, <2>3
<1>7. \A p \in Pid : dvr'[p] \in Entry
  BY <1>6 DEF Sound
<1>8. dvr' = [p \in Pid |-> dvr'[p]]
  BY <1>1, <1>5
<1> QED BY <1>6, <1>7, <1>8


-----------------------------------------------------------------------------
(* What a program gets is in its PID table, and of PID_MAX it takes a      *)
(* callback for granted.                                                   *)
LEMMA GetsIs ==
    \A q \in Program : /\ \A p \in Pid : GetsPid(q, p) <=> pidtable[q][p] # {}
                       /\ GetsPid(q, PidMax)
BY ProgramAssumption DEF GetsPid

(* What a PMT section does to the programs. *)
LEMMA PmtStep ==
    ASSUME IInv, NEW x \in Pid, NEW s \in PmtSection, PmtSectionCb(x, s)
    PROVE  /\ s.prog \in Program
           /\ PmtParse(s) \in PmtTable
           /\ pmt' = [pmt EXCEPT ![s.prog] = PmtParse(s)]
           /\ pidtable' \in [Program -> [Pid -> SUBSET Reason]]
           /\ \A r \in Program \ {s.prog} : pidtable'[r] = pidtable[r]
           /\ \A p \in Pid :
                pidtable'[s.prog][p] =
                  (IF p \in Leaves(s.prog, PmtParse(s)) THEN {}
                   ELSE pidtable[s.prog][p])
                  \cup (IF p \in JoinEs(s.prog, PmtParse(s)) THEN {"es"} ELSE {})
                  \cup (IF p \in JoinPcr(s.prog, PmtParse(s)) THEN {"pcr"} ELSE {})
           /\ PidMax \notin JoinEs(s.prog, PmtParse(s)) \cup JoinPcr(s.prog, PmtParse(s))
           /\ UNCHANGED <<patPsi, pat, todo, pmtpid, budget, limited, crashed>>
<1> DEFINE q == s.prog
           cur == PmtParse(s)
           tab == [p \in Pid |->
                     (IF p \in Leaves(q, cur) THEN {} ELSE pidtable[q][p])
                     \cup ((IF p \in JoinEs(q, cur) THEN {"es"} ELSE {})
                     \cup (IF p \in JoinPcr(q, cur) THEN {"pcr"} ELSE {}))]
<1>1. q \in Program /\ cur \in PmtTable
  BY SectionAssumption, PmtParseType
<1>2. /\ pmt' = [pmt EXCEPT ![q] = cur]
      /\ pidtable' = [pidtable EXCEPT ![q] = tab]
      /\ crashed' = (PidMax \in JoinEs(q, cur) \cup JoinPcr(q, cur))
      /\ ~crashed
      /\ UNCHANGED <<patPsi, pat, todo, pmtpid, budget, limited>>
  BY DEF PmtSectionCb, PmtUpdate
<1>3. pidtable \in [Program -> [Pid -> SUBSET Reason]] /\ crashed \in BOOLEAN
  BY DEF IInv, TypeOK
<1> HIDE DEF cur, q
<1>4. PidMax \notin JoinEs(q, cur) \cup JoinPcr(q, cur)
  BY <1>1, GetsIs DEF JoinEs, JoinPcr
<1>5. crashed' = crashed
  BY <1>2, <1>3, <1>4
<1>6. pidtable[q] \in [Pid -> SUBSET Reason]
  BY <1>1, <1>3
<1>7. tab \in [Pid -> SUBSET Reason]
  BY <1>6
<1>8. \A p \in Pid : tab[p] =
          (IF p \in Leaves(q, cur) THEN {} ELSE pidtable[q][p])
          \cup (IF p \in JoinEs(q, cur) THEN {"es"} ELSE {})
          \cup (IF p \in JoinPcr(q, cur) THEN {"pcr"} ELSE {})
  <2> SUFFICES ASSUME NEW p \in Pid
               PROVE  tab[p] =
                  (IF p \in Leaves(q, cur) THEN {} ELSE pidtable[q][p])
                  \cup (IF p \in JoinEs(q, cur) THEN {"es"} ELSE {})
                  \cup (IF p \in JoinPcr(q, cur) THEN {"pcr"} ELSE {})
    OBVIOUS
  <2>1. \A a, b, c : a \cup (b \cup c) = a \cup b \cup c
    OBVIOUS
  <2> QED BY <2>1
<1> HIDE DEF tab
<1>9. /\ pidtable' \in [Program -> [Pid -> SUBSET Reason]]
      /\ \A r \in Program \ {q} : pidtable'[r] = pidtable[r]
      /\ pidtable'[q] = tab
  BY <1>1, <1>2, <1>3, <1>7
<1> QED BY <1>1, <1>2, <1>4, <1>5, <1>8, <1>9 DEF q, cur

(* A PID is joined for one reason, or left, or neither. *)
LEMMA JoinedOrLeft ==
    ASSUME NEW q \in Program, NEW cur, NEW p \in Pid
    PROVE  /\ p \in Leaves(q, cur) => p \notin JoinEs(q, cur) \cup JoinPcr(q, cur)
           /\ p \notin JoinEs(q, cur) \cap JoinPcr(q, cur)
           /\ p \in JoinEs(q, cur) \cup JoinPcr(q, cur) => pidtable[q][p] = {}
BY GetsIs DEF Leaves, JoinEs, JoinPcr

(* ... and to the table of the demux: its entries stay sound, only the     *)
(* PIDs that are left lose callbacks, and filters close only after the     *)
(* last one.                                                               *)
LEMMA PmtDvr ==
    ASSUME IInv, NEW x \in Pid, NEW s \in PmtSection, PmtSectionCb(x, s)
    PROVE  /\ dvr' \in [Pid -> Entry]
           /\ \A p \in Pid :
                /\ Sound(dvr'[p], Owned(pidtable', p))
                /\ dvr'[p].sectioncallback = dvr[p].sectioncallback
                /\ p \notin Leaves(s.prog, PmtParse(s)) => OnlyGrows(p)
                /\ dvr[p].open /\ Owned(pidtable, p) \cap Owned(pidtable', p) # {}
                     => dvr'[p].open
<1> DEFINE q == s.prog
           cur == PmtParse(s)
<1>1. /\ dvr \in [Pid -> Entry] /\ budget \in BOOLEAN
      /\ pidtable \in [Program -> [Pid -> SUBSET Reason]]
  BY DEF IInv, TypeOK
<1>2. \A p \in Pid : Sound(dvr[p], Owned(pidtable, p))
  BY <1>1, SoundIs DEF IInv
<1>3. /\ q \in Program
      /\ \A r \in Program \ {q} : pidtable'[r] = pidtable[r]
      /\ \A p \in Pid :
           pidtable'[q][p] =
             (IF p \in Leaves(q, cur) THEN {} ELSE pidtable[q][p])
             \cup (IF p \in JoinEs(q, cur) THEN {"es"} ELSE {})
             \cup (IF p \in JoinPcr(q, cur) THEN {"pcr"} ELSE {})
  BY PmtStep
<1>4. PICK failed :
        /\ failed = {} \/ limited
        /\ dvr' = [p \in Pid |->
             IF p \in Leaves(q, cur)
             THEN DelTs(dvr[p], Cookies(q, pidtable[q][p]))
             ELSE IF p \in JoinEs(q, cur)
             THEN AddTs(dvr[p], <<q, "es">>, p \notin failed)
             ELSE IF p \in JoinPcr(q, cur)
             THEN AddTs(dvr[p], <<q, "pcr">>, p \notin failed)
             ELSE dvr[p]]
  BY DEF PmtSectionCb, PmtUpdate
<1> HIDE DEF q, cur
<1> DEFINE Goal(p) ==
        /\ Sound(dvr'[p], Owned(pidtable', p))
        /\ dvr'[p].sectioncallback = dvr[p].sectioncallback
        /\ p \notin Leaves(q, cur) => OnlyGrows(p)
        /\ dvr[p].open /\ Owned(pidtable, p) \cap Owned(pidtable', p) # {}
             => dvr'[p].open
<1>5. ASSUME NEW p \in Pid PROVE Goal(p)
  <2> DEFINE owned == Owned(pidtable, p)
  <2>1. Sound(dvr[p], owned) /\ Reassembler \notin owned
    BY <1>2, NotOwned
  <2>2. \A r \in Program \ {q} : pidtable'[r][p] = pidtable[r][p]
    BY <1>3
  <2>3. pidtable[q][p] \in SUBSET Reason
    <3>1. pidtable[q] \in [Pid -> SUBSET Reason]
      BY <1>1, <1>3
    <3> QED BY <3>1
  <2>4. CASE p \in Leaves(q, cur)
    <3> DEFINE C == Cookies(q, pidtable[q][p])
    <3>1. dvr'[p] = DelTs(dvr[p], C)
      BY <1>4, <2>4
    <3>2. pidtable'[q][p] = {}
      BY <1>3, <2>4, JoinedOrLeft
    <3>3. Left(pidtable, pidtable', q, p)
      BY <1>3, <2>2, <2>3, <3>2 DEF Left
    <3>4. Owned(pidtable', p) = owned \ C
      BY <3>3, OwnedLess
    <3>5. Reassembler \notin C
      BY <1>3, <2>3, CookiesOfPrograms
    <3> HIDE DEF owned, C
    <3>6. /\ Sound(DelTs(dvr[p], C), owned \ C)
          /\ DelTs(dvr[p], C).sectioncallback = dvr[p].sectioncallback
          /\ dvr[p].open /\ dvr[p].callback \ C # {} => DelTs(dvr[p], C).open
      BY <2>1, <3>5, DelTsSound
    <3>7. owned \subseteq dvr[p].callback
      BY <2>1 DEF Sound
    <3>8. dvr[p].open /\ owned \cap (owned \ C) # {} => dvr'[p].open
      BY <3>1, <3>6, <3>7
    <3>9. Sound(dvr'[p], Owned(pidtable', p))
      BY <3>1, <3>4, <3>6
    <3>10. dvr'[p].sectioncallback = dvr[p].sectioncallback
      BY <3>1, <3>6
    <3> QED BY <2>4, <3>4, <3>8, <3>9, <3>10 DEF owned
  <2>5. ASSUME NEW why \in {"es", "pcr"},
               dvr'[p] = AddTs(dvr[p], <<q, why>>, p \notin failed),
               pidtable'[q][p] = pidtable[q][p] \cup {why},
               p \notin Leaves(q, cur)
        PROVE  Goal(p)
    <3> DEFINE c == <<q, why>>
               ok == p \notin failed
    <3>1. Joined(pidtable, pidtable', q, p, why)
      BY <1>3, <2>2, <2>5 DEF Joined
    <3>2. Owned(pidtable', p) = owned \cup {c}
      BY <3>1, OwnedMore
    <3>3. c \in Cookie /\ c # Reassembler
      BY <1>3, CookiesOfPrograms
    <3>4. ok \in BOOLEAN /\ (ok \/ limited)
      BY <1>4
    <3>5. dvr'[p] = AddTs(dvr[p], c, ok)
      BY <2>5
    <3> HIDE DEF owned, c, ok
    <3>6. /\ Sound(AddTs(dvr[p], c, ok), owned \cup {c})
          /\ AddTs(dvr[p], c, ok).sectioncallback = dvr[p].sectioncallback
          /\ AddTs(dvr[p], c, ok).callback = dvr[p].callback \cup {c}
          /\ dvr[p].open => AddTs(dvr[p], c, ok).open
      BY <1>1, <2>1, <3>3, <3>4, AddTsSound
    <3>7. OnlyGrows(p)
      BY <3>5, <3>6 DEF OnlyGrows
    <3>8. Sound(dvr'[p], Owned(pidtable', p))
      BY <3>2, <3>5, <3>6
    <3> QED BY <3>5, <3>6, <3>7, <3>8
  <2>6. CASE p \in JoinEs(q, cur)
    <3>1. p \notin Leaves(q, cur) /\ p \notin JoinPcr(q, cur)
      BY <1>3, <2>6, JoinedOrLeft
    <3>2. dvr'[p] = AddTs(dvr[p], <<q, "es">>, p \notin failed)
      BY <1>4, <2>6, <3>1
    <3>3. pidtable'[q][p] = pidtable[q][p] \cup {"es"}
      BY <1>3, <2>6, <3>1
    <3> QED BY <2>5, <3>1, <3>2, <3>3
  <2>7. CASE p \in JoinPcr(q, cur)
    <3>1. p \notin Leaves(q, cur) /\ p \notin JoinEs(q, cur)
      BY <1>3, <2>7, JoinedOrLeft
    <3>2. dvr'[p] = AddTs(dvr[p], <<q, "pcr">>, p \notin failed)
      BY <1>4, <2>7, <3>1
    <3>3. pidtable'[q][p] = pidtable[q][p] \cup {"pcr"}
      BY <1>3, <2>7, <3>1
    <3> QED BY <2>5, <3>1, <3>2, <3>3
  <2>8. CASE p \notin Leaves(q, cur) \cup JoinEs(q, cur) \cup JoinPcr(q, cur)
    <3>1. dvr'[p] = dvr[p]
      BY <1>4, <2>8
    <3>2. pidtable'[q][p] = pidtable[q][p]
      BY <1>3, <2>8
    <3>3. \A r \in Program : pidtable'[r][p] = pidtable[r][p]
      BY <2>2, <3>2
    <3>4. Owned(pidtable', p) = owned
      BY <3>3, OwnedSame
    <3> QED BY <2>1, <3>1, <3>4 DEF OnlyGrows
  <2> QED BY <2>4, <2>6, <2>7, <2>8
<1>6. \A p \in Pid : dvr'[p] \in Entry
  BY <1>5 DEF Sound
<1>7. dvr' = [p \in Pid |-> dvr'[p]]
  BY <1>4
<1> QED BY <1>5, <1>6, <1>7 DEF q, cur


-----------------------------------------------------------------------------
(* IInv holds at the start. *)
LEMMA InitKeeps ==
    ASSUME Init PROVE IInv
<1>1. /\ 0 \in Pid /\ StaticPid \subseteq Pid /\ TablePid \subseteq Pid
      /\ 0 \notin Nat \ {0}
  BY ProgramAssumption
<1>2. PICK failed : /\ failed = {} \/ limited
                    /\ dvr = Started(failed)
  BY DEF Init
<1>3. budget \in BOOLEAN /\ limited \in BOOLEAN
  BY DEF Init
<1>4. \A q \in Program, p \in Pid :
        pidtable[q][p] = {} /\ pmtpid[q] = 0 /\ pmt[q] = None
  BY DEF Init
<1> DEFINE first(p) == (IF p \in StaticPid THEN {Static} ELSE {})
                       \cup (IF p \in TablePid THEN {Reassembler} ELSE {})
           users(p) == IF p \in TablePid THEN {Adapter} ELSE {}
<1>5. ASSUME NEW p \in Pid
      PROVE  /\ dvr[p] \in Entry
             /\ dvr[p].callback = first(p)
             /\ dvr[p].secuser = IF p \in TablePid THEN 1 ELSE 0
             /\ dvr[p].sectioncallback = users(p)
             /\ dvr[p].open = (~budget /\ first(p) # {} /\ p \notin failed)
  BY <1>2, <1>3 DEF Started, Entry, Cookie
<1>6. ASSUME NEW p \in Pid PROVE Sound(dvr[p], Owned(pidtable, p))
  <2>1. Owned(pidtable, p) = IF p \in StaticPid THEN {Static} ELSE {}
    BY <1>4 DEF Owned
  <2>2. users(p) # {} <=> p \in TablePid
    OBVIOUS
  <2>3. Cardinality(users(p)) = IF p \in TablePid THEN 1 ELSE 0
    BY FS_Singleton, FS_EmptySet
  <2>4. dvr[p].open => ~budget /\ dvr[p].callback # {}
    BY <1>5
  <2>5. ~budget /\ ~limited /\ dvr[p].callback # {} => dvr[p].open
    BY <1>2, <1>5
  <2>6. dvr[p].secuser = Cardinality(dvr[p].sectioncallback)
    BY <1>5, <2>3
  <2>7. dvr[p].callback =
          Owned(pidtable, p)
          \cup (IF dvr[p].sectioncallback # {} THEN {Reassembler} ELSE {})
    BY <1>5, <2>1, <2>2
  <2> QED BY <1>5, <2>4, <2>5, <2>6, <2>7 DEF Sound
<1>7. dvr \in [Pid -> Entry]
  <2>1. dvr = [p \in Pid |-> dvr[p]]
    BY <1>2 DEF Started
  <2> QED BY <1>5, <2>1
<1>8. FiltersMatchCallbacks
  BY <1>6, <1>7, SoundIs
<1>9. PmtPidReceived
  <2>1. ASSUME NEW q \in Program, NEW p \in Pid
        PROVE  q \notin dvr[p].sectioncallback
    BY <1>5, ProgramAssumption
  <2> QED BY <1>4, <2>1 DEF PmtPidReceived
<1>10. OnlyActivePids /\ NoDoubleDelivery
  BY <1>4, GetsIs DEF OnlyActivePids, NoDoubleDelivery
<1>11. CurrentPmtReceived
  BY <1>4 DEF CurrentPmtReceived
<1>12. PmtPidFollowsPat
  BY <1>4 DEF Init, PmtPidFollowsPat
<1>13. TypeOK
  BY <1>3, <1>7 DEF Init, TypeOK
<1> QED BY <1>8, <1>9, <1>10, <1>11, <1>12, <1>13 DEF IInv

(* A PAT section changes the PAT, and what is left to do. *)
LEMMA PatKeeps ==
    ASSUME IInv, NEW s \in PatSection, PatSectionCb(s)
    PROVE  IInv'
<1> DEFINE psi == [patPsi EXCEPT ![s.num] = s]
<1>1. psi \in [SecNum -> PatSection \cup {None}] /\ psi[0] # None
  BY SectionAssumption DEF IInv, TypeOK, PatSectionCb
<1>2. /\ patPsi' = psi
      /\ pat' = PatParse(psi)
      /\ todo' = {q \in Program : PidFromPat(pat, PatParse(psi), q)}
      /\ UNCHANGED <<pmtpid, pmtPsi, pmt, pidtable, dvr, budget, limited, crashed>>
      /\ ~crashed /\ todo = {}
  BY DEF PatSectionCb, PatAccepts
<1> HIDE DEF psi
<1>3. pat' \in PatTable
  BY <1>1, <1>2, PatParseType
<1>4. \A q \in Program : q \in todo' <=> PidFromPat(pat, pat', q)
  BY <1>2
<1>5. TypeOK'
  BY <1>1, <1>2, <1>3, NoneIsNoTable DEF IInv, TypeOK
<1>6. PmtPidFollowsPat'
  <2> SUFFICES ASSUME NEW q \in Program, q \notin todo'
               PROVE  /\ pat'[q] = Absent => pmtpid'[q] = 0
                      /\ pat'[q] \in PmtPid => pmtpid'[q] \in {pat'[q], 0}
    BY <1>3, NoneIsNoTable DEF PmtPidFollowsPat
  <2>1. pat = None => pmtpid[q] = 0
    BY <1>2 DEF IInv, PmtPidFollowsPat
  <2>2. pat # None => /\ pat[q] = Absent => pmtpid[q] = 0
                      /\ pat[q] \in PmtPid => pmtpid[q] \in {pat[q], 0}
    BY <1>2 DEF IInv, PmtPidFollowsPat
  <2>3. Absent \notin PmtPid /\ 0 \notin PmtPid
    BY AbsentIsNoPid
  <2>4. ~PidFromPat(pat, pat', q) /\ pmtpid' = pmtpid
    BY <1>2, <1>4
  <2> QED BY <2>1, <2>2, <2>3, <2>4 DEF PidFromPat
<1>7. UNCHANGED <<pmtpid, pmtPsi, pmt, pidtable, dvr, budget, limited>>
  BY <1>2
<1> QED BY <1>5, <1>6, <1>7 DEF IInv, PmtPidReceived, OnlyActivePids,
        CurrentPmtReceived, NoDoubleDelivery, FiltersMatchCallbacks, GetsPid


(* A program that moves keeps each part of IInv. *)
LEMMA MoveKeeps ==
    ASSUME IInv, NEW q \in Program, PmtPidFromPat(q)
    PROVE  IInv'
<1> DEFINE new == NewPmtPid(q)
<1>1. /\ pat \in PatTable /\ new \in (PmtPid \ {PidMax}) \cup {0}
      /\ pmtpid' = [pmtpid EXCEPT ![q] = new]
      /\ pmtpid' \in [Program -> (PmtPid \ {PidMax}) \cup {0}]
      /\ pidtable' \in [Program -> [Pid -> SUBSET Reason]]
      /\ \A r \in Program \ {q} : pidtable'[r] = pidtable[r]
  BY MoveStep
<1>2. \A p \in Pid :
        pidtable'[q][p] = IF p = 0 \/ new = pmtpid[q] THEN pidtable[q][p]
                          ELSE IF p = pmtpid[q] THEN {}
                          ELSE IF p = new THEN pidtable[q][p] \cup {"pmt"}
                          ELSE pidtable[q][p]
  BY MoveStep
<1>3. /\ dvr' \in [Pid -> Entry]
      /\ \A p \in Pid :
           /\ Sound(dvr'[p], Owned(pidtable', p))
           /\ \A r \in Program :
                r \in dvr'[p].sectioncallback <=>
                   IF r = q THEN p # 0 /\ p = new ELSE r \in dvr[p].sectioncallback
  BY MoveDvr
<1>4. /\ UNCHANGED <<patPsi, pat, pmtPsi, pmt, budget, limited, crashed>>
      /\ q \in todo /\ todo' = todo \ {q}
      /\ new = IF pat[q] = Absent THEN 0 ELSE pat[q]
      /\ new # PidMax
      /\ ~crashed
  BY DEF PmtPidFromPat, Turn, NewPmtPid
<1>5. /\ pmtpid \in [Program -> (PmtPid \ {PidMax}) \cup {0}]
      /\ pidtable \in [Program -> [Pid -> SUBSET Reason]]
  BY DEF IInv, TypeOK
<1>6. pmtpid'[q] = new /\ \A r \in Program \ {q} : pmtpid'[r] = pmtpid[r]
  BY <1>1, <1>5
<1> HIDE DEF new
<1>7. FiltersMatchCallbacks'
  <2>1. \A x, y, z : (x \cup y) \cup z = x \cup (y \cup z)
    OBVIOUS
  <2> QED BY <1>3, <1>4, <2>1 DEF FiltersMatchCallbacks, Sound, Owned
<1>8. PmtPidReceived'
  <2> SUFFICES ASSUME NEW r \in Program, NEW p \in Pid
               PROVE  /\ r \in dvr'[p].sectioncallback <=> p # 0 /\ pmtpid'[r] = p
                      /\ "pmt" \in pidtable'[r][p] <=> p # 0 /\ pmtpid'[r] = p
    BY DEF PmtPidReceived
  <2>1. /\ r \in dvr[p].sectioncallback <=> p # 0 /\ pmtpid[r] = p
        /\ "pmt" \in pidtable[r][p] <=> p # 0 /\ pmtpid[r] = p
    BY DEF IInv, PmtPidReceived
  <2>2. CASE r # q
    BY <1>1, <1>3, <1>6, <2>1, <2>2
  <2>3. CASE r = q
    BY <1>2, <1>3, <1>6, <2>1, <2>3
  <2> QED BY <2>2, <2>3
<1>9. PmtPidFollowsPat'
  <2> SUFFICES ASSUME NEW r \in Program, r \notin todo'
               PROVE  /\ pat[r] = Absent => pmtpid'[r] = 0
                      /\ pat[r] \in PmtPid => pmtpid'[r] \in {pat[r], 0}
    BY <1>1, <1>4, NoneIsNoTable DEF PmtPidFollowsPat
  <2>1. CASE r = q
    BY <1>4, <1>6, <2>1, AbsentIsNoPid
  <2>2. CASE r # q
    BY <1>1, <1>4, <1>6, <2>2, NoneIsNoTable DEF IInv, PmtPidFollowsPat
  <2> QED BY <2>1, <2>2
<1>10. OnlyActivePids'
  <2> SUFFICES ASSUME NEW r \in Program, NEW p \in Pid, pidtable'[r][p] # {}
               PROVE  \/ p # 0 /\ p = pmtpid'[r]
                      \/ pmt[r] # None /\ p \in pmt[r].es \cup {pmt[r].pcrpid}
    BY <1>4, ProgramAssumption DEF OnlyActivePids, GetsPid
  <2>1. pidtable[r][p] # {} =>
           \/ p # 0 /\ p = pmtpid[r]
           \/ pmt[r] # None /\ p \in pmt[r].es \cup {pmt[r].pcrpid}
    BY GetsIs DEF IInv, OnlyActivePids
  <2>2. CASE r # q
    BY <1>1, <1>6, <2>1, <2>2
  <2>3. CASE r = q
    BY <1>2, <1>6, <2>1, <2>3
  <2> QED BY <2>2, <2>3
<1>11. CurrentPmtReceived'
  <2> SUFFICES ASSUME NEW r \in Program, pmt[r] # None,
                      NEW p \in ((pmt[r].es \cup {pmt[r].pcrpid}) \cap Pid) \ PmtPid
               PROVE  pidtable'[r][p] # {}
    BY <1>4 DEF CurrentPmtReceived, GetsPid
  <2>1. pidtable[r][p] # {}
    BY GetsIs DEF IInv, CurrentPmtReceived
  <2>2. p = 0 \/ p \notin {pmtpid[q], new}
    BY <1>1, <1>5
  <2> QED BY <1>1, <1>2, <2>1, <2>2
<1>12. NoDoubleDelivery'
  <2> SUFFICES ASSUME NEW r \in Program, NEW p \in Pid \ PmtPid
               PROVE  pidtable'[r][p] = pidtable[r][p]
    BY DEF IInv, NoDoubleDelivery
  <2>1. p = 0 \/ p \notin {pmtpid[q], new}
    BY <1>1, <1>5
  <2> QED BY <1>1, <1>2, <2>1
<1>13. TypeOK'
  BY <1>1, <1>3, <1>4 DEF IInv, TypeOK
<1> QED BY <1>7, <1>8, <1>9, <1>10, <1>11, <1>12, <1>13 DEF IInv

(* So does a program whose PMT changes. *)
LEMMA PmtKeeps ==
    ASSUME IInv, NEW x \in Pid, NEW s \in PmtSection, PmtSectionCb(x, s)
    PROVE  IInv'
<1> DEFINE q == s.prog
           cur == PmtParse(s)
<1>1. /\ q \in Program
      /\ cur \in PmtTable
      /\ pmt' = [pmt EXCEPT ![q] = cur]
      /\ pidtable' \in [Program -> [Pid -> SUBSET Reason]]
      /\ \A r \in Program \ {q} : pidtable'[r] = pidtable[r]
      /\ UNCHANGED <<patPsi, pat, todo, pmtpid, budget, limited, crashed>>
  BY PmtStep
<1>2. \A p \in Pid :
        pidtable'[q][p] =
          (IF p \in Leaves(q, cur) THEN {} ELSE pidtable[q][p])
          \cup (IF p \in JoinEs(q, cur) THEN {"es"} ELSE {})
          \cup (IF p \in JoinPcr(q, cur) THEN {"pcr"} ELSE {})
  BY PmtStep
<1>3. /\ dvr' \in [Pid -> Entry]
      /\ \A p \in Pid :
           /\ Sound(dvr'[p], Owned(pidtable', p))
           /\ dvr'[p].sectioncallback = dvr[p].sectioncallback
  BY PmtDvr
<1>4. pmtPsi' = [pmtPsi EXCEPT ![q] = s] /\ q \in dvr[x].sectioncallback
  BY DEF PmtSectionCb
<1>5. /\ \A r \in Program \ {q} : pmt'[r] = pmt[r]
      /\ pmt'[q] = cur /\ cur # None
      /\ pmt' \in [Program -> PmtTable \cup {None}]
  BY <1>1, NoneIsNoTable DEF IInv, TypeOK
<1> HIDE DEF q, cur
<1>6. FiltersMatchCallbacks'
  <2>1. \A y, z, w : (y \cup z) \cup w = y \cup (z \cup w)
    OBVIOUS
  <2> QED BY <1>1, <1>3, <2>1 DEF FiltersMatchCallbacks, Sound, Owned
<1>7. PmtPidReceived'
  <2> SUFFICES ASSUME NEW r \in Program, NEW p \in Pid
               PROVE  "pmt" \in pidtable'[r][p] <=> p # 0 /\ pmtpid[r] = p
    BY <1>1, <1>3 DEF IInv, PmtPidReceived
  <2>1. "pmt" \in pidtable[r][p] <=> p # 0 /\ pmtpid[r] = p
    BY DEF IInv, PmtPidReceived
  <2>2. CASE r # q
    BY <1>1, <2>1, <2>2
  <2>3. CASE r = q
    <3>1. p \in Leaves(q, cur) => pmtpid[q] # p
      BY DEF Leaves
    <3> QED BY <1>2, <2>1, <2>3, <3>1
  <2> QED BY <2>2, <2>3
<1>8. PmtPidFollowsPat'
  BY <1>1 DEF IInv, PmtPidFollowsPat
<1>9. OnlyActivePids'
  <2> SUFFICES ASSUME NEW r \in Program, NEW p \in Pid, pidtable'[r][p] # {}
               PROVE  \/ p # 0 /\ p = pmtpid[r]
                      \/ pmt'[r] # None /\ p \in pmt'[r].es \cup {pmt'[r].pcrpid}
    BY <1>1, ProgramAssumption DEF OnlyActivePids, GetsPid
  <2>1. CASE r # q
    BY <1>1, <1>5, <2>1, GetsIs DEF IInv, OnlyActivePids
  <2>2. CASE r = q
    <3>1. pmtpid[q] # 0
      BY <1>1, <1>4 DEF IInv, PmtPidReceived
    <3>2. /\ p \in JoinEs(q, cur) => p \in cur.es
          /\ p \in JoinPcr(q, cur) => p = cur.pcrpid
          /\ pidtable[q][p] # {} /\ p \notin Leaves(q, cur)
               => p \in {cur.pcrpid, pmtpid[q]} \cup cur.es
      BY <1>1, GetsIs DEF Leaves, JoinEs, JoinPcr
    <3> QED BY <1>2, <1>5, <2>2, <3>1, <3>2
  <2> QED BY <2>1, <2>2
<1>10. CurrentPmtReceived'
  <2> SUFFICES ASSUME NEW r \in Program, pmt'[r] # None,
                      NEW p \in ((pmt'[r].es \cup {pmt'[r].pcrpid}) \cap Pid) \ PmtPid
               PROVE  pidtable'[r][p] # {}
    BY DEF CurrentPmtReceived, GetsPid
  <2>1. CASE r # q
    BY <1>1, <1>5, <2>1, GetsIs DEF IInv, CurrentPmtReceived
  <2>2. CASE r = q
    <3>1. p # PidMax
      BY ProgramAssumption
    <3>2. p \notin Leaves(q, cur)
      BY <1>5, <2>2 DEF Leaves
    <3>3. p \in cur.es /\ pidtable[q][p] = {} => p \in JoinEs(q, cur)
      BY <1>1, GetsIs DEF JoinEs, IInv, CurrentPmtReceived
    <3>4. p = cur.pcrpid /\ pidtable[q][p] = {} =>
            p \in JoinEs(q, cur) \cup JoinPcr(q, cur)
      BY <1>1, <3>1, GetsIs DEF JoinPcr
    <3> QED BY <1>2, <1>5, <2>2, <3>2, <3>3, <3>4
  <2> QED BY <2>1, <2>2
<1>11. NoDoubleDelivery'
  <2> SUFFICES ASSUME NEW r \in Program, NEW p \in Pid \ PmtPid
               PROVE  \A r1, r2 \in pidtable'[r][p] : r1 = r2
    BY DEF NoDoubleDelivery
  <2>1. \A r1, r2 \in pidtable[r][p] : r1 = r2
    BY DEF IInv, NoDoubleDelivery
  <2>2. CASE r # q
    BY <1>1, <2>1, <2>2
  <2>3. CASE r = q
    BY <1>1, <1>2, <2>1, <2>3, JoinedOrLeft
  <2> QED BY <2>2, <2>3
<1>12. pmtPsi' \in [Program -> PmtSection \cup {None}]
  BY <1>1, <1>4 DEF IInv, TypeOK
<1>13. TypeOK'
  BY <1>1, <1>3, <1>5, <1>12 DEF IInv, TypeOK
<1> QED BY <1>6, <1>7, <1>8, <1>9, <1>10, <1>11, <1>13 DEF IInv


(* IInv holds in every reachable state. *)
THEOREM Invariance == Spec => []IInv
<1>1. Init => IInv
  BY InitKeeps
<1>2. IInv /\ [Next]_vars => IInv'
  <2> SUFFICES ASSUME IInv, [Next]_vars PROVE IInv'
    OBVIOUS
  <2>1. CASE UNCHANGED vars
    <3>1. TypeOK'
      BY <2>1 DEF IInv, vars, TypeOK
    <3>2. PmtPidReceived' /\ PmtPidFollowsPat' /\ CurrentPmtReceived'
      BY <2>1 DEF IInv, vars, PmtPidReceived, PmtPidFollowsPat,
         CurrentPmtReceived, GetsPid
    <3>3. OnlyActivePids' /\ NoDoubleDelivery'
      BY <2>1 DEF IInv, vars, OnlyActivePids, NoDoubleDelivery, GetsPid
    <3>4. FiltersMatchCallbacks'
      BY <2>1 DEF IInv, vars, FiltersMatchCallbacks
    <3> QED BY <3>1, <3>2, <3>3, <3>4 DEF IInv
  <2>2. ASSUME NEW s \in PatSection, PatSectionCb(s) PROVE IInv'
    BY <2>2, PatKeeps
  <2>3. ASSUME NEW s \in PatSection, PatSectionCrash(s) PROVE IInv'
    <3>1. TypeOK'
      BY <2>3, SectionAssumption DEF PatSectionCrash, PatAccepts, IInv, TypeOK
    <3> QED BY <2>3, <3>1 DEF PatSectionCrash, IInv, PmtPidReceived,
            PmtPidFollowsPat, OnlyActivePids, CurrentPmtReceived,
            NoDoubleDelivery, FiltersMatchCallbacks, GetsPid
  <2>4. ASSUME NEW q \in Program, PmtPidFromPat(q) PROVE IInv'
    BY <2>4, MoveKeeps
  <2>5. ASSUME NEW q \in Program, PmtPidOverrun(q) PROVE IInv'
    <3>1. q \in todo /\ pat # None
      BY <2>5 DEF PmtPidOverrun, Turn, IInv, TypeOK
    <3>2. pat[q] = PidMax
      BY <2>5, ProgramAssumption DEF PmtPidOverrun, NewPmtPid
    <3>3. TypeOK'
      BY <2>5, <3>1, <3>2 DEF PmtPidOverrun, IInv, TypeOK
    <3>4. PmtPidFollowsPat'
      BY <2>5, <3>1 DEF PmtPidOverrun, IInv, PmtPidFollowsPat
    <3> QED BY <2>5, <3>3, <3>4 DEF PmtPidOverrun, IInv, PmtPidReceived,
            OnlyActivePids, CurrentPmtReceived, NoDoubleDelivery,
            FiltersMatchCallbacks, GetsPid
  <2>6. ASSUME NEW p \in Pid, NEW s \in PmtSection, PmtSectionCb(p, s)
        PROVE  IInv'
    BY <2>6, PmtKeeps
  <2> QED BY <2>1, <2>2, <2>3, <2>4, <2>5, <2>6 DEF Next
<1> QED BY <1>1, <1>2, PTL DEF Spec
-----------------------------------------------------------------------------
(* Programs keeps its types, whatever the multiplex sends: no ES PID or    *)
(* PCR PID ever indexes a program's PID table behind its end, though the   *)
(* code checks none, and section users never drop below zero.  The PMT PID *)
(* of PID_MAX, which does, and the PAT without section 0 end the process.  *)
THEOREM TypeCorrect == Spec => []TypeOK
BY Invariance, PTL DEF IInv

(* What a program calls its PMT PID, and announces in its PAT, is the PID  *)
(* it gets PMT sections and packets from.                                  *)
THEOREM PmtReceived == Spec => []PmtPidReceived
BY Invariance, PTL DEF IInv

(* The PMT PIDs follow the PAT. *)
THEOREM PatFollowed == Spec => []PmtPidFollowsPat
BY Invariance, PTL DEF IInv

(* No program lacks a PID its PMT has: pmt_update skips what the last PMT  *)
(* had too, and has it still.                                              *)
THEOREM PmtFollowed == Spec => []CurrentPmtReceived
BY Invariance, PTL DEF IInv

(* And none keeps a PID its PMT dropped: the loop of pmt_update that       *)
(* leaves PIDs misses none, whatever was joined before.                    *)
THEOREM OnlyActive == Spec => []OnlyActivePids
BY Invariance, PTL DEF IInv

(* No output gets a packet of a stream or of the PCR twice. *)
THEOREM DeliveredOnce == Spec => []NoDoubleDelivery
BY Invariance, PTL DEF IInv

(* The table of the demux has a callback for each join a program can still *)
(* undo and for no other, counts its section users, and has a filter open  *)
(* for a PID only while it has callbacks.                                  *)
THEOREM FiltersMatched == Spec => []FiltersMatchCallbacks
BY Invariance, PTL DEF IInv

(* A program that keeps a PID never sees its filter closed by another. *)
THEOREM SharedFilter == Spec => SharedFilterStays
<1>1. IInv /\ [Next]_vars => [SharedFilterKept]_vars
  <2> SUFFICES ASSUME IInv, Next, NEW p \in Pid, dvr[p].open,
                      \/ p \in StaticPid
                      \/ \E q \in Program : pidtable[q][p] \cap pidtable'[q][p] # {}
               PROVE  dvr'[p].open
    BY DEF SharedFilterKept
  <2>1. ASSUME pidtable' \in [Program -> [Pid -> SUBSET Reason]]
        PROVE  Owned(pidtable, p) \cap Owned(pidtable', p) # {}
    <3>1. CASE p \in StaticPid
      BY <3>1 DEF Owned
    <3>2. CASE \E q \in Program : pidtable[q][p] \cap pidtable'[q][p] # {}
      <4>1. PICK q \in Program : pidtable[q][p] \cap pidtable'[q][p] # {}
        BY <3>2
      <4>2. pidtable'[q] \in [Pid -> SUBSET Reason]
        BY <2>1
      <4>3. PICK x \in Reason : x \in pidtable[q][p] /\ x \in pidtable'[q][p]
        BY <4>1, <4>2
      <4>4. <<q, x>> \in Program \X Reason
        OBVIOUS
      <4>5. <<q, x>> \in Owned(pidtable, p) /\ <<q, x>> \in Owned(pidtable', p)
        BY <4>3, <4>4 DEF Owned
      <4> QED BY <4>5
    <3> QED BY <3>1, <3>2
  <2>2. ASSUME UNCHANGED dvr PROVE dvr'[p].open
    BY <2>2
  <2>3. ASSUME NEW q \in Program, PmtPidFromPat(q) PROVE dvr'[p].open
    BY <2>1, <2>3, MoveStep, MoveDvr
  <2>4. ASSUME NEW x \in Pid, NEW s \in PmtSection, PmtSectionCb(x, s)
        PROVE  dvr'[p].open
    BY <2>1, <2>4, PmtStep, PmtDvr
  <2> QED BY <2>2, <2>3, <2>4 DEF Next, PatSectionCb, PatSectionCrash, PmtPidOverrun
<1> QED BY <1>1, Invariance, PTL DEF Spec, SharedFilterStays

(* No handler takes an element off a list that dvr_input_ts or             *)
(* dvr_section_reassemble is walking when it calls the handler.            *)
THEOREM WalkedList == Spec => WalkedListOnlyGrows
<1>1. IInv /\ [Next]_vars => [WalkedListKept]_vars
  <2> SUFFICES ASSUME IInv, Next PROVE WalkedListKept
    OBVIOUS
  <2>1. 0 \in Pid
    BY ProgramAssumption
  <2>2. ASSUME UNCHANGED <<dvr, pmtPsi>> PROVE WalkedListKept
    BY <2>2 DEF WalkedListKept, OnlyGrows
  <2>3. ASSUME NEW q \in Program, PmtPidFromPat(q) PROVE WalkedListKept
    <3>1. OnlyGrows(0)
      BY <2>1, <2>3, MoveDvr
    <3>2. UNCHANGED pmtPsi
      BY <2>3 DEF PmtPidFromPat
    <3> QED BY <3>1, <3>2 DEF WalkedListKept
  <2>4. ASSUME NEW x \in Pid, NEW s \in PmtSection, PmtSectionCb(x, s)
        PROVE  WalkedListKept
    <3>1. s.prog \in Program /\ UNCHANGED <<patPsi, todo>> /\ todo = {}
      BY <2>4, PmtStep DEF PmtSectionCb
    <3>2. \A r \in Program \ {s.prog} : pmtPsi'[r] = pmtPsi[r]
      BY <2>4 DEF PmtSectionCb, IInv, TypeOK
    <3>3. ASSUME NEW p \in Pid, s.prog \in dvr[p].sectioncallback
          PROVE  OnlyGrows(p)
      <4>1. pmtpid[s.prog] = p
        BY <3>1, <3>3 DEF IInv, PmtPidReceived
      <4>2. p \notin Leaves(s.prog, PmtParse(s))
        BY <4>1 DEF Leaves
      <4> QED BY <2>4, <4>2, PmtDvr
    <3> QED BY <3>1, <3>2, <3>3 DEF WalkedListKept
  <2> QED BY <2>2, <2>3, <2>4 DEF Next, PatSectionCb, PatSectionCrash, PmtPidOverrun
<1> QED BY <1>1, Invariance, PTL DEF Spec, WalkedListOnlyGrows

=============================================================================
