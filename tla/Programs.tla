------------------------------ MODULE Programs ------------------------------
(***************************************************************************)
(* Program tracking of one adapter: the PAT handler (pat.c), the PMT       *)
(* handler of every program a stream asked for (pmt.c), and what the two   *)
(* do to the PID table of the demux (dvr.c, dmx.c).                        *)
(*                                                                         *)
(* Everything here runs in callbacks of one libevent thread, and a handler *)
(* runs to its end: a PMT section is one step, and a PAT section one step  *)
(* and then, with no other packet in between, one for each program of      *)
(* which it changes the PMT PID.  The environment is the multiplex, which  *)
(* may send any section of PatSection and PmtSection at any time, on PIDs  *)
(* the adapter receives.                                                   *)
(*                                                                         *)
(* A program's callback list for a PID (program_s.pidtable[pid].cb) holds  *)
(* one cookie per stream for each time the program joined it, and progcbl  *)
(* is fixed before the first packet, so the list is represented by the set *)
(* of reasons ("es", "pcr", "pmt": the type argument of pmt_prog_join_pid) *)
(* the program joined the PID for.  Two reasons on one PID are two copies  *)
(* of every packet in each output of the program.  In the same way an      *)
(* entry of the demux's PID table has a set of cookies: who added a        *)
(* callback, and for what.                                                 *)
(***************************************************************************)
EXTENDS Integers, FiniteSets

CONSTANTS
    Program,      \* the programs on pmt.pnrlist: INPUT_PNR inputs of streams
    Adapter,      \* the adapter itself, for its own callbacks
    PidMax,       \* PID_MAX, the null packet PID
    PmtPid,       \* the PIDs a PAT may announce as PMT PIDs
    StaticPid,    \* the PIDs of INPUT_PID inputs, joined for good at start
    TablePid,     \* the PIDs of the adapter's own tables: PAT and SDT
    SecMax,       \* the highest section number of a PAT
    SecOf,        \* the number of the PAT section that lists a program
    PatSection,   \* the PAT sections the multiplex may send
    PmtSection,   \* the PMT sections the multiplex may send
    Absent,       \* "this PAT does not list the program"
    None          \* a NULL pointer

(* A program keeps callbacks for the PIDs below PID_MAX. *)
Pid == 0 .. PidMax - 1

SecNum == 0 .. SecMax

(***************************************************************************)
(* What the multiplex may send.  A program is always listed by the same    *)
(* section of the PAT and is listed there once; a PMT is one section (ISO  *)
(* 13818-1, 2.4.4.9).  A PAT may name the invalid PMT PIDs 0 and PID_MAX,  *)
(* and PID_MAX may be the PID of a stream.  An empty ES loop is allowed:   *)
(* crcpid is the PID found at its place, which is made of bytes of the     *)
(* section's CRC and may be any.                                           *)
(***************************************************************************)
ASSUME ProgramAssumption ==
    /\ IsFiniteSet(Program)
    /\ Adapter \notin Program
    /\ PidMax \in Nat \ {0}
    /\ PmtPid \subseteq 1 .. PidMax
    /\ StaticPid \subseteq Pid
    /\ TablePid \subseteq Pid
    /\ 0 \in TablePid
    /\ SecMax \in Nat
    /\ SecOf \in [Program -> SecNum]
    /\ Absent \notin Nat

ASSUME SectionAssumption ==
    /\ PatSection \subseteq
         [num : SecNum, last : SecNum, version : Nat, current : BOOLEAN,
          pid : [Program -> PmtPid \cup {0, Absent}]]
    /\ \A s \in PatSection, q \in Program :
         s.pid[q] # Absent => SecOf[q] = s.num
    /\ None \notin PatSection
    /\ None \notin [Program -> PmtPid \cup {0, Absent}]
    /\ PmtSection \subseteq
         [prog : Program, version : Nat, current : BOOLEAN,
          pcr : 0 .. PidMax, es : SUBSET (0 .. PidMax), crcpid : 0 .. PidMax]
    /\ None \notin PmtSection
    /\ None \notin [pcrpid : 0 .. PidMax, es : SUBSET (0 .. PidMax)]

VARIABLES
    patPsi,    \* adapter->pat.psi: the last PAT section of each number
    pat,       \* adapter->pat.current: the PMT PID of each program
    todo,      \* the calls of pmt_pidfrompat pat_update has still to make
    pmtpid,    \* prog->pmtpid, 0 while the PMT is not joined
    pmtPsi,    \* prog->psi: the last PMT section
    pmt,       \* prog->pmtcurrent: PCR PID and ES PIDs
    pidtable,  \* prog->pidtable[pid].cb: why the program joined the PID
    dvr,       \* adapter->dvr.pidtable[pid], with dmx.pidtable[pid].fd
    budget,    \* the full transponder is received through PID 0x2000
    limited,   \* opening or setting a filter of the card may fail
    crashed    \* a NULL pointer or a place behind an array was used

vars == <<patPsi, pat, todo, pmtpid, pmtPsi, pmt, pidtable, dvr, budget,
          limited, crashed>>

-----------------------------------------------------------------------------
(* The PID table of the demux.  An entry has the cookies of its TS         *)
(* callbacks, the number of section users, the owners of the section       *)
(* callbacks, and whether its filter is open (dmx.pidtable[pid].fd >= 0).  *)

Static == <<Adapter, "static">>

Reassembler == <<Adapter, "reassemble">>

Cookies(q, reasons) == {<<q, r>> : r \in reasons}

\* Mutant: a callback that leaves closes the filter under the others.
MutDelTs(e, cookies) ==
    [e EXCEPT !.callback = @ \ cookies, !.open = @ /\ cookies = {}]

(* dvr_del_pcb of TS callbacks, one after the other: the last one closes   *)
(* the filter.                                                             *)
DelTs(e, cookies) ==
    [e EXCEPT !.callback = @ \ cookies,
              !.open = @ /\ (cookies = {} \/ e.callback \ cookies # {})]

(* dvr_add_pcb of a TS callback: the first one opens the filter unless     *)
(* that fails, or the whole transponder is received.                       *)
AddTs(e, cookie, ok) ==
    [e EXCEPT !.callback = @ \cup {cookie},
              !.open = @ \/ (e.callback = {} /\ ~budget /\ ok)]

\* Mutant: the reassembler stays when the last section user leaves.
MutDelSection(e, q) ==
    [e EXCEPT !.secuser = @ - 1, !.sectioncallback = @ \ {q}]

(* dvr_del_pcb of a section callback, the last with the reassembler. *)
DelSection(e, q) ==
    LET left == IF e.secuser = 1 THEN DelTs(e, {Reassembler}) ELSE e
    IN  [left EXCEPT !.secuser = @ - 1, !.sectioncallback = @ \ {q}]

(* dvr_add_pcb of a section callback, the first with a reassembler. *)
AddSection(e, q, ok) ==
    LET fed == IF e.secuser = 0 THEN AddTs(e, Reassembler, ok) ELSE e
    IN  [fed EXCEPT !.secuser = @ + 1, !.sectioncallback = @ \cup {q}]

(* A packet of PID p gets to dvr_input_ts. *)
Received(p) == budget \/ dvr[p].open

-----------------------------------------------------------------------------
(* The PAT.                                                                *)

(* psi_update_table: only another version replaces a stored section. *)
Updates(stored, s) == stored # None => stored.version # s.version

(* pat_parse of a table that has section 0: section 0 says how many        *)
(* sections count, the missing ones are skipped.                           *)
PatParse(psi) ==
    [q \in Program |->
        IF SecOf[q] <= psi[0].last /\ psi[SecOf[q]] # None
        THEN psi[SecOf[q]].pid[q]
        ELSE Absent]

\* Mutant: the second loop of pat_update is missing.
MutPidFromPatGone(last, cur, q) ==
    /\ cur[q] \notin {Absent, 0}
    /\ last # None => last[q] # Absent /\ last[q] # cur[q]

(* pat_update calls pmt_pidfrompat for program q. *)
PidFromPat(last, cur, q) ==
    \/ /\ cur[q] \notin {Absent, 0}
       /\ last # None => last[q] # Absent /\ last[q] # cur[q]
    \/ /\ last # None
       /\ last[q] # Absent
       /\ cur[q] = Absent

(* The PMT PID pat_update passes for program q: 0 if it is gone. *)
NewPmtPid(q) == IF pat[q] = Absent THEN 0 ELSE pat[q]

\* Mutant: pmt_pidfrompat does not leave the old PMT PID.
MutMoved(q) ==
    [p \in Pid |->
        IF p # 0 /\ p = NewPmtPid(q) THEN pidtable[q][p] \cup {"pmt"}
        ELSE pidtable[q][p]]

(* The program's PID table after pmt_pidfrompat: everything on the old PID *)
(* is left, the new one is joined whether the program gets it or not.      *)
Moved(q) ==
    [p \in Pid |->
        IF p = 0 THEN pidtable[q][p]
        ELSE IF p = pmtpid[q] THEN {}
        ELSE IF p = NewPmtPid(q) THEN pidtable[q][p] \cup {"pmt"}
        ELSE pidtable[q][p]]

\* Mutant: pmt_pidfrompat forgets dvr_del_pcb of the section callback.
MutLeavePmt(e, q, reasons) == DelTs(e, Cookies(q, reasons))

(* The entry of the old PMT PID: first the section callback goes, then all *)
(* that the program has there (pmt_prog_leave_pid).                        *)
LeavePmt(e, q, reasons) == DelTs(DelSection(e, q), Cookies(q, reasons))

(* ... and that of the new one. *)
JoinPmt(e, q, ok) == AddTs(AddSection(e, q, ok), <<q, "pmt">>, ok)

(* pat_update calls pmt_pidfrompat for program q: those that have moved    *)
(* first, those that are gone after them.                                  *)
Turn(q) ==
    /\ ~crashed
    /\ q \in todo
    /\ pat[q] = Absent => \A r \in todo : pat[r] = Absent

PmtPidFromPat(q) ==
    /\ Turn(q)
    /\ NewPmtPid(q) # PidMax
    /\ todo' = todo \ {q}
    /\ IF NewPmtPid(q) = pmtpid[q] THEN UNCHANGED <<pmtpid, pidtable, dvr>>
       ELSE /\ pmtpid' = [pmtpid EXCEPT ![q] = NewPmtPid(q)]
            /\ pidtable' = [pidtable EXCEPT ![q] = Moved(q)]
            /\ \E ok \in BOOLEAN :
                 /\ ok \/ limited
                 /\ dvr' = [p \in Pid |->
                      IF p = 0 THEN dvr[p]
                      ELSE IF p = pmtpid[q] THEN LeavePmt(dvr[p], q, pidtable[q][p])
                      ELSE IF p = NewPmtPid(q) THEN JoinPmt(dvr[p], q, ok)
                      ELSE dvr[p]]
    /\ UNCHANGED <<patPsi, pat, pmtPsi, pmt, budget, limited, crashed>>

(* A PMT PID of PID_MAX is joined, and the list of its callbacks stored    *)
(* behind the program's PID table, over prog->psi.                         *)
PmtPidOverrun(q) ==
    /\ Turn(q)
    /\ NewPmtPid(q) = PidMax
    /\ crashed' = TRUE
    /\ UNCHANGED <<patPsi, pat, todo, pmtpid, pmtPsi, pmt, pidtable, dvr,
                   budget, limited>>

(* pat_section_cb goes on after its early returns.  (A section of another  *)
(* table is dropped like one that is not current.)                         *)
PatAccepts(s) ==
    /\ ~crashed
    /\ todo = {}
    /\ Received(0)
    /\ s.current
    /\ Updates(patPsi[s.num], s)

(* A new PAT section while section 0 is known. *)
PatSectionCb(s) ==
    LET psi == [patPsi EXCEPT ![s.num] = s]
    IN  /\ PatAccepts(s)
        /\ psi[0] # None
        /\ patPsi' = psi
        /\ pat' = PatParse(psi)
        /\ todo' = {q \in Program : PidFromPat(pat, PatParse(psi), q)}
        /\ UNCHANGED <<pmtpid, pmtPsi, pmt, pidtable, dvr, budget, limited,
                       crashed>>

(* A new PAT section before section 0: pat_parse returns NULL, pat_update  *)
(* reads current->program.                                                 *)
PatSectionCrash(s) ==
    LET psi == [patPsi EXCEPT ![s.num] = s]
    IN  /\ PatAccepts(s)
        /\ psi[0] = None
        /\ patPsi' = psi
        /\ pat' = None
        /\ crashed' = TRUE
        /\ UNCHANGED <<todo, pmtpid, pmtPsi, pmt, pidtable, dvr, budget,
                       limited>>

-----------------------------------------------------------------------------
(* The PMT.                                                                *)

\* Mutant: the PCR PID is taken over unchecked.
MutPmtParsePcr(s) ==
    [pcrpid |-> s.pcr, es |-> IF s.es # {} THEN s.es ELSE {s.crcpid}]

(* pmt_parse: no PCR PID leaves the 0 of calloc, and the loop over the     *)
(* elementary streams reads a first entry even if there is none.           *)
PmtParse(s) ==
    [pcrpid |-> IF s.pcr # PidMax THEN s.pcr ELSE 0,
     es     |-> IF s.es # {} THEN s.es ELSE {s.crcpid}]

(* pmt_prog_gets_pid.  Behind the table, at PID_MAX, stands prog->psi: what *)
(* is read there is the pointer to the section just stored.                *)
GetsPid(q, p) == IF p = PidMax THEN TRUE ELSE pidtable[q][p] # {}

\* Mutant: an ES of a changed PMT is never joined.
MutJoinEsLast(q, cur) ==
    {p \in cur.es : pmt[q] = None /\ ~GetsPid(q, p)}

(* The elementary streams pmt_update joins. *)
JoinEs(q, cur) ==
    {p \in cur.es : /\ pmt[q] # None => p \notin pmt[q].es
                    /\ ~GetsPid(q, p)}

\* Mutant: the PCR PID is joined even if the program gets it already.
MutJoinPcrAlways(q, cur) ==
    {p \in {cur.pcrpid} : p # PidMax /\ "pcr" \notin pidtable[q][p]}

(* ... and the PCR PID, unless one of them carries it. *)
JoinPcr(q, cur) ==
    {p \in {cur.pcrpid} :
        p # PidMax /\ ~GetsPid(q, p) /\ p \notin JoinEs(q, cur)}

\* Mutant: the check for the PMT PID is missing.
MutLeavesPmtPid(q, cur) ==
    {p \in Pid : GetsPid(q, p) /\ p \notin {cur.pcrpid} \cup cur.es}

(* The PIDs pmt_update leaves: all that are not active any more. *)
Leaves(q, cur) ==
    {p \in Pid : GetsPid(q, p) /\ p \notin {cur.pcrpid, pmtpid[q]} \cup cur.es}

(* A PID is only joined, for one reason, or only left. *)
PmtUpdate(q, cur) ==
    LET why(p) == (IF p \in JoinEs(q, cur) THEN {"es"} ELSE {})
                  \cup (IF p \in JoinPcr(q, cur) THEN {"pcr"} ELSE {})
    IN  /\ pidtable' = [pidtable EXCEPT ![q] = [p \in Pid |->
              (IF p \in Leaves(q, cur) THEN {} ELSE pidtable[q][p]) \cup why(p)]]
        /\ \E failed \in SUBSET (JoinEs(q, cur) \cup JoinPcr(q, cur)) :
             /\ failed = {} \/ limited
             /\ dvr' = [p \in Pid |->
                  IF p \in Leaves(q, cur)
                  THEN DelTs(dvr[p], Cookies(q, pidtable[q][p]))
                  ELSE IF p \in JoinEs(q, cur)
                  THEN AddTs(dvr[p], <<q, "es">>, p \notin failed)
                  ELSE IF p \in JoinPcr(q, cur)
                  THEN AddTs(dvr[p], <<q, "pcr">>, p \notin failed)
                  ELSE dvr[p]]
        /\ crashed' = (PidMax \in JoinEs(q, cur) \cup JoinPcr(q, cur))

(* pmt_dvr_pmt_cb: a PMT section of program q arrives on the PID where q   *)
(* has a section callback.  Sections that are not current, of another      *)
(* table or another program, or of the stored version change nothing.      *)
PmtSectionCb(p, s) ==
    LET q == s.prog
    IN  /\ ~crashed
        /\ todo = {}
        /\ Received(p)
        /\ q \in dvr[p].sectioncallback
        /\ s.current
        /\ Updates(pmtPsi[q], s)
        /\ pmtPsi' = [pmtPsi EXCEPT ![q] = s]
        /\ pmt' = [pmt EXCEPT ![q] = PmtParse(s)]
        /\ PmtUpdate(q, PmtParse(s))
        /\ UNCHANGED <<patPsi, pat, todo, pmtpid, budget, limited>>

-----------------------------------------------------------------------------
(* The table after stream_init and sdt_init: static PIDs have a TS         *)
(* callback, those of the adapter's tables a section callback; the filters *)
(* of some may have failed.                                                *)
Started(failed) ==
    [p \in Pid |->
        LET first == (IF p \in StaticPid THEN {Static} ELSE {})
                     \cup (IF p \in TablePid THEN {Reassembler} ELSE {})
        IN  [callback |-> first,
             secuser |-> IF p \in TablePid THEN 1 ELSE 0,
             sectioncallback |-> IF p \in TablePid THEN {Adapter} ELSE {},
             open |-> ~budget /\ first # {} /\ p \notin failed]]

(* dvr_init and stream_init: the 0x2000 filter or none, the inputs, the    *)
(* callbacks of the tables.                                                *)
Init ==
    /\ patPsi = [n \in SecNum |-> None]
    /\ pat = None
    /\ todo = {}
    /\ pmtpid = [q \in Program |-> 0]
    /\ pmtPsi = [q \in Program |-> None]
    /\ pmt = [q \in Program |-> None]
    /\ pidtable = [q \in Program |-> [p \in Pid |-> {}]]
    /\ budget \in BOOLEAN
    /\ limited \in BOOLEAN
    /\ \E failed \in SUBSET (StaticPid \cup TablePid) :
         /\ failed = {} \/ limited
         /\ dvr = Started(failed)
    /\ crashed = FALSE

Next ==
    \/ \E s \in PatSection : PatSectionCb(s) \/ PatSectionCrash(s)
    \/ \E q \in Program : PmtPidFromPat(q) \/ PmtPidOverrun(q)
    \/ \E p \in Pid, s \in PmtSection : PmtSectionCb(p, s)

Spec == Init /\ [][Next]_vars

-----------------------------------------------------------------------------
(* Properties.                                                             *)

Reason == {"es", "pcr", "pmt"}

PatTable == [Program -> PmtPid \cup {0, Absent}]

PmtTable == [pcrpid : Pid, es : SUBSET (0 .. PidMax)]

Cookie == {Static, Reassembler} \cup (Program \X Reason)

Entry == [callback : SUBSET Cookie, secuser : Nat,
          sectioncallback : SUBSET (Program \cup {Adapter}), open : BOOLEAN]

(* Types.  A parsed PCR PID is below PID_MAX, an ES PID of PID_MAX is in   *)
(* no PID table, and the count of section users never falls below 0.  A    *)
(* PMT never writes behind a program's PID table: only a PAT that came     *)
(* without its section 0, or with a PMT PID of PID_MAX, ends the process.  *)
TypeOK ==
    /\ patPsi \in [SecNum -> PatSection \cup {None}]
    /\ pat \in PatTable \cup {None}
    /\ todo \in SUBSET Program
    /\ todo # {} => pat # None
    /\ pmtpid \in [Program -> (PmtPid \ {PidMax}) \cup {0}]
    /\ pmtPsi \in [Program -> PmtSection \cup {None}]
    /\ pmt \in [Program -> PmtTable \cup {None}]
    /\ pidtable \in [Program -> [Pid -> SUBSET Reason]]
    /\ dvr \in [Pid -> Entry]
    /\ budget \in BOOLEAN
    /\ limited \in BOOLEAN
    /\ crashed \in BOOLEAN
    /\ crashed => pat = None \/ \E q \in todo : pat[q] = PidMax

(* The PMT PID a program has is the one whose sections and packets it      *)
(* gets: pmt_pidfrompat moves section callback, TS callbacks and the PMT   *)
(* PID that stream_send_pat announces (pmt_get_pmtpid) together, and       *)
(* nothing else takes the PMT away from the program.                       *)
PmtPidReceived ==
    \A q \in Program, p \in Pid :
        /\ q \in dvr[p].sectioncallback <=> p # 0 /\ pmtpid[q] = p
        /\ "pmt" \in pidtable[q][p] <=> p # 0 /\ pmtpid[q] = p

(* pat_update keeps the PMT PIDs in step with the PAT: once it has had its *)
(* turn, a program has the PMT PID the current PAT gives it or none, and   *)
(* none if it is not listed.                                               *)
PmtPidFollowsPat ==
    \A q \in Program \ todo :
        IF pat = None THEN crashed \/ pmtpid[q] = 0
        ELSE /\ pat[q] = Absent => pmtpid[q] = 0
             /\ pat[q] \in PmtPid => pmtpid[q] \in {pat[q], 0}

(* After every PMT change the program has left what the new PMT does not   *)
(* use: a PID it still gets is an ES or the PCR PID of the current PMT or  *)
(* its PMT PID (the loop at the end of pmt_update).                        *)
OnlyActivePids ==
    \A q \in Program, p \in Pid :
        GetsPid(q, p) =>
            \/ p # 0 /\ p = pmtpid[q]
            \/ pmt[q] # None /\ p \in pmt[q].es \cup {pmt[q].pcrpid}

(* Nothing is missing from a program whose PMT is known: pmt_update skips  *)
(* an ES the last PMT had, or a PID the program gets, and still every ES   *)
(* and the PCR PID are joined.  (An ES PID of PID_MAX never is, and PIDs   *)
(* that a PAT may make a PMT PID are taken away when the PMT moves.)       *)
CurrentPmtReceived ==
    \A q \in Program :
        pmt[q] # None =>
            \A p \in ((pmt[q].es \cup {pmt[q].pcrpid}) \cap Pid) \ PmtPid :
                GetsPid(q, p)

(* Every output of a program gets a packet once: PCR and ES on one PID are *)
(* joined once, and joining again never adds a second callback.  (Again    *)
(* except on PIDs a PAT may name: pmt_pidfrompat joins unconditionally.)   *)
NoDoubleDelivery ==
    \A q \in Program, p \in Pid \ PmtPid :
        \A r1, r2 \in pidtable[q][p] : r1 = r2

(* The table of the demux is in step with what the programs remember of    *)
(* it.  The TS callbacks of a PID are those of the static inputs and of    *)
(* the joins the programs can still undo, and one reassembler as long as   *)
(* the PID has section users, who are counted right.  So no callback is    *)
(* left behind that nobody can remove, and none is missing.  The filter is *)
(* open only while there is a callback, and then it is open unless it      *)
(* failed: none leaks, and none is closed under a PID in use.  With the    *)
(* whole transponder there are no filters.                                 *)
FiltersMatchCallbacks ==
    \A p \in Pid :
        LET e == dvr[p]
        IN  /\ e.callback =
                 {c \in Program \X Reason : c[2] \in pidtable[c[1]][p]}
                 \cup (IF p \in StaticPid THEN {Static} ELSE {})
                 \cup (IF e.sectioncallback # {} THEN {Reassembler} ELSE {})
            /\ e.secuser = Cardinality(e.sectioncallback)
            /\ e.open => ~budget /\ e.callback # {}
            /\ ~budget /\ ~limited /\ e.callback # {} => e.open

(* Programs and static inputs share filters: when one program or its PMT   *)
(* leaves a PID, one that keeps it never sees the filter closed.           *)
SharedFilterKept ==
    \A p \in Pid :
        /\ dvr[p].open
        /\ \/ p \in StaticPid
           \/ \E q \in Program : pidtable[q][p] \cap pidtable'[q][p] # {}
        => dvr'[p].open

SharedFilterStays == [][SharedFilterKept]_vars

(* dvr_input_ts and dvr_section_reassemble read the next element of the    *)
(* list they walk after the callback returned, so a callback must not      *)
(* remove an element of the lists of the PID it is called for: a PAT       *)
(* section (PID 0), down to the last program it moves, and a PMT section   *)
(* (any PID p) only take callbacks off other PIDs.                         *)
OnlyGrows(p) ==
    /\ dvr[p].callback \subseteq dvr'[p].callback
    /\ dvr[p].sectioncallback \subseteq dvr'[p].sectioncallback

WalkedListKept ==
    /\ patPsi' # patPsi \/ todo # {} => OnlyGrows(0)
    /\ \A q \in Program, p \in Pid :
         pmtPsi'[q] # pmtPsi[q] /\ q \in dvr[p].sectioncallback => OnlyGrows(p)

WalkedListOnlyGrows == [][WalkedListKept]_vars
-----------------------------------------------------------------------------
(* What comments and documents say and the code does not do.               *)

(* pat.c says that pat_update services the PMT callback of every program   *)
(* that was added: a program the current PAT lists has its PMT PID.  The   *)
(* code skips a program the last PAT did not list.                         *)
ListedProgramJoined ==
    \A q \in Program :
        pat # None /\ todo = {} /\ pat[q] \in PmtPid => pmtpid[q] = pat[q]

(* pmt_update is to leave every joined PID that is not active: a program   *)
(* gets its PMT PID, the PIDs pmt_parse took for its streams and the PCR   *)
(* PID the PMT announces, if any.  Without one the code joins PID 0.       *)
OnlyAnnouncedPcr ==
    \A q \in Program, p \in Pid :
        GetsPid(q, p) =>
            \/ p = pmtpid[q]
            \/ pmt[q] # None /\ p \in pmt[q].es \cup {pmtPsi[q].pcr}

(* getstream is designed to run for months without interruption: no        *)
(* sequence of valid PAT sections stops the process.                       *)
NeverCrashes == ~crashed
=============================================================================
