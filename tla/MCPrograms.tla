----------------------------- MODULE MCPrograms -----------------------------
(***************************************************************************)
(* TLC instances of Programs: two programs, and three that are listed by   *)
(* two PAT sections; PIDs 1 and 2 may carry PMTs, 3 and 4 only streams,    *)
(* and 5 is PID_MAX; version numbers 0 and 1 (the code only compares       *)
(* them), so that a changed section of an unchanged version occurs too.    *)
(***************************************************************************)
EXTENDS Programs

CONSTANTS q1, q2, q3

MCProgram == {q1, q2}

MCPmtPid == {1, 2, 5}

(* One PAT section. *)
MCSecOf1 == [q \in MCProgram |-> 0]

MCPatSection1 ==
    [num : {0}, last : {0}, version : {0, 1}, current : {TRUE},
     pid : [MCProgram -> {1, 2, Absent}]]
    \cup
    [num : {0}, last : {0}, version : {1}, current : {TRUE, FALSE},
     pid : {[q \in MCProgram |-> IF q = q1 THEN 0 ELSE 2]}]

(* Two PAT sections: q1 and q2 in section 0, where one update can swap     *)
(* their PMT PIDs, and q3 in section 1.  Section 0 may also name PID 0 or  *)
(* PID_MAX for q1, or not be current.                                      *)
MCProgram2 == {q1, q2, q3}

MCSecOf2 == [q \in MCProgram2 |-> IF q = q3 THEN 1 ELSE 0]

MCPatSection2 ==
    {s \in [num : {0, 1}, last : {0, 1}, version : {0, 1}, current : {TRUE},
            pid : [MCProgram2 -> {1, 2, Absent}]] :
        /\ \A q \in MCProgram2 : s.pid[q] # Absent => MCSecOf2[q] = s.num
        /\ s.pid[q3] # 2
        /\ s.num = 1 => s.last = 1
        /\ s.last = 0 => s.pid[q2] = Absent}
    \cup
    [num : {0}, last : {0}, version : {1}, current : {TRUE, FALSE},
     pid : {[q \in MCProgram2 |-> IF q = q1 THEN p ELSE Absent] : p \in {0, 5}}]

(* Streams: PCR with the video, on a PID of its own, in the PMT PID of a   *)
(* program or absent (PID 5 = PID_MAX); a stream on a PID that also serves *)
(* as a PMT PID, and one on PID_MAX; an empty ES loop, with a CRC that     *)
(* reads as PID 3 or PID_MAX.                                              *)
MCPmtContent(q) ==
    [prog : {q}, pcr : {3}, es : {{3}, {3, 4}, {4}}, crcpid : {0}]
    \cup [prog : {q}, pcr : {5}, es : {{2, 4, 5}}, crcpid : {0}]
    \cup [prog : {q}, pcr : {5}, es : {{}}, crcpid : {3, 5}]

MCPmtSection ==
    {[prog |-> c.prog, version |-> v, current |-> TRUE, pcr |-> c.pcr,
      es |-> c.es, crcpid |-> c.crcpid] :
        v \in {0, 1}, c \in UNION {MCPmtContent(q) : q \in MCProgram}}

(* A choice for the run with two PAT sections: q1 has PMTs of either       *)
(* version and kind, q2 one that shares a stream with q1.                  *)
MCPmtSection2 ==
    {s \in MCPmtSection :
        \/ s.prog = q1 /\ s.version = 0 /\ s.es \in {{3}, {2, 4, 5}}
        \/ s.prog = q1 /\ s.version = 1 /\ s.es \in {{3, 4}, {}}
        \/ s.prog = q2 /\ s.version = 0 /\ s.es = {4}}
=============================================================================
