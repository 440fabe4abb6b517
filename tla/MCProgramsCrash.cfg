SPECIFICATION Spec
CONSTANTS
    q1 = q1
    q2 = q2
    q3 = q3
    Adapter = Adapter
    Absent = Absent
    None = None
    Program <- MCProgram2
    PidMax = 5
    PmtPid <- MCPmtPid
    StaticPid = {4}
    TablePid = {0}
    SecMax = 1
    SecOf <- MCSecOf2
    PatSection <- MCPatSection2
    PmtSection <- MCPmtSection2
\* The process may have crashed, or PID 0 has no filter: no section arrives.
CHECK_DEADLOCK FALSE
INVARIANTS
    NeverCrashes
