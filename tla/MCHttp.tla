------------------------------- MODULE MCHttp -------------------------------
(***************************************************************************)
(* TLC instances of Http: two connections.                                 *)
(***************************************************************************)
EXTENDS Http

CONSTANTS o1, c1

(* Requests of the stream, for which the version of HTTP changes nothing. *)
Stream ==
    {l \in Line : l.kind = "empty" \/ (l.kind = "command" /\ l.url = o1 /\ l.http11)}

(* The client of c1 also sends attributes and asks for an unknown URL, by  *)
(* HTTP/1.0 and 1.1; that of c2 is a viewer.                               *)
MCSent ==
    [c \in Conn |->
        Stream \cup {l \in Line : c = c1 /\ (l.kind = "command" => l.url = Other)}]

(* The first client does not wait for its answers: it sends each of its    *)
(* lines at any time.                                                      *)
MCAhead ==
    [c \in Conn |-> {l \in MCSent[c] : c = c1}]

(* Clients that wait for their answers, and viewers that do not. *)
MCSentAll == [c \in Conn |-> MCSent[c1]]

MCAheadNone == [c \in Conn |-> {}]

MCSentStream == [c \in Conn |-> Stream]
=============================================================================
