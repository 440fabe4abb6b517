------------------------------ MODULE Delivery ------------------------------
(***************************************************************************)
(* What the users of a PID's sections rely on (the section callbacks that  *)
(* dvr_section_reassemble calls): sections reach them in the order they    *)
(* were sent, each at most once, some not at all.  Only when a packet is   *)
(* received again they may get its sections again.                         *)
(***************************************************************************)
EXTENDS Naturals

VARIABLES
    sent,    \* the number of sections of which something was sent
    last,    \* the section after which the next one comes
    calls,   \* changes with every delivery
    repeats  \* the number of packets that were received again

Init == sent = 0 /\ last = 0 /\ calls = FALSE /\ repeats = 0

(* The next section is any later one: those between are lost. *)
Send(n) == n > sent /\ sent' = n /\ UNCHANGED <<last, calls, repeats>>

Deliver(n) ==
    /\ n > last /\ n <= sent
    /\ last' = n /\ calls' = ~calls
    /\ UNCHANGED <<sent, repeats>>

Again(n) ==
    /\ n <= last
    /\ last' = n /\ repeats' = repeats + 1
    /\ UNCHANGED <<sent, calls>>

Next == Send(sent') \/ Deliver(last') \/ Again(last')

Spec == Init /\ [][Next]_<<sent, last, calls, repeats>>
=============================================================================
