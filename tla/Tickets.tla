------------------------------- MODULE Tickets -------------------------------
(***************************************************************************)
(* What register_server promises, without threads, calls or watches: an    *)
(* election by numbered tickets.  A server draws the next number; tickets  *)
(* are given up at any time; and whoever holds the lowest number that is   *)
(* out may be elected.  The numbers are never used twice, so that the      *)
(* winner keeps its place for as long as its ticket is out.                *)
(***************************************************************************)
EXTENDS Integers

CONSTANT Server

VARIABLES
    tickets,       \* the tickets that are out: a number and the server that drew it
    next,          \* the next number
    elected        \* the number that made a server master, 0: it is not

Init == tickets = {} /\ next = 1 /\ elected = [s \in Server |-> 0]

\* A server is no longer master: on its own account, or as it draws or leaves.
SomeLose == \A s \in Server : elected'[s] \in {elected[s], 0}

Draw(s) ==
    /\ tickets' = tickets \cup {[seq |-> next, uuid |-> s]}
    /\ next' = next + 1
    /\ SomeLose

GiveUp == tickets' \subseteq tickets /\ next' = next /\ SomeLose

\* Looking for the lowest number, finding oneself in it and being elected is one step.
Elect(s) ==
    /\ \E t \in tickets :
          /\ t.uuid = s /\ \A u \in tickets : t.seq <= u.seq
          /\ elected' = [elected EXCEPT ![s] = t.seq]
    /\ UNCHANGED <<tickets, next>>

Next == GiveUp \/ \E s \in Server : Draw(s) \/ Elect(s)

Spec == Init /\ [][Next]_<<tickets, next, elected>>
=============================================================================
