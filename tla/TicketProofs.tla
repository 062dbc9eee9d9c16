----------------------------- MODULE TicketProofs -----------------------------
(***************************************************************************)
(* register_server implements the election by tickets: for every set of    *)
(* servers and every value of the bounds, each step of the cluster is a    *)
(* step of Tickets or leaves the children of /master and the elected as    *)
(* they are.  The tickets are the children, without their sessions.        *)
(***************************************************************************)
EXTENDS ElectionProofs

\* The children of /master, as Tickets sees them.
Out == {NodeOf(z) : z \in master}

\* The first state is one of Tickets.
LEMMA InitMapsToTickets == Init => TicketElection!Init
BY DEF Init, TicketElection!Init

\* A new child is a ticket drawn by the server whose uuid it holds,
LEMMA GrowsDraws ==
    ASSUME TypeOK, Grows, NoneElected
    PROVE  TicketElection!Next
<1>1. PICK t \in Server, k \in Nat :
        /\ master' = master \cup {[seq |-> nextSeq, uuid |-> t, sid |-> k]}
        /\ nextSeq' = nextSeq + 1
  BY DEF Grows
<1>2. Out' = Out \cup {[seq |-> nextSeq, uuid |-> t]}
  <2> DEFINE new == [seq |-> nextSeq, uuid |-> t, sid |-> k]
  <2>1. master' = master \cup {new}  BY <1>1
  <2>2. NodeOf(new) = [seq |-> nextSeq, uuid |-> t]  BY DEF NodeOf
  <2> HIDE DEF new
  <2>3. Out' = {NodeOf(z) : z \in master \cup {new}}  BY <2>1 DEF Out, NodeOf
  <2>4. {NodeOf(z) : z \in master \cup {new}} = Out \cup {NodeOf(new)}  BY DEF Out
  <2>5. QED  BY <2>2, <2>3, <2>4
<1>3. TicketElection!Draw(t)
  BY <1>1, <1>2 DEF Out, NoneElected, TicketElection!Draw, TicketElection!SomeLose
<1>4. QED  BY <1>3 DEF TicketElection!Next

\* a child that goes is a ticket given up,
LEMMA ShrinksGivesUp ==
    ASSUME Shrinks, NoneElected
    PROVE  TicketElection!Next
<1>1. Out' \subseteq Out  BY DEF Shrinks, Out
<1>2. TicketElection!GiveUp
  BY <1>1 DEF Out, Shrinks, NoneElected, TicketElection!GiveUp, TicketElection!SomeLose
<1>3. QED  BY <1>2 DEF TicketElection!Next

\* and a server that reads its own uuid in the child it had found to be the first
\* holds the lowest ticket at that moment, although it listed /master earlier.
LEMMA ElectsLowest ==
    ASSUME ElectionInv, NEW s \in Server, ElectsNow(s)
    PROVE  TicketElection!Next
<1>1. PICK z \in master : z.seq = app[s].first /\ z.uuid = s  BY DEF ElectsNow
<1>2. \A y \in master : z.seq <= y.seq
  BY <1>1 DEF ElectsNow, ElectionInv, FirstStays, Lowest
<1>3. NodeOf(z) \in Out /\ NodeOf(z).uuid = s /\ NodeOf(z).seq = app[s].first
  BY <1>1 DEF Out, NodeOf
<1>4. \A u \in Out : NodeOf(z).seq <= u.seq  BY <1>2 DEF Out, NodeOf
<1>5. Out' = Out /\ nextSeq' = nextSeq  BY DEF ElectsNow, zkVars, Out
<1>6. TicketElection!Elect(s)
  BY <1>3, <1>4, <1>5 DEF ElectsNow, Out, TicketElection!Elect
<1>7. QED  BY <1>6 DEF TicketElection!Next

\* So every step of the cluster maps to a step of Tickets, or to none.
LEMMA NextMapsToTickets ==
    ElectionInv /\ [Next]_vars => [TicketElection!Next]_<<Out, nextSeq, elected>>
<1> SUFFICES ASSUME ElectionInv, [Next]_vars
             PROVE  TicketElection!Next \/ UNCHANGED <<Out, nextSeq, elected>>
  OBVIOUS
<1>1. CASE UNCHANGED vars  BY <1>1 DEF vars, zkVars, history, Out
<1>2. CASE Next
  <2>1. Grows \/ Shrinks  BY <1>2, MasterMoves DEF ElectionInv
  <2>2. NoneElected \/ \E s \in Server : ElectsNow(s)  BY <1>2, ElectMoves DEF ElectionInv
  <2>3. QED  BY <2>1, <2>2, GrowsDraws, ShrinksGivesUp, ElectsLowest DEF ElectionInv
<1>3. QED  BY <1>1, <1>2

\* register_server, interrupted anywhere, with servers that crash, lose their session
\* or its replies, register late or twice, elects as if drawing a number, and later
\* looking for the lowest and finding oneself in it, were one step each.
THEOREM RegisterImplementsTickets == Spec => ElectsByTicket
<1>1. ElectionInv /\ [Next]_vars => ElectionInv'
  BY NextKeepsElection, StutterKeepsElection
<1>2. ElectionInv /\ [Next]_vars
      => [TicketElection!Next]_<<{NodeOf(z) : z \in master}, nextSeq, elected>>
  BY NextMapsToTickets DEF Out
<1>3. QED
  BY InitElection, InitMapsToTickets, <1>1, <1>2, PTL DEF Spec, ElectsByTicket, TicketElection!Spec
=============================================================================
