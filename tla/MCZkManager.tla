----------------------------- MODULE MCZkManager -----------------------------
(* Instances of ZkManager for TLC.                                          *)
EXTENDS ZkManager
CONSTANTS a1, a2, a3

\* Who replicates from whom, at the start.
NoEdges   == {}
SlaveOfA1 == {<<a1, a2>>}
Chain     == {<<a1, a2>>, <<a2, a3>>}

\* What /replication holds at the start.
A1Is(m) == [s \in Server |-> IF s = a1 THEN m ELSE "sync"]
AllSync == {A1Is("sync")}
A1New   == {A1Is("none")}
AllNew  == {[s \in Server |-> "none"]}
A1Async == {A1Is("async")}
A1Either == AllSync \cup A1Async

\* Who asks for a delayed registration.
NoDelay  == [s \in Server |-> {FALSE}]
A2Tries  == [s \in Server |-> IF s = a2 THEN BOOLEAN ELSE {FALSE}]

-----------------------------------------------------------------------------
(* A cluster that has settled: a1, then a2, then a3 called register_server,  *)
(* each when the one before was done.  a1 is the master.  It spares the runs *)
(* of three servers the interleavings of their registrations.                *)

Rank(s) == CASE s = a1 -> 1 [] s = a2 -> 2 [] s = a3 -> 3
Settled == {[seq |-> Rank(s), uuid |-> s, sid |-> Rank(s)] : s \in Server}

SettledInit ==
    /\ master = Settled
    /\ nextSeq = Cardinality(Server) + 1 /\ nextSid = Cardinality(Server) + 1
    /\ sessions = {Rank(s) : s \in Server}
    /\ edges = InitEdges /\ mode \in InitModes
    /\ masterWatch = Server /\ replWatch = Server /\ queue = [s \in Server |-> <<>>]
    /\ handler = [s \in Server |-> Rank(s)]
    /\ i_am_master = [s \in Server |-> s = a1]
    /\ compeleted_register = [s \in Server |-> TRUE]
    /\ my_master_znode_id = [s \in Server |-> Rank(s)]
    /\ nodes = [s \in Server |-> {NodeOf(z) : z \in Settled}]
    /\ active_slaves = [s \in Server |-> {t \in Server : <<s, t>> \in InitEdges}]
    /\ lock = [s \in Server |-> "free"]
    /\ app = [s \in Server |-> AppIdle]
    /\ wat = [s \in Server |-> WatIdle]
    /\ role = [s \in Server |-> IF s = a1 THEN "master" ELSE "standby"]
    /\ slaveTold = [s \in Server |-> IF active_slaves[s] # {} THEN "alive" ELSE "none"]
    /\ elected = [s \in Server |-> IF s = a1 THEN 1 ELSE 0] /\ withdrew = {}
    /\ errs = 0 /\ crashes = 0 /\ expiries = 0 /\ admin = 0

SettledSpec == SettledInit /\ [][Next]_vars
SettledFairSpec == SettledSpec /\ Fairness
=============================================================================
