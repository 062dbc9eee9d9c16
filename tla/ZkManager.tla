------------------------------ MODULE ZkManager ------------------------------
(***************************************************************************)
(* The cluster: every server's application thread and completion thread,   *)
(* and the ZooKeeper service, with crashes, sessions that expire and calls *)
(* that fail.                                                              *)
(***************************************************************************)
EXTENDS Registration, MasterWatch, Replication

\* What a thread does once it has begun: it does not stop half way.
AppThread(s) == RegisterServer_Step(s) \/ GetSyncpoint_Read(s) \/ Disconnect_Done(s)
CompletionThread(s) == SessionExpired(s) \/ MasterWatcher_Step(s) \/ ReplWatcher_Step(s)

\* What mysqld asks of its manager, when it likes.
Application(s) ==
    \/ Connect(s) \/ RegisterServer_Replication(s) \/ Disconnect_Close(s)
    \/ ChangeReplMode(s) \/ GetSyncpoint(s)
    \/ \E m \in Server : StartRepl(s, m) \/ RmRepl(s, m)

Next ==
    \/ \E s \in Server : AppThread(s) \/ CompletionThread(s) \/ Application(s) \/ Crash(s)
    \/ \E k \in sessions : SessionTimeout(k)

Spec == Init /\ [][Next]_vars

\* Both threads of a server are scheduled, and the service ends a session whose
\* server is gone.  Nothing else has to happen.
Orphan(k) == \A s \in Server : handler[s] # k
Fairness ==
    /\ \A s \in Server : WF_vars(AppThread(s)) /\ WF_vars(CompletionThread(s))
    /\ \A k \in 1..MaxSid : WF_vars(Orphan(k) /\ SessionTimeout(k))

FairSpec == Spec /\ Fairness

-----------------------------------------------------------------------------
(* Safety                                                                   *)

\* The server's session lives and owns a znode below /master.
Registered(s) == Alive(s) /\ \E z \in master : z.sid = handler[s]

\* An event the completion thread of s has not taken yet.
Pending(s, event) == event \in {queue[s][i] : i \in DOMAIN queue[s]}

\* Two servers that register_server made master, and whose winning znodes are still
\* there, are one: each read the first child after it had created a znode itself.
ElectedUnique ==
    \A s, t \in Server :
        elected[s] \in Seqs(master) /\ elected[t] \in Seqs(master) => s = t

\* register_server, which lists the children of /master in one call and reads the
\* first in another, implements an election in which that is one step.
TicketElection == INSTANCE Tickets WITH tickets <- {NodeOf(z) : z \in master}, next <- nextSeq
ElectsByTicket == TicketElection!Spec

\* Of a master and its only slave, never are both registered and both master, in any
\* mode, whether a server became it by register_server or by nodes_discrease.  (Of the
\* servers that left /master none is counted until it connects again: it may leave as
\* master, or become it when it is out, and come back as one: see DeregisteredIsNotMaster.)
Masters == {s \in Server : Registered(s) /\ i_am_master[s] /\ s \notin withdrew}
AtMostOneRegisteredMaster == \A s, t \in Masters : s = t

\* The same as an abstract specification: a server becomes master when no registered
\* server is, and none registers as master.
MasterOwnership == INSTANCE Ownership
                   WITH members <- {s \in Server : Registered(s)}, owners <- Masters
OwnsAlone == MasterOwnership!Spec

\* With more servers two may be masters at once: a slave promotes itself when any of its
\* masters leaves, though register_server has elected another.  What holds of any number:
\* a registered master is older below /master than every server t, unless it replicates
\* from a third one.
FollowsOnly(s, t) == \A e \in edges : e[2] = s => e[1] \in {s, t}
MasterCameFirst ==
    \A s \in Masters : \A y, z \in master :
        y.sid = handler[s] /\ z.uuid # s /\ FollowsOnly(s, z.uuid) => y.seq < z.seq

\* A server whose registration has listed /master either has its watch on it or
\* has an event to come: between the event that takes a watch away and the
\* zoo_wget_children that sets it again, no change of /master goes unseen.
WatchNeverLost ==
    \A s \in Server :
        Registered(s) /\ app[s].pc \in {"idle", "points", "fetch", "first", "tell"}
        => s \in masterWatch \/ Pending(s, "master")

\* A thread holds its manager's lock from where it takes it to where its function returns
\* it, and only there: the two threads are never both inside, and no way out of
\* register_server, nodes_increase or nodes_discrease, whatever failed, keeps the lock.
LockHeld ==
    \A s \in Server :
        /\ lock[s] = "app" <=> app[s].pc \in RegisterPc
        /\ lock[s] = "wat" <=> wat[s].pc \in LockedWatPc

\* No session owns two znodes below /master, so that the one whose path the
\* manager keeps is all there is to delete.
OneZnodePerSession ==
    \A y, z \in master : y.sid = z.sid => y = z

\* A server that has noted "delete_by_myself" has no znode below /master.
DeregisteredStaysOut ==
    \A s \in Server :
        Alive(s) /\ my_master_znode_id[s] = DeleteByMyself
        => \A z \in master : z.sid # handler[s]

\* A server that left /master because it "shouldn't be master" is no master.
DeregisteredIsNotMaster ==
    \A s \in Server : Alive(s) /\ my_master_znode_id[s] = DeleteByMyself => ~i_am_master[s]

\* While its slaves neither leave /master nor come back, a master that was told it
\* has a live slave has one in active_slaves: the call that empties the set is the
\* call that reports it.
AliveMeansActive ==
    \A m \in Server : slaveTold[m] = "alive" => active_slaves[m] # {}

-----------------------------------------------------------------------------
(* What a step may never do                                                 *)

\* nodes_discrease makes a server master only when the znode of its master, as
\* its nodes map knew it, is gone from /master.
PromotedAfterLoss ==
    [][\A s \in Server :
          ~i_am_master[s] /\ i_am_master'[s] /\ elected'[s] = 0
          => wat[s].cur \notin Seqs(master)]_vars

-----------------------------------------------------------------------------
(* Liveness, under FairSpec                                                 *)

\* Every critical section ends: no path of register_server, nodes_increase or
\* nodes_discrease keeps the lock, and the two threads never wait for each other.
LockReleased == \A s \in Server : lock[s] # "free" ~> lock[s] = "free"

\* The masters s has lost: their znodes, in its nodes map, are gone.
Lost(s) == {e \in nodes[s] : <<e.uuid, s>> \in edges /\ e.uuid \notin Uuids(master)}

\* Something else has changed below /master that nodes does not show yet.
Differs(s) == nodes[s] \ Lost(s) # {NodeOf(z) : z \in master}

\* s is registered, its register_server has returned, and all it has missed is the loss.
Orphaned(s) == Registered(s) /\ app[s].pc \notin RegisterPc /\ Lost(s) # {} /\ ~Differs(s)

\* A registered standby that is to hear of the loss of its master, and of nothing else,
\* becomes master or leaves /master, unless something else happens below /master first.
\* The exception is the code's: when another server has left too, the iterator that is
\* advanced after the erasure may pass the master by; when one has come, or the master is
\* back, the sizes may be equal.  The master then stays in nodes, and no event follows.
FailoverCompletes ==
    \A s \in Server :
        Orphaned(s) /\ Pending(s, "master") ~> i_am_master[s] \/ ~Registered(s) \/ Differs(s)

\* A master whose session expires after its register_server has returned is told
\* to stand by.
ExpiredStandsBy ==
    \A s \in Server :
        role[s] = "master" /\ app[s].pc = "idle" /\ Pending(s, "expired") ~> role[s] # "master"

\* "server a2 should register again": a slave that left /master is back there once
\* its master is.
RegistersAgain ==
    \A s, m \in Server :
        /\ Alive(s) /\ my_master_znode_id[s] = DeleteByMyself
        /\ <<m, s>> \in edges /\ Registered(m)
        ~> Registered(s) \/ ~Alive(s) \/ ~Registered(m)

\* "don't create znode under /master until other server create znode first": a server
\* whose register_server has returned and found no other registers once another does.
WaitingRegisters ==
    \A s, t \in Server :
        /\ Alive(s) /\ my_master_znode_id[s] = DelayRegister /\ Registered(t)
        /\ app[s].pc = "idle" /\ nodes[s] = {}
        ~> Registered(s) \/ ~Alive(s) \/ ~Registered(t)

\* The completion thread of m has taken every event of its slaves, its watch is set, and
\* get_syncpoint is not under way: nothing is left to change active_slaves.
CaughtUp(m) ==
    /\ m \in replWatch /\ ~Pending(m, "repl") /\ wat[m].pc # "repl"
    /\ app[m].pc # "points"

OnlySlave(m, s) == \A t \in Server \ {s} : <<m, t>> \notin edges /\ t \notin active_slaves[m]

\* What a master's repl_watcher_fn was told of arrives in active_slaves, to stay: when it
\* has caught up, its only slave is there if and only if its znode is.  The exception is
\* a get_syncpoint that listed the slave before it left: it inserts it again, for good.
SlaveFollowed ==
    \A m, s \in Server :
        Registered(m) /\ Pending(m, "repl")
        ~> \/ CaughtUp(m) /\ (s \in active_slaves[m] <=> <<m, s>> \in edges)
           \/ s \in app[m].slaves
           \/ ~Registered(m) \/ ~OnlySlave(m, s)

\* "server a1 should fould have a slave": a master whose register_server has returned is
\* told so when a registered server it knows of replicates from it.
SlaveHeard ==
    \A m, s \in Server :
        /\ Registered(m) /\ i_am_master[m] /\ app[m].pc = "idle"
        /\ s # m /\ Registered(s) /\ s \in Uuids(nodes[m]) /\ <<m, s>> \in edges
        ~> \/ slaveTold[m] = "alive"
           \/ ~Registered(m) \/ ~Registered(s) \/ <<m, s>> \notin edges

=============================================================================
