----------------------------- MODULE MasterWatch -----------------------------
(***************************************************************************)
(* The completion thread of a server's ZooKeeper client: the session       *)
(* watcher fn_watcher_g, and master_watcher_fn with nodes_increase and     *)
(* nodes_discrease, which it calls for every server that appeared in or    *)
(* left /master.  One action per call that reaches ZooKeeper; local work   *)
(* belongs to the call before it.                                          *)
(***************************************************************************)
EXTENDS ZkCluster

\* The completion thread takes the next event of its queue.
Take(s, event) ==
    /\ handler[s] # 0 /\ wat[s].pc = "idle" /\ app[s].pc # "closing"
    /\ queue[s] # <<>> /\ Head(queue[s]) = event
    /\ queue' = [queue EXCEPT ![s] = Tail(@)]

\* mutant: become_standby_cb is not called
SessionExpired_Silent(s) ==
    /\ Take(s, "expired")
    /\ UNCHANGED <<zkVars, treeVars, masterWatch, replWatch, mgrVars, app, wat, toldVars,
                   history, boundVars>>

\* fn_watcher_g on ZOO_EXPIRED_SESSION_STATE: become_standby_cb and nothing else.
SessionExpired(s) ==
    /\ Take(s, "expired")
    /\ role' = [role EXCEPT ![s] = "standby"]
    /\ UNCHANGED <<zkVars, treeVars, masterWatch, replWatch, mgrVars, app, wat, slaveTold,
                   history, boundVars>>

-----------------------------------------------------------------------------
(* master_watcher_fn                                                        *)

\* mutant: one more server is not yet a longer list
Direction_OffByOne(map, known) ==
    IF Cardinality(map) > Cardinality(known) + 1 THEN "inc"
    ELSE IF Cardinality(map) < Cardinality(known) THEN "dec" ELSE "idle"

\* Only the sizes are compared: a longer list has servers to add, a shorter one
\* has servers to remove, and one of the same length is taken for no change.
Direction(map, known) ==
    IF Cardinality(map) > Cardinality(known) THEN "inc"
    ELSE IF Cardinality(map) < Cardinality(known) THEN "dec" ELSE "idle"

\* zoo_wget_children lists /master and sets the watch again.  If it fails the
\* event is dropped, and the watch with it.
MasterWatcher_List(s) ==
    /\ Take(s, "master")
    /\ \/ /\ Ok(s)
          /\ masterWatch' = masterWatch \cup {s}
          /\ wat' = [wat EXCEPT ![s] = [WatIdle EXCEPT !.pc = "fetch",
                                                      !.kids = {NodeOf(z) : z \in master}]]
       \/ Err(s) /\ UNCHANGED <<masterWatch, wat>>
    /\ UNCHANGED <<zkVars, treeVars, replWatch, mgrVars, app, toldVars, history, spared>>

\* The zoo_get of every child, in the order the service lists them, which may be
\* any: those that are still there have been read, unless a call failed, and
\* those that are gone may have been read before they went.
Read(s, kids, map) ==
    LET missed == Seqs(kids \ map) \cap Seqs(master)
    IN  \/ Ok(s) /\ missed = {}
        \/ Drop(s) /\ missed # {}
        \/ ~Alive(s) /\ UNCHANGED errs

\* The children are read into my_map, and my_map is compared with nodes.
MasterWatcher_Fetch(s) ==
    /\ wat[s].pc = "fetch"
    /\ \E map \in SUBSET wat[s].kids :
          /\ Read(s, wat[s].kids, map)
          /\ LET way == Direction(map, nodes[s])
             IN  wat' = [wat EXCEPT ![s] = IF way = "idle" THEN WatIdle
                                           ELSE [WatIdle EXCEPT !.pc = way, !.map = map]]
    /\ UNCHANGED <<zkVars, treeVars, watchVars, mgrVars, app, toldVars, history, spared>>

\* mutant: the entry is not looked up in the other map
Missing_Any(s, from, other) == {e \in from : e.seq > wat[s].cur}

\* The next entry, in the order of the znode names, that is in one map only.
\* cur is where the iterator stands.
Missing(s, from, other) == {e \in from : e.seq > wat[s].cur /\ e.seq \notin Seqs(other)}
NextOf(s, from, other) ==
    LET missing == Missing(s, from, other)
    IN  {e \in missing : \A d \in missing : e.seq <= d.seq}

\* The loop over my_map, or over nodes, ends.
MasterWatcher_End(s) ==
    /\ \/ wat[s].pc = "inc" /\ NextOf(s, wat[s].map, nodes[s]) = {}
       \/ wat[s].pc = "dec" /\ NextOf(s, nodes[s], wat[s].map) = {}
    /\ wat' = [wat EXCEPT ![s] = WatIdle]
    /\ UNCHANGED <<zkVars, treeVars, watchVars, mgrVars, app, toldVars, history, boundVars>>

-----------------------------------------------------------------------------
(* What a nodes_* function does first: it copies two fields of the manager, *)
(* then asks whether the two replication znodes between itself and the      *)
(* other server exist, and then waits for the lock.  Only administrative    *)
(* calls change these znodes; the two questions are one step.               *)

Enter(s, e, pc) ==
    wat' = [wat EXCEPT ![s] =
              [pc |-> pc, kids |-> {}, map |-> wat[s].map, set |-> {},
               cur |-> e.seq, who |-> e.uuid,
               i_am_master |-> i_am_master[s], id |-> my_master_znode_id[s],
               is_my_repl_master |-> FALSE, is_my_repl_slave |-> FALSE, tries |-> 0]]

\* Both are answered; the lock comes next.
Asked(s, pc, slave, masterof) ==
    /\ wat' = [wat EXCEPT ![s] = [wat[s] EXCEPT !.pc = pc, !.is_my_repl_slave = slave,
                                               !.is_my_repl_master = masterof]]
    /\ UNCHANGED nodes

\* nodes_increase returns and master_watcher_fn inserts the entry into nodes.
Inserted(s) ==
    /\ nodes' = [nodes EXCEPT ![s] = @ \cup {e \in wat[s].map : e.seq = wat[s].cur}]
    /\ wat' = [wat EXCEPT ![s].pc = "inc"]

\* nodes_increase of itself does nothing.
NodesIncrease(s) ==
    /\ wat[s].pc = "inc"
    /\ \E e \in NextOf(s, wat[s].map, nodes[s]) :
          \/ /\ e.uuid = s
             /\ nodes' = [nodes EXCEPT ![s] = @ \cup {e}]
             /\ wat' = [wat EXCEPT ![s].cur = e.seq]
          \/ e.uuid # s /\ Enter(s, e, "entered_inc") /\ UNCHANGED nodes
    /\ UNCHANGED <<zkVars, treeVars, watchVars, handler, i_am_master, compeleted_register,
                   my_master_znode_id, active_slaves, lock, app, toldVars, history, boundVars>>

\* Is that server its slave, and is it its master?  A failed call says no.
NodesIncrease_Exists(s) ==
    /\ wat[s].pc = "entered_inc"
    /\ \E slave, masterof \in BOOLEAN :
          /\ \/ /\ Ok(s)
                /\ slave = (<<s, wat[s].who>> \in edges)
                /\ masterof = (<<wat[s].who, s>> \in edges)
             \/ /\ Err(s)
                /\ slave => <<s, wat[s].who>> \in edges
                /\ masterof => <<wat[s].who, s>> \in edges
          /\ Asked(s, "increase", slave, masterof)
    /\ UNCHANGED <<zkVars, treeVars, watchVars, handler, i_am_master, compeleted_register,
                   my_master_znode_id, active_slaves, lock, app, toldVars, history, spared>>

\* A server that waits to register now creates its znode.
RegisterDelayed(s) ==
    \/ /\ wat[s].id = DelayRegister /\ Ok(s)
       /\ CreateMasterZnode(s)
       /\ compeleted_register' = [compeleted_register EXCEPT ![s] = TRUE]
       /\ i_am_master' = [i_am_master EXCEPT ![s] = FALSE]
       /\ elected' = [elected EXCEPT ![s] = 0]
       /\ KeepPath(s)
    \/ /\ \/ wat[s].id # DelayRegister /\ UNCHANGED <<zkVars, watchVars, errs>>
          \/ wat[s].id = DelayRegister /\ Err(s) /\ UNCHANGED <<zkVars, watchVars>>
          \/ wat[s].id = DelayRegister /\ Drop(s) /\ CreateMasterZnode(s)
       /\ UNCHANGED <<compeleted_register, i_am_master, elected, my_master_znode_id>>

\* mutant: the slave comes back although it never left
MayReturn_Always(s) == wat[s].is_my_repl_master

\* A slave that left /master comes back when its master does.
MayReturn(s) == wat[s].is_my_repl_master /\ wat[s].id = DeleteByMyself

\* The rest runs under the lock.  The first live slave, and only the first, enters
\* active_slaves and is reported.
NodesIncrease_Locked(s) ==
    /\ wat[s].pc = "increase" /\ lock[s] = "free"
    /\ RegisterDelayed(s)
    /\ LET first == wat[s].is_my_repl_slave /\ active_slaves[s] = {}
       IN  /\ active_slaves' = [active_slaves EXCEPT ![s] = IF first THEN {wat[s].who} ELSE @]
           /\ slaveTold' = [slaveTold EXCEPT ![s] = IF first THEN "alive" ELSE @]
    /\ \/ /\ MayReturn(s)
          /\ lock' = [lock EXCEPT ![s] = "wat"]
          /\ wat' = [wat EXCEPT ![s].pc = "again"]
          /\ UNCHANGED nodes
       \/ /\ ~MayReturn(s)
          /\ Inserted(s)
          /\ UNCHANGED lock
    /\ UNCHANGED <<treeVars, handler, app, role, withdrew, spared>>

\* mutant: the path is not kept
Again_PathLost(s) == CreateMasterZnode(s) /\ UNCHANGED my_master_znode_id

Again(s) == CreateMasterZnode(s) /\ KeepPath(s)

\* The slave that left creates its znode again.
NodesIncrease_Again(s) ==
    /\ wat[s].pc = "again"
    /\ \/ Ok(s) /\ Again(s)
       \/ /\ \/ Err(s) /\ UNCHANGED <<zkVars, watchVars>>
             \/ Drop(s) /\ CreateMasterZnode(s)
          /\ UNCHANGED my_master_znode_id
    /\ lock' = [lock EXCEPT ![s] = "free"]
    /\ Inserted(s)
    /\ UNCHANGED <<treeVars, handler, i_am_master, compeleted_register, active_slaves, app,
                   toldVars, history, spared>>

-----------------------------------------------------------------------------
(* nodes_discrease                                                          *)

\* nodes_discrease returns and master_watcher_fn erases the entry, then advances
\* the iterator it erased: that reads freed memory, and the loop goes on or ends.
Erased(s, cur) ==
    /\ nodes' = [nodes EXCEPT ![s] = {e \in @ : e.seq # cur}]
    /\ \/ wat' = [wat EXCEPT ![s] = WatIdle]
       \/ wat' = [wat EXCEPT ![s] = [wat[s] EXCEPT !.pc = "dec", !.cur = cur]]

\* nodes_discrease of itself does nothing.
NodesDiscrease(s) ==
    /\ wat[s].pc = "dec"
    /\ \E e \in NextOf(s, nodes[s], wat[s].map) :
          \/ e.uuid = s /\ Erased(s, e.seq)
          \/ e.uuid # s /\ Enter(s, e, "entered_dec") /\ UNCHANGED nodes
    /\ UNCHANGED <<zkVars, treeVars, watchVars, handler, i_am_master, compeleted_register,
                   my_master_znode_id, active_slaves, lock, app, toldVars, history, boundVars>>

\* Is that server its master, where a failed call says no, and is it its slave,
\* where a failed call ends nodes_discrease?
NodesDiscrease_Exists(s) ==
    /\ wat[s].pc = "entered_dec"
    /\ \/ \E masterof \in BOOLEAN :
             /\ \/ Ok(s) /\ masterof = (<<wat[s].who, s>> \in edges)
                \/ Drop(s) /\ ~masterof
             /\ Asked(s, "decrease", <<s, wat[s].who>> \in edges, masterof)
       \/ Err(s) /\ Erased(s, wat[s].cur)
    /\ UNCHANGED <<zkVars, treeVars, watchVars, handler, i_am_master, compeleted_register,
                   my_master_znode_id, active_slaves, lock, app, toldVars, history, spared>>

\* mutant: the negation is dropped
MasterDied_Negated(s) == wat[s].i_am_master /\ wat[s].is_my_repl_master

\* A slave whose master died decides on the copy of i_am_master made before the lock.
MasterDied(s) == ~wat[s].i_am_master /\ wat[s].is_my_repl_master

\* Under the lock: a slave that died leaves active_slaves, and the death of the
\* last is reported.
NodesDiscrease_Locked(s) ==
    /\ wat[s].pc = "decrease" /\ lock[s] = "free"
    /\ LET left == active_slaves[s] \ {wat[s].who}
       IN  IF wat[s].is_my_repl_slave
           THEN /\ active_slaves' = [active_slaves EXCEPT ![s] = left]
                /\ slaveTold' = [slaveTold EXCEPT ![s] = IF left = {} THEN "dead" ELSE @]
           ELSE UNCHANGED <<active_slaves, slaveTold>>
    /\ \/ /\ MasterDied(s)
          /\ lock' = [lock EXCEPT ![s] = "wat"]
          /\ wat' = [wat EXCEPT ![s].pc = "mode"]
          /\ UNCHANGED nodes
       \/ ~MasterDied(s) /\ Erased(s, wat[s].cur) /\ UNCHANGED lock
    /\ UNCHANGED <<zkVars, treeVars, watchVars, handler, i_am_master, compeleted_register,
                   my_master_znode_id, app, role, history, boundVars>>

\* zoo_get(/replication/uuid), which exists since a child of it did: in mode sync
\* become_master_cb is called, and if it succeeds this server is the master; if it
\* fails, or in mode async, the server leaves /master.
NodesDiscrease_Mode(s) ==
    /\ wat[s].pc = "mode"
    /\ \/ /\ Ok(s) /\ mode[wat[s].who] = "sync"             \* become_master_cb succeeds
          /\ i_am_master' = [i_am_master EXCEPT ![s] = TRUE]
          /\ role' = [role EXCEPT ![s] = "master"]
          /\ lock' = [lock EXCEPT ![s] = "free"]
          /\ Erased(s, wat[s].cur)
          /\ elected' = [elected EXCEPT ![s] = 0]
       \/ /\ Ok(s) /\ mode[wat[s].who] = "sync"             \* become_master_cb fails
          /\ i_am_master' = [i_am_master EXCEPT ![s] = FALSE]
          /\ elected' = [elected EXCEPT ![s] = 0]
          /\ wat' = [wat EXCEPT ![s].pc = "delete"]
          /\ UNCHANGED <<role, lock, nodes>>
       \/ /\ Ok(s) /\ mode[wat[s].who] # "sync"
          /\ wat' = [wat EXCEPT ![s].pc = "delete"]
          /\ UNCHANGED <<i_am_master, elected, role, lock, nodes>>
       \/ /\ Err(s)
          /\ lock' = [lock EXCEPT ![s] = "free"]
          /\ Erased(s, wat[s].cur)
          /\ UNCHANGED <<i_am_master, elected, role>>
    /\ UNCHANGED <<zkVars, treeVars, watchVars, handler, compeleted_register, my_master_znode_id,
                   active_slaves, app, slaveTold, withdrew, spared>>

\* zoo_delete of the znode whose path was copied before the lock, tried again on
\* any result but ZOK; a path that was no znode's is refused every time.
NodesDiscrease_Delete(s) ==
    /\ wat[s].pc = "delete"
    /\ \/ /\ Ok(s) /\ wat[s].id \in Seqs(master)
          /\ DeleteMasterZnode(wat[s].id)
          /\ my_master_znode_id' = [my_master_znode_id EXCEPT ![s] = DeleteByMyself]
          /\ lock' = [lock EXCEPT ![s] = "free"]
          /\ Erased(s, wat[s].cur)
       \/ /\ \/ Ok(s) /\ wat[s].id \notin Seqs(master) /\ UNCHANGED <<zkVars, watchVars>>
             \/ Err(s) /\ UNCHANGED <<zkVars, watchVars>>
             \/ Drop(s) /\ wat[s].id \in Seqs(master) /\ DeleteMasterZnode(wat[s].id)
          /\ UNCHANGED my_master_znode_id
          /\ \/ /\ wat[s].tries + 1 < DeleteTries
                /\ wat' = [wat EXCEPT ![s].tries = @ + 1]
                /\ UNCHANGED <<lock, nodes>>
             \/ /\ wat[s].tries + 1 >= DeleteTries
                /\ lock' = [lock EXCEPT ![s] = "free"]
                /\ Erased(s, wat[s].cur)
    /\ withdrew' = withdrew \cup {s}
    /\ UNCHANGED <<treeVars, handler, i_am_master, compeleted_register, active_slaves, app,
                   toldVars, elected, spared>>

MasterWatcher_Step(s) ==
    \/ MasterWatcher_List(s) \/ MasterWatcher_Fetch(s)
    \/ MasterWatcher_End(s)
    \/ NodesIncrease(s) \/ NodesIncrease_Exists(s)
    \/ NodesIncrease_Locked(s) \/ NodesIncrease_Again(s)
    \/ NodesDiscrease(s) \/ NodesDiscrease_Exists(s)
    \/ NodesDiscrease_Locked(s) \/ NodesDiscrease_Mode(s) \/ NodesDiscrease_Delete(s)

=============================================================================
