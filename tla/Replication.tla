----------------------------- MODULE Replication -----------------------------
(***************************************************************************)
(* The subtree /replication: the application's start_repl, rm_repl,        *)
(* change_repl_mode and get_syncpoint, and repl_watcher_fn, by which the   *)
(* completion thread of a master follows the znodes of its slaves.         *)
(*                                                                         *)
(* The application makes one call at a time.  start_repl, rm_repl and      *)
(* change_repl_mode write one znode that no other server writes, so each   *)
(* is one step; get_syncpoint reads the znodes of others, one by one.      *)
(***************************************************************************)
EXTENDS ZkCluster

\* An administrative call of the application thread.  The paths it uses are built
\* from my_uuid, which register_server sets.
Request(s) ==
    /\ handler[s] # 0 /\ app[s].pc = "idle"
    /\ compeleted_register[s] \/ my_master_znode_id[s] = DelayRegister
    /\ admin < MaxAdmin /\ admin' = admin + 1

pointRest == <<zkVars, handler, i_am_master, compeleted_register, my_master_znode_id,
               nodes, lock, wat, toldVars, history, crashes, expiries>>
adminRest == <<pointRest, app>>

\* find_master_repl_znode: m is looked for, by its endpoint, among the children of
\* /replication.  When it is not found nothing is done.
FindMasterReplZnode(m) == mode[m] # "none"

\* start_repl(endpoint of m): the znode /replication/m/me is created unless it exists.
\* Nothing keeps a server from following itself.
StartRepl(s, m) ==
    /\ Request(s) /\ FindMasterReplZnode(m) /\ <<m, s>> \notin edges
    /\ \/ Ok(s) /\ edges' = edges \cup {<<m, s>>} /\ FireReplWatch(m)
       \/ /\ Drop(s)
          /\ \/ edges' = edges \cup {<<m, s>>} /\ FireReplWatch(m)
             \/ UNCHANGED <<edges, watchVars>>
    /\ UNCHANGED <<adminRest, mode, active_slaves>>

\* rm_repl(endpoint of m): the znode is deleted.
RmRepl(s, m) ==
    /\ Request(s) /\ FindMasterReplZnode(m) /\ <<m, s>> \in edges
    /\ \/ Ok(s) /\ edges' = edges \ {<<m, s>>} /\ FireReplWatch(m)
       \/ /\ Drop(s)
          /\ \/ edges' = edges \ {<<m, s>>} /\ FireReplWatch(m)
             \/ UNCHANGED <<edges, watchVars>>
    /\ UNCHANGED <<adminRest, mode, active_slaves>>

\* change_repl_mode(sync): the server's own znode is written, if there is one.
ChangeReplMode(s) ==
    /\ Request(s) /\ mode[s] # "none"
    /\ \E m \in {"sync", "async"} :
          \/ Ok(s) /\ mode' = [mode EXCEPT ![s] = m]
          \/ Drop(s) /\ mode' \in {mode, [mode EXCEPT ![s] = m]}
    /\ UNCHANGED <<adminRest, edges, watchVars, active_slaves>>

\* get_syncpoint in mode sync: zoo_get_children lists the slaves.  It returns at once in
\* mode async, when there are none, or when the call fails.
GetSyncpoint(s) ==
    /\ Request(s) /\ Ok(s) /\ mode[s] = "sync"
    /\ \E slaves \in {{t \in Server : <<s, t>> \in edges}} \ {{}} :
          app' = [app EXCEPT ![s] = [AppIdle EXCEPT !.pc = "points", !.slaves = slaves]]
    /\ UNCHANGED <<pointRest, treeVars, watchVars, active_slaves>>

\* Each, whatever became of it since, is taken for an active slave, without the lock; then
\* its point is read, if it can be.
GetSyncpoint_Read(s) ==
    /\ app[s].pc = "points"
    /\ \E t \in app[s].slaves :
          /\ active_slaves' = [active_slaves EXCEPT ![s] = @ \cup {t}]
          /\ app' = [app EXCEPT ![s] =
                       IF app[s].slaves = {t} THEN AppIdle
                       ELSE [app[s] EXCEPT !.slaves = app[s].slaves \ {t}]]
    /\ UNCHANGED <<pointRest, treeVars, watchVars, errs, admin>>

-----------------------------------------------------------------------------
(* repl_watcher_fn                                                          *)

\* zoo_wget_children(/replication/me) lists the slaves and sets the watch again.
ReplWatcher_List(s) ==
    /\ handler[s] # 0 /\ wat[s].pc = "idle" /\ app[s].pc # "closing"
    /\ queue[s] # <<>> /\ Head(queue[s]) = "repl"
    /\ queue' = [queue EXCEPT ![s] = Tail(@)]
    /\ \/ /\ Ok(s)
          /\ replWatch' = replWatch \cup {s}
          /\ wat' = [wat EXCEPT ![s] = [WatIdle EXCEPT !.pc = "repl",
                                           !.set = {t \in Server : <<s, t>> \in edges}]]
       \/ Err(s) /\ UNCHANGED <<replWatch, wat>>
    /\ UNCHANGED <<zkVars, treeVars, masterWatch, mgrVars, app, toldVars, history, spared>>

\* As in master_watcher_fn, only the sizes are compared.
Shrunk_OffByOne(set, active) == Cardinality(set) + 1 < Cardinality(active)     \* mutant
Shrunk(set, active) == Cardinality(set) < Cardinality(active)

\* The set is empty once the lost are erased.
NoneLeft_Before(active, lost) == active = {}     \* mutant: asked before they are erased
NoneLeft(active, lost) == active \subseteq lost

\* A longer list than active_slaves: all of it is inserted, and the first to enter
\* an empty set is reported if nodes shows it online.  A shorter one: the lost are
\* erased, by an iterator that may not survive the erasing, and the last to leave
\* is reported if nodes shows it online.
ReplWatcher_Diff(s) ==
    /\ wat[s].pc = "repl"
    /\ LET set    == wat[s].set
           active == active_slaves[s]
           online == Uuids(nodes[s])
       IN  \/ /\ Cardinality(set) > Cardinality(active)
              /\ active_slaves' = [active_slaves EXCEPT ![s] = @ \cup set]
              /\ \E t \in set \ active :
                    slaveTold' = [slaveTold EXCEPT ![s] =
                                    IF active = {} /\ t \in online THEN "alive" ELSE @]
           \/ /\ Shrunk(set, active)
              /\ \E lost \in (SUBSET (active \ set)) \ {{}} : \E last \in lost :
                    /\ active_slaves' = [active_slaves EXCEPT ![s] = @ \ lost]
                    /\ slaveTold' = [slaveTold EXCEPT ![s] =
                                       IF NoneLeft(active, lost) /\ last \in online
                                       THEN "dead" ELSE @]
           \/ /\ ~(Cardinality(set) > Cardinality(active)) /\ ~Shrunk(set, active)
              /\ UNCHANGED <<active_slaves, slaveTold>>
    /\ wat' = [wat EXCEPT ![s] = WatIdle]
    /\ UNCHANGED <<zkVars, treeVars, watchVars, handler, i_am_master, compeleted_register,
                   my_master_znode_id, nodes, lock, app, role, history, boundVars>>

ReplWatcher_Step(s) == ReplWatcher_List(s) \/ ReplWatcher_Diff(s)

=============================================================================
