---------------------------- MODULE Registration ----------------------------
(***************************************************************************)
(* The application thread: zm_connect, register_server and disconnect, one *)
(* action per call that reaches ZooKeeper.  register_server holds the      *)
(* manager's lock from its first step to its last.                         *)
(***************************************************************************)
EXTENDS ZkCluster

\* zm_connect: a new manager on a new session.  Its fields have the values the
\* constructor gives them; the persistent znodes exist (Bootstrap makes them).
Connect(s) ==
    /\ handler[s] = 0 /\ nextSid <= MaxSid
    /\ CleanRestart => s \notin Uuids(master)
    /\ handler' = [handler EXCEPT ![s] = nextSid]
    /\ sessions' = sessions \cup {nextSid}
    /\ nextSid' = nextSid + 1
    /\ queue' = [queue EXCEPT ![s] = <<>>]
    /\ UNCHANGED <<master, nextSeq, treeVars, masterWatch, replWatch, i_am_master,
                   compeleted_register, my_master_znode_id, nodes, active_slaves, lock, app, wat,
                   toldVars, history, boundVars>>

-----------------------------------------------------------------------------
(* register_server(uuid, service, delay)                                    *)

\* mutant: the label "fail" does not unlock
Return_Locked(s) == app' = [app EXCEPT ![s] = AppIdle] /\ UNCHANGED lock

\* Labels "fail" and "end": unlock and return.
Return(s) ==
    /\ app' = [app EXCEPT ![s] = AppIdle]
    /\ lock' = [lock EXCEPT ![s] = "free"]

Goto(s, pc) == app' = [app EXCEPT ![s].pc = pc] /\ UNCHANGED lock

\* The slaves of s that its nodes map, as it stands, shows to be online.
OnlineSlaves(s) == {t \in Uuids(nodes[s]) : <<s, t>> \in edges}

\* The lock is taken and the call goes on to /master.  The number of children of
\* /master matters only to a delayed registration.
Registering(s) ==
    /\ \E delay \in Delays[s] :
          app' = [app EXCEPT ![s] = [AppIdle EXCEPT !.pc = IF delay THEN "count" ELSE "create",
                                                    !.delay = delay]]
    /\ lock' = [lock EXCEPT ![s] = "app"]

\* Under the lock, unless compeleted_register is set, /replication/uuid is read,
\* then created in mode sync or written back in the mode it had; only in the
\* second case are the slaves read and watched.  Only s writes this znode, so
\* taking the lock and its calls on it are one step.
RegisterServer_Replication(s) ==
    /\ handler[s] # 0 /\ app[s].pc = "idle" /\ lock[s] = "free"
    /\ ~compeleted_register[s]
    /\ \/ /\ Ok(s) /\ mode[s] = "none"                      \* created
          /\ mode' = [mode EXCEPT ![s] = "sync"]
          /\ Registering(s)
          /\ UNCHANGED <<active_slaves, replWatch>>
       \/ /\ Ok(s) /\ mode[s] # "none"                      \* written, slaves watched
          /\ active_slaves' = [active_slaves EXCEPT ![s] = OnlineSlaves(s)]
          /\ replWatch' = replWatch \cup {s}
          /\ Registering(s)
          /\ UNCHANGED mode
       \/ /\ Err(s)                                         \* zoo_get fails: go on
          /\ Registering(s)
          /\ UNCHANGED <<mode, active_slaves, replWatch>>
       \/ /\ Drop(s)                                        \* zoo_create, zoo_set fails
          /\ mode' \in {mode, [mode EXCEPT ![s] = IF @ = "none" THEN "sync" ELSE @]}
          /\ UNCHANGED <<active_slaves, replWatch, app, lock>>
       \/ /\ Drop(s) /\ mode[s] # "none"                    \* zoo_wget_children fails
          /\ active_slaves' = [active_slaves EXCEPT ![s] = {}]
          /\ Registering(s)
          /\ UNCHANGED <<mode, replWatch>>
    /\ UNCHANGED <<zkVars, edges, masterWatch, queue, handler, i_am_master, compeleted_register,
                   my_master_znode_id, nodes, wat, toldVars, history, spared>>

\* zoo_get_children(/master): "delay &= children.count > 0 ? 0 : 1".  If the call
\* fails, children still holds what the stack or the last call left there.
RegisterServer_Count(s) ==
    /\ app[s].pc = "count"
    /\ \E delay \in BOOLEAN :
          /\ \/ Ok(s) /\ delay = (master = {})
             \/ Err(s)
          /\ app' = [app EXCEPT ![s] = [@ EXCEPT !.delay = delay,
                                                !.pc = IF delay THEN "list" ELSE "create"]]
          /\ my_master_znode_id' =
                [my_master_znode_id EXCEPT ![s] = IF delay THEN DelayRegister ELSE @]
    /\ UNCHANGED <<zkVars, treeVars, watchVars, handler, i_am_master, compeleted_register, nodes,
                   active_slaves, lock, wat, toldVars, history, spared>>

\* zoo_create of the ephemeral znode below /master.
RegisterServer_Create(s) ==
    /\ app[s].pc = "create"
    /\ \/ /\ Ok(s)
          /\ CreateMasterZnode(s)
          /\ compeleted_register' = [compeleted_register EXCEPT ![s] = TRUE]
          /\ KeepPath(s)
          /\ Goto(s, "list")
       \/ /\ \/ Err(s) /\ UNCHANGED <<zkVars, watchVars>>
             \/ Drop(s) /\ CreateMasterZnode(s)
          /\ Return(s)
          /\ UNCHANGED <<compeleted_register, my_master_znode_id>>
    /\ UNCHANGED <<treeVars, handler, i_am_master, nodes, active_slaves, wat, toldVars, history,
                   spared>>

\* The names of znodes are sorted by their sequence numbers.
IsFirst_Last(id, ids) == \A q \in ids : id >= q     \* mutant: the newest is taken
IsFirst(id, ids) == \A q \in ids : id <= q

\* nodes is cleared; zoo_wget_children(/master) sets the watch.  If it fails, or
\* there are no children, register_server is done and returns 0.
RegisterServer_List(s) ==
    /\ app[s].pc = "list"
    /\ nodes' = [nodes EXCEPT ![s] = {}]
    /\ \/ /\ Ok(s) /\ WatchMaster(s)
          /\ \E first \in Seqs(master) :
                /\ IsFirst(first, Seqs(master))
                /\ app' = [app EXCEPT ![s] = [@ EXCEPT !.pc = "fetch", !.kids = Seqs(master),
                                                      !.first = first]]
          /\ UNCHANGED lock
       \/ Ok(s) /\ master = {} /\ WatchMaster(s) /\ Return(s)
       \/ Err(s) /\ UNCHANGED watchVars /\ Return(s)
    /\ UNCHANGED <<zkVars, treeVars, handler, i_am_master, compeleted_register,
                   my_master_znode_id, active_slaves, wat, toldVars, history, spared>>

\* zoo_get of one child: its uuid enters nodes unless the znode is gone.
Found(q) == {NodeOf(z) : z \in {y \in master : y.seq = q}}

\* When the last is read the server stands by, until the first child is known.
RegisterServer_Fetch(s) ==
    /\ app[s].pc = "fetch"
    /\ \E q \in app[s].kids :
          /\ \/ /\ Ok(s)
                /\ nodes' = [nodes EXCEPT ![s] = @ \cup Found(q)]
             \/ Err(s) /\ UNCHANGED nodes
          /\ \/ /\ app[s].kids # {q}
                /\ app' = [app EXCEPT ![s] = [app[s] EXCEPT !.kids = app[s].kids \ {q}]]
                /\ UNCHANGED <<i_am_master, elected>>
             \/ /\ app[s].kids = {q}
                /\ app' = [app EXCEPT ![s] = [app[s] EXCEPT !.kids = {}, !.pc = "first"]]
                /\ i_am_master' = [i_am_master EXCEPT ![s] = FALSE]
                /\ elected' = [elected EXCEPT ![s] = 0]
    /\ UNCHANGED <<zkVars, treeVars, watchVars, handler, compeleted_register,
                   my_master_znode_id, active_slaves, lock, wat, toldVars, withdrew, spared>>

\* The first child decides: the server whose uuid it holds is the master.
RegisterServer_First(s) ==
    /\ app[s].pc = "first"
    /\ \/ /\ app[s].delay                                   \* nothing to decide
          /\ Return(s)
          /\ UNCHANGED <<i_am_master, elected, role, errs>>
       \/ /\ ~app[s].delay /\ Ok(s)
          /\ \E z \in master : z.seq = app[s].first /\ z.uuid = s
          /\ i_am_master' = [i_am_master EXCEPT ![s] = TRUE]
          /\ elected' = [elected EXCEPT ![s] = app[s].first]
          /\ Goto(s, "tell")
          /\ UNCHANGED role
       \/ /\ ~app[s].delay /\ Ok(s)
          /\ \E z \in master : z.seq = app[s].first /\ z.uuid # s
          /\ role' = [role EXCEPT ![s] = "standby"]
          /\ Return(s)
          /\ UNCHANGED <<i_am_master, elected>>
       \/ /\ ~app[s].delay                                  \* the first child is gone
          /\ \/ Ok(s) /\ app[s].first \notin Seqs(master)
             \/ Err(s)
          /\ Return(s)
          /\ UNCHANGED <<i_am_master, elected, role>>
    /\ UNCHANGED <<zkVars, treeVars, watchVars, handler, compeleted_register, my_master_znode_id,
                   nodes, active_slaves, wat, slaveTold, withdrew, spared>>

\* become_master_cb: what it returns is ignored here.
RegisterServer_Tell(s) ==
    /\ app[s].pc = "tell"
    /\ \/ role' = [role EXCEPT ![s] = "master"]
       \/ UNCHANGED role                                    \* mysqld refuses
    /\ Return(s)
    /\ UNCHANGED <<zkVars, treeVars, watchVars, handler, i_am_master, compeleted_register,
                   my_master_znode_id, nodes, active_slaves, wat, slaveTold, history, boundVars>>

RegisterServer_Step(s) ==
    \/ RegisterServer_Count(s) \/ RegisterServer_Create(s) \/ RegisterServer_List(s)
    \/ RegisterServer_Fetch(s) \/ RegisterServer_First(s) \/ RegisterServer_Tell(s)

-----------------------------------------------------------------------------
(* disconnect, and the ways a manager is lost without it                    *)

\* The manager is gone: everything it held in memory is.
Forget(s) ==
    /\ handler' = [handler EXCEPT ![s] = 0]
    /\ i_am_master' = [i_am_master EXCEPT ![s] = FALSE]
    /\ compeleted_register' = [compeleted_register EXCEPT ![s] = FALSE]
    /\ my_master_znode_id' = [my_master_znode_id EXCEPT ![s] = NoZnode]
    /\ nodes' = [nodes EXCEPT ![s] = {}]
    /\ active_slaves' = [active_slaves EXCEPT ![s] = {}]
    /\ lock' = [lock EXCEPT ![s] = "free"]
    /\ app' = [app EXCEPT ![s] = AppIdle]
    /\ wat' = [wat EXCEPT ![s] = WatIdle]
    /\ elected' = [elected EXCEPT ![s] = 0]
    /\ withdrew' = withdrew \ {s}

\* The client of s gives no more events to its watchers.
CloseHandle(s) ==
    /\ masterWatch' = masterWatch \ {s}
    /\ replWatch' = replWatch \ {s}
    /\ queue' = [queue EXCEPT ![s] = <<>>]

\* zookeeper_close fails the calls in flight and joins the completion thread ...
Disconnect_Close(s) ==
    /\ s \in Leavers /\ handler[s] # 0 /\ app[s].pc = "idle"
    /\ Goto(s, "closing")
    /\ CloseHandle(s)
    /\ UNCHANGED <<zkVars, treeVars, handler, i_am_master, compeleted_register,
                   my_master_znode_id, nodes, active_slaves, wat, toldVars, history, boundVars>>

\* ... then ends the session; mysqld is told to stand by and the manager deleted.
Disconnect_Done(s) ==
    /\ app[s].pc = "closing" /\ wat[s].pc = "idle"
    /\ EndSession(handler[s], {})
    /\ Forget(s)
    /\ role' = [role EXCEPT ![s] = "standby"]
    /\ UNCHANGED <<treeVars, slaveTold, boundVars>>

\* mysqld dies.  Its session, and its znode below /master, stay for the timeout.
Crash(s) ==
    /\ s \in Leavers /\ handler[s] # 0 /\ crashes < MaxCrashes /\ crashes' = crashes + 1
    /\ Forget(s)
    /\ CloseHandle(s)
    /\ role' = [role EXCEPT ![s] = "none"]
    /\ slaveTold' = [slaveTold EXCEPT ![s] = "none"]
    /\ UNCHANGED <<zkVars, treeVars, errs, expiries, admin>>

\* A session the service has not heard of for the timeout ends: one whose server
\* crashed or, as a fault, one whose server runs on, cut off, and will be told.
SessionTimeout(k) ==
    /\ k \in sessions
    /\ LET owners == {s \in Server : handler[s] = k}
       IN  /\ IF owners = {} THEN UNCHANGED expiries
                             ELSE /\ owners \subseteq Leavers /\ expiries < MaxExpiries
                                  /\ expiries' = expiries + 1
           /\ EndSession(k, owners)
    /\ UNCHANGED <<treeVars, mgrVars, app, wat, toldVars, history, errs, crashes, admin>>

=============================================================================
