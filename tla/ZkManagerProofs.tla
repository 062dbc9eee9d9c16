--------------------------- MODULE ZkManagerProofs ---------------------------
(***************************************************************************)
(* Type correctness of the cluster, for every set of servers and every     *)
(* value of the bounds.  There is one lemma for each action; below it one  *)
(* step for each group of variables, or each variable, the action changes. *)
(***************************************************************************)
EXTENDS ZkManager, TLAPS, SequenceTheorems

\* An event appended to, or taken from, a queue leaves a queue.
LEMMA QueueType ==
    ASSUME queue \in [Server -> Seq(Event)], NEW s \in Server
    PROVE  /\ \A e \in Event : Append(queue[s], e) \in Seq(Event)
           /\ queue[s] # <<>> => Tail(queue[s]) \in Seq(Event)
<1>1. queue[s] \in Seq(Event)  OBVIOUS
<1>2. QED  BY <1>1, AppendProperties, HeadTailProperties

\* A watch that fires puts an event in a queue, and nothing else.
LEMMA FireType ==
    ASSUME WatchTypeOK, NEW W, FireMasterWatches(W)
    PROVE  queue' \in [Server -> Seq(Event)]
BY QueueType DEF WatchTypeOK, FireMasterWatches, Event

\* What zoo_create below /master does to the service keeps the types.
LEMMA CreateType ==
    ASSUME ZkTypeOK, WatchTypeOK, MgrTypeOK, NEW s \in Server, CreateMasterZnode(s)
    PROVE  ZkTypeOK' /\ WatchTypeOK'
<1>1. WatchTypeOK'  BY FireType DEF CreateMasterZnode, WatchTypeOK
<1>2. ZkTypeOK'  BY DEF CreateMasterZnode, ZkTypeOK, MgrTypeOK, Znode
<1>3. QED  BY <1>1, <1>2

\* So does zoo_delete below /master,
LEMMA DeleteType ==
    ASSUME ZkTypeOK, WatchTypeOK, NEW k, DeleteMasterZnode(k)
    PROVE  ZkTypeOK' /\ WatchTypeOK'
<1>1. WatchTypeOK'  BY FireType DEF DeleteMasterZnode, WatchTypeOK
<1>2. ZkTypeOK'  BY DEF DeleteMasterZnode, ZkTypeOK
<1>3. QED  BY <1>1, <1>2

\* the end of a session with its ephemeral znodes,
LEMMA EndSessionType ==
    ASSUME ZkTypeOK, WatchTypeOK, NEW k, NEW owners, EndSession(k, owners)
    PROVE  ZkTypeOK' /\ WatchTypeOK'
<1>1. queue' \in [Server -> Seq(Event)]  BY QueueType DEF EndSession, WatchTypeOK, Event
<1>2. WatchTypeOK'  BY <1>1 DEF EndSession, WatchTypeOK
<1>3. ZkTypeOK'  BY DEF EndSession, ZkTypeOK
<1>4. QED  BY <1>2, <1>3

\* and a change below /replication/m.
LEMMA FireReplType ==
    ASSUME WatchTypeOK, NEW m \in Server, FireReplWatch(m)
    PROVE  WatchTypeOK'
<1>1. queue' \in [Server -> Seq(Event)]  BY QueueType DEF FireReplWatch, WatchTypeOK, Event
<1>2. QED  BY <1>1 DEF FireReplWatch, WatchTypeOK

\* A call that fails is counted in Nat.
LEMMA ErrsType ==
    ASSUME BoundTypeOK, NEW s \in Server
    PROVE  /\ Ok(s) => errs' \in Nat
           /\ Drop(s) => errs' \in Nat
           /\ Err(s) => errs' \in Nat
BY DEF BoundTypeOK, Ok, Drop, Err

\* A thread at rest has locals of the right types.
LEMMA IdleType == AppIdle \in AppState /\ WatIdle \in WatState
BY ServerAssumption DEF AppIdle, WatIdle, AppState, WatState, WatLocals, AppPc, RegisterPc, WatPc,
   LockedWatPc, NoZnode

\* The application thread moves on, with its locals as they are.
LEMMA AppPcType ==
    ASSUME ThreadTypeOK, NEW s \in Server, NEW pc \in AppPc
    PROVE  [app EXCEPT ![s].pc = pc] \in [Server -> AppState]
BY DEF ThreadTypeOK, AppState

\* So does the completion thread.
LEMMA WatPcType ==
    ASSUME ThreadTypeOK, NEW s \in Server, NEW pc \in WatPc
    PROVE  [wat EXCEPT ![s].pc = pc] \in [Server -> WatState]
BY DEF ThreadTypeOK, WatState, WatLocals

-----------------------------------------------------------------------------
(* The application thread                                                   *)

\* zm_connect keeps the types: the new session has a new number.
LEMMA ConnectKeepsType == ASSUME TypeOK, NEW s \in Server, Connect(s) PROVE TypeOK'
<1>1. ZkTypeOK'  BY DEF TypeOK, ZkTypeOK, Connect
<1>2. WatchTypeOK'
  BY DEF TypeOK, WatchTypeOK, Connect
<1>3. MgrTypeOK'  BY DEF TypeOK, ZkTypeOK, MgrTypeOK, Connect
<1>4. QED
  BY <1>1, <1>2, <1>3 DEF TypeOK, TreeTypeOK, ThreadTypeOK, ToldTypeOK, BoundTypeOK, Connect,
     treeVars, toldVars, history, boundVars

\* register_server returns, on either label.
LEMMA ReturnType ==
    ASSUME ThreadTypeOK, MgrTypeOK, NEW s \in Server, Return(s)
    PROVE  app' \in [Server -> AppState] /\ lock' \in [Server -> {"free", "app", "wat"}]
BY IdleType DEF Return, ThreadTypeOK, MgrTypeOK

\* register_server goes on to its next call.
LEMMA GotoType ==
    ASSUME ThreadTypeOK, NEW s \in Server, NEW pc \in AppPc, Goto(s, pc)
    PROVE  app' \in [Server -> AppState] /\ lock' = lock
BY AppPcType DEF Goto

\* register_server has begun, delayed or not.
LEMMA RegisteringType ==
    ASSUME ThreadTypeOK, MgrTypeOK, NEW s \in Server, Registering(s)
    PROVE  app' \in [Server -> AppState] /\ lock' \in [Server -> {"free", "app", "wat"}]
<1>1. PICK delay \in Delays[s] :
        app' = [app EXCEPT ![s] = [AppIdle EXCEPT !.pc = IF delay THEN "count" ELSE "create",
                                                  !.delay = delay]]
  BY DEF Registering
<1>2. delay \in BOOLEAN  BY ConfigAssumption
<1>3. [AppIdle EXCEPT !.pc = IF delay THEN "count" ELSE "create", !.delay = delay] \in AppState
  BY <1>2, IdleType DEF AppState, AppPc, RegisterPc
<1>4. QED  BY <1>1, <1>3 DEF ThreadTypeOK, MgrTypeOK, Registering

\* register_server on /replication: active_slaves holds servers that nodes holds.
LEMMA ReplicationKeepsType ==
    ASSUME TypeOK, NEW s \in Server, RegisterServer_Replication(s) PROVE TypeOK'
<1>1. app' \in [Server -> AppState] /\ lock' \in [Server -> {"free", "app", "wat"}]
  BY RegisteringType DEF RegisterServer_Replication, TypeOK, ThreadTypeOK, MgrTypeOK
<1>2. errs' \in Nat  BY ErrsType DEF TypeOK, RegisterServer_Replication
<1>3. mode' \in [Server -> Mode]
  BY DEF TypeOK, TreeTypeOK, RegisterServer_Replication, Mode
<1>4. OnlineSlaves(s) \subseteq Server
  BY DEF TypeOK, MgrTypeOK, OnlineSlaves, Uuids, Node
<1>5. active_slaves' \in [Server -> SUBSET Server]
  BY <1>4 DEF TypeOK, MgrTypeOK, RegisterServer_Replication
<1>6. replWatch' \subseteq Server  BY DEF TypeOK, WatchTypeOK, RegisterServer_Replication
<1>7. QED
  BY <1>1, <1>2, <1>3, <1>5, <1>6 DEF TypeOK, ZkTypeOK, TreeTypeOK, WatchTypeOK, MgrTypeOK,
     ThreadTypeOK, ToldTypeOK, BoundTypeOK, RegisterServer_Replication, zkVars, toldVars, history,
     spared

\* register_server counts the children of /master: "delay_register" is no path.
LEMMA CountKeepsType ==
    ASSUME TypeOK, NEW s \in Server, RegisterServer_Count(s) PROVE TypeOK'
<1>1. PICK delay \in BOOLEAN :
        /\ Ok(s) \/ Err(s)
        /\ app' = [app EXCEPT ![s] = [@ EXCEPT !.delay = delay,
                                                !.pc = IF delay THEN "list" ELSE "create"]]
        /\ my_master_znode_id' =
              [my_master_znode_id EXCEPT ![s] = IF delay THEN DelayRegister ELSE @]
  BY DEF RegisterServer_Count
<1>2. app' \in [Server -> AppState]
  <2> DEFINE next == [app[s] EXCEPT !.delay = delay, !.pc = IF delay THEN "list" ELSE "create"]
  <2>1. app[s] \in AppState  BY DEF TypeOK, ThreadTypeOK
  <2>2. next \in AppState  BY <2>1 DEF AppState, AppPc, RegisterPc
  <2>3. app' = [app EXCEPT ![s] = next]  BY <1>1
  <2> HIDE DEF next
  <2>4. QED  BY <2>2, <2>3 DEF TypeOK, ThreadTypeOK
<1>3. my_master_znode_id' \in [Server -> Int]
  BY <1>1 DEF TypeOK, MgrTypeOK, DelayRegister
<1>4. errs' \in Nat  BY <1>1, ErrsType DEF TypeOK
<1>5. QED
  BY <1>2, <1>3, <1>4 DEF TypeOK, ZkTypeOK, TreeTypeOK, WatchTypeOK, MgrTypeOK,
     ThreadTypeOK, ToldTypeOK, BoundTypeOK, RegisterServer_Count, zkVars, treeVars, watchVars,
     toldVars, history, spared

\* register_server creates the znode: the path it keeps is a sequence number.
LEMMA CreateKeepsType ==
    ASSUME TypeOK, NEW s \in Server, RegisterServer_Create(s) PROVE TypeOK'
<1>1. (ZkTypeOK /\ WatchTypeOK)'
  <2>1. CASE CreateMasterZnode(s)  BY <2>1, CreateType DEF TypeOK
  <2>2. CASE UNCHANGED <<zkVars, watchVars>>
    BY <2>2 DEF TypeOK, ZkTypeOK, WatchTypeOK, zkVars, watchVars
  <2>3. QED  BY <2>1, <2>2 DEF RegisterServer_Create
<1>2. app' \in [Server -> AppState] /\ lock' \in [Server -> {"free", "app", "wat"}]
  BY ReturnType, GotoType DEF RegisterServer_Create, TypeOK, MgrTypeOK, AppPc, RegisterPc
<1>3. errs' \in Nat  BY ErrsType DEF TypeOK, RegisterServer_Create
<1>4. /\ compeleted_register' \in [Server -> BOOLEAN]
      /\ my_master_znode_id' \in [Server -> Int]
  <2>1. CASE KeepPath(s) /\ compeleted_register' = [compeleted_register EXCEPT ![s] = TRUE]
    <3>1. nextSeq \in Int  BY DEF TypeOK, ZkTypeOK
    <3>2. QED  BY <2>1, <3>1 DEF TypeOK, MgrTypeOK, KeepPath
  <2>2. CASE UNCHANGED <<compeleted_register, my_master_znode_id>>
    BY <2>2 DEF TypeOK, MgrTypeOK
  <2>3. QED  BY <2>1, <2>2 DEF RegisterServer_Create
<1>5. QED
  BY <1>1, <1>2, <1>3, <1>4 DEF TypeOK, TreeTypeOK, MgrTypeOK, ThreadTypeOK, ToldTypeOK,
     BoundTypeOK, RegisterServer_Create, treeVars, toldVars, history, spared

\* zoo_wget_children sets a watch.
LEMMA WatchMasterType ==
    ASSUME WatchTypeOK, NEW s \in Server, WatchMaster(s)
    PROVE  WatchTypeOK'
BY DEF WatchMaster, WatchTypeOK

\* register_server lists /master: the first child is one of the children.
LEMMA ListKeepsType ==
    ASSUME TypeOK, NEW s \in Server, RegisterServer_List(s) PROVE TypeOK'
<1>1. WatchTypeOK'
  <2>1. CASE WatchMaster(s)  BY <2>1, WatchMasterType DEF TypeOK
  <2>2. CASE UNCHANGED watchVars  BY <2>2 DEF TypeOK, WatchTypeOK, watchVars
  <2>3. QED  BY <2>1, <2>2 DEF RegisterServer_List
<1>2. app' \in [Server -> AppState] /\ lock' \in [Server -> {"free", "app", "wat"}]
  <2>1. CASE Return(s)  BY <2>1, ReturnType DEF TypeOK
  <2>2. ASSUME NEW first \in Seqs(master), UNCHANGED lock,
               app' = [app EXCEPT ![s] = [@ EXCEPT !.pc = "fetch", !.kids = Seqs(master),
                                                  !.first = first]]
        PROVE  app' \in [Server -> AppState] /\ lock' \in [Server -> {"free", "app", "wat"}]
    <3>1. Seqs(master) \subseteq Nat  BY DEF TypeOK, ZkTypeOK, Seqs, Znode
    <3>2. first \in Nat  BY <3>1
    <3> DEFINE next == [app[s] EXCEPT !.pc = "fetch", !.kids = Seqs(master), !.first = first]
    <3>3. app[s] \in AppState  BY DEF TypeOK, ThreadTypeOK
    <3>4. next \in AppState  BY <3>1, <3>2, <3>3 DEF AppState, AppPc, RegisterPc
    <3>5. app' = [app EXCEPT ![s] = next]  BY <2>2
    <3> HIDE DEF next
    <3>6. QED  BY <2>2, <3>4, <3>5 DEF TypeOK, ThreadTypeOK, MgrTypeOK
  <2>3. QED  BY <2>1, <2>2 DEF RegisterServer_List
<1>3. nodes' \in [Server -> SUBSET Node]  BY DEF TypeOK, MgrTypeOK, RegisterServer_List
<1>4. errs' \in Nat  BY ErrsType DEF TypeOK, RegisterServer_List
<1>5. QED
  BY <1>1, <1>2, <1>3, <1>4 DEF TypeOK, ZkTypeOK, TreeTypeOK, MgrTypeOK, ThreadTypeOK, ToldTypeOK,
     BoundTypeOK, RegisterServer_List, zkVars, treeVars, toldVars, history, spared

\* What zoo_get reads of a child of /master belongs into a nodes map.
LEMMA FoundType == ASSUME ZkTypeOK, NEW q PROVE Found(q) \subseteq Node
BY DEF ZkTypeOK, Found, NodeOf, Znode, Node

\* register_server reads a child into nodes.
LEMMA FetchKeepsType ==
    ASSUME TypeOK, NEW s \in Server, RegisterServer_Fetch(s) PROVE TypeOK'
<1>1. PICK q \in app[s].kids :
        /\ \/ /\ Ok(s)
              /\ nodes' = [nodes EXCEPT ![s] = @ \cup Found(q)]
           \/ Err(s) /\ UNCHANGED nodes
        /\ \/ /\ app' = [app EXCEPT ![s] = [app[s] EXCEPT !.kids = app[s].kids \ {q}]]
              /\ UNCHANGED <<i_am_master, elected>>
           \/ /\ app' = [app EXCEPT ![s] = [app[s] EXCEPT !.kids = {}, !.pc = "first"]]
              /\ i_am_master' = [i_am_master EXCEPT ![s] = FALSE]
              /\ elected' = [elected EXCEPT ![s] = 0]
  BY DEF RegisterServer_Fetch
<1>2. app' \in [Server -> AppState]
  <2>1. app[s] \in AppState  BY DEF TypeOK, ThreadTypeOK
  <2>2. app[s].kids \ {q} \in SUBSET Nat  BY <2>1 DEF AppState
  <2> DEFINE more == [app[s] EXCEPT !.kids = app[s].kids \ {q}]
             last == [app[s] EXCEPT !.kids = {}, !.pc = "first"]
  <2>3. more \in AppState /\ last \in AppState
    BY <2>1, <2>2 DEF AppState, AppPc, RegisterPc
  <2>4. app' = [app EXCEPT ![s] = more] \/ app' = [app EXCEPT ![s] = last]  BY <1>1
  <2> HIDE DEF more, last
  <2>5. QED  BY <2>3, <2>4 DEF TypeOK, ThreadTypeOK
<1>3. nodes' \in [Server -> SUBSET Node]
  <2>1. Found(q) \subseteq Node  BY FoundType DEF TypeOK
  <2>2. CASE nodes' = [nodes EXCEPT ![s] = @ \cup Found(q)]
    BY <2>1, <2>2 DEF TypeOK, MgrTypeOK
  <2>3. CASE UNCHANGED nodes  BY <2>3 DEF TypeOK, MgrTypeOK
  <2>4. QED  BY <1>1, <2>2, <2>3
<1>4. errs' \in Nat  BY <1>1, ErrsType DEF TypeOK
<1>5. i_am_master' \in [Server -> BOOLEAN] /\ elected' \in [Server -> Nat]
  <2>1. CASE UNCHANGED <<i_am_master, elected>>  BY <2>1 DEF TypeOK, MgrTypeOK, ToldTypeOK
  <2>2. CASE /\ i_am_master' = [i_am_master EXCEPT ![s] = FALSE]
             /\ elected' = [elected EXCEPT ![s] = 0]
    BY <2>2 DEF TypeOK, MgrTypeOK, ToldTypeOK
  <2>3. QED  BY <1>1, <2>1, <2>2
<1>6. QED
  BY <1>2, <1>3, <1>4, <1>5 DEF TypeOK, ZkTypeOK, TreeTypeOK, WatchTypeOK, MgrTypeOK,
     ThreadTypeOK, ToldTypeOK, BoundTypeOK, RegisterServer_Fetch, zkVars, treeVars, watchVars,
     toldVars, history, spared

\* register_server reads the first child and decides.
LEMMA FirstKeepsType ==
    ASSUME TypeOK, NEW s \in Server, RegisterServer_First(s) PROVE TypeOK'
<1>1. app' \in [Server -> AppState] /\ lock' \in [Server -> {"free", "app", "wat"}]
  <2>1. CASE Return(s)  BY <2>1, ReturnType DEF TypeOK
  <2>2. CASE Goto(s, "tell")  BY <2>2, GotoType DEF TypeOK, MgrTypeOK, AppPc, RegisterPc
  <2>3. QED  BY <2>1, <2>2 DEF RegisterServer_First
<1>2. i_am_master' \in [Server -> BOOLEAN]  BY DEF TypeOK, MgrTypeOK, RegisterServer_First
<1>3. elected' \in [Server -> Nat]
  <2>1. app[s].first \in Nat  BY DEF TypeOK, ThreadTypeOK, AppState
  <2>2. QED  BY <2>1 DEF TypeOK, ToldTypeOK, RegisterServer_First
<1>4. role' \in [Server -> {"none", "master", "standby"}]
  BY DEF TypeOK, ToldTypeOK, RegisterServer_First
<1>5. errs' \in Nat  BY ErrsType DEF TypeOK, BoundTypeOK, RegisterServer_First
<1>6. QED
  BY <1>1, <1>2, <1>3, <1>4, <1>5 DEF TypeOK, ZkTypeOK, TreeTypeOK, WatchTypeOK, MgrTypeOK,
     ThreadTypeOK, ToldTypeOK, BoundTypeOK, RegisterServer_First, zkVars, treeVars, watchVars,
     spared

\* register_server tells mysqld.
LEMMA TellKeepsType ==
    ASSUME TypeOK, NEW s \in Server, RegisterServer_Tell(s) PROVE TypeOK'
<1>1. app' \in [Server -> AppState] /\ lock' \in [Server -> {"free", "app", "wat"}]
  BY ReturnType DEF TypeOK, RegisterServer_Tell
<1>2. role' \in [Server -> {"none", "master", "standby"}]
  BY DEF TypeOK, ToldTypeOK, RegisterServer_Tell
<1>3. QED
  BY <1>1, <1>2 DEF TypeOK, ZkTypeOK, TreeTypeOK, WatchTypeOK, MgrTypeOK, ThreadTypeOK, ToldTypeOK,
     BoundTypeOK, RegisterServer_Tell, zkVars, treeVars, watchVars, history, boundVars

\* A manager that is deleted, or dies, leaves the fields of a new one.
LEMMA ForgetType ==
    ASSUME MgrTypeOK, ThreadTypeOK, ToldTypeOK, NEW s \in Server, Forget(s)
    PROVE  /\ MgrTypeOK' /\ ThreadTypeOK' /\ elected' \in [Server -> Nat]
           /\ withdrew' \subseteq Server
<1>1. MgrTypeOK'  BY DEF MgrTypeOK, Forget, NoZnode
<1>2. ThreadTypeOK'  BY IdleType DEF ThreadTypeOK, Forget
<1>3. elected' \in [Server -> Nat] /\ withdrew' \subseteq Server  BY DEF ToldTypeOK, Forget
<1>4. QED  BY <1>1, <1>2, <1>3

\* A client that is closed has no watches and no events.
LEMMA CloseType ==
    ASSUME WatchTypeOK, NEW s \in Server, CloseHandle(s)
    PROVE  WatchTypeOK'
BY DEF WatchTypeOK, CloseHandle

\* zookeeper_close keeps the types,
LEMMA CloseKeepsType ==
    ASSUME TypeOK, NEW s \in Server, Disconnect_Close(s) PROVE TypeOK'
<1>1. WatchTypeOK'  BY CloseType DEF TypeOK, Disconnect_Close
<1>2. app' \in [Server -> AppState] /\ lock' = lock
  BY GotoType DEF TypeOK, Disconnect_Close, AppPc
<1>3. QED
  BY <1>1, <1>2 DEF TypeOK, ZkTypeOK, TreeTypeOK, MgrTypeOK, ThreadTypeOK, ToldTypeOK,
     BoundTypeOK, Disconnect_Close, zkVars, treeVars, toldVars, history, boundVars

\* as does the end of the session it asks for,
LEMMA DoneKeepsType ==
    ASSUME TypeOK, NEW s \in Server, Disconnect_Done(s) PROVE TypeOK'
<1>1. ZkTypeOK' /\ WatchTypeOK'  BY EndSessionType DEF TypeOK, Disconnect_Done
<1>2. MgrTypeOK' /\ ThreadTypeOK' /\ elected' \in [Server -> Nat] /\ withdrew' \subseteq Server
  BY ForgetType DEF TypeOK, Disconnect_Done
<1>3. QED
  BY <1>1, <1>2 DEF TypeOK, TreeTypeOK, ToldTypeOK, BoundTypeOK, Disconnect_Done, treeVars,
     history, boundVars

\* the crash of a server,
LEMMA CrashKeepsType ==
    ASSUME TypeOK, NEW s \in Server, Crash(s) PROVE TypeOK'
<1>1. WatchTypeOK'  BY CloseType DEF TypeOK, Crash
<1>2. MgrTypeOK' /\ ThreadTypeOK' /\ elected' \in [Server -> Nat] /\ withdrew' \subseteq Server
  BY ForgetType DEF TypeOK, Crash
<1>3. ToldTypeOK'  BY <1>2 DEF TypeOK, ToldTypeOK, Crash
<1>4. BoundTypeOK'  BY DEF TypeOK, BoundTypeOK, Crash
<1>5. QED  BY <1>1, <1>2, <1>3, <1>4 DEF TypeOK, ZkTypeOK, TreeTypeOK, Crash, zkVars, treeVars

\* and the timeout of a session, whether its server lives or not.
LEMMA TimeoutKeepsType ==
    ASSUME TypeOK, NEW k \in sessions, SessionTimeout(k) PROVE TypeOK'
<1>1. ZkTypeOK' /\ WatchTypeOK'  BY EndSessionType DEF TypeOK, SessionTimeout
<1>2. QED
  BY <1>1 DEF TypeOK, TreeTypeOK, MgrTypeOK, ThreadTypeOK, ToldTypeOK, BoundTypeOK, SessionTimeout,
     treeVars, mgrVars, toldVars, history

-----------------------------------------------------------------------------
(* The completion thread                                                    *)

\* A queue from which the first event is taken is a queue.
LEMMA TakeType ==
    ASSUME WatchTypeOK, NEW s \in Server, NEW event, Take(s, event)
    PROVE  queue' \in [Server -> Seq(Event)]
BY QueueType DEF Take, WatchTypeOK

\* fn_watcher_g tells mysqld to stand by.
LEMMA ExpiredKeepsType ==
    ASSUME TypeOK, NEW s \in Server, SessionExpired(s) PROVE TypeOK'
<1>1. WatchTypeOK'  BY TakeType DEF TypeOK, WatchTypeOK, SessionExpired
<1>2. ToldTypeOK'  BY DEF TypeOK, ToldTypeOK, SessionExpired, history
<1>3. QED
  BY <1>1, <1>2 DEF TypeOK, ZkTypeOK, TreeTypeOK, MgrTypeOK, ThreadTypeOK, BoundTypeOK,
     SessionExpired, zkVars, treeVars, mgrVars, history, boundVars

\* A list of /master, read to its end, could be a nodes map.
LEMMA NodesOfMaster == ASSUME ZkTypeOK PROVE {NodeOf(z) : z \in master} \subseteq Node
BY DEF ZkTypeOK, NodeOf, Znode, Node

\* master_watcher_fn lists /master.
LEMMA WatListKeepsType ==
    ASSUME TypeOK, NEW s \in Server, MasterWatcher_List(s) PROVE TypeOK'
<1>1. WatchTypeOK'
  <2>1. queue' \in [Server -> Seq(Event)]
    BY TakeType DEF TypeOK, MasterWatcher_List
  <2>2. QED  BY <2>1 DEF TypeOK, WatchTypeOK, MasterWatcher_List
<1>2. wat' \in [Server -> WatState]
  <2> DEFINE listed == [WatIdle EXCEPT !.pc = "fetch", !.kids = {NodeOf(z) : z \in master}]
  <2>1. listed \in WatState
    BY NodesOfMaster, IdleType DEF TypeOK, WatState, WatLocals, WatPc
  <2>2. wat' = [wat EXCEPT ![s] = listed] \/ UNCHANGED wat  BY DEF MasterWatcher_List
  <2> HIDE DEF listed
  <2>3. QED  BY <2>1, <2>2 DEF TypeOK, ThreadTypeOK
<1>3. errs' \in Nat  BY ErrsType DEF TypeOK, MasterWatcher_List
<1>4. QED
  BY <1>1, <1>2, <1>3 DEF TypeOK, ZkTypeOK, TreeTypeOK, MgrTypeOK, ThreadTypeOK, ToldTypeOK,
     BoundTypeOK, MasterWatcher_List, zkVars, treeVars, mgrVars, toldVars, history, spared

\* master_watcher_fn reads the children: my_map is a part of what was listed.
LEMMA WatFetchKeepsType ==
    ASSUME TypeOK, NEW s \in Server, MasterWatcher_Fetch(s) PROVE TypeOK'
<1>1. PICK map \in SUBSET wat[s].kids :
        /\ Read(s, wat[s].kids, map)
        /\ LET way == Direction(map, nodes[s])
           IN  wat' = [wat EXCEPT ![s] = IF way = "idle" THEN WatIdle
                                         ELSE [WatIdle EXCEPT !.pc = way, !.map = map]]
  BY DEF MasterWatcher_Fetch
<1>2. wat' \in [Server -> WatState]
  <2> DEFINE way == Direction(map, nodes[s])
             next == IF way = "idle" THEN WatIdle ELSE [WatIdle EXCEPT !.pc = way, !.map = map]
  <2>1. way \in WatPc  BY DEF Direction, WatPc
  <2>2. map \subseteq Node  BY DEF TypeOK, ThreadTypeOK, WatState, WatLocals
  <2> HIDE DEF way
  <2>3. next \in WatState  BY <2>1, <2>2, IdleType DEF WatState, WatLocals
  <2>4. wat' = [wat EXCEPT ![s] = next]  BY <1>1 DEF way
  <2> HIDE DEF next
  <2>5. QED  BY <2>3, <2>4 DEF TypeOK, ThreadTypeOK
<1>3. errs' \in Nat  BY <1>1, ErrsType DEF TypeOK, BoundTypeOK, Read
<1>4. QED
  BY <1>2, <1>3 DEF TypeOK, ZkTypeOK, TreeTypeOK, WatchTypeOK, MgrTypeOK, ThreadTypeOK, ToldTypeOK,
     BoundTypeOK, MasterWatcher_Fetch, zkVars, treeVars, watchVars, mgrVars, toldVars, history,
     spared

\* A loop of master_watcher_fn ends.
LEMMA EndKeepsType ==
    ASSUME TypeOK, NEW s \in Server, MasterWatcher_End(s) PROVE TypeOK'
<1>1. wat' \in [Server -> WatState]  BY IdleType DEF TypeOK, ThreadTypeOK, MasterWatcher_End
<1>2. QED
  BY <1>1 DEF TypeOK, ZkTypeOK, TreeTypeOK, WatchTypeOK, MgrTypeOK, ThreadTypeOK, ToldTypeOK,
     BoundTypeOK, MasterWatcher_End, zkVars, treeVars, watchVars, mgrVars, toldVars, history,
     boundVars

\* A nodes_* function copies fields of the manager; the server it is called for has a uuid.
LEMMA EnterType ==
    ASSUME ThreadTypeOK, MgrTypeOK, NEW s \in Server, NEW e \in Node, NEW pc \in WatPc,
           Enter(s, e, pc)
    PROVE  wat' \in [Server -> WatState]
<1>1. wat[s].map \in SUBSET Node  BY DEF ThreadTypeOK, WatState, WatLocals
<1>2. i_am_master[s] \in BOOLEAN /\ my_master_znode_id[s] \in Int  BY DEF MgrTypeOK
<1>3. e.seq \in Nat /\ e.uuid \in Server  BY DEF Node
<1> DEFINE next == [pc |-> pc, kids |-> {}, map |-> wat[s].map, set |-> {}, cur |-> e.seq,
                    who |-> e.uuid, i_am_master |-> i_am_master[s], id |-> my_master_znode_id[s],
                    is_my_repl_master |-> FALSE, is_my_repl_slave |-> FALSE, tries |-> 0]
<1>4. next \in WatState  BY <1>1, <1>2, <1>3 DEF WatState, WatLocals
<1>5. wat' = [wat EXCEPT ![s] = next]  BY DEF Enter
<1> HIDE DEF next
<1>6. QED  BY <1>4, <1>5 DEF ThreadTypeOK

\* What a nodes_* function finds to be its slave or its master has a uuid, because a
\* replication znode has.
LEMMA AskedType ==
    ASSUME ThreadTypeOK, MgrTypeOK, TreeTypeOK, NEW s \in Server, NEW pc \in WatPc,
           NEW slave \in BOOLEAN, NEW masterof \in BOOLEAN, Asked(s, pc, slave, masterof),
           slave => <<s, wat[s].who>> \in edges, masterof => <<wat[s].who, s>> \in edges
    PROVE  wat' \in [Server -> WatState] /\ nodes' \in [Server -> SUBSET Node]
<1>1. wat[s] \in WatState  BY DEF ThreadTypeOK
<1>2. slave \/ masterof => wat[s].who # NoServer  BY ServerAssumption DEF TreeTypeOK
<1> DEFINE next == [wat[s] EXCEPT !.pc = pc, !.is_my_repl_slave = slave,
                                  !.is_my_repl_master = masterof]
<1>3. next \in WatState  BY <1>1, <1>2 DEF WatState, WatLocals
<1>4. wat' = [wat EXCEPT ![s] = next]  BY DEF Asked
<1> HIDE DEF next
<1>5. QED  BY <1>3, <1>4 DEF ThreadTypeOK, MgrTypeOK, Asked

\* nodes_increase returns, and the entry it was called for enters nodes.
LEMMA InsertedType ==
    ASSUME ThreadTypeOK, MgrTypeOK, NEW s \in Server, Inserted(s)
    PROVE  wat' \in [Server -> WatState] /\ nodes' \in [Server -> SUBSET Node]
<1>1. wat' \in [Server -> WatState]  BY WatPcType DEF Inserted, WatPc
<1>2. wat[s].map \in SUBSET Node  BY DEF ThreadTypeOK, WatState, WatLocals
<1>3. {e \in wat[s].map : e.seq = wat[s].cur} \in SUBSET Node  BY <1>2
<1>4. nodes' \in [Server -> SUBSET Node]  BY <1>3 DEF MgrTypeOK, Inserted
<1>5. QED  BY <1>1, <1>4

\* nodes_discrease returns, and the entry it was called for leaves nodes.
LEMMA ErasedType ==
    ASSUME ThreadTypeOK, MgrTypeOK, NEW s \in Server, NEW cur \in Nat, Erased(s, cur)
    PROVE  wat' \in [Server -> WatState] /\ nodes' \in [Server -> SUBSET Node]
<1>1. nodes' \in [Server -> SUBSET Node]  BY DEF MgrTypeOK, Erased
<1> DEFINE next == [wat[s] EXCEPT !.pc = "dec", !.cur = cur]
<1>2. next \in WatState
  <2>1. wat[s] \in WatState  BY DEF ThreadTypeOK
  <2>2. "dec" \in WatPc  BY DEF WatPc
  <2>3. QED  BY <2>1, <2>2 DEF WatState, WatLocals
<1>3. wat' = [wat EXCEPT ![s] = WatIdle] \/ wat' = [wat EXCEPT ![s] = next]
  BY DEF Erased
<1> HIDE DEF next
<1>4. QED  BY <1>1, <1>2, <1>3, IdleType DEF ThreadTypeOK

\* The entry a loop stops at is one of the map it runs over.
LEMMA NextOfType ==
    ASSUME NEW s, NEW from \in SUBSET Node, NEW other
    PROVE  NextOf(s, from, other) \subseteq Node
BY DEF NextOf, Missing

\* nodes_increase is called for a server, or passes over its own.
LEMMA IncreaseKeepsType ==
    ASSUME TypeOK, NEW s \in Server, NodesIncrease(s) PROVE TypeOK'
<1> USE DEF TypeOK
<1>1. PICK e \in NextOf(s, wat[s].map, nodes[s]) :
        \/ /\ nodes' = [nodes EXCEPT ![s] = @ \cup {e}]
           /\ wat' = [wat EXCEPT ![s].cur = e.seq]
        \/ Enter(s, e, "entered_inc") /\ UNCHANGED nodes
  BY DEF NodesIncrease
<1>2. e \in Node
  <2>1. wat[s].map \in SUBSET Node  BY DEF ThreadTypeOK, WatState, WatLocals
  <2>2. QED  BY <1>1, <2>1, NextOfType
<1>3. wat' \in [Server -> WatState] /\ nodes' \in [Server -> SUBSET Node]
  <2>1. CASE /\ nodes' = [nodes EXCEPT ![s] = @ \cup {e}]
             /\ wat' = [wat EXCEPT ![s].cur = e.seq]
    <3>1. nodes' \in [Server -> SUBSET Node]  BY <1>2, <2>1 DEF MgrTypeOK
    <3>2. wat' \in [Server -> WatState]  BY <1>2, <2>1 DEF ThreadTypeOK, WatState, WatLocals, Node
    <3>3. QED  BY <3>1, <3>2
  <2>2. CASE Enter(s, e, "entered_inc") /\ UNCHANGED nodes
    <3>1. "entered_inc" \in WatPc  BY DEF WatPc
    <3>2. QED  BY <1>2, <2>2, <3>1, EnterType DEF MgrTypeOK
  <2>3. QED  BY <1>1, <2>1, <2>2
<1>4. QED
  BY <1>3 DEF ZkTypeOK, TreeTypeOK, WatchTypeOK, MgrTypeOK, ThreadTypeOK, ToldTypeOK, BoundTypeOK,
     NodesIncrease, zkVars, treeVars, watchVars, toldVars, history, boundVars

\* nodes_increase asks who the new server is.
LEMMA IncreaseExistsKeepsType ==
    ASSUME TypeOK, NEW s \in Server, NodesIncrease_Exists(s) PROVE TypeOK'
<1> USE DEF TypeOK
<1>1. PICK slave \in BOOLEAN, masterof \in BOOLEAN :
        /\ Ok(s) \/ Err(s)
        /\ slave => <<s, wat[s].who>> \in edges
        /\ masterof => <<wat[s].who, s>> \in edges
        /\ Asked(s, "increase", slave, masterof)
  BY DEF NodesIncrease_Exists
<1>2. "increase" \in WatPc  BY DEF WatPc
<1>3. wat' \in [Server -> WatState] /\ nodes' \in [Server -> SUBSET Node]
  BY <1>1, <1>2, AskedType
<1>4. errs' \in Nat  BY <1>1, ErrsType
<1>5. QED
  BY <1>3, <1>4 DEF ZkTypeOK, TreeTypeOK, WatchTypeOK, MgrTypeOK, ThreadTypeOK, ToldTypeOK,
     BoundTypeOK, NodesIncrease_Exists, zkVars, treeVars, watchVars, toldVars, history, spared

\* The path of a new znode is a sequence number.
LEMMA KeepPathType ==
    ASSUME ZkTypeOK, MgrTypeOK, NEW s \in Server, KeepPath(s)
    PROVE  my_master_znode_id' \in [Server -> Int]
<1>1. nextSeq \in Int  BY DEF ZkTypeOK
<1>2. QED  BY <1>1 DEF MgrTypeOK, KeepPath

\* A delayed registration, made at last, keeps the types.
LEMMA DelayedType ==
    ASSUME TypeOK, NEW s \in Server, RegisterDelayed(s)
    PROVE  /\ ZkTypeOK' /\ WatchTypeOK' /\ errs' \in Nat
           /\ compeleted_register' \in [Server -> BOOLEAN]
           /\ i_am_master' \in [Server -> BOOLEAN]
           /\ elected' \in [Server -> Nat]
           /\ my_master_znode_id' \in [Server -> Int]
<1> USE DEF TypeOK
<1>1. ZkTypeOK' /\ WatchTypeOK'
  <2>1. CASE CreateMasterZnode(s)  BY <2>1, CreateType
  <2>2. CASE UNCHANGED <<zkVars, watchVars>>
    BY <2>2 DEF ZkTypeOK, WatchTypeOK, zkVars, watchVars
  <2>3. QED  BY <2>1, <2>2 DEF RegisterDelayed
<1>2. errs' \in Nat  BY ErrsType DEF RegisterDelayed, BoundTypeOK
<1>3. compeleted_register' \in [Server -> BOOLEAN] /\ i_am_master' \in [Server -> BOOLEAN]
  BY DEF RegisterDelayed, MgrTypeOK
<1>4. elected' \in [Server -> Nat]  BY DEF RegisterDelayed, ToldTypeOK
<1>5. my_master_znode_id' \in [Server -> Int]
  <2>1. CASE KeepPath(s)  BY <2>1, KeepPathType
  <2>2. CASE UNCHANGED my_master_znode_id  BY <2>2 DEF MgrTypeOK
  <2>3. QED  BY <2>1, <2>2 DEF RegisterDelayed
<1>6. QED  BY <1>1, <1>2, <1>3, <1>4, <1>5

\* nodes_increase under the lock: the slave it inserts is a server.
LEMMA IncreaseLockedKeepsType ==
    ASSUME TypeOK, NEW s \in Server, NodesIncrease_Locked(s) PROVE TypeOK'
<1> USE DEF TypeOK
<1>1. /\ ZkTypeOK' /\ WatchTypeOK' /\ errs' \in Nat
      /\ compeleted_register' \in [Server -> BOOLEAN]
      /\ i_am_master' \in [Server -> BOOLEAN]
      /\ elected' \in [Server -> Nat]
      /\ my_master_znode_id' \in [Server -> Int]
  BY DelayedType DEF NodesIncrease_Locked
<1>2. active_slaves' \in [Server -> SUBSET Server]
  <2>1. CASE wat[s].is_my_repl_slave /\ active_slaves[s] = {}
    <3>1. wat[s].who \in Server  BY <2>1 DEF ThreadTypeOK, WatState, WatLocals
    <3>2. active_slaves' = [active_slaves EXCEPT ![s] = {wat[s].who}]
      BY <2>1 DEF NodesIncrease_Locked
    <3>3. QED  BY <3>1, <3>2 DEF MgrTypeOK
  <2>2. CASE ~(wat[s].is_my_repl_slave /\ active_slaves[s] = {})
    BY <2>2 DEF MgrTypeOK, NodesIncrease_Locked
  <2>3. QED  BY <2>1, <2>2
<1>3. slaveTold' \in [Server -> {"none", "alive", "dead"}]
  BY DEF ToldTypeOK, NodesIncrease_Locked
<1>4. /\ nodes' \in [Server -> SUBSET Node]
      /\ lock' \in [Server -> {"free", "app", "wat"}]
      /\ wat' \in [Server -> WatState]
  <2>1. CASE Inserted(s) /\ UNCHANGED lock  BY <2>1, InsertedType DEF MgrTypeOK
  <2>2. CASE lock' = [lock EXCEPT ![s] = "wat"] /\ wat' = [wat EXCEPT ![s].pc = "again"]
             /\ UNCHANGED nodes
    <3>1. "again" \in WatPc  BY DEF WatPc, LockedWatPc
    <3>2. QED  BY <2>2, <3>1, WatPcType DEF MgrTypeOK
  <2>3. QED  BY <2>1, <2>2 DEF NodesIncrease_Locked
<1>5. QED
  BY <1>1, <1>2, <1>3, <1>4 DEF TreeTypeOK, MgrTypeOK, ThreadTypeOK, ToldTypeOK, BoundTypeOK,
     NodesIncrease_Locked, treeVars, spared

\* nodes_increase registers a slave that had left.
LEMMA AgainKeepsType ==
    ASSUME TypeOK, NEW s \in Server, NodesIncrease_Again(s) PROVE TypeOK'
<1> USE DEF TypeOK
<1>1. ZkTypeOK' /\ WatchTypeOK'
  <2>1. CASE CreateMasterZnode(s)  BY <2>1, CreateType
  <2>2. CASE UNCHANGED <<zkVars, watchVars>>
    BY <2>2 DEF ZkTypeOK, WatchTypeOK, zkVars, watchVars
  <2>3. QED  BY <2>1, <2>2 DEF NodesIncrease_Again, Again
<1>2. errs' \in Nat  BY ErrsType DEF NodesIncrease_Again
<1>3. my_master_znode_id' \in [Server -> Int]
  <2>1. CASE KeepPath(s)  BY <2>1, KeepPathType
  <2>2. CASE UNCHANGED my_master_znode_id  BY <2>2 DEF MgrTypeOK
  <2>3. QED  BY <2>1, <2>2 DEF NodesIncrease_Again, Again
<1>4. wat' \in [Server -> WatState] /\ nodes' \in [Server -> SUBSET Node]
  BY InsertedType DEF NodesIncrease_Again
<1>5. lock' \in [Server -> {"free", "app", "wat"}]  BY DEF MgrTypeOK, NodesIncrease_Again
<1>6. QED
  BY <1>1, <1>2, <1>3, <1>4, <1>5 DEF TreeTypeOK, MgrTypeOK, ThreadTypeOK, ToldTypeOK, BoundTypeOK,
     NodesIncrease_Again, treeVars, toldVars, history, spared

\* A loop of master_watcher_fn stands at a sequence number.
LEMMA CurType == ASSUME ThreadTypeOK, NEW s \in Server PROVE wat[s].cur \in Nat
BY DEF ThreadTypeOK, WatState, WatLocals

\* nodes_discrease is called for a server, or passes over its own.
LEMMA DiscreaseKeepsType ==
    ASSUME TypeOK, NEW s \in Server, NodesDiscrease(s) PROVE TypeOK'
<1> USE DEF TypeOK
<1>1. PICK e \in NextOf(s, nodes[s], wat[s].map) :
        \/ Erased(s, e.seq)
        \/ Enter(s, e, "entered_dec") /\ UNCHANGED nodes
  BY DEF NodesDiscrease
<1>2. e \in Node
  <2>1. nodes[s] \in SUBSET Node  BY DEF MgrTypeOK
  <2>2. QED  BY <1>1, <2>1, NextOfType
<1>3. wat' \in [Server -> WatState] /\ nodes' \in [Server -> SUBSET Node]
  <2>1. CASE Erased(s, e.seq)
    <3>1. e.seq \in Nat  BY <1>2 DEF Node
    <3>2. QED  BY <2>1, <3>1, ErasedType
  <2>2. CASE Enter(s, e, "entered_dec") /\ UNCHANGED nodes
    <3>1. "entered_dec" \in WatPc  BY DEF WatPc
    <3>2. QED  BY <1>2, <2>2, <3>1, EnterType DEF MgrTypeOK
  <2>3. QED  BY <1>1, <2>1, <2>2
<1>4. QED
  BY <1>3 DEF ZkTypeOK, TreeTypeOK, WatchTypeOK, MgrTypeOK, ThreadTypeOK, ToldTypeOK, BoundTypeOK,
     NodesDiscrease, zkVars, treeVars, watchVars, toldVars, history, boundVars

\* nodes_discrease asks who the lost server was.
LEMMA DiscreaseExistsKeepsType ==
    ASSUME TypeOK, NEW s \in Server, NodesDiscrease_Exists(s) PROVE TypeOK'
<1> USE DEF TypeOK
<1>1. \/ \E masterof \in BOOLEAN :
            /\ Ok(s) \/ Drop(s)
            /\ masterof => <<wat[s].who, s>> \in edges
            /\ Asked(s, "decrease", <<s, wat[s].who>> \in edges, masterof)
      \/ Err(s) /\ Erased(s, wat[s].cur)
  BY DEF NodesDiscrease_Exists
<1>2. wat' \in [Server -> WatState] /\ nodes' \in [Server -> SUBSET Node] /\ errs' \in Nat
  <2>1. ASSUME NEW masterof \in BOOLEAN, Ok(s) \/ Drop(s),
               masterof => <<wat[s].who, s>> \in edges,
               Asked(s, "decrease", <<s, wat[s].who>> \in edges, masterof)
        PROVE  wat' \in [Server -> WatState] /\ nodes' \in [Server -> SUBSET Node] /\ errs' \in Nat
    <3>1. "decrease" \in WatPc /\ (<<s, wat[s].who>> \in edges) \in BOOLEAN  BY DEF WatPc
    <3>2. QED  BY <2>1, <3>1, AskedType, ErrsType
  <2>2. CASE Err(s) /\ Erased(s, wat[s].cur)  BY <2>2, CurType, ErasedType, ErrsType
  <2>3. QED  BY <1>1, <2>1, <2>2
<1>3. QED
  BY <1>2 DEF ZkTypeOK, TreeTypeOK, WatchTypeOK, MgrTypeOK, ThreadTypeOK, ToldTypeOK, BoundTypeOK,
     NodesDiscrease_Exists, zkVars, treeVars, watchVars, toldVars, history, spared

\* nodes_discrease under the lock.
LEMMA DiscreaseLockedKeepsType ==
    ASSUME TypeOK, NEW s \in Server, NodesDiscrease_Locked(s) PROVE TypeOK'
<1> USE DEF TypeOK
<1>1. active_slaves' \in [Server -> SUBSET Server]  BY DEF MgrTypeOK, NodesDiscrease_Locked
<1>2. slaveTold' \in [Server -> {"none", "alive", "dead"}]
  BY DEF ToldTypeOK, NodesDiscrease_Locked
<1>3. /\ nodes' \in [Server -> SUBSET Node]
      /\ lock' \in [Server -> {"free", "app", "wat"}]
      /\ wat' \in [Server -> WatState]
  <2>1. CASE Erased(s, wat[s].cur) /\ UNCHANGED lock
    BY <2>1, CurType, ErasedType DEF MgrTypeOK
  <2>2. CASE lock' = [lock EXCEPT ![s] = "wat"] /\ wat' = [wat EXCEPT ![s].pc = "mode"]
             /\ UNCHANGED nodes
    <3>1. "mode" \in WatPc  BY DEF WatPc, LockedWatPc
    <3>2. QED  BY <2>2, <3>1, WatPcType DEF MgrTypeOK
  <2>3. QED  BY <2>1, <2>2 DEF NodesDiscrease_Locked
<1>4. QED
  BY <1>1, <1>2, <1>3 DEF ZkTypeOK, TreeTypeOK, WatchTypeOK, MgrTypeOK, ThreadTypeOK, ToldTypeOK,
     BoundTypeOK, NodesDiscrease_Locked, zkVars, treeVars, watchVars, history, boundVars

\* nodes_discrease reads the mode and takes over, or does not.
LEMMA ModeKeepsType ==
    ASSUME TypeOK, NEW s \in Server, NodesDiscrease_Mode(s) PROVE TypeOK'
<1> USE DEF TypeOK
<1>1. i_am_master' \in [Server -> BOOLEAN]  BY DEF MgrTypeOK, NodesDiscrease_Mode
<1>2. ToldTypeOK'  BY DEF ToldTypeOK, NodesDiscrease_Mode
<1>3. lock' \in [Server -> {"free", "app", "wat"}]  BY DEF MgrTypeOK, NodesDiscrease_Mode
<1>4. wat' \in [Server -> WatState] /\ nodes' \in [Server -> SUBSET Node]
  <2>1. CASE Erased(s, wat[s].cur)  BY <2>1, CurType, ErasedType
  <2>2. CASE wat' = [wat EXCEPT ![s].pc = "delete"] /\ UNCHANGED nodes
    <3>1. "delete" \in WatPc  BY DEF WatPc, LockedWatPc
    <3>2. QED  BY <2>2, <3>1, WatPcType DEF MgrTypeOK
  <2>3. QED  BY <2>1, <2>2 DEF NodesDiscrease_Mode
<1>5. errs' \in Nat  BY ErrsType DEF NodesDiscrease_Mode
<1>6. QED
  BY <1>1, <1>2, <1>3, <1>4, <1>5 DEF ZkTypeOK, TreeTypeOK, WatchTypeOK, MgrTypeOK, ThreadTypeOK,
     BoundTypeOK, NodesDiscrease_Mode, zkVars, treeVars, watchVars, spared

\* nodes_discrease deletes its znode: "delete_by_myself" is no path.
LEMMA DeleteKeepsType ==
    ASSUME TypeOK, NEW s \in Server, NodesDiscrease_Delete(s) PROVE TypeOK'
<1> USE DEF TypeOK
<1>1. ZkTypeOK' /\ WatchTypeOK'
  <2>1. CASE DeleteMasterZnode(wat[s].id)  BY <2>1, DeleteType
  <2>2. CASE UNCHANGED <<zkVars, watchVars>>
    BY <2>2 DEF ZkTypeOK, WatchTypeOK, zkVars, watchVars
  <2>3. QED  BY <2>1, <2>2 DEF NodesDiscrease_Delete
<1>2. errs' \in Nat  BY ErrsType DEF NodesDiscrease_Delete
<1>3. my_master_znode_id' \in [Server -> Int]
  BY DEF MgrTypeOK, NodesDiscrease_Delete, DeleteByMyself
<1>4. lock' \in [Server -> {"free", "app", "wat"}]  BY DEF MgrTypeOK, NodesDiscrease_Delete
<1>5. wat' \in [Server -> WatState] /\ nodes' \in [Server -> SUBSET Node]
  <2>1. CASE Erased(s, wat[s].cur)  BY <2>1, CurType, ErasedType
  <2>2. CASE wat' = [wat EXCEPT ![s].tries = @ + 1] /\ UNCHANGED nodes
    <3>1. wat' \in [Server -> WatState]  BY <2>2 DEF ThreadTypeOK, WatState, WatLocals
    <3>2. QED  BY <2>2, <3>1 DEF MgrTypeOK
  <2>3. QED  BY <2>1, <2>2 DEF NodesDiscrease_Delete
<1>6. QED
  BY <1>1, <1>2, <1>3, <1>4, <1>5 DEF TreeTypeOK, MgrTypeOK, ThreadTypeOK, ToldTypeOK, BoundTypeOK,
     NodesDiscrease_Delete, treeVars, toldVars, history, spared

-----------------------------------------------------------------------------
(* The subtree /replication                                                 *)

\* start_repl and rm_repl keep the types,
LEMMA EdgeKeepsType ==
    ASSUME TypeOK, NEW s \in Server, NEW m \in Server, StartRepl(s, m) \/ RmRepl(s, m)
    PROVE  TypeOK'
<1> USE DEF TypeOK
<1>1. edges' \subseteq Server \X Server  BY DEF TreeTypeOK, StartRepl, RmRepl
<1>2. WatchTypeOK'
  <2>1. CASE FireReplWatch(m)  BY <2>1, FireReplType
  <2>2. CASE UNCHANGED watchVars  BY <2>2 DEF WatchTypeOK, watchVars
  <2>3. QED  BY <2>1, <2>2 DEF StartRepl, RmRepl
<1>3. errs' \in Nat  BY ErrsType DEF StartRepl, RmRepl
<1>4. admin' \in Nat  BY DEF BoundTypeOK, Request, StartRepl, RmRepl
<1>5. UNCHANGED <<adminRest, mode, active_slaves>>  BY DEF StartRepl, RmRepl
<1>6. QED
  BY <1>1, <1>2, <1>3, <1>4, <1>5 DEF ZkTypeOK, TreeTypeOK, MgrTypeOK, ThreadTypeOK, ToldTypeOK,
     BoundTypeOK, adminRest, pointRest, zkVars, toldVars, history

\* as do change_repl_mode
LEMMA ChangeKeepsType ==
    ASSUME TypeOK, NEW s \in Server, ChangeReplMode(s) PROVE TypeOK'
<1> USE DEF TypeOK
<1>1. mode' \in [Server -> Mode]
  <2>1. PICK m \in {"sync", "async"} : mode' \in {mode, [mode EXCEPT ![s] = m]}
    BY DEF ChangeReplMode
  <2>2. m \in Mode  BY DEF Mode
  <2>3. QED  BY <2>1, <2>2 DEF TreeTypeOK
<1>2. errs' \in Nat  BY ErrsType DEF ChangeReplMode
<1>3. admin' \in Nat  BY DEF BoundTypeOK, Request, ChangeReplMode
<1>4. QED
  BY <1>1, <1>2, <1>3 DEF ZkTypeOK, TreeTypeOK, WatchTypeOK, MgrTypeOK, ThreadTypeOK, ToldTypeOK,
     BoundTypeOK, ChangeReplMode, adminRest, pointRest, zkVars, watchVars, toldVars, history

\* and get_syncpoint, which lists the slaves
LEMMA SyncpointKeepsType ==
    ASSUME TypeOK, NEW s \in Server, GetSyncpoint(s) PROVE TypeOK'
<1> USE DEF TypeOK
<1>1. app' \in [Server -> AppState]
  <2>1. PICK slaves \in {{t \in Server : <<s, t>> \in edges}} :
          app' = [app EXCEPT ![s] = [AppIdle EXCEPT !.pc = "points", !.slaves = slaves]]
    BY DEF GetSyncpoint
  <2> DEFINE next == [AppIdle EXCEPT !.pc = "points", !.slaves = slaves]
  <2>2. slaves \subseteq Server  BY <2>1
  <2>3. next \in AppState  BY <2>2, IdleType DEF AppState, AppPc
  <2> HIDE DEF next
  <2>4. QED  BY <2>1, <2>3 DEF next, ThreadTypeOK
<1>2. errs' \in Nat  BY ErrsType DEF GetSyncpoint
<1>3. admin' \in Nat  BY DEF BoundTypeOK, Request, GetSyncpoint
<1>4. QED
  BY <1>1, <1>2, <1>3 DEF ZkTypeOK, TreeTypeOK, WatchTypeOK, MgrTypeOK, ThreadTypeOK, ToldTypeOK,
     BoundTypeOK, GetSyncpoint, pointRest, zkVars, treeVars, watchVars, toldVars, history

\* and takes each for active.
LEMMA PointKeepsType ==
    ASSUME TypeOK, NEW s \in Server, GetSyncpoint_Read(s) PROVE TypeOK'
<1> USE DEF TypeOK
<1>1. app[s] \in AppState /\ AppIdle \in AppState  BY IdleType DEF ThreadTypeOK
<1>2. PICK t \in app[s].slaves :
        /\ active_slaves' = [active_slaves EXCEPT ![s] = @ \cup {t}]
        /\ app' = [app EXCEPT ![s] = IF app[s].slaves = {t} THEN AppIdle
                                     ELSE [app[s] EXCEPT !.slaves = app[s].slaves \ {t}]]
  BY DEF GetSyncpoint_Read
<1>3. t \in Server  BY <1>1, <1>2 DEF AppState
<1>4. [app[s] EXCEPT !.slaves = app[s].slaves \ {t}] \in AppState  BY <1>1 DEF AppState
<1>5. app' \in [Server -> AppState]  BY <1>1, <1>2, <1>4 DEF ThreadTypeOK
<1>6. active_slaves' \in [Server -> SUBSET Server]  BY <1>2, <1>3 DEF MgrTypeOK
<1>7. QED
  BY <1>5, <1>6 DEF ZkTypeOK, TreeTypeOK, WatchTypeOK, MgrTypeOK, ThreadTypeOK, ToldTypeOK,
     BoundTypeOK, GetSyncpoint_Read, pointRest, zkVars, treeVars, watchVars, toldVars, history

\* repl_watcher_fn lists the slaves.
LEMMA ReplListKeepsType ==
    ASSUME TypeOK, NEW s \in Server, ReplWatcher_List(s) PROVE TypeOK'
<1> USE DEF TypeOK
<1>1. WatchTypeOK'
  <2>1. queue' \in [Server -> Seq(Event)]  BY QueueType DEF WatchTypeOK, ReplWatcher_List
  <2>2. QED  BY <2>1 DEF WatchTypeOK, ReplWatcher_List
<1>2. wat' \in [Server -> WatState]
  <2> DEFINE listed == [WatIdle EXCEPT !.pc = "repl", !.set = {t \in Server : <<s, t>> \in edges}]
  <2>1. listed \in WatState  BY IdleType DEF WatState, WatLocals, WatPc
  <2>2. wat' = [wat EXCEPT ![s] = listed] \/ UNCHANGED wat  BY DEF ReplWatcher_List
  <2> HIDE DEF listed
  <2>3. QED  BY <2>1, <2>2 DEF ThreadTypeOK
<1>3. errs' \in Nat  BY ErrsType DEF ReplWatcher_List
<1>4. QED
  BY <1>1, <1>2, <1>3 DEF ZkTypeOK, TreeTypeOK, MgrTypeOK, ThreadTypeOK, ToldTypeOK, BoundTypeOK,
     ReplWatcher_List, zkVars, treeVars, mgrVars, toldVars, history, spared

\* repl_watcher_fn brings active_slaves up to date.
LEMMA DiffKeepsType ==
    ASSUME TypeOK, NEW s \in Server, ReplWatcher_Diff(s) PROVE TypeOK'
<1> USE DEF TypeOK
<1>1. wat[s].set \subseteq Server  BY DEF ThreadTypeOK, WatState, WatLocals
<1>2. active_slaves' \in [Server -> SUBSET Server]  BY <1>1 DEF MgrTypeOK, ReplWatcher_Diff
<1>3. slaveTold' \in [Server -> {"none", "alive", "dead"}]  BY DEF ToldTypeOK, ReplWatcher_Diff
<1>4. wat' \in [Server -> WatState]  BY IdleType DEF ThreadTypeOK, ReplWatcher_Diff
<1>5. QED
  BY <1>2, <1>3, <1>4 DEF ZkTypeOK, TreeTypeOK, WatchTypeOK, MgrTypeOK, ThreadTypeOK, ToldTypeOK,
     BoundTypeOK, ReplWatcher_Diff, zkVars, treeVars, watchVars, history, boundVars

-----------------------------------------------------------------------------
(* Type correctness                                                         *)

\* The first state is of the types.
LEMMA InitType == Init => TypeOK
<1> SUFFICES ASSUME Init PROVE TypeOK
  OBVIOUS
<1>1. ZkTypeOK  BY DEF Init, ZkTypeOK
<1>2. TreeTypeOK  BY ConfigAssumption DEF Init, TreeTypeOK
<1>3. WatchTypeOK  BY DEF Init, WatchTypeOK
<1>4. MgrTypeOK  BY DEF Init, MgrTypeOK, NoZnode
<1>5. ThreadTypeOK  BY IdleType DEF Init, ThreadTypeOK
<1>6. ToldTypeOK /\ BoundTypeOK  BY DEF Init, ToldTypeOK, BoundTypeOK
<1>7. QED  BY <1>1, <1>2, <1>3, <1>4, <1>5, <1>6 DEF TypeOK

\* A step that changes nothing keeps the types.
LEMMA StutterKeepsType == ASSUME TypeOK, UNCHANGED vars PROVE TypeOK'
BY DEF TypeOK, ZkTypeOK, TreeTypeOK, WatchTypeOK, MgrTypeOK, ThreadTypeOK, ToldTypeOK, BoundTypeOK,
   vars, zkVars, treeVars, watchVars, mgrVars, toldVars, history, boundVars

\* Every step of the cluster keeps the types.
LEMMA NextKeepsType == ASSUME TypeOK, Next PROVE TypeOK'
<1>1. ASSUME NEW s \in Server, AppThread(s) PROVE TypeOK'
  BY <1>1, CountKeepsType, CreateKeepsType, ListKeepsType, FetchKeepsType, FirstKeepsType,
     TellKeepsType, DoneKeepsType, PointKeepsType DEF AppThread, RegisterServer_Step
<1>2. ASSUME NEW s \in Server, CompletionThread(s) PROVE TypeOK'
  <2>1. CASE MasterWatcher_Step(s)
    BY <2>1, WatListKeepsType, WatFetchKeepsType, EndKeepsType, IncreaseKeepsType,
       IncreaseExistsKeepsType, IncreaseLockedKeepsType, AgainKeepsType, DiscreaseKeepsType,
       DiscreaseExistsKeepsType, DiscreaseLockedKeepsType, ModeKeepsType, DeleteKeepsType
    DEF MasterWatcher_Step
  <2>2. CASE SessionExpired(s) \/ ReplWatcher_Step(s)
    BY <2>2, ExpiredKeepsType, ReplListKeepsType, DiffKeepsType DEF ReplWatcher_Step
  <2>3. QED  BY <1>2, <2>1, <2>2 DEF CompletionThread
<1>3. ASSUME NEW s \in Server, Application(s) PROVE TypeOK'
  BY <1>3, ConnectKeepsType, ReplicationKeepsType, CloseKeepsType, ChangeKeepsType,
     SyncpointKeepsType, EdgeKeepsType DEF Application
<1>4. ASSUME NEW s \in Server, Crash(s) PROVE TypeOK'  BY <1>4, CrashKeepsType
<1>5. ASSUME NEW k \in sessions, SessionTimeout(k) PROVE TypeOK'  BY <1>5, TimeoutKeepsType
<1>6. QED  BY <1>1, <1>2, <1>3, <1>4, <1>5 DEF Next

\* No step of the cluster leaves the types: every queue holds events only, every
\* nodes map holds uuids of servers, and a nodes_* function that has found its slave or
\* its master knows which server that is.
THEOREM TypeCorrect == Spec => []TypeOK
<1>1. Init => TypeOK  BY InitType
<1>2. TypeOK /\ [Next]_vars => TypeOK'  BY NextKeepsType, StutterKeepsType
<1>3. QED  BY <1>1, <1>2, PTL DEF Spec
=============================================================================
