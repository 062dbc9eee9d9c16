---------------------------- MODULE ManagerProofs ----------------------------
(***************************************************************************)
(* The two threads of a manager and its znode below /master.  The first    *)
(* part says, once for each action, what it does to its own manager when   *)
(* no call is lost, and that it does nothing to another; what is proved of *)
(* managers elsewhere needs no other fact about the actions.  The last is  *)
(* about the lock, and holds when calls are lost as well.                  *)
(***************************************************************************)
EXTENDS ElectionProofs

-----------------------------------------------------------------------------
(* What an action does to the manager that takes it                         *)

\* The completion thread goes on to its next call, or is at rest.
WatGoes(s, pc) ==
    /\ wat'[s].pc = pc
    /\ wat'[s].kids = wat[s].kids /\ wat'[s].map = wat[s].map
    /\ wat'[s].cur = wat[s].cur /\ wat'[s].who = wat[s].who /\ wat'[s].id = wat[s].id
WatRests(s) == wat'[s] = WatIdle

\* An entry has left the nodes map, or has entered it.
Erases(s) ==
    /\ nodes'[s] \subseteq nodes[s]
    /\ WatRests(s) \/ (/\ wat'[s].pc = "dec"
                       /\ wat'[s].kids = wat[s].kids /\ wat'[s].map = wat[s].map)
Inserts(s) ==
    /\ nodes'[s] \subseteq nodes[s] \cup wat[s].map
    /\ wat'[s].pc = "inc" /\ wat'[s].kids = wat[s].kids /\ wat'[s].map = wat[s].map

\* A nodes_* function begins, with a copy of the path.
Enters(s, pc) ==
    /\ wat'[s].pc = pc /\ wat'[s].kids = {} /\ wat'[s].map = wat[s].map
    /\ wat'[s].id = my_master_znode_id[s] /\ UNCHANGED nodes

\* The application thread is at rest.
AppRests(s) == app'[s] = AppIdle

\* What the completion thread leaves alone when it asks nothing of the service.
ownRest == <<zkVars, watchVars, handler, compeleted_register, my_master_znode_id, app, withdrew>>

LEMMA ErasedErases ==
    ASSUME TypeOK, NEW s \in Server, NEW cur \in Nat, Erased(s, cur)
    PROVE  Erases(s)
<1>1. nodes'[s] \subseteq nodes[s]  BY DEF TypeOK, MgrTypeOK, Erased
<1>2. wat[s] \in WatLocals  BY DEF TypeOK, ThreadTypeOK, WatState
<1>3. WatRests(s) \/ wat'[s] = [wat[s] EXCEPT !.pc = "dec", !.cur = cur]
  BY DEF TypeOK, ThreadTypeOK, Erased, WatRests
<1>4. QED  BY <1>1, <1>2, <1>3 DEF Erases, WatLocals

LEMMA InsertedInserts == ASSUME TypeOK, NEW s \in Server, Inserted(s) PROVE Inserts(s)
<1>1. nodes'[s] \subseteq nodes[s] \cup wat[s].map  BY DEF TypeOK, MgrTypeOK, Inserted
<1>2. wat[s] \in WatLocals  BY DEF TypeOK, ThreadTypeOK, WatState
<1>3. wat'[s] = [wat[s] EXCEPT !.pc = "inc"]  BY DEF TypeOK, ThreadTypeOK, Inserted
<1>4. QED  BY <1>1, <1>2, <1>3 DEF Inserts, WatLocals

LEMMA PcGoes ==
    ASSUME TypeOK, NEW s \in Server, NEW pc, wat' = [wat EXCEPT ![s].pc = pc]
    PROVE  WatGoes(s, pc)
<1>1. wat[s] \in WatLocals  BY DEF TypeOK, ThreadTypeOK, WatState
<1>2. wat'[s] = [wat[s] EXCEPT !.pc = pc]  BY DEF TypeOK, ThreadTypeOK
<1>3. QED  BY <1>1, <1>2 DEF WatGoes, WatLocals

LEMMA AskedGoes ==
    ASSUME TypeOK, NEW s \in Server, NEW pc, NEW b, NEW c, Asked(s, pc, b, c)
    PROVE  WatGoes(s, pc) /\ UNCHANGED nodes
<1>1. wat[s] \in WatLocals  BY DEF TypeOK, ThreadTypeOK, WatState
<1>2. wat'[s] = [wat[s] EXCEPT !.pc = pc, !.is_my_repl_slave = b, !.is_my_repl_master = c]
  BY DEF TypeOK, ThreadTypeOK, Asked
<1>3. WatGoes(s, pc)  BY <1>1, <1>2 DEF WatGoes, WatLocals
<1>4. QED  BY <1>3 DEF Asked

\* A call that is not lost is answered, as long as the session lives.
LEMMA NoneLost ==
    ASSUME TypeOK, NEW s \in Server, UNCHANGED errs
    PROVE  ~Drop(s) /\ (Alive(s) => ~Err(s))
BY DEF TypeOK, BoundTypeOK, Drop, Err

-----------------------------------------------------------------------------
(* The application thread                                                   *)

LEMMA ReplicationMoves ==
    ASSUME TypeOK, NEW s \in Server, RegisterServer_Replication(s), UNCHANGED errs
    PROVE  /\ ~compeleted_register[s] /\ app[s].pc = "idle"
           /\ app'[s].kids = {} /\ app'[s].delay \in Delays[s]
           /\ app'[s].pc = IF app'[s].delay THEN "count" ELSE "create"
           /\ UNCHANGED <<zkVars, masterWatch, queue, handler, i_am_master, compeleted_register,
                          my_master_znode_id, nodes, wat, withdrew>>
<1>1. Registering(s)  BY NoneLost DEF RegisterServer_Replication
<1>2. PICK delay \in Delays[s] :
        app' = [app EXCEPT ![s] = [AppIdle EXCEPT !.pc = IF delay THEN "count" ELSE "create",
                                                  !.delay = delay]]
  BY <1>1 DEF Registering
<1>3. app'[s] = [AppIdle EXCEPT !.pc = IF delay THEN "count" ELSE "create", !.delay = delay]
  BY <1>2 DEF TypeOK, ThreadTypeOK
<1>4. /\ app'[s].kids = {} /\ app'[s].delay = delay
      /\ app'[s].pc = IF delay THEN "count" ELSE "create"
  BY <1>3 DEF AppIdle
<1>5. QED  BY <1>4 DEF RegisterServer_Replication, history

LEMMA CountMoves ==
    ASSUME TypeOK, NEW s \in Server, RegisterServer_Count(s)
    PROVE  /\ app[s].pc = "count" /\ app'[s].pc \in {"list", "create"}
           /\ app'[s].kids = app[s].kids
           /\ \/ app'[s].pc = "list" /\ my_master_znode_id'[s] = DelayRegister
              \/ app'[s].pc = "create" /\ my_master_znode_id'[s] = my_master_znode_id[s]
           /\ UNCHANGED <<zkVars, watchVars, handler, i_am_master, compeleted_register, nodes, wat,
                          withdrew>>
<1>1. PICK delay \in BOOLEAN :
        /\ app' = [app EXCEPT ![s] = [@ EXCEPT !.delay = delay,
                                              !.pc = IF delay THEN "list" ELSE "create"]]
        /\ my_master_znode_id' =
              [my_master_znode_id EXCEPT ![s] = IF delay THEN DelayRegister ELSE @]
  BY DEF RegisterServer_Count
<1>2. app[s] \in AppState  BY DEF TypeOK, ThreadTypeOK
<1>3. app'[s] = [app[s] EXCEPT !.delay = delay, !.pc = IF delay THEN "list" ELSE "create"]
  BY <1>1 DEF TypeOK, ThreadTypeOK
<1>4. app'[s].pc = IF delay THEN "list" ELSE "create"  BY <1>2, <1>3 DEF AppState
<1>5. app'[s].kids = app[s].kids  BY <1>2, <1>3 DEF AppState
<1>6. my_master_znode_id'[s] = IF delay THEN DelayRegister ELSE my_master_znode_id[s]
  BY <1>1 DEF TypeOK, MgrTypeOK
<1>7. QED  BY <1>4, <1>5, <1>6 DEF RegisterServer_Count, history

\* The application thread of register_server goes on.
AppGoes(s, pc) ==
    /\ app'[s].pc = pc /\ app'[s].kids = app[s].kids
    /\ app'[s].delay = app[s].delay /\ app'[s].first = app[s].first

LEMMA GotoGoes == ASSUME TypeOK, NEW s \in Server, NEW pc, Goto(s, pc) PROVE AppGoes(s, pc)
<1>1. app[s] \in AppState  BY DEF TypeOK, ThreadTypeOK
<1>2. app'[s] = [app[s] EXCEPT !.pc = pc]  BY DEF TypeOK, ThreadTypeOK, Goto
<1>3. QED  BY <1>1, <1>2 DEF AppGoes, AppState

LEMMA ReturnRests == ASSUME TypeOK, NEW s \in Server, Return(s) PROVE AppRests(s)
BY DEF TypeOK, ThreadTypeOK, Return, AppRests

LEMMA CreateMoves ==
    ASSUME TypeOK, NEW s \in Server, RegisterServer_Create(s), Alive(s), UNCHANGED errs
    PROVE  /\ app[s].pc = "create" /\ AppGoes(s, "list") /\ CreateMasterZnode(s)
           /\ compeleted_register'[s] = TRUE /\ my_master_znode_id'[s] = nextSeq
           /\ UNCHANGED <<handler, i_am_master, nodes, wat, withdrew>>
<1>1. /\ CreateMasterZnode(s) /\ KeepPath(s) /\ Goto(s, "list")
      /\ compeleted_register' = [compeleted_register EXCEPT ![s] = TRUE]
  BY NoneLost DEF RegisterServer_Create
<1>2. AppGoes(s, "list")  BY <1>1, GotoGoes
<1>3. compeleted_register'[s] = TRUE /\ my_master_znode_id'[s] = nextSeq
  BY <1>1 DEF TypeOK, MgrTypeOK, KeepPath
<1>4. QED  BY <1>1, <1>2, <1>3 DEF RegisterServer_Create, history

LEMMA ListMoves ==
    ASSUME TypeOK, NEW s \in Server, RegisterServer_List(s), Alive(s), UNCHANGED errs
    PROVE  /\ app[s].pc = "list" /\ nodes'[s] = {} /\ s \in masterWatch'
           /\ \/ AppRests(s)
              \/ app'[s].pc = "fetch" /\ app'[s].kids = Seqs(master)
                 /\ app'[s].delay = app[s].delay
           /\ UNCHANGED <<zkVars, queue, handler, i_am_master, compeleted_register,
                          my_master_znode_id, wat, withdrew>>
<1>1. WatchMaster(s)  BY NoneLost DEF RegisterServer_List
<1>2. nodes'[s] = {}  BY DEF TypeOK, MgrTypeOK, RegisterServer_List
<1>3. \/ AppRests(s)
      \/ app'[s].pc = "fetch" /\ app'[s].kids = Seqs(master) /\ app'[s].delay = app[s].delay
  <2>1. CASE Return(s)  BY <2>1, ReturnRests
  <2>2. ASSUME NEW first \in Seqs(master),
               app' = [app EXCEPT ![s] = [@ EXCEPT !.pc = "fetch", !.kids = Seqs(master),
                                                  !.first = first]]
        PROVE  app'[s].pc = "fetch" /\ app'[s].kids = Seqs(master) /\ app'[s].delay = app[s].delay
    <3>1. app[s] \in AppState  BY DEF TypeOK, ThreadTypeOK
    <3>2. app'[s] = [app[s] EXCEPT !.pc = "fetch", !.kids = Seqs(master), !.first = first]
      BY <2>2 DEF TypeOK, ThreadTypeOK
    <3>3. QED  BY <3>1, <3>2 DEF AppState
  <2>3. QED  BY <2>1, <2>2, NoneLost DEF RegisterServer_List
<1>4. QED  BY <1>1, <1>2, <1>3 DEF RegisterServer_List, WatchMaster, history

LEMMA FetchMoves ==
    ASSUME TypeOK, NEW s \in Server, RegisterServer_Fetch(s)
    PROVE  /\ app[s].pc = "fetch" /\ app'[s].pc \in {"fetch", "first"}
           /\ app'[s].kids \subseteq app[s].kids /\ app'[s].delay = app[s].delay
           /\ \E q \in app[s].kids : nodes'[s] \subseteq nodes[s] \cup Found(q)
           /\ i_am_master'[s] => i_am_master[s]
           /\ UNCHANGED <<zkVars, watchVars, handler, compeleted_register, my_master_znode_id, wat,
                          withdrew>>
<1>1. PICK q \in app[s].kids :
        /\ nodes' = [nodes EXCEPT ![s] = @ \cup Found(q)] \/ UNCHANGED nodes
        /\ \/ /\ app' = [app EXCEPT ![s] = [app[s] EXCEPT !.kids = app[s].kids \ {q}]]
              /\ UNCHANGED i_am_master
           \/ /\ app' = [app EXCEPT ![s] = [app[s] EXCEPT !.kids = {}, !.pc = "first"]]
              /\ i_am_master' = [i_am_master EXCEPT ![s] = FALSE]
  BY DEF RegisterServer_Fetch
<1>2. nodes'[s] \subseteq nodes[s] \cup Found(q)  BY <1>1 DEF TypeOK, MgrTypeOK
<1>3. i_am_master'[s] => i_am_master[s]  BY <1>1 DEF TypeOK, MgrTypeOK
<1>4. app[s] \in AppState  BY DEF TypeOK, ThreadTypeOK
<1>5. \/ app'[s] = [app[s] EXCEPT !.kids = app[s].kids \ {q}]
      \/ app'[s] = [app[s] EXCEPT !.kids = {}, !.pc = "first"]
  BY <1>1 DEF TypeOK, ThreadTypeOK
<1>6. app[s].pc = "fetch"  BY DEF RegisterServer_Fetch
<1>7. /\ app'[s].pc \in {"fetch", "first"} /\ app'[s].kids \subseteq app[s].kids
      /\ app'[s].delay = app[s].delay
  BY <1>4, <1>5, <1>6 DEF AppState
<1>8. QED  BY <1>1, <1>2, <1>3, <1>6, <1>7 DEF RegisterServer_Fetch

LEMMA FirstMovesOn ==
    ASSUME TypeOK, NEW s \in Server, RegisterServer_First(s)
    PROVE  /\ app[s].pc = "first" /\ (AppRests(s) \/ AppGoes(s, "tell"))
           /\ \/ i_am_master'[s] = i_am_master[s]
              \/ \E z \in master : z.seq = app[s].first /\ z.uuid = s
           /\ UNCHANGED <<zkVars, watchVars, handler, compeleted_register, my_master_znode_id,
                          nodes, wat, withdrew>>
<1>1. AppRests(s) \/ AppGoes(s, "tell")  BY ReturnRests, GotoGoes DEF RegisterServer_First
<1>2. \/ i_am_master'[s] = i_am_master[s]
      \/ \E z \in master : z.seq = app[s].first /\ z.uuid = s
  BY DEF RegisterServer_First
<1>3. QED  BY <1>1, <1>2 DEF RegisterServer_First

LEMMA TellMoves ==
    ASSUME TypeOK, NEW s \in Server, RegisterServer_Tell(s)
    PROVE  /\ app[s].pc = "tell" /\ AppRests(s)
           /\ UNCHANGED <<zkVars, watchVars, handler, i_am_master, compeleted_register,
                          my_master_znode_id, nodes, wat, withdrew>>
BY ReturnRests DEF RegisterServer_Tell, history

-----------------------------------------------------------------------------
(* The completion thread                                                    *)

\* What the thread leaves alone when it takes an event or a step of its own.
LEMMA RestMoves ==
    ASSUME TypeOK, NEW s \in Server, SessionExpired(s) \/ ReplWatcher_Step(s)
    PROVE  /\ wat[s].pc = "idle" \/ wat[s].pc = "repl"
           /\ \/ wat'[s] = wat[s]
              \/ wat'[s].pc \in {"idle", "repl"} /\ wat'[s].kids = {} /\ wat'[s].map = {}
           /\ UNCHANGED <<zkVars, masterWatch, handler, i_am_master, compeleted_register,
                          my_master_znode_id, nodes, app, withdrew>>
<1>1. CASE SessionExpired(s)
  BY <1>1 DEF SessionExpired, Take, mgrVars, history
<1>2. CASE ReplWatcher_List(s)
  <2>1. \/ UNCHANGED wat
        \/ wat' = [wat EXCEPT ![s] = [WatIdle EXCEPT !.pc = "repl",
                                           !.set = {t \in Server : <<s, t>> \in edges}]]
    BY <1>2 DEF ReplWatcher_List
  <2>2. \/ wat'[s] = wat[s]
        \/ wat'[s] = [WatIdle EXCEPT !.pc = "repl", !.set = {t \in Server : <<s, t>> \in edges}]
    BY <2>1 DEF TypeOK, ThreadTypeOK
  <2>3. \/ wat'[s] = wat[s]
        \/ wat'[s].pc = "repl" /\ wat'[s].kids = {} /\ wat'[s].map = {}
    BY <2>2 DEF WatIdle
  <2>4. QED  BY <1>2, <2>3 DEF ReplWatcher_List, mgrVars, history
<1>3. CASE ReplWatcher_Diff(s)
  <2>1. wat'[s] = WatIdle  BY <1>3 DEF ReplWatcher_Diff, TypeOK, ThreadTypeOK
  <2>2. wat'[s].pc = "idle" /\ wat'[s].kids = {} /\ wat'[s].map = {}  BY <2>1 DEF WatIdle
  <2>3. QED  BY <1>3, <2>2 DEF ReplWatcher_Diff, watchVars, history
<1>4. QED  BY <1>1, <1>2, <1>3 DEF ReplWatcher_Step

LEMMA WatListMoves ==
    ASSUME TypeOK, NEW s \in Server, MasterWatcher_List(s), Alive(s), UNCHANGED errs
    PROVE  /\ Take(s, "master") /\ s \in masterWatch'
           /\ wat'[s].pc = "fetch" /\ wat'[s].kids = {NodeOf(z) : z \in master}
           /\ wat'[s].map = {}
           /\ UNCHANGED <<zkVars, handler, i_am_master, compeleted_register, my_master_znode_id,
                          nodes, app, withdrew>>
<1>1. /\ Take(s, "master") /\ masterWatch' = masterWatch \cup {s}
      /\ wat' = [wat EXCEPT ![s] = [WatIdle EXCEPT !.pc = "fetch",
                                                  !.kids = {NodeOf(z) : z \in master}]]
  BY NoneLost DEF MasterWatcher_List
<1>2. wat'[s] = [WatIdle EXCEPT !.pc = "fetch", !.kids = {NodeOf(z) : z \in master}]
  BY <1>1 DEF TypeOK, ThreadTypeOK
<1>3. wat'[s].pc = "fetch" /\ wat'[s].kids = {NodeOf(z) : z \in master} /\ wat'[s].map = {}
  BY <1>2 DEF WatIdle
<1>4. QED  BY <1>1, <1>3 DEF MasterWatcher_List, mgrVars, history

\* Every znode that was listed and is still there is in my_map.
LEMMA WatFetchMoves ==
    ASSUME TypeOK, NEW s \in Server, MasterWatcher_Fetch(s), Alive(s), UNCHANGED errs
    PROVE  /\ wat[s].pc = "fetch"
           /\ \/ WatRests(s)
              \/ /\ wat'[s].pc \in {"inc", "dec"} /\ wat'[s].kids = {}
                 /\ wat'[s].map \subseteq wat[s].kids
                 /\ Seqs(wat[s].kids) \cap Seqs(master) \subseteq Seqs(wat'[s].map)
           /\ UNCHANGED ownRest /\ UNCHANGED <<i_am_master, nodes>>
<1>1. PICK map \in SUBSET wat[s].kids :
        /\ Read(s, wat[s].kids, map)
        /\ LET way == Direction(map, nodes[s])
           IN  wat' = [wat EXCEPT ![s] = IF way = "idle" THEN WatIdle
                                         ELSE [WatIdle EXCEPT !.pc = way, !.map = map]]
  BY DEF MasterWatcher_Fetch
<1>2. Seqs(wat[s].kids) \cap Seqs(master) \subseteq Seqs(map)
  BY <1>1, NoneLost DEF Read, Seqs
<1>3. Direction(map, nodes[s]) \in {"inc", "dec", "idle"}  BY DEF Direction
<1>4. \/ WatRests(s)
      \/ /\ wat'[s] = [WatIdle EXCEPT !.pc = Direction(map, nodes[s]), !.map = map]
         /\ Direction(map, nodes[s]) \in {"inc", "dec"}
  BY <1>1, <1>3 DEF TypeOK, ThreadTypeOK, WatRests
<1>5. \/ WatRests(s)
      \/ wat'[s].pc \in {"inc", "dec"} /\ wat'[s].kids = {} /\ wat'[s].map = map
  BY <1>4 DEF WatIdle
<1>6. QED
  BY <1>2, <1>5 DEF MasterWatcher_Fetch, ownRest, mgrVars, history, treeVars, toldVars, spared

LEMMA EndMoves ==
    ASSUME TypeOK, NEW s \in Server, MasterWatcher_End(s)
    PROVE  wat[s].pc \in {"inc", "dec"} /\ WatRests(s) /\ UNCHANGED ownRest
           /\ UNCHANGED <<i_am_master, nodes>>
BY DEF MasterWatcher_End, TypeOK, ThreadTypeOK, WatRests, ownRest, mgrVars, history

LEMMA EnterEnters ==
    ASSUME TypeOK, NEW s \in Server, NEW e, NEW pc, Enter(s, e, pc), UNCHANGED nodes
    PROVE  Enters(s, pc) /\ wat'[s].cur = e.seq /\ wat'[s].who = e.uuid
<1>1. wat'[s] = [pc |-> pc, kids |-> {}, map |-> wat[s].map, set |-> {}, cur |-> e.seq,
                 who |-> e.uuid, i_am_master |-> i_am_master[s], id |-> my_master_znode_id[s],
                 is_my_repl_master |-> FALSE, is_my_repl_slave |-> FALSE, tries |-> 0]
  BY DEF TypeOK, ThreadTypeOK, Enter
<1>2. QED  BY <1>1 DEF Enters

LEMMA IncreaseMoves ==
    ASSUME TypeOK, NEW s \in Server, NodesIncrease(s)
    PROVE  /\ wat[s].pc = "inc" /\ (Inserts(s) \/ Enters(s, "entered_inc"))
           /\ UNCHANGED ownRest /\ UNCHANGED i_am_master
<1>1. PICK e \in NextOf(s, wat[s].map, nodes[s]) :
        \/ /\ nodes' = [nodes EXCEPT ![s] = @ \cup {e}]
           /\ wat' = [wat EXCEPT ![s].cur = e.seq]
        \/ Enter(s, e, "entered_inc") /\ UNCHANGED nodes
  BY DEF NodesIncrease
<1>2. wat[s].pc = "inc"  BY DEF NodesIncrease
<1>3. CASE /\ nodes' = [nodes EXCEPT ![s] = @ \cup {e}]
           /\ wat' = [wat EXCEPT ![s].cur = e.seq]
  <2>1. nodes'[s] \subseteq nodes[s] \cup wat[s].map
    BY <1>3 DEF TypeOK, MgrTypeOK, NextOf, Missing
  <2>2. wat[s] \in WatLocals  BY DEF TypeOK, ThreadTypeOK, WatState
  <2>3. wat'[s] = [wat[s] EXCEPT !.cur = e.seq]  BY <1>3 DEF TypeOK, ThreadTypeOK
  <2>4. Inserts(s)  BY <1>2, <2>1, <2>2, <2>3 DEF Inserts, WatLocals
  <2>5. QED  BY <1>2, <2>4 DEF NodesIncrease, ownRest, history
<1>4. CASE Enter(s, e, "entered_inc") /\ UNCHANGED nodes
  <2>1. Enters(s, "entered_inc")  BY <1>4, EnterEnters
  <2>2. QED  BY <1>2, <2>1 DEF NodesIncrease, ownRest, history
<1>5. QED  BY <1>1, <1>3, <1>4

LEMMA IncreaseExistsMoves ==
    ASSUME TypeOK, NEW s \in Server, NodesIncrease_Exists(s)
    PROVE  /\ wat[s].pc = "entered_inc" /\ WatGoes(s, "increase")
           /\ UNCHANGED ownRest /\ UNCHANGED <<i_am_master, nodes>>
BY AskedGoes DEF NodesIncrease_Exists, ownRest, history

\* A server that waited creates its znode, or the service is not asked.
LEMMA IncreaseLockedMoves ==
    ASSUME TypeOK, NEW s \in Server, NodesIncrease_Locked(s), Alive(s), UNCHANGED errs
    PROVE  /\ wat[s].pc = "increase"
           /\ \/ /\ wat[s].id = DelayRegister /\ CreateMasterZnode(s)
                 /\ compeleted_register'[s] = TRUE /\ my_master_znode_id'[s] = nextSeq
              \/ UNCHANGED <<zkVars, watchVars, compeleted_register, my_master_znode_id>>
           /\ \/ WatGoes(s, "again") /\ wat[s].id = DeleteByMyself /\ UNCHANGED nodes
              \/ Inserts(s)
           /\ i_am_master'[s] => i_am_master[s]
           /\ UNCHANGED <<handler, app, withdrew>>
<1>1. /\ \/ /\ wat[s].id = DelayRegister /\ CreateMasterZnode(s)
            /\ compeleted_register' = [compeleted_register EXCEPT ![s] = TRUE]
            /\ KeepPath(s)
            /\ i_am_master' = [i_am_master EXCEPT ![s] = FALSE]
         \/ UNCHANGED <<zkVars, watchVars, compeleted_register, my_master_znode_id, i_am_master>>
  BY NoneLost DEF NodesIncrease_Locked, RegisterDelayed
<1>2. \/ MayReturn(s) /\ wat' = [wat EXCEPT ![s].pc = "again"] /\ UNCHANGED nodes
      \/ Inserted(s)
  BY DEF NodesIncrease_Locked
<1>3. \/ WatGoes(s, "again") /\ wat[s].id = DeleteByMyself /\ UNCHANGED nodes
      \/ Inserts(s)
  BY <1>2, PcGoes, InsertedInserts DEF MayReturn
<1>4. i_am_master'[s] => i_am_master[s]  BY <1>1 DEF TypeOK, MgrTypeOK
<1>5. \/ /\ wat[s].id = DelayRegister /\ CreateMasterZnode(s)
         /\ compeleted_register'[s] = TRUE /\ my_master_znode_id'[s] = nextSeq
      \/ UNCHANGED <<zkVars, watchVars, compeleted_register, my_master_znode_id>>
  BY <1>1 DEF TypeOK, MgrTypeOK, KeepPath
<1>6. QED  BY <1>3, <1>4, <1>5 DEF NodesIncrease_Locked

LEMMA AgainMoves ==
    ASSUME TypeOK, NEW s \in Server, NodesIncrease_Again(s), Alive(s), UNCHANGED errs
    PROVE  /\ wat[s].pc = "again" /\ CreateMasterZnode(s) /\ my_master_znode_id'[s] = nextSeq
           /\ Inserts(s)
           /\ UNCHANGED <<handler, i_am_master, compeleted_register, app, withdrew>>
<1>1. Again(s) /\ Inserted(s)  BY NoneLost DEF NodesIncrease_Again
<1>2. my_master_znode_id'[s] = nextSeq  BY <1>1 DEF TypeOK, MgrTypeOK, Again, KeepPath
<1>3. QED  BY <1>1, <1>2, InsertedInserts DEF NodesIncrease_Again, Again, history

\* The entry nodes_discrease is called for was in nodes and not in my_map.
LEMMA DiscreaseMoves ==
    ASSUME TypeOK, NEW s \in Server, NodesDiscrease(s)
    PROVE  /\ wat[s].pc = "dec"
           /\ \/ Erases(s)
              \/ /\ Enters(s, "entered_dec")
                 /\ \E e \in nodes[s] : /\ e.seq \notin Seqs(wat[s].map) /\ e.uuid # s
                                        /\ wat'[s].cur = e.seq /\ wat'[s].who = e.uuid
           /\ UNCHANGED ownRest /\ UNCHANGED i_am_master
<1>1. PICK e \in NextOf(s, nodes[s], wat[s].map) :
        \/ Erased(s, e.seq)
        \/ e.uuid # s /\ Enter(s, e, "entered_dec") /\ UNCHANGED nodes
  BY DEF NodesDiscrease
<1>2. e \in nodes[s] /\ e.seq \notin Seqs(wat[s].map)  BY DEF NextOf, Missing
<1>3. e.seq \in Nat  BY <1>2 DEF TypeOK, MgrTypeOK, Node
<1>4. \/ Erases(s)
      \/ /\ Enters(s, "entered_dec")
         /\ e.uuid # s /\ wat'[s].cur = e.seq /\ wat'[s].who = e.uuid
  BY <1>1, <1>3, ErasedErases, EnterEnters
<1>5. QED  BY <1>2, <1>4 DEF NodesDiscrease, ownRest, history

LEMMA DiscreaseExistsMoves ==
    ASSUME TypeOK, NEW s \in Server, NodesDiscrease_Exists(s), Alive(s), UNCHANGED errs
    PROVE  /\ wat[s].pc = "entered_dec" /\ WatGoes(s, "decrease")
           /\ UNCHANGED ownRest /\ UNCHANGED <<i_am_master, nodes>>
<1>1. PICK masterof \in BOOLEAN : Asked(s, "decrease", <<s, wat[s].who>> \in edges, masterof)
  BY NoneLost DEF NodesDiscrease_Exists
<1>2. WatGoes(s, "decrease") /\ UNCHANGED nodes  BY <1>1, AskedGoes
<1>3. QED  BY <1>2 DEF NodesDiscrease_Exists, ownRest, history

LEMMA CurIsNat == ASSUME TypeOK, NEW s \in Server PROVE wat[s].cur \in Nat
BY CurType DEF TypeOK

LEMMA DiscreaseLockedMoves ==
    ASSUME TypeOK, NEW s \in Server, NodesDiscrease_Locked(s)
    PROVE  /\ wat[s].pc = "decrease"
           /\ (WatGoes(s, "mode") /\ UNCHANGED nodes) \/ Erases(s)
           /\ UNCHANGED ownRest /\ UNCHANGED i_am_master
<1>1. \/ wat' = [wat EXCEPT ![s].pc = "mode"] /\ UNCHANGED nodes
      \/ Erased(s, wat[s].cur)
  BY DEF NodesDiscrease_Locked
<1>2. (WatGoes(s, "mode") /\ UNCHANGED nodes) \/ Erases(s)
  BY <1>1, PcGoes, CurIsNat, ErasedErases
<1>3. QED  BY <1>2 DEF NodesDiscrease_Locked, ownRest, history

\* The server takes over only here.
LEMMA ModeMoves ==
    ASSUME TypeOK, NEW s \in Server, NodesDiscrease_Mode(s), Alive(s), UNCHANGED errs
    PROVE  /\ wat[s].pc = "mode"
           /\ \/ Erases(s)
              \/ WatGoes(s, "delete") /\ UNCHANGED nodes /\ (i_am_master'[s] => i_am_master[s])
           /\ UNCHANGED ownRest
<1>1. \/ Erased(s, wat[s].cur)
      \/ /\ wat' = [wat EXCEPT ![s].pc = "delete"] /\ UNCHANGED nodes
         /\ UNCHANGED i_am_master \/ i_am_master' = [i_am_master EXCEPT ![s] = FALSE]
  BY NoneLost DEF NodesDiscrease_Mode
<1>2. \/ Erases(s)
      \/ WatGoes(s, "delete") /\ UNCHANGED nodes /\ (i_am_master'[s] => i_am_master[s])
  BY <1>1, PcGoes, CurIsNat, ErasedErases DEF TypeOK, MgrTypeOK
<1>3. QED  BY <1>2 DEF NodesDiscrease_Mode, ownRest

\* The znode whose path was copied is deleted, if there is one.
LEMMA DeleteMoves ==
    ASSUME TypeOK, NEW s \in Server, NodesDiscrease_Delete(s), Alive(s), UNCHANGED errs
    PROVE  /\ wat[s].pc = "delete" /\ withdrew' = withdrew \cup {s}
           /\ \/ /\ wat[s].id \in Seqs(master) /\ DeleteMasterZnode(wat[s].id)
                 /\ my_master_znode_id'[s] = DeleteByMyself /\ Erases(s)
              \/ /\ wat[s].id \notin Seqs(master)
                 /\ UNCHANGED <<zkVars, watchVars, my_master_znode_id>>
                 /\ (WatGoes(s, "delete") /\ UNCHANGED nodes) \/ Erases(s)
           /\ UNCHANGED <<handler, i_am_master, compeleted_register, app>>
<1>1. \/ /\ wat[s].id \in Seqs(master) /\ DeleteMasterZnode(wat[s].id)
         /\ my_master_znode_id' = [my_master_znode_id EXCEPT ![s] = DeleteByMyself]
         /\ Erased(s, wat[s].cur)
      \/ /\ wat[s].id \notin Seqs(master) /\ UNCHANGED <<zkVars, watchVars, my_master_znode_id>>
         /\ \/ wat' = [wat EXCEPT ![s].tries = @ + 1] /\ UNCHANGED nodes
            \/ Erased(s, wat[s].cur)
  BY NoneLost DEF NodesDiscrease_Delete
<1>2. wat[s].pc = "delete"  BY DEF NodesDiscrease_Delete
<1>3. Erased(s, wat[s].cur) => Erases(s)  BY CurIsNat, ErasedErases
<1>4. ASSUME wat' = [wat EXCEPT ![s].tries = @ + 1] PROVE WatGoes(s, "delete")
  <2>1. wat[s] \in WatLocals  BY DEF TypeOK, ThreadTypeOK, WatState
  <2>2. wat'[s] = [wat[s] EXCEPT !.tries = wat[s].tries + 1]  BY <1>4 DEF TypeOK, ThreadTypeOK
  <2>3. QED  BY <1>2, <2>1, <2>2 DEF WatGoes, WatLocals
<1>5. \/ /\ wat[s].id \in Seqs(master) /\ DeleteMasterZnode(wat[s].id)
         /\ my_master_znode_id'[s] = DeleteByMyself /\ Erases(s)
      \/ /\ wat[s].id \notin Seqs(master) /\ UNCHANGED <<zkVars, watchVars, my_master_znode_id>>
         /\ (WatGoes(s, "delete") /\ UNCHANGED nodes) \/ Erases(s)
  BY <1>1, <1>3, <1>4 DEF TypeOK, MgrTypeOK
<1>6. QED  BY <1>2, <1>5 DEF NodesDiscrease_Delete

-----------------------------------------------------------------------------
(* The rest of what a server does                                           *)

\* An administrative call, or a step of one.
Asks(s) ==
    \/ ChangeReplMode(s) \/ GetSyncpoint(s) \/ GetSyncpoint_Read(s)
    \/ \E m \in Server : StartRepl(s, m) \/ RmRepl(s, m)

\* The application thread stays outside register_server.
Outside == {"idle", "points"}
AppAsks(s) ==
    /\ app[s].pc \in Outside /\ app'[s].pc \in Outside
    /\ app'[s].pc = "points" => \/ app[s].pc = "points" \/ compeleted_register[s]
                                \/ my_master_znode_id[s] = DelayRegister
    /\ app'[s].kids \subseteq app[s].kids /\ (app'[s].delay => app[s].delay)
    /\ \A t \in Server \ {s} : app'[t] = app[t]

LEMMA AskMoves ==
    ASSUME TypeOK, NEW s \in Server, Asks(s)
    PROVE  /\ UNCHANGED <<zkVars, masterWatch, handler, i_am_master, compeleted_register,
                          my_master_znode_id, nodes, lock, wat, withdrew>>
           /\ AppAsks(s)
<1>1. app \in [Server -> AppState]  BY DEF TypeOK, ThreadTypeOK
<1>2. UNCHANGED <<pointRest, masterWatch>>
  BY DEF Asks, ChangeReplMode, GetSyncpoint, GetSyncpoint_Read, StartRepl, RmRepl, adminRest,
     watchVars, FireReplWatch
<1>3. ASSUME ChangeReplMode(s) \/ \E m \in Server : StartRepl(s, m) \/ RmRepl(s, m)
      PROVE  AppAsks(s)
  <2>1. UNCHANGED app /\ app[s].pc = "idle"
    BY <1>3 DEF ChangeReplMode, StartRepl, RmRepl, adminRest, Request
  <2>2. QED  BY <2>1 DEF AppAsks, Outside
<1>4. ASSUME GetSyncpoint(s) PROVE AppAsks(s)
  <2>1. PICK slaves \in {{t \in Server : <<s, t>> \in edges}} :
          app' = [app EXCEPT ![s] = [AppIdle EXCEPT !.pc = "points", !.slaves = slaves]]
    BY <1>4 DEF GetSyncpoint
  <2> DEFINE next == [AppIdle EXCEPT !.pc = "points", !.slaves = slaves]
  <2>2. next.pc = "points" /\ next.kids = {} /\ ~next.delay  BY DEF AppIdle
  <2>3. app[s].pc = "idle" /\ (compeleted_register[s] \/ my_master_znode_id[s] = DelayRegister)
    BY <1>4 DEF GetSyncpoint, Request
  <2> HIDE DEF next
  <2>4. app' = [app EXCEPT ![s] = next]  BY <2>1 DEF next
  <2>5. QED  BY <1>1, <2>2, <2>3, <2>4 DEF AppAsks, Outside
<1>5. ASSUME GetSyncpoint_Read(s) PROVE AppAsks(s)
  <2>1. app[s].pc = "points"  BY <1>5 DEF GetSyncpoint_Read
  <2>2. CASE app' = [app EXCEPT ![s] = AppIdle]
    BY <1>1, <2>1, <2>2 DEF AppIdle, AppAsks, Outside
  <2>3. ASSUME NEW t, app' = [app EXCEPT ![s] = [app[s] EXCEPT !.slaves = app[s].slaves \ {t}]]
        PROVE  AppAsks(s)
    <3> DEFINE next == [app[s] EXCEPT !.slaves = app[s].slaves \ {t}]
    <3>1. next.pc = app[s].pc /\ next.kids = app[s].kids /\ next.delay = app[s].delay
      BY <1>1 DEF AppState
    <3> HIDE DEF next
    <3>2. app' = [app EXCEPT ![s] = next]  BY <2>3 DEF next
    <3>3. QED  BY <1>1, <2>1, <3>1, <3>2 DEF AppAsks, Outside
  <2>4. PICK t \in app[s].slaves :
          app' = [app EXCEPT ![s] = IF app[s].slaves = {t} THEN AppIdle
                                    ELSE [app[s] EXCEPT !.slaves = app[s].slaves \ {t}]]
    BY <1>5 DEF GetSyncpoint_Read
  <2>5. CASE app[s].slaves = {t}  BY <2>2, <2>4, <2>5
  <2>6. CASE app[s].slaves # {t}  BY <2>3, <2>4, <2>6
  <2>7. QED  BY <2>5, <2>6
<1>6. AppAsks(s)  BY <1>3, <1>4, <1>5 DEF Asks
<1>7. QED  BY <1>2, <1>6 DEF pointRest, history

\* What a server does; what is left is the end of a session the service times out.
Acts(s) == AppThread(s) \/ CompletionThread(s) \/ Application(s) \/ Crash(s)

LEMMA NextActs == Next <=> (\E s \in Server : Acts(s)) \/ (\E k \in sessions : SessionTimeout(k))
BY DEF Next, Acts

\* A step of a server does nothing to the manager of another.
Still(t) ==
    /\ handler'[t] = handler[t] /\ i_am_master'[t] = i_am_master[t]
    /\ compeleted_register'[t] = compeleted_register[t]
    /\ my_master_znode_id'[t] = my_master_znode_id[t]
    /\ nodes'[t] = nodes[t] /\ lock'[t] = lock[t]
    /\ app'[t] = app[t] /\ wat'[t] = wat[t]
    /\ t \in withdrew' <=> t \in withdrew

LEMMA OthersStill ==
    ASSUME TypeOK, NEW s \in Server, Acts(s), NEW t \in Server, t # s
    PROVE  Still(t)
<1> USE DEF TypeOK, MgrTypeOK, ThreadTypeOK
<1>1. CASE AppThread(s)
  <2>1. CASE RegisterServer_Count(s)  BY <2>1 DEF RegisterServer_Count, Still, history
  <2>2. CASE RegisterServer_Create(s)
    BY <2>2 DEF RegisterServer_Create, Return, Goto, KeepPath, Still, history
  <2>3. CASE RegisterServer_List(s)  BY <2>3 DEF RegisterServer_List, Return, Still, history
  <2>4. CASE RegisterServer_Fetch(s)  BY <2>4 DEF RegisterServer_Fetch, Still
  <2>5. CASE RegisterServer_First(s)  BY <2>5 DEF RegisterServer_First, Return, Goto, Still
  <2>6. CASE RegisterServer_Tell(s)  BY <2>6 DEF RegisterServer_Tell, Return, Still, history
  <2>7. CASE Disconnect_Done(s)  BY <2>7 DEF Disconnect_Done, Forget, Still
  <2>8. CASE GetSyncpoint_Read(s)  BY <2>8, AskMoves DEF Asks, AppAsks, Still
  <2>9. QED
    BY <1>1, <2>1, <2>2, <2>3, <2>4, <2>5, <2>6, <2>7, <2>8 DEF AppThread, RegisterServer_Step
<1>2. CASE CompletionThread(s)
  <2>1. CASE SessionExpired(s) \/ ReplWatcher_Step(s)
    BY <2>1 DEF SessionExpired, ReplWatcher_Step, ReplWatcher_List, ReplWatcher_Diff, mgrVars,
       history, Still
  <2>2. CASE MasterWatcher_List(s) \/ MasterWatcher_Fetch(s) \/ MasterWatcher_End(s)
    BY <2>2 DEF MasterWatcher_List, MasterWatcher_Fetch, MasterWatcher_End, mgrVars, history,
       Still
  <2>3. CASE NodesIncrease(s)  BY <2>3 DEF NodesIncrease, Enter, Still, history
  <2>4. CASE NodesIncrease_Exists(s)  BY <2>4 DEF NodesIncrease_Exists, Asked, Still, history
  <2>5. CASE NodesIncrease_Locked(s)
    BY <2>5 DEF NodesIncrease_Locked, RegisterDelayed, KeepPath, Inserted, Still
  <2>6. CASE NodesIncrease_Again(s)
    BY <2>6 DEF NodesIncrease_Again, Again, KeepPath, Inserted, Still, history
  <2>7. CASE NodesDiscrease(s)  BY <2>7 DEF NodesDiscrease, Erased, Enter, Still, history
  <2>8. CASE NodesDiscrease_Exists(s)
    BY <2>8 DEF NodesDiscrease_Exists, Asked, Erased, Still, history
  <2>9. CASE NodesDiscrease_Locked(s)
    BY <2>9 DEF NodesDiscrease_Locked, Erased, Still, history
  <2>10. CASE NodesDiscrease_Mode(s)  BY <2>10 DEF NodesDiscrease_Mode, Erased, Still
  <2>11. CASE NodesDiscrease_Delete(s)  BY <2>11 DEF NodesDiscrease_Delete, Erased, Still
  <2>12. QED
    BY <1>2, <2>1, <2>2, <2>3, <2>4, <2>5, <2>6, <2>7, <2>8, <2>9, <2>10, <2>11
    DEF CompletionThread, MasterWatcher_Step
<1>3. CASE Application(s)
  <2>1. CASE Connect(s)  BY <2>1 DEF Connect, Still, history
  <2>2. CASE RegisterServer_Replication(s)
    BY <2>2 DEF RegisterServer_Replication, Registering, Still, history
  <2>3. CASE Disconnect_Close(s)  BY <2>3 DEF Disconnect_Close, Goto, Still, history
  <2>4. CASE Asks(s)  BY <2>4, AskMoves DEF AppAsks, Still
  <2>5. QED  BY <1>3, <2>1, <2>2, <2>3, <2>4 DEF Application, Asks
<1>4. CASE Crash(s)  BY <1>4 DEF Crash, Forget, Still
<1>5. QED  BY <1>1, <1>2, <1>3, <1>4 DEF Acts

-----------------------------------------------------------------------------
(* The lock                                                                 *)

LockOf(s) ==
    /\ lock[s] = "app" <=> app[s].pc \in RegisterPc
    /\ lock[s] = "wat" <=> wat[s].pc \in LockedWatPc

\* What the threads may do about the lock.  A thread stays in its critical section, or
\* outside it; it takes the lock when it is free, or it leaves and frees it.
AppStays(s) ==
    /\ app'[s].pc \in RegisterPc <=> app[s].pc \in RegisterPc
    /\ wat'[s] = wat[s] /\ lock'[s] = lock[s]
AppLocks(s) ==
    /\ lock[s] = "free" /\ lock'[s] = "app" /\ app'[s].pc \in RegisterPc /\ wat'[s] = wat[s]
AppUnlocks(s) ==
    /\ app[s].pc \in RegisterPc /\ app'[s].pc = "idle" /\ lock'[s] = "free" /\ wat'[s] = wat[s]
WatStays(s) ==
    /\ wat'[s].pc \in LockedWatPc <=> wat[s].pc \in LockedWatPc
    /\ app'[s] = app[s] /\ lock'[s] = lock[s]
WatLocks(s) ==
    /\ lock[s] = "free" /\ lock'[s] = "wat" /\ wat'[s].pc \in LockedWatPc /\ app'[s] = app[s]
WatUnlocks(s) ==
    /\ wat[s].pc \in LockedWatPc /\ wat'[s].pc \notin LockedWatPc /\ lock'[s] = "free"
    /\ app'[s] = app[s]
Both(s) == app'[s].pc = "idle" /\ wat'[s].pc = "idle" /\ lock'[s] = "free"

\* Every one of these keeps the lock with the thread that needs it.
LEMMA LockMoves ==
    ASSUME NEW s \in Server, LockOf(s),
           \/ AppStays(s) \/ AppLocks(s) \/ AppUnlocks(s) \/ WatStays(s) \/ WatLocks(s)
           \/ WatUnlocks(s) \/ Both(s)
    PROVE  LockOf(s)'
<1>1. "idle" \notin RegisterPc /\ "idle" \notin LockedWatPc  BY DEF RegisterPc, LockedWatPc
<1>2. CASE AppStays(s) \/ WatStays(s)  BY <1>2 DEF AppStays, WatStays, LockOf
<1>3. CASE AppLocks(s) \/ WatLocks(s)  BY <1>3 DEF AppLocks, WatLocks, LockOf
<1>4. CASE AppUnlocks(s)  BY <1>1, <1>4 DEF AppUnlocks, LockOf
<1>5. CASE WatUnlocks(s)  BY <1>1, <1>5 DEF WatUnlocks, LockOf
<1>6. CASE Both(s)  BY <1>1, <1>6 DEF Both, LockOf
<1>7. QED  BY <1>2, <1>3, <1>4, <1>5, <1>6

\* The application thread: register_server unlocks on each of its ways out.
LEMMA AppKeepsLock ==
    ASSUME TypeOK, NEW s \in Server, RegisterServer_Step(s), LockOf(s)
    PROVE  LockOf(s)'
<1> USE DEF TypeOK, MgrTypeOK, ThreadTypeOK
<1>1. CASE RegisterServer_Count(s)
  <2>1. wat' = wat /\ lock' = lock  BY <1>1 DEF RegisterServer_Count
  <2>2. app[s].pc = "count" /\ app'[s].pc \in {"list", "create"}  BY <1>1, CountMoves
  <2>3. AppStays(s)  BY <2>1, <2>2 DEF AppStays, RegisterPc
  <2>4. QED  BY <2>3, LockMoves
<1>2. CASE RegisterServer_Create(s)
  <2>1. wat' = wat /\ app[s].pc = "create" /\ (Goto(s, "list") \/ Return(s))
    BY <1>2 DEF RegisterServer_Create
  <2>2. CASE Goto(s, "list")
    <3>1. AppStays(s)  BY <2>1, <2>2, GotoGoes DEF Goto, AppGoes, AppStays, RegisterPc
    <3>2. QED  BY <3>1, LockMoves
  <2>3. CASE Return(s)
    <3>1. AppUnlocks(s)  BY <2>1, <2>3 DEF Return, AppIdle, AppUnlocks, RegisterPc
    <3>2. QED  BY <3>1, LockMoves
  <2>4. QED  BY <2>1, <2>2, <2>3
<1>3. CASE RegisterServer_List(s)
  <2>1. /\ wat' = wat /\ app[s].pc = "list"
        /\ \/ Return(s)
           \/ /\ lock' = lock
              /\ \E first \in Seqs(master) :
                    app' = [app EXCEPT ![s] = [@ EXCEPT !.pc = "fetch", !.kids = Seqs(master),
                                                      !.first = first]]
    BY <1>3 DEF RegisterServer_List
  <2>2. CASE Return(s)
    <3>1. AppUnlocks(s)  BY <2>1, <2>2 DEF Return, AppIdle, AppUnlocks, RegisterPc
    <3>2. QED  BY <3>1, LockMoves
  <2>3. ASSUME lock' = lock, NEW first \in Seqs(master),
               app' = [app EXCEPT ![s] = [@ EXCEPT !.pc = "fetch", !.kids = Seqs(master),
                                                  !.first = first]]
        PROVE  LockOf(s)'
    <3>1. app[s] \in AppState  OBVIOUS
    <3>2. app'[s] = [app[s] EXCEPT !.pc = "fetch", !.kids = Seqs(master), !.first = first]
      BY <2>3
    <3>3. app'[s].pc = "fetch"  BY <3>1, <3>2 DEF AppState
    <3>4. AppStays(s)  BY <2>1, <2>3, <3>3 DEF AppStays, RegisterPc
    <3>5. QED  BY <3>4, LockMoves
  <2>4. QED  BY <2>1, <2>2, <2>3
<1>4. CASE RegisterServer_Fetch(s)
  <2>1. wat' = wat /\ lock' = lock  BY <1>4 DEF RegisterServer_Fetch
  <2>2. app[s].pc = "fetch" /\ app'[s].pc \in {"fetch", "first"}  BY <1>4, FetchMoves
  <2>3. AppStays(s)  BY <2>1, <2>2 DEF AppStays, RegisterPc
  <2>4. QED  BY <2>3, LockMoves
<1>5. CASE RegisterServer_First(s)
  <2>1. wat' = wat /\ app[s].pc = "first" /\ (Goto(s, "tell") \/ Return(s))
    BY <1>5 DEF RegisterServer_First
  <2>2. CASE Goto(s, "tell")
    <3>1. AppStays(s)  BY <2>1, <2>2, GotoGoes DEF Goto, AppGoes, AppStays, RegisterPc
    <3>2. QED  BY <3>1, LockMoves
  <2>3. CASE Return(s)
    <3>1. AppUnlocks(s)  BY <2>1, <2>3 DEF Return, AppIdle, AppUnlocks, RegisterPc
    <3>2. QED  BY <3>1, LockMoves
  <2>4. QED  BY <2>1, <2>2, <2>3
<1>6. CASE RegisterServer_Tell(s)
  <2>1. AppUnlocks(s)
    BY <1>6 DEF RegisterServer_Tell, Return, AppIdle, AppUnlocks, RegisterPc
  <2>2. QED  BY <2>1, LockMoves
<1>7. QED  BY <1>1, <1>2, <1>3, <1>4, <1>5, <1>6 DEF RegisterServer_Step

LEMMA FetchTurns ==
    ASSUME TypeOK, NEW s \in Server, MasterWatcher_Fetch(s)
    PROVE  wat'[s].pc \in {"idle", "inc", "dec"}
<1>1. PICK map \in SUBSET wat[s].kids :
        LET way == Direction(map, nodes[s])
        IN  wat' = [wat EXCEPT ![s] = IF way = "idle" THEN WatIdle
                                      ELSE [WatIdle EXCEPT !.pc = way, !.map = map]]
  BY DEF MasterWatcher_Fetch
<1>2. Direction(map, nodes[s]) \in {"inc", "dec", "idle"}  BY DEF Direction
<1>3. PICK way \in {"inc", "dec", "idle"} :
        wat'[s] = WatIdle \/ wat'[s] = [WatIdle EXCEPT !.pc = way, !.map = map]
  BY <1>1, <1>2 DEF TypeOK, ThreadTypeOK
<1>4. CASE wat'[s] = WatIdle  BY <1>4 DEF WatIdle
<1>5. CASE wat'[s] = [WatIdle EXCEPT !.pc = way, !.map = map]  BY <1>3, <1>5 DEF WatIdle
<1>6. QED  BY <1>3, <1>4, <1>5

\* The completion thread: so do nodes_increase and nodes_discrease.
LEMMA WatKeepsLock ==
    ASSUME TypeOK, NEW s \in Server, CompletionThread(s), LockOf(s)
    PROVE  LockOf(s)'
<1> USE DEF TypeOK, MgrTypeOK, ThreadTypeOK
<1> DEFINE Free == {"idle", "fetch", "inc", "entered_inc", "increase", "dec", "entered_dec",
                    "decrease", "repl"}
<1>0. Free \cap LockedWatPc = {}  BY DEF LockedWatPc
<1>1. ASSUME wat[s].pc \in Free, wat'[s].pc \in Free, app' = app, lock' = lock
      PROVE  LockOf(s)'
  <2>1. WatStays(s)  BY <1>0, <1>1 DEF WatStays
  <2>2. QED  BY <2>1, LockMoves
<1>2. ASSUME wat[s].pc \in LockedWatPc, wat'[s].pc \in Free, app' = app,
             lock' = [lock EXCEPT ![s] = "free"]
      PROVE  LockOf(s)'
  <2>1. WatUnlocks(s)  BY <1>0, <1>2 DEF WatUnlocks
  <2>2. QED  BY <2>1, LockMoves
<1>3. ASSUME wat[s].pc \in LockedWatPc, wat'[s].pc \in LockedWatPc, app' = app, lock' = lock
      PROVE  LockOf(s)'
  <2>1. WatStays(s)  BY <1>3 DEF WatStays
  <2>2. QED  BY <2>1, LockMoves
<1>4. ASSUME lock[s] = "free", wat'[s].pc \in LockedWatPc, app' = app,
             lock' = [lock EXCEPT ![s] = "wat"]
      PROVE  LockOf(s)'
  <2>1. WatLocks(s)  BY <1>4 DEF WatLocks
  <2>2. QED  BY <2>1, LockMoves
<1>5. ASSUME NEW cur \in Nat, Erased(s, cur) PROVE wat'[s].pc \in Free
  BY <1>5, ErasedErases DEF Erases, WatRests, WatIdle
<1>6. Inserted(s) => wat'[s].pc \in Free  BY InsertedInserts DEF Inserts
<1>7. wat[s].cur \in Nat  BY CurIsNat
<1>11. CASE SessionExpired(s)
  BY <1>11 DEF SessionExpired, mgrVars, LockOf
<1>12. CASE ReplWatcher_Step(s)
  <2>1. wat[s].pc \in Free /\ (wat'[s] = wat[s] \/ wat'[s].pc \in Free) /\ app' = app
    BY <1>12, RestMoves
  <2>2. lock' = lock
    BY <1>12 DEF ReplWatcher_Step, ReplWatcher_List, ReplWatcher_Diff, mgrVars
  <2>3. QED  BY <1>1, <2>1, <2>2
<1>13. CASE MasterWatcher_List(s)
  <2>1. wat[s].pc = "idle" /\ app' = app /\ lock' = lock
    BY <1>13 DEF MasterWatcher_List, Take, mgrVars
  <2>2. \/ wat' = wat
        \/ wat'[s] = [WatIdle EXCEPT !.pc = "fetch", !.kids = {NodeOf(z) : z \in master}]
    BY <1>13 DEF MasterWatcher_List
  <2>3. wat'[s].pc \in Free  BY <2>1, <2>2 DEF WatIdle
  <2>4. QED  BY <1>1, <2>1, <2>3
<1>14. CASE MasterWatcher_Fetch(s)
  <2>1. wat[s].pc = "fetch" /\ app' = app /\ lock' = lock
    BY <1>14 DEF MasterWatcher_Fetch, mgrVars
  <2>2. wat'[s].pc \in {"idle", "inc", "dec"}  BY <1>14, FetchTurns
  <2>3. QED  BY <1>1, <2>1, <2>2
<1>15. CASE MasterWatcher_End(s)
  <2>1. wat[s].pc \in {"inc", "dec"} /\ wat'[s].pc = "idle" /\ app' = app /\ lock' = lock
    BY <1>15 DEF MasterWatcher_End, mgrVars, WatIdle
  <2>2. QED  BY <1>1, <2>1
<1>16. CASE NodesIncrease(s)
  <2>1. wat[s].pc = "inc" /\ (Inserts(s) \/ Enters(s, "entered_inc"))  BY <1>16, IncreaseMoves
  <2>2. app' = app /\ lock' = lock  BY <1>16 DEF NodesIncrease
  <2>3. wat'[s].pc \in Free  BY <2>1 DEF Inserts, Enters
  <2>4. QED  BY <1>1, <2>1, <2>2, <2>3
<1>17. CASE NodesIncrease_Exists(s)
  <2>1. wat[s].pc = "entered_inc" /\ WatGoes(s, "increase")  BY <1>17, IncreaseExistsMoves
  <2>2. app' = app /\ lock' = lock  BY <1>17 DEF NodesIncrease_Exists
  <2>3. QED  BY <1>1, <2>1, <2>2 DEF WatGoes
<1>18. CASE NodesIncrease_Locked(s)
  <2>1. /\ wat[s].pc = "increase" /\ lock[s] = "free" /\ app' = app
        /\ \/ /\ lock' = [lock EXCEPT ![s] = "wat"]
              /\ wat' = [wat EXCEPT ![s].pc = "again"]
           \/ lock' = lock /\ Inserted(s)
    BY <1>18 DEF NodesIncrease_Locked
  <2>2. CASE lock' = lock /\ Inserted(s)  BY <1>1, <1>6, <2>1, <2>2
  <2>3. CASE lock' = [lock EXCEPT ![s] = "wat"] /\ wat' = [wat EXCEPT ![s].pc = "again"]
    <3>1. wat'[s].pc \in LockedWatPc  BY <2>3, PcGoes DEF WatGoes, LockedWatPc
    <3>2. QED  BY <1>4, <2>1, <2>3, <3>1
  <2>4. QED  BY <2>1, <2>2, <2>3
<1>19. CASE NodesIncrease_Again(s)
  <2>1. /\ wat[s].pc = "again" /\ Inserted(s) /\ app' = app
        /\ lock' = [lock EXCEPT ![s] = "free"]
    BY <1>19 DEF NodesIncrease_Again
  <2>2. QED  BY <1>2, <1>6, <2>1 DEF LockedWatPc
<1>20. CASE NodesDiscrease(s)
  <2>1. wat[s].pc = "dec" /\ (Erases(s) \/ Enters(s, "entered_dec"))  BY <1>20, DiscreaseMoves
  <2>2. app' = app /\ lock' = lock  BY <1>20 DEF NodesDiscrease
  <2>3. wat'[s].pc \in Free  BY <2>1 DEF Erases, Enters, WatRests, WatIdle
  <2>4. QED  BY <1>1, <2>1, <2>2, <2>3
<1>21. CASE NodesDiscrease_Exists(s)
  <2>1. wat[s].pc = "entered_dec" /\ app' = app /\ lock' = lock
    BY <1>21 DEF NodesDiscrease_Exists
  <2>2. \/ Erased(s, wat[s].cur)
        \/ \E masterof \in BOOLEAN : Asked(s, "decrease", <<s, wat[s].who>> \in edges, masterof)
    BY <1>21 DEF NodesDiscrease_Exists
  <2>3. wat'[s].pc \in Free  BY <1>5, <1>7, <2>2, AskedGoes DEF WatGoes
  <2>4. QED  BY <1>1, <2>1, <2>3
<1>22. CASE NodesDiscrease_Locked(s)
  <2>1. /\ wat[s].pc = "decrease" /\ lock[s] = "free" /\ app' = app
        /\ \/ /\ lock' = [lock EXCEPT ![s] = "wat"]
              /\ wat' = [wat EXCEPT ![s].pc = "mode"]
           \/ lock' = lock /\ Erased(s, wat[s].cur)
    BY <1>22 DEF NodesDiscrease_Locked
  <2>2. CASE lock' = lock /\ Erased(s, wat[s].cur)  BY <1>1, <1>5, <1>7, <2>1, <2>2
  <2>3. CASE lock' = [lock EXCEPT ![s] = "wat"] /\ wat' = [wat EXCEPT ![s].pc = "mode"]
    <3>1. wat'[s].pc \in LockedWatPc  BY <2>3, PcGoes DEF WatGoes, LockedWatPc
    <3>2. QED  BY <1>4, <2>1, <2>3, <3>1
  <2>4. QED  BY <2>1, <2>2, <2>3
<1>23. CASE NodesDiscrease_Mode(s)
  <2>1. /\ wat[s].pc = "mode" /\ app' = app
        /\ \/ lock' = [lock EXCEPT ![s] = "free"] /\ Erased(s, wat[s].cur)
           \/ lock' = lock /\ wat' = [wat EXCEPT ![s].pc = "delete"]
    BY <1>23 DEF NodesDiscrease_Mode
  <2>2. CASE lock' = [lock EXCEPT ![s] = "free"] /\ Erased(s, wat[s].cur)
    BY <1>2, <1>5, <1>7, <2>1, <2>2 DEF LockedWatPc
  <2>3. CASE lock' = lock /\ wat' = [wat EXCEPT ![s].pc = "delete"]
    <3>1. wat'[s].pc \in LockedWatPc  BY <2>3, PcGoes DEF WatGoes, LockedWatPc
    <3>2. QED  BY <1>3, <2>1, <2>3, <3>1 DEF LockedWatPc
  <2>4. QED  BY <2>1, <2>2, <2>3
<1>24. CASE NodesDiscrease_Delete(s)
  <2>1. /\ wat[s].pc = "delete" /\ app' = app
        /\ \/ lock' = [lock EXCEPT ![s] = "free"] /\ Erased(s, wat[s].cur)
           \/ lock' = lock /\ wat' = [wat EXCEPT ![s].tries = @ + 1]
    BY <1>24 DEF NodesDiscrease_Delete
  <2>2. CASE lock' = [lock EXCEPT ![s] = "free"] /\ Erased(s, wat[s].cur)
    BY <1>2, <1>5, <1>7, <2>1, <2>2 DEF LockedWatPc
  <2>3. CASE lock' = lock /\ wat' = [wat EXCEPT ![s].tries = @ + 1]
    <3>1. wat[s] \in WatLocals  BY DEF WatState
    <3>2. wat'[s] = [wat[s] EXCEPT !.tries = wat[s].tries + 1]  BY <2>3
    <3>3. wat'[s].pc = "delete"  BY <2>1, <3>1, <3>2 DEF WatLocals
    <3>4. QED  BY <1>3, <2>1, <2>3, <3>3 DEF LockedWatPc
  <2>4. QED  BY <2>1, <2>2, <2>3
<1>30. QED
  BY <1>11, <1>12, <1>13, <1>14, <1>15, <1>16, <1>17, <1>18, <1>19, <1>20, <1>21, <1>22, <1>23,
     <1>24 DEF CompletionThread, MasterWatcher_Step

\* Every call of a server, whatever it loses, keeps the lock with the thread that needs it.
LEMMA ActsKeepLock ==
    ASSUME TypeOK, NEW s \in Server, Acts(s), LockOf(s)
    PROVE  LockOf(s)'
<1> USE DEF TypeOK, MgrTypeOK, ThreadTypeOK
<1>1. CASE RegisterServer_Step(s)  BY <1>1, AppKeepsLock
<1>2. CASE CompletionThread(s)  BY <1>2, WatKeepsLock
<1>3. CASE Disconnect_Done(s) \/ Crash(s)
  <2>1. Both(s)  BY <1>3 DEF Disconnect_Done, Crash, Forget, Both, AppIdle, WatIdle
  <2>2. QED  BY <2>1, LockMoves
<1>4. CASE Connect(s)  BY <1>4 DEF Connect, LockOf
<1>5. CASE Asks(s)  BY <1>5, AskMoves DEF AppAsks, Outside, RegisterPc, LockOf
<1>6. CASE RegisterServer_Replication(s)
  <2>1. CASE Registering(s)
    <3>1. PICK delay \in Delays[s] :
            app'[s] = [AppIdle EXCEPT !.pc = IF delay THEN "count" ELSE "create", !.delay = delay]
      BY <2>1 DEF Registering
    <3>2. app'[s].pc \in RegisterPc  BY <3>1 DEF AppIdle, RegisterPc
    <3>3. AppLocks(s)
      BY <1>6, <2>1, <3>2 DEF RegisterServer_Replication, Registering, AppLocks
    <3>4. QED  BY <3>3, LockMoves
  <2>2. CASE app' = app /\ lock' = lock
    BY <1>6, <2>2 DEF RegisterServer_Replication, LockOf
  <2>3. QED  BY <1>6, <2>1, <2>2 DEF RegisterServer_Replication
<1>7. CASE Disconnect_Close(s)
  <2>1. AppStays(s)
    BY <1>7, GotoGoes DEF Disconnect_Close, Goto, AppGoes, AppStays, RegisterPc
  <2>2. QED  BY <2>1, LockMoves
<1>8. QED
  BY <1>1, <1>2, <1>3, <1>4, <1>5, <1>6, <1>7 DEF Acts, AppThread, Application, Asks

\* Whatever fails, crashes or expires: the lock of a manager is held by the thread that is
\* inside register_server, nodes_increase or nodes_discrease, and by no other, so that the
\* two never run them at once; and when neither is there, it is free.
THEOREM LockDiscipline == Spec => []LockHeld
<1>1. Init => LockHeld
  BY DEF Init, LockHeld, AppIdle, WatIdle, RegisterPc, LockedWatPc
<1>2. TypeOK /\ LockHeld /\ [Next]_vars => LockHeld'
  <2> SUFFICES ASSUME TypeOK, LockHeld, [Next]_vars, NEW t \in Server
               PROVE  LockOf(t)'
    BY DEF LockHeld, LockOf
  <2>0. LockOf(t)  BY DEF LockHeld, LockOf
  <2>1. ASSUME NEW s \in Server, Acts(s) PROVE LockOf(t)'
    BY <2>0, <2>1, OthersStill, ActsKeepLock DEF Still, LockOf
  <2>2. ASSUME NEW k \in sessions, SessionTimeout(k) PROVE LockOf(t)'
    BY <2>0, <2>2 DEF SessionTimeout, mgrVars, LockOf
  <2>3. CASE UNCHANGED vars  BY <2>0, <2>3 DEF vars, mgrVars, LockOf
  <2>4. QED  BY <2>1, <2>2, <2>3, NextActs
<1>3. QED  BY <1>1, <1>2, TypeCorrect, PTL DEF Spec

-----------------------------------------------------------------------------
(* Sessions                                                                 *)

\* What a server makes of the service.
Asking(s) ==
    \/ UNCHANGED <<zkVars, handler>>
    \/ Connect(s)
    \/ Alive(s) /\ CreateMasterZnode(s) /\ UNCHANGED handler
    \/ /\ Alive(s) /\ wat[s].pc = "delete" /\ wat[s].id \in Seqs(master)
       /\ DeleteMasterZnode(wat[s].id) /\ UNCHANGED handler
    \/ Crash(s) \/ Disconnect_Done(s)

LEMMA ServiceMoves == ASSUME NEW s \in Server, Acts(s) PROVE Asking(s)
<1> USE DEF Asking
<1>1. CASE AppThread(s)
  <2>1. CASE RegisterServer_Create(s)  BY <2>1 DEF RegisterServer_Create, Ok, Drop
  <2>2. CASE Disconnect_Done(s)  BY <2>2
  <2>3. CASE ~RegisterServer_Create(s) /\ ~Disconnect_Done(s)
    BY <1>1, <2>3 DEF AppThread, RegisterServer_Step, RegisterServer_Count, RegisterServer_List,
       RegisterServer_Fetch, RegisterServer_First, RegisterServer_Tell, GetSyncpoint_Read, pointRest
  <2>4. QED  BY <2>1, <2>2, <2>3
<1>2. CASE CompletionThread(s)
  <2>1. CASE NodesIncrease_Locked(s)  BY <2>1 DEF NodesIncrease_Locked, RegisterDelayed, Ok, Drop
  <2>2. CASE NodesIncrease_Again(s)  BY <2>2 DEF NodesIncrease_Again, Again, Ok, Drop
  <2>3. CASE NodesDiscrease_Delete(s)  BY <2>3 DEF NodesDiscrease_Delete, Ok, Drop
  <2>4. CASE SessionExpired(s) \/ ReplWatcher_Step(s)
    BY <2>4 DEF SessionExpired, ReplWatcher_Step, ReplWatcher_List, ReplWatcher_Diff, mgrVars
  <2>5. CASE \/ MasterWatcher_List(s) \/ MasterWatcher_Fetch(s) \/ MasterWatcher_End(s)
             \/ NodesIncrease(s) \/ NodesIncrease_Exists(s) \/ NodesDiscrease(s)
             \/ NodesDiscrease_Exists(s) \/ NodesDiscrease_Locked(s) \/ NodesDiscrease_Mode(s)
    BY <2>5 DEF MasterWatcher_List, MasterWatcher_Fetch, MasterWatcher_End, NodesIncrease,
       NodesIncrease_Exists, NodesDiscrease, NodesDiscrease_Exists, NodesDiscrease_Locked,
       NodesDiscrease_Mode, mgrVars
  <2>6. QED  BY <1>2, <2>1, <2>2, <2>3, <2>4, <2>5 DEF CompletionThread, MasterWatcher_Step
<1>3. CASE Application(s)
  <2>1. CASE \/ ChangeReplMode(s) \/ GetSyncpoint(s)
             \/ \E m \in Server : StartRepl(s, m) \/ RmRepl(s, m)
    BY <2>1 DEF ChangeReplMode, GetSyncpoint, StartRepl, RmRepl, adminRest, pointRest
  <2>2. CASE Connect(s)  BY <2>2
  <2>3. CASE RegisterServer_Replication(s) \/ Disconnect_Close(s)
    BY <2>3 DEF RegisterServer_Replication, Disconnect_Close
  <2>4. QED  BY <1>3, <2>1, <2>2, <2>3 DEF Application
<1>4. QED  BY <1>1, <1>2, <1>3 DEF Acts

\* The znodes of the session of s.
Mine(s) == {z \in master : z.sid = handler[s]}

\* Every znode below /master belongs to a session that lives; a session belongs to
\* one handle at most, and the znodes of a handle carry the uuid of its server.
Sessions ==
    /\ \A z \in master : z.sid \in sessions
    /\ \A k \in sessions : k < nextSid
    /\ \A s \in Server : handler[s] < nextSid
    /\ \A s, t \in Server : handler[s] = handler[t] => handler[s] = 0 \/ s = t
    /\ \A s \in Server : \A z \in Mine(s) : z.uuid = s

LEMMA SessionsKept == ASSUME TypeOK, Sessions, Next PROVE Sessions'
<1> USE DEF TypeOK, ZkTypeOK, MgrTypeOK
<1>1. ASSUME NEW s \in Server, Acts(s) PROVE Sessions'
  <2>1. CASE UNCHANGED <<zkVars, handler>>  BY <2>1 DEF Sessions, Mine, zkVars
  <2>2. CASE Connect(s)
    <3>1. /\ UNCHANGED master /\ sessions' = sessions \cup {nextSid} /\ nextSid' = nextSid + 1
          /\ handler'[s] = nextSid /\ \A t \in Server : t # s => handler'[t] = handler[t]
      BY <2>2 DEF Connect
    <3>2. \A z \in master : z.sid < nextSid  BY DEF Sessions
    <3>3. \A t \in Server : handler[t] \in Nat /\ handler[t] < nextSid  BY DEF Sessions
    <3>4. /\ \A z \in master' : z.sid \in sessions'
          /\ \A k \in sessions' : k < nextSid'
          /\ \A t \in Server : handler'[t] < nextSid'
      BY <3>1, <3>3 DEF Sessions
    <3>5. \A r, t \in Server : handler'[r] = handler'[t] => handler'[r] = 0 \/ r = t
      BY <3>1, <3>3 DEF Sessions
    <3>6. ASSUME NEW t \in Server, NEW z \in master', z.sid = handler'[t] PROVE z.uuid = t
      <4>1. z \in master /\ z.sid < nextSid /\ z.sid \in Nat  BY <3>1, <3>2, <3>6 DEF Znode
      <4>2. t # s  BY <3>1, <3>6, <4>1
      <4>3. QED  BY <3>1, <3>6, <4>1, <4>2 DEF Sessions, Mine
    <3>7. QED  BY <3>4, <3>5, <3>6 DEF Sessions, Mine
  <2>3. CASE Alive(s) /\ CreateMasterZnode(s) /\ UNCHANGED handler
    <3>1. /\ master' = master \cup {[seq |-> nextSeq, uuid |-> s, sid |-> handler[s]]}
          /\ UNCHANGED <<sessions, nextSid, handler>> /\ handler[s] \in sessions
      BY <2>3 DEF CreateMasterZnode, Alive
    <3>2. handler[s] # 0  BY <3>1
    <3>3. QED  BY <3>1, <3>2 DEF Sessions, Mine
  <2>4. CASE DeleteMasterZnode(wat[s].id) /\ UNCHANGED handler
    BY <2>4 DEF DeleteMasterZnode, Sessions, Mine
  <2>5. CASE Crash(s)
    <3>1. UNCHANGED zkVars /\ handler' = [handler EXCEPT ![s] = 0]  BY <2>5 DEF Crash, Forget
    <3>2. \A z \in master : z.sid # 0  BY DEF Sessions
    <3>3. QED  BY <3>1, <3>2 DEF Sessions, Mine, zkVars
  <2>6. CASE Disconnect_Done(s)
    <3>1. /\ sessions' = sessions \ {handler[s]} /\ master' = {z \in master : z.sid # handler[s]}
          /\ nextSid' = nextSid /\ handler' = [handler EXCEPT ![s] = 0]
      BY <2>6 DEF Disconnect_Done, Forget, EndSession
    <3>2. \A z \in master : z.sid # 0  BY DEF Sessions
    <3>3. QED  BY <3>1, <3>2 DEF Sessions, Mine
  <2>7. QED  BY <1>1, <2>1, <2>2, <2>3, <2>4, <2>5, <2>6, ServiceMoves DEF Asking
<1>2. ASSUME NEW k \in sessions, SessionTimeout(k) PROVE Sessions'
  <2>1. /\ sessions' = sessions \ {k} /\ master' = {z \in master : z.sid # k}
        /\ UNCHANGED <<nextSid, handler>>
    BY <1>2 DEF SessionTimeout, EndSession, mgrVars
  <2>2. QED  BY <2>1 DEF Sessions, Mine
<1>3. QED  BY <1>1, <1>2, NextActs

\* Without a manager nothing is remembered, and a handle that is closed, or not yet
\* opened, has no watch.
Blank(s) == handler[s] = 0 =>
    /\ ~i_am_master[s] /\ ~compeleted_register[s] /\ my_master_znode_id[s] = NoZnode
    /\ nodes[s] = {} /\ app[s] = AppIdle /\ wat[s] = WatIdle /\ s \notin withdrew
Deaf(s) == handler[s] = 0 \/ app[s].pc = "closing" => s \notin masterWatch

\* A server without a manager can only connect.
LEMMA OnlyConnects ==
    ASSUME NEW s \in Server, handler[s] = 0, Blank(s), Acts(s)
    PROVE  Connect(s)
<1>1. app[s].pc = "idle" /\ wat[s].pc = "idle"  BY DEF Blank, AppIdle, WatIdle
<1>2. ~AppThread(s)
  BY <1>1 DEF AppThread, RegisterServer_Step, RegisterServer_Count, RegisterServer_Create,
     RegisterServer_List, RegisterServer_Fetch, RegisterServer_First, RegisterServer_Tell,
     GetSyncpoint_Read, Disconnect_Done
<1>3. ~CompletionThread(s)
  BY <1>1 DEF CompletionThread, SessionExpired, Take, ReplWatcher_Step, ReplWatcher_List,
     ReplWatcher_Diff, MasterWatcher_Step, MasterWatcher_List, MasterWatcher_Fetch,
     MasterWatcher_End, NodesIncrease, NodesIncrease_Exists, NodesIncrease_Locked,
     NodesIncrease_Again, NodesDiscrease, NodesDiscrease_Exists, NodesDiscrease_Locked,
     NodesDiscrease_Mode, NodesDiscrease_Delete
<1>4. ~RegisterServer_Replication(s) /\ ~Disconnect_Close(s) /\ ~Crash(s) /\ ~Asks(s)
  BY <1>1 DEF RegisterServer_Replication, Disconnect_Close, Crash, Asks, ChangeReplMode,
     GetSyncpoint, GetSyncpoint_Read, StartRepl, RmRepl, Request
<1>5. QED  BY <1>2, <1>3, <1>4 DEF Acts, Application, Asks

LEMMA BlankKept ==
    ASSUME TypeOK, \A t \in Server : Blank(t), Next, NEW t \in Server
    PROVE  Blank(t)'
<1>1. ASSUME Still(t) PROVE Blank(t)'  BY <1>1 DEF Still, Blank
<1>2. ASSUME NEW s \in Server, Acts(s) PROVE Blank(t)'
  <2>1. CASE t # s  BY <1>1, <1>2, <2>1, OthersStill
  <2>2. CASE t = s
    <3>1. CASE Forget(s)
      BY <2>2, <3>1 DEF Forget, Blank, TypeOK, MgrTypeOK, ThreadTypeOK
    <3>2. CASE Connect(s)
      <4>1. handler'[s] # 0  BY <3>2 DEF Connect, TypeOK, MgrTypeOK, ZkTypeOK
      <4>2. QED  BY <2>2, <4>1 DEF Blank
    <3>3. CASE ~Forget(s) /\ ~Connect(s)
      <4>1. handler[s] # 0  BY <1>2, <3>3, OnlyConnects
      <4>2. UNCHANGED handler
        BY <1>2, <3>3, ServiceMoves DEF Asking, Crash, Disconnect_Done
      <4>3. QED  BY <2>2, <4>1, <4>2 DEF Blank
    <3>4. QED  BY <3>1, <3>2, <3>3
  <2>3. QED  BY <2>1, <2>2
<1>3. ASSUME NEW k \in sessions, SessionTimeout(k) PROVE Blank(t)'
  BY <1>1, <1>3 DEF SessionTimeout, mgrVars, history, Still
<1>4. QED  BY <1>2, <1>3, NextActs

-----------------------------------------------------------------------------
(* Watches and events                                                       *)

\* A change of /master goes into the queue of s, if it has not been taken.
Hears(s) == s \in masterWatch \/ Pending(s, "master")

\* An event at the end of a queue is one more that is pending; one that was taken
\* from its head was the only one lost.
LEMMA AppendPending ==
    ASSUME queue \in [Server -> Seq(Event)], NEW t \in Server, NEW f \in Event,
           queue'[t] = Append(queue[t], f)
    PROVE  \A e \in Event : Pending(t, e)' <=> Pending(t, e) \/ e = f
<1>1. queue[t] \in Seq(Event)  OBVIOUS
<1>2. /\ Len(queue[t]) \in Nat /\ Len(queue'[t]) = Len(queue[t]) + 1
      /\ DOMAIN queue[t] = 1..Len(queue[t]) /\ DOMAIN queue'[t] = 1..(Len(queue[t]) + 1)
      /\ \A i \in 1..Len(queue[t]) : queue'[t][i] = queue[t][i]
      /\ queue'[t][Len(queue[t]) + 1] = f
  BY <1>1
<1>3. QED  BY <1>2 DEF Pending

LEMMA TailPending ==
    ASSUME queue \in [Server -> Seq(Event)], NEW s \in Server, queue[s] # <<>>,
           queue'[s] = Tail(queue[s])
    PROVE  \A e \in Event : /\ Pending(s, e)' => Pending(s, e)
                            /\ Pending(s, e) /\ Head(queue[s]) # e => Pending(s, e)'
<1>1. queue[s] \in Seq(Event)  OBVIOUS
<1>2. /\ Len(queue[s]) \in Nat /\ Len(queue[s]) > 0
      /\ DOMAIN queue[s] = 1..Len(queue[s]) /\ DOMAIN queue'[s] = 1..(Len(queue[s]) - 1)
      /\ \A i \in 1..(Len(queue[s]) - 1) : queue'[s][i] = queue[s][i + 1]
      /\ Head(queue[s]) = queue[s][1]
  BY <1>1
<1>3. ASSUME NEW e \in Event, Pending(s, e), Head(queue[s]) # e PROVE Pending(s, e)'
  <2>1. PICK i \in 1..Len(queue[s]) : queue[s][i] = e  BY <1>2, <1>3 DEF Pending
  <2>2. i - 1 \in 1..(Len(queue[s]) - 1)  BY <1>2, <1>3, <2>1
  <2>3. queue'[s][i - 1] = e  BY <1>2, <2>1, <2>2
  <2>4. QED  BY <1>2, <2>2, <2>3 DEF Pending
<1>4. ASSUME NEW e \in Event, Pending(s, e)' PROVE Pending(s, e)
  <2>1. PICK i \in 1..(Len(queue[s]) - 1) : queue'[s][i] = e  BY <1>2, <1>4 DEF Pending
  <2>2. i + 1 \in 1..Len(queue[s]) /\ queue[s][i + 1] = e  BY <1>2, <2>1
  <2>3. QED  BY <1>2, <2>2 DEF Pending
<1>5. QED  BY <1>3, <1>4

\* A watch that fires becomes an event,
LEMMA FireHears ==
    ASSUME TypeOK, FireMasterWatches(masterWatch), masterWatch' = {}, NEW t \in Server
    PROVE  Hears(t)' <=> Hears(t)
<1>1. queue \in [Server -> Seq(Event)] /\ "master" \in Event  BY DEF TypeOK, WatchTypeOK, Event
<1>2. CASE t \in masterWatch
  <2>1. queue'[t] = Append(queue[t], "master")  BY <1>2 DEF FireMasterWatches
  <2>2. Pending(t, "master")'  BY <1>1, <2>1, AppendPending
  <2>3. QED  BY <1>2, <2>2 DEF Hears
<1>3. CASE t \notin masterWatch
  <2>1. queue'[t] = queue[t]  BY <1>3 DEF FireMasterWatches
  <2>2. QED  BY <1>3, <2>1 DEF Hears, Pending
<1>4. QED  BY <1>2, <1>3

\* and so it is when a session ends, but for its owner.
LEMMA EndHears ==
    ASSUME TypeOK, NEW k, NEW owners, EndSession(k, owners), NEW t \in Server, t \notin owners
    PROVE  Hears(t)' <=> Hears(t)
<1>1. queue \in [Server -> Seq(Event)] /\ "master" \in Event  BY DEF TypeOK, WatchTypeOK, Event
<1> DEFINE watchers == IF \E z \in master : z.sid = k THEN masterWatch \ owners ELSE {}
<1>2. /\ queue' = [r \in Server |->
                     IF r \in owners THEN Append(queue[r], "expired")
                     ELSE IF r \in watchers THEN Append(queue[r], "master") ELSE queue[r]]
      /\ masterWatch' = masterWatch \ (owners \cup watchers)
  BY DEF EndSession
<1>3. watchers \subseteq masterWatch  OBVIOUS
<1> HIDE DEF watchers
<1>4. CASE t \in watchers
  <2>1. queue'[t] = Append(queue[t], "master")  BY <1>2, <1>4
  <2>2. Pending(t, "master")'  BY <1>1, <2>1, AppendPending
  <2>3. QED  BY <1>3, <1>4, <2>2 DEF Hears
<1>5. CASE t \notin watchers
  <2>1. queue'[t] = queue[t] /\ (t \in masterWatch' <=> t \in masterWatch)  BY <1>2, <1>5
  <2>2. QED  BY <2>1 DEF Hears, Pending
<1>6. QED  BY <1>4, <1>5

\* An administrative call touches no watch on /master.
LEMMA AskHears ==
    ASSUME TypeOK, NEW s \in Server, Asks(s), NEW t \in Server
    PROVE  Hears(t)' <=> Hears(t)
<1>1. queue \in [Server -> Seq(Event)] /\ "master" \in Event /\ "repl" \in Event
  BY DEF TypeOK, WatchTypeOK, Event
<1>2. UNCHANGED masterWatch  BY AskMoves
<1>3. UNCHANGED queue \/ \E m \in Server : FireReplWatch(m)
  BY DEF Asks, ChangeReplMode, GetSyncpoint, GetSyncpoint_Read, StartRepl, RmRepl, pointRest,
     watchVars
<1>4. queue'[t] = queue[t] \/ queue'[t] = Append(queue[t], "repl")
  BY <1>1, <1>3 DEF FireReplWatch
<1>5. Pending(t, "master")' <=> Pending(t, "master")
  <2>1. CASE queue'[t] = queue[t]  BY <2>1 DEF Pending
  <2>2. CASE queue'[t] = Append(queue[t], "repl")  BY <1>1, <2>2, AppendPending
  <2>3. QED  BY <1>4, <2>1, <2>2
<1>6. QED  BY <1>2, <1>5 DEF Hears

\* What a server does to the watch and the queue of another.
LEMMA OthersHear ==
    ASSUME TypeOK, NEW s \in Server, Acts(s), NEW t \in Server, t # s
    PROVE  (Hears(t)' <=> Hears(t)) /\ (t \in masterWatch' => t \in masterWatch)
<1> DEFINE Spared == queue'[t] = queue[t] /\ (t \in masterWatch' <=> t \in masterWatch)
<1>1. queue \in [Server -> Seq(Event)]  BY DEF TypeOK, WatchTypeOK
<1>2. CASE FireMasterWatches(masterWatch) /\ masterWatch' = {}  BY <1>2, FireHears
<1>3. CASE Disconnect_Done(s)
  <2>1. EndSession(handler[s], {})  BY <1>3 DEF Disconnect_Done
  <2>2. Hears(t)' <=> Hears(t)  BY <2>1, EndHears
  <2>3. masterWatch' \subseteq masterWatch  BY <2>1 DEF EndSession
  <2>4. QED  BY <2>2, <2>3
<1>4. CASE Asks(s)  BY <1>4, AskHears, AskMoves
<1>5. CASE Spared  BY <1>5 DEF Hears, Pending
<1> HIDE DEF Spared
<1>6. ASSUME UNCHANGED watchVars PROVE Spared  BY <1>6 DEF watchVars, Spared
<1>7. ASSUME CreateMasterZnode(s) \/ DeleteMasterZnode(wat[s].id)
      PROVE  FireMasterWatches(masterWatch) /\ masterWatch' = {}
  BY <1>7 DEF CreateMasterZnode, DeleteMasterZnode
<1>8. CASE AppThread(s)
  <2>1. CASE RegisterServer_Create(s)  BY <1>2, <1>5, <1>6, <1>7, <2>1 DEF RegisterServer_Create
  <2>2. CASE RegisterServer_List(s)
    BY <1>5, <2>2 DEF RegisterServer_List, WatchMaster, watchVars, Spared
  <2>3. CASE RegisterServer_Count(s) \/ RegisterServer_Fetch(s) \/ RegisterServer_First(s)
             \/ RegisterServer_Tell(s)
    BY <1>5, <1>6, <2>3 DEF RegisterServer_Count, RegisterServer_Fetch, RegisterServer_First,
       RegisterServer_Tell
  <2>4. QED  BY <1>3, <1>4, <1>8, <2>1, <2>2, <2>3 DEF AppThread, RegisterServer_Step, Asks
<1>9. CASE CompletionThread(s)
  <2>1. CASE NodesIncrease_Locked(s)
    BY <1>2, <1>5, <1>6, <1>7, <2>1 DEF NodesIncrease_Locked, RegisterDelayed
  <2>2. CASE NodesIncrease_Again(s)
    BY <1>2, <1>5, <1>6, <1>7, <2>2 DEF NodesIncrease_Again, Again
  <2>3. CASE NodesDiscrease_Delete(s)
    BY <1>2, <1>5, <1>6, <1>7, <2>3 DEF NodesDiscrease_Delete
  <2>4. CASE SessionExpired(s) \/ ReplWatcher_List(s) \/ MasterWatcher_List(s)
    <3>1. queue' = [queue EXCEPT ![s] = Tail(@)]
      BY <2>4 DEF SessionExpired, ReplWatcher_List, MasterWatcher_List, Take
    <3>2. masterWatch' \in {masterWatch, masterWatch \cup {s}}
      BY <2>4 DEF SessionExpired, ReplWatcher_List, MasterWatcher_List
    <3>3. QED  BY <1>1, <1>5, <3>1, <3>2 DEF Spared
  <2>5. CASE \/ ReplWatcher_Diff(s) \/ MasterWatcher_Fetch(s) \/ MasterWatcher_End(s)
             \/ NodesIncrease(s) \/ NodesIncrease_Exists(s) \/ NodesDiscrease(s)
             \/ NodesDiscrease_Exists(s) \/ NodesDiscrease_Locked(s) \/ NodesDiscrease_Mode(s)
    BY <1>5, <1>6, <2>5 DEF ReplWatcher_Diff, MasterWatcher_Fetch, MasterWatcher_End,
       NodesIncrease, NodesIncrease_Exists, NodesDiscrease, NodesDiscrease_Exists,
       NodesDiscrease_Locked, NodesDiscrease_Mode
  <2>6. QED
    BY <1>9, <2>1, <2>2, <2>3, <2>4, <2>5
    DEF CompletionThread, ReplWatcher_Step, MasterWatcher_Step
<1>10. CASE Application(s)
  <2>1. CASE Connect(s)  BY <1>1, <1>5, <2>1 DEF Connect, Spared
  <2>2. CASE RegisterServer_Replication(s)
    BY <1>5, <2>2 DEF RegisterServer_Replication, Spared
  <2>3. CASE Disconnect_Close(s)
    BY <1>1, <1>5, <2>3 DEF Disconnect_Close, CloseHandle, Spared
  <2>4. QED  BY <1>4, <1>10, <2>1, <2>2, <2>3 DEF Application, Asks
<1>11. CASE Crash(s)  BY <1>1, <1>5, <1>11 DEF Crash, CloseHandle, Spared
<1>12. QED  BY <1>8, <1>9, <1>10, <1>11 DEF Acts

\* A handle that is closed stays closed until the server connects anew.
LEMMA StaysClosed ==
    ASSUME TypeOK, NEW s \in Server, Acts(s), app[s].pc = "closing", handler[s] # 0
    PROVE  app'[s].pc = "closing" \/ Crash(s) \/ Disconnect_Done(s)
<1>1. CASE AppThread(s)
  BY <1>1 DEF AppThread, RegisterServer_Step, RegisterServer_Count, RegisterServer_Create,
     RegisterServer_List, RegisterServer_Fetch, RegisterServer_First, RegisterServer_Tell,
     GetSyncpoint_Read
<1>2. ASSUME CompletionThread(s) PROVE UNCHANGED app
  BY <1>2 DEF CompletionThread, SessionExpired, ReplWatcher_Step, ReplWatcher_List,
     ReplWatcher_Diff, MasterWatcher_Step, MasterWatcher_List, MasterWatcher_Fetch,
     MasterWatcher_End, NodesIncrease, NodesIncrease_Exists, NodesIncrease_Locked,
     NodesIncrease_Again, NodesDiscrease, NodesDiscrease_Exists, NodesDiscrease_Locked,
     NodesDiscrease_Mode, NodesDiscrease_Delete
<1>3. ASSUME Application(s) PROVE UNCHANGED app
  BY <1>3 DEF Application, Connect, RegisterServer_Replication, Disconnect_Close, Request,
     ChangeReplMode, GetSyncpoint, StartRepl, RmRepl
<1>4. QED  BY <1>1, <1>2, <1>3 DEF Acts

\* A session, once lost, is lost.
LEMMA LivesOn ==
    ASSUME TypeOK, Sessions, NEW s \in Server, Acts(s), NEW t \in Server, Alive(t)'
    PROVE  Alive(t) \/ (t = s /\ Connect(s))
<1>1. handler[t] < nextSid /\ handler[t] \in Nat /\ 0 \notin sessions'
  BY NextKeepsType, NextActs DEF Sessions, TypeOK, MgrTypeOK, ZkTypeOK
<1>2. sessions' \subseteq sessions \cup {nextSid}
  BY ServiceMoves DEF Asking, zkVars, Connect, CreateMasterZnode, DeleteMasterZnode, Crash,
     Disconnect_Done, EndSession
<1>3. CASE t # s
  <2>1. handler'[t] = handler[t] /\ app'[t] = app[t]  BY <1>3, OthersStill DEF Still
  <2>2. handler[t] # nextSid  BY <1>1 DEF TypeOK, ZkTypeOK
  <2>3. QED  BY <1>2, <2>1, <2>2 DEF Alive
<1>4. CASE t = s /\ ~Connect(s)
  <2>1. ~Crash(s) /\ ~Disconnect_Done(s)
    BY <1>1, <1>4 DEF Alive, Crash, Disconnect_Done, Forget, TypeOK, MgrTypeOK
  <2>2. UNCHANGED handler /\ sessions' \subseteq sessions
    BY <1>4, <2>1, ServiceMoves DEF Asking, zkVars, CreateMasterZnode, DeleteMasterZnode
  <2>3. handler[s] # 0  BY <1>1, <1>4, <2>2 DEF Alive
  <2>4. QED  BY <1>4, <2>1, <2>2, <2>3, StaysClosed DEF Alive
<1>5. QED  BY <1>3, <1>4

LEMMA LivesOnAfterTimeout ==
    ASSUME NEW k \in sessions, SessionTimeout(k), NEW t \in Server, Alive(t)'
    PROVE  /\ Alive(t) /\ Still(t) /\ (TypeOK => (Hears(t)' <=> Hears(t)))
           /\ UNCHANGED nextSeq
           /\ master' = {z \in master : z.sid # k} /\ handler[t] # k
<1>1. /\ UNCHANGED <<mgrVars, app, wat, history>>
      /\ EndSession(k, {s \in Server : handler[s] = k})
  BY DEF SessionTimeout
<1>2. sessions' = sessions \ {k} /\ master' = {z \in master : z.sid # k} /\ UNCHANGED nextSeq
  BY <1>1 DEF EndSession
<1>3. handler[t] # k /\ Alive(t)  BY <1>1, <1>2 DEF Alive, mgrVars
<1>4. Still(t)  BY <1>1 DEF mgrVars, history, Still
<1>5. TypeOK => (Hears(t)' <=> Hears(t))  BY <1>1, <1>3, EndHears
<1>6. QED  BY <1>2, <1>3, <1>4, <1>5

\* What a server does whose session lives on.
Own(s) ==
    RegisterServer_Step(s) \/ CompletionThread(s) \/ RegisterServer_Replication(s) \/ Asks(s)

LEMMA OwnSteps ==
    ASSUME TypeOK, NEW s \in Server, Acts(s), Alive(s), Alive(s)'
    PROVE  Own(s)
<1>1. handler[s] # 0 /\ 0 \notin sessions'
  BY NextKeepsType, NextActs DEF Alive, TypeOK, ZkTypeOK
<1>2. ~Connect(s)  BY <1>1 DEF Connect
<1>3. ~Disconnect_Done(s)  BY DEF Disconnect_Done, Alive
<1>4. ~Crash(s)  BY <1>1 DEF Crash, Forget, Alive, TypeOK, MgrTypeOK
<1>5. ~Disconnect_Close(s)
  BY GotoGoes DEF Disconnect_Close, Alive, AppGoes
<1>6. QED  BY <1>2, <1>3, <1>4, <1>5 DEF Acts, AppThread, Application, Own, Asks

\* Only the two calls that list /master set a watch on it,
LEMMA ListsToWatch ==
    ASSUME TypeOK, NEW s \in Server, Acts(s), s \in masterWatch'
    PROVE  \/ s \in masterWatch
           \/ Alive(s) /\ (RegisterServer_List(s) \/ MasterWatcher_List(s))
<1>1. CASE AppThread(s)
  <2>1. CASE RegisterServer_Create(s)
    BY <2>1 DEF RegisterServer_Create, CreateMasterZnode, watchVars
  <2>2. CASE RegisterServer_List(s)  BY <2>2 DEF RegisterServer_List, Ok, watchVars
  <2>3. CASE RegisterServer_Count(s) \/ RegisterServer_Fetch(s) \/ RegisterServer_First(s)
             \/ RegisterServer_Tell(s)
    BY <2>3 DEF RegisterServer_Count, RegisterServer_Fetch, RegisterServer_First,
       RegisterServer_Tell, watchVars
  <2>4. CASE Disconnect_Done(s)  BY <2>4 DEF Disconnect_Done, EndSession
  <2>5. CASE GetSyncpoint_Read(s)  BY <2>5, AskMoves DEF Asks
  <2>6. QED  BY <1>1, <2>1, <2>2, <2>3, <2>4, <2>5 DEF AppThread, RegisterServer_Step
<1>2. CASE CompletionThread(s)
  <2>1. CASE NodesIncrease_Locked(s) \/ NodesIncrease_Again(s) \/ NodesDiscrease_Delete(s)
    BY <2>1 DEF NodesIncrease_Locked, RegisterDelayed, NodesIncrease_Again, Again,
       NodesDiscrease_Delete, CreateMasterZnode, DeleteMasterZnode, watchVars
  <2>2. CASE MasterWatcher_List(s)  BY <2>2 DEF MasterWatcher_List, Ok
  <2>3. CASE \/ SessionExpired(s) \/ ReplWatcher_Step(s) \/ MasterWatcher_Fetch(s)
             \/ MasterWatcher_End(s) \/ NodesIncrease(s) \/ NodesIncrease_Exists(s)
             \/ NodesDiscrease(s) \/ NodesDiscrease_Exists(s) \/ NodesDiscrease_Locked(s)
             \/ NodesDiscrease_Mode(s)
    BY <2>3 DEF SessionExpired, ReplWatcher_Step, ReplWatcher_List, ReplWatcher_Diff,
       MasterWatcher_Fetch, MasterWatcher_End, NodesIncrease, NodesIncrease_Exists,
       NodesDiscrease, NodesDiscrease_Exists, NodesDiscrease_Locked, NodesDiscrease_Mode,
       watchVars
  <2>4. QED  BY <1>2, <2>1, <2>2, <2>3 DEF CompletionThread, MasterWatcher_Step
<1>3. CASE Application(s)
  BY <1>3, AskMoves DEF Application, Asks, Connect, RegisterServer_Replication, Disconnect_Close,
     CloseHandle
<1>4. CASE Crash(s)  BY <1>4 DEF Crash, CloseHandle
<1>5. QED  BY <1>1, <1>2, <1>3, <1>4 DEF Acts

\* and only zookeeper_close closes the handle.
LEMMA ClosesOnce ==
    ASSUME TypeOK, NEW s \in Server, Acts(s), app'[s].pc = "closing"
    PROVE  app[s].pc = "closing" \/ Disconnect_Close(s)
<1>1. CASE RegisterServer_Step(s)
  <2>1. CASE RegisterServer_Create(s)
    BY <2>1, GotoGoes, ReturnRests DEF RegisterServer_Create, AppGoes, AppRests, AppIdle
  <2>2. CASE RegisterServer_List(s)
    <3>1. CASE Return(s)  BY <3>1, ReturnRests DEF AppRests, AppIdle
    <3>2. ASSUME NEW first,
                 app' = [app EXCEPT ![s] = [@ EXCEPT !.pc = "fetch", !.kids = Seqs(master),
                                                    !.first = first]]
          PROVE  app'[s].pc = "fetch"
      <4>1. app'[s] = [app[s] EXCEPT !.pc = "fetch", !.kids = Seqs(master), !.first = first]
        BY <3>2 DEF TypeOK, ThreadTypeOK
      <4>2. app[s] \in AppState  BY DEF TypeOK, ThreadTypeOK
      <4>3. QED  BY <4>1, <4>2 DEF AppState
    <3>3. QED  BY <2>2, <3>1, <3>2 DEF RegisterServer_List
  <2>3. QED
    BY <1>1, <2>1, <2>2, CountMoves, FetchMoves, FirstMovesOn, TellMoves
    DEF RegisterServer_Step, AppGoes, AppRests, AppIdle
<1>2. CASE Disconnect_Done(s)  BY <1>2 DEF Disconnect_Done
<1>3. CASE CompletionThread(s)
  <2>1. UNCHANGED app
    BY <1>3 DEF CompletionThread, SessionExpired, ReplWatcher_Step, ReplWatcher_List,
       ReplWatcher_Diff, MasterWatcher_Step, MasterWatcher_List, MasterWatcher_Fetch,
       MasterWatcher_End, NodesIncrease, NodesIncrease_Exists, NodesIncrease_Locked,
       NodesIncrease_Again, NodesDiscrease, NodesDiscrease_Exists, NodesDiscrease_Locked,
       NodesDiscrease_Mode, NodesDiscrease_Delete
  <2>2. QED  BY <2>1
<1>4. CASE Application(s)
  <2>1. CASE RegisterServer_Replication(s)
    <3>1. UNCHANGED app \/ Registering(s)  BY <2>1 DEF RegisterServer_Replication
    <3>2. Registering(s) => app'[s].pc \in {"count", "create"}
      BY DEF Registering, TypeOK, ThreadTypeOK, AppIdle
    <3>3. QED  BY <3>1, <3>2
  <2>2. QED  BY <1>4, <2>1, AskMoves DEF Application, Asks, Connect, AppAsks, Outside
<1>5. CASE Crash(s)
  <2>1. app'[s] = AppIdle  BY <1>5 DEF Crash, Forget, TypeOK, ThreadTypeOK
  <2>2. QED  BY <2>1 DEF AppIdle
<1>6. CASE GetSyncpoint_Read(s)  BY <1>6, AskMoves DEF Asks, AppAsks, Outside
<1>7. QED  BY <1>1, <1>2, <1>3, <1>4, <1>5, <1>6 DEF Acts, AppThread

LEMMA DeafKept ==
    ASSUME TypeOK, \A t \in Server : Blank(t) /\ Deaf(t), Next, NEW t \in Server
    PROVE  Deaf(t)'
<1>1. ASSUME NEW s \in Server, Acts(s) PROVE Deaf(t)'
  <2>1. CASE t # s  BY <1>1, <2>1, OthersStill, OthersHear DEF Still, Deaf
  <2>2. CASE t = s
    <3>1. CASE Connect(s)  BY <2>2, <3>1 DEF Connect, Deaf
    <3>2. CASE Crash(s) \/ Disconnect_Close(s)
      BY <2>2, <3>2 DEF Crash, Disconnect_Close, CloseHandle, Deaf
    <3>3. CASE Disconnect_Done(s)
      BY <2>2, <3>3 DEF Disconnect_Done, EndSession, Deaf
    <3>4. CASE ~Connect(s) /\ ~Crash(s) /\ ~Disconnect_Close(s) /\ ~Disconnect_Done(s)
      <4>1. handler[s] # 0  BY <1>1, <3>4, OnlyConnects
      <4>2. UNCHANGED handler  BY <1>1, <3>4, ServiceMoves DEF Asking
      <4>3. app'[s].pc = "closing" => s \notin masterWatch /\ ~Alive(s)
        BY <1>1, <3>4, ClosesOnce DEF Deaf, Alive
      <4>4. QED  BY <1>1, <2>2, <4>1, <4>2, <4>3, ListsToWatch DEF Deaf
    <3>5. QED  BY <3>1, <3>2, <3>3, <3>4
  <2>3. QED  BY <2>1, <2>2
<1>2. ASSUME NEW k \in sessions, SessionTimeout(k) PROVE Deaf(t)'
  BY <1>2 DEF SessionTimeout, EndSession, mgrVars, Deaf
<1>3. QED  BY <1>1, <1>2, NextActs

\* A server whose session lives on hears of /master as before, or once it has listed it.
LEMMA OwnHears ==
    ASSUME TypeOK, NEW s \in Server, Acts(s), Alive(s), Alive(s)', UNCHANGED errs
    PROVE  /\ Hears(s) => Hears(s)'
           /\ Hears(s)' => Hears(s) \/ RegisterServer_List(s)
           /\ RegisterServer_List(s) => Hears(s)'
<1>1. queue \in [Server -> Seq(Event)] /\ "master" \in Event  BY DEF TypeOK, WatchTypeOK, Event
<1>2. ASSUME UNCHANGED <<masterWatch, queue>> PROVE Hears(s)' <=> Hears(s)
  BY <1>2 DEF Hears, Pending
<1>3. ASSUME CreateMasterZnode(s) \/ DeleteMasterZnode(wat[s].id)
      PROVE  Hears(s)' <=> Hears(s)
  <2>1. FireMasterWatches(masterWatch) /\ masterWatch' = {}
    BY <1>3 DEF CreateMasterZnode, DeleteMasterZnode
  <2>2. QED  BY <2>1, FireHears
<1>4. ASSUME NEW e \in Event, e # "master", Take(s, e), UNCHANGED masterWatch
      PROVE  Hears(s)' <=> Hears(s)
  <2>1. queue[s] # <<>> /\ queue'[s] = Tail(queue[s]) /\ Head(queue[s]) = e
    BY <1>1, <1>4 DEF Take
  <2>2. Pending(s, "master")' <=> Pending(s, "master")  BY <1>1, <1>4, <2>1, TailPending
  <2>3. QED  BY <1>4, <2>2 DEF Hears
<1>5. RegisterServer_List(s) => Hears(s)'  BY ListMoves DEF Hears
<1>6. CASE RegisterServer_Step(s)
  BY <1>2, <1>3, <1>5, <1>6, CountMoves, CreateMoves, FetchMoves, FirstMovesOn, TellMoves
  DEF RegisterServer_Step, watchVars
<1>7. CASE CompletionThread(s)
  <2>1. CASE SessionExpired(s) \/ ReplWatcher_List(s)
    <3>1. "expired" \in Event /\ "repl" \in Event  BY DEF Event
    <3>2. UNCHANGED masterWatch /\ (Take(s, "expired") \/ Take(s, "repl"))
      BY <2>1 DEF SessionExpired, ReplWatcher_List, Take
    <3>3. ~RegisterServer_List(s) \/ Hears(s)'  BY <1>5
    <3>4. QED  BY <1>4, <3>1, <3>2, <3>3
  <2>2. CASE ReplWatcher_Diff(s)  BY <1>2, <1>5, <2>2 DEF ReplWatcher_Diff, watchVars
  <2>3. CASE MasterWatcher_List(s)
    <3>1. Take(s, "master") /\ s \in masterWatch'  BY <2>3, WatListMoves
    <3>2. Pending(s, "master")
      <4>1. queue[s] # <<>> /\ Head(queue[s]) = "master" /\ queue[s] \in Seq(Event)
        BY <1>1, <3>1 DEF Take
      <4>2. 1 \in DOMAIN queue[s] /\ queue[s][1] = "master"  BY <4>1
      <4>3. QED  BY <4>2 DEF Pending
    <3>3. QED  BY <3>1, <3>2, <1>5 DEF Hears
  <2>4. CASE \/ MasterWatcher_Fetch(s) \/ MasterWatcher_End(s) \/ NodesIncrease(s)
             \/ NodesIncrease_Exists(s) \/ NodesDiscrease(s) \/ NodesDiscrease_Exists(s)
             \/ NodesDiscrease_Locked(s) \/ NodesDiscrease_Mode(s)
    <3>1. UNCHANGED ownRest
      BY <2>4, WatFetchMoves, EndMoves, IncreaseMoves, IncreaseExistsMoves, DiscreaseMoves,
         DiscreaseExistsMoves, DiscreaseLockedMoves, ModeMoves
    <3>2. QED  BY <1>2, <1>5, <3>1 DEF ownRest, watchVars
  <2>5. CASE NodesIncrease_Locked(s) \/ NodesIncrease_Again(s) \/ NodesDiscrease_Delete(s)
    BY <1>2, <1>3, <1>5, <2>5, IncreaseLockedMoves, AgainMoves, DeleteMoves DEF watchVars
  <2>6. QED
    BY <1>7, <2>1, <2>2, <2>3, <2>4, <2>5
    DEF CompletionThread, ReplWatcher_Step, MasterWatcher_Step
<1>8. CASE RegisterServer_Replication(s)  BY <1>2, <1>5, <1>8, ReplicationMoves
<1>9. CASE Asks(s)  BY <1>5, <1>9, AskHears
<1>10. QED  BY <1>6, <1>7, <1>8, <1>9, OwnSteps DEF Own

=============================================================================
