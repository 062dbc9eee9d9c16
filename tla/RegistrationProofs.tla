-------------------------- MODULE RegistrationProofs --------------------------
(***************************************************************************)
(* As long as no call is lost, and a server whose registration is delayed  *)
(* is not asked to register again before it has, a session owns one znode  *)
(* below /master at most, the one whose path the manager keeps, and a      *)
(* server that has left /master is not there.                              *)
(*                                                                         *)
(* Neither is inductive by itself: that zoo_delete hits the server's own   *)
(* znode rests on the copy nodes_* made of its path being up to date when  *)
(* it is used, that on register_server not running beside the watcher, and *)
(* that on the watcher being deaf until register_server has listed         *)
(* /master.  ManagerOf says so, of every server whose session lives.       *)
(*                                                                         *)
(* The second part is about the watch, and needs none of that: a manager   *)
(* that has a list of /master hears of every change made after it.         *)
(***************************************************************************)
EXTENDS ManagerProofs

\* No server delays its registration; or one that does, and waits, is not asked to
\* register again before it has.
NoDelays == \A s \in Server : Delays[s] \subseteq {FALSE}
Waiting(s) == my_master_znode_id[s] = DelayRegister
AsksOnce == \A s \in Server : Alive(s) /\ Waiting(s) => ~RegisterServer_Replication(s)
OneAtATime == NoDelays \/ AsksOnce

Resting == {"idle", "repl"}
Entered == {"entered_inc", "increase", "again", "entered_dec", "decrease", "mode", "delete"}

\* A server that has not listed /master yet knows of no child and hears of none.
Listless(s) ==
    \/ ~compeleted_register[s] /\ ~Waiting(s)
    \/ app[s].pc \in {"count", "create", "list"}
Unlisted(s) == Listless(s) =>
    /\ nodes[s] = {} /\ app[s].kids = {} /\ ~Hears(s)
    /\ wat[s].pc \in Resting /\ wat[s].kids = {} /\ wat[s].map = {}

\* How far the registration has come, and what my_master_znode_id says of it.
Progress(s) ==
    /\ app[s].pc = "count" \/ app[s].delay \/ Waiting(s) => TRUE \in Delays[s]
    /\ compeleted_register[s] \/ Waiting(s) => app[s].pc \notin {"count", "create"}
    /\ compeleted_register[s] => my_master_znode_id[s] \in {DeleteByMyself} \cup (Nat \ {0})
    /\ ~compeleted_register[s] /\ ~Waiting(s) =>
          /\ app[s].pc \in {"idle", "count", "create"}
          /\ my_master_znode_id[s] = NoZnode /\ ~i_am_master[s]

\* The manager knows its znode, and owns no other.
Known(s) ==
    Mine(s) = IF my_master_znode_id[s] > 0
              THEN {[seq |-> my_master_znode_id[s], uuid |-> s, sid |-> handler[s]]} ELSE {}

\* The path a nodes_* function copied is the path the manager keeps,
Copied(s) == wat[s].pc \in Entered => wat[s].id = my_master_znode_id[s]

\* and the server that comes back to /master is one that left it.
Away(s) ==
    /\ wat[s].pc = "again" => wat[s].id = DeleteByMyself
    /\ my_master_znode_id[s] = DeleteByMyself => s \in withdrew

ManagerOf(s) == Unlisted(s) /\ Progress(s) /\ Known(s) /\ Copied(s) /\ Away(s)
Managers == \A s \in Server : Alive(s) => ManagerOf(s)

\* What holds whatever calls are lost.
Grounds ==
    /\ TypeOK /\ Numbered /\ Sessions
    /\ \A s \in Server : Blank(s) /\ Deaf(s)

\* A call, once lost, remains lost.
LEMMA ErrsGrow == ASSUME TypeOK, Next, errs' = 0 PROVE UNCHANGED errs
<1> USE DEF TypeOK, BoundTypeOK
<1>1. ASSUME NEW s \in Server, Ok(s) \/ Err(s) \/ Drop(s) PROVE UNCHANGED errs
  BY <1>1 DEF Ok, Err, Drop
<1>2. ASSUME NEW s \in Server, AppThread(s) PROVE UNCHANGED errs
  <2>1. CASE RegisterServer_Step(s)
    BY <1>1, <2>1 DEF RegisterServer_Step, RegisterServer_Count, RegisterServer_Create,
       RegisterServer_List, RegisterServer_Fetch, RegisterServer_First, RegisterServer_Tell,
       boundVars
  <2>2. CASE Disconnect_Done(s) \/ GetSyncpoint_Read(s)
    BY <2>2 DEF Disconnect_Done, GetSyncpoint_Read, boundVars
  <2>3. QED  BY <1>2, <2>1, <2>2 DEF AppThread
<1>3. ASSUME NEW s \in Server, CompletionThread(s) PROVE UNCHANGED errs
  <2>1. CASE MasterWatcher_List(s) \/ MasterWatcher_Fetch(s)
    BY <1>1, <2>1 DEF MasterWatcher_List, MasterWatcher_Fetch, Read
  <2>2. CASE SessionExpired(s) \/ ReplWatcher_Step(s) \/ MasterWatcher_End(s) \/ NodesIncrease(s)
             \/ NodesDiscrease(s) \/ NodesDiscrease_Locked(s)
    BY <1>1, <2>2 DEF SessionExpired, ReplWatcher_Step, ReplWatcher_List, ReplWatcher_Diff,
       MasterWatcher_End, NodesIncrease, NodesDiscrease, NodesDiscrease_Locked, boundVars
  <2>3. CASE NodesIncrease_Exists(s) \/ NodesDiscrease_Exists(s) \/ NodesDiscrease_Mode(s)
             \/ NodesDiscrease_Delete(s)
    BY <1>1, <2>3 DEF NodesIncrease_Exists, NodesDiscrease_Exists, NodesDiscrease_Mode,
       NodesDiscrease_Delete
  <2>4. CASE NodesIncrease_Locked(s) \/ NodesIncrease_Again(s)
    BY <1>1, <2>4 DEF NodesIncrease_Locked, RegisterDelayed, NodesIncrease_Again
  <2>5. QED  BY <1>3, <2>1, <2>2, <2>3, <2>4 DEF CompletionThread, MasterWatcher_Step
<1>4. ASSUME NEW s \in Server, Application(s) PROVE UNCHANGED errs
  BY <1>1, <1>4 DEF Application, Connect, RegisterServer_Replication, Disconnect_Close,
     ChangeReplMode, GetSyncpoint, StartRepl, RmRepl, boundVars
<1>5. ASSUME NEW s \in Server, Crash(s) PROVE UNCHANGED errs  BY <1>5 DEF Crash
<1>6. ASSUME NEW k \in sessions, SessionTimeout(k) PROVE UNCHANGED errs
  BY <1>6 DEF SessionTimeout
<1>7. QED  BY <1>2, <1>3, <1>4, <1>5, <1>6 DEF Next

\* The grounds hold in every state.
LEMMA InitGrounds == Init => Grounds
<1> SUFFICES ASSUME Init PROVE Grounds
  OBVIOUS
<1>1. TypeOK  BY InitType
<1>2. Numbered /\ Sessions  BY DEF Init, Numbered, Sessions, Mine
<1>3. \A s \in Server : Blank(s) /\ Deaf(s)  BY DEF Init, Blank, Deaf
<1>4. QED  BY <1>1, <1>2, <1>3 DEF Grounds

LEMMA NextKeepsGrounds == ASSUME Grounds, [Next]_vars PROVE Grounds'
<1>1. CASE Next
  <2>1. TypeOK' /\ Sessions' /\ \A t \in Server : Blank(t)' /\ Deaf(t)'
    BY <1>1, NextKeepsType, SessionsKept, BlankKept, DeafKept DEF Grounds
  <2>2. Numbered'
    BY <1>1, MasterMoves, GrowsKeepsLowest DEF Grounds, TypeOK
  <2>3. QED  BY <2>1, <2>2 DEF Grounds
<1>2. CASE UNCHANGED vars
  <2>1. TypeOK'  BY <1>2, StutterKeepsType DEF Grounds
  <2>2. QED
    BY <1>2, <2>1 DEF Grounds, Numbered, Sessions, Mine, Blank, Deaf, vars, zkVars, watchVars,
       mgrVars, history
<1>3. QED  BY <1>1, <1>2

-----------------------------------------------------------------------------
(* What a server does to its own manager                                    *)

\* A step of a server whose session lives on, in a cluster that has lost no call.
OwnStep(s) ==
    /\ TypeOK /\ Acts(s) /\ Alive(s) /\ Alive(s)' /\ UNCHANGED errs
    /\ OneAtATime /\ ManagerOf(s)

\* An event of /master that is taken was pending.
LEMMA TakesPending == ASSUME TypeOK, NEW s \in Server, Take(s, "master") PROVE Hears(s)
<1>1. queue[s] \in Seq(Event) /\ queue[s] # <<>> /\ Head(queue[s]) = "master"
  BY DEF TypeOK, WatchTypeOK, Take
<1>2. 1 \in DOMAIN queue[s] /\ queue[s][1] = "master"  BY <1>1
<1>3. QED  BY <1>2 DEF Hears, Pending

\* The steps of the watcher that do not happen before register_server has listed /master.
Watches(s) ==
    \/ MasterWatcher_List(s) \/ MasterWatcher_Fetch(s) \/ MasterWatcher_End(s)
    \/ NodesIncrease(s) \/ NodesIncrease_Exists(s)
    \/ NodesIncrease_Locked(s) \/ NodesIncrease_Again(s)
    \/ NodesDiscrease(s) \/ NodesDiscrease_Exists(s)
    \/ NodesDiscrease_Locked(s) \/ NodesDiscrease_Mode(s) \/ NodesDiscrease_Delete(s)

LEMMA OwnIs ==
    ASSUME NEW s \in Server, OwnStep(s)
    PROVE  \/ RegisterServer_Count(s) \/ RegisterServer_Create(s) \/ RegisterServer_List(s)
           \/ RegisterServer_Fetch(s) \/ RegisterServer_First(s) \/ RegisterServer_Tell(s)
           \/ SessionExpired(s) \/ ReplWatcher_Step(s) \/ Watches(s)
           \/ RegisterServer_Replication(s) \/ Asks(s)
<1>1. Own(s)  BY OwnSteps DEF OwnStep
<1>2. QED
  BY <1>1 DEF Own, RegisterServer_Step, CompletionThread, MasterWatcher_Step, Watches

\* nodes_increase finds the registration delayed only if it is: then it is made.
LEMMA RegistersLate ==
    ASSUME NEW s \in Server, OwnStep(s), NodesIncrease_Locked(s)
    PROVE  /\ ~Listless(s) /\ wat[s].id = my_master_znode_id[s]
           /\ \/ /\ Waiting(s) /\ CreateMasterZnode(s)
                 /\ compeleted_register'[s] = TRUE /\ my_master_znode_id'[s] = nextSeq
              \/ UNCHANGED <<zkVars, watchVars, compeleted_register, my_master_znode_id>>
<1>1. wat[s].pc = "increase"  BY IncreaseLockedMoves DEF OwnStep
<1>2. ~Listless(s) /\ wat[s].id = my_master_znode_id[s]
  BY <1>1 DEF OwnStep, ManagerOf, Unlisted, Copied, Resting, Entered
<1>3. QED  BY <1>2, IncreaseLockedMoves DEF OwnStep, Waiting

\* And nothing else the watcher does makes it.
LEMMA RegistersOnly ==
    ASSUME NEW s \in Server, OwnStep(s), Watches(s)
    PROVE  \/ compeleted_register'[s] = compeleted_register[s]
           \/ Waiting(s) /\ my_master_znode_id'[s] = nextSeq
BY RegistersLate, WatListMoves, WatFetchMoves, EndMoves, IncreaseMoves, IncreaseExistsMoves,
   AgainMoves, DiscreaseMoves, DiscreaseExistsMoves, DiscreaseLockedMoves, ModeMoves, DeleteMoves
DEF OwnStep, Watches, ownRest

\* The watcher is at work only when register_server has listed /master, and leaves the
\* application thread and the state of the registration alone.
LEMMA WatchesListed ==
    ASSUME NEW s \in Server, OwnStep(s), Watches(s)
    PROVE  /\ ~Listless(s) /\ app'[s] = app[s]
           /\ compeleted_register[s] => compeleted_register'[s]
<1>1. ~Listless(s)
  <2>1. MasterWatcher_List(s) => Hears(s)  BY WatListMoves, TakesPending DEF OwnStep
  <2>2. ~MasterWatcher_List(s) => wat[s].pc \notin Resting
    BY WatFetchMoves, EndMoves, IncreaseMoves, IncreaseExistsMoves, IncreaseLockedMoves,
       AgainMoves, DiscreaseMoves, DiscreaseExistsMoves, DiscreaseLockedMoves, ModeMoves,
       DeleteMoves DEF OwnStep, Watches, Resting
  <2>3. QED  BY <2>1, <2>2 DEF OwnStep, ManagerOf, Unlisted
<1>2. UNCHANGED app
  BY IncreaseLockedMoves, WatListMoves, WatFetchMoves, EndMoves, IncreaseMoves,
     IncreaseExistsMoves, AgainMoves, DiscreaseMoves, DiscreaseExistsMoves,
     DiscreaseLockedMoves, ModeMoves, DeleteMoves DEF OwnStep, Watches, ownRest
<1>3. compeleted_register[s] => compeleted_register'[s]
  BY RegistersLate, WatListMoves, WatFetchMoves, EndMoves, IncreaseMoves,
     IncreaseExistsMoves, AgainMoves, DiscreaseMoves, DiscreaseExistsMoves,
     DiscreaseLockedMoves, ModeMoves, DeleteMoves DEF OwnStep, Watches, ownRest
<1>4. QED  BY <1>1, <1>2, <1>3

\* A server that begins to register has not begun before.
LEMMA BeginsAfresh ==
    ASSUME NEW s \in Server, OwnStep(s), RegisterServer_Replication(s)
    PROVE  /\ ~compeleted_register[s] /\ ~Waiting(s) /\ Listless(s)
           /\ app'[s].pc \in {"count", "create"}
           /\ app'[s].pc = "count" \/ app'[s].delay => TRUE \in Delays[s]
<1>1. ~Waiting(s)
  <2>1. CASE NoDelays  BY <2>1 DEF OwnStep, ManagerOf, Progress, NoDelays
  <2>2. CASE AsksOnce  BY <2>2 DEF OwnStep, AsksOnce
  <2>3. QED  BY <2>1, <2>2 DEF OwnStep, OneAtATime
<1>2. ~compeleted_register[s] /\ app'[s].delay \in Delays[s]
      /\ app'[s].pc = IF app'[s].delay THEN "count" ELSE "create"
  BY ReplicationMoves DEF OwnStep
<1>3. app'[s].delay \in BOOLEAN
  BY NextKeepsType, NextActs DEF OwnStep, TypeOK, ThreadTypeOK, AppState
<1>4. QED  BY <1>1, <1>2, <1>3 DEF Listless

\* The count of the children: the server waits, or goes on to create its znode.
LEMMA CountDecides ==
    ASSUME NEW s \in Server, OwnStep(s), RegisterServer_Count(s)
    PROVE  /\ ~compeleted_register[s] /\ ~Waiting(s) /\ Listless(s) /\ TRUE \in Delays[s]
           /\ \/ app'[s].pc = "list" /\ Waiting(s)'
              \/ app'[s].pc = "create" /\ my_master_znode_id'[s] = my_master_znode_id[s]
           /\ app'[s].kids = app[s].kids
<1>1. app[s].pc = "count"  BY CountMoves DEF OwnStep
<1>2. QED
  BY <1>1, CountMoves DEF OwnStep, ManagerOf, Progress, Listless, Waiting

\* What becomes of the path: it is the new znode's, a znode that was deleted, or kept.
Keeps(s) ==
    UNCHANGED <<zkVars, handler>> /\ my_master_znode_id'[s] = my_master_znode_id[s]
Gains(s) ==
    /\ \/ RegisterServer_Create(s) \/ NodesIncrease_Again(s)
       \/ NodesIncrease_Locked(s) /\ Waiting(s)
    /\ my_master_znode_id[s] <= 0 /\ CreateMasterZnode(s) /\ UNCHANGED handler
    /\ my_master_znode_id'[s] = nextSeq /\ compeleted_register'[s]
Leaves(s) ==
    /\ wat[s].pc = "delete" /\ wat'[s].pc \in {"idle", "dec"} /\ UNCHANGED handler
    /\ wat[s].id = my_master_znode_id[s]
    /\ DeleteMasterZnode(wat[s].id) /\ wat[s].id \in Seqs(master)
    /\ my_master_znode_id'[s] = DeleteByMyself /\ s \in withdrew' /\ compeleted_register'[s]

\* Or it says that the server waits.
Defers(s) ==
    /\ app[s].pc = "count" /\ app'[s].pc = "list" /\ UNCHANGED <<zkVars, handler>>
    /\ my_master_znode_id[s] <= 0 /\ my_master_znode_id'[s] = DelayRegister

\* A path that is a znode's, or says that the server left, is none of a server that waits.
LEMMA HasRegistered ==
    ASSUME NEW s \in Server, OwnStep(s), ~Listless(s),
           my_master_znode_id[s] = DeleteByMyself \/ my_master_znode_id[s] \in Seqs(master)
    PROVE  compeleted_register[s] = TRUE
<1>1. DelayRegister \notin Seqs(master) /\ DelayRegister # DeleteByMyself
  BY DEF OwnStep, TypeOK, ZkTypeOK, Znode, Seqs, DelayRegister, DeleteByMyself
<1>2. ~Waiting(s)  BY <1>1 DEF Waiting
<1>3. compeleted_register[s] \in BOOLEAN  BY DEF OwnStep, TypeOK, MgrTypeOK
<1>4. QED  BY <1>2, <1>3 DEF Listless

LEMMA OwnPath ==
    ASSUME NEW s \in Server, OwnStep(s)
    PROVE  Keeps(s) \/ Defers(s) \/ Gains(s) \/ Leaves(s)
<1> USE DEF OwnStep, ManagerOf
<1>1. CASE RegisterServer_Create(s)
  <2>1. my_master_znode_id[s] = NoZnode  BY <1>1, CreateMoves DEF Progress
  <2>2. my_master_znode_id[s] <= 0  BY <2>1 DEF NoZnode
  <2>3. QED  BY <1>1, <2>2, CreateMoves DEF Gains
<1>2. CASE NodesIncrease_Again(s)
  <2>1. my_master_znode_id[s] = DeleteByMyself
    BY <1>2, AgainMoves DEF Away, Copied, Entered
  <2>2. ~Listless(s)  BY <1>2, AgainMoves DEF Unlisted, Resting
  <2>3. compeleted_register[s] = TRUE  BY <2>1, <2>2, HasRegistered
  <2>4. compeleted_register'[s] = TRUE  BY <1>2, <2>3, AgainMoves
  <2>5. QED  BY <1>2, <2>1, <2>4, AgainMoves DEF Gains, DeleteByMyself
<1>3. CASE NodesDiscrease_Delete(s)
  <2>1. wat[s].pc = "delete" /\ wat[s].id = my_master_znode_id[s] /\ s \in withdrew'
    BY <1>3, DeleteMoves DEF Copied, Entered
  <2>2. CASE wat[s].id \in Seqs(master)
    <3>1. ~Listless(s)  BY <2>1 DEF Unlisted, Resting
    <3>2. compeleted_register[s] = TRUE  BY <2>1, <2>2, <3>1, HasRegistered
    <3>3. compeleted_register'[s] = TRUE  BY <1>3, <3>2, DeleteMoves
    <3>4. QED
      BY <1>3, <2>1, <2>2, <3>3, DeleteMoves DEF Leaves, Erases, WatRests, WatIdle
  <2>3. CASE wat[s].id \notin Seqs(master)  BY <1>3, <2>3, DeleteMoves DEF Keeps
  <2>4. QED  BY <2>2, <2>3
<1>4. CASE NodesIncrease_Locked(s)
  <2>1. UNCHANGED handler  BY <1>4, IncreaseLockedMoves
  <2>2. CASE /\ Waiting(s) /\ CreateMasterZnode(s) /\ compeleted_register'[s] = TRUE
             /\ my_master_znode_id'[s] = nextSeq
    BY <1>4, <2>1, <2>2 DEF Gains, Waiting, DelayRegister
  <2>3. CASE UNCHANGED <<zkVars, my_master_znode_id>>  BY <2>1, <2>3 DEF Keeps
  <2>4. QED  BY <1>4, <2>2, <2>3, RegistersLate
<1>5. CASE \/ MasterWatcher_List(s) \/ MasterWatcher_Fetch(s) \/ MasterWatcher_End(s)
           \/ NodesIncrease(s) \/ NodesIncrease_Exists(s) \/ NodesDiscrease(s)
           \/ NodesDiscrease_Exists(s) \/ NodesDiscrease_Locked(s) \/ NodesDiscrease_Mode(s)
  BY <1>5, WatListMoves, WatFetchMoves, EndMoves, IncreaseMoves, IncreaseExistsMoves,
     DiscreaseMoves, DiscreaseExistsMoves, DiscreaseLockedMoves, ModeMoves DEF Keeps, ownRest
<1>6. CASE \/ RegisterServer_List(s) \/ RegisterServer_Fetch(s) \/ RegisterServer_First(s)
           \/ RegisterServer_Tell(s) \/ SessionExpired(s) \/ ReplWatcher_Step(s)
           \/ RegisterServer_Replication(s) \/ Asks(s)
  BY <1>6, ListMoves, FetchMoves, FirstMovesOn, TellMoves, RestMoves, ReplicationMoves, AskMoves
  DEF Keeps
<1>7. CASE RegisterServer_Count(s)
  <2>1. my_master_znode_id[s] = NoZnode /\ UNCHANGED <<zkVars, handler>>
    BY <1>7, CountDecides, CountMoves DEF Progress
  <2>2. CASE Waiting(s)' /\ app'[s].pc = "list"
    BY <1>7, <2>1, <2>2, CountMoves DEF Defers, Waiting, NoZnode
  <2>3. CASE my_master_znode_id'[s] = my_master_znode_id[s]
    BY <1>7, <2>1, <2>3, CountMoves DEF Keeps
  <2>4. QED  BY <1>7, <2>2, <2>3, CountDecides
<1>8. QED  BY <1>1, <1>2, <1>3, <1>4, <1>5, <1>6, <1>7, OwnIs DEF Watches

\* The watcher's steps leave the registration made, or waiting, unless they make it.
LEMMA WatchesProgress ==
    ASSUME NEW s \in Server, OwnStep(s), Watches(s)
    PROVE  compeleted_register'[s] \/ Waiting(s)'
<1>1. ~Listless(s) /\ (compeleted_register[s] => compeleted_register'[s])
  BY WatchesListed
<1>2. ~Defers(s)  BY WatchesListed DEF Defers, Listless
<1>3. CASE compeleted_register[s]  BY <1>1, <1>3
<1>4. CASE Waiting(s)
  <2>1. CASE Keeps(s)  BY <1>4, <2>1 DEF Keeps, Waiting
  <2>2. QED  BY <1>2, <2>1, OwnPath DEF Gains, Leaves
<1>5. QED  BY <1>1, <1>3, <1>4 DEF Listless

LEMMA OwnUnlisted == ASSUME NEW s \in Server, OwnStep(s) PROVE Unlisted(s)'
<1> USE DEF OwnStep, ManagerOf
<1>1. CASE Watches(s)
  BY <1>1, WatchesListed, WatchesProgress DEF Unlisted, Listless
<1>2. CASE RegisterServer_List(s)
  <2>1. /\ compeleted_register[s] \/ Waiting(s)
        /\ app'[s].pc \in {"idle", "fetch"}
        /\ UNCHANGED <<compeleted_register, my_master_znode_id>>
    BY <1>2, ListMoves DEF AppRests, AppIdle, Progress
  <2>2. QED  BY <2>1 DEF Unlisted, Listless, Waiting
<1>3. CASE RegisterServer_Fetch(s) \/ RegisterServer_First(s) \/ RegisterServer_Tell(s)
  <2>1. /\ compeleted_register[s] \/ Waiting(s)
        /\ app'[s].pc \in {"fetch", "first", "tell", "idle"}
        /\ UNCHANGED <<compeleted_register, my_master_znode_id>>
    BY <1>3, FetchMoves, FirstMovesOn, TellMoves DEF AppRests, AppGoes, AppIdle, Progress
  <2>2. QED  BY <2>1 DEF Unlisted, Listless, Waiting
<1>4. CASE RegisterServer_Count(s) \/ RegisterServer_Create(s) \/ RegisterServer_Replication(s)
  <2>1. /\ Listless(s) /\ ~RegisterServer_List(s) /\ UNCHANGED <<nodes, wat>>
        /\ app[s].kids = {} => app'[s].kids = {}
    BY <1>4, CountMoves, CreateMoves, ReplicationMoves, BeginsAfresh, ListMoves
    DEF Listless, AppGoes
  <2>2. ~Hears(s)'  BY <2>1, OwnHears DEF Unlisted
  <2>3. QED  BY <2>1, <2>2 DEF Unlisted
<1>5. CASE SessionExpired(s) \/ ReplWatcher_Step(s) \/ Asks(s)
  <2>1. /\ \/ wat'[s] = wat[s]
           \/ wat'[s].pc \in {"idle", "repl"} /\ wat'[s].kids = {} /\ wat'[s].map = {}
        /\ UNCHANGED <<nodes, compeleted_register, my_master_znode_id>>
        /\ UNCHANGED app \/ AppAsks(s)
    BY <1>5, RestMoves, AskMoves
  <2>2. CASE Listless(s)
    <3>1. ~RegisterServer_List(s)
      BY <1>5, <2>1, ListMoves DEF AppAsks, Outside, AppRests, AppIdle
    <3>2. ~Hears(s)'  BY <2>1, <2>2, <3>1, OwnHears DEF Unlisted
    <3>3. app'[s].kids \subseteq app[s].kids  BY <2>1 DEF AppAsks
    <3>4. QED  BY <2>1, <2>2, <3>2, <3>3 DEF Unlisted, Resting
  <2>3. CASE ~Listless(s)
    <3>1. app'[s].pc \in {"count", "create", "list"} => app[s].pc \in {"count", "create", "list"}
      BY <2>1 DEF AppAsks, Outside
    <3>2. QED  BY <2>1, <2>3, <3>1 DEF Unlisted, Listless, Waiting
  <2>4. QED  BY <2>2, <2>3
<1>6. QED  BY <1>1, <1>2, <1>3, <1>4, <1>5, OwnIs

LEMMA OwnProgress == ASSUME NEW s \in Server, OwnStep(s) PROVE Progress(s)'
<1> USE DEF OwnStep, ManagerOf, Progress
<1> nextSeq \in Nat \ {0}  BY DEF TypeOK, ZkTypeOK
<1> compeleted_register[s] \in BOOLEAN /\ compeleted_register'[s] \in BOOLEAN
  BY NextKeepsType, NextActs DEF TypeOK, MgrTypeOK
<1>1. CASE Watches(s)
  <2>1. ~Listless(s) /\ app'[s] = app[s] /\ (compeleted_register'[s] \/ Waiting(s)')
    BY <1>1, WatchesListed, WatchesProgress
  <2>2. compeleted_register'[s] => my_master_znode_id'[s] \in {DeleteByMyself} \cup (Nat \ {0})
    <3>1. CASE Gains(s) \/ Leaves(s)  BY <3>1 DEF Gains, Leaves
    <3>2. CASE Keeps(s)
      <4>1. CASE compeleted_register[s]  BY <3>2, <4>1 DEF Keeps
      <4>2. CASE ~compeleted_register[s]
        BY <1>1, <3>2, <4>2, RegistersOnly DEF Keeps, Waiting, DelayRegister
      <4>3. QED  BY <4>1, <4>2
    <3>3. QED  BY <2>1, <3>1, <3>2, OwnPath DEF Defers, Listless
  <2>3. Waiting(s)' => Waiting(s)
    <3>1. CASE Keeps(s)  BY <3>1 DEF Keeps, Waiting
    <3>2. CASE Gains(s) \/ Leaves(s)
      BY <3>2 DEF Gains, Leaves, Waiting, DelayRegister, DeleteByMyself
    <3>3. QED  BY <2>1, <3>1, <3>2, OwnPath DEF Defers, Listless
  <2>4. app[s].pc \notin {"count", "create"} /\ (compeleted_register[s] \/ Waiting(s))
    BY <2>1 DEF Listless
  <2>5. QED  BY <2>1, <2>2, <2>3, <2>4
<1>2. CASE RegisterServer_Create(s)
  <2>1. /\ app'[s].pc = "list" /\ app'[s].delay = app[s].delay /\ compeleted_register'[s]
        /\ my_master_znode_id'[s] = nextSeq
    BY <1>2, CreateMoves DEF AppGoes
  <2>2. ~Waiting(s)'  BY <2>1 DEF Waiting, DelayRegister
  <2>3. QED  BY <2>1, <2>2
<1>3. CASE RegisterServer_Replication(s)
  BY <1>3, BeginsAfresh, ReplicationMoves DEF Waiting
<1>4. CASE \/ RegisterServer_List(s) \/ RegisterServer_Fetch(s) \/ RegisterServer_First(s)
           \/ RegisterServer_Tell(s)
  <2>1. compeleted_register[s] \/ Waiting(s)
    BY <1>4, ListMoves, FetchMoves, FirstMovesOn, TellMoves
  <2>2. /\ app'[s].pc \notin {"count", "create"} /\ (app'[s].delay => app[s].delay)
        /\ UNCHANGED <<compeleted_register, my_master_znode_id>>
    BY <1>4, ListMoves, FetchMoves, FirstMovesOn, TellMoves DEF AppRests, AppGoes, AppIdle
  <2>3. QED  BY <2>1, <2>2 DEF Waiting
<1>5. CASE SessionExpired(s) \/ ReplWatcher_Step(s) \/ Asks(s)
  <2>1. UNCHANGED app \/ AppAsks(s)  BY <1>5, RestMoves, AskMoves
  <2>2. UNCHANGED <<compeleted_register, my_master_znode_id, i_am_master>>
    BY <1>5, RestMoves, AskMoves
  <2>3. QED  BY <2>1, <2>2 DEF AppAsks, Outside, Waiting
<1>6. CASE RegisterServer_Count(s)
  BY <1>6, CountDecides, CountMoves DEF Waiting
<1>7. QED  BY <1>1, <1>2, <1>3, <1>4, <1>5, <1>6, OwnIs

LEMMA OwnKnown ==
    ASSUME NEW s \in Server, OwnStep(s), Numbered, Sessions PROVE Known(s)'
<1> USE DEF OwnStep, ManagerOf
<1>1. CASE Keeps(s)  BY <1>1 DEF Keeps, Known, Mine, zkVars
<1>2. CASE Gains(s)
  <2>1. /\ Mine(s) = {}
        /\ master' = master \cup {[seq |-> nextSeq, uuid |-> s, sid |-> handler[s]]}
        /\ handler'[s] = handler[s] /\ my_master_znode_id'[s] = nextSeq
    <3>1. ~(my_master_znode_id[s] > 0)  BY <1>2 DEF Gains, TypeOK, MgrTypeOK
    <3>2. QED  BY <1>2, <3>1 DEF Gains, Known, CreateMasterZnode
  <2>2. Mine(s)' = {[seq |-> nextSeq, uuid |-> s, sid |-> handler[s]]}  BY <2>1 DEF Mine
  <2>3. nextSeq > 0  BY DEF TypeOK, ZkTypeOK
  <2>4. QED  BY <2>1, <2>2, <2>3 DEF Known
<1>3. CASE Leaves(s)
  <2>1. /\ master' = {z \in master : z.seq # my_master_znode_id[s]} /\ handler'[s] = handler[s]
        /\ my_master_znode_id'[s] = DeleteByMyself
    BY <1>3 DEF Leaves, DeleteMasterZnode
  <2>2. \A z \in Mine(s) : z.seq = my_master_znode_id[s]  BY DEF Known
  <2>3. Mine(s)' = {}  BY <2>1, <2>2 DEF Mine
  <2>4. ~(DeleteByMyself > 0)  BY DEF DeleteByMyself
  <2>5. QED  BY <2>1, <2>3, <2>4 DEF Known
<1>4. CASE Defers(s)
  <2>1. /\ handler'[s] = handler[s] /\ master' = master
        /\ ~(my_master_znode_id[s] > 0) /\ ~(my_master_znode_id'[s] > 0)
    BY <1>4 DEF Defers, zkVars, DelayRegister, TypeOK, MgrTypeOK
  <2>2. QED  BY <2>1 DEF Known, Mine
<1>5. QED  BY <1>1, <1>2, <1>3, <1>4, OwnPath

LEMMA OwnCopied == ASSUME NEW s \in Server, OwnStep(s) PROVE Copied(s)'
<1> USE DEF OwnStep, ManagerOf, Copied, Entered
<1>1. CASE Watches(s)
  <2>1. CASE \/ MasterWatcher_List(s) \/ MasterWatcher_Fetch(s) \/ MasterWatcher_End(s)
             \/ NodesIncrease(s) \/ NodesIncrease_Exists(s)
    BY <2>1, WatListMoves, WatFetchMoves, EndMoves, IncreaseMoves, IncreaseExistsMoves
    DEF WatRests, WatIdle, WatGoes, Inserts, Enters, ownRest
  <2>2. CASE NodesIncrease_Locked(s)
    <3>1. CASE Inserts(s)  BY <3>1 DEF Inserts
    <3>2. CASE WatGoes(s, "again") /\ wat[s].id = DeleteByMyself
      <4>1. wat[s].id = my_master_znode_id[s]  BY <2>2, RegistersLate
      <4>2. ~Waiting(s)  BY <3>2, <4>1 DEF Waiting, DelayRegister, DeleteByMyself
      <4>3. my_master_znode_id'[s] = my_master_znode_id[s]  BY <2>2, <4>2, RegistersLate
      <4>4. QED  BY <3>2, <4>1, <4>3 DEF WatGoes
    <3>3. QED  BY <2>2, <3>1, <3>2, IncreaseLockedMoves
  <2>3. CASE NodesIncrease_Again(s)  BY <2>3, AgainMoves DEF Inserts
  <2>4. CASE \/ NodesDiscrease(s) \/ NodesDiscrease_Exists(s) \/ NodesDiscrease_Locked(s)
             \/ NodesDiscrease_Mode(s) \/ NodesDiscrease_Delete(s)
    BY <2>4, DiscreaseMoves, DiscreaseExistsMoves, DiscreaseLockedMoves, ModeMoves, DeleteMoves
    DEF WatRests, WatIdle, WatGoes, Erases, Enters, ownRest
  <2>5. QED  BY <1>1, <2>1, <2>2, <2>3, <2>4 DEF Watches
<1>2. CASE RegisterServer_Create(s) \/ RegisterServer_Count(s)
  BY <1>2, CreateMoves, CountMoves DEF Unlisted, Listless, Resting
<1>3. CASE \/ RegisterServer_List(s) \/ RegisterServer_Fetch(s) \/ RegisterServer_First(s)
           \/ RegisterServer_Tell(s) \/ RegisterServer_Replication(s) \/ Asks(s)
  BY <1>3, ListMoves, FetchMoves, FirstMovesOn, TellMoves, ReplicationMoves, AskMoves
<1>4. CASE SessionExpired(s) \/ ReplWatcher_Step(s)  BY <1>4, RestMoves
<1>5. QED  BY <1>1, <1>2, <1>3, <1>4, OwnIs

\* A server that has left /master has left it until it connects anew.
LEMMA OwnWithdraws == ASSUME NEW s \in Server, OwnStep(s) PROVE withdrew \subseteq withdrew'
BY OwnIs, CountMoves, CreateMoves, ListMoves, FetchMoves, FirstMovesOn, TellMoves,
   ReplicationMoves, AskMoves, RestMoves, WatListMoves, WatFetchMoves, EndMoves, IncreaseMoves,
   IncreaseExistsMoves, IncreaseLockedMoves, AgainMoves, DiscreaseMoves, DiscreaseExistsMoves,
   DiscreaseLockedMoves, ModeMoves, DeleteMoves DEF OwnStep, Watches, ownRest

LEMMA OwnAway == ASSUME NEW s \in Server, OwnStep(s) PROVE Away(s)'
<1> USE DEF OwnStep, ManagerOf, Away
<1>1. wat'[s].pc = "again" => wat'[s].id = DeleteByMyself
  <2>1. CASE Watches(s)
    <3>1. CASE \/ MasterWatcher_List(s) \/ MasterWatcher_Fetch(s) \/ MasterWatcher_End(s)
               \/ NodesIncrease(s) \/ NodesIncrease_Exists(s)
      BY <3>1, WatListMoves, WatFetchMoves, EndMoves, IncreaseMoves, IncreaseExistsMoves
      DEF WatRests, WatIdle, WatGoes, Inserts, Enters
    <3>2. CASE NodesIncrease_Locked(s) \/ NodesIncrease_Again(s)
      BY <3>2, IncreaseLockedMoves, AgainMoves DEF WatGoes, Inserts
    <3>3. CASE \/ NodesDiscrease(s) \/ NodesDiscrease_Exists(s) \/ NodesDiscrease_Locked(s)
               \/ NodesDiscrease_Mode(s) \/ NodesDiscrease_Delete(s)
      BY <3>3, DiscreaseMoves, DiscreaseExistsMoves, DiscreaseLockedMoves, ModeMoves, DeleteMoves
      DEF WatRests, WatIdle, WatGoes, Erases, Enters
    <3>4. QED  BY <2>1, <3>1, <3>2, <3>3 DEF Watches
  <2>2. CASE \/ RegisterServer_Count(s) \/ RegisterServer_Create(s) \/ RegisterServer_List(s)
             \/ RegisterServer_Fetch(s) \/ RegisterServer_First(s) \/ RegisterServer_Tell(s)
             \/ RegisterServer_Replication(s) \/ Asks(s)
    BY <2>2, CountMoves, CreateMoves, ListMoves, FetchMoves, FirstMovesOn, TellMoves,
       ReplicationMoves, AskMoves
  <2>3. CASE SessionExpired(s) \/ ReplWatcher_Step(s)  BY <2>3, RestMoves
  <2>4. QED  BY <2>1, <2>2, <2>3, OwnIs
<1>2. withdrew \subseteq withdrew'  BY OwnWithdraws
<1>3. my_master_znode_id'[s] = DeleteByMyself => s \in withdrew'
  <2>1. CASE Keeps(s)  BY <1>2, <2>1 DEF Keeps
  <2>2. CASE Gains(s)  BY <2>2 DEF Gains, DeleteByMyself, TypeOK, ZkTypeOK
  <2>3. CASE Leaves(s)  BY <2>3 DEF Leaves
  <2>4. CASE Defers(s)  BY <2>4 DEF Defers, DelayRegister, DeleteByMyself
  <2>5. QED  BY <2>1, <2>2, <2>3, <2>4, OwnPath
<1>4. QED  BY <1>1, <1>3

-----------------------------------------------------------------------------
(* What the others do to it                                                 *)

\* No other server touches its znode: whoever deletes one deletes its own.
LEMMA OthersSpareMine ==
    ASSUME Grounds, Managers, NEW s \in Server, Acts(s), NEW t \in Server, t # s, Alive(t)
    PROVE  Mine(t)' = Mine(t)
<1> USE DEF Grounds
<1>1. handler'[t] = handler[t]  BY OthersStill DEF Still
<1>2. handler[t] # 0 /\ (handler[s] = handler[t] => FALSE)
  BY DEF Sessions, Alive, TypeOK, ZkTypeOK
<1>3. CASE UNCHANGED <<zkVars, handler>> \/ Connect(s) \/ Crash(s)
  <2>1. UNCHANGED master  BY <1>3 DEF zkVars, Connect, Crash
  <2>2. QED  BY <1>1, <2>1 DEF Mine
<1>4. CASE CreateMasterZnode(s)
  <2>1. master' = master \cup {[seq |-> nextSeq, uuid |-> s, sid |-> handler[s]]}
    BY <1>4 DEF CreateMasterZnode
  <2>2. QED  BY <1>1, <1>2, <2>1 DEF Mine
<1>5. CASE /\ Alive(s) /\ wat[s].pc = "delete" /\ wat[s].id \in Seqs(master)
           /\ DeleteMasterZnode(wat[s].id)
  <2>1. wat[s].id = my_master_znode_id[s] /\ Known(s)
    BY <1>5 DEF Managers, ManagerOf, Copied, Entered
  <2>2. PICK y \in master : y.seq = wat[s].id  BY <1>5 DEF Seqs
  <2>3. my_master_znode_id[s] > 0  BY <2>1, <2>2 DEF Numbered
  <2>4. PICK x \in master : x.seq = my_master_znode_id[s] /\ x.sid = handler[s]
    BY <2>1, <2>3 DEF Known, Mine
  <2>5. \A z \in master : z.seq = wat[s].id => z.sid = handler[s]
    BY <2>1, <2>4 DEF Numbered
  <2>6. master' = {z \in master : z.seq # wat[s].id}  BY <1>5 DEF DeleteMasterZnode
  <2>7. QED  BY <1>1, <1>2, <2>5, <2>6 DEF Mine
<1>6. CASE Disconnect_Done(s)
  <2>1. master' = {z \in master : z.sid # handler[s]}  BY <1>6 DEF Disconnect_Done, EndSession
  <2>2. QED  BY <1>1, <1>2, <2>1 DEF Mine
<1>7. QED  BY <1>3, <1>4, <1>5, <1>6, ServiceMoves DEF Asking

\* A manager nothing was done to, whose znode is as it was, is as it was.
LEMMA SparedManager ==
    ASSUME NEW t \in Server, ManagerOf(t), Still(t), Hears(t)' <=> Hears(t), Mine(t)' = Mine(t)
    PROVE  ManagerOf(t)'
BY DEF ManagerOf, Still, Unlisted, Listless, Waiting, Progress, Known, Copied, Away

\* A manager that has just connected has done nothing yet.
LEMMA NewManager ==
    ASSUME Grounds, NEW t \in Server, Connect(t)
    PROVE  ManagerOf(t)'
<1> USE DEF Grounds
<1>1. /\ UNCHANGED <<master, i_am_master, compeleted_register, my_master_znode_id, nodes, app, wat,
                     withdrew, masterWatch>>
      /\ handler[t] = 0 /\ handler'[t] = nextSid /\ queue'[t] = <<>>
  BY DEF Connect, history, TypeOK, MgrTypeOK, WatchTypeOK
<1>2. /\ ~i_am_master[t] /\ ~compeleted_register[t] /\ my_master_znode_id[t] = NoZnode
      /\ nodes[t] = {} /\ app[t] = AppIdle /\ wat[t] = WatIdle /\ t \notin masterWatch
  BY <1>1 DEF Blank, Deaf
<1>3. ~Hears(t)'  BY <1>1, <1>2 DEF Hears, Pending
<1>4. Unlisted(t)' /\ Copied(t)'
  BY <1>1, <1>2, <1>3 DEF Unlisted, Copied, AppIdle, WatIdle, Resting, Entered
<1>5. Progress(t)'  BY <1>1, <1>2 DEF Progress, Waiting, NoZnode, DelayRegister, AppIdle
<1>6. Away(t)'  BY <1>1, <1>2 DEF Away, WatIdle, NoZnode, DeleteByMyself
<1>7. Known(t)'
  <2>1. \A z \in master : z.sid # nextSid
    BY DEF Sessions, TypeOK, ZkTypeOK, Znode
  <2>2. Mine(t)' = {}  BY <1>1, <2>1 DEF Mine
  <2>3. ~(my_master_znode_id'[t] > 0)  BY <1>1, <1>2 DEF NoZnode
  <2>4. QED  BY <2>2, <2>3 DEF Known
<1>8. QED  BY <1>4, <1>5, <1>6, <1>7 DEF ManagerOf

LEMMA ManagersKept ==
    ASSUME Grounds, OneAtATime, Managers, Next, UNCHANGED errs
    PROVE  Managers'
<1> SUFFICES ASSUME NEW t \in Server, Alive(t)' PROVE ManagerOf(t)'
  BY DEF Managers
<1>1. TypeOK /\ Numbered /\ Sessions  BY DEF Grounds
<1>2. ASSUME NEW s \in Server, Acts(s) PROVE ManagerOf(t)'
  <2>1. CASE t = s /\ Connect(s)  BY <2>1, NewManager
  <2>2. CASE Alive(t) /\ t = s
    <3>1. OwnStep(s)  BY <1>1, <1>2, <2>2 DEF OwnStep, Managers
    <3>2. QED
      BY <1>1, <2>2, <3>1, OwnUnlisted, OwnProgress, OwnKnown, OwnCopied, OwnAway DEF ManagerOf
  <2>3. CASE Alive(t) /\ t # s
    BY <1>1, <1>2, <2>3, OthersStill, OthersHear, OthersSpareMine, SparedManager DEF Managers
  <2>4. QED  BY <1>1, <1>2, <2>1, <2>2, <2>3, LivesOn
<1>3. ASSUME NEW k \in sessions, SessionTimeout(k) PROVE ManagerOf(t)'
  <2>1. /\ Alive(t) /\ Still(t) /\ (Hears(t)' <=> Hears(t))
        /\ master' = {z \in master : z.sid # k} /\ handler[t] # k
    BY <1>1, <1>3, LivesOnAfterTimeout
  <2>2. Mine(t)' = Mine(t)  BY <2>1 DEF Mine, Still
  <2>3. QED  BY <2>1, <2>2, SparedManager DEF Managers
<1>4. QED  BY <1>2, <1>3, NextActs

-----------------------------------------------------------------------------
(* The znodes of a session                                                  *)

\* A znode is created only by a server that has none.
LEMMA CreatesAlone ==
    ASSUME Grounds, OneAtATime, Managers, NEW s \in Server, Acts(s), UNCHANGED errs
    PROVE  \/ master' \subseteq master
           \/ /\ Mine(s) = {}
              /\ master' = master \cup {[seq |-> nextSeq, uuid |-> s, sid |-> handler[s]]}
<1> USE DEF Grounds
<1>1. CASE CreateMasterZnode(s) /\ Alive(s) /\ UNCHANGED handler
  <2>1. Alive(s)'
    <3>1. ~(app'[s].pc = "closing")
      <4>1. ~Disconnect_Close(s)
        <5>1. ASSUME Disconnect_Close(s) PROVE FALSE
          <6>1. UNCHANGED nextSeq  BY <5>1 DEF Disconnect_Close, zkVars
          <6>2. QED  BY <1>1, <6>1 DEF CreateMasterZnode, TypeOK, ZkTypeOK
        <5>2. QED  BY <5>1
      <4>2. QED  BY <1>1, <4>1, ClosesOnce DEF Alive
    <3>2. QED  BY <1>1, <3>1 DEF CreateMasterZnode, Alive
  <2>2. OwnStep(s)  BY <1>1, <2>1 DEF OwnStep, Managers
  <2>3. nextSeq' = nextSeq + 1 /\ nextSeq \in Nat
    BY <1>1 DEF CreateMasterZnode, TypeOK, ZkTypeOK
  <2>4. Gains(s)
    BY <2>2, <2>3, OwnPath DEF Keeps, Defers, Leaves, DeleteMasterZnode, zkVars
  <2>5. ~(my_master_znode_id[s] > 0)  BY <2>4 DEF Gains, TypeOK, MgrTypeOK
  <2>6. Mine(s) = {}  BY <2>2, <2>5 DEF OwnStep, ManagerOf, Known
  <2>7. QED  BY <1>1, <2>6 DEF CreateMasterZnode
<1>2. CASE ~(CreateMasterZnode(s) /\ Alive(s) /\ UNCHANGED handler)
  BY <1>2, ServiceMoves DEF Asking, zkVars, Connect, DeleteMasterZnode, Crash, Disconnect_Done,
     EndSession
<1>3. QED  BY <1>1, <1>2

\* The invariant: it says nothing of a cluster that has lost a call.
RegistrationInv == Grounds /\ (errs = 0 => Managers /\ OneZnodePerSession)

LEMMA InitRegistration == Init => RegistrationInv
<1> SUFFICES ASSUME Init PROVE RegistrationInv
  OBVIOUS
<1>1. Grounds  BY InitGrounds
<1>2. Managers /\ OneZnodePerSession  BY DEF Init, Managers, Alive, OneZnodePerSession
<1>3. QED  BY <1>1, <1>2 DEF RegistrationInv

LEMMA NextKeepsRegistration ==
    ASSUME RegistrationInv, [Next]_vars, [OneAtATime]_vars PROVE RegistrationInv'
<1>1. Grounds'  BY NextKeepsGrounds DEF RegistrationInv
<1>2. CASE Next /\ OneAtATime /\ errs' = 0
  <2>1. Grounds /\ UNCHANGED errs  BY <1>2, ErrsGrow DEF RegistrationInv, Grounds
  <2>2. Managers /\ OneZnodePerSession  BY <1>2, <2>1 DEF RegistrationInv
  <2>3. Managers'  BY <1>2, <2>1, <2>2, ManagersKept
  <2>4. OneZnodePerSession'
    <3>1. ASSUME NEW s \in Server, Acts(s) PROVE OneZnodePerSession'
      <4>1. CASE master' \subseteq master  BY <2>2, <4>1 DEF OneZnodePerSession
      <4>2. CASE /\ Mine(s) = {}
                 /\ master' = master \cup {[seq |-> nextSeq, uuid |-> s, sid |-> handler[s]]}
        BY <2>2, <4>2 DEF OneZnodePerSession, Mine
      <4>3. QED  BY <1>2, <2>1, <2>2, <3>1, <4>1, <4>2, CreatesAlone
    <3>2. ASSUME NEW k \in sessions, SessionTimeout(k) PROVE OneZnodePerSession'
      BY <2>2, <3>2 DEF SessionTimeout, EndSession, OneZnodePerSession
    <3>3. QED  BY <1>2, <3>1, <3>2, NextActs
  <2>5. QED  BY <1>1, <2>3, <2>4 DEF RegistrationInv
<1>3. CASE UNCHANGED vars
  <2>1. UNCHANGED <<zkVars, masterWatch, queue, mgrVars, app, wat, withdrew, errs>>
    BY <1>3 DEF vars, watchVars, history, boundVars
  <2>2. Managers' <=> Managers
    BY <2>1 DEF zkVars, mgrVars, Managers, Alive, ManagerOf, Unlisted, Listless, Hears, Pending,
       Waiting, Progress, Known, Mine, Copied, Away
  <2>3. OneZnodePerSession' <=> OneZnodePerSession  BY <2>1 DEF zkVars, OneZnodePerSession
  <2>4. QED  BY <1>1, <2>1, <2>2, <2>3 DEF RegistrationInv
<1>4. QED  BY <1>1, <1>2, <1>3 DEF RegistrationInv

LEMMA RegistrationHolds == Spec /\ [][OneAtATime]_vars => []RegistrationInv
<1>1. RegistrationInv /\ [Next]_vars /\ [OneAtATime]_vars => RegistrationInv'
  BY NextKeepsRegistration
<1>2. QED  BY <1>1, InitRegistration, PTL DEF Spec

\* While no call has been lost, and a server whose registration is delayed is not asked
\* to register again before it has, no session owns two znodes below /master, for any
\* number of servers, whoever crashes, leaves, comes back or is timed out: the zoo_delete
\* of nodes_discrease leaves nothing behind.
THEOREM OneZnode == Spec /\ [][OneAtATime]_vars => [](errs = 0 => OneZnodePerSession)
<1>1. RegistrationInv => (errs = 0 => OneZnodePerSession)  BY DEF RegistrationInv
<1>2. QED  BY <1>1, RegistrationHolds, PTL

\* And a server that has noted that it left /master is not there, until it comes back.
THEOREM StaysOut == Spec /\ [][OneAtATime]_vars => [](errs = 0 => DeregisteredStaysOut)
<1>1. RegistrationInv => (errs = 0 => DeregisteredStaysOut)
  <2> SUFFICES ASSUME RegistrationInv, errs = 0, NEW s \in Server, Alive(s),
                      my_master_znode_id[s] = DeleteByMyself
               PROVE  \A z \in master : z.sid # handler[s]
    BY DEF DeregisteredStaysOut
  <2>1. Mine(s) = {}  BY DEF RegistrationInv, Managers, ManagerOf, Known, DeleteByMyself
  <2>2. QED  BY <2>1 DEF Mine
<1>2. QED  BY <1>1, RegistrationHolds, PTL

-----------------------------------------------------------------------------
(* The watch on /master, also when registrations are delayed                *)

\* What a server has done once it registered or tried: its path says so, its watcher
\* has copied none that is older, and it hears of /master unless it is about to list it.
Starting == {"count", "create", "list"}
Listening(s) == my_master_znode_id[s] # NoZnode /\ app[s].pc \notin Starting => Hears(s)
Noted(s) ==
    /\ Mine(s) # {} => my_master_znode_id[s] # NoZnode
    /\ wat[s].pc \in Entered /\ wat[s].id # NoZnode => my_master_znode_id[s] # NoZnode
    /\ wat[s].pc = "again" => wat[s].id = DeleteByMyself
Listeners == \A s \in Server : Alive(s) => Listening(s) /\ Noted(s)

\* A step of a server whose session lives on, in a cluster that has lost no call.
LiveStep(s) ==
    /\ Grounds /\ Acts(s) /\ Alive(s) /\ Alive(s)' /\ UNCHANGED errs
    /\ Listening(s) /\ Noted(s)

\* Only the listing of /master gives the application thread back.
LEMMA StartsToList ==
    ASSUME NEW s \in Server, LiveStep(s), app[s].pc \in Starting, app'[s].pc \notin Starting
    PROVE  RegisterServer_List(s)
<1> USE DEF LiveStep, Grounds, Starting
<1>1. ~RegisterServer_Count(s)  BY CountMoves
<1>2. ~RegisterServer_Create(s)  BY CreateMoves DEF AppGoes
<1>3. ~RegisterServer_Fetch(s) /\ ~RegisterServer_First(s) /\ ~RegisterServer_Tell(s)
      /\ ~RegisterServer_Replication(s)
  BY FetchMoves, FirstMovesOn, TellMoves, ReplicationMoves
<1>4. app'[s].pc # app[s].pc  OBVIOUS
<1>5. ~SessionExpired(s) /\ ~ReplWatcher_Step(s) /\ ~Asks(s)
  BY <1>4, RestMoves, AskMoves DEF AppAsks, Outside
<1>6. ~Watches(s)
  BY <1>4, WatListMoves, WatFetchMoves, EndMoves, IncreaseMoves, IncreaseExistsMoves,
     IncreaseLockedMoves, AgainMoves, DiscreaseMoves, DiscreaseExistsMoves, DiscreaseLockedMoves,
     ModeMoves, DeleteMoves DEF Watches, ownRest
<1>7. QED
  BY <1>1, <1>2, <1>3, <1>5, <1>6, OwnSteps
  DEF Own, RegisterServer_Step, CompletionThread, MasterWatcher_Step, Watches

\* What becomes of the path, whether or not registrations are delayed.
Waits(s) == app[s].pc = "count" /\ app'[s].pc \in Starting /\ UNCHANGED <<zkVars, handler>>
            /\ my_master_znode_id'[s] \in {my_master_znode_id[s], DelayRegister}
Creates(s) == /\ \/ app[s].pc = "create" /\ app'[s].pc = "list"
                 \/ wat[s].pc \in Entered /\ wat[s].id # NoZnode
              /\ UNCHANGED handler /\ my_master_znode_id'[s] = nextSeq
Deletes(s) == /\ wat[s].pc = "delete" /\ wat[s].id \in Seqs(master)
              /\ UNCHANGED handler /\ DeleteMasterZnode(wat[s].id)
              /\ my_master_znode_id'[s] = DeleteByMyself

LEMMA LivePath ==
    ASSUME NEW s \in Server, LiveStep(s)
    PROVE  Keeps(s) \/ Waits(s) \/ Creates(s) \/ Deletes(s)
<1> USE DEF LiveStep, Grounds
<1>1. CASE RegisterServer_Count(s)  BY <1>1, CountMoves DEF Waits, Starting
<1>2. CASE RegisterServer_Create(s)  BY <1>2, CreateMoves DEF Creates, AppGoes
<1>3. CASE NodesIncrease_Again(s)
  BY <1>3, AgainMoves DEF Creates, Noted, Entered, NoZnode, DeleteByMyself
<1>4. CASE NodesIncrease_Locked(s)
  <2>1. /\ wat[s].pc = "increase" /\ UNCHANGED handler
        /\ \/ wat[s].id = DelayRegister /\ my_master_znode_id'[s] = nextSeq
           \/ UNCHANGED <<zkVars, my_master_znode_id>>
    BY <1>4, IncreaseLockedMoves
  <2>2. DelayRegister # NoZnode  BY DEF DelayRegister, NoZnode
  <2>3. QED  BY <2>1, <2>2 DEF Creates, Keeps, Entered
<1>5. CASE NodesDiscrease_Delete(s)  BY <1>5, DeleteMoves DEF Deletes, Keeps
<1>6. CASE \/ MasterWatcher_List(s) \/ MasterWatcher_Fetch(s) \/ MasterWatcher_End(s)
           \/ NodesIncrease(s) \/ NodesIncrease_Exists(s) \/ NodesDiscrease(s)
           \/ NodesDiscrease_Exists(s) \/ NodesDiscrease_Locked(s) \/ NodesDiscrease_Mode(s)
  BY <1>6, WatListMoves, WatFetchMoves, EndMoves, IncreaseMoves, IncreaseExistsMoves,
     DiscreaseMoves, DiscreaseExistsMoves, DiscreaseLockedMoves, ModeMoves DEF Keeps, ownRest
<1>7. CASE \/ RegisterServer_List(s) \/ RegisterServer_Fetch(s) \/ RegisterServer_First(s)
           \/ RegisterServer_Tell(s) \/ SessionExpired(s) \/ ReplWatcher_Step(s)
           \/ RegisterServer_Replication(s) \/ Asks(s)
  BY <1>7, ListMoves, FetchMoves, FirstMovesOn, TellMoves, RestMoves, ReplicationMoves, AskMoves
  DEF Keeps
<1>8. QED
  BY <1>1, <1>2, <1>3, <1>4, <1>5, <1>6, <1>7, OwnSteps
  DEF Own, RegisterServer_Step, CompletionThread, MasterWatcher_Step

\* What the watcher has copied: as before, or as the manager has it now.
LEMMA LiveCopy ==
    ASSUME NEW s \in Server, LiveStep(s)
    PROVE  /\ wat'[s].pc \in Entered =>
                \/ wat[s].pc \in Entered /\ wat'[s].id = wat[s].id
                \/ wat'[s].id = my_master_znode_id[s] /\ Keeps(s)
           /\ wat'[s].pc = "again" => wat'[s].id = DeleteByMyself
<1> USE DEF LiveStep, Grounds, Entered
<1>1. CASE \/ MasterWatcher_List(s) \/ MasterWatcher_Fetch(s) \/ MasterWatcher_End(s)
           \/ NodesIncrease(s) \/ NodesIncrease_Exists(s)
  BY <1>1, WatListMoves, WatFetchMoves, EndMoves, IncreaseMoves, IncreaseExistsMoves
  DEF WatRests, WatIdle, WatGoes, Inserts, Enters, ownRest, Keeps
<1>2. CASE NodesIncrease_Locked(s) \/ NodesIncrease_Again(s)
  BY <1>2, IncreaseLockedMoves, AgainMoves DEF WatGoes, Inserts
<1>3. CASE \/ NodesDiscrease(s) \/ NodesDiscrease_Exists(s) \/ NodesDiscrease_Locked(s)
           \/ NodesDiscrease_Mode(s) \/ NodesDiscrease_Delete(s)
  BY <1>3, DiscreaseMoves, DiscreaseExistsMoves, DiscreaseLockedMoves, ModeMoves, DeleteMoves
  DEF WatRests, WatIdle, WatGoes, Erases, Enters, ownRest, Keeps
<1>4. CASE \/ RegisterServer_Count(s) \/ RegisterServer_Create(s) \/ RegisterServer_List(s)
           \/ RegisterServer_Fetch(s) \/ RegisterServer_First(s) \/ RegisterServer_Tell(s)
           \/ RegisterServer_Replication(s) \/ Asks(s)
  BY <1>4, CountMoves, CreateMoves, ListMoves, FetchMoves, FirstMovesOn, TellMoves,
     ReplicationMoves, AskMoves DEF Noted
<1>5. CASE SessionExpired(s) \/ ReplWatcher_Step(s)  BY <1>5, RestMoves DEF Noted
<1>6. QED
  BY <1>1, <1>2, <1>3, <1>4, <1>5, OwnSteps
  DEF Own, RegisterServer_Step, CompletionThread, MasterWatcher_Step

LEMMA OwnListens ==
    ASSUME NEW s \in Server, LiveStep(s) PROVE Listening(s)' /\ Noted(s)'
<1>1. TypeOK /\ Numbered  BY DEF LiveStep, Grounds
<1>2. /\ nextSeq # NoZnode /\ DelayRegister # NoZnode /\ DeleteByMyself # NoZnode
      /\ \A z \in master : z.seq # NoZnode
  BY <1>1 DEF TypeOK, ZkTypeOK, Numbered, NoZnode, DelayRegister, DeleteByMyself
<1>3. my_master_znode_id[s] # NoZnode => my_master_znode_id'[s] # NoZnode
  BY <1>2, LivePath DEF Keeps, Waits, Creates, Deletes
<1>4. Listening(s)'
  <2> SUFFICES ASSUME my_master_znode_id'[s] # NoZnode, app'[s].pc \notin Starting
               PROVE  Hears(s)'
    BY DEF Listening
  <2>1. CASE app[s].pc \in Starting
    BY <1>1, <2>1, StartsToList, OwnHears DEF LiveStep
  <2>2. CASE app[s].pc \notin Starting
    <3>1. wat[s].pc = "delete" /\ wat[s].id \in Seqs(master) => my_master_znode_id[s] # NoZnode
      BY <1>2 DEF Seqs, LiveStep, Noted, Entered
    <3>2. my_master_znode_id[s] # NoZnode
      BY <2>2, <3>1, LivePath DEF Keeps, Waits, Creates, Deletes, LiveStep, Noted, Starting
    <3>3. Hears(s)  BY <2>2, <3>2 DEF LiveStep, Listening
    <3>4. QED  BY <1>1, <3>3, OwnHears DEF LiveStep
  <2>3. QED  BY <2>1, <2>2
<1>5. Mine(s)' # {} => my_master_znode_id'[s] # NoZnode
  <2>1. CASE Keeps(s)  BY <2>1 DEF Keeps, zkVars, Mine, LiveStep, Noted
  <2>2. CASE Waits(s)  BY <1>2, <2>2 DEF Waits, zkVars, Mine, LiveStep, Noted
  <2>3. CASE Creates(s) \/ Deletes(s)  BY <1>2, <2>3 DEF Creates, Deletes
  <2>4. QED  BY <2>1, <2>2, <2>3, LivePath
<1>6. wat'[s].pc \in Entered /\ wat'[s].id # NoZnode => my_master_znode_id'[s] # NoZnode
  BY <1>3, LiveCopy DEF Keeps, LiveStep, Noted
<1>7. QED  BY <1>4, <1>5, <1>6, LiveCopy DEF Noted

LEMMA ListenersKept ==
    ASSUME Grounds, Listeners, Next, UNCHANGED errs
    PROVE  Listeners'
<1> SUFFICES ASSUME NEW t \in Server, Alive(t)' PROVE Listening(t)' /\ Noted(t)'
  BY DEF Listeners
<1>1. TypeOK /\ Sessions /\ Blank(t) /\ handler[t] \in Nat  BY DEF Grounds, TypeOK, MgrTypeOK
<1>2. ASSUME Alive(t), Still(t), Hears(t)' <=> Hears(t), Mine(t)' \subseteq Mine(t)
      PROVE  Listening(t)' /\ Noted(t)'
  BY <1>2 DEF Listeners, Listening, Noted, Still
<1>3. ASSUME NEW s \in Server, Acts(s) PROVE Listening(t)' /\ Noted(t)'
  <2>1. CASE t = s /\ Connect(s)
    <3>1. /\ UNCHANGED <<master, my_master_znode_id, wat>> /\ handler[t] = 0
          /\ handler'[t] = nextSid
      BY <1>1, <2>1 DEF Connect, TypeOK, MgrTypeOK
    <3>2. my_master_znode_id[t] = NoZnode /\ wat[t] = WatIdle  BY <1>1, <3>1 DEF Blank
    <3>3. \A z \in master : z.sid # nextSid
      BY <1>1 DEF Sessions, TypeOK, ZkTypeOK, Znode
    <3>4. Mine(t)' = {}  BY <3>1, <3>3 DEF Mine
    <3>5. QED  BY <3>1, <3>2, <3>4 DEF Listening, Noted, WatIdle, Entered
  <2>2. CASE Alive(t) /\ t = s
    <3>1. LiveStep(s)  BY <1>3, <2>2 DEF LiveStep, Listeners
    <3>2. QED  BY <2>2, <3>1, OwnListens
  <2>3. CASE Alive(t) /\ t # s
    <3>1. Still(t) /\ (Hears(t)' <=> Hears(t))  BY <1>1, <1>3, <2>3, OthersStill, OthersHear
    <3>2. handler[s] # handler[t]  BY <1>1, <2>3 DEF Sessions, Alive, TypeOK, ZkTypeOK
    <3>3. \A z \in master' : z \in master \/ z.sid = handler[s]
      BY <1>3, ServiceMoves DEF Asking, zkVars, Connect, CreateMasterZnode, DeleteMasterZnode,
         Crash, Disconnect_Done, EndSession
    <3>4. Mine(t)' \subseteq Mine(t)  BY <3>1, <3>2, <3>3 DEF Mine, Still
    <3>5. QED  BY <1>2, <2>3, <3>1, <3>4
  <2>4. QED  BY <1>1, <1>3, <2>1, <2>2, <2>3, LivesOn
<1>4. ASSUME NEW k \in sessions, SessionTimeout(k) PROVE Listening(t)' /\ Noted(t)'
  <2>1. /\ Alive(t) /\ Still(t) /\ (Hears(t)' <=> Hears(t))
        /\ master' = {z \in master : z.sid # k}
    BY <1>1, <1>4, LivesOnAfterTimeout
  <2>2. Mine(t)' \subseteq Mine(t)  BY <2>1 DEF Mine, Still
  <2>3. QED  BY <1>2, <2>1, <2>2
<1>5. QED  BY <1>3, <1>4, NextActs

WatchInv == Grounds /\ (errs = 0 => Listeners)

LEMMA NextKeepsWatch == ASSUME WatchInv, [Next]_vars PROVE WatchInv'
<1>1. Grounds'  BY NextKeepsGrounds DEF WatchInv
<1>2. CASE Next /\ errs' = 0
  <2>1. Grounds /\ UNCHANGED errs  BY <1>2, ErrsGrow DEF WatchInv, Grounds
  <2>2. Listeners'  BY <1>2, <2>1, ListenersKept DEF WatchInv
  <2>3. QED  BY <1>1, <2>2 DEF WatchInv
<1>3. CASE UNCHANGED vars
  <2>1. UNCHANGED <<zkVars, masterWatch, queue, mgrVars, app, wat, errs>>
    BY <1>3 DEF vars, watchVars, boundVars
  <2>2. Listeners' <=> Listeners
    BY <2>1 DEF zkVars, mgrVars, Listeners, Alive, Listening, Noted, Hears, Pending, Mine
  <2>3. QED  BY <1>1, <2>1, <2>2 DEF WatchInv
<1>4. QED  BY <1>1, <1>2, <1>3 DEF WatchInv

\* While no call has been lost, a registered server whose register_server has listed
\* /master has its watch there or an event to come, delayed registrations and second
\* calls of register_server included: no change of /master is missed for good.
THEOREM NeverDeaf == Spec => [](errs = 0 => WatchNeverLost)
<1>1. Init => WatchInv
  BY InitGrounds DEF Init, WatchInv, Listeners, Alive
<1>2. WatchInv /\ [Next]_vars => WatchInv'  BY NextKeepsWatch
<1>3. WatchInv => (errs = 0 => WatchNeverLost)
  <2> SUFFICES ASSUME WatchInv, errs = 0, NEW s \in Server, Registered(s),
                      app[s].pc \in {"idle", "points", "fetch", "first", "tell"}
               PROVE  Hears(s)
    BY DEF WatchNeverLost, Hears
  <2>1. Alive(s) /\ Mine(s) # {}  BY DEF Registered, Mine
  <2>2. QED  BY <2>1 DEF WatchInv, Listeners, Listening, Noted, Starting
<1>4. QED  BY <1>1, <1>2, <1>3, PTL DEF Spec

=============================================================================
