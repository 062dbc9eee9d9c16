------------------------------ MODULE ZkCluster ------------------------------
(***************************************************************************)
(* The state of a cluster of mysqld servers, each of which has loaded      *)
(* libzk_manager.so, and the ZooKeeper service they share.                 *)
(*                                                                         *)
(* The service is external code: it is modelled from the zoo_* calls       *)
(* zk_manager.cc makes.  A zk_manager object is written out as one         *)
(* variable per field, each a function of the server that owns the object. *)
(* Two threads touch a manager: the application thread, which calls the    *)
(* zm_* functions, and the completion thread of the ZooKeeper client,      *)
(* which runs the watcher functions one event at a time.                   *)
(***************************************************************************)
EXTENDS Integers, Sequences, FiniteSets

CONSTANTS
    Server,        \* uuids of the mysqld servers
    NoServer,      \* no uuid: the watcher is not looking at a server
    InitEdges,     \* the <<master, slave>> znodes /replication/master/slave at the start
    InitModes,     \* what /replication/s may hold at the start: "none", "sync", "async"
    Delays,        \* the values each server gives "delay" when it calls register_server
    CleanRestart,  \* TRUE: a server reconnects only after its old znodes are gone
    Leavers,       \* bound: servers that disconnect, crash or lose their session
    DeleteTries,   \* how often nodes_discrease tries to delete its znode (11 in the code)
    MaxSid,        \* bound: sessions opened
    MaxErrs,       \* bound: calls that fail although the session lives
    MaxCrashes,    \* bound: servers that crash
    MaxExpiries,   \* bound: sessions that expire under a server that runs on
    MaxAdmin       \* bound: start_repl, rm_repl, change_repl_mode, get_syncpoint calls

Mode == {"none", "sync", "async"}

ASSUME ServerAssumption == IsFiniteSet(Server) /\ NoServer \notin Server
ASSUME ConfigAssumption ==
    /\ InitEdges \subseteq Server \X Server
    /\ InitModes \subseteq [Server -> Mode]
    /\ \A e \in InitEdges, m \in InitModes : m[e[1]] # "none"
    /\ Delays \in [Server -> SUBSET BOOLEAN]
    /\ CleanRestart \in BOOLEAN
ASSUME BoundAssumption ==
    /\ Leavers \subseteq Server /\ DeleteTries \in Nat \ {0}
    /\ MaxSid \in Nat /\ MaxErrs \in Nat /\ MaxAdmin \in Nat
    /\ MaxCrashes \in Nat /\ MaxExpiries \in Nat

VARIABLES
    \* the ZooKeeper service
    master,        \* znodes below /master: sequence number, content, ephemeral owner
    nextSeq,       \* the next sequence number ZOO_SEQUENCE appends
    sessions,      \* the sessions the service holds alive
    nextSid,
    edges,         \* <<m, s>>: znode /replication/m/s exists
    mode,          \* the "mode" recorded in /replication/s, "none": no such znode
    masterWatch,   \* servers with a child watch set on /master
    replWatch,     \* servers with a child watch set on their /replication/s
    queue,         \* events delivered to a client and not yet given to a watcher
    \* the fields of a zk_manager
    handler,       \* session of the handle, 0: no manager
    i_am_master, compeleted_register, my_master_znode_id, nodes, active_slaves, lock,
    \* program counter and locals of the two threads
    app, wat,
    \* what the callbacks last told mysqld
    role, slaveTold,
    \* history: the first child of /master that made s master in register_server, or 0
    elected,
    \* history: the servers that, since they connected, set about leaving /master
    withdrew,
    \* what the bounds count
    errs, crashes, expiries, admin

zkVars     == <<master, nextSeq, sessions, nextSid>>
treeVars   == <<edges, mode>>
watchVars  == <<masterWatch, replWatch, queue>>
mgrVars    == <<handler, i_am_master, compeleted_register, my_master_znode_id,
                nodes, active_slaves, lock>>
toldVars   == <<role, slaveTold>>
history    == <<elected, withdrew>>
boundVars  == <<errs, crashes, expiries, admin>>
spared == <<crashes, expiries, admin>>   \* what no call of a server counts
vars == <<zkVars, treeVars, watchVars, mgrVars, app, wat, toldVars, history, boundVars>>

\* Values of my_master_znode_id that are not the path of a znode.
NoZnode        == 0
DelayRegister  == -1
DeleteByMyself == -2

\* A child of /master, and what the "nodes" map keeps of it: znode name -> uuid.
Znode == [seq : Nat, uuid : Server, sid : Nat]
Node  == [seq : Nat, uuid : Server]
NodeOf_Whole(z) == z              \* mutant: the owner is kept as well
NodeOf(z) == [seq |-> z.seq, uuid |-> z.uuid]
Uuids(S) == {e.uuid : e \in S}
Seqs(S) == {e.seq : e \in S}

AppIdle == [pc |-> "idle", delay |-> FALSE, kids |-> {}, first |-> 0, slaves |-> {}]
WatIdle == [pc |-> "idle", kids |-> {}, map |-> {}, set |-> {}, cur |-> 0, who |-> NoServer,
            i_am_master |-> FALSE, id |-> NoZnode,
            is_my_repl_master |-> FALSE, is_my_repl_slave |-> FALSE, tries |-> 0]

RegisterPc == {"count", "create", "list", "fetch", "first", "tell"}
AppPc == RegisterPc \cup {"idle", "points", "closing"}
LockedWatPc == {"again", "mode", "delete"}
WatPc == LockedWatPc \cup {"idle", "fetch", "inc", "entered_inc", "increase",
                          "dec", "entered_dec", "decrease", "repl"}
Event == {"master", "repl", "expired"}

AppState == [pc : AppPc, delay : BOOLEAN, kids : SUBSET Nat, first : Nat,
             slaves : SUBSET Server]
WatLocals == [pc : WatPc, kids : SUBSET Node, map : SUBSET Node, set : SUBSET Server, cur : Nat,
              who : Server \cup {NoServer}, i_am_master : BOOLEAN, id : Int,
              is_my_repl_master : BOOLEAN, is_my_repl_slave : BOOLEAN, tries : Nat]
\* A watcher that has found a slave or a master knows whose uuid it is.
WatState == {w \in WatLocals : w.is_my_repl_slave \/ w.is_my_repl_master => w.who # NoServer}

\* One conjunct for each group of variables.
ZkTypeOK ==
    /\ master \subseteq Znode /\ nextSeq \in Nat \ {0}
    /\ sessions \subseteq Nat \ {0} /\ nextSid \in Nat \ {0}

TreeTypeOK == edges \subseteq Server \X Server /\ mode \in [Server -> Mode]

WatchTypeOK ==
    /\ masterWatch \subseteq Server /\ replWatch \subseteq Server
    /\ queue \in [Server -> Seq(Event)]

MgrTypeOK ==
    /\ handler \in [Server -> Nat]
    /\ i_am_master \in [Server -> BOOLEAN]
    /\ compeleted_register \in [Server -> BOOLEAN]
    /\ my_master_znode_id \in [Server -> Int]
    /\ nodes \in [Server -> SUBSET Node]
    /\ active_slaves \in [Server -> SUBSET Server]
    /\ lock \in [Server -> {"free", "app", "wat"}]

ThreadTypeOK == app \in [Server -> AppState] /\ wat \in [Server -> WatState]

ToldTypeOK ==
    /\ role \in [Server -> {"none", "master", "standby"}]
    /\ slaveTold \in [Server -> {"none", "alive", "dead"}]
    /\ elected \in [Server -> Nat] /\ withdrew \subseteq Server

BoundTypeOK == errs \in Nat /\ crashes \in Nat /\ expiries \in Nat /\ admin \in Nat

TypeOK ==
    /\ ZkTypeOK /\ TreeTypeOK /\ WatchTypeOK /\ MgrTypeOK /\ ThreadTypeOK
    /\ ToldTypeOK /\ BoundTypeOK

Init ==
    /\ master = {} /\ nextSeq = 1 /\ sessions = {} /\ nextSid = 1
    /\ edges = InitEdges /\ mode \in InitModes
    /\ masterWatch = {} /\ replWatch = {} /\ queue = [s \in Server |-> <<>>]
    /\ handler = [s \in Server |-> 0]
    /\ i_am_master = [s \in Server |-> FALSE]
    /\ compeleted_register = [s \in Server |-> FALSE]
    /\ my_master_znode_id = [s \in Server |-> NoZnode]
    /\ nodes = [s \in Server |-> {}]
    /\ active_slaves = [s \in Server |-> {}]
    /\ lock = [s \in Server |-> "free"]
    /\ app = [s \in Server |-> AppIdle]
    /\ wat = [s \in Server |-> WatIdle]
    /\ role = [s \in Server |-> "none"]
    /\ slaveTold = [s \in Server |-> "none"]
    /\ elected = [s \in Server |-> 0] /\ withdrew = {}
    /\ errs = 0 /\ crashes = 0 /\ expiries = 0 /\ admin = 0

-----------------------------------------------------------------------------
(* The outcome of a zoo_* call.                                             *)

\* The service answers the calls of this server's handle.
Alive(s) == handler[s] \in sessions /\ app[s].pc # "closing"

\* The call is carried out and its result comes back.
Ok(s) == Alive(s) /\ UNCHANGED errs

\* The connection is lost under the call; whether the service carried it out
\* is for the action that uses this to say.
Drop(s) == Alive(s) /\ errs < MaxErrs /\ errs' = errs + 1

\* The call returns neither ZOK nor ZNONODE and has no effect.
Err(s) == (~Alive(s) /\ UNCHANGED errs) \/ Drop(s)

-----------------------------------------------------------------------------
(* What the calls do to the service.                                        *)

\* The children of /master changed: every watch on it fires, once.
FireMasterWatches(watchers) ==
    queue' = [t \in Server |->
                 IF t \in watchers THEN Append(queue[t], "master") ELSE queue[t]]

\* zoo_create("/c/master/", uuid, ZOO_SEQUENCE | ZOO_EPHEMERAL)
CreateMasterZnode(s) ==
    /\ master' = master \cup {[seq |-> nextSeq, uuid |-> s, sid |-> handler[s]]}
    /\ nextSeq' = nextSeq + 1
    /\ FireMasterWatches(masterWatch)
    /\ masterWatch' = {}
    /\ UNCHANGED <<sessions, nextSid, replWatch>>

\* The path zoo_create returned is kept.
KeepPath(s) == my_master_znode_id' = [my_master_znode_id EXCEPT ![s] = nextSeq]

\* zoo_delete(path, -1) of a znode that exists
DeleteMasterZnode(id) ==
    /\ master' = {z \in master : z.seq # id}
    /\ FireMasterWatches(masterWatch)
    /\ masterWatch' = {}
    /\ UNCHANGED <<nextSeq, sessions, nextSid, replWatch>>

\* A session ends: its ephemeral znodes go in the same transaction.  The servers
\* whose handle it was hear of it; the others hear that /master changed.
EndSession(k, owners) ==
    LET watchers == IF \E z \in master : z.sid = k THEN masterWatch \ owners ELSE {}
    IN  /\ sessions' = sessions \ {k}
        /\ master' = {z \in master : z.sid # k}
        /\ queue' = [t \in Server |->
                       IF t \in owners THEN Append(queue[t], "expired")
                       ELSE IF t \in watchers THEN Append(queue[t], "master") ELSE queue[t]]
        /\ masterWatch' = masterWatch \ (owners \cup watchers)
        /\ replWatch' = replWatch \ owners
        /\ UNCHANGED <<nextSeq, nextSid>>

\* mutant: zoo_get_children, which sets no watch
WatchMaster_Unset(s) == UNCHANGED <<masterWatch, replWatch, queue>>

\* zoo_wget_children(path, fn, ctx): the same watcher is never set twice
WatchMaster(s) == masterWatch' = masterWatch \cup {s} /\ UNCHANGED <<replWatch, queue>>

\* zoo_create or zoo_delete of /replication/m/s, seen by m's watch if it has one
FireReplWatch(m) ==
    /\ queue' = IF m \in replWatch THEN [queue EXCEPT ![m] = Append(@, "repl")] ELSE queue
    /\ replWatch' = replWatch \ {m}
    /\ UNCHANGED masterWatch

=============================================================================
