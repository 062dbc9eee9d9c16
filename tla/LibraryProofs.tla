---------------------------- MODULE LibraryProofs ----------------------------
(***************************************************************************)
(* Proofs about the library as mysqld sees it, for any number of servers,  *)
(* threads and callbacks.                                                  *)
(***************************************************************************)
EXTENDS Library, FiniteSetTheorems, TLAPS

-----------------------------------------------------------------------------
(* Type correctness.  One lemma for the tree, one for the table.            *)

\* One server's state is replaced by another of the same type.
LEMMA ConnMoves ==
    ASSUME BootstrapTypeOK, NEW s \in Server, NEW c \in ConnState, conn' = [conn EXCEPT ![s] = c]
    PROVE  conn' \in [Server -> ConnState]
BY DEF BootstrapTypeOK

LEMMA ConnGoes ==
    ASSUME BootstrapTypeOK, NEW s \in Server, NEW pc \in ConnPc, conn' = [conn EXCEPT ![s].pc = pc]
    PROVE  conn' \in [Server -> ConnState]
<1>1. [conn[s] EXCEPT !.pc = pc] \in ConnState
  BY DEF BootstrapTypeOK, ConnState
<1> QED
  BY <1>1, ConnMoves

LEMMA OnwardTypes ==
    ASSUME BootstrapTypeOK, NEW s \in Server, Onward(s)
    PROVE  conn' \in [Server -> ConnState] /\ refused' = refused
<1>1. conn[s].level \in 1..3
  BY DEF BootstrapTypeOK, ConnState, Level
<1>2. [pc |-> "handle", level |-> 3] \in ConnState
  BY DEF ConnState, ConnPc, Level
<1>3. conn[s].level # 3 => [pc |-> "exists", level |-> conn[s].level + 1] \in ConnState
  BY <1>1 DEF ConnState, ConnPc, Level
<1>4. CASE conn[s].level = 3
  BY <1>2, <1>4, ConnMoves DEF Onward
<1>5. CASE conn[s].level # 3
  BY <1>3, <1>5, ConnMoves DEF Onward
<1> QED
  BY <1>4, <1>5

\* What any step of zm_connect leaves of its types.
LEMMA ConnectTypes ==
    ASSUME BootstrapTypeOK, NEW s \in Server, Connect(s) \/ Connect_Step(s)
    PROVE  BootstrapTypeOK'
<1> USE ErrsAssumption DEF BootstrapTypeOK, Ok, Drop, Refuse
<1>a. /\ {"exists", "create", "refused"} \subseteq ConnPc
      /\ [pc |-> "exists", level |-> First] \in ConnState
  BY DEF ConnPc, ConnState, First, Level
<1>1. CASE Connect(s)
  BY <1>1, <1>a, ConnMoves, ConnGoes DEF Connect
<1>2. CASE Connect_Exists(s)
  <2>1. CASE Onward(s)
    <3>1. conn' \in [Server -> ConnState] /\ refused' = refused
      BY <2>1, OnwardTypes
    <3>2. errs' \in 0..MaxErrs /\ UNCHANGED <<tree, connects>>
      BY <1>2 DEF Connect_Exists
    <3>3. skipped' \in [Server -> BOOLEAN]
      BY <1>2 DEF Connect_Exists
    <3> QED
      BY <3>1, <3>2, <3>3
  <2>2. CASE conn' = [conn EXCEPT ![s].pc = "create"] /\ UNCHANGED <<errs, refused, skipped>>
    BY <1>2, <2>2, <1>a, ConnGoes DEF Connect_Exists
  <2> QED
    BY <1>2, <2>1, <2>2 DEF Connect_Exists
<1>3. CASE Connect_Create(s)
  <2>1. conn[s].level \in Level
    BY DEF ConnState
  <2> QED
    BY <1>3, <1>a, <2>1, OnwardTypes, ConnGoes DEF Connect_Create
<1> QED
  BY <1>1, <1>2, <1>3 DEF Connect_Step

\* One thread's state is replaced by another of the same type.
LEMMA CbMoves ==
    ASSUME TableTypeOK, NEW s \in Server, NEW t \in Thread, NEW c \in CbState,
           cb' = [cb EXCEPT ![s][t] = c]
    PROVE  cb' \in [Server -> [Thread -> CbState]]
BY DEF TableTypeOK

LEMMA GotoTypes ==
    ASSUME TableTypeOK, NEW s \in Server, NEW t \in Thread, NEW pc \in CbPc, Goto(s, t, pc)
    PROVE  cb' \in [Server -> [Thread -> CbState]]
<1>1. cb[s][t] \in CbState
  BY DEF TableTypeOK
<1>2. [cb[s][t] EXCEPT !.pc = pc] \in CbState
  BY <1>1 DEF CbState
<1>3. cb' = [cb EXCEPT ![s][t] = [cb[s][t] EXCEPT !.pc = pc]]
  BY DEF Goto, TableTypeOK
<1> QED
  BY <1>2, <1>3, CbMoves

LEMMA DoneTypes ==
    ASSUME TableTypeOK, NEW s \in Server, NEW t \in Thread, Done(s, t)
    PROVE  cb' \in [Server -> [Thread -> CbState]]
<1>1. NoCall \in CbState
  BY DEF NoCall, CbState, CbPc
<1> QED
  BY <1>1, CbMoves DEF Done

LEMMA BeginTypes ==
    ASSUME TableTypeOK, NEW s \in Server, NEW t \in Thread, NEW f \in Callback, Begin(s, t, f)
    PROVE  TableTypeOK'
<1>1. [pc |-> "lock", f |-> f] \in CbState
  BY DEF CbState, CbPc
<1>2. cb' \in [Server -> [Thread -> CbState]]
  BY <1>1, CbMoves DEF Begin
<1> QED
  BY <1>2 DEF Begin, TableTypeOK

\* What any step of a callback leaves of its types.
LEMMA CallbackTypes ==
    ASSUME TableTypeOK, NEW s \in Server, NEW t \in Thread,
           Callback_Step(s, t) \/ PlugIn(s, t)
    PROVE  TableTypeOK'
<1> USE DEF TableTypeOK
<1>a. {"install", "test", "retest", "call", "my_lock", "my_unlock"} \subseteq CbPc
  BY DEF CbPc
<1>1. CASE Lock(s, t)
  BY <1>1, <1>a, GotoTypes DEF Lock
<1>2. CASE Install(s, t)
  BY <1>2, <1>a, GotoTypes DEF Install
<1>3. CASE Test(s, t)
  BY <1>3, <1>a, GotoTypes, DoneTypes DEF Test, Unlock
<1>4. CASE Retest(s, t)
  BY <1>4, <1>a, GotoTypes, DoneTypes DEF Retest
<1>5. CASE Call(s, t)
  BY <1>5, <1>a, GotoTypes, DoneTypes DEF Call
<1>6. CASE MyLock(s, t)
  BY <1>6, <1>a, GotoTypes DEF MyLock
<1>7. CASE MyUnlock(s, t)
  BY <1>7, DoneTypes DEF MyUnlock
<1>8. CASE PlugIn(s, t)
  BY <1>8, <1>a, GotoTypes DEF PlugIn
<1> QED
  BY <1>1, <1>2, <1>3, <1>4, <1>5, <1>6, <1>7, <1>8 DEF Callback_Step

LEMMA InitTypes == Init => TypeOK
<1> SUFFICES ASSUME Init PROVE TypeOK
  OBVIOUS
<1>1. NoHandle \in ConnState /\ NoCall \in CbState
  BY DEF NoHandle, NoCall, ConnState, CbState, ConnPc, CbPc, Level
<1>2. connects \in [Server -> Nat] /\ callbacks \in [Server -> Nat]
  BY PlanAssumption DEF Init
<1>3. BootstrapTypeOK
  BY <1>1, <1>2, ErrsAssumption DEF Init, BootstrapInit, BootstrapTypeOK
<1>4. TableTypeOK
  BY <1>1 DEF Init, TableInit, TableTypeOK
<1> QED
  BY <1>2, <1>3, <1>4 DEF TypeOK

\* Who begins a callback: a thread of an open manager, the one that is left behind, a plug-in.
LEMMA WhoStarts ==
    ASSUME NEW s \in Server, Starts(s)
    PROVE  \/ conn[s].pc = "handle" /\ \E t \in {"application", "completion"}, f \in Callback :
                                            Begin(s, t, f)
           \/ Begin(s, "left behind", "become_standby")
           \/ PlugIn(s, "mysqld")
BY DEF Starts, ManagerCalls, WatcherCalls, SessionExpired

\* Every step of the library keeps its types.
LEMMA StepTypes == TypeOK /\ [Next]_vars => TypeOK'
<1> SUFFICES ASSUME TypeOK, [Next]_vars PROVE TypeOK'
  OBVIOUS
<1> USE DEF TypeOK
<1>a. ASSUME UNCHANGED callbackVars PROVE TableTypeOK'
  BY <1>a DEF callbackVars, TableTypeOK
<1>b. ASSUME UNCHANGED connectVars PROVE BootstrapTypeOK'
  BY <1>b DEF connectVars, BootstrapTypeOK
<1>c. ASSUME NEW s \in Server, NEW pc \in ConnPc, conn' = [conn EXCEPT ![s].pc = pc],
             UNCHANGED <<tree, refused, skipped, connects, errs>>
      PROVE  BootstrapTypeOK'
  BY <1>c, ConnGoes DEF BootstrapTypeOK
<1>d. {"closing", "standby", "dead"} \subseteq ConnPc
  BY DEF ConnPc
<1>1. CASE UNCHANGED vars
  BY <1>1, <1>a, <1>b DEF vars
<1>2. ASSUME NEW s \in Server, Connects(s) PROVE TypeOK'
  BY <1>2, <1>a, ConnectTypes DEF Connects
<1>3. ASSUME NEW s \in Server, Starts(s) PROVE TypeOK'
  <2>1. callbacks' \in [Server -> Nat]
    <3>1. callbacks[s] - 1 \in Nat /\ callbacks' = [callbacks EXCEPT ![s] = callbacks[s] - 1]
      <4>1. Count(s)
        BY <1>3 DEF Starts
      <4>2. callbacks[s] \in Nat
        OBVIOUS
      <4> QED
        BY <4>1, <4>2 DEF Count
    <3> QED
      BY <3>1
  <2>2. TableTypeOK'
    <3>1. CASE \E t \in {"application", "completion"}, f \in Callback : Begin(s, t, f)
      BY <3>1, BeginTypes, ThreadAssumption
    <3>2. CASE Begin(s, "left behind", "become_standby")
      BY <3>2, BeginTypes, ThreadAssumption, CallbackAssumption
    <3>3. CASE PlugIn(s, "mysqld")
      BY <3>3, CallbackTypes, ThreadAssumption
    <3> QED
      BY <1>3, <3>1, <3>2, <3>3, WhoStarts
  <2> QED
    BY <1>3, <1>b, <2>1, <2>2 DEF Starts
<1>4. ASSUME NEW s \in Server, NEW t \in Thread, Goes(s, t) PROVE TypeOK'
  <2>1. CASE NullCall(s, t)
    BY <1>4, <2>1, <1>a, <1>c, <1>d DEF Goes, NullCall
  <2>2. CASE Callback_Step(s, t) /\ UNCHANGED connectVars
    BY <1>4, <2>2, <1>b, CallbackTypes DEF Goes
  <2> QED
    BY <1>4, <2>1, <2>2 DEF Goes
<1>5. ASSUME NEW s \in Server, Disconnect(s) PROVE TypeOK'
  BY <1>5, <1>a, <1>c, <1>d DEF Disconnect
<1>6. ASSUME NEW s \in Server, Disconnect_Standby(s) PROVE TypeOK'
  BY <1>6, <1>c, <1>d, BeginTypes, ThreadAssumption, CallbackAssumption DEF Disconnect_Standby
<1>7. ASSUME NEW s \in Server, Disconnect_Done(s) PROVE TypeOK'
  <2>1. NoHandle \in ConnState
    BY DEF NoHandle, ConnState, ConnPc, Level
  <2>2. BootstrapTypeOK'
    BY <1>7, <2>1, ConnMoves DEF Disconnect_Done, BootstrapTypeOK
  <2> QED
    BY <1>7, <1>a, <2>2 DEF Disconnect_Done
<1> QED
  BY <1>1, <1>2, <1>3, <1>4, <1>5, <1>6, <1>7 DEF Next

\* The types hold in every behaviour of the library.
THEOREM LibraryTypes == Spec => []TypeOK
BY InitTypes, StepTypes, PTL DEF Spec

-----------------------------------------------------------------------------
(* The tree.                                                                *)

\* A zm_connect that was answered each time has every znode it went past, and
\* nobody deletes them.
Climbs ==
    \A s \in Server : ~skipped[s] =>
        /\ conn[s].pc \in {"exists", "create"} => \A l \in Level : l < conn[s].level => l \in tree
        /\ conn[s].pc = "handle" => tree = Level

\* What Climbs says of one server survives all that leaves this server alone.
LEMMA ClimbsElsewhere ==
    ASSUME TypeOK, Climbs, NEW s \in Server, tree \subseteq tree', tree' \subseteq Level,
           \A r \in Server \ {s} : conn'[r] = conn[r] /\ skipped'[r] = skipped[r],
           ~skipped'[s] =>
               /\ conn'[s].pc \in {"exists", "create"}
                      => \A l \in Level : l < conn'[s].level => l \in tree'
               /\ conn'[s].pc = "handle" => tree' = Level
    PROVE  Climbs'
BY DEF Climbs

\* From one level to the next, which is in the tree by now.
LEMMA ClimbsOnward ==
    ASSUME TypeOK, Climbs, NEW s \in Server, Onward(s), conn[s].pc \in {"exists", "create"},
           tree \subseteq tree', tree' \subseteq Level, conn[s].level \in tree',
           skipped' = skipped
    PROVE  Climbs'
<1>1. conn \in [Server -> ConnState] /\ conn[s].level \in 1..3
  BY DEF TypeOK, BootstrapTypeOK, ConnState, Level
<1>2. \A r \in Server \ {s} : conn'[r] = conn[r]
  BY <1>1 DEF Onward
<1>3. conn'[s] = IF conn[s].level = 3 THEN [pc |-> "handle", level |-> 3]
                 ELSE [pc |-> "exists", level |-> conn[s].level + 1]
  BY <1>1 DEF Onward
<1>4. ~skipped[s] => \A l \in Level : l <= conn[s].level => l \in tree'
  BY <1>1 DEF Climbs, Level
<1>5. CASE conn[s].level = 3
  <2>1. \A l \in Level : l <= conn[s].level
    BY <1>5 DEF Level
  <2>2. ~skipped[s] => tree' = Level
    BY <1>4, <2>1
  <2>3. conn'[s].pc = "handle"
    BY <1>3, <1>5
  <2> QED
    BY <1>2, <2>2, <2>3, ClimbsElsewhere
<1>6. CASE conn[s].level # 3
  <2>1. conn'[s].pc = "exists" /\ conn'[s].level = conn[s].level + 1
    BY <1>3, <1>6
  <2>2. \A l \in Level : l < conn[s].level + 1 => l <= conn[s].level
    BY <1>1 DEF Level
  <2>3. ~skipped[s] => \A l \in Level : l < conn'[s].level => l \in tree'
    BY <1>4, <2>1, <2>2
  <2> QED
    BY <1>2, <2>1, <2>3, ClimbsElsewhere
<1> QED
  BY <1>5, <1>6

\* A server that is not climbing, or has no handle yet, owes nothing.
LEMMA ClimbsIdle ==
    ASSUME TypeOK, Climbs, NEW s \in Server, NEW c \in ConnState, conn' = [conn EXCEPT ![s] = c],
           c.pc \notin {"exists", "create", "handle"}, tree \subseteq tree', tree' \subseteq Level,
           \A r \in Server \ {s} : skipped'[r] = skipped[r]
    PROVE  Climbs'
<1>1. conn'[s] = c /\ \A r \in Server \ {s} : conn'[r] = conn[r]
  BY DEF TypeOK, BootstrapTypeOK
<1> QED
  BY <1>1, ClimbsElsewhere

\* No step of zm_connect gives a handle to a server that missed a znode.
LEMMA ClimbsConnect ==
    ASSUME TypeOK, Climbs, NEW s \in Server, Connect(s) \/ Connect_Step(s)
    PROVE  Climbs'
<1>1. /\ conn \in [Server -> ConnState] /\ skipped \in [Server -> BOOLEAN]
      /\ tree \subseteq Level /\ conn[s].level \in Level
  BY DEF TypeOK, BootstrapTypeOK, ConnState
<1>2. ASSUME NEW pc \in {"refused", "create"}
      PROVE  [conn[s] EXCEPT !.pc = pc] \in ConnState
  BY <1>1 DEF ConnState, ConnPc
<1>3. ASSUME Refuse(s), tree \subseteq tree', tree' \subseteq Level,
             \A r \in Server \ {s} : skipped'[r] = skipped[r]
      PROVE  Climbs'
  <2>1. conn' = [conn EXCEPT ![s] = [conn[s] EXCEPT !.pc = "refused"]]
    BY <1>1, <1>3 DEF Refuse
  <2>2. [conn[s] EXCEPT !.pc = "refused"].pc = "refused"
    BY <1>1 DEF ConnState
  <2> QED
    BY <1>2, <1>3, <2>1, <2>2, ClimbsIdle
<1>4. CASE Connect(s)
  <2>1. \A r \in Server \ {s} : skipped'[r] = skipped[r]
    BY <1>1, <1>4 DEF Connect
  <2>2. tree' = tree
    BY <1>4 DEF Connect
  <2>3. CASE Refuse(s)
    BY <1>1, <1>3, <2>1, <2>2, <2>3
  <2>4. CASE conn' = [conn EXCEPT ![s] = [pc |-> "exists", level |-> First]]
    <3>1. conn'[s] = [pc |-> "exists", level |-> 1] /\ \A r \in Server \ {s} : conn'[r] = conn[r]
      BY <1>1, <2>4 DEF First
    <3> QED
      BY <1>1, <2>1, <2>2, <3>1, ClimbsElsewhere DEF Level
  <2> QED
    BY <1>4, <2>3, <2>4 DEF Connect
<1>5. CASE Connect_Exists(s)
  <2>1. CASE Onward(s) /\ conn[s].level \in tree /\ skipped' = skipped
    BY <1>1, <1>5, <2>1, ClimbsOnward DEF Connect_Exists
  <2>2. CASE conn' = [conn EXCEPT ![s].pc = "create"] /\ skipped' = skipped
    <3>1. /\ conn'[s].pc = "create" /\ conn'[s].level = conn[s].level
          /\ \A r \in Server \ {s} : conn'[r] = conn[r]
      BY <1>1, <2>2 DEF ConnState
    <3>2. tree' = tree /\ conn[s].pc = "exists"
      BY <1>5 DEF Connect_Exists
    <3>3. ~skipped[s] => \A l \in Level : l < conn[s].level => l \in tree
      BY <3>2 DEF Climbs
    <3> QED
      BY <1>1, <2>2, <3>1, <3>2, <3>3, ClimbsElsewhere
  <2>3. CASE Onward(s) /\ skipped' = [skipped EXCEPT ![s] = TRUE]
    <3>1. skipped'[s] /\ \A r \in Server \ {s} : conn'[r] = conn[r] /\ skipped'[r] = skipped[r]
      BY <1>1, <2>3 DEF Onward
    <3>2. tree' = tree
      BY <1>5 DEF Connect_Exists
    <3> QED
      BY <1>1, <3>1, <3>2, ClimbsElsewhere
  <2> QED
    BY <1>5, <2>1, <2>2, <2>3 DEF Connect_Exists
<1>6. CASE Connect_Create(s)
  <2>1. tree \subseteq tree' /\ tree' \subseteq Level /\ skipped' = skipped
    BY <1>1, <1>6 DEF Connect_Create
  <2>2. CASE Onward(s) /\ tree' = tree \cup {conn[s].level}
    BY <1>6, <2>1, <2>2, ClimbsOnward DEF Connect_Create
  <2>3. CASE Refuse(s)
    BY <1>3, <2>1, <2>3
  <2> QED
    BY <1>6, <2>2, <2>3 DEF Connect_Create
<1> QED
  BY <1>4, <1>5, <1>6 DEF Connect_Step

LEMMA ClimbsStep == TypeOK /\ Climbs /\ [Next]_vars => Climbs'
<1> SUFFICES ASSUME TypeOK, Climbs, [Next]_vars PROVE Climbs'
  OBVIOUS
<1>a. ASSUME UNCHANGED connectVars PROVE Climbs'
  BY <1>a DEF connectVars, Climbs
<1>b. tree \subseteq Level /\ conn \in [Server -> ConnState]
  BY DEF TypeOK, BootstrapTypeOK
<1>c. ASSUME NEW s \in Server, NEW pc \in {"closing", "standby", "dead"},
             conn' = [conn EXCEPT ![s].pc = pc], UNCHANGED <<tree, skipped>>
      PROVE  Climbs'
  <2>1. /\ [conn[s] EXCEPT !.pc = pc] \in ConnState /\ [conn[s] EXCEPT !.pc = pc].pc = pc
        /\ conn' = [conn EXCEPT ![s] = [conn[s] EXCEPT !.pc = pc]]
    BY <1>b, <1>c DEF ConnState, ConnPc
  <2> QED
    BY <1>b, <1>c, <2>1, ClimbsIdle
<1>1. CASE UNCHANGED vars
  BY <1>1, <1>a DEF vars
<1>2. ASSUME NEW s \in Server, Connects(s) PROVE Climbs'
  BY <1>2, ClimbsConnect DEF Connects
<1>3. ASSUME NEW s \in Server, Starts(s) PROVE Climbs'
  BY <1>3, <1>a DEF Starts
<1>4. ASSUME NEW s \in Server, NEW t \in Thread, Goes(s, t) PROVE Climbs'
  BY <1>4, <1>a, <1>c DEF Goes, NullCall
<1>5. ASSUME NEW s \in Server, Disconnect(s) \/ Disconnect_Standby(s) PROVE Climbs'
  BY <1>5, <1>c DEF Disconnect, Disconnect_Standby
<1>6. ASSUME NEW s \in Server, Disconnect_Done(s) PROVE Climbs'
  <2>1. NoHandle \in ConnState /\ NoHandle.pc = "none"
    BY DEF NoHandle, ConnState, ConnPc, Level
  <2> QED
    BY <1>6, <1>b, <2>1, ClimbsIdle DEF Disconnect_Done
<1> QED
  BY <1>1, <1>2, <1>3, <1>4, <1>5, <1>6 DEF Next

\* zm_connect, lines 449-488: a server that was answered each time it asked has its
\* handle only when the three znodes are there, whoever created them.
THEOREM TreeBeforeHandle == Spec => []HandleMeansTree
<1>1. Init => Climbs
  BY DEF Init, BootstrapInit, NoHandle, Climbs
<1>2. Climbs => HandleMeansTree
  BY DEF Climbs, HandleMeansTree
<1> QED
  BY <1>1, <1>2, ClimbsStep, LibraryTypes, PTL DEF Spec

-----------------------------------------------------------------------------
(* The race for the tree.                                                   *)

\* A server that will be refused: the znode it is about to create is there by now, or
\* what it took to be there may not be.
Owes(s) ==
    \/ conn[s].pc = "create" /\ conn[s].level \in tree
    \/ conn[s].pc \in {"exists", "create"} /\ skipped[s]

\* A server has been refused no more often than znodes were created and calls failed,
\* the refusal that is due included.
Paid(s) ==
    /\ refused[s] <= Cardinality(tree) + errs
    /\ Owes(s) => refused[s] < Cardinality(tree) + errs

\* There are three znodes to create, and not more.
LEMMA LevelIsFinite == IsFiniteSet(Level)
<1>1. 1 \in Int /\ 3 \in Int
  OBVIOUS
<1>2. IsFiniteSet(1..3)
  BY <1>1, FS_Interval, Zenon
<1> QED
  BY <1>2 DEF Level

\* The sum is a number and never shrinks.
LEMMA SumGrows ==
    ASSUME TypeOK, TypeOK', tree \subseteq tree', errs <= errs'
    PROVE  /\ Cardinality(tree) + errs \in Nat /\ Cardinality(tree)' + errs' \in Nat
           /\ Cardinality(tree) + errs <= Cardinality(tree)' + errs'
           /\ Cardinality(tree) \in Nat /\ Cardinality(tree)' \in Nat
           /\ tree' # tree => Cardinality(tree) + errs < Cardinality(tree)' + errs'
           /\ errs' = errs + 1 => Cardinality(tree) + errs < Cardinality(tree)' + errs'
<1>a. IsFiniteSet(Level)
  BY LevelIsFinite
<1>1. tree' \subseteq Level /\ errs \in Nat /\ errs' \in Nat
  BY ErrsAssumption DEF TypeOK, BootstrapTypeOK, Level
<1>2. IsFiniteSet(tree') /\ IsFiniteSet(tree)
  BY <1>a, <1>1, FS_Subset
<1>3. Cardinality(tree) \in Nat /\ Cardinality(tree') \in Nat
  BY <1>2, FS_CardinalityType
<1>4. Cardinality(tree) <= Cardinality(tree')
  BY <1>2, FS_Subset
<1>5. tree' # tree => Cardinality(tree) < Cardinality(tree')
  BY <1>2, <1>3, <1>4, FS_Subset
<1> QED
  BY <1>1, <1>3, <1>4, <1>5

\* What is paid for stays so while others act.
LEMMA PaidElsewhere ==
    ASSUME TypeOK, TypeOK', NEW r \in Server, Paid(r), tree \subseteq tree', errs <= errs',
           conn'[r] = conn[r], refused'[r] = refused[r], skipped'[r] = skipped[r]
    PROVE  Paid(r)'
<1>1. refused[r] \in Nat
  BY DEF TypeOK, BootstrapTypeOK
<1>2. CASE tree' = tree
  <2>1. Owes(r)' <=> Owes(r)
    BY <1>2 DEF Owes
  <2> QED
    BY <1>1, <2>1, SumGrows DEF Paid
<1>3. CASE tree' # tree
  BY <1>1, <1>3, SumGrows DEF Paid
<1> QED
  BY <1>2, <1>3

\* What a step of zm_connect does: it asks, it creates, it is refused, or it goes on.
LEMMA ConnectMoves ==
    ASSUME TypeOK, NEW s \in Server, Connect(s) \/ Connect_Step(s)
    PROVE  /\ tree \subseteq tree' /\ errs <= errs'
           /\ \A r \in Server \ {s} :
                 conn'[r] = conn[r] /\ refused'[r] = refused[r] /\ skipped'[r] = skipped[r]
           /\ \/ /\ conn'[s].pc = "refused" /\ refused'[s] = refused[s] + 1
                 /\ \/ errs' = errs + 1
                    \/ /\ errs' = errs /\ tree' = tree /\ conn[s].pc = "create"
                       /\ ~Creatable(conn[s].level)
              \/ /\ conn'[s].pc \in {"exists", "handle"} /\ refused'[s] = refused[s]
                 /\ \/ skipped'[s] = FALSE
                    \/ errs' = errs + 1
                    \/ conn[s].pc \in {"exists", "create"} /\ skipped'[s] = skipped[s]
              \/ /\ conn[s].pc = "exists" /\ conn'[s].pc = "create" /\ refused'[s] = refused[s]
                 /\ conn'[s].level \notin tree' /\ skipped'[s] = skipped[s] /\ tree' = tree
           /\ tree' # tree => conn'[s].pc \in {"exists", "handle"} \/ errs' = errs + 1
           /\ skipped'[s] /\ ~skipped[s] => errs' = errs + 1
<1> USE DEF Ok, Drop
<1>1. /\ conn \in [Server -> ConnState] /\ skipped \in [Server -> BOOLEAN]
      /\ refused \in [Server -> Nat] /\ errs \in Nat /\ conn[s] \in ConnState
  BY ErrsAssumption DEF TypeOK, BootstrapTypeOK
<1>2. ASSUME Refuse(s)
      PROVE  /\ conn'[s].pc = "refused" /\ refused'[s] = refused[s] + 1
             /\ \A r \in Server \ {s} : conn'[r] = conn[r] /\ refused'[r] = refused[r]
  BY <1>1, <1>2 DEF Refuse, ConnState
<1>3. ASSUME Onward(s)
      PROVE  /\ conn'[s].pc \in {"exists", "handle"} /\ refused'[s] = refused[s]
             /\ \A r \in Server \ {s} : conn'[r] = conn[r] /\ refused'[r] = refused[r]
  BY <1>1, <1>3 DEF Onward
<1>4. CASE Connect(s)
  <2>1. /\ tree' = tree /\ skipped'[s] = FALSE
        /\ \A r \in Server \ {s} : skipped'[r] = skipped[r]
    BY <1>1, <1>4 DEF Connect
  <2>2. CASE Ok /\ conn' = [conn EXCEPT ![s] = [pc |-> "exists", level |-> First]]
             /\ UNCHANGED refused
    BY <1>1, <2>1, <2>2
  <2>3. CASE Drop /\ Refuse(s)
    BY <1>1, <1>2, <2>1, <2>3
  <2> QED
    BY <1>4, <2>2, <2>3 DEF Connect
<1>5. CASE Connect_Exists(s)
  <2>1. tree' = tree /\ conn[s].pc = "exists"
    BY <1>5 DEF Connect_Exists
  <2>2. CASE Ok /\ Onward(s) /\ UNCHANGED skipped
    BY <1>1, <1>3, <2>1, <2>2
  <2>3. CASE /\ Ok /\ conn[s].level \notin tree
             /\ conn' = [conn EXCEPT ![s].pc = "create"] /\ UNCHANGED <<refused, skipped>>
    <3>1. /\ conn'[s].pc = "create" /\ conn'[s].level = conn[s].level
          /\ \A r \in Server \ {s} : conn'[r] = conn[r]
      BY <1>1, <2>3 DEF ConnState
    <3> QED
      BY <1>1, <2>1, <2>3, <3>1
  <2>4. CASE Drop /\ Onward(s) /\ skipped' = [skipped EXCEPT ![s] = TRUE]
    <3>1. /\ errs' = errs + 1 /\ conn'[s].pc \in {"exists", "handle"}
          /\ refused'[s] = refused[s]
      BY <1>3, <2>4
    <3>2. \A r \in Server \ {s} :
             conn'[r] = conn[r] /\ refused'[r] = refused[r] /\ skipped'[r] = skipped[r]
      BY <1>1, <1>3, <2>4
    <3> QED
      BY <1>1, <2>1, <3>1, <3>2
  <2> QED
    BY <1>5, <2>2, <2>3, <2>4 DEF Connect_Exists
<1>6. CASE Connect_Create(s)
  <2>1. UNCHANGED skipped /\ conn[s].pc = "create"
    BY <1>6 DEF Connect_Create
  <2>2. CASE Ok /\ tree \subseteq tree' /\ Onward(s)
    BY <1>1, <1>3, <2>1, <2>2
  <2>3. CASE Ok /\ ~Creatable(conn[s].level) /\ Refuse(s) /\ UNCHANGED tree
    BY <1>1, <1>2, <2>1, <2>3
  <2>4. CASE Drop /\ Refuse(s) /\ tree \subseteq tree'
    BY <1>1, <1>2, <2>1, <2>4
  <2> QED
    BY <1>6, <2>2, <2>3, <2>4 DEF Connect_Create
<1> QED
  BY <1>4, <1>5, <1>6 DEF Connect_Step

\* The rest of the library neither asks ZooKeeper nor is refused.
LEMMA OtherMoves ==
    ASSUME TypeOK, Next, \A s \in Server : ~Connects(s)
    PROVE  /\ UNCHANGED <<tree, refused, skipped, errs>>
           /\ \A r \in Server : \/ conn'[r] = conn[r]
                                \/ conn'[r].pc \in {"none", "closing", "standby", "dead"}
<1>1. conn \in [Server -> ConnState]
  BY DEF TypeOK, BootstrapTypeOK
<1>2. ASSUME NEW s \in Server, NEW pc \in {"closing", "standby", "dead"},
             conn' = [conn EXCEPT ![s].pc = pc]
      PROVE  \A r \in Server : \/ conn'[r] = conn[r]
                               \/ conn'[r].pc \in {"none", "closing", "standby", "dead"}
  BY <1>1, <1>2 DEF ConnState
<1>3. ASSUME NEW s \in Server, Starts(s)
      PROVE  UNCHANGED connectVars
  BY <1>3 DEF Starts
<1>4. ASSUME NEW s \in Server, NEW t \in Thread, Goes(s, t)
      PROVE  /\ UNCHANGED <<tree, refused, skipped, errs>>
             /\ UNCHANGED conn \/ conn' = [conn EXCEPT ![s].pc = "dead"]
  BY <1>4 DEF Goes, NullCall, connectVars
<1>5. ASSUME NEW s \in Server, Disconnect_Done(s)
      PROVE  /\ UNCHANGED <<tree, refused, skipped, errs>>
             /\ \A r \in Server : conn'[r] = conn[r] \/ conn'[r].pc = "none"
  BY <1>1, <1>5 DEF Disconnect_Done, NoHandle
<1>6. ASSUME NEW s \in Server, Disconnect(s) \/ Disconnect_Standby(s)
      PROVE  /\ UNCHANGED <<tree, refused, skipped, errs>>
             /\ \/ conn' = [conn EXCEPT ![s].pc = "closing"]
                \/ conn' = [conn EXCEPT ![s].pc = "standby"]
  BY <1>6 DEF Disconnect, Disconnect_Standby
<1> QED
  BY <1>2, <1>3, <1>4, <1>5, <1>6 DEF Next, connectVars

LEMMA PaidStep ==
    ASSUME TypeOK, TypeOK', Climbs, \A s \in Server : Paid(s), [Next]_vars
    PROVE  \A s \in Server : Paid(s)'
<1>1. CASE UNCHANGED vars
  BY <1>1 DEF vars, connectVars, Paid, Owes
<1>2. ASSUME NEW s \in Server, Connects(s), NEW r \in Server PROVE Paid(r)'
  <2>1. Connect(s) \/ Connect_Step(s)
    BY <1>2 DEF Connects
  <2>2. CASE r # s
    BY <2>1, <2>2, ConnectMoves, PaidElsewhere
  <2>3. CASE r = s
    <3>1. /\ refused[s] \in Nat /\ Paid(s) /\ skipped[s] \in BOOLEAN /\ errs \in Nat
          /\ tree \subseteq tree' /\ errs <= errs'
      <4>1. tree \subseteq tree' /\ errs <= errs'
        BY <2>1, ConnectMoves
      <4> QED
        BY <4>1, ErrsAssumption DEF TypeOK, BootstrapTypeOK
    <3>2. CASE conn'[s].pc = "refused" /\ refused'[s] = refused[s] + 1 /\ errs' = errs + 1
      <4>1. ~Owes(s)'
        BY <3>2 DEF Owes
      <4> QED
        BY <2>3, <3>1, <3>2, <4>1, SumGrows DEF Paid
    <3>3. CASE /\ conn'[s].pc = "refused" /\ refused'[s] = refused[s] + 1 /\ tree' = tree
               /\ errs' = errs /\ conn[s].pc = "create" /\ ~Creatable(conn[s].level)
      <4>1. conn[s].level \in Level
        BY DEF TypeOK, BootstrapTypeOK, ConnState
      <4>2. ~skipped[s] => Parent(conn[s].level)
        BY <3>3, <4>1 DEF Climbs, Parent, Level
      <4>3. Owes(s)
        BY <3>3, <4>2 DEF Owes, Creatable
      <4>4. ~Owes(s)'
        BY <3>3 DEF Owes
      <4> QED
        BY <2>3, <3>1, <3>3, <4>3, <4>4, SumGrows DEF Paid
    <3>4. CASE conn'[s].pc \in {"exists", "handle"} /\ refused'[s] = refused[s]
      <4>1. CASE skipped'[s] = FALSE
        <5>1. ~Owes(s)'
          BY <3>4, <4>1 DEF Owes
        <5> QED
          BY <2>3, <3>1, <3>4, <5>1, SumGrows DEF Paid
      <4>2. CASE errs' = errs + 1
        BY <2>3, <3>1, <3>4, <4>2, SumGrows DEF Paid
      <4>3. CASE conn[s].pc \in {"exists", "create"} /\ skipped'[s] = skipped[s]
        <5>1. Owes(s)' => Owes(s)
          BY <3>4, <4>3 DEF Owes
        <5> QED
          BY <2>3, <3>1, <3>4, <5>1, SumGrows DEF Paid
      <4> QED
        BY <2>1, <3>4, <4>1, <4>2, <4>3, ConnectMoves
    <3>5. CASE /\ conn[s].pc = "exists" /\ conn'[s].pc = "create" /\ refused'[s] = refused[s]
               /\ conn'[s].level \notin tree' /\ skipped'[s] = skipped[s] /\ tree' = tree
      <4>1. Owes(s)' => Owes(s)
        BY <3>5 DEF Owes
      <4> QED
        BY <2>3, <3>1, <3>5, <4>1, SumGrows DEF Paid
    <3> QED
      BY <2>1, <3>2, <3>3, <3>4, <3>5, ConnectMoves
  <2> QED
    BY <2>2, <2>3
<1>3. ASSUME Next, \A s \in Server : ~Connects(s), NEW r \in Server PROVE Paid(r)'
  <2>1. UNCHANGED <<tree, refused, skipped, errs>>
    BY <1>3, OtherMoves
  <2>2. Owes(r)' => Owes(r)
    BY <1>3, <2>1, OtherMoves DEF Owes
  <2> QED
    BY <2>1, <2>2 DEF Paid
<1> QED
  BY <1>1, <1>2, <1>3

\* zm_connect, lines 449-488: however many servers race for the tree, a server is refused
\* three times at most, and once more for each call that failed.
THEOREM RefusedForAReason == Spec => []RefusedAtMostThrice
<1>1. Init => Climbs /\ \A s \in Server : Paid(s)
  <2> SUFFICES ASSUME Init, NEW s \in Server PROVE Climbs /\ Paid(s)
    BY DEF Init, BootstrapInit, NoHandle, Climbs
  <2>1. Cardinality(tree) = 0
    BY FS_EmptySet DEF Init, BootstrapInit
  <2> QED
    BY <2>1 DEF Init, BootstrapInit, NoHandle, Climbs, Paid, Owes
<1>2. TypeOK /\ (\A s \in Server : Paid(s)) => RefusedAtMostThrice
  <2> SUFFICES ASSUME TypeOK, NEW s \in Server, Paid(s)
               PROVE  refused[s] <= Cardinality(Level) + errs
    BY DEF RefusedAtMostThrice
  <2>a. IsFiniteSet(Level)
    BY LevelIsFinite
  <2>1. tree \subseteq Level /\ errs \in Nat /\ refused[s] \in Nat
    BY ErrsAssumption DEF TypeOK, BootstrapTypeOK
  <2>2. /\ Cardinality(tree) <= Cardinality(Level)
        /\ Cardinality(tree) \in Nat /\ Cardinality(Level) \in Nat
    BY <2>a, <2>1, FS_Subset, FS_CardinalityType
  <2> QED
    BY <2>1, <2>2 DEF Paid
<1>3. TypeOK /\ TypeOK' /\ Climbs /\ (\A s \in Server : Paid(s)) /\ [Next]_vars
      => (\A s \in Server : Paid(s))'
  BY PaidStep
<1> QED
  BY <1>1, <1>2, <1>3, ClimbsStep, LibraryTypes, PTL DEF Spec

\* As long as no call fails, a server is not about to be refused, nor has it been: the
\* one that created the last znode.
InTheRace ==
    errs = 0 =>
        /\ \A s \in Server : ~skipped[s]
        /\ \E s \in Server :
              /\ conn[s].pc # "refused"
              /\ ~(conn[s].pc = "create" /\ conn[s].level \in tree)

LEMMA RaceStep == ASSUME TypeOK, Climbs, InTheRace, [Next]_vars PROVE InTheRace'
<1> SUFFICES ASSUME errs' = 0
             PROVE  /\ \A s \in Server : ~skipped'[s]
                    /\ \E s \in Server : /\ conn'[s].pc # "refused"
                                         /\ ~(conn'[s].pc = "create" /\ conn'[s].level \in tree')
  BY DEF InTheRace
<1>0. errs \in Nat
  BY ErrsAssumption DEF TypeOK, BootstrapTypeOK
<1>1. CASE UNCHANGED vars
  BY <1>1 DEF vars, connectVars, InTheRace
<1>2. ASSUME NEW s \in Server, Connects(s)
      PROVE  /\ \A r \in Server : ~skipped'[r]
             /\ \E r \in Server : /\ conn'[r].pc # "refused"
                                  /\ ~(conn'[r].pc = "create" /\ conn'[r].level \in tree')
  <2>1. Connect(s) \/ Connect_Step(s)
    BY <1>2 DEF Connects
  <2>a. errs <= errs'
    BY <2>1, ConnectMoves
  <2>2. errs = 0 /\ errs' # errs + 1
    BY <1>0, <2>a
  <2>3. \A r \in Server : ~skipped[r] /\ ~skipped'[r]
    BY <2>1, <2>2, ConnectMoves DEF InTheRace
  <2>4. PICK w \in Server : /\ conn[w].pc # "refused"
                            /\ ~(conn[w].pc = "create" /\ conn[w].level \in tree)
    BY <2>2 DEF InTheRace
  <2>5. CASE tree' # tree
    <3>1. conn'[s].pc \in {"exists", "handle"}
      BY <2>1, <2>2, <2>5, ConnectMoves
    <3> QED
      BY <2>3, <3>1
  <2>6. CASE tree' = tree /\ w # s
    <3>1. conn'[w] = conn[w]
      BY <2>1, <2>6, ConnectMoves
    <3> QED
      BY <2>3, <2>4, <2>6, <3>1
  <2>7. CASE tree' = tree /\ w = s
    <3>1. conn[s].level \in Level
      BY DEF TypeOK, BootstrapTypeOK, ConnState
    <3>2. conn[s].pc = "create" => Creatable(conn[s].level)
      BY <2>3, <2>4, <2>7, <3>1 DEF Climbs, Creatable, Parent, Level
    <3>3. \/ conn'[s].pc \in {"exists", "handle"}
          \/ conn'[s].pc = "create" /\ conn'[s].level \notin tree'
      BY <2>1, <2>2, <3>2, ConnectMoves
    <3> QED
      BY <2>3, <3>3
  <2> QED
    BY <2>5, <2>6, <2>7
<1>3. CASE Next /\ \A s \in Server : ~Connects(s)
  <2>1. UNCHANGED <<tree, refused, skipped, errs>>
    BY <1>3, OtherMoves
  <2>2. PICK w \in Server : /\ conn[w].pc # "refused"
                            /\ ~(conn[w].pc = "create" /\ conn[w].level \in tree)
    BY <2>1 DEF InTheRace
  <2>3. conn'[w].pc # "refused" /\ ~(conn'[w].pc = "create" /\ conn'[w].level \in tree')
    BY <1>3, <2>1, <2>2, OtherMoves
  <2> QED
    BY <2>1, <2>3 DEF InTheRace
<1> QED
  BY <1>1, <1>2, <1>3

\* zm_connect, lines 449-488: while no call fails, of the servers that race never are all
\* refused: whoever takes the place of another has gone on.
THEOREM NotAllRefused == Server # {} => (Spec => []SomeoneConnects)
<1> SUFFICES ASSUME Server # {} PROVE Spec => []SomeoneConnects
  OBVIOUS
<1>1. Init => Climbs /\ InTheRace
  BY DEF Init, BootstrapInit, NoHandle, Climbs, InTheRace
<1>2. InTheRace => SomeoneConnects
  BY DEF InTheRace, SomeoneConnects
<1>3. TypeOK /\ Climbs /\ InTheRace /\ [Next]_vars => InTheRace'
  BY RaceStep
<1> QED
  BY <1>1, <1>2, <1>3, ClimbsStep, LibraryTypes, PTL DEF Spec

-----------------------------------------------------------------------------
(* The callbacks.                                                           *)

\* What the program counter of one thread becomes, and that nothing else of cb moves.
LEMMA GotoMoves ==
    ASSUME TableTypeOK, NEW s \in Server, NEW t \in Thread, NEW pc \in CbPc, Goto(s, t, pc)
    PROVE  /\ cb'[s][t].pc = pc /\ cb'[s][t].f = cb[s][t].f
           /\ \A r \in Server, u \in Thread : r # s \/ u # t => cb'[r][u] = cb[r][u]
<1>1. cb \in [Server -> [Thread -> CbState]] /\ cb[s][t] \in CbState
  BY DEF TableTypeOK
<1>2. cb' = [cb EXCEPT ![s] = [cb[s] EXCEPT ![t] = [cb[s][t] EXCEPT !.pc = pc]]]
  BY <1>1 DEF Goto
<1>3. cb'[s][t] = [cb[s][t] EXCEPT !.pc = pc]
  BY <1>1, <1>2
<1>4. \A r \in Server, u \in Thread : r # s \/ u # t => cb'[r][u] = cb[r][u]
  BY <1>1, <1>2
<1> QED
  BY <1>1, <1>3, <1>4 DEF CbState

LEMMA DoneMoves ==
    ASSUME TableTypeOK, NEW s \in Server, NEW t \in Thread, Done(s, t)
    PROVE  /\ cb'[s][t] = NoCall
           /\ \A r \in Server, u \in Thread : r # s \/ u # t => cb'[r][u] = cb[r][u]
BY DEF TableTypeOK, Done

LEMMA BeginMoves ==
    ASSUME TableTypeOK, NEW s \in Server, NEW t \in Thread, NEW f \in Callback, Begin(s, t, f)
    PROVE  /\ cb'[s][t] = [pc |-> "lock", f |-> f]
           /\ \A r \in Server, u \in Thread : r # s \/ u # t => cb'[r][u] = cb[r][u]
BY DEF TableTypeOK, Begin

\* Pointers are set and never taken back.
LEMMA TableGrows ==
    ASSUME TableTypeOK, NEW s \in Server, NEW t \in Thread, Callback_Step(s, t)
    PROVE  \A r \in Server : table[r] \subseteq table'[r]
<1>1. CASE Install(s, t)
  BY <1>1 DEF Install, TableTypeOK
<1>2. CASE table' = table
  BY <1>2
<1> QED
  BY <1>1, <1>2 DEF Callback_Step, Lock, Test, Retest, Call, MyLock, MyUnlock

\* A thread moves, and goes to a call only with its pointer set.
LEMMA CalledMoves ==
    ASSUME CalledIsSet, NEW s \in Server, NEW t \in Thread,
           \A r \in Server : table[r] \subseteq table'[r],
           \A r \in Server, u \in Thread : r # s \/ u # t => cb'[r][u] = cb[r][u],
           cb'[s][t].pc = "call" /\ cb'[s][t].f # "repl_master_dead" => cb'[s][t].f \in table'[s]
    PROVE  CalledIsSet'
BY DEF CalledIsSet, At

LEMMA CalledGoto ==
    ASSUME TableTypeOK, CalledIsSet, NEW s \in Server, NEW t \in Thread, NEW pc \in CbPc \ {"call"},
           Goto(s, t, pc), \A r \in Server : table[r] \subseteq table'[r]
    PROVE  CalledIsSet'
BY GotoMoves, CalledMoves

LEMMA CalledDone ==
    ASSUME TableTypeOK, CalledIsSet, NEW s \in Server, NEW t \in Thread, Done(s, t),
           \A r \in Server : table[r] \subseteq table'[r]
    PROVE  CalledIsSet'
<1>1. NoCall.pc # "call"
  BY DEF NoCall
<1> QED
  BY <1>1, DoneMoves, CalledMoves

\* The two places where the pointer is looked at before the call.
LEMMA CalledLooks ==
    ASSUME TableTypeOK, CalledIsSet, NEW s \in Server, NEW t \in Thread, table' = table,
           IF Set(s, cb[s][t].f) THEN Goto(s, t, "call") ELSE Done(s, t)
    PROVE  CalledIsSet'
<1>1. CASE Set(s, cb[s][t].f)
  <2>1. "call" \in CbPc
    BY DEF CbPc
  <2>2. /\ cb'[s][t].f = cb[s][t].f
        /\ \A r \in Server, u \in Thread : r # s \/ u # t => cb'[r][u] = cb[r][u]
    BY <1>1, <2>1, GotoMoves
  <2>3. cb[s][t].f # "repl_master_dead" => cb[s][t].f \in table[s]
    BY <1>1 DEF Set
  <2> QED
    BY <2>2, <2>3, CalledMoves
<1>2. CASE ~Set(s, cb[s][t].f)
  BY <1>2, CalledDone
<1> QED
  BY <1>1, <1>2

LEMMA CalledStep ==
    ASSUME TableTypeOK, CalledIsSet, NEW s \in Server, NEW t \in Thread,
           Callback_Step(s, t) \/ PlugIn(s, t)
    PROVE  CalledIsSet'
<1>a. {"install", "test", "retest", "my_lock", "my_unlock"} \subseteq CbPc \ {"call"}
  BY DEF CbPc
<1>b. \A r \in Server : table[r] \subseteq table'[r]
  BY TableGrows DEF PlugIn
<1>1. CASE Lock(s, t)
  BY <1>1, <1>a, <1>b, CalledGoto DEF Lock
<1>2. CASE Install(s, t)
  BY <1>2, <1>a, <1>b, CalledGoto DEF Install
<1>3. CASE Test(s, t)
  BY <1>3, <1>a, <1>b, CalledGoto, CalledLooks DEF Test
<1>4. CASE Retest(s, t)
  BY <1>4, CalledLooks DEF Retest
<1>5. CASE Call(s, t)
  BY <1>5, <1>a, <1>b, CalledGoto, CalledDone DEF Call
<1>6. CASE MyLock(s, t)
  BY <1>6, <1>a, <1>b, CalledGoto DEF MyLock
<1>7. CASE MyUnlock(s, t)
  BY <1>7, <1>b, CalledDone DEF MyUnlock
<1>8. CASE PlugIn(s, t)
  BY <1>8, <1>a, <1>b, CalledGoto DEF PlugIn
<1> QED
  BY <1>1, <1>2, <1>3, <1>4, <1>5, <1>6, <1>7, <1>8 DEF Callback_Step

LEMMA CalledBegin ==
    ASSUME TableTypeOK, CalledIsSet, NEW s \in Server, NEW t \in Thread, NEW f \in Callback,
           Begin(s, t, f)
    PROVE  CalledIsSet'
<1>1. \A r \in Server : table[r] \subseteq table'[r]
  BY DEF Begin
<1>2. cb'[s][t].pc # "call"
  <2>1. cb'[s][t] = [pc |-> "lock", f |-> f]
    BY BeginMoves
  <2> QED
    BY <2>1
<1>3. \A r \in Server, u \in Thread : r # s \/ u # t => cb'[r][u] = cb[r][u]
  BY BeginMoves
<1> QED
  BY <1>1, <1>2, <1>3, CalledMoves

\* utility.cc, lines 224-262 and the like: of whatever threads race for the mutex, and
\* although become_master_cb gives it back twice, none calls a pointer that is not set;
\* repl_master_dead_cb is left out.
THEOREM PointersAreSet == Spec => []CalledIsSet
<1>1. Init => CalledIsSet
  BY DEF Init, TableInit, NoCall, CalledIsSet, At
<1>2. TypeOK /\ CalledIsSet /\ [Next]_vars => CalledIsSet'
  <2> SUFFICES ASSUME TypeOK, CalledIsSet, [Next]_vars PROVE CalledIsSet'
    OBVIOUS
  <2>a. TableTypeOK
    BY DEF TypeOK
  <2>b. ASSUME UNCHANGED callbackVars PROVE CalledIsSet'
    BY <2>b DEF callbackVars, CalledIsSet, At
  <2>1. CASE UNCHANGED vars
    BY <2>1, <2>b DEF vars
  <2>2. ASSUME NEW s \in Server, Connects(s) \/ Disconnect(s) \/ Disconnect_Done(s)
        PROVE  CalledIsSet'
    BY <2>2, <2>b DEF Connects, Disconnect, Disconnect_Done
  <2>3. ASSUME NEW s \in Server, Starts(s) PROVE CalledIsSet'
    BY <2>3, <2>a, CalledBegin, CalledStep, ThreadAssumption, CallbackAssumption,
       WhoStarts
  <2>4. ASSUME NEW s \in Server, NEW t \in Thread, Goes(s, t) PROVE CalledIsSet'
    BY <2>4, <2>a, <2>b, CalledStep DEF Goes, NullCall
  <2>5. ASSUME NEW s \in Server, Disconnect_Standby(s) PROVE CalledIsSet'
    BY <2>5, <2>a, CalledBegin, ThreadAssumption, CallbackAssumption DEF Disconnect_Standby
  <2> QED
    BY <2>1, <2>2, <2>3, <2>4, <2>5 DEF Next
<1> QED
  BY <1>1, <1>2, LibraryTypes, PTL DEF Spec

-----------------------------------------------------------------------------
(* What mysqld was last told.                                               *)

\* The pointers are set together.
AllOrNone(s) == table[s] \in {{}, Callback} /\ (role[s] = "master" => table[s] = Callback)

\* A thread that is about to tell mysqld it is master belongs to a manager that is there,
\* or is the completion thread zookeeper_close waits for.
Teller(s, t) ==
    /\ At(s, t, "idle") => cb[s][t].f = "none"
    /\ cb[s][t].f = "become_master" =>
           \/ t \in {"application", "completion"} /\ conn[s].pc \in {"handle", "dead"}
           \/ t = "completion" /\ conn[s].pc = "closing"

\* Once the session is closed, mysqld is no master, or is just being told so.
Parted(s) ==
    /\ conn[s].pc \in {"none", "exists", "create", "refused"} => role[s] # "master"
    /\ conn[s].pc = "standby" /\ role[s] = "master" =>
           /\ cb[s]["application"].f = "become_standby"
           /\ cb[s]["application"].pc \in {"lock", "install", "test", "call"}

Told(s) == AllOrNone(s) /\ (\A t \in Thread : Teller(s, t)) /\ Parted(s)

\* A server none of whose state moves.
LEMMA ToldStays ==
    ASSUME NEW s \in Server, Told(s), table'[s] = table[s], role'[s] = role[s],
           conn'[s].pc = conn[s].pc, \A t \in Thread : cb'[s][t] = cb[s][t]
    PROVE  Told(s)'
<1>1. AllOrNone(s)'
  BY DEF Told, AllOrNone
<1>2. ASSUME NEW t \in Thread PROVE Teller(s, t)'
  <2>1. cb'[s][t] = cb[s][t]
    OBVIOUS
  <2> QED
    BY <2>1 DEF Told, Teller, At
<1>3. Parted(s)'
  <2>1. cb'[s]["application"] = cb[s]["application"]
    BY ThreadAssumption
  <2> QED
    BY <2>1 DEF Told, Parted
<1> QED
  BY <1>1, <1>2, <1>3 DEF Told

\* zm_connect: nobody calls back that mysqld is master, before or after.
LEMMA ToldConnects ==
    ASSUME TypeOK, NEW s \in Server, Told(s), Connects(s)
    PROVE  Told(s)'
<1>1. UNCHANGED callbackVars
  BY DEF Connects
<1>2. conn \in [Server -> ConnState]
  BY DEF TypeOK, BootstrapTypeOK
<1>3. conn[s].pc \in {"none", "exists", "create", "refused"}
  BY DEF Connects, Connect, Connect_Step, Connect_Exists, Connect_Create
<1>4. conn'[s].pc \in {"exists", "create", "refused", "handle"}
  BY <1>2 DEF Connects, Connect, Connect_Step, Connect_Exists, Connect_Create, Onward, Refuse,
              ConnState
<1>5. \A t \in Thread : cb[s][t].f # "become_master"
  BY <1>3 DEF Told, Teller
<1> QED
  BY <1>1, <1>3, <1>4, <1>5 DEF callbackVars, Told, AllOrNone, Teller, Parted, At

\* A thread of a server begins, or goes on, with a callback other than become_master:
\* what it owes is its own.
LEMMA ToldGoto ==
    ASSUME TypeOK, NEW s \in Server, Told(s), NEW t \in Thread, NEW pc \in CbPc \ {"idle"},
           Goto(s, t, pc), conn' = conn, role' = role, AllOrNone(s)',
           t = "application" /\ conn[s].pc = "standby" /\ role[s] = "master"
               => pc \in {"lock", "install", "test", "call"}
    PROVE  Told(s)'
<1>1. TableTypeOK
  BY DEF TypeOK
<1>2. /\ cb'[s][t].pc = pc /\ cb'[s][t].f = cb[s][t].f
      /\ \A u \in Thread : u # t => cb'[s][u] = cb[s][u]
  BY <1>1, GotoMoves
<1>3. \A u \in Thread : Teller(s, u)'
  BY <1>2 DEF Told, Teller, At
<1>4. Parted(s)'
  BY <1>2, ThreadAssumption DEF Told, Parted
<1> QED
  BY <1>3, <1>4 DEF Told

\* A thread is done with its callback.
LEMMA ToldDone ==
    ASSUME TypeOK, NEW s \in Server, Told(s), NEW t \in Thread, Done(s, t),
           conn' = conn, role' = role, AllOrNone(s)',
           t = "application" /\ conn[s].pc = "standby" => role[s] # "master"
    PROVE  Told(s)'
<1>1. TableTypeOK
  BY DEF TypeOK
<1>2. cb'[s][t] = NoCall /\ \A u \in Thread : u # t => cb'[s][u] = cb[s][u]
  BY <1>1, DoneMoves
<1>3. \A u \in Thread : Teller(s, u)'
  BY <1>2 DEF Told, Teller, At, NoCall
<1>4. Parted(s)'
  BY <1>2, ThreadAssumption DEF Told, Parted
<1> QED
  BY <1>3, <1>4 DEF Told

\* While mysqld, though its session is closed, still takes itself for master, the thread
\* that is to tell it otherwise is at none of these.
LEMMA ToldOwes ==
    ASSUME NEW s \in Server, Told(s), NEW t \in Thread, conn[s].pc = "standby", role[s] = "master",
           t = "application"
    PROVE  /\ cb[s][t].f = "become_standby" /\ table[s] = Callback
           /\ ~At(s, t, "idle") /\ ~At(s, t, "retest") /\ ~At(s, t, "my_lock")
           /\ ~At(s, t, "my_unlock")
BY DEF Told, AllOrNone, Parted, At

LEMMA ToldCall ==
    ASSUME TypeOK, NEW s \in Server, Told(s), NEW t \in Thread, Call(s, t), conn' = conn
    PROVE  Told(s)'
<1> DEFINE f == cb[s][t].f
<1>1. TableTypeOK /\ table' = table /\ f \in table[s] /\ table[s] = Callback
  BY DEF TypeOK, Call, Told, AllOrNone
<1>2. role'[s] = CASE f = "become_master" -> "master" [] f = "become_standby" -> "standby"
                   [] OTHER -> role[s]
  BY <1>1 DEF Call, TableTypeOK
<1>3. \A u \in Thread : u # t => cb'[s][u] = cb[s][u]
  BY <1>1, GotoMoves, DoneMoves DEF Call, CbPc
<1>4. cb'[s][t] = NoCall \/ (cb'[s][t].pc = "my_lock" /\ cb'[s][t].f = f)
  BY <1>1, GotoMoves, DoneMoves DEF Call, CbPc
<1>5. AllOrNone(s)'
  BY <1>1 DEF Told, AllOrNone
<1>6. \A u \in Thread : Teller(s, u)'
  BY <1>3, <1>4 DEF Told, Teller, At, NoCall
<1>7. Parted(s)'
  <2>1. CASE f = "become_master"
    <3>1. conn[s].pc \in {"handle", "dead", "closing"}
      BY <2>1 DEF Told, Teller
    <3> QED
      BY <3>1 DEF Parted
  <2>2. CASE f = "become_standby"
    <3>1. role'[s] = "standby"
      BY <1>2, <2>2
    <3> QED
      BY <3>1 DEF Parted
  <2>3. CASE f \notin {"become_master", "become_standby"}
    <3>1. role'[s] = role[s]
      BY <1>2, <2>3
    <3>2. conn[s].pc = "standby" /\ role[s] = "master" => t # "application"
      BY <2>3 DEF Told, Parted
    <3> QED
      BY <1>3, <3>1, <3>2, ThreadAssumption DEF Told, Parted
  <2> QED
    BY <2>1, <2>2, <2>3
<1> QED
  BY <1>5, <1>6, <1>7 DEF Told

LEMMA ToldCallback ==
    ASSUME TypeOK, NEW s \in Server, Told(s), NEW t \in Thread,
           Callback_Step(s, t) \/ PlugIn(s, t), conn' = conn
    PROVE  Told(s)'
<1>a. {"lock", "install", "test", "retest", "call", "my_lock", "my_unlock"}
         \subseteq CbPc \ {"idle"}
  BY DEF CbPc
<1>b. ASSUME table' = table, role' = role PROVE AllOrNone(s)'
  BY <1>b DEF Told, AllOrNone
<1>1. CASE Lock(s, t)
  BY <1>1, <1>a, <1>b, ToldGoto DEF Lock
<1>2. CASE Install(s, t)
  <2>1. AllOrNone(s)'
    BY <1>2 DEF Install, Told, AllOrNone, TypeOK, TableTypeOK
  <2> QED
    BY <1>2, <1>a, <2>1, ToldGoto DEF Install
<1>3. ASSUME table' = table, role' = role, CallbackAssumption,
             IF Set(s, cb[s][t].f) THEN Goto(s, t, "call") ELSE Done(s, t)
      PROVE  Told(s)'
  <2>1. CASE Set(s, cb[s][t].f)
    BY <1>3, <1>a, <1>b, <2>1, ToldGoto
  <2>2. CASE ~Set(s, cb[s][t].f)
    <3>1. t = "application" /\ conn[s].pc = "standby" => role[s] # "master"
      BY <1>3, <2>2, ToldOwes DEF Set
    <3> QED
      BY <1>3, <1>b, <2>2, <3>1, ToldDone
  <2> QED
    BY <2>1, <2>2
<1>4. CASE Test(s, t)
  <2>1. CASE cb[s][t].f = "become_master"
    <3>1. ~(t = "application" /\ conn[s].pc = "standby" /\ role[s] = "master")
      BY <2>1, ToldOwes
    <3> QED
      BY <1>4, <1>a, <1>b, <2>1, <3>1, ToldGoto DEF Test
  <2>2. CASE cb[s][t].f # "become_master"
    BY <1>3, <1>4, <2>2, CallbackAssumption DEF Test
  <2> QED
    BY <2>1, <2>2
<1>5. CASE Retest(s, t)
  BY <1>3, <1>5, CallbackAssumption DEF Retest
<1>6. CASE Call(s, t)
  BY <1>6, ToldCall
<1>7. CASE MyLock(s, t)
  <2>1. ~(t = "application" /\ conn[s].pc = "standby" /\ role[s] = "master")
    BY <1>7, ToldOwes DEF MyLock
  <2> QED
    BY <1>7, <1>a, <1>b, <2>1, ToldGoto DEF MyLock
<1>8. CASE MyUnlock(s, t)
  <2>1. t = "application" /\ conn[s].pc = "standby" => role[s] # "master"
    BY <1>8, ToldOwes DEF MyUnlock
  <2> QED
    BY <1>8, <1>b, <2>1, ToldDone DEF MyUnlock
<1>9. CASE PlugIn(s, t)
  <2>1. ~(t = "application" /\ conn[s].pc = "standby" /\ role[s] = "master")
    BY <1>9, ToldOwes DEF PlugIn
  <2> QED
    BY <1>9, <1>a, <1>b, <2>1, ToldGoto DEF PlugIn
<1> QED
  BY <1>1, <1>2, <1>4, <1>5, <1>6, <1>7, <1>8, <1>9 DEF Callback_Step

\* A thread begins a callback that is allowed it.
LEMMA ToldBegin ==
    ASSUME TypeOK, NEW s \in Server, Told(s), NEW t \in Thread, NEW f \in Callback,
           Begin(s, t, f), conn'[s].pc = conn[s].pc \/ conn'[s].pc = "standby",
           f = "become_master" => /\ t \in {"application", "completion"}
                                  /\ conn'[s].pc = "handle",
           \A u \in Thread : cb[s][u].f = "become_master" => conn'[s].pc = conn[s].pc,
           t = "application" => conn'[s].pc = "handle" \/ f = "become_standby",
           conn'[s].pc # conn[s].pc => t = "application"
    PROVE  Told(s)'
<1>1. TableTypeOK
  BY DEF TypeOK
<1>2. table' = table /\ role' = role
  BY DEF Begin
<1>3. /\ cb'[s][t] = [pc |-> "lock", f |-> f]
      /\ \A u \in Thread : u # t => cb'[s][u] = cb[s][u]
  BY <1>1, BeginMoves
<1>4. cb'[s][t].pc = "lock" /\ cb'[s][t].f = f
  BY <1>3
<1>5. AllOrNone(s)'
  BY <1>2 DEF Told, AllOrNone
<1>6. \A u \in Thread : Teller(s, u)'
  BY <1>3, <1>4 DEF Told, Teller, At
<1>7. Parted(s)'
  BY <1>2, <1>3, <1>4, ThreadAssumption DEF Told, Parted
<1> QED
  BY <1>5, <1>6, <1>7 DEF Told

\* A callback that begins, or goes on, on one server moves nothing of another.
LEMMA BeginElsewhere ==
    ASSUME TableTypeOK, NEW s \in Server, NEW t \in Thread, NEW f \in Callback, Begin(s, t, f),
           NEW r \in Server, r # s
    PROVE  cb'[r] = cb[r]
BY DEF TableTypeOK, Begin

LEMMA CallbackElsewhere ==
    ASSUME TableTypeOK, NEW s \in Server, NEW t \in Thread, Callback_Step(s, t),
           NEW r \in Server, r # s
    PROVE  table'[r] = table[r] /\ role'[r] = role[r] /\ \A u \in Thread : cb'[r][u] = cb[r][u]
<1>1. table'[r] = table[r] /\ role'[r] = role[r]
  BY DEF Callback_Step, Lock, Install, Test, Retest, Call, MyLock, MyUnlock, TableTypeOK
<1>2. (\E pc \in CbPc : Goto(s, t, pc)) \/ Done(s, t)
  BY DEF Callback_Step, Lock, Install, Test, Retest, Call, MyLock, MyUnlock, CbPc
<1>3. \A u \in Thread : cb'[r][u] = cb[r][u]
  BY <1>2, GotoMoves, DoneMoves
<1> QED
  BY <1>1, <1>3

\* Every step of the library keeps what mysqld was told in step with its handle.
LEMMA ToldStep == ASSUME TypeOK, \A s \in Server : Told(s), [Next]_vars
                  PROVE  \A s \in Server : Told(s)'
<1> SUFFICES ASSUME NEW r \in Server PROVE Told(r)'
  OBVIOUS
<1>a. ASSUME UNCHANGED callbackVars, conn'[r].pc = conn[r].pc PROVE Told(r)'
  BY <1>a, ToldStays DEF callbackVars
<1>b. conn \in [Server -> ConnState] /\ TableTypeOK
  BY DEF TypeOK, BootstrapTypeOK
<1>1. CASE UNCHANGED vars
  BY <1>1, <1>a DEF vars, connectVars
<1>2. ASSUME NEW s \in Server, Connects(s) PROVE Told(r)'
  <2>1. CASE s = r
    BY <1>2, <2>1, ToldConnects
  <2>2. CASE s # r
    <3>1. conn'[r].pc = conn[r].pc
      BY <1>2, <1>b, <2>2 DEF Connects, Connect, Connect_Step, Connect_Exists, Connect_Create,
                              Onward, Refuse
    <3> QED
      BY <1>2, <1>a, <3>1 DEF Connects
  <2> QED
    BY <2>1, <2>2
<1>3. ASSUME NEW s \in Server, Starts(s) PROVE Told(r)'
  <2>1. conn' = conn
    BY <1>3 DEF Starts, connectVars
  <2>2. ASSUME NEW t \in Thread, NEW f \in Callback, Begin(s, t, f),
               f = "become_master" =>
                   t \in {"application", "completion"} /\ conn[s].pc = "handle",
               t = "application" => conn[s].pc = "handle"
        PROVE  Told(r)'
    <3>1. CASE s = r
      BY <2>1, <2>2, <3>1, ToldBegin
    <3>2. CASE s # r
      <4>1. \A u \in Thread : cb'[r][u] = cb[r][u]
        <5>1. cb'[r] = cb[r]
          BY <1>b, <2>2, <3>2, BeginElsewhere
        <5> QED
          BY <5>1
      <4> QED
        BY <2>1, <2>2, <4>1, ToldStays DEF Begin
    <3> QED
      BY <3>1, <3>2
  <2>3. CASE conn[s].pc = "handle" /\ \E t \in {"application", "completion"}, f \in Callback :
                                          Begin(s, t, f)
    BY <2>2, <2>3, ThreadAssumption, CallbackAssumption
  <2>4. CASE Begin(s, "left behind", "become_standby")
    BY <2>2, <2>4, ThreadAssumption, CallbackAssumption
  <2>5. CASE PlugIn(s, "mysqld")
    <3>1. CASE s = r
      BY <2>1, <2>5, <3>1, ToldCallback, ThreadAssumption
    <3>2. CASE s # r
      <4>1. "my_lock" \in CbPc /\ "mysqld" \in Thread
        BY ThreadAssumption DEF CbPc
      <4>2. \A u \in Thread : cb'[r][u] = cb[r][u]
        BY <1>b, <2>5, <3>2, <4>1, GotoMoves DEF PlugIn
      <4> QED
        BY <2>1, <2>5, <4>2, ToldStays DEF PlugIn
    <3> QED
      BY <3>1, <3>2
  <2> QED
    BY <1>3, <2>3, <2>4, <2>5, WhoStarts
<1>4. ASSUME NEW s \in Server, NEW t \in Thread, Goes(s, t) PROVE Told(r)'
  <2>1. CASE NullCall(s, t)
    <3>1. UNCHANGED callbackVars /\ (s # r => conn'[r] = conn[r]) /\ conn'[s].pc = "dead"
      BY <1>b, <2>1 DEF NullCall, ConnState
    <3>2. CASE s # r
      BY <1>a, <3>1, <3>2
    <3>3. CASE s = r
      BY <3>1, <3>3 DEF callbackVars, Told, AllOrNone, Teller, Parted, At
    <3> QED
      BY <3>2, <3>3
  <2>2. CASE Callback_Step(s, t) /\ UNCHANGED connectVars
    <3>1. conn' = conn
      BY <2>2 DEF connectVars
    <3>2. CASE s = r
      BY <2>2, <3>1, <3>2, ToldCallback
    <3>3. CASE s # r
      BY <1>b, <2>2, <3>1, <3>3, CallbackElsewhere, ToldStays
    <3> QED
      BY <3>2, <3>3
  <2> QED
    BY <1>4, <2>1, <2>2 DEF Goes
<1>5. ASSUME NEW s \in Server, Disconnect(s) PROVE Told(r)'
  <2>1. UNCHANGED callbackVars /\ (s # r => conn'[r] = conn[r]) /\ conn'[s].pc = "closing"
    BY <1>b, <1>5 DEF Disconnect, ConnState
  <2>2. CASE s # r
    BY <1>a, <2>1, <2>2
  <2>3. CASE s = r
    <3>1. \A t \in Thread : Teller(s, t)'
      BY <1>5, <2>1, <2>3 DEF Disconnect, callbackVars, Told, Teller, At
    <3> QED
      BY <2>1, <2>3, <3>1 DEF callbackVars, Told, AllOrNone, Parted
  <2> QED
    BY <2>2, <2>3
<1>6. ASSUME NEW s \in Server, Disconnect_Standby(s) PROVE Told(r)'
  <2>1. /\ Begin(s, "application", "become_standby") /\ conn[s].pc = "closing"
        /\ (s # r => conn'[r] = conn[r]) /\ conn'[s].pc = "standby"
    BY <1>b, <1>6 DEF Disconnect_Standby, ConnState
  <2>2. "application" \in Thread /\ "become_standby" \in Callback
    BY ThreadAssumption, CallbackAssumption
  <2>3. CASE s # r
    <3>1. \A u \in Thread : cb'[r][u] = cb[r][u]
      <4>1. cb'[r] = cb[r]
        BY <1>b, <2>1, <2>2, <2>3, BeginElsewhere
      <4> QED
        BY <4>1
    <3> QED
      BY <2>1, <2>3, <3>1, ToldStays DEF Begin
  <2>4. CASE s = r
    <3>1. cb[s]["completion"].f = "none"
      BY <1>6, <2>4, ThreadAssumption DEF Disconnect_Standby, Joined, Told, Teller
    <3>2. \A u \in Thread : cb[s][u].f # "become_master"
      BY <2>1, <2>4, <3>1 DEF Told, Teller
    <3> QED
      BY <2>1, <2>2, <2>4, <3>2, ToldBegin
  <2> QED
    BY <2>3, <2>4
<1>7. ASSUME NEW s \in Server, Disconnect_Done(s) PROVE Told(r)'
  <2>1. UNCHANGED callbackVars /\ (s # r => conn'[r] = conn[r]) /\ conn'[s] = NoHandle
    BY <1>b, <1>7 DEF Disconnect_Done
  <2>2. CASE s # r
    BY <1>a, <2>1, <2>2
  <2>3. CASE s = r
    <3>1. conn'[s].pc = "none"
      BY <2>1 DEF NoHandle
    <3>2. role[s] # "master"
      BY <1>7, <2>3 DEF Disconnect_Done, Told, Parted, At
    <3>3. \A t \in Thread : Teller(s, t)'
      BY <1>7, <2>1, <2>3 DEF Disconnect_Done, callbackVars, Told, Teller, At
    <3> QED
      BY <2>1, <2>3, <3>1, <3>2, <3>3 DEF callbackVars, Told, AllOrNone, Parted
  <2> QED
    BY <2>2, <2>3
<1> QED
  BY <1>1, <1>2, <1>3, <1>4, <1>5, <1>6, <1>7 DEF Next

\* zm_disconnect, zk_manager.cc lines 494-499: the completion thread is joined before
\* mysqld is told to stand by, so that mysqld without a handle is no master, whatever
\* its threads were about to tell it.
THEOREM NoHandleNoMaster == Spec => []DisconnectedStandsBy
<1> DEFINE AllTold == \A s \in Server : Told(s)
<1>1. Init => AllTold
  BY DEF Init, BootstrapInit, TableInit, NoHandle, NoCall, Told, AllOrNone, Teller, Parted, At
<1>2. TypeOK /\ AllTold /\ [Next]_vars => AllTold'
  BY ToldStep
<1>3. AllTold => DisconnectedStandsBy
  BY DEF Told, Parted, DisconnectedStandsBy
<1> HIDE DEF AllTold
<1> QED
  BY <1>1, <1>2, <1>3, LibraryTypes, PTL DEF Spec
=============================================================================
