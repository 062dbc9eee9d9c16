---------------------------- MODULE ElectionProofs ----------------------------
(***************************************************************************)
(* register_server elects one master: ElectedUnique, for every set of      *)
(* servers and every value of the bounds, whatever crashes, expires, fails *)
(* or is registered twice.                                                 *)
(*                                                                         *)
(* ElectedUnique is not inductive: it says nothing of a first child that   *)
(* has been listed and not yet read.  ElectionInv adds that a child once   *)
(* found to be the first stays below all later ones, because the service   *)
(* numbers its znodes upwards.                                             *)
(***************************************************************************)
EXTENDS ZkManagerProofs

\* The service numbers the children of /master upwards, and never twice the same.
Numbered ==
    /\ \A z \in master : 0 < z.seq /\ z.seq < nextSeq
    /\ \A y, z \in master : y.seq = z.seq => y = z

\* No child of /master, now or later, comes before this one.
Lowest(q) == q < nextSeq /\ \A z \in master : q <= z.seq

Listed(s) == app[s].pc \in {"fetch", "first"}
FirstStays == \A s \in Server : Listed(s) => Lowest(app[s].first)

ElectedStays ==
    \A s \in Server : elected[s] # 0 =>
        /\ Lowest(elected[s])
        /\ \A z \in master : z.seq = elected[s] => z.uuid = s

ElectionInv == TypeOK /\ Numbered /\ FirstStays /\ ElectedStays

-----------------------------------------------------------------------------
(* What a step does to the variables ElectionInv is about.                  *)

Grows == \E t \in Server, k \in Nat :
    /\ master' = master \cup {[seq |-> nextSeq, uuid |-> t, sid |-> k]}
    /\ nextSeq' = nextSeq + 1
Shrinks == master' \subseteq master /\ nextSeq' = nextSeq

\* The znode zoo_create makes has the next number.
LEMMA CreateGrows ==
    ASSUME TypeOK, NEW s \in Server, CreateMasterZnode(s)
    PROVE  Grows
<1>1. handler[s] \in Nat  BY DEF TypeOK, MgrTypeOK
<1>2. QED  BY <1>1 DEF CreateMasterZnode, Grows

\* /master gains the next znode, or only loses some.
LEMMA MasterMoves == ASSUME TypeOK, Next PROVE Grows \/ Shrinks
<1>1. ASSUME NEW s \in Server, AppThread(s) PROVE Grows \/ Shrinks
  <2>1. CASE RegisterServer_Create(s)
    <3>1. CreateMasterZnode(s) \/ UNCHANGED zkVars
      BY <2>1 DEF RegisterServer_Create
    <3>2. QED  BY <3>1, CreateGrows DEF Shrinks, zkVars
  <2>2. CASE Disconnect_Done(s)  BY <2>2 DEF Disconnect_Done, EndSession, Shrinks
  <2>3. CASE ~RegisterServer_Create(s) /\ ~Disconnect_Done(s)
    BY <1>1, <2>3 DEF AppThread, RegisterServer_Step, RegisterServer_Count, RegisterServer_List,
       RegisterServer_Fetch, RegisterServer_First, RegisterServer_Tell, GetSyncpoint_Read,
       pointRest, Shrinks, zkVars
  <2>4. QED  BY <2>1, <2>2, <2>3
<1>2. ASSUME NEW s \in Server, CompletionThread(s) PROVE Grows \/ Shrinks
  <2>1. CASE NodesIncrease_Locked(s)
    <3>1. CreateMasterZnode(s) \/ UNCHANGED zkVars
      BY <2>1 DEF NodesIncrease_Locked, RegisterDelayed
    <3>2. QED  BY <3>1, CreateGrows DEF Shrinks, zkVars
  <2>2. CASE NodesIncrease_Again(s)
    <3>1. CreateMasterZnode(s) \/ UNCHANGED zkVars
      BY <2>2 DEF NodesIncrease_Again, Again
    <3>2. QED  BY <3>1, CreateGrows DEF Shrinks, zkVars
  <2>3. CASE NodesDiscrease_Delete(s)
    <3>1. DeleteMasterZnode(wat[s].id) \/ UNCHANGED zkVars
      BY <2>3 DEF NodesDiscrease_Delete
    <3>2. QED  BY <3>1 DEF DeleteMasterZnode, Shrinks, zkVars
  <2>4. CASE SessionExpired(s) \/ ReplWatcher_Step(s)
    BY <2>4 DEF SessionExpired, ReplWatcher_Step, ReplWatcher_List, ReplWatcher_Diff, Shrinks,
       zkVars
  <2>5. CASE \/ MasterWatcher_List(s) \/ MasterWatcher_Fetch(s) \/ MasterWatcher_End(s)
             \/ NodesIncrease(s) \/ NodesIncrease_Exists(s) \/ NodesDiscrease(s)
             \/ NodesDiscrease_Exists(s) \/ NodesDiscrease_Locked(s) \/ NodesDiscrease_Mode(s)
    BY <2>5 DEF MasterWatcher_List, MasterWatcher_Fetch, MasterWatcher_End, NodesIncrease,
       NodesIncrease_Exists, NodesDiscrease, NodesDiscrease_Exists, NodesDiscrease_Locked,
       NodesDiscrease_Mode, Shrinks, zkVars
  <2>6. QED  BY <1>2, <2>1, <2>2, <2>3, <2>4, <2>5 DEF CompletionThread, MasterWatcher_Step
<1>3. ASSUME NEW s \in Server, Application(s) \/ Crash(s) PROVE Grows \/ Shrinks
  <2>1. CASE Connect(s)  BY <2>1 DEF Connect, Shrinks
  <2>2. CASE RegisterServer_Replication(s) \/ Disconnect_Close(s) \/ Crash(s)
    BY <2>2 DEF RegisterServer_Replication, Disconnect_Close, Crash, Shrinks, zkVars
  <2>3. CASE \/ ChangeReplMode(s) \/ GetSyncpoint(s)
             \/ \E m \in Server : StartRepl(s, m) \/ RmRepl(s, m)
    <3>1. UNCHANGED pointRest
      BY <2>3 DEF ChangeReplMode, GetSyncpoint, StartRepl, RmRepl, adminRest
    <3>2. QED  BY <3>1 DEF pointRest, zkVars, Shrinks
  <2>4. QED  BY <1>3, <2>1, <2>2, <2>3 DEF Application
<1>4. ASSUME NEW k \in sessions, SessionTimeout(k) PROVE Grows \/ Shrinks
  BY <1>4 DEF SessionTimeout, EndSession, Shrinks
<1>5. QED  BY <1>1, <1>2, <1>3, <1>4 DEF Next

\* A server that has listed /master had listed it before, or lists it now.
ListsNow(t) ==
    /\ app'[t].first \in Seqs(master) /\ \A q \in Seqs(master) : app'[t].first <= q
    /\ UNCHANGED zkVars
FirstMoves(t) == Listed(t)' => \/ Listed(t) /\ app'[t].first = app[t].first
                              \/ ListsNow(t)

\* Only zoo_wget_children in register_server chooses a first child.
LEMMA AppMoves == ASSUME TypeOK, Next, NEW t \in Server PROVE FirstMoves(t)
<1>1. app \in [Server -> AppState]  BY DEF TypeOK, ThreadTypeOK
<1>2. ASSUME NEW s \in Server, AppThread(s) PROVE FirstMoves(t)
  <2>1. CASE RegisterServer_Count(s)
    BY <1>1, <2>1 DEF RegisterServer_Count, FirstMoves, Listed, AppState
  <2>2. CASE RegisterServer_Create(s)
    BY <1>1, <2>2 DEF RegisterServer_Create, Goto, Return, AppIdle, FirstMoves, Listed, AppState
  <2>3. CASE RegisterServer_List(s)
    <3>1. CASE Return(s)  BY <1>1, <3>1 DEF Return, AppIdle, FirstMoves, Listed, AppState
    <3>2. ASSUME NEW first \in Seqs(master), IsFirst(first, Seqs(master)),
                 app' = [app EXCEPT ![s] = [@ EXCEPT !.pc = "fetch", !.kids = Seqs(master),
                                                    !.first = first]]
          PROVE  FirstMoves(t)
      <4>1. CASE s = t
        <5>1. app'[t].first = first  BY <1>1, <3>2, <4>1 DEF AppState
        <5>2. ListsNow(t)  BY <2>3, <3>2, <5>1 DEF RegisterServer_List, ListsNow, IsFirst
        <5>3. QED  BY <5>2 DEF FirstMoves
      <4>2. CASE s # t  BY <1>1, <3>2, <4>2 DEF FirstMoves, Listed
      <4>3. QED  BY <4>1, <4>2
    <3>3. QED  BY <2>3, <3>1, <3>2 DEF RegisterServer_List
  <2>4. CASE RegisterServer_Fetch(s)
    <3>1. PICK q \in app[s].kids :
            \/ app' = [app EXCEPT ![s] = [app[s] EXCEPT !.kids = app[s].kids \ {q}]]
            \/ app' = [app EXCEPT ![s] = [app[s] EXCEPT !.kids = {}, !.pc = "first"]]
      BY <2>4 DEF RegisterServer_Fetch
    <3>2. Listed(s)  BY <2>4 DEF RegisterServer_Fetch, Listed
    <3>3. CASE s = t
      <4>1. app'[t].first = app[t].first  BY <1>1, <3>1, <3>3 DEF AppState
      <4>2. QED  BY <3>2, <3>3, <4>1 DEF FirstMoves
    <3>4. CASE s # t  BY <1>1, <3>1, <3>4 DEF FirstMoves, Listed
    <3>5. QED  BY <3>3, <3>4
  <2>5. CASE RegisterServer_First(s)
    BY <1>1, <2>5 DEF RegisterServer_First, Goto, Return, AppIdle, FirstMoves, Listed, AppState
  <2>6. CASE RegisterServer_Tell(s)
    BY <1>1, <2>6 DEF RegisterServer_Tell, Return, AppIdle, FirstMoves, Listed, AppState
  <2>7. CASE Disconnect_Done(s)
    BY <1>1, <2>7 DEF Disconnect_Done, Forget, AppIdle, FirstMoves, Listed, AppState
  <2>8. CASE GetSyncpoint_Read(s)
    <3>1. PICK rest \in {AppIdle} \cup {[app[s] EXCEPT !.slaves = S] : S \in SUBSET Server} :
            app' = [app EXCEPT ![s] = rest]
      BY <1>1, <2>8 DEF GetSyncpoint_Read, AppState
    <3>2. rest.pc \in {"idle", "points"}
      BY <1>1, <2>8, <3>1 DEF GetSyncpoint_Read, AppIdle, AppState
    <3>3. QED  BY <1>1, <3>1, <3>2 DEF FirstMoves, Listed
  <2>9. QED
    BY <1>2, <2>1, <2>2, <2>3, <2>4, <2>5, <2>6, <2>7, <2>8 DEF AppThread, RegisterServer_Step
<1>3. ASSUME UNCHANGED app PROVE FirstMoves(t)  BY <1>3 DEF FirstMoves, Listed
<1>4. ASSUME NEW s \in Server, CompletionThread(s) PROVE UNCHANGED app
  BY <1>4 DEF CompletionThread, SessionExpired, ReplWatcher_Step, ReplWatcher_List,
     ReplWatcher_Diff, MasterWatcher_Step, MasterWatcher_List, MasterWatcher_Fetch,
     MasterWatcher_End, NodesIncrease, NodesIncrease_Exists, NodesIncrease_Locked,
     NodesIncrease_Again, NodesDiscrease, NodesDiscrease_Exists, NodesDiscrease_Locked,
     NodesDiscrease_Mode, NodesDiscrease_Delete
<1>5. ASSUME NEW s \in Server, Application(s) PROVE FirstMoves(t)
  <2>1. CASE RegisterServer_Replication(s)
    <3>1. UNCHANGED app \/ Registering(s)  BY <2>1 DEF RegisterServer_Replication
    <3>2. CASE Registering(s)
      BY <1>1, <3>2 DEF Registering, AppIdle, FirstMoves, Listed, AppState
    <3>3. QED  BY <1>3, <3>1, <3>2
  <2>2. CASE Disconnect_Close(s)
    BY <1>1, <2>2 DEF Disconnect_Close, Goto, FirstMoves, Listed, AppState
  <2>3. CASE GetSyncpoint(s)
    BY <1>1, <2>3 DEF GetSyncpoint, AppIdle, FirstMoves, Listed
  <2>4. CASE Connect(s) \/ ChangeReplMode(s) \/ \E m \in Server : StartRepl(s, m) \/ RmRepl(s, m)
    BY <1>3, <2>4 DEF Connect, ChangeReplMode, StartRepl, RmRepl, adminRest
  <2>5. QED  BY <1>5, <2>1, <2>2, <2>3, <2>4 DEF Application
<1>6. ASSUME NEW s \in Server, Crash(s) PROVE FirstMoves(t)
  BY <1>1, <1>6 DEF Crash, Forget, AppIdle, FirstMoves, Listed, AppState
<1>7. ASSUME NEW k \in sessions, SessionTimeout(k) PROVE UNCHANGED app
  BY <1>7 DEF SessionTimeout
<1>8. QED  BY <1>2, <1>3, <1>4, <1>5, <1>6, <1>7 DEF Next

\* A server whose first child, which it has listed before and reads now, has its
\* uuid is elected; in any other step the elected stay so or are no more.
ElectsNow(s) ==
    /\ Listed(s) /\ elected' = [elected EXCEPT ![s] = app[s].first]
    /\ \E z \in master : z.seq = app[s].first /\ z.uuid = s
    /\ UNCHANGED zkVars
NoneElected == \A t \in Server : elected'[t] \in {elected[t], 0}

\* What most steps do.
LEMMA LosesOne ==
    ASSUME TypeOK, NEW s \in Server,
           UNCHANGED elected \/ elected' = [elected EXCEPT ![s] = 0]
    PROVE  NoneElected
BY DEF TypeOK, ToldTypeOK, NoneElected

\* Only the zoo_get of the first child elects.
LEMMA ElectMoves == ASSUME TypeOK, Next PROVE NoneElected \/ \E s \in Server : ElectsNow(s)
<1>1. ASSUME NEW s \in Server, AppThread(s)
      PROVE  NoneElected \/ \E t \in Server : ElectsNow(t)
  <2>1. CASE RegisterServer_First(s)
    <3>1. UNCHANGED elected \/ ElectsNow(s)
      BY <2>1 DEF RegisterServer_First, ElectsNow, Listed
    <3>2. QED  BY <3>1, LosesOne
  <2>2. CASE Disconnect_Done(s)  BY <2>2, LosesOne DEF Disconnect_Done, Forget
  <2>3. CASE RegisterServer_Fetch(s)
    <3>1. UNCHANGED elected \/ elected' = [elected EXCEPT ![s] = 0]
      BY <2>3 DEF RegisterServer_Fetch
    <3>2. QED  BY <3>1, LosesOne
  <2>4. CASE ~RegisterServer_First(s) /\ ~Disconnect_Done(s) /\ ~RegisterServer_Fetch(s)
    <3>1. UNCHANGED elected
      BY <1>1, <2>4 DEF AppThread, RegisterServer_Step, RegisterServer_Count,
         RegisterServer_Create, RegisterServer_List, RegisterServer_Tell, GetSyncpoint_Read,
         pointRest, history
    <3>2. QED  BY <3>1, LosesOne
  <2>5. QED  BY <2>1, <2>2, <2>3, <2>4
<1>2. ASSUME NEW s \in Server, CompletionThread(s) PROVE NoneElected
  <2>1. CASE NodesIncrease_Locked(s)
    <3>1. UNCHANGED elected \/ elected' = [elected EXCEPT ![s] = 0]
      BY <2>1 DEF NodesIncrease_Locked, RegisterDelayed
    <3>2. QED  BY <3>1, LosesOne
  <2>2. CASE NodesDiscrease_Mode(s)
    <3>1. UNCHANGED elected \/ elected' = [elected EXCEPT ![s] = 0]
      BY <2>2 DEF NodesDiscrease_Mode
    <3>2. QED  BY <3>1, LosesOne
  <2>3. CASE SessionExpired(s) \/ ReplWatcher_Step(s)
    <3>1. UNCHANGED elected
      BY <2>3 DEF SessionExpired, ReplWatcher_Step, ReplWatcher_List, ReplWatcher_Diff, toldVars,
         history
    <3>2. QED  BY <3>1, LosesOne
  <2>4. CASE \/ MasterWatcher_List(s) \/ MasterWatcher_Fetch(s) \/ MasterWatcher_End(s)
             \/ NodesIncrease(s) \/ NodesIncrease_Exists(s) \/ NodesIncrease_Again(s)
             \/ NodesDiscrease(s) \/ NodesDiscrease_Exists(s) \/ NodesDiscrease_Locked(s)
             \/ NodesDiscrease_Delete(s)
    <3>1. UNCHANGED elected
      BY <2>4 DEF MasterWatcher_List, MasterWatcher_Fetch, MasterWatcher_End, NodesIncrease,
         NodesIncrease_Exists, NodesIncrease_Again, NodesDiscrease, NodesDiscrease_Exists,
         NodesDiscrease_Locked, NodesDiscrease_Delete, history
    <3>2. QED  BY <3>1, LosesOne
  <2>5. QED  BY <1>2, <2>1, <2>2, <2>3, <2>4 DEF CompletionThread, MasterWatcher_Step
<1>3. ASSUME NEW s \in Server, Application(s) PROVE NoneElected
  <2>1. UNCHANGED elected
    BY <1>3 DEF Application, Connect, RegisterServer_Replication, Disconnect_Close, ChangeReplMode,
       GetSyncpoint, StartRepl, RmRepl, adminRest, pointRest, history
  <2>2. QED  BY <2>1, LosesOne
<1>4. ASSUME NEW s \in Server, Crash(s) PROVE NoneElected
  BY <1>4, LosesOne DEF Crash, Forget
<1>5. ASSUME NEW k \in sessions, SessionTimeout(k) PROVE NoneElected
  BY <1>5 DEF SessionTimeout, NoneElected, history
<1>6. QED  BY <1>1, <1>2, <1>3, <1>4, <1>5 DEF Next

-----------------------------------------------------------------------------
(* The invariant                                                            *)

\* Whatever happens to /master, its numbers grow, and a lowest number stays lowest.
LEMMA GrowsKeepsLowest ==
    ASSUME ZkTypeOK, Numbered, Grows \/ Shrinks
    PROVE  Numbered' /\ \A q \in Nat : Lowest(q) => Lowest(q)'
<1>1. nextSeq \in Nat \ {0} /\ \A z \in master : z.seq \in Nat  BY DEF ZkTypeOK, Znode
<1>2. CASE Shrinks  BY <1>1, <1>2 DEF Shrinks, Numbered, Lowest
<1>3. CASE Grows
  <2>1. PICK t \in Server, k \in Nat :
          /\ master' = master \cup {[seq |-> nextSeq, uuid |-> t, sid |-> k]}
          /\ nextSeq' = nextSeq + 1
    BY <1>3 DEF Grows
  <2>2. \A z \in master' : z \in master \/ z = [seq |-> nextSeq, uuid |-> t, sid |-> k]
    BY <2>1
  <2>3. Numbered'
    <3>1. \A z \in master' : 0 < z.seq /\ z.seq < nextSeq'  BY <1>1, <2>1, <2>2 DEF Numbered
    <3>2. \A y, z \in master' : y.seq = z.seq => y = z  BY <1>1, <2>2 DEF Numbered
    <3>3. QED  BY <3>1, <3>2 DEF Numbered
  <2>4. ASSUME NEW q \in Nat, Lowest(q) PROVE Lowest(q)'
    BY <1>1, <2>1, <2>2, <2>4 DEF Lowest
  <2>5. QED  BY <2>3, <2>4
<1>4. QED  BY <1>2, <1>3

\* A znode that was not there before has a number no first child had.
LEMMA NewIsLater ==
    ASSUME ZkTypeOK, Grows \/ Shrinks, NEW q \in Nat, Lowest(q), NEW z \in master', z.seq = q
    PROVE  z \in master
<1>1. CASE Shrinks  BY <1>1 DEF Shrinks
<1>2. CASE Grows  BY <1>2 DEF Grows, Lowest, ZkTypeOK
<1>3. QED  BY <1>1, <1>2

\* The first of the children, when they are listed, is the lowest number there will be.
LEMMA FirstIsLowest ==
    ASSUME Numbered, ZkTypeOK, NEW q \in Seqs(master), \A p \in Seqs(master) : q <= p
    PROVE  Lowest(q)
BY DEF Numbered, Lowest, Seqs

\* Every step of the cluster keeps the invariant,
LEMMA NextKeepsElection == ElectionInv /\ Next => ElectionInv'
<1> SUFFICES ASSUME ElectionInv, Next PROVE ElectionInv'
  OBVIOUS
<1>1. TypeOK'  BY NextKeepsType DEF ElectionInv
<1>2. Grows \/ Shrinks  BY MasterMoves DEF ElectionInv
<1>3. Numbered' /\ \A q \in Nat : Lowest(q) => Lowest(q)'
  BY <1>2, GrowsKeepsLowest DEF ElectionInv, TypeOK
<1>4. ASSUME NEW t \in Server PROVE app[t].first \in Nat /\ app'[t].first \in Nat
  BY <1>1 DEF ElectionInv, TypeOK, ThreadTypeOK, AppState
<1>5. FirstStays'
  <2> SUFFICES ASSUME NEW t \in Server, Listed(t)' PROVE Lowest(app[t].first)'
    BY DEF FirstStays
  <2>1. CASE Listed(t) /\ app'[t].first = app[t].first
    BY <1>3, <1>4, <2>1 DEF ElectionInv, FirstStays
  <2>2. CASE ListsNow(t)
    <3>1. Lowest(app'[t].first)  BY <2>2, FirstIsLowest DEF ListsNow, ElectionInv, TypeOK
    <3>2. QED  BY <1>3, <1>4, <3>1
  <2>3. QED  BY <2>1, <2>2, AppMoves DEF FirstMoves, ElectionInv
<1>6. ElectedStays'
  <2> SUFFICES ASSUME NEW t \in Server, elected'[t] # 0
               PROVE  /\ Lowest(elected[t])'
                      /\ \A z \in master' : z.seq = elected'[t] => z.uuid = t
    BY DEF ElectedStays
  <2>1. CASE elected'[t] = elected[t]
    <3>1. elected[t] \in Nat  BY DEF ElectionInv, TypeOK, ToldTypeOK
    <3>2. Lowest(elected[t])  BY <2>1 DEF ElectionInv, ElectedStays
    <3>3. Lowest(elected[t])'  BY <1>3, <2>1, <3>1, <3>2
    <3>4. ASSUME NEW z \in master', z.seq = elected[t] PROVE z.uuid = t
      <4>1. z \in master  BY <1>2, <3>1, <3>2, <3>4, NewIsLater DEF ElectionInv, TypeOK
      <4>2. QED  BY <2>1, <3>4, <4>1 DEF ElectionInv, ElectedStays
    <3>5. QED  BY <2>1, <3>3, <3>4
  <2>2. CASE elected'[t] # elected[t]
    <3>1. PICK s \in Server : ElectsNow(s)  BY <2>2, ElectMoves DEF NoneElected, ElectionInv
    <3>2. s = t /\ elected'[t] = app[t].first
      BY <2>2, <3>1 DEF ElectsNow, ElectionInv, TypeOK, ToldTypeOK
    <3>3. Lowest(app[t].first)  BY <3>1, <3>2 DEF ElectsNow, ElectionInv, FirstStays
    <3>4. Lowest(elected[t])'  BY <1>3, <1>4, <3>2, <3>3
    <3>5. \A z \in master' : z.seq = elected'[t] => z.uuid = t
      BY <3>1, <3>2 DEF ElectsNow, zkVars, ElectionInv, Numbered
    <3>6. QED  BY <3>4, <3>5
  <2>3. QED  BY <2>1, <2>2
<1>7. QED  BY <1>1, <1>3, <1>5, <1>6 DEF ElectionInv

\* and so does a step that changes nothing.
LEMMA StutterKeepsElection == ElectionInv /\ UNCHANGED vars => ElectionInv'
<1> SUFFICES ASSUME ElectionInv, UNCHANGED vars PROVE ElectionInv'
  OBVIOUS
<1>1. TypeOK'  BY StutterKeepsType DEF ElectionInv
<1>2. Numbered' /\ FirstStays' /\ ElectedStays'
  BY DEF ElectionInv, vars, zkVars, history, Numbered, FirstStays, ElectedStays, Listed, Lowest
<1>3. QED  BY <1>1, <1>2 DEF ElectionInv

\* The first state has it.
LEMMA InitElection == Init => ElectionInv
<1> SUFFICES ASSUME Init PROVE ElectionInv
  OBVIOUS
<1>1. TypeOK  BY InitType
<1>2. Numbered /\ FirstStays /\ ElectedStays
  BY DEF Init, AppIdle, Numbered, FirstStays, ElectedStays, Listed
<1>3. QED  BY <1>1, <1>2 DEF ElectionInv

\* It makes the election unique: two elected servers would own one znode.
LEMMA ElectionIsUnique == ElectionInv => ElectedUnique
<1> SUFFICES ASSUME ElectionInv, NEW s \in Server, NEW t \in Server,
                    elected[s] \in Seqs(master), elected[t] \in Seqs(master)
             PROVE  s = t
  BY DEF ElectedUnique
<1>1. PICK y \in master : y.seq = elected[s]  BY DEF Seqs
<1>2. PICK z \in master : z.seq = elected[t]  BY DEF Seqs
<1>3. /\ elected[s] \in Nat /\ elected[s] # 0 /\ elected[t] \in Nat /\ elected[t] # 0
  BY <1>1, <1>2 DEF ElectionInv, TypeOK, ToldTypeOK, Numbered
<1>4. elected[s] <= z.seq /\ elected[t] <= y.seq
  BY <1>3 DEF ElectionInv, ElectedStays, Lowest
<1>5. elected[s] = elected[t]  BY <1>1, <1>2, <1>3, <1>4
<1>6. y.uuid = s /\ y.uuid = t
  BY <1>1, <1>3, <1>5 DEF ElectionInv, ElectedStays
<1>7. QED  BY <1>6

\* Two servers never both hold what register_server gave the owner of the first
\* child of /master, while the children that gave it to them are there: for every
\* number of servers, and with crashes, expired sessions, lost replies, delayed and
\* double registrations.
THEOREM Election == Spec => []ElectedUnique
<1>1. Spec => []ElectionInv
  <2>1. ElectionInv /\ [Next]_vars => ElectionInv'
    BY NextKeepsElection, StutterKeepsElection
  <2>2. QED  BY InitElection, <2>1, PTL DEF Spec
<1>2. QED  BY <1>1, ElectionIsUnique, PTL
=============================================================================
