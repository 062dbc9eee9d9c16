---------------------------- MODULE TakeoverProofs ----------------------------
(***************************************************************************)
(* A slave that takes over: as long as no call is lost, it does so after   *)
(* it has truly lost its master.  If no registration is delayed either, a  *)
(* registered master is the oldest of those it may compete with, so that a *)
(* master and its only slave are never masters both.                       *)
(*                                                                         *)
(* What a manager knows of /master is old: it was listed, then read, then  *)
(* compared with what it had read before.  Older and Losses say what is    *)
(* sure of it all the same, because numbers grow and a znode that is gone  *)
(* does not come back.  The last part is about a cluster that nobody       *)
(* leaves, and what a master is told there of its slave.                   *)
(***************************************************************************)
EXTENDS RegistrationProofs, FiniteSetTheorems

\* The entries a manager has of /master, wherever it holds them, and the numbers of
\* those that are in nodes or about to enter it.
Entries(s) == nodes[s] \cup wat[s].kids \cup wat[s].map
Heard(s) == Seqs(nodes[s]) \cup app[s].kids

Erasing == {"entered_dec", "decrease", "mode", "delete"}
Dec == Erasing \cup {"dec"}

\* Nobody knows of a znode that has yet to come.
Older(s) == \A q \in Seqs(Entries(s)) \cup app[s].kids : q < nextSeq

\* What nodes has and the list has not is gone, and the entry nodes_discrease is called
\* for is one of those.
Seen(s, S) == \A q \in Heard(s) : q \in Seqs(master) => q \in Seqs(S)
Losses(s) ==
    /\ wat[s].pc = "fetch" => Seen(s, wat[s].kids)
    /\ wat[s].pc \in Dec => Seen(s, wat[s].map)
    /\ wat[s].pc \in Erasing => wat[s].cur \notin Seqs(master) /\ wat[s].cur < nextSeq

Views == \A s \in Server : Alive(s) => Older(s) /\ Losses(s)

-----------------------------------------------------------------------------
(* How a manager comes to know of /master                                   *)

\* What it knows was known or is there; what it compares the list with only shrinks; and
\* list and loss are found as the code finds them.
Learns(s) ==
    /\ Entries(s)' \subseteq Entries(s) \cup {NodeOf(z) : z \in master}
    /\ app'[s].kids \subseteq app[s].kids \cup Seqs(master)
Compares(s) == wat'[s].pc \in Dec \cup {"fetch"} => Heard(s)' \subseteq Heard(s)
ListsAll(s) == wat'[s].pc = "fetch" =>
    \/ wat[s].pc = "fetch" /\ wat'[s].kids = wat[s].kids
    \/ Seqs(master) \subseteq Seqs(wat'[s].kids)
ReadsAll(s) == wat'[s].pc \in Dec =>
    \/ wat[s].pc \in Dec /\ wat'[s].map = wat[s].map
    \/ wat[s].pc = "fetch" /\ Seqs(wat[s].kids) \cap Seqs(master) \subseteq Seqs(wat'[s].map)
FindsLoss(s) == wat'[s].pc \in Erasing =>
    \/ wat[s].pc \in Erasing /\ wat'[s].cur = wat[s].cur /\ wat'[s].who = wat[s].who
    \/ /\ wat[s].pc = "dec"
       /\ \E e \in nodes[s] : /\ e.seq \notin Seqs(wat[s].map) /\ e.uuid # s
                              /\ wat'[s].cur = e.seq /\ wat'[s].who = e.uuid
View(s) == Learns(s) /\ Compares(s) /\ ListsAll(s) /\ ReadsAll(s) /\ FindsLoss(s)

\* The application thread works on nodes while the watcher does, and only takes from it
\* what the watcher may miss.
LEMMA AppView ==
    ASSUME NEW s \in Server, OwnStep(s),
           \/ RegisterServer_Count(s) \/ RegisterServer_Create(s) \/ RegisterServer_List(s)
           \/ RegisterServer_Fetch(s) \/ RegisterServer_First(s) \/ RegisterServer_Tell(s)
           \/ RegisterServer_Replication(s) \/ Asks(s)
    PROVE  View(s)
<1>1. wat'[s] = wat[s]
  BY CountMoves, CreateMoves, ListMoves, FetchMoves, FirstMovesOn, TellMoves, ReplicationMoves,
     AskMoves DEF OwnStep
<1>2. ListsAll(s) /\ ReadsAll(s) /\ FindsLoss(s)  BY <1>1 DEF ListsAll, ReadsAll, FindsLoss
<1>3. CASE RegisterServer_List(s)
  <2>1. nodes'[s] = {} /\ app'[s].kids \subseteq Seqs(master) /\ wat[s].pc \in Resting
    BY <1>3, ListMoves
    DEF OwnStep, ManagerOf, Unlisted, Listless, AppRests, AppIdle
  <2>2. Learns(s) /\ Compares(s)
    BY <1>1, <2>1 DEF Learns, Entries, Compares, Dec, Erasing, Resting
  <2>3. QED  BY <1>2, <2>2 DEF View
<1>4. CASE RegisterServer_Fetch(s)
  <2>1. PICK q \in app[s].kids : nodes'[s] \subseteq nodes[s] \cup Found(q)
    BY <1>4, FetchMoves DEF OwnStep
  <2>2. app'[s].kids \subseteq app[s].kids  BY <1>4, FetchMoves DEF OwnStep
  <2>3. Found(q) \subseteq {NodeOf(z) : z \in master} /\ Seqs(Found(q)) \subseteq {q}
    BY DEF Found, NodeOf, Seqs
  <2>4. Learns(s)  BY <1>1, <2>1, <2>2, <2>3 DEF Learns, Entries
  <2>5. Compares(s)  BY <2>1, <2>2, <2>3 DEF Compares, Heard, Seqs
  <2>6. QED  BY <1>2, <2>4, <2>5 DEF View
<1>5. CASE \/ RegisterServer_Count(s) \/ RegisterServer_Create(s) \/ RegisterServer_First(s)
           \/ RegisterServer_Tell(s) \/ RegisterServer_Replication(s) \/ Asks(s)
  <2>1. nodes'[s] = nodes[s]
    BY <1>5, CountMoves, CreateMoves, FirstMovesOn, TellMoves, ReplicationMoves, AskMoves
    DEF OwnStep
  <2>2. app'[s].kids \subseteq app[s].kids
    <3>1. AppIdle.kids = {}  BY DEF AppIdle
    <3>2. QED
      BY <1>5, <3>1, CountMoves, CreateMoves, FirstMovesOn, TellMoves, ReplicationMoves,
         AskMoves DEF OwnStep, AppRests, AppGoes, AppAsks
  <2>3. Learns(s) /\ Compares(s)  BY <1>1, <2>1, <2>2 DEF Learns, Entries, Compares, Heard
  <2>4. QED  BY <1>2, <2>3 DEF View
<1>6. QED  BY <1>3, <1>4, <1>5

LEMMA WatView ==
    ASSUME NEW s \in Server, OwnStep(s),
           SessionExpired(s) \/ ReplWatcher_Step(s) \/ Watches(s)
    PROVE  View(s)
<1> USE DEF View, Learns, Entries, Compares, Heard, ListsAll, ReadsAll, FindsLoss, Dec, Erasing
<1>1. CASE SessionExpired(s) \/ ReplWatcher_Step(s)  BY <1>1, RestMoves DEF OwnStep
<1>2. CASE MasterWatcher_List(s)
  <2>1. /\ wat'[s].pc = "fetch" /\ wat'[s].kids = {NodeOf(z) : z \in master}
        /\ wat'[s].map = {} /\ UNCHANGED <<nodes, app>>
    BY <1>2, WatListMoves DEF OwnStep
  <2>2. \A z \in master : NodeOf(z) \in wat'[s].kids /\ NodeOf(z).seq = z.seq
    BY <2>1 DEF NodeOf
  <2>3. Seqs(master) \subseteq Seqs(wat'[s].kids)  BY <2>2 DEF Seqs
  <2>4. QED  BY <2>1, <2>3
<1>3. CASE MasterWatcher_Fetch(s) \/ MasterWatcher_End(s)
  BY <1>3, WatFetchMoves, EndMoves DEF OwnStep, WatRests, WatIdle, ownRest
<1>4. CASE \/ NodesIncrease(s) \/ NodesIncrease_Exists(s) \/ NodesIncrease_Locked(s)
           \/ NodesIncrease_Again(s)
  BY <1>4, IncreaseMoves, IncreaseExistsMoves, IncreaseLockedMoves, AgainMoves
  DEF OwnStep, Inserts, Enters, WatGoes, ownRest
<1>5. CASE NodesDiscrease(s)
  <2>1. CASE Erases(s)
    BY <1>5, <2>1, DiscreaseMoves DEF OwnStep, Erases, WatRests, WatIdle, ownRest, Seqs
  <2>2. CASE Enters(s, "entered_dec")
    BY <1>5, <2>2, DiscreaseMoves DEF OwnStep, Erases, WatRests, WatIdle, Enters, ownRest
  <2>3. QED  BY <1>5, <2>1, <2>2, DiscreaseMoves DEF OwnStep
<1>6. CASE \/ NodesDiscrease_Exists(s) \/ NodesDiscrease_Locked(s) \/ NodesDiscrease_Mode(s)
           \/ NodesDiscrease_Delete(s)
  <2>1. wat[s].pc \in Erasing /\ app'[s] = app[s]
    BY <1>6, DiscreaseExistsMoves, DiscreaseLockedMoves, ModeMoves, DeleteMoves
    DEF OwnStep, ownRest
  <2>2. \/ Erases(s)
        \/ \E pc \in Erasing : WatGoes(s, pc) /\ UNCHANGED nodes
    BY <1>6, DiscreaseExistsMoves, DiscreaseLockedMoves, ModeMoves, DeleteMoves DEF OwnStep
  <2>3. CASE Erases(s)  BY <2>1, <2>3 DEF Erases, WatRests, WatIdle, Seqs
  <2>4. CASE \E pc \in Erasing : WatGoes(s, pc) /\ UNCHANGED nodes
    BY <2>1, <2>4 DEF WatGoes
  <2>5. QED  BY <2>2, <2>3, <2>4
<1>7. QED  BY <1>1, <1>2, <1>3, <1>4, <1>5, <1>6 DEF Watches

LEMMA OwnView == ASSUME NEW s \in Server, OwnStep(s) PROVE View(s)
BY OwnIs, AppView, WatView

-----------------------------------------------------------------------------
(* What is known of /master stays true                                      *)

\* A number that has been given to a znode is not given again, and all are numbers.
LEMMA GoneForGood ==
    ASSUME ZkTypeOK, Numbered, Grows \/ Shrinks
    PROVE  /\ \A q \in Nat : q < nextSeq =>
                q < nextSeq' /\ (q \in Seqs(master') => q \in Seqs(master))
           /\ \A q \in Seqs(master) : q \in Nat /\ q < nextSeq
           /\ nextSeq \in Nat
<1>1. nextSeq \in Nat /\ \A q \in Seqs(master) : q \in Nat /\ q < nextSeq
  BY DEF ZkTypeOK, Znode, Numbered, Seqs
<1>2. CASE Shrinks  BY <1>1, <1>2 DEF Shrinks, Seqs
<1>3. CASE Grows
  <2>1. PICK t \in Server, k \in Nat :
          /\ master' = master \cup {[seq |-> nextSeq, uuid |-> t, sid |-> k]}
          /\ nextSeq' = nextSeq + 1
    BY <1>3 DEF Grows
  <2>2. ASSUME NEW q \in Nat, q < nextSeq, q \in Seqs(master') PROVE q \in Seqs(master)
    BY <1>1, <2>1, <2>2 DEF Seqs
  <2>3. nextSeq' = nextSeq + 1  BY <2>1
  <2>4. QED  BY <1>1, <2>2, <2>3
<1>4. QED  BY <1>2, <1>3

\* The numbers a manager knows are numbers.
LEMMA KnowsNumbers ==
    ASSUME TypeOK, NEW s \in Server
    PROVE  /\ Seqs(Entries(s)) \subseteq Nat /\ app[s].kids \subseteq Nat
           /\ Heard(s) \subseteq Seqs(Entries(s)) \cup app[s].kids /\ wat[s].cur \in Nat
<1>1. nodes[s] \subseteq Node /\ app[s].kids \subseteq Nat
  BY DEF TypeOK, MgrTypeOK, ThreadTypeOK, AppState
<1>2. wat[s].kids \subseteq Node /\ wat[s].map \subseteq Node /\ wat[s].cur \in Nat
  BY DEF TypeOK, ThreadTypeOK, WatState, WatLocals
<1>3. QED  BY <1>1, <1>2 DEF Entries, Heard, Seqs, Node

LEMMA OwnViewKept ==
    ASSUME NEW s \in Server, OwnStep(s), Numbered, Grows \/ Shrinks, Older(s), Losses(s)
    PROVE  Older(s)' /\ Losses(s)'
<1>1. /\ TypeOK /\ ZkTypeOK /\ View(s)
  BY OwnView DEF OwnStep, TypeOK
<1>2. /\ \A q \in Nat : q < nextSeq =>
            q < nextSeq' /\ (q \in Seqs(master') => q \in Seqs(master))
      /\ \A q \in Seqs(master) : q \in Nat /\ q < nextSeq
  BY <1>1, GoneForGood
<1>3. \A q \in Seqs(Entries(s)) \cup app[s].kids : q \in Nat /\ q < nextSeq
  BY <1>1, KnowsNumbers DEF Older
<1>4. \A q \in Heard(s) : q \in Nat /\ q < nextSeq  BY <1>1, <1>3, KnowsNumbers
<1>5. Older(s)'
  <2>1. \A q \in Seqs({NodeOf(z) : z \in master}) : q \in Seqs(master)  BY DEF Seqs, NodeOf
  <2>2. \A q \in Seqs(Entries(s)') : q \in Seqs(Entries(s)) \/ q \in Seqs(master)
    BY <1>1, <2>1 DEF View, Learns, Seqs
  <2>3. \A q \in Seqs(Entries(s)') \cup app'[s].kids :
            q \in Seqs(Entries(s)) \cup app[s].kids \/ q \in Seqs(master)
    BY <1>1, <2>2 DEF View, Learns
  <2>4. \A q \in Seqs(Entries(s)') \cup app'[s].kids : q \in Nat /\ q < nextSeq
    BY <1>2, <1>3, <2>3
  <2>5. QED  BY <1>2, <2>4 DEF Older, Seqs
<1>6. wat'[s].pc = "fetch" => Seen(s, wat[s].kids)'
  BY <1>1, <1>2, <1>4 DEF View, Compares, ListsAll, Losses, Seen, Seqs
<1>7. wat'[s].pc \in Dec => Seen(s, wat[s].map)'
  <2> SUFFICES ASSUME wat'[s].pc \in Dec, NEW q \in Heard(s)', q \in Seqs(master')
               PROVE  q \in Seqs(wat'[s].map)
    BY DEF Seen, Seqs
  <2>1. q \in Heard(s)  BY <1>1 DEF View, Compares
  <2>2. q \in Seqs(master)  BY <1>2, <1>4, <2>1
  <2>3. CASE wat[s].pc \in Dec /\ wat'[s].map = wat[s].map
    BY <2>1, <2>2, <2>3 DEF Losses, Seen
  <2>4. CASE wat[s].pc = "fetch" /\ Seqs(wat[s].kids) \cap Seqs(master) \subseteq Seqs(wat'[s].map)
    BY <2>1, <2>2, <2>4 DEF Losses, Seen
  <2>5. QED  BY <1>1, <2>3, <2>4 DEF View, ReadsAll
<1>8. ASSUME wat'[s].pc \in Erasing
      PROVE  wat'[s].cur \notin Seqs(master') /\ wat'[s].cur < nextSeq'
  <2>1. CASE wat[s].pc \in Erasing /\ wat'[s].cur = wat[s].cur
    BY <1>1, <1>2, <2>1, KnowsNumbers DEF Losses
  <2>2. ASSUME NEW e \in nodes[s], wat[s].pc = "dec", e.seq \notin Seqs(wat[s].map),
               wat'[s].cur = e.seq
        PROVE  wat'[s].cur \notin Seqs(master') /\ wat'[s].cur < nextSeq'
    <3>1. e.seq \in Heard(s)  BY DEF Heard, Seqs
    <3>2. e.seq \notin Seqs(master)  BY <2>2, <3>1 DEF Losses, Seen, Dec
    <3>3. QED  BY <1>2, <1>4, <2>2, <3>1, <3>2
  <2>3. QED  BY <1>1, <1>8, <2>1, <2>2 DEF View, FindsLoss
<1>9. QED  BY <1>5, <1>6, <1>7, <1>8 DEF Losses, Seqs

\* What the others do to /master changes nothing of it.
LEMMA SparedView ==
    ASSUME TypeOK, Numbered, Grows \/ Shrinks, NEW t \in Server, Still(t), Older(t), Losses(t)
    PROVE  Older(t)' /\ Losses(t)'
<1>1. /\ \A q \in Nat : q < nextSeq =>
            q < nextSeq' /\ (q \in Seqs(master') => q \in Seqs(master))
  BY GoneForGood DEF TypeOK
<1>2. \A q \in Seqs(Entries(t)) \cup app[t].kids : q \in Nat /\ q < nextSeq
  BY KnowsNumbers DEF Older
<1>3. nodes'[t] = nodes[t] /\ app'[t] = app[t] /\ wat'[t] = wat[t]  BY DEF Still
<1>4. Older(t)'  BY <1>1, <1>2, <1>3 DEF Older, Entries, Seqs
<1>5. \A q \in Heard(t) : q \in Nat /\ q < nextSeq  BY <1>2, KnowsNumbers
<1>6. \A q \in Heard(t) : q \in Seqs(master') => q \in Seqs(master)  BY <1>1, <1>5
<1>7. Heard(t)' = Heard(t)  BY <1>3 DEF Heard, Seqs
<1>8. ASSUME NEW S, Seen(t, S) PROVE \A q \in Heard(t)' : q \in Seqs(master') => q \in Seqs(S)
  BY <1>6, <1>7, <1>8 DEF Seen
<1>9. Losses(t)'
  BY <1>1, <1>3, <1>8, KnowsNumbers DEF Losses, Seen, Seqs
<1>10. QED  BY <1>4, <1>9

LEMMA ViewsKept ==
    ASSUME Grounds, OneAtATime, Managers, Views, Next, UNCHANGED errs
    PROVE  Views'
<1> SUFFICES ASSUME NEW t \in Server, Alive(t)' PROVE Older(t)' /\ Losses(t)'
  BY DEF Views
<1>1. TypeOK /\ Numbered /\ Sessions /\ Blank(t) /\ (Grows \/ Shrinks)
  BY MasterMoves DEF Grounds
<1>2. ASSUME NEW s \in Server, Acts(s) PROVE Older(t)' /\ Losses(t)'
  <2>1. CASE t = s /\ Connect(s)
    <3>1. /\ nodes'[t] = {} /\ app'[t] = AppIdle /\ wat'[t] = WatIdle
      BY <1>1, <2>1 DEF Connect, Blank
    <3>2. Entries(t)' = {} /\ Heard(t)' = {} /\ app'[t].kids = {} /\ wat'[t].pc = "idle"
      BY <3>1 DEF Entries, Heard, Seqs, AppIdle, WatIdle
    <3>3. Older(t)'  BY <3>2 DEF Older, Seqs
    <3>4. Losses(t)'  BY <3>2 DEF Losses, Dec, Erasing
    <3>5. QED  BY <3>3, <3>4
  <2>2. CASE Alive(t) /\ t = s
    <3>1. OwnStep(s)  BY <1>1, <1>2, <2>2 DEF OwnStep, Managers
    <3>2. QED  BY <1>1, <2>2, <3>1, OwnViewKept DEF Views
  <2>3. CASE Alive(t) /\ t # s
    BY <1>1, <1>2, <2>3, OthersStill, SparedView DEF Views
  <2>4. QED  BY <1>1, <1>2, <2>1, <2>2, <2>3, LivesOn
<1>3. ASSUME NEW k \in sessions, SessionTimeout(k) PROVE Older(t)' /\ Losses(t)'
  <2>1. Alive(t) /\ Still(t)  BY <1>3, LivesOnAfterTimeout
  <2>2. QED  BY <1>1, <2>1, SparedView DEF Views
<1>4. QED  BY <1>2, <1>3, NextActs

-----------------------------------------------------------------------------
(* Promotion                                                                *)

\* A server becomes master in two places only.
Elected(s) ==
    /\ app[s].pc = "first" /\ Alive(s) /\ UNCHANGED <<zkVars, handler, my_master_znode_id>>
    /\ elected'[s] = app[s].first
    /\ \E z \in master : z.seq = app[s].first /\ z.uuid = s
TakesOver(s) ==
    /\ wat[s].pc = "mode" /\ Alive(s) /\ UNCHANGED <<zkVars, handler, my_master_znode_id>>

LEMMA Promotes ==
    ASSUME TypeOK, NEW s \in Server, Acts(s), NEW t \in Server, ~i_am_master[t], i_am_master'[t]
    PROVE  t = s /\ (Elected(s) \/ TakesOver(s))
<1> USE DEF TypeOK, MgrTypeOK
<1>1. t = s  BY OthersStill DEF Still
<1>2. CASE AppThread(s)
  <2>1. CASE RegisterServer_First(s)
    <3>1. /\ Ok(s) /\ elected' = [elected EXCEPT ![s] = app[s].first]
          /\ \E z \in master : z.seq = app[s].first /\ z.uuid = s
      BY <1>1, <2>1 DEF RegisterServer_First
    <3>2. elected'[s] = app[s].first  BY <3>1 DEF ToldTypeOK
    <3>3. QED  BY <1>1, <2>1, <3>1, <3>2 DEF RegisterServer_First, Elected, Ok
  <2>2. CASE RegisterServer_Fetch(s)  BY <1>1, <2>2, FetchMoves
  <2>3. CASE Disconnect_Done(s)  BY <1>1, <2>3 DEF Disconnect_Done, Forget
  <2>4. CASE \/ RegisterServer_Count(s) \/ RegisterServer_Create(s) \/ RegisterServer_List(s)
             \/ RegisterServer_Tell(s)
    BY <1>1, <2>4 DEF RegisterServer_Count, RegisterServer_Create, RegisterServer_List,
       RegisterServer_Tell
  <2>5. CASE GetSyncpoint_Read(s)  BY <1>1, <2>5, AskMoves DEF Asks
  <2>6. QED  BY <1>2, <2>1, <2>2, <2>3, <2>4, <2>5 DEF AppThread, RegisterServer_Step
<1>3. CASE CompletionThread(s)
  <2>1. CASE NodesDiscrease_Mode(s)
    <3>1. Ok(s)  BY <1>1, <2>1 DEF NodesDiscrease_Mode
    <3>2. QED  BY <1>1, <2>1, <3>1 DEF NodesDiscrease_Mode, TakesOver, Ok
  <2>2. CASE NodesIncrease_Locked(s)
    BY <1>1, <2>2 DEF NodesIncrease_Locked, RegisterDelayed
  <2>3. CASE SessionExpired(s) \/ ReplWatcher_Step(s) \/ MasterWatcher_List(s)
    BY <1>1, <2>3 DEF SessionExpired, ReplWatcher_Step, ReplWatcher_List, ReplWatcher_Diff,
       MasterWatcher_List, mgrVars
  <2>4. CASE \/ MasterWatcher_Fetch(s) \/ MasterWatcher_End(s) \/ NodesIncrease(s)
             \/ NodesIncrease_Exists(s) \/ NodesIncrease_Again(s) \/ NodesDiscrease(s)
             \/ NodesDiscrease_Exists(s) \/ NodesDiscrease_Locked(s) \/ NodesDiscrease_Delete(s)
    BY <1>1, <2>4 DEF MasterWatcher_Fetch, MasterWatcher_End, NodesIncrease,
       NodesIncrease_Exists, NodesIncrease_Again, NodesDiscrease, NodesDiscrease_Exists,
       NodesDiscrease_Locked, NodesDiscrease_Delete, mgrVars
  <2>5. QED  BY <1>3, <2>1, <2>2, <2>3, <2>4 DEF CompletionThread, MasterWatcher_Step
<1>4. CASE Application(s)
  BY <1>1, <1>4, AskMoves DEF Application, Asks, Connect, RegisterServer_Replication,
     Disconnect_Close
<1>5. CASE Crash(s)  BY <1>1, <1>5 DEF Crash, Forget
<1>6. QED  BY <1>2, <1>3, <1>4, <1>5 DEF Acts

\* What is sure of a manager that is about to take over is sure of every manager.
LossInv == RegistrationInv /\ (errs = 0 => Views)

LEMMA InitLoss == Init => LossInv
BY InitRegistration DEF Init, LossInv, Views, Alive

LEMMA NextKeepsLoss == ASSUME LossInv, [Next]_vars, [OneAtATime]_vars PROVE LossInv'
<1>1. RegistrationInv'  BY NextKeepsRegistration DEF LossInv
<1>2. CASE Next /\ OneAtATime /\ errs' = 0
  <2>1. Grounds /\ UNCHANGED errs
    BY <1>2, ErrsGrow DEF LossInv, RegistrationInv, Grounds
  <2>2. Views'  BY <1>2, <2>1, ViewsKept DEF LossInv, RegistrationInv
  <2>3. QED  BY <1>1, <2>2 DEF LossInv
<1>3. CASE UNCHANGED vars
  <2>1. UNCHANGED <<zkVars, mgrVars, app, wat, errs>>  BY <1>3 DEF vars, boundVars
  <2>2. Views' <=> Views
    BY <2>1 DEF zkVars, mgrVars, Views, Alive, Older, Losses, Entries, Heard, Seen, Seqs
  <2>3. QED  BY <1>1, <2>1, <2>2 DEF LossInv
<1>4. QED  BY <1>1, <1>2, <1>3 DEF LossInv

\* Whoever becomes master without being elected has lost the znode it follows.
LEMMA PromotedHasLost ==
    ASSUME LossInv, errs = 0, [Next]_vars, NEW t \in Server,
           ~i_am_master[t], i_am_master'[t], elected'[t] = 0
    PROVE  wat[t].cur \notin Seqs(master)
<1>1. TypeOK /\ Numbered  BY DEF LossInv, RegistrationInv, Grounds
<1>2. ASSUME NEW s \in Server, Acts(s) PROVE wat[t].cur \notin Seqs(master)
  <2>1. t = s /\ (Elected(s) \/ TakesOver(s))  BY <1>1, <1>2, Promotes
  <2>2. ~Elected(s)  BY <1>1, <2>1 DEF Elected, Numbered
  <2>3. QED  BY <2>1, <2>2 DEF TakesOver, LossInv, Views, Losses, Erasing
<1>3. ASSUME NEW k \in sessions, SessionTimeout(k) PROVE FALSE
  BY <1>3 DEF SessionTimeout, mgrVars
<1>4. CASE UNCHANGED vars  BY <1>4 DEF vars, mgrVars
<1>5. QED  BY <1>2, <1>3, <1>4, NextActs

\* While no call is lost, and a server whose registration is delayed is not asked to
\* register again before it has, a server that takes over does so only when the znode
\* nodes_discrease was called for is gone from /master: for any number of servers, and
\* however old the list it compared nodes with.
THEOREM TakesOverAfterLoss ==
    Spec /\ [][OneAtATime]_vars /\ [](errs = 0) => PromotedAfterLoss
<1>1. LossInv /\ [Next]_vars /\ [OneAtATime]_vars => LossInv'  BY NextKeepsLoss
<1>2. LossInv /\ errs = 0 /\ [Next]_vars =>
        [\A s \in Server :
            ~i_am_master[s] /\ i_am_master'[s] /\ elected'[s] = 0
            => wat[s].cur \notin Seqs(master)]_vars
  BY PromotedHasLost
<1>3. QED  BY <1>1, <1>2, InitLoss, PTL DEF Spec, PromotedAfterLoss

-----------------------------------------------------------------------------
(* A master and those it may compete with                                   *)

TwoServers == \E a, b \in Server : Server = {a, b}

\* No server has two znodes below /master at once.  One that dies and comes back before
\* its session is timed out can: the znode of the old session is there when it creates
\* the new one, and register_server takes the older of them for its own.
NobodyTwice == \A y, z \in master : y.uuid = z.uuid => y = z

\* Of the znodes of another that are older than its own, a manager knows the only one.
OnlyOne(s, who, cur) ==
    \A z \in master : z.uuid = who /\ z.seq < my_master_znode_id[s] => z.seq = cur
Follows(s) == OnlyOne(s, wat[s].who, wat[s].cur) /\ wat[s].who \in Server \ {s}
Witness(s) ==
    /\ \A e \in Entries(s) : OnlyOne(s, e.uuid, e.seq)
    /\ wat[s].pc \in Erasing => Follows(s)

\* Whoever is about to take over has found that it follows the server that was lost: it
\* follows that one alone, or more than one.
Loyal(s) ==
    wat[s].pc = "mode" \/ (wat[s].pc = "decrease" /\ wat[s].is_my_repl_master)
    => \A t \in Server \ {s} : FollowsOnly(s, t) => t = wat[s].who

\* The servers whose znodes may be older than a master's are those it does not follow,
\* though it follows another.
Leads(s) ==
    i_am_master[s] /\ my_master_znode_id[s] > 0 =>
        \A z \in master : z.uuid # s /\ FollowsOnly(s, z.uuid) => my_master_znode_id[s] <= z.seq

Leaders ==
    \A s \in Server : Alive(s) /\ s \notin withdrew => Witness(s) /\ Loyal(s) /\ Leads(s)

\* A server that follows a third one goes on to do so.
Lasting == \A s, t \in Server : s # t /\ FollowsOnly(s, t)' => FollowsOnly(s, t)

\* There is no third one, or nobody calls rm_repl.
LEMMA GoesOn ==
    ASSUME TypeOK, TwoServers \/ edges \subseteq edges'
    PROVE  Lasting
<1>1. CASE TwoServers
  <2>1. PICK a, b \in Server : Server = {a, b}  BY <1>1 DEF TwoServers
  <2>2. \A e \in edges : e[1] \in Server  BY DEF TypeOK, TreeTypeOK
  <2>3. \A s, t \in Server : s # t => \A e \in edges : e[1] \in {s, t}  BY <2>1, <2>2
  <2>4. QED  BY <2>3 DEF Lasting, FollowsOnly
<1>2. CASE edges \subseteq edges'  BY <1>2 DEF Lasting, FollowsOnly
<1>3. QED  BY <1>1, <1>2

\* When no registration is delayed none waits, nor is one made late.
LEMMA NoneWaits ==
    ASSUME NoDelays, NEW s \in Server, OwnStep(s)
    PROVE  /\ OneAtATime /\ ~Waiting(s) /\ ~Defers(s)
           /\ ~RegisterServer_Count(s) /\ app[s].pc # "count"
BY CountMoves DEF NoDelays, OneAtATime, OwnStep, ManagerOf, Progress, Defers

\* The number of its own znode has been given.
LEMMA OwnNumber ==
    ASSUME Grounds, NEW s \in Server, ManagerOf(s)
    PROVE  my_master_znode_id[s] \in Int /\ nextSeq \in Nat /\ my_master_znode_id[s] < nextSeq
<1>1. my_master_znode_id[s] \in Int /\ nextSeq \in Nat \ {0}
  BY DEF Grounds, TypeOK, MgrTypeOK, ZkTypeOK
<1>2. CASE my_master_znode_id[s] > 0
  <2>1. [seq |-> my_master_znode_id[s], uuid |-> s, sid |-> handler[s]] \in Mine(s)
    BY <1>2 DEF ManagerOf, Known
  <2>2. PICK z \in master : z.seq = my_master_znode_id[s]  BY <2>1 DEF Mine
  <2>3. QED  BY <1>1, <2>2 DEF Grounds, Numbered
<1>3. QED  BY <1>1, <1>2

\* What a new znode, which is the newest, or one less, changes of it: nothing.
LEMMA OnlyOneKept ==
    ASSUME Grounds, Grows \/ Shrinks, NEW s \in Server, ManagerOf(s), NEW who, NEW cur,
           OnlyOne(s, who, cur),
           my_master_znode_id'[s] = my_master_znode_id[s]
    PROVE  OnlyOne(s, who, cur)'
<1>1. my_master_znode_id[s] \in Int /\ nextSeq \in Nat /\ my_master_znode_id[s] < nextSeq
  BY OwnNumber
<1>2. \A z \in master' : z \in master \/ z.seq = nextSeq  BY DEF Grows, Shrinks
<1>3. \A z \in master' : z.seq < my_master_znode_id[s] => z \in master  BY <1>1, <1>2
<1>4. QED  BY <1>3 DEF OnlyOne

\* A server that comes back to /master is one that left it.
LEMMA OnlyTheAwayReturn ==
    ASSUME NEW s \in Server, OwnStep(s), NodesIncrease_Again(s)
    PROVE  s \in withdrew
BY AgainMoves DEF OwnStep, ManagerOf, Away, Copied, Entered

\* A server that leaves /master, or comes back, is not among those this is about, and
\* one that creates its first znode knows nobody.
LEMMA OwnWitness ==
    ASSUME NoDelays, Grounds, Grows \/ Shrinks, NobodyTwice, NEW s \in Server, OwnStep(s),
           s \notin withdrew', Witness(s)
    PROVE  Witness(s)'
<1>1. ManagerOf(s) /\ View(s) /\ s \notin withdrew  BY OwnView, OwnWithdraws DEF OwnStep
<1>2. CASE Keeps(s)
  <2>1. my_master_znode_id'[s] = my_master_znode_id[s]  BY <1>2 DEF Keeps
  <2>2. \A z \in master : OnlyOne(s, NodeOf(z).uuid, NodeOf(z).seq)  
    BY DEF NobodyTwice, OnlyOne, NodeOf
  <2>3. \A e \in Entries(s)' : OnlyOne(s, e.uuid, e.seq)
    BY <1>1, <2>2 DEF View, Learns, Witness
  <2>4. \A e \in Entries(s)' : OnlyOne(s, e.uuid, e.seq)'
    <3> SUFFICES ASSUME NEW e \in Entries(s)' PROVE OnlyOne(s, e.uuid, e.seq)'
      OBVIOUS
    <3>1. OnlyOne(s, e.uuid, e.seq)  BY <2>3
    <3>2. QED  BY <1>1, <2>1, <3>1, OnlyOneKept
  <2>5. ASSUME wat'[s].pc \in Erasing
        PROVE  Follows(s)'
    <3>1. /\ wat'[s].who \in Server \ {s}
          /\ OnlyOne(s, wat'[s].who, wat'[s].cur)
      <4>1. CASE /\ wat[s].pc \in Erasing
                 /\ wat'[s].cur = wat[s].cur /\ wat'[s].who = wat[s].who
        BY <4>1 DEF Witness, Follows
      <4>2. CASE \E e \in nodes[s] :
                   e.uuid # s /\ wat'[s].cur = e.seq /\ wat'[s].who = e.uuid
        <5>1. PICK e \in nodes[s] : e.uuid # s /\ wat'[s].cur = e.seq /\ wat'[s].who = e.uuid
          BY <4>2
        <5>2. OnlyOne(s, e.uuid, e.seq)  BY DEF Witness, Entries
        <5>3. e.uuid \in Server  BY DEF Grounds, TypeOK, MgrTypeOK, Node
        <5>4. QED  BY <5>1, <5>2, <5>3 DEF OnlyOne
      <4>3. QED  BY <1>1, <2>5, <4>1, <4>2 DEF View, FindsLoss
    <3>2. \A who, cur : OnlyOne(s, who, cur) => OnlyOne(s, who, cur)'
      <4> SUFFICES ASSUME NEW who, NEW cur, OnlyOne(s, who, cur) PROVE OnlyOne(s, who, cur)'
        OBVIOUS
      <4>1. QED  BY <1>1, <2>1, OnlyOneKept
    <3>3. \A z \in master' :
             z.uuid = wat'[s].who /\ z.seq < my_master_znode_id'[s] => z.seq = wat'[s].cur
      BY <3>1, <3>2 DEF OnlyOne
    <3>4. QED  BY <3>1, <3>3 DEF Follows, OnlyOne
  <2>6. QED  BY <2>4, <2>5 DEF Witness
<1>3. CASE Gains(s)
  <2>1. ~NodesIncrease_Again(s)  BY <1>1, OnlyTheAwayReturn
  <2>2. app[s].pc = "create" /\ UNCHANGED <<nodes, wat>>
    BY <1>3, <2>1, NoneWaits, CreateMoves DEF Gains, OwnStep
  <2>3. Entries(s) = {} /\ wat[s].pc \in Resting
    BY <1>1, <2>2 DEF ManagerOf, Unlisted, Listless, Entries
  <2>4. QED  BY <2>2, <2>3 DEF Witness, Entries, Resting, Erasing
<1>4. CASE Leaves(s)  BY <1>4 DEF Leaves
<1>5. QED  BY <1>2, <1>3, <1>4, NoneWaits, OwnPath

\* nodes_discrease asks whether the server that was lost is its master.
LEMMA OwnLoyal ==
    ASSUME Lasting, NEW s \in Server, OwnStep(s), Witness(s), Loyal(s)
    PROVE  Loyal(s)'
<1> USE DEF OwnStep
<1>1. \A t \in Server \ {s} : FollowsOnly(s, t)' => FollowsOnly(s, t)  BY DEF Lasting
<1>2. CASE wat'[s] = wat[s]  BY <1>1, <1>2 DEF Loyal
<1>3. CASE wat'[s].pc \notin {"decrease", "mode"}  BY <1>3 DEF Loyal
<1>4. CASE NodesDiscrease_Exists(s)
  <2>1. PICK masterof \in BOOLEAN :
          /\ masterof = (<<wat[s].who, s>> \in edges)
          /\ Asked(s, "decrease", <<s, wat[s].who>> \in edges, masterof)
    BY <1>4, NoneLost DEF NodesDiscrease_Exists
  <2>2. wat'[s].who = wat[s].who /\ wat'[s].is_my_repl_master = masterof
    <3>1. wat'[s] = [wat[s] EXCEPT !.pc = "decrease", !.is_my_repl_master = masterof,
                                   !.is_my_repl_slave = <<s, wat[s].who>> \in edges]
      BY <2>1 DEF Asked, TypeOK, ThreadTypeOK
    <3>2. wat[s] \in WatLocals  BY DEF TypeOK, ThreadTypeOK, WatState
    <3>3. QED  BY <3>1, <3>2 DEF WatLocals
  <2>3. wat'[s].pc = "decrease" /\ wat[s].who # s
    BY <1>4, DiscreaseExistsMoves DEF Witness, Follows, Erasing, WatGoes
  <2>4. UNCHANGED edges  BY <1>4 DEF NodesDiscrease_Exists, treeVars
  <2>5. ASSUME masterof, NEW t \in Server \ {s}, FollowsOnly(s, t)' PROVE t = wat[s].who
    <3>1. <<wat[s].who, s>> \in edges'  BY <2>1, <2>4, <2>5
    <3>2. wat[s].who \in {s, t}  BY <2>5, <3>1 DEF FollowsOnly
    <3>3. QED  BY <2>3, <3>2
  <2>6. QED  BY <2>2, <2>3, <2>5 DEF Loyal
<1>5. CASE NodesDiscrease_Locked(s)
  <2>1. CASE MasterDied(s) /\ wat' = [wat EXCEPT ![s].pc = "mode"]
    <3>1. wat[s].pc = "decrease" /\ wat[s].is_my_repl_master /\ wat'[s].who = wat[s].who
      BY <1>5, <2>1, PcGoes, DiscreaseLockedMoves DEF MasterDied, WatGoes
    <3>2. QED  BY <1>1, <3>1 DEF Loyal
  <2>2. CASE Erased(s, wat[s].cur)
    BY <1>3, <2>2, CurIsNat, ErasedErases DEF Erases, WatRests, WatIdle
  <2>3. QED  BY <1>5, <2>1, <2>2 DEF NodesDiscrease_Locked
<1>6. CASE \/ RegisterServer_Count(s) \/ RegisterServer_Create(s) \/ RegisterServer_List(s)
           \/ RegisterServer_Fetch(s) \/ RegisterServer_First(s) \/ RegisterServer_Tell(s)
           \/ RegisterServer_Replication(s) \/ Asks(s)
  BY <1>2, <1>6, CountMoves, CreateMoves, ListMoves, FetchMoves, FirstMovesOn, TellMoves,
     ReplicationMoves, AskMoves
<1>7. CASE SessionExpired(s) \/ ReplWatcher_Step(s)  BY <1>2, <1>3, <1>7, RestMoves
<1>8. CASE \/ MasterWatcher_List(s) \/ MasterWatcher_Fetch(s) \/ MasterWatcher_End(s)
           \/ NodesIncrease(s) \/ NodesIncrease_Exists(s) \/ NodesIncrease_Locked(s)
           \/ NodesIncrease_Again(s)
  <2>1. CASE MasterWatcher_List(s) \/ MasterWatcher_Fetch(s) \/ MasterWatcher_End(s)
    BY <1>3, <2>1, WatListMoves, WatFetchMoves, EndMoves DEF WatRests, WatIdle
  <2>2. CASE \/ NodesIncrease(s) \/ NodesIncrease_Exists(s) \/ NodesIncrease_Locked(s)
             \/ NodesIncrease_Again(s)
    BY <1>3, <2>2, IncreaseMoves, IncreaseExistsMoves, IncreaseLockedMoves, AgainMoves
    DEF WatGoes, Inserts, Enters
  <2>3. QED  BY <1>8, <2>1, <2>2
<1>9. CASE NodesDiscrease(s) \/ NodesDiscrease_Mode(s) \/ NodesDiscrease_Delete(s)
  BY <1>3, <1>9, DiscreaseMoves, ModeMoves, DeleteMoves
  DEF Erases, WatRests, WatIdle, WatGoes, Enters
<1>10. QED  BY <1>4, <1>5, <1>6, <1>7, <1>8, <1>9, OwnIs DEF Watches

\* A server that is elected finds its own znode, the only one it has, to be the first;
\* one that takes over from the only server it follows has none of that left before it.
LEMMA OwnLeads ==
    ASSUME Lasting, NoDelays, Grounds, FirstStays, NobodyTwice, NEW s \in Server, OwnStep(s),
           s \notin withdrew', Losses(s), Witness(s), Loyal(s), Leads(s)
    PROVE  Leads(s)'
<1> SUFFICES ASSUME i_am_master'[s], my_master_znode_id'[s] > 0,
                    NEW z \in master', z.uuid # s, FollowsOnly(s, z.uuid)'
             PROVE  my_master_znode_id'[s] <= z.seq
  BY DEF Leads
<1>1. /\ TypeOK /\ ManagerOf(s) /\ Acts(s) /\ s \notin withdrew
      /\ i_am_master[s] \in BOOLEAN /\ \A y \in master : y.seq \in Nat /\ y.uuid \in Server
  BY OwnWithdraws DEF OwnStep, TypeOK, MgrTypeOK, ZkTypeOK, Znode
<1>2. CASE Keeps(s)
  <2> DEFINE my == my_master_znode_id[s]
  <2>1. my \in Int /\ my > 0 /\ my_master_znode_id'[s] = my /\ z \in master
    BY <1>1, <1>2, OwnNumber DEF Keeps, zkVars
  <2>2. z.seq \in Nat /\ z.uuid \in Server \ {s} /\ FollowsOnly(s, z.uuid)
    BY <1>1, <2>1 DEF Lasting
  <2>3. my <= z.seq
    <3>1. CASE i_am_master[s]  BY <2>1, <2>2, <3>1 DEF Leads
    <3>2. CASE Elected(s)
      <4>1. PICK y \in master : y.seq = app[s].first /\ y.uuid = s  BY <3>2 DEF Elected
      <4>2. Lowest(app[s].first)  BY <3>2 DEF Elected, FirstStays, Listed
      <4>3. y.seq = my
        <5>1. [seq |-> my, uuid |-> s, sid |-> handler[s]] \in Mine(s)
          BY <1>1, <2>1 DEF ManagerOf, Known
        <5>2. y = [seq |-> my, uuid |-> s, sid |-> handler[s]]
          BY <4>1, <5>1 DEF NobodyTwice, Mine
        <5>3. QED  BY <5>2
      <4>4. QED  BY <2>1, <4>1, <4>2, <4>3 DEF Lowest
    <3>3. CASE TakesOver(s)
      <4>1. Follows(s) /\ wat[s].cur \notin Seqs(master)
        BY <3>3 DEF TakesOver, Witness, Losses, Erasing
      <4>2. z.uuid = wat[s].who  BY <2>2, <3>3 DEF TakesOver, Loyal
      <4>3. z.seq # wat[s].cur  BY <2>1, <4>1 DEF Seqs
      <4>4. ~(z.seq < my)  BY <2>1, <4>1, <4>2, <4>3 DEF Follows, OnlyOne
      <4>5. QED  BY <2>1, <2>2, <4>4
    <3>4. QED  BY <1>1, <3>1, <3>2, <3>3, Promotes
  <2>4. QED  BY <2>1, <2>3
<1>3. CASE Gains(s)
  <2>1. RegisterServer_Create(s)  BY <1>1, <1>3, NoneWaits, OnlyTheAwayReturn DEF Gains
  <2>2. ~i_am_master[s] /\ UNCHANGED i_am_master
    BY <1>1, <2>1, NoneWaits, CreateMoves DEF OwnStep, ManagerOf, Progress
  <2>3. QED  BY <2>2
<1>4. CASE Leaves(s)  BY <1>4 DEF Leaves
<1>5. QED  BY <1>2, <1>3, <1>4, NoneWaits, OwnPath

\* What another does to /master changes nothing of it either.
LEMMA SparedLeader ==
    ASSUME Lasting, Grounds, Grows \/ Shrinks, NEW t \in Server, ManagerOf(t), Still(t),
           Witness(t), Loyal(t), Leads(t)
    PROVE  Witness(t)' /\ Loyal(t)' /\ Leads(t)'
<1>1. /\ nodes'[t] = nodes[t] /\ wat'[t] = wat[t] /\ i_am_master'[t] = i_am_master[t]
      /\ my_master_znode_id'[t] = my_master_znode_id[t]
  BY DEF Still
<1>2. Witness(t)'
  <2>1. Entries(t)' = Entries(t)  BY <1>1 DEF Entries
  <2>2. \A who, cur : OnlyOne(t, who, cur) => OnlyOne(t, who, cur)'
    <3> SUFFICES ASSUME NEW who, NEW cur, OnlyOne(t, who, cur) PROVE OnlyOne(t, who, cur)'
      OBVIOUS
    <3>1. QED  BY <1>1, OnlyOneKept
  <2>3. \A e \in Entries(t)' : OnlyOne(t, e.uuid, e.seq)'  BY <2>1, <2>2 DEF Witness
  <2>4. Follows(t) => Follows(t)'
    <3> SUFFICES ASSUME Follows(t) PROVE Follows(t)'
      OBVIOUS
    <3>1. \A z \in master' :
             z.uuid = wat[t].who /\ z.seq < my_master_znode_id'[t] => z.seq = wat[t].cur
      BY <2>2 DEF Follows, OnlyOne
    <3>2. QED  BY <1>1, <3>1 DEF Follows, OnlyOne
  <2>5. QED  BY <1>1, <2>3, <2>4 DEF Witness
<1>3. Loyal(t)'
  <2>1. \A u \in Server \ {t} : FollowsOnly(t, u)' => FollowsOnly(t, u)  BY DEF Lasting
  <2>2. QED  BY <1>1, <2>1 DEF Loyal
<1>4. Leads(t)'
  <2> SUFFICES ASSUME i_am_master[t], my_master_znode_id[t] > 0,
                      NEW z \in master', z.uuid # t, FollowsOnly(t, z.uuid)'
               PROVE  my_master_znode_id[t] <= z.seq
    BY <1>1 DEF Leads
  <2>1. my_master_znode_id[t] \in Int /\ nextSeq \in Nat /\ my_master_znode_id[t] < nextSeq
    BY OwnNumber
  <2>2. CASE z \in master
    <3>1. z.uuid \in Server  BY <2>2 DEF Grounds, TypeOK, ZkTypeOK, Znode
    <3>2. FollowsOnly(t, z.uuid)  BY <3>1 DEF Lasting
    <3>3. QED  BY <2>2, <3>2 DEF Leads
  <2>3. CASE z.seq = nextSeq  BY <2>1, <2>3
  <2>4. QED  BY <2>2, <2>3 DEF Grows, Shrinks
<1>5. QED  BY <1>2, <1>3, <1>4

LEMMA LeadersKept ==
    ASSUME Lasting, Grounds, FirstStays, NoDelays, Managers, Views, NobodyTwice, Leaders,
           Next, UNCHANGED errs
    PROVE  Leaders'
<1> SUFFICES ASSUME NEW t \in Server, Alive(t)', t \notin withdrew'
             PROVE  Witness(t)' /\ Loyal(t)' /\ Leads(t)'
  BY DEF Leaders
<1>1. TypeOK /\ Sessions /\ Blank(t) /\ (Grows \/ Shrinks)
  BY MasterMoves DEF Grounds
<1>2. ASSUME Alive(t), Still(t) PROVE Witness(t)' /\ Loyal(t)' /\ Leads(t)'
  <2>1. t \notin withdrew  BY <1>2 DEF Still
  <2>2. ManagerOf(t) /\ Witness(t) /\ Loyal(t) /\ Leads(t)  BY <1>2, <2>1 DEF Managers, Leaders
  <2>3. QED  BY <1>1, <1>2, <2>2, SparedLeader
<1>3. ASSUME NEW s \in Server, Acts(s) PROVE Witness(t)' /\ Loyal(t)' /\ Leads(t)'
  <2>1. CASE t = s /\ Connect(s)
    <3>1. /\ nodes'[t] = {} /\ wat'[t] = WatIdle /\ ~i_am_master'[t]
      BY <1>1, <2>1 DEF Connect, Blank
    <3>2. Entries(t)' = {} /\ wat'[t].pc = "idle"  BY <3>1 DEF Entries, WatIdle
    <3>3. QED  BY <3>1, <3>2 DEF Witness, Erasing, Loyal, Leads
  <2>2. CASE Alive(t) /\ t = s
    <3>1. OwnStep(t)  BY <1>1, <1>3, <2>2 DEF OwnStep, OneAtATime, Managers
    <3>2. t \notin withdrew  BY <3>1, OwnWithdraws
    <3>3. Witness(t) /\ Loyal(t) /\ Leads(t) /\ Losses(t)  BY <2>2, <3>2 DEF Leaders, Views
    <3>4. QED  BY <1>1, <3>1, <3>3, OwnWitness, OwnLoyal, OwnLeads
  <2>3. CASE Alive(t) /\ t # s  BY <1>1, <1>2, <1>3, <2>3, OthersStill
  <2>4. QED  BY <1>1, <1>3, <2>1, <2>2, <2>3, LivesOn
<1>4. ASSUME NEW k \in sessions, SessionTimeout(k) PROVE Witness(t)' /\ Loyal(t)' /\ Leads(t)'
  BY <1>2, <1>4, LivesOnAfterTimeout
<1>5. QED  BY <1>3, <1>4, NextActs

\* What makes a registered master older than its rivals.  For a slave that takes over this
\* rests on what is sure of a loss.
MasterInv == LossInv /\ ElectionInv /\ (errs = 0 => Leaders)

LEMMA InitMaster == Init => MasterInv
BY InitLoss, InitElection DEF Init, MasterInv, Leaders, Alive

LEMMA NextKeepsMaster ==
    ASSUME NoDelays, NobodyTwice, TwoServers \/ edges \subseteq edges', MasterInv, [Next]_vars
    PROVE  MasterInv'
<1>1. LossInv' /\ ElectionInv'
  BY NextKeepsLoss, NextKeepsElection, StutterKeepsElection DEF MasterInv, OneAtATime
<1>2. CASE Next /\ errs' = 0
  <2>1. /\ Grounds /\ FirstStays /\ UNCHANGED errs
    BY <1>2, ErrsGrow DEF MasterInv, LossInv, RegistrationInv, Grounds, ElectionInv
  <2>2. Managers /\ Views /\ Leaders
    BY <1>2, <2>1 DEF MasterInv, LossInv, RegistrationInv
  <2>3. Lasting  BY <2>1, GoesOn DEF Grounds
  <2>4. Leaders'  BY <1>2, <2>1, <2>2, <2>3, LeadersKept
  <2>5. QED  BY <1>1, <2>4 DEF MasterInv
<1>3. CASE UNCHANGED vars
  <2>1. UNCHANGED <<zkVars, edges, mgrVars, app, wat, withdrew, errs>>
    BY <1>3 DEF vars, treeVars, history, boundVars
  <2>2. Leaders' <=> Leaders
    BY <2>1 DEF zkVars, mgrVars, Leaders, Alive, Witness, Entries, Follows, OnlyOne,
       Loyal, Leads, FollowsOnly
  <2>3. QED  BY <1>1, <2>1, <2>2 DEF MasterInv
<1>4. QED  BY <1>1, <1>2, <1>3 DEF MasterInv

\* A registered master owns the znode whose path it keeps, and no other.
LEMMA MastersOwn ==
    ASSUME MasterInv, errs = 0, NEW r \in Masters
    PROVE  /\ Mine(r) = {[seq |-> my_master_znode_id[r], uuid |-> r, sid |-> handler[r]]}
           /\ [seq |-> my_master_znode_id[r], uuid |-> r, sid |-> handler[r]] \in master
           /\ my_master_znode_id[r] > 0 /\ Leads(r)
<1>1. /\ r \in Server /\ ManagerOf(r) /\ Mine(r) # {} /\ Leads(r)
  BY DEF Masters, Registered, Mine, MasterInv, LossInv, RegistrationInv, Managers, Leaders
<1>2. /\ my_master_znode_id[r] > 0
      /\ Mine(r) = {[seq |-> my_master_znode_id[r], uuid |-> r, sid |-> handler[r]]}
  BY <1>1 DEF ManagerOf, Known
<1>3. QED  BY <1>1, <1>2 DEF Mine

LEMMA OldestIsMaster == MasterInv /\ errs = 0 => MasterCameFirst
<1> SUFFICES ASSUME MasterInv, errs = 0, NEW s \in Masters, NEW y \in master, NEW z \in master,
                    y.sid = handler[s], z.uuid # s, FollowsOnly(s, z.uuid)
             PROVE  y.seq < z.seq
  BY DEF MasterCameFirst
<1>1. Grounds  BY DEF MasterInv, LossInv, RegistrationInv
<1>2. y \in Mine(s)  BY DEF Mine
<1>3. y.seq = my_master_znode_id[s] /\ y.uuid = s
  <2>1. Mine(s) = {[seq |-> my_master_znode_id[s], uuid |-> s, sid |-> handler[s]]}
    BY MastersOwn
  <2>2. QED  BY <1>2, <2>1
<1>4. my_master_znode_id[s] <= z.seq  BY MastersOwn DEF Leads, Masters
<1>5. y.seq # z.seq  BY <1>1, <1>3 DEF Grounds, Numbered
<1>6. y.seq \in Nat /\ z.seq \in Nat  BY <1>1 DEF Grounds, TypeOK, ZkTypeOK, Znode
<1>7. QED  BY <1>3, <1>4, <1>5, <1>6

\* The oldest of two znodes has one owner: of two masters that coexist, one follows a
\* third server.
LEMMA RivalsAreOne ==
    ASSUME MasterInv, errs = 0, NEW s \in Masters, NEW t \in Masters,
           FollowsOnly(s, t), FollowsOnly(t, s)
    PROVE  s = t
<1>1. ASSUME NEW r \in Masters
      PROVE  [seq |-> my_master_znode_id[r], uuid |-> r, sid |-> handler[r]] \in master
  BY MastersOwn
<1>2. TypeOK /\ Numbered /\ MasterCameFirst
  BY OldestIsMaster DEF MasterInv, LossInv, RegistrationInv, Grounds
<1>3. SUFFICES ASSUME s # t PROVE FALSE
  OBVIOUS
<1>4. my_master_znode_id[s] < my_master_znode_id[t]  BY <1>1, <1>2, <1>3 DEF MasterCameFirst
<1>5. my_master_znode_id[t] < my_master_znode_id[s]  BY <1>1, <1>2, <1>3 DEF MasterCameFirst
<1>6. my_master_znode_id[s] \in Int /\ my_master_znode_id[t] \in Int
  BY <1>2 DEF TypeOK, MgrTypeOK, Masters
<1>7. QED  BY <1>4, <1>5, <1>6

\* With two servers there is no third.
LEMMA AloneOfTwo ==
    ASSUME TwoServers, MasterInv, errs = 0
    PROVE  AtMostOneRegisteredMaster
<1> SUFFICES ASSUME NEW s \in Masters, NEW t \in Masters, s # t PROVE FALSE
  BY DEF AtMostOneRegisteredMaster
<1>1. PICK a, b \in Server : Server = {a, b}  BY DEF TwoServers
<1>2. \A e \in edges : e[1] \in Server
  BY DEF MasterInv, LossInv, RegistrationInv, Grounds, TypeOK, TreeTypeOK
<1>3. Server = {s, t}
  <2>1. s \in Server /\ t \in Server  BY DEF Masters
  <2>2. QED  BY <1>1, <2>1
<1>4. QED  BY <1>2, <1>3, RivalsAreOne DEF FollowsOnly

\* Of any number of servers, a registered master is the oldest of those it may compete
\* with, however it became master: while no call is lost, no registration is delayed, no
\* server has two znodes at once, and no slave is taken off a master.  Crashes are allowed,
\* and a server that comes back at once, if its old znode goes before it creates another.
THEOREM MasterIsOldest ==
    NoDelays => (Spec /\ []NobodyTwice /\ [][edges \subseteq edges']_edges
                 => [](errs = 0 => MasterCameFirst))
<1> SUFFICES ASSUME NoDelays
             PROVE  Spec /\ []NobodyTwice /\ [][edges \subseteq edges']_edges
                    => [](errs = 0 => MasterCameFirst)
  OBVIOUS
<1>1. MasterInv /\ NobodyTwice /\ [Next]_vars /\ [edges \subseteq edges']_edges => MasterInv'
  BY NextKeepsMaster
<1>2. MasterInv => (errs = 0 => MasterCameFirst)  BY OldestIsMaster
<1>3. QED  BY <1>1, <1>2, InitMaster, PTL DEF Spec

\* So, on the same conditions, two registered servers are both masters only while one of
\* them replicates from a third.  A lost call, a delayed registration, a server with two
\* znodes and an rm_repl are the other ways to two masters, and there are no more.
THEOREM TwoMastersNeedAThird ==
    NoDelays => (Spec /\ []NobodyTwice /\ [][edges \subseteq edges']_edges
                 => [](errs = 0 => \A s, t \in Masters :
                          s = t \/ ~FollowsOnly(s, t) \/ ~FollowsOnly(t, s)))
<1> SUFFICES ASSUME NoDelays
             PROVE  Spec /\ []NobodyTwice /\ [][edges \subseteq edges']_edges
                    => [](errs = 0 => \A s, t \in Masters :
                             s = t \/ ~FollowsOnly(s, t) \/ ~FollowsOnly(t, s))
  OBVIOUS
<1>1. MasterInv /\ NobodyTwice /\ [Next]_vars /\ [edges \subseteq edges']_edges => MasterInv'
  BY NextKeepsMaster
<1>2. MasterInv => (errs = 0 => \A s, t \in Masters :
                       s = t \/ ~FollowsOnly(s, t) \/ ~FollowsOnly(t, s))
  BY RivalsAreOne
<1>3. QED  BY <1>1, <1>2, InitMaster, PTL DEF Spec

\* Of a master and its only slave never are both registered and both masters, while no
\* call is lost, no registration is delayed and neither has two znodes at once: through
\* elections, takeovers, crashes, sessions that end under a server that runs on, start_repl
\* and rm_repl, and any number of new sessions.
THEOREM OneMaster ==
    NoDelays /\ TwoServers
    => (Spec /\ []NobodyTwice => [](errs = 0 => AtMostOneRegisteredMaster))
<1> SUFFICES ASSUME NoDelays, TwoServers
             PROVE  Spec /\ []NobodyTwice => [](errs = 0 => AtMostOneRegisteredMaster)
  OBVIOUS
<1>1. MasterInv /\ NobodyTwice /\ [Next]_vars => MasterInv'  BY NextKeepsMaster
<1>2. MasterInv => (errs = 0 => AtMostOneRegisteredMaster)  BY AloneOfTwo
<1>3. QED  BY <1>1, <1>2, InitMaster, PTL DEF Spec

-----------------------------------------------------------------------------
(* The refinement of Ownership                                              *)

\* Who is registered, and who of them is master, changes for one server at a time.
SameStanding(t) == (Registered(t)' <=> Registered(t)) /\ (t \in Masters' <=> t \in Masters)

\* What one server's standing becomes is a step of Ownership: it joins as no master,
\* and it becomes master when nobody is, since nobody else is afterwards.
LEMMA OneMaps ==
    ASSUME AtMostOneRegisteredMaster', NEW s \in Server,
           \A t \in Server : t # s => SameStanding(t),
           ~Registered(s) /\ Registered(s)' => s \notin Masters'
    PROVE  [MasterOwnership!Next]_<<{t \in Server : Registered(t)}, Masters>>
<1> DEFINE members == {t \in Server : Registered(t)}
           members1 == {t \in Server : Registered(t)'}
<1>1. Masters \subseteq members /\ Masters' \subseteq members1  BY DEF Masters
<1>2. \A t \in Server : t # s => (t \in members1 <=> t \in members)
  BY DEF SameStanding
<1>3. \A t \in Server : t # s => (t \in Masters' <=> t \in Masters)
  BY DEF SameStanding
<1>4. members \subseteq Server /\ members1 \subseteq Server  OBVIOUS
<1>5. s \notin members /\ s \in members1 => s \notin Masters'  OBVIOUS
<1>6. \A t \in Masters' : s \in Masters' => t = s  BY DEF AtMostOneRegisteredMaster
<1>7. members' = members1  OBVIOUS
<1> HIDE DEF members, members1
<1>8. CASE s \notin members /\ s \in members1
  <2>1. members1 = members \cup {s} /\ Masters' = Masters
    BY <1>1, <1>2, <1>3, <1>4, <1>5, <1>8
  <2>2. s \notin members /\ members' = members \cup {s} /\ Masters' = Masters
    BY <1>7, <1>8, <2>1
  <2>3. MasterOwnership!Join(s)  BY <2>2 DEF MasterOwnership!Join, members
  <2>4. QED  BY <2>3 DEF MasterOwnership!Next
<1>9. CASE s \in members /\ s \notin members1
  <2>1. members1 = members \ {s} /\ Masters' = Masters \ {s}
    BY <1>1, <1>2, <1>3, <1>4, <1>9
  <2>2. s \in members /\ members' = members \ {s} /\ Masters' = Masters \ {s}
    BY <1>7, <1>9, <2>1
  <2>3. MasterOwnership!Leave(s)  BY <2>2 DEF MasterOwnership!Leave, members
  <2>4. QED  BY <2>3 DEF MasterOwnership!Next
<1>10. CASE s \in members <=> s \in members1
  <2>1. members' = members  BY <1>2, <1>4, <1>7, <1>10
  <2>2. CASE s \in Masters /\ s \notin Masters'
    <3>1. s \in Masters /\ Masters' = Masters \ {s} /\ members' = members
      BY <1>1, <1>3, <1>4, <2>1, <2>2
    <3>2. MasterOwnership!StandBy(s)  BY <3>1 DEF MasterOwnership!StandBy, members
    <3>3. QED  BY <3>2 DEF MasterOwnership!Next
  <2>3. CASE s \notin Masters /\ s \in Masters'
    <3>1. s \in members /\ Masters = {} /\ Masters' = {s} /\ members' = members
      BY <1>1, <1>3, <1>4, <1>6, <1>10, <2>1, <2>3
    <3>2. MasterOwnership!Own(s)  BY <3>1 DEF MasterOwnership!Own, members
    <3>3. QED  BY <3>2 DEF MasterOwnership!Next
  <2>4. CASE s \in Masters <=> s \in Masters'
    <3>1. Masters' = Masters  BY <1>1, <1>3, <1>4, <2>4
    <3>2. QED  BY <2>1, <3>1 DEF members
  <2>5. QED  BY <2>2, <2>3, <2>4
<1>11. QED  BY <1>8, <1>9, <1>10

\* Only its own steps, and the end of its session, change the standing of a server.
LEMMA OthersKeepStanding ==
    ASSUME Grounds, Managers, NEW s \in Server, Acts(s), NEW t \in Server, t # s
    PROVE  SameStanding(t)
<1> USE DEF Grounds
<1>1. Still(t) /\ (Alive(t)' => Alive(t))  BY OthersStill, LivesOn
<1>2. Alive(t) => Alive(t)'
  <2> SUFFICES ASSUME Alive(t) PROVE handler[t] \in sessions'
    BY <1>1 DEF Still, Alive
  <2>1. handler[t] \in sessions /\ handler[t] # handler[s]
    BY DEF Alive, Sessions, TypeOK, ZkTypeOK
  <2>2. QED
    BY <2>1, ServiceMoves DEF Asking, zkVars, Connect, CreateMasterZnode, DeleteMasterZnode, Crash,
       Disconnect_Done, EndSession
<1>3. Registered(t)' <=> Registered(t)
  <2>1. Alive(t) => Mine(t)' = Mine(t)  BY OthersSpareMine
  <2>2. QED  BY <1>1, <1>2, <2>1 DEF Registered, Mine
<1>4. QED  BY <1>1, <1>3 DEF SameStanding, Masters, Still

\* A server registers as no master: at first it has not been elected yet, and one that
\* comes back withdrew.
LEMMA JoinsAsNone ==
    ASSUME Grounds, Managers, NoDelays, UNCHANGED errs, NEW s \in Server, Acts(s),
           ~Registered(s), Registered(s)'
    PROVE  s \notin Masters'
<1> USE DEF Grounds
<1>1. Alive(s)'  BY DEF Registered
<1>2. ~Connect(s)
  <2>1. ASSUME Connect(s) PROVE FALSE
    <3>1. UNCHANGED master /\ handler'[s] = nextSid
      BY <2>1 DEF Connect, TypeOK, MgrTypeOK
    <3>2. \A z \in master : z.sid # nextSid  BY DEF Sessions, TypeOK, ZkTypeOK, Znode
    <3>3. QED  BY <3>1, <3>2 DEF Registered
  <2>2. QED  BY <2>1
<1>3. Alive(s)  BY <1>1, <1>2, LivesOn
<1>4. OwnStep(s)  BY <1>1, <1>3 DEF OwnStep, OneAtATime, Managers
<1>5. ~Keeps(s)  BY <1>3 DEF Keeps, zkVars, Registered
<1>6. ~Leaves(s)  BY <1>3 DEF Leaves, DeleteMasterZnode, Registered
<1>7. CASE RegisterServer_Create(s)
  <2>1. ~i_am_master[s] /\ UNCHANGED i_am_master
    BY <1>4, <1>7, NoneWaits, CreateMoves DEF OwnStep, ManagerOf, Progress
  <2>2. QED  BY <2>1 DEF Masters
<1>8. CASE NodesIncrease_Again(s)
  <2>1. s \in withdrew'  BY <1>4, <1>8, OnlyTheAwayReturn, OwnWithdraws
  <2>2. QED  BY <2>1 DEF Masters
<1>9. QED  BY <1>4, <1>5, <1>6, <1>7, <1>8, NoneWaits, OwnPath DEF Gains

\* When a session ends, the server whose it was is no longer registered.
LEMMA TimeoutKeepsStanding ==
    ASSUME Grounds, NEW k \in sessions, SessionTimeout(k), NEW t \in Server
    PROVE  /\ handler[t] # k => SameStanding(t)
           /\ ~Registered(t) => ~Registered(t)'
<1>1. /\ UNCHANGED <<mgrVars, app, withdrew>>
      /\ sessions' = sessions \ {k} /\ master' = {z \in master : z.sid # k}
  BY DEF SessionTimeout, EndSession, history
<1>2. ASSUME handler[t] # k PROVE SameStanding(t)
  BY <1>1, <1>2 DEF SameStanding, Masters, Registered, Alive, mgrVars
<1>3. ~Registered(t) => ~Registered(t)'  BY <1>1 DEF Registered, Alive, mgrVars
<1>4. QED  BY <1>2, <1>3

LEMMA NextMapsToOwnership ==
    ASSUME NoDelays, MasterInv, errs = 0, [Next]_vars, errs' = 0, AtMostOneRegisteredMaster'
    PROVE  [MasterOwnership!Next]_<<{s \in Server : Registered(s)}, Masters>>
<1>1. Grounds /\ Managers /\ UNCHANGED errs  BY DEF MasterInv, LossInv, RegistrationInv
<1>2. ASSUME NEW s \in Server, Acts(s)
      PROVE  [MasterOwnership!Next]_<<{t \in Server : Registered(t)}, Masters>>
  BY <1>1, <1>2, OthersKeepStanding, JoinsAsNone, OneMaps
<1>3. CASE \A t \in Server : SameStanding(t)
  <2>1. \A t \in Server : Registered(t)' <=> Registered(t)  BY <1>3 DEF SameStanding
  <2>2. \A t \in Server : t \in Masters' <=> t \in Masters  BY <1>3 DEF SameStanding
  <2>3. Masters' = Masters  BY <2>2 DEF Masters
  <2>4. QED  BY <2>1, <2>3
<1>4. ASSUME NEW k \in sessions, SessionTimeout(k)
      PROVE  [MasterOwnership!Next]_<<{t \in Server : Registered(t)}, Masters>>
  <2>1. CASE \A t \in Server : handler[t] # k  BY <1>1, <1>3, <1>4, <2>1, TimeoutKeepsStanding
  <2>2. ASSUME NEW s \in Server, handler[s] = k
        PROVE  [MasterOwnership!Next]_<<{t \in Server : Registered(t)}, Masters>>
    <3>1. \A t \in Server : t # s => handler[t] # k
      BY <1>1, <2>2 DEF Grounds, Sessions, TypeOK, ZkTypeOK
    <3>2. \A t \in Server : t # s => SameStanding(t)
      BY <1>1, <1>4, <3>1, TimeoutKeepsStanding
    <3>3. ~Registered(s) => ~Registered(s)'  BY <1>1, <1>4, TimeoutKeepsStanding
    <3>4. QED  BY <3>2, <3>3, OneMaps
  <2>3. QED  BY <2>1, <2>2
<1>5. CASE UNCHANGED vars
  <2>1. UNCHANGED <<zkVars, mgrVars, app, withdrew>>  BY <1>5 DEF vars, history
  <2>2. \A t \in Server : SameStanding(t)
    BY <2>1 DEF SameStanding, Masters, Registered, Alive, zkVars, mgrVars
  <2>3. QED  BY <1>3, <2>2
<1>6. QED  BY <1>2, <1>4, <1>5, NextActs

\* Under the same conditions a master and its only slave own the database as Ownership
\* says: whoever becomes master, by election or by taking over, does so when no
\* registered server is, and no server registers as master.
THEOREM OwnershipIsKept ==
    NoDelays /\ TwoServers => (Spec /\ [](errs = 0) /\ []NobodyTwice => OwnsAlone)
<1> SUFFICES ASSUME NoDelays, TwoServers
             PROVE  Spec /\ [](errs = 0) /\ []NobodyTwice => OwnsAlone
  OBVIOUS
<1>1. Init => MasterOwnership!Init
  BY DEF Init, MasterOwnership!Init, Masters, Registered, Alive
<1>2. MasterInv /\ NobodyTwice /\ [Next]_vars => MasterInv'  BY NextKeepsMaster
<1>3. MasterInv => (errs = 0 => AtMostOneRegisteredMaster)  BY AloneOfTwo
<1>4. MasterInv /\ errs = 0 /\ [Next]_vars /\ (errs = 0)' /\ AtMostOneRegisteredMaster'
      => [MasterOwnership!Next]_<<{s \in Server : Registered(s)}, Masters>>
  BY NextMapsToOwnership
<1>5. QED
  BY InitMaster, <1>1, <1>2, <1>3, <1>4, PTL DEF Spec, OwnsAlone, MasterOwnership!Spec

-----------------------------------------------------------------------------
(* A cluster that nobody leaves                                             *)

NobodyLeaves == Leavers = {}
NoneFollowsItself == \A e \in edges : e[1] # e[2]

\* What a list of /master would have.
Children == {NodeOf(z) : z \in master}

\* Every session has its server, and every server with a manager its session.
Steady ==
    /\ \A k \in sessions : \E s \in Server : handler[s] = k
    /\ \A s \in Server : handler[s] # 0 => Alive(s)
    /\ IsFiniteSet(Children)

\* A manager knows of no znode that is gone, so it has nothing to remove.
LosesNone(s) ==
    /\ wat[s].pc \notin Dec /\ my_master_znode_id[s] # DeleteByMyself
    /\ Entries(s) \subseteq Children

\* The server nodes_increase asks about is the one its entry names, and is another.
Names(s) == wat[s].pc \in {"entered_inc", "increase"} =>
    /\ wat[s].who # s
    /\ \E e \in wat[s].map : e.seq = wat[s].cur /\ e.uuid = wat[s].who

\* What mysqld was told of its slave: it is online, so that its end is reported.
Reports(s) ==
    /\ s \notin active_slaves[s] /\ s \notin wat[s].set /\ s \notin app[s].slaves
    /\ slaveTold[s] = "alive" =>
          active_slaves[s] # {} /\ active_slaves[s] \subseteq Uuids(nodes[s]) /\ ~Listless(s)

\* A step is one of a server that stays, or that comes.
LEMMA NobodyGoes ==
    ASSUME Grounds, NobodyLeaves, Steady, \A t \in Server : wat[t].pc \notin Dec,
           NEW s \in Server, Acts(s)
    PROVE  /\ Connect(s) \/ (Alive(s) /\ Alive(s)')
           /\ Steady' /\ master \subseteq master'
<1>0. TypeOK /\ TypeOK' /\ Blank(s) /\ Next
  BY NextKeepsType, NextActs DEF Grounds
<1>1. ~Crash(s) /\ ~Disconnect_Close(s)
  BY DEF NobodyLeaves, Crash, Disconnect_Close
<1>2. ~Disconnect_Done(s)
  <2>1. app[s].pc # "closing"
    BY <1>0 DEF Steady, Alive, Blank, AppIdle
  <2>2. QED  BY <2>1 DEF Disconnect_Done
<1>3. CASE Connect(s)
  <2>1. /\ UNCHANGED <<master, edges, app>> /\ handler[s] = 0
        /\ handler' = [handler EXCEPT ![s] = nextSid] /\ sessions' = sessions \cup {nextSid}
    BY <1>3 DEF Connect, treeVars
  <2>2. /\ handler'[s] = nextSid /\ \A t \in Server : t # s => handler'[t] = handler[t]
    BY <1>0, <2>1 DEF TypeOK, MgrTypeOK
  <2>3. app[s].pc # "closing"  BY <1>0, <2>1 DEF Blank, AppIdle
  <2>4. \A k \in sessions' : \E t \in Server : handler'[t] = k
    <3>1. ASSUME NEW k \in sessions PROVE \E t \in Server : handler'[t] = k
      <4>1. PICK t \in Server : handler[t] = k  BY DEF Steady
      <4>2. t # s  BY <1>0, <2>1, <4>1 DEF TypeOK, ZkTypeOK
      <4>3. QED  BY <2>2, <4>1, <4>2
    <3>2. QED  BY <2>1, <2>2, <3>1
  <2>5. \A t \in Server : handler'[t] # 0 => Alive(t)'
    BY <2>1, <2>2, <2>3 DEF Steady, Alive
  <2>6. Children' = Children  BY <2>1 DEF Children
  <2>7. QED  BY <1>3, <2>1, <2>4, <2>5, <2>6 DEF Steady
<1>4. CASE ~Connect(s)
  <2>1. handler[s] # 0  BY <1>0, <1>4, OnlyConnects
  <2>2. Alive(s)  BY <2>1 DEF Steady
  <2>3. /\ UNCHANGED <<handler, sessions>> /\ master \subseteq master'
    BY <1>1, <1>2, <1>4, ServiceMoves DEF Asking, zkVars, CreateMasterZnode, Dec, Erasing
  <2>4. \A t \in Server : app'[t].pc = "closing" => app[t].pc = "closing"
    BY <1>0, <1>1, ClosesOnce, OthersStill DEF Still
  <2>5. \A t \in Server : handler'[t] # 0 => Alive(t)'
    BY <2>3, <2>4 DEF Steady, Alive
  <2>6. IsFiniteSet(Children')
    <3>1. CASE Shrinks
      <4>1. Children' \subseteq Children  BY <3>1 DEF Shrinks, Children
      <4>2. QED  BY <4>1, FS_Subset DEF Steady
    <3>2. CASE Grows
      <4>1. PICK z : master' = master \cup {z}  BY <3>2 DEF Grows
      <4>2. Children' = Children \cup {NodeOf(z)}  BY <4>1 DEF Children
      <4>3. QED  BY <4>2, FS_AddElement DEF Steady
    <3>3. QED  BY <1>0, <3>1, <3>2, MasterMoves
  <2>7. \A k \in sessions' : \E t \in Server : handler'[t] = k  BY <2>3 DEF Steady
  <2>8. QED  BY <2>1, <2>2, <2>3, <2>5, <2>6, <2>7 DEF Steady
<1>5. QED  BY <1>3, <1>4

\* No session is timed out.
LEMMA NoTimeout ==
    ASSUME NobodyLeaves, Steady, NEW k \in sessions
    PROVE  ~SessionTimeout(k)
<1>1. PICK s \in Server : handler[s] = k  BY DEF Steady
<1>2. s \in {t \in Server : handler[t] = k}  BY <1>1
<1>3. QED  BY <1>2 DEF NobodyLeaves, SessionTimeout

-----------------------------------------------------------------------------
(* Nobody is missed                                                         *)

LEMMA NodeOfChild ==
    ASSUME Numbered, NEW d \in Children, NEW e \in Children, d.seq = e.seq
    PROVE  d = e
<1>1. PICK y \in master : d = NodeOf(y)  BY DEF Children
<1>2. PICK z \in master : e = NodeOf(z)  BY DEF Children
<1>3. d.seq = y.seq /\ e.seq = z.seq  BY <1>1, <1>2 DEF NodeOf
<1>4. QED  BY <1>1, <1>2, <1>3 DEF Numbered

\* A list of all children, all read, is not shorter than nodes.
LEMMA NoneIsMissing ==
    ASSUME TypeOK, Numbered, NEW s \in Server, IsFiniteSet(Children),
           LosesNone(s), Losses(s), wat[s].pc = "fetch", NEW map \in SUBSET wat[s].kids,
           Read(s, wat[s].kids, map), Alive(s), UNCHANGED errs
    PROVE  Direction(map, nodes[s]) # "dec"
<1>1. Seqs(wat[s].kids \ map) \cap Seqs(master) = {}
  BY NoneLost DEF Read
<1>2. \A e \in Children : e.seq \in Seqs(master)  BY DEF Children, NodeOf, Seqs
<1>3. ASSUME NEW e \in nodes[s] PROVE e \in map
  <2>1. e \in Children  BY DEF LosesNone, Entries
  <2>2. e.seq \in Heard(s) /\ e.seq \in Seqs(master)  BY <1>2, <2>1 DEF Heard, Seqs
  <2>3. e.seq \in Seqs(wat[s].kids)  BY <2>2 DEF Losses, Seen
  <2>4. PICK d \in wat[s].kids : d.seq = e.seq  BY <2>3 DEF Seqs
  <2>5. d \in Children  BY DEF LosesNone, Entries
  <2>6. d = e  BY <2>1, <2>4, <2>5, NodeOfChild
  <2>7. QED  BY <1>1, <2>2, <2>4, <2>6 DEF Seqs
<1>4. IsFiniteSet(map)
  <2>1. map \subseteq Children  BY DEF LosesNone, Entries
  <2>2. QED  BY <2>1, FS_Subset
<1>5. nodes[s] \subseteq map  BY <1>3
<1>6. /\ Cardinality(nodes[s]) <= Cardinality(map)
      /\ Cardinality(nodes[s]) \in Nat /\ Cardinality(map) \in Nat
  BY <1>4, <1>5, FS_Subset, FS_CardinalityType
<1>7. QED  BY <1>6 DEF Direction

\* A fetch that finds a loss is the only way to one.
LEMMA FetchesToLoss ==
    ASSUME NEW s \in Server, OwnStep(s), wat[s].pc \notin Dec, wat'[s].pc \in Dec
    PROVE  MasterWatcher_Fetch(s) /\ wat[s].pc = "fetch"
<1>1. wat[s].pc = "fetch"  BY OwnView DEF View, ReadsAll
<1>2. wat'[s] # wat[s]  BY <1>1 DEF Dec, Erasing
<1>3. ~SessionExpired(s) /\ ~ReplWatcher_Step(s) /\ ~Asks(s)
  BY <1>1, <1>2, RestMoves, AskMoves DEF OwnStep
<1>4. Watches(s)
  BY <1>2, <1>3, OwnIs, CountMoves, CreateMoves, ListMoves, FetchMoves, FirstMovesOn,
     TellMoves, ReplicationMoves DEF OwnStep
<1>5. ~MasterWatcher_List(s)  BY <1>1 DEF MasterWatcher_List, Take
<1>6. QED
  BY <1>1, <1>4, <1>5, EndMoves, IncreaseMoves, IncreaseExistsMoves, IncreaseLockedMoves,
     AgainMoves, DiscreaseMoves, DiscreaseExistsMoves, DiscreaseLockedMoves, ModeMoves,
     DeleteMoves DEF OwnStep, Watches

LEMMA OwnLosesNone ==
    ASSUME NEW s \in Server, OwnStep(s), Numbered, IsFiniteSet(Children), master \subseteq master',
           LosesNone(s), Losses(s)
    PROVE  LosesNone(s)'
<1>1. TypeOK /\ Alive(s) /\ UNCHANGED errs  BY DEF OwnStep
<1>2. wat'[s].pc \notin Dec
  <2> SUFFICES ASSUME wat'[s].pc \in Dec PROVE FALSE
    OBVIOUS
  <2>1. MasterWatcher_Fetch(s) /\ wat[s].pc = "fetch"  BY FetchesToLoss DEF LosesNone
  <2>2. PICK map \in SUBSET wat[s].kids :
          /\ Read(s, wat[s].kids, map)
          /\ LET way == Direction(map, nodes[s])
             IN  wat' = [wat EXCEPT ![s] = IF way = "idle" THEN WatIdle
                                           ELSE [WatIdle EXCEPT !.pc = way, !.map = map]]
    BY <2>1 DEF MasterWatcher_Fetch
  <2>3. Direction(map, nodes[s]) \in {"idle", "inc"}
    BY <1>1, <2>1, <2>2, NoneIsMissing DEF Direction
  <2>4. wat'[s].pc \in {"idle", "inc"}
    BY <1>1, <2>2, <2>3 DEF TypeOK, ThreadTypeOK, WatIdle
  <2>5. QED  BY <2>4 DEF Dec, Erasing
<1>3. my_master_znode_id'[s] # DeleteByMyself
  <2>1. nextSeq # DeleteByMyself  BY <1>1 DEF TypeOK, ZkTypeOK, DeleteByMyself
  <2>2. ~Leaves(s)  BY DEF Leaves, LosesNone, Dec, Erasing
  <2>3. DelayRegister # DeleteByMyself  BY DEF DelayRegister, DeleteByMyself
  <2>4. QED  BY <2>1, <2>2, <2>3, OwnPath DEF Keeps, Defers, Gains, LosesNone
<1>4. Entries(s)' \subseteq Children'
  <2>1. Children \subseteq Children'  BY DEF Children
  <2>2. Entries(s)' \subseteq Entries(s) \cup Children  BY OwnView DEF View, Learns, Children
  <2>3. QED  BY <2>1, <2>2 DEF LosesNone
<1>5. QED  BY <1>2, <1>3, <1>4 DEF LosesNone

-----------------------------------------------------------------------------
(* What is reported of a slave                                              *)

\* A step of a server changes nothing of this for another.
LEMMA OthersReport ==
    ASSUME TypeOK, NEW s \in Server, Acts(s), NEW t \in Server, t # s
    PROVE  active_slaves'[t] = active_slaves[t] /\ slaveTold'[t] = slaveTold[t]
<1> USE DEF TypeOK, MgrTypeOK, ToldTypeOK
<1>1. CASE AppThread(s)
  BY <1>1 DEF AppThread, RegisterServer_Step, RegisterServer_Count, RegisterServer_Create,
     RegisterServer_List, RegisterServer_Fetch, RegisterServer_First, RegisterServer_Tell,
     GetSyncpoint_Read, Disconnect_Done, Forget, pointRest, toldVars
<1>2. CASE CompletionThread(s)
  <2>1. CASE ReplWatcher_Diff(s)
    BY <2>1 DEF ReplWatcher_Diff
  <2>2. CASE NodesIncrease_Locked(s) \/ NodesDiscrease_Locked(s)
    BY <2>2 DEF NodesIncrease_Locked, NodesDiscrease_Locked
  <2>3. CASE ~ReplWatcher_Diff(s) /\ ~NodesIncrease_Locked(s) /\ ~NodesDiscrease_Locked(s)
    BY <1>2, <2>3 DEF CompletionThread, SessionExpired, ReplWatcher_Step, ReplWatcher_List,
       MasterWatcher_Step, MasterWatcher_List, MasterWatcher_Fetch, MasterWatcher_End,
       NodesIncrease, NodesIncrease_Exists, NodesIncrease_Again, NodesDiscrease,
       NodesDiscrease_Exists, NodesDiscrease_Mode, NodesDiscrease_Delete, mgrVars, toldVars
  <2>4. QED  BY <2>1, <2>2, <2>3
<1>3. CASE Asks(s)
  BY <1>3 DEF Asks, ChangeReplMode, GetSyncpoint, GetSyncpoint_Read, StartRepl, RmRepl,
     adminRest, pointRest, toldVars
<1>4. CASE Connect(s) \/ RegisterServer_Replication(s) \/ Disconnect_Close(s) \/ Crash(s)
  BY <1>4 DEF Connect, RegisterServer_Replication, Disconnect_Close, Crash, Forget, toldVars
<1>5. QED  BY <1>1, <1>2, <1>3, <1>4 DEF Acts, Application, Asks

\* What becomes of nodes when nothing is lost: it only grows, once it is listed.
LEMMA NodesGrow ==
    ASSUME NEW s \in Server, OwnStep(s), wat[s].pc \notin Dec, ~Listless(s)
    PROVE  nodes[s] \subseteq nodes'[s] /\ ~Listless(s)'
<1> USE DEF OwnStep
<1>1. /\ ~RegisterServer_List(s) /\ ~RegisterServer_Count(s) /\ ~RegisterServer_Create(s)
      /\ ~RegisterServer_Replication(s)
  BY ListMoves, CountMoves, CreateMoves, BeginsAfresh DEF Listless
<1>2. CASE RegisterServer_Fetch(s) \/ RegisterServer_First(s) \/ RegisterServer_Tell(s)
  <2>1. nodes[s] \subseteq nodes'[s]
    <3>1. CASE RegisterServer_Fetch(s)
      BY <3>1 DEF RegisterServer_Fetch, TypeOK, MgrTypeOK
    <3>2. QED  BY <1>2, <3>1, FirstMovesOn, TellMoves
  <2>2. /\ app'[s].pc \notin {"count", "create", "list"}
        /\ UNCHANGED <<compeleted_register, my_master_znode_id>>
    BY <1>2, FetchMoves, FirstMovesOn, TellMoves DEF AppRests, AppGoes, AppIdle
  <2>3. QED  BY <2>1, <2>2 DEF Listless, Waiting
<1>3. CASE SessionExpired(s) \/ ReplWatcher_Step(s) \/ Asks(s)
  BY <1>3, RestMoves, AskMoves DEF Listless, Waiting, AppAsks, Outside
<1>4. CASE Watches(s)
  <2>1. ~Listless(s)'  BY <1>4, WatchesListed, WatchesProgress DEF Listless
  <2>2. nodes[s] \subseteq nodes'[s]
    <3>1. CASE NodesIncrease(s) \/ NodesIncrease_Locked(s) \/ NodesIncrease_Again(s)
      BY <3>1 DEF NodesIncrease, NodesIncrease_Locked, NodesIncrease_Again, Inserted, TypeOK,
         MgrTypeOK
    <3>2. CASE \/ MasterWatcher_List(s) \/ MasterWatcher_Fetch(s) \/ MasterWatcher_End(s)
               \/ NodesIncrease_Exists(s)
      BY <3>2, WatListMoves, WatFetchMoves, EndMoves, IncreaseExistsMoves
    <3>3. QED
      BY <1>4, <3>1, <3>2, DiscreaseMoves, DiscreaseExistsMoves, DiscreaseLockedMoves, ModeMoves,
         DeleteMoves DEF Watches, Dec, Erasing
  <2>3. QED  BY <2>1, <2>2
<1>5. QED  BY <1>1, <1>2, <1>3, <1>4, OwnIs

LEMMA OwnNames ==
    ASSUME NEW s \in Server, OwnStep(s), wat[s].pc \notin Dec, Names(s)
    PROVE  Names(s)'
<1> USE DEF OwnStep
<1>1. CASE wat'[s] = wat[s]  BY <1>1 DEF Names
<1>2. CASE NodesIncrease(s)
  <2>1. PICK e \in NextOf(s, wat[s].map, nodes[s]) :
          \/ wat' = [wat EXCEPT ![s].cur = e.seq]
          \/ e.uuid # s /\ Enter(s, e, "entered_inc") /\ UNCHANGED nodes
    BY <1>2 DEF NodesIncrease
  <2>2. e \in wat[s].map  BY DEF NextOf, Missing
  <2>3. CASE wat' = [wat EXCEPT ![s].cur = e.seq]
    <3>1. wat'[s] = [wat[s] EXCEPT !.cur = e.seq] /\ wat[s].pc = "inc"
      BY <1>2, <2>3 DEF NodesIncrease, TypeOK, ThreadTypeOK
    <3>2. wat[s] \in WatLocals  BY DEF TypeOK, ThreadTypeOK, WatState
    <3>3. wat'[s].pc = "inc"  BY <3>1, <3>2 DEF WatLocals
    <3>4. QED  BY <3>3 DEF Names
  <2>4. CASE e.uuid # s /\ Enter(s, e, "entered_inc") /\ UNCHANGED nodes
    <3>1. /\ wat'[s].cur = e.seq /\ wat'[s].who = e.uuid /\ wat'[s].map = wat[s].map
      BY <2>4, EnterEnters DEF Enters
    <3>2. QED  BY <2>2, <2>4, <3>1 DEF Names
  <2>5. QED  BY <2>1, <2>3, <2>4
<1>3. CASE NodesIncrease_Exists(s)
  <2>1. wat[s].pc = "entered_inc" /\ WatGoes(s, "increase")  BY <1>3, IncreaseExistsMoves
  <2>2. QED  BY <2>1 DEF WatGoes, Names
<1>4. CASE \/ NodesIncrease_Locked(s) \/ NodesIncrease_Again(s) \/ MasterWatcher_List(s)
           \/ MasterWatcher_Fetch(s) \/ MasterWatcher_End(s)
  <2>1. WatIdle.pc = "idle"  BY DEF WatIdle
  <2>2. CASE NodesIncrease_Locked(s)
    <3>1. WatGoes(s, "again") \/ Inserts(s)  BY <2>2, IncreaseLockedMoves
    <3>2. QED  BY <3>1 DEF WatGoes, Inserts, Names
  <2>3. CASE NodesIncrease_Again(s)
    BY <2>3, AgainMoves DEF Inserts, Names
  <2>4. CASE MasterWatcher_List(s)
    BY <2>4, WatListMoves DEF Names
  <2>5. CASE MasterWatcher_Fetch(s) \/ MasterWatcher_End(s)
    <3>1. WatRests(s) \/ wat'[s].pc \in {"inc", "dec"}  BY <2>5, WatFetchMoves, EndMoves
    <3>2. QED  BY <2>1, <3>1 DEF WatRests, Names
  <2>6. QED  BY <1>4, <2>2, <2>3, <2>4, <2>5
<1>5. CASE SessionExpired(s) \/ ReplWatcher_Step(s)
  <2>1. wat'[s] = wat[s] \/ wat'[s].pc \in {"idle", "repl"}  BY <1>5, RestMoves
  <2>2. QED  BY <1>1, <2>1 DEF Names
<1>6. QED
  BY <1>1, <1>2, <1>3, <1>4, <1>5, OwnIs, CountMoves, CreateMoves, ListMoves, FetchMoves,
     FirstMovesOn, TellMoves, ReplicationMoves, AskMoves, DiscreaseMoves, DiscreaseExistsMoves,
     DiscreaseLockedMoves, ModeMoves, DeleteMoves DEF Watches, Dec, Erasing

\* The steps that touch active_slaves or report on it, when nothing is lost.
Touches(s) ==
    \/ UNCHANGED <<active_slaves, slaveTold>>
    \/ RegisterServer_Replication(s) \/ GetSyncpoint_Read(s)
    \/ NodesIncrease_Locked(s) \/ ReplWatcher_Diff(s)

LEMMA OwnTouches ==
    ASSUME NEW s \in Server, OwnStep(s), wat[s].pc \notin Dec
    PROVE  Touches(s)
<1> USE DEF OwnStep, Touches
<1>1. CASE \/ RegisterServer_Count(s) \/ RegisterServer_Create(s) \/ RegisterServer_List(s)
           \/ RegisterServer_Fetch(s) \/ RegisterServer_First(s) \/ RegisterServer_Tell(s)
  BY <1>1 DEF RegisterServer_Count, RegisterServer_Create, RegisterServer_List,
     RegisterServer_Fetch, RegisterServer_First, RegisterServer_Tell, toldVars
<1>2. CASE SessionExpired(s) \/ ReplWatcher_Step(s)
  BY <1>2 DEF SessionExpired, ReplWatcher_Step, ReplWatcher_List, mgrVars, toldVars
<1>3. CASE Asks(s)
  BY <1>3 DEF Asks, ChangeReplMode, GetSyncpoint, StartRepl, RmRepl, adminRest, pointRest,
     toldVars
<1>4. CASE Watches(s)
  <2>1. CASE NodesIncrease_Locked(s)  BY <2>1
  <2>2. CASE \/ MasterWatcher_List(s) \/ MasterWatcher_Fetch(s) \/ MasterWatcher_End(s)
             \/ NodesIncrease(s) \/ NodesIncrease_Exists(s) \/ NodesIncrease_Again(s)
    BY <2>2 DEF MasterWatcher_List, MasterWatcher_Fetch, MasterWatcher_End, NodesIncrease,
       NodesIncrease_Exists, NodesIncrease_Again, mgrVars, toldVars
  <2>3. QED
    BY <1>4, <2>1, <2>2, DiscreaseMoves, DiscreaseExistsMoves, DiscreaseLockedMoves, ModeMoves,
       DeleteMoves DEF Watches, Dec, Erasing
<1>5. QED  BY <1>1, <1>2, <1>3, <1>4, OwnIs

\* A slave that is reported alive has entered nodes, or is there.
LEMMA IncreaseReports ==
    ASSUME NEW s \in Server, OwnStep(s), LosesNone(s), Names(s), Reports(s),
           NodesIncrease_Locked(s)
    PROVE  Reports(s)'
<1> USE DEF OwnStep
<1>0. app'[s] = app[s]  BY IncreaseLockedMoves DEF ownRest
<1>1. wat[s].pc = "increase"  BY IncreaseLockedMoves
<1>2. /\ ~Listless(s) /\ wat[s].id = my_master_znode_id[s]
  BY <1>1 DEF ManagerOf, Unlisted, Copied, Resting, Entered
<1>3. Inserted(s)
  BY <1>2 DEF NodesIncrease_Locked, MayReturn, LosesNone
<1>4. /\ nodes'[s] = nodes[s] \cup {e \in wat[s].map : e.seq = wat[s].cur}
      /\ wat'[s] = [wat[s] EXCEPT !.pc = "inc"]
  BY <1>3 DEF Inserted, TypeOK, MgrTypeOK, ThreadTypeOK
<1>5. wat'[s].set = wat[s].set
  <2>1. wat[s] \in WatLocals  BY DEF TypeOK, ThreadTypeOK, WatState
  <2>2. QED  BY <1>4, <2>1 DEF WatLocals
<1>6. wat[s].who # s /\ wat[s].who \in Uuids(nodes'[s])
  BY <1>1, <1>4 DEF Names, Uuids
<1>7. ~Listless(s)'
  BY <1>1, <1>2, NodesGrow DEF LosesNone
<1>8. \/ active_slaves'[s] = {wat[s].who}
      \/ active_slaves'[s] = active_slaves[s] /\ slaveTold'[s] = slaveTold[s]
  BY DEF NodesIncrease_Locked, TypeOK, MgrTypeOK, ToldTypeOK
<1>9. Uuids(nodes[s]) \subseteq Uuids(nodes'[s])  BY <1>4 DEF Uuids
<1>10. CASE active_slaves'[s] = {wat[s].who}
  BY <1>0, <1>5, <1>6, <1>7, <1>10 DEF Reports, Uuids
<1>11. CASE active_slaves'[s] = active_slaves[s] /\ slaveTold'[s] = slaveTold[s]
  BY <1>0, <1>5, <1>7, <1>9, <1>11 DEF Reports, Uuids
<1>12. QED  BY <1>8, <1>10, <1>11

\* With one slave, the call that empties active_slaves reports it.
LEMMA DiffReports ==
    ASSUME TwoServers, NEW s \in Server, OwnStep(s), Reports(s), ReplWatcher_Diff(s)
    PROVE  Reports(s)'
<1> USE DEF OwnStep
<1>0. app'[s] = app[s]  BY RestMoves DEF ReplWatcher_Step
<1>1. /\ \A a, b \in Server : a # s /\ b # s => a = b
  BY DEF TwoServers
<1>2. /\ active_slaves[s] \subseteq Server \ {s} /\ wat[s].set \subseteq Server \ {s}
  BY DEF Reports, TypeOK, MgrTypeOK, ThreadTypeOK, WatState, WatLocals
<1>3. wat'[s].set = {}
  <2>1. wat'[s] = WatIdle  BY DEF ReplWatcher_Diff, TypeOK, ThreadTypeOK
  <2>2. QED  BY <2>1 DEF WatIdle
<1>4. nodes'[s] = nodes[s] /\ (Listless(s)' <=> Listless(s))
  BY DEF ReplWatcher_Diff, Listless, Waiting
<1>5. nodes[s] # {} => ~Listless(s)  BY DEF ManagerOf, Unlisted
<1>6. CASE UNCHANGED <<active_slaves, slaveTold>>
  BY <1>0, <1>3, <1>4, <1>6 DEF Reports, Uuids
<1>7. ASSUME active_slaves' = [active_slaves EXCEPT ![s] = @ \cup wat[s].set],
             NEW t \in wat[s].set \ active_slaves[s],
             slaveTold' = [slaveTold EXCEPT ![s] =
                 IF active_slaves[s] = {} /\ t \in Uuids(nodes[s]) THEN "alive" ELSE @]
      PROVE  Reports(s)'
  <2>1. /\ active_slaves'[s] = active_slaves[s] \cup wat[s].set
        /\ slaveTold'[s] = IF active_slaves[s] = {} /\ t \in Uuids(nodes[s])
                           THEN "alive" ELSE slaveTold[s]
    BY <1>7 DEF TypeOK, MgrTypeOK, ToldTypeOK
  <2>2. t \in Server /\ t # s  BY <1>2
  <2>3. active_slaves'[s] = {t} /\ active_slaves[s] = {}
    BY <1>1, <1>2, <1>7, <2>1, <2>2
  <2>4. slaveTold'[s] = "alive" => t \in Uuids(nodes[s])
    BY <2>1, <2>3 DEF Reports
  <2>5. t \in Uuids(nodes[s]) => nodes[s] # {}  BY DEF Uuids
  <2>6. QED  BY <1>0, <1>3, <1>4, <1>5, <2>2, <2>3, <2>4, <2>5 DEF Reports, Uuids
<1>8. ASSUME NEW lost \in (SUBSET (active_slaves[s] \ wat[s].set)) \ {{}}, NEW last \in lost,
             active_slaves' = [active_slaves EXCEPT ![s] = @ \ lost],
             slaveTold' = [slaveTold EXCEPT ![s] =
                 IF NoneLeft(active_slaves[s], lost) /\ last \in Uuids(nodes[s])
                 THEN "dead" ELSE @]
      PROVE  Reports(s)'
  <2>1. /\ active_slaves'[s] = active_slaves[s] \ lost
        /\ slaveTold'[s] = IF NoneLeft(active_slaves[s], lost) /\ last \in Uuids(nodes[s])
                           THEN "dead" ELSE slaveTold[s]
    BY <1>8 DEF TypeOK, MgrTypeOK, ToldTypeOK
  <2>2. active_slaves[s] \subseteq lost /\ last \in active_slaves[s]
    BY <1>1, <1>2, <1>8
  <2>3. slaveTold'[s] # "alive"
    BY <2>1, <2>2 DEF Reports, NoneLeft
  <2>4. QED  BY <1>0, <1>2, <1>3, <2>1, <2>3 DEF Reports
<1>9. QED  BY <1>6, <1>7, <1>8 DEF ReplWatcher_Diff

\* Only repl_watcher_fn lists slaves, and a server is not its own.
LEMMA SetMoves ==
    ASSUME NEW s \in Server, OwnStep(s), wat[s].pc \notin Dec, NoneFollowsItself,
           s \notin wat[s].set
    PROVE  s \notin wat'[s].set
<1> USE DEF OwnStep, TypeOK, ThreadTypeOK
<1>1. WatIdle.set = {}  BY DEF WatIdle
<1>2. wat[s] \in WatLocals  BY DEF WatState
<1>3. CASE wat'[s] = wat[s]  BY <1>3
<1>4. CASE SessionExpired(s) \/ ReplWatcher_Diff(s)
  BY <1>1, <1>4 DEF SessionExpired, ReplWatcher_Diff
<1>5. CASE ReplWatcher_List(s)
  <2> DEFINE slaves == {t \in Server : <<s, t>> \in edges}
  <2>1. \/ UNCHANGED wat
        \/ wat'[s] = [WatIdle EXCEPT !.pc = "repl", !.set = slaves]
    BY <1>5 DEF ReplWatcher_List
  <2>2. s \notin slaves  BY DEF NoneFollowsItself
  <2> HIDE DEF slaves
  <2>3. [WatIdle EXCEPT !.pc = "repl", !.set = slaves].set = slaves  BY DEF WatIdle
  <2>4. QED  BY <2>1, <2>2, <2>3
<1>6. CASE MasterWatcher_List(s)
  <2>1. \A kids : [WatIdle EXCEPT !.pc = "fetch", !.kids = kids].set = {}  BY DEF WatIdle
  <2>2. QED  BY <1>6, <2>1 DEF MasterWatcher_List
<1>7. CASE MasterWatcher_Fetch(s)
  <2>1. PICK map \in SUBSET wat[s].kids :
          LET way == Direction(map, nodes[s])
          IN  wat' = [wat EXCEPT ![s] = IF way = "idle" THEN WatIdle
                                        ELSE [WatIdle EXCEPT !.pc = way, !.map = map]]
    BY <1>7 DEF MasterWatcher_Fetch
  <2>2. \A way : [WatIdle EXCEPT !.pc = way, !.map = map].set = {}  BY DEF WatIdle
  <2>3. QED  BY <1>1, <2>1, <2>2
<1>8. CASE MasterWatcher_End(s)  BY <1>1, <1>8 DEF MasterWatcher_End
<1>9. CASE NodesIncrease(s)
  <2>1. PICK e \in NextOf(s, wat[s].map, nodes[s]) :
          wat' = [wat EXCEPT ![s].cur = e.seq] \/ Enter(s, e, "entered_inc")
    BY <1>9 DEF NodesIncrease
  <2>2. CASE wat' = [wat EXCEPT ![s].cur = e.seq]  BY <1>2, <2>2 DEF WatLocals
  <2>3. CASE Enter(s, e, "entered_inc")
    <3>1. wat'[s].set = {}  BY <2>3 DEF Enter
    <3>2. QED  BY <3>1
  <2>4. QED  BY <2>1, <2>2, <2>3
<1>10. CASE NodesIncrease_Exists(s)
  <2>1. PICK b, c \in BOOLEAN : Asked(s, "increase", b, c)  BY <1>10 DEF NodesIncrease_Exists
  <2>2. wat'[s] = [wat[s] EXCEPT !.pc = "increase", !.is_my_repl_slave = b,
                                 !.is_my_repl_master = c]
    BY <2>1 DEF Asked
  <2>3. QED  BY <1>2, <2>2 DEF WatLocals
<1>11. CASE NodesIncrease_Locked(s) \/ NodesIncrease_Again(s)
  <2>1. wat'[s] = [wat[s] EXCEPT !.pc = "again"] \/ wat'[s] = [wat[s] EXCEPT !.pc = "inc"]
    BY <1>11 DEF NodesIncrease_Locked, NodesIncrease_Again, Inserted
  <2>2. QED  BY <1>2, <2>1 DEF WatLocals
<1>12. QED
  BY <1>3, <1>4, <1>5, <1>6, <1>7, <1>8, <1>9, <1>10, <1>11, OwnIs, CountMoves, CreateMoves,
     ListMoves, FetchMoves, FirstMovesOn, TellMoves, ReplicationMoves, AskMoves, DiscreaseMoves,
     DiscreaseExistsMoves, DiscreaseLockedMoves, ModeMoves, DeleteMoves
  DEF Watches, ReplWatcher_Step, Dec, Erasing

\* Only get_syncpoint lists slaves for itself, and a server is not its own there either.
LEMMA PointsMove ==
    ASSUME NEW s \in Server, OwnStep(s), NoneFollowsItself, s \notin app[s].slaves
    PROVE  s \notin app'[s].slaves
<1> USE DEF OwnStep, TypeOK, ThreadTypeOK
<1>1. AppIdle.slaves = {}  BY DEF AppIdle
<1>2. app[s] \in AppState  OBVIOUS
<1>3. CASE app'[s] = app[s]  BY <1>3
<1>4. CASE GetSyncpoint(s)
  <2>1. PICK slaves \in {{t \in Server : <<s, t>> \in edges}} \ {{}} :
          app' = [app EXCEPT ![s] = [AppIdle EXCEPT !.pc = "points", !.slaves = slaves]]
    BY <1>4 DEF GetSyncpoint
  <2>2. s \notin slaves  BY DEF NoneFollowsItself
  <2>3. [AppIdle EXCEPT !.pc = "points", !.slaves = slaves].slaves = slaves  BY DEF AppIdle
  <2>4. QED  BY <2>1, <2>2, <2>3
<1>5. CASE GetSyncpoint_Read(s)
  <2>1. PICK t \in app[s].slaves :
          app' = [app EXCEPT ![s] = IF app[s].slaves = {t} THEN AppIdle
                                    ELSE [app[s] EXCEPT !.slaves = app[s].slaves \ {t}]]
    BY <1>5 DEF GetSyncpoint_Read
  <2>2. [app[s] EXCEPT !.slaves = app[s].slaves \ {t}].slaves = app[s].slaves \ {t}
    BY <1>2 DEF AppState
  <2>3. QED  BY <1>1, <2>1, <2>2
<1>6. CASE RegisterServer_Replication(s)
  <2>1. \A pc, d : [AppIdle EXCEPT !.pc = pc, !.delay = d].slaves = {}  BY DEF AppIdle
  <2>2. UNCHANGED app \/ Registering(s)  BY <1>6 DEF RegisterServer_Replication
  <2>3. CASE Registering(s)
    <3>1. PICK delay \in Delays[s] :
            app' = [app EXCEPT ![s] = [AppIdle EXCEPT !.pc = IF delay THEN "count" ELSE "create",
                                                      !.delay = delay]]
      BY <2>3 DEF Registering
    <3>2. app'[s].slaves = {}  BY <2>1, <3>1
    <3>3. QED  BY <3>2
  <2>4. QED  BY <1>3, <2>2, <2>3
<1>7. CASE \/ RegisterServer_Count(s) \/ RegisterServer_Create(s) \/ RegisterServer_List(s)
           \/ RegisterServer_Fetch(s) \/ RegisterServer_First(s) \/ RegisterServer_Tell(s)
  <2>0. ASSUME NEW pc PROVE [app[s] EXCEPT !.pc = pc].slaves = app[s].slaves
    BY <1>2 DEF AppState
  <2>1. CASE RegisterServer_Count(s)
    <3>1. PICK delay \in BOOLEAN :
            app' = [app EXCEPT ![s] = [app[s] EXCEPT !.delay = delay,
                                                     !.pc = IF delay THEN "list" ELSE "create"]]
      BY <2>1 DEF RegisterServer_Count
    <3>2. \A pc : [app[s] EXCEPT !.delay = delay, !.pc = pc].slaves = app[s].slaves
      BY <1>2 DEF AppState
    <3>3. app'[s].slaves = app[s].slaves  BY <3>1, <3>2
    <3>4. QED  BY <3>3
  <2>2. CASE RegisterServer_List(s)
    <3>1. \/ Return(s)
          \/ \E first : app' = [app EXCEPT ![s] = [app[s] EXCEPT !.pc = "fetch",
                                              !.kids = Seqs(master), !.first = first]]
      BY <2>2 DEF RegisterServer_List
    <3>2. \A kids, first : [app[s] EXCEPT !.pc = "fetch", !.kids = kids,
                                         !.first = first].slaves = app[s].slaves
      BY <1>2 DEF AppState
    <3>3. \/ app'[s] = AppIdle
          \/ \E first : app'[s] = [app[s] EXCEPT !.pc = "fetch", !.kids = Seqs(master),
                                                !.first = first]
      BY <3>1 DEF Return
    <3>4. app'[s] = AppIdle \/ app'[s].slaves = app[s].slaves
      <4>1. ASSUME NEW first, app'[s] = [app[s] EXCEPT !.pc = "fetch", !.kids = Seqs(master),
                                                      !.first = first]
            PROVE  app'[s].slaves = app[s].slaves
        BY <3>2, <4>1
      <4>2. QED  BY <3>3, <4>1
    <3>5. QED  BY <1>1, <3>4
  <2>3. CASE RegisterServer_Fetch(s)
    <3>1. \E q : \/ app' = [app EXCEPT ![s] = [app[s] EXCEPT !.kids = app[s].kids \ {q}]]
                 \/ app' = [app EXCEPT ![s] = [app[s] EXCEPT !.kids = {}, !.pc = "first"]]
      BY <2>3 DEF RegisterServer_Fetch
    <3>2. /\ \A kids : [app[s] EXCEPT !.kids = kids].slaves = app[s].slaves
          /\ [app[s] EXCEPT !.kids = {}, !.pc = "first"].slaves = app[s].slaves
      BY <1>2 DEF AppState
    <3>3. \/ \E q : app'[s] = [app[s] EXCEPT !.kids = app[s].kids \ {q}]
          \/ app'[s] = [app[s] EXCEPT !.kids = {}, !.pc = "first"]
      BY <3>1
    <3>4. app'[s].slaves = app[s].slaves
      <4>1. ASSUME NEW q, app'[s] = [app[s] EXCEPT !.kids = app[s].kids \ {q}]
            PROVE  app'[s].slaves = app[s].slaves
        BY <3>2, <4>1
      <4>2. QED  BY <3>2, <3>3, <4>1
    <3>5. QED  BY <3>4
  <2>4. CASE RegisterServer_Create(s) \/ RegisterServer_First(s) \/ RegisterServer_Tell(s)
    <3>1. \/ app' = [app EXCEPT ![s] = AppIdle]
          \/ \E pc : app' = [app EXCEPT ![s] = [app[s] EXCEPT !.pc = pc]]
      BY <2>4 DEF RegisterServer_Create, RegisterServer_First, RegisterServer_Tell, Return, Goto
    <3>2. app'[s] = AppIdle \/ app'[s].slaves = app[s].slaves  BY <2>0, <3>1
    <3>3. QED  BY <1>1, <3>2
  <2>5. QED  BY <1>7, <2>1, <2>2, <2>3, <2>4
<1>8. CASE ChangeReplMode(s) \/ \E m \in Server : StartRepl(s, m) \/ RmRepl(s, m)
  BY <1>8 DEF ChangeReplMode, StartRepl, RmRepl, adminRest
<1>9. CASE SessionExpired(s) \/ ReplWatcher_Step(s)  BY <1>9, RestMoves
<1>10. CASE Watches(s)
  BY <1>10, WatListMoves, WatFetchMoves, EndMoves, IncreaseMoves, IncreaseExistsMoves,
     IncreaseLockedMoves, AgainMoves, DiscreaseMoves, DiscreaseExistsMoves, DiscreaseLockedMoves,
     ModeMoves, DeleteMoves DEF Watches, ownRest
<1>11. QED
  BY <1>3, <1>4, <1>5, <1>6, <1>7, <1>8, <1>9, <1>10, OwnIs DEF Asks

\* What a server does to what it reports of its slave.
LEMMA OwnReports ==
    ASSUME TwoServers, NEW s \in Server, OwnStep(s), NoneFollowsItself,
           LosesNone(s), Names(s), Reports(s)
    PROVE  Reports(s)'
<1> USE DEF OwnStep
<1>1. s \notin wat'[s].set /\ s \notin app'[s].slaves
  BY SetMoves, PointsMove DEF LosesNone, Reports
<1>2. CASE UNCHANGED <<active_slaves, slaveTold>>
  <2>1. ASSUME ~Listless(s) PROVE Uuids(nodes[s]) \subseteq Uuids(nodes'[s]) /\ ~Listless(s)'
    BY <2>1, NodesGrow DEF LosesNone, Uuids
  <2>2. QED  BY <1>1, <1>2, <2>1 DEF Reports, Uuids
<1>3. CASE RegisterServer_Replication(s)
  <2>1. Listless(s)  BY <1>3, BeginsAfresh
  <2>2. s \notin OnlineSlaves(s)  BY DEF OnlineSlaves, NoneFollowsItself
  <2>3. /\ active_slaves'[s] \in {active_slaves[s], {}, OnlineSlaves(s)}
        /\ UNCHANGED slaveTold
    BY <1>3 DEF RegisterServer_Replication, toldVars, TypeOK, MgrTypeOK
  <2>4. QED  BY <1>1, <2>1, <2>2, <2>3 DEF Reports
<1>4. CASE GetSyncpoint_Read(s)
  <2>1. PICK t \in app[s].slaves :
          active_slaves' = [active_slaves EXCEPT ![s] = @ \cup {t}]
    BY <1>4 DEF GetSyncpoint_Read
  <2>2. active_slaves'[s] = active_slaves[s] \cup {t} /\ UNCHANGED <<slaveTold, nodes>>
    BY <1>4, <2>1 DEF GetSyncpoint_Read, pointRest, toldVars, TypeOK, MgrTypeOK
  <2>3. active_slaves[s] \subseteq Server \ {s} /\ t \in Server \ {s}
    BY DEF Reports, TypeOK, MgrTypeOK, ThreadTypeOK, AppState
  <2>4. ASSUME slaveTold[s] = "alive" PROVE active_slaves'[s] = active_slaves[s]
    <3>1. active_slaves[s] # {}  BY <2>4 DEF Reports
    <3>2. \A a, b \in Server \ {s} : a = b  BY DEF TwoServers
    <3>3. QED  BY <2>2, <2>3, <3>1, <3>2
  <2>5. ~Listless(s) => ~Listless(s)'  BY NodesGrow DEF LosesNone
  <2>6. QED  BY <1>1, <2>2, <2>3, <2>4, <2>5 DEF Reports, Uuids
<1>5. QED  BY <1>2, <1>3, <1>4, IncreaseReports, DiffReports, OwnTouches DEF Touches, LosesNone

-----------------------------------------------------------------------------
(* One step of the cluster                                                  *)

\* What another does to /master changes nothing of what a server holds.
LEMMA OthersSettled ==
    ASSUME TypeOK, NEW s \in Server, Acts(s), NEW t \in Server, t # s,
           master \subseteq master', LosesNone(t), Names(t), Reports(t)
    PROVE  (LosesNone(t) /\ Names(t) /\ Reports(t))'
<1>1. Still(t) /\ active_slaves'[t] = active_slaves[t] /\ slaveTold'[t] = slaveTold[t]
  BY OthersStill, OthersReport
<1>2. Children \subseteq Children'  BY DEF Children
<1>3. LosesNone(t)'  BY <1>1, <1>2 DEF Still, LosesNone, Entries
<1>4. Names(t)'  BY <1>1 DEF Still, Names
<1>5. Reports(t)'  BY <1>1 DEF Still, Reports, Listless, Waiting, Uuids
<1>6. QED  BY <1>3, <1>4, <1>5

\* A server that connects knows of nobody.
LEMMA ConnectSettles ==
    ASSUME TypeOK, NEW s \in Server, Blank(s), Connect(s), Reports(s)
    PROVE  (LosesNone(s) /\ Names(s) /\ Reports(s))'
<1>1. /\ UNCHANGED <<my_master_znode_id, compeleted_register, nodes, active_slaves, app, wat,
                     slaveTold>>
      /\ handler[s] = 0
  BY DEF Connect, toldVars
<1>2. wat[s] = WatIdle /\ nodes[s] = {} /\ my_master_znode_id[s] = NoZnode /\ Listless(s)
  BY <1>1 DEF Blank, Listless, Waiting, NoZnode, DelayRegister
<1>3. wat[s].pc = "idle" /\ wat[s].kids = {} /\ wat[s].map = {}  BY <1>2 DEF WatIdle
<1>4. LosesNone(s)'
  BY <1>1, <1>2, <1>3 DEF LosesNone, Entries, Dec, Erasing, NoZnode, DeleteByMyself
<1>5. Names(s)'  BY <1>1, <1>3 DEF Names
<1>6. Reports(s)'  BY <1>1 DEF Reports, Listless, Waiting, Uuids
<1>7. QED  BY <1>4, <1>5, <1>6

Settles(s) == LosesNone(s) /\ Names(s) /\ Reports(s)

\* What makes a report of a live slave true: nobody leaves, so that a manager finds no
\* loss, keeps every znode it has read, and has its slave among them when it reports it.
StayInv == LossInv /\ (errs = 0 => Steady /\ \A s \in Server : Settles(s))

LEMMA InitStay == ASSUME Init PROVE StayInv
<1>1. LossInv  BY InitLoss
<1>2. Steady
  <2>1. Children = {}  BY DEF Init, Children
  <2>2. QED  BY <2>1, FS_EmptySet DEF Init, Steady
<1>3. ASSUME NEW s \in Server PROVE Settles(s)
  <2>1. /\ wat[s] = WatIdle /\ nodes[s] = {} /\ my_master_znode_id[s] = NoZnode
        /\ active_slaves[s] = {} /\ slaveTold[s] = "none"
    BY DEF Init
  <2>2. /\ wat[s].pc = "idle" /\ wat[s].kids = {} /\ wat[s].map = {} /\ wat[s].set = {}
    BY <2>1 DEF WatIdle
  <2>3. LosesNone(s)
    BY <2>1, <2>2 DEF LosesNone, Entries, Dec, Erasing, NoZnode, DeleteByMyself
  <2>4. app[s].slaves = {}  BY DEF Init, AppIdle
  <2>5. Names(s) /\ Reports(s)  BY <2>1, <2>2, <2>4 DEF Names, Reports
  <2>6. QED  BY <2>3, <2>5 DEF Settles
<1>4. QED  BY <1>1, <1>2, <1>3 DEF StayInv

LEMMA NextKeepsStay ==
    ASSUME TwoServers, NobodyLeaves, NoneFollowsItself, StayInv, [Next]_vars,
           [OneAtATime]_vars
    PROVE  StayInv'
<1>1. LossInv'  BY NextKeepsLoss DEF StayInv
<1>2. CASE Next /\ OneAtATime /\ errs' = 0
  <2>1. Grounds /\ UNCHANGED errs
    BY <1>2, ErrsGrow DEF StayInv, LossInv, RegistrationInv, Grounds
  <2>2. errs = 0  BY <1>2, <2>1
  <2>3. Managers /\ Views /\ Steady /\ \A s \in Server : Settles(s)
    BY <2>2 DEF StayInv, LossInv, RegistrationInv
  <2>4. PICK s \in Server : Acts(s)  BY <1>2, <2>3, NoTimeout, NextActs
  <2>5. /\ Connect(s) \/ (Alive(s) /\ Alive(s)')
        /\ Steady' /\ master \subseteq master'
    BY <2>1, <2>3, <2>4, NobodyGoes DEF Settles, LosesNone
  <2>6. ASSUME NEW t \in Server PROVE Settles(t)'
    <3>1. CASE t # s
      BY <2>1, <2>3, <2>4, <2>5, <3>1, OthersSettled DEF Grounds, Settles
    <3>2. CASE t = s /\ Connect(s)
      BY <2>1, <2>3, <3>2, ConnectSettles DEF Grounds, Settles
    <3>3. CASE t = s /\ Alive(s) /\ Alive(s)'
      <4>1. OwnStep(s) /\ Losses(s) /\ Numbered
        BY <1>2, <2>1, <2>3, <2>4, <3>3 DEF OwnStep, Grounds, Managers, Views
      <4>2. LosesNone(s)'  BY <2>3, <2>5, <4>1, OwnLosesNone DEF Settles, Steady
      <4>3. Names(s)'  BY <2>3, <4>1, OwnNames DEF Settles, LosesNone
      <4>4. Reports(s)'  BY <2>3, <4>1, OwnReports DEF Settles, Steady
      <4>5. QED  BY <3>3, <4>2, <4>3, <4>4 DEF Settles
    <3>4. QED  BY <2>5, <3>1, <3>2, <3>3
  <2>7. QED  BY <1>1, <2>5, <2>6 DEF StayInv
<1>3. CASE UNCHANGED vars
  <2>1. UNCHANGED <<zkVars, treeVars, mgrVars, app, wat, toldVars, errs>>
    BY <1>3 DEF vars, boundVars
  <2>2. Steady' <=> Steady  BY <2>1 DEF zkVars, treeVars, mgrVars, Steady, Alive, Children
  <2>3. \A s \in Server : Settles(s)' <=> Settles(s)
    BY <2>1 DEF zkVars, mgrVars, toldVars, Settles, LosesNone, Entries, Children, Names, Reports,
       Listless, Waiting, Uuids
  <2>4. QED  BY <1>1, <2>1, <2>2, <2>3 DEF StayInv
<1>4. QED  BY <1>1, <1>2, <1>3 DEF StayInv

\* While nobody leaves, no call is lost and no server whose registration is delayed is
\* asked to register again before it has, a master that was told that its only slave lives
\* has it in active_slaves, from which its end will be reported: whenever the slave started
\* replication or gave it up, and whichever of nodes_increase, repl_watcher_fn and
\* get_syncpoint saw it first.
THEOREM AliveIsActive ==
    TwoServers /\ NobodyLeaves
    => (Spec /\ []NoneFollowsItself /\ [][OneAtATime]_vars => [](errs = 0 => AliveMeansActive))
<1> SUFFICES ASSUME TwoServers, NobodyLeaves
             PROVE  Spec /\ []NoneFollowsItself /\ [][OneAtATime]_vars
                    => [](errs = 0 => AliveMeansActive)
  OBVIOUS
<1>1. Init => StayInv  BY InitStay
<1>2. StayInv /\ NoneFollowsItself /\ [Next]_vars /\ [OneAtATime]_vars => StayInv'
  BY NextKeepsStay
<1>3. StayInv => (errs = 0 => AliveMeansActive)
  BY DEF StayInv, Settles, Reports, AliveMeansActive
<1>4. QED  BY <1>1, <1>2, <1>3, PTL DEF Spec

=============================================================================
