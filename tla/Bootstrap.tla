------------------------------ MODULE Bootstrap ------------------------------
(***************************************************************************)
(* zm_connect: a server opens a session and, before it is given a handle,  *)
(* makes sure that the three persistent znodes all servers share exist.    *)
(* Servers that start together on an empty service race for them: it asks  *)
(* with one call whether a znode exists and creates it with the next, and  *)
(* who loses the race is refused.                                          *)
(***************************************************************************)
EXTENDS Integers, FiniteSets

CONSTANTS
    Server,
    MaxErrs        \* bound: calls to ZooKeeper that fail

ASSUME ErrsAssumption == MaxErrs \in Nat

VARIABLES
    tree,          \* which of the three znodes exist
    conn,          \* of a server: what its handle is, and where zm_connect stands
    refused,       \* history: how often zm_connect returned NULL
    skipped,       \* history: a zoo_exists failed under the zm_connect that gave the handle
    connects,      \* bound: how often a server may still call zm_connect
    errs

connectVars == <<tree, conn, refused, skipped, connects, errs>>

\* The cluster, and below it master and replication.
Level == 1..3
Parent(l) == l = 1 \/ 1 \in tree

First_Master == 2                               \* mutant: the cluster is not made first
First == 1

ConnPc == {"none", "exists", "create", "handle", "refused", "closing", "standby", "dead"}
NoHandle == [pc |-> "none", level |-> 1]
ConnState == [pc : ConnPc, level : Level]

BootstrapTypeOK ==
    /\ tree \subseteq Level
    /\ conn \in [Server -> ConnState]
    /\ refused \in [Server -> Nat] /\ skipped \in [Server -> BOOLEAN]
    /\ connects \in [Server -> Nat] /\ errs \in 0..MaxErrs

BootstrapInit ==
    /\ tree = {}
    /\ conn = [s \in Server |-> NoHandle]
    /\ refused = [s \in Server |-> 0] /\ skipped = [s \in Server |-> FALSE]
    /\ errs = 0

Ok == UNCHANGED errs
Drop == errs < MaxErrs /\ errs' = errs + 1

\* zm_connect returns NULL.  The manager, its session and its completion thread stay.
Refuse(s) ==
    /\ conn' = [conn EXCEPT ![s].pc = "refused"]
    /\ refused' = [refused EXCEPT ![s] = @ + 1]

\* mutants: the last znode is left out; there is one more
Onward_Skip(s) ==
    /\ conn' = [conn EXCEPT ![s] = IF @.level = 2 THEN [pc |-> "handle", level |-> 3]
                                   ELSE [pc |-> "exists", level |-> @.level + 1]]
    /\ UNCHANGED refused
Onward_Past(s) ==
    /\ conn' = [conn EXCEPT ![s] = IF @.level = 4 THEN [pc |-> "handle", level |-> 3]
                                   ELSE [pc |-> "exists", level |-> @.level + 1]]
    /\ UNCHANGED refused

\* The znode of this level is there, or is taken to be: on to the next, or to the handle.
Onward(s) ==
    /\ conn' = [conn EXCEPT ![s] = IF @.level = 3 THEN [pc |-> "handle", level |-> 3]
                                   ELSE [pc |-> "exists", level |-> @.level + 1]]
    /\ UNCHANGED refused

\* zookeeper_init
Connect(s) ==
    /\ conn[s].pc \in {"none", "refused"}
    /\ connects[s] > 0 /\ connects' = [connects EXCEPT ![s] = @ - 1]
    /\ skipped' = [skipped EXCEPT ![s] = FALSE]
    /\ \/ Ok /\ conn' = [conn EXCEPT ![s] = [pc |-> "exists", level |-> First]] /\ UNCHANGED refused
       \/ Drop /\ Refuse(s)
    /\ UNCHANGED tree

\* zoo_exists: any answer but ZNONODE is taken for a yes.
Connect_Exists(s) ==
    /\ conn[s].pc = "exists"
    /\ \/ Ok /\ conn[s].level \in tree /\ Onward(s) /\ UNCHANGED skipped
       \/ /\ Ok /\ conn[s].level \notin tree
          /\ conn' = [conn EXCEPT ![s].pc = "create"]
          /\ UNCHANGED <<refused, skipped>>
       \/ Drop /\ Onward(s) /\ skipped' = [skipped EXCEPT ![s] = TRUE]
    /\ UNCHANGED <<tree, connects>>

\* zoo_create: any answer but ZOK ends zm_connect, that the znode is there by now too.
Creatable(l) == l \notin tree /\ Parent(l)

Connect_Create(s) ==
    /\ conn[s].pc = "create"
    /\ LET l == conn[s].level
       IN  \/ Ok /\ Creatable(l) /\ tree' = tree \cup {l} /\ Onward(s)
           \/ Ok /\ ~Creatable(l) /\ Refuse(s) /\ UNCHANGED tree
           \/ Drop /\ Refuse(s) /\ (UNCHANGED tree \/ (Creatable(l) /\ tree' = tree \cup {l}))
    /\ UNCHANGED <<skipped, connects>>

Connect_Step(s) == Connect_Exists(s) \/ Connect_Create(s)

-----------------------------------------------------------------------------
(* Safety                                                                   *)

\* The paths register_server uses are there: who has a handle, and was answered every
\* time it asked, has the whole tree, whoever created it.
HandleMeansTree == \A s \in Server : conn[s].pc = "handle" /\ ~skipped[s] => tree = Level

\* Losing the race is not lost for ever: a server is refused once for each znode
\* another created under it, and for each call that failed, and a retry is worth while.
RefusedAtMostThrice == \A s \in Server : refused[s] <= Cardinality(Level) + errs

\* Of servers that race, one gets its handle: never are all refused, unless calls failed.
SomeoneConnects == errs = 0 => \E s \in Server : conn[s].pc # "refused"
=============================================================================
