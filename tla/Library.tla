------------------------------- MODULE Library -------------------------------
(***************************************************************************)
(* libzk_manager.so as mysqld sees it: handles from zm_connect, taken back *)
(* by zm_disconnect, and the callbacks that come while there are any.  The *)
(* completion thread of a handle calls back until it is closed; that of a  *)
(* session a refused zm_connect left behind goes on.                       *)
(***************************************************************************)
EXTENDS Bootstrap

CONSTANTS
    Thread, Callback,
    Plans         \* bounds: what each server may do: how many calls of zm_connect, and how
                  \* many callbacks and plug-ins

\* The threads and the callbacks this module names.
ASSUME ThreadAssumption ==
    {"application", "completion", "left behind", "mysqld"} \subseteq Thread
ASSUME CallbackAssumption ==
    {"become_master", "become_standby", "repl_master_dead"} \subseteq Callback
ASSUME PlanAssumption == Plans \subseteq [connects : [Server -> Nat], callbacks : [Server -> Nat]]

VARIABLES
    installer, table, lock_cb, cb, role,
    callbacks     \* how many callbacks and plug-ins a server may still start

INSTANCE CallbackTable

callbackVars == <<installer, table, lock_cb, cb, role>>
vars == <<connectVars, callbackVars, callbacks>>

TypeOK == BootstrapTypeOK /\ TableTypeOK /\ callbacks \in [Server -> Nat]

Init ==
    /\ BootstrapInit /\ TableInit
    /\ \E plan \in Plans : connects = plan.connects /\ callbacks = plan.callbacks

Count(s) == callbacks[s] > 0 /\ callbacks' = [callbacks EXCEPT ![s] = @ - 1]
Lives(s) == conn[s].pc # "dead"

\* A manager calls back from the application thread, inside register_server, start_repl
\* and stop_repl, and from the completion thread, inside the watchers, which of them it likes.
ManagerCalls(s) == conn[s].pc = "handle" /\ \E f \in Callback : Begin(s, "application", f)
WatcherCalls(s) == conn[s].pc = "handle" /\ \E f \in Callback : Begin(s, "completion", f)

\* For a session that was refused fn_watcher_g calls back, and that the server is to stand by.
SessionExpired(s) == refused[s] > 0 /\ Begin(s, "left behind", "become_standby")

Starts(s) ==
    /\ Lives(s) /\ Count(s)
    /\ ManagerCalls(s) \/ WatcherCalls(s) \/ SessionExpired(s) \/ PlugIn(s, "mysqld")
    /\ UNCHANGED connectVars

\* A thread that has begun goes on; if the pointer it calls is NULL mysqld dies.
NullCall(s, t) ==
    /\ At(s, t, "call") /\ cb[s][t].f \notin table[s]
    /\ conn' = [conn EXCEPT ![s].pc = "dead"]
    /\ UNCHANGED <<tree, refused, skipped, connects, errs, callbackVars>>

Goes(s, t) ==
    /\ Lives(s)
    /\ NullCall(s, t) \/ (Callback_Step(s, t) /\ UNCHANGED connectVars)
    /\ UNCHANGED callbacks

Connects(s) ==
    /\ Connect(s) \/ Connect_Step(s)
    /\ UNCHANGED <<callbackVars, callbacks>>

\* zm_disconnect: zookeeper_close lets the completion thread end what it does ...
Disconnect(s) ==
    /\ conn[s].pc = "handle" /\ At(s, "application", "idle")
    /\ conn' = [conn EXCEPT ![s].pc = "closing"]
    /\ UNCHANGED <<tree, refused, skipped, connects, errs, callbackVars, callbacks>>

\* mutant: the completion thread is not waited for
Joined_Not(s) == TRUE
Joined(s) == At(s, "completion", "idle")

\* ... then mysqld is told to stand by, and the manager is deleted.
Disconnect_Standby(s) ==
    /\ conn[s].pc = "closing" /\ Joined(s)
    /\ Begin(s, "application", "become_standby")
    /\ conn' = [conn EXCEPT ![s].pc = "standby"]
    /\ UNCHANGED <<tree, refused, skipped, connects, errs, callbacks>>

Disconnect_Done(s) ==
    /\ conn[s].pc = "standby" /\ At(s, "application", "idle")
    /\ conn' = [conn EXCEPT ![s] = NoHandle]
    /\ UNCHANGED <<tree, refused, skipped, connects, errs, callbackVars, callbacks>>

Next ==
    \E s \in Server :
        \/ Connects(s) \/ Starts(s)
        \/ Disconnect(s) \/ Disconnect_Standby(s) \/ Disconnect_Done(s)
        \/ \E t \in Thread : Goes(s, t)

\* A thread that has begun a callback is scheduled; nothing has to begin.
Spec == Init /\ [][Next]_vars /\ \A s \in Server, t \in Thread : WF_vars(Goes(s, t))

-----------------------------------------------------------------------------
\* When zm_disconnect has returned mysqld is no master, whatever the completion thread
\* was about to tell it: the call that closes the session comes before the callback.
DisconnectedStandsBy ==
    \A s \in Server : conn[s].pc = "none" => role[s] # "master"

\* Every callback returns to the library, also one that uses the library's own mutex:
\* no thread waits for itself, and none for a mutex nobody will give back.
CallbackReturns ==
    \A s \in Server, t \in Thread : ~At(s, t, "idle") ~> At(s, t, "idle") \/ ~Lives(s)
=============================================================================
