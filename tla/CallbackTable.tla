---------------------------- MODULE CallbackTable ----------------------------
(***************************************************************************)
(* The functions of mysqld the library calls back, one pointer for each in *)
(* its data segment, and the mutex lock_cb that guards them.  A plug-in    *)
(* uses them as the unit test does: under the mutex it leaves a function   *)
(* that sets them all, and which is called when a pointer is first needed. *)
(* (A plug-in that calls some of the setters alone, which take no lock, is *)
(* not modelled.)  The threads of a server race for the mutex; it is free  *)
(* while a callback runs, which may use the library itself.                *)
(***************************************************************************)
EXTENDS Integers

CONSTANTS
    Server,
    Thread,        \* of a server: application, completion, mysqld's own ...
    Callback       \* the names of the callbacks

VARIABLES
    installer,     \* a plug-in has left its set_cb_funcs
    table,         \* the pointers that are not NULL
    lock_cb,       \* the thread that holds it, or "free"
    cb,            \* program counter and callback of each thread
    role           \* what the callbacks last told mysqld: "none", "master", "standby"

CbPc == {"idle", "lock", "install", "test", "retest", "call", "my_lock", "my_unlock"}
NoCall == [pc |-> "idle", f |-> "none"]
CbState == [pc : CbPc, f : Callback \cup {"none"}]

TableTypeOK ==
    /\ installer \in [Server -> BOOLEAN]
    /\ table \in [Server -> SUBSET Callback]
    /\ lock_cb \in [Server -> Thread \cup {"free"}]
    /\ cb \in [Server -> [Thread -> CbState]]
    /\ role \in [Server -> {"none", "master", "standby"}]

TableInit ==
    /\ installer = [s \in Server |-> FALSE]
    /\ table = [s \in Server |-> {}]
    /\ lock_cb = [s \in Server |-> "free"]
    /\ cb = [s \in Server |-> [t \in Thread |-> NoCall]]
    /\ role = [s \in Server |-> "none"]

At(s, t, pc) == cb[s][t].pc = pc
Goto(s, t, pc) == cb' = [cb EXCEPT ![s][t].pc = pc]
Done(s, t) == cb' = [cb EXCEPT ![s][t] = NoCall]

\* A callback begins.
Begin(s, t, f) ==
    /\ At(s, t, "idle")
    /\ cb' = [cb EXCEPT ![s][t] = [pc |-> "lock", f |-> f]]
    /\ UNCHANGED <<installer, table, lock_cb, role>>

\* pthread_mutex_lock, and a look at the pointer.
Lock(s, t) ==
    /\ At(s, t, "lock") /\ lock_cb[s] = "free"
    /\ lock_cb' = [lock_cb EXCEPT ![s] = t]
    /\ Goto(s, t, IF cb[s][t].f \in table[s] THEN "test" ELSE "install")
    /\ UNCHANGED <<installer, table, role>>

\* set_all_cb_funcs: the plug-in's function, if there is one, calls every setter.
Install(s, t) ==
    /\ At(s, t, "install")
    /\ table' = [table EXCEPT ![s] = IF installer[s] THEN Callback ELSE @]
    /\ Goto(s, t, "test")
    /\ UNCHANGED <<installer, lock_cb, role>>

\* repl_master_dead_cb asks whether the address of repl_master_dead_cb is not NULL,
\* where the others ask for the pointer.
Set_Never(s, f) == TRUE                          \* mutant: as if all asked like that one
Set(s, f) == f \in table[s] \/ f = "repl_master_dead"

\* The mutex is given back before the callback, by whoever holds it.
Unlock_Kept(s) == UNCHANGED lock_cb              \* mutant: it is held over the callback
Unlock(s) == lock_cb' = [lock_cb EXCEPT ![s] = "free"]

Test(s, t) ==
    /\ At(s, t, "test")
    /\ Unlock(s)
    /\ IF cb[s][t].f = "become_master" THEN Goto(s, t, "retest")
       ELSE IF Set(s, cb[s][t].f) THEN Goto(s, t, "call") ELSE Done(s, t)
    /\ UNCHANGED <<installer, table, role>>

\* become_master_cb has unlocked already when it looks, and then unlocks again: a
\* mutex that may be another thread's by now.
Retest(s, t) ==
    /\ At(s, t, "retest")
    /\ lock_cb' = [lock_cb EXCEPT ![s] = "free"]
    /\ IF Set(s, cb[s][t].f) THEN Goto(s, t, "call") ELSE Done(s, t)
    /\ UNCHANGED <<installer, table, role>>

\* mysqld does what it is told; it may take the mutex itself, as a thread of its own may.
Call(s, t) ==
    /\ At(s, t, "call") /\ cb[s][t].f \in table[s]
    /\ role' = [role EXCEPT ![s] = CASE cb[s][t].f = "become_master" -> "master"
                                     [] cb[s][t].f = "become_standby" -> "standby"
                                     [] OTHER -> @]
    /\ Done(s, t) \/ Goto(s, t, "my_lock")
    /\ UNCHANGED <<installer, table, lock_cb>>

PlugIn(s, t) ==
    /\ At(s, t, "idle")
    /\ Goto(s, t, "my_lock")
    /\ UNCHANGED <<installer, table, lock_cb, role>>

\* A plug-in calls my_lock_cb, then set_func_set_cb_1 or set_func_set_cb_2, then
\* my_unlock_cb; the function in the middle takes no lock by itself.
MyLock(s, t) ==
    /\ At(s, t, "my_lock") /\ lock_cb[s] = "free"
    /\ lock_cb' = [lock_cb EXCEPT ![s] = t]
    /\ Goto(s, t, "my_unlock")
    /\ UNCHANGED <<installer, table, role>>

MyUnlock(s, t) ==
    /\ At(s, t, "my_unlock")
    /\ installer' = [installer EXCEPT ![s] = TRUE]
    /\ lock_cb' = [lock_cb EXCEPT ![s] = "free"]
    /\ Done(s, t)
    /\ UNCHANGED <<table, role>>

Callback_Step(s, t) ==
    \/ Lock(s, t) \/ Install(s, t) \/ Test(s, t) \/ Retest(s, t)
    \/ Call(s, t) \/ MyLock(s, t) \/ MyUnlock(s, t)

-----------------------------------------------------------------------------
\* Although become_master_cb may free a mutex another thread holds, no thread calls a
\* pointer that is NULL; the one that can is repl_master_dead_cb.
CalledIsSet ==
    \A s \in Server, t \in Thread :
        At(s, t, "call") /\ cb[s][t].f # "repl_master_dead" => cb[s][t].f \in table[s]
=============================================================================
