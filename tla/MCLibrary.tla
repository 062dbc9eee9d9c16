------------------------------ MODULE MCLibrary ------------------------------
(* An instance of Library for TLC: the callbacks that differ, and one that   *)
(* stands for set_syncpoint_cb, repl_slave_dead_cb, repl_slave_alive_cb and  *)
(* repl_master_alive_cb, which are alike.                                    *)
EXTENDS Library
CONSTANTS a1, a2

Callbacks == {"become_master", "become_standby", "repl_master_dead", "like_repl_slave_dead"}
Threads == {"application", "completion", "left behind", "mysqld"}

\* The servers race for the tree; or one of them has threads that race for the mutex,
\* with a session left behind if its first zm_connect was refused.
Only(n, m) == [s \in Server |-> IF s = a1 THEN n ELSE m]
RaceOrCall == {[connects |-> Only(4, 3), callbacks |-> Only(0, 0)],
               [connects |-> Only(2, 0), callbacks |-> Only(3, 0)]}
=============================================================================
