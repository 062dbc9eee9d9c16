# zk_manager in TLA+

`libzk_manager` is linked into mysqld. It keeps one znode per server below
`/<cluster>/master` in ZooKeeper, elects a master among the servers, watches who
comes and goes, and promotes a slave or takes it out when its master dies. These
modules model that protocol, TLC checks them on small clusters, and TLAPS proves
theorems for every value of the constants. Paths and line numbers are those of
`src/zk_manager.cc` unless another file is named.

## 1. The system

### Components

| component | state | operations | here |
|---|---|---|---|
| session and registration, `zk_manager.cc` 387-499, 595-767 | `handler`, `i_am_master`, `compeleted_register`, `my_master_znode_id`, `nodes`, `lock` | `connect`, `register_server`, `disconnect`, `fn_watcher_g` | `Bootstrap`, `Registration`, `Library` |
| watcher of `/master`, 97-384 | the copies and flags local to `nodes_increase` and `nodes_discrease`; `nodes`, `active_slaves` | `master_watcher_fn`, `nodes_increase`, `nodes_discrease` | `MasterWatch` |
| replication subtree, 24-93, 502-592, 772-919 | `/replication/<uuid>` (mode, endpoints) and `/replication/<uuid>/<slave>` (sync point); `active_slaves` | `start_repl`, `stop_repl`, `rm_repl`, `change_repl_mode`, `get_syncpoint`, `repl_watcher_fn` | `Replication`, `ReplRecord` |
| ZooKeeper (external) | znodes, sessions, watches, events on their way | what the `zoo_*` calls above need | `ZkCluster` |
| callback table, `utility.cc` 60-267, 383-391 | seven function pointers, `set_cb_funcs`, `lock_cb` | `set_*_cb`, `*_cb`, `my_lock_cb` | `CallbackTable` |
| C interface, `utility.cc` 269-406 | `zk_manager_p` with its magic number | `zm_*` | `Library`; what only forwards is left out |
| `syncPoint`, `utility.cc` 9-28 | file, position | `operator<` | `ReplRecord` |
| `cjson` over the vendored `jsmn` | a set of values for each key | `dump`, `load` | `CJson` |
| endpoint cipher, `ifaddr.cc`, `crc32.cc` | none | lists interfaces, hashes | `GetEndpointsCipher` of `ReplRecord` |

### Who talks to whom

A manager has two threads. The *application thread* of mysqld calls the `zm_*`
functions. The *completion thread* of the ZooKeeper client runs the watchers: it
takes events one by one from the handle's queue, and calls ZooKeeper
synchronously from inside a watcher. Both share the fields of the manager. The
manager's mutex is held by `register_server` from its start to its end and by
the body of `nodes_increase` and `nodes_discrease`, but

* both functions copy `i_am_master` and `my_master_znode_id` *before* they take it;
* `master_watcher_fn` compares and changes `nodes` without it;
* `get_syncpoint` and `repl_watcher_fn` change `active_slaves` without it.

Servers meet only through ZooKeeper. A child watch fires once; the next
`zoo_wget_children` sets it again. The ephemeral znode below `/master` lives as
long as the session; the znodes below `/replication` persist.

### What is hard, and what makes the parts right

| hard behaviour | what should hold |
|---|---|
| two servers register at once, or one twice, or delayed | one of them sees itself as the first child: `ElectedUnique` |
| the completion thread acts between two calls of `register_server` | `AtMostOneRegisteredMaster`, `MasterCameFirst`, `OneZnodePerSession`, `DeregisteredStaysOut`, `DeregisteredIsNotMaster` |
| a change of `/master` between an event and the list that sets the watch again | `WatchNeverLost` |
| crashes, sessions that end late or under a live server | `AtMostOneRegisteredMaster`, `PromotedAfterLoss`, `FailoverCompletes`, `ExpiredStandsBy` |
| a slave that left and must come back; a server that waits for another | `RegistersAgain`, `WaitingRegisters` |
| calls that fail half way, with the lock held | `LockHeld`, `LockReleased` |
| slaves followed by sizes of sets, or not at all | `SlaveFollowed`, `AliveMeansActive`, `SlaveHeard` |
| records that pass a hash, a dump, a 100-byte buffer and a parser | `RecordsSurvive`, `FoundIfRead`, `ModeKept`, `ReadsAll` |
| sync points read one by one while the slaves go on, and compared as text | `PointsReflectOrder`, `AnswerCovers` |
| servers that ask for a shared znode with one call and create it with the next | `HandleMeansTree`, `RefusedAtMostThrice`, `SomeoneConnects` |
| a mutex unlocked twice, callbacks under way while the handle is closed | `CalledIsSet`, `CallbackReturns`, `DisconnectedStandsBy` |

`PROJECT.json` lists every hazard at its line, with the properties that cover it
or the reason why none does.

## 2. Modules

    ZkCluster            constants, state, the service, the outcome of a call
      Registration       the application thread: register_server, disconnect; crash, timeout
      MasterWatch        the completion thread on /master; fn_watcher_g
      Replication        start_repl, rm_repl, change_repl_mode, get_syncpoint; repl_watcher_fn
        ZkManager        the cluster: Next, fairness, the properties
          Ownership, Tickets     what the cluster, and register_server, promise
          MCZkManager    instances for TLC
          ZkManagerProofs    type correctness
            ElectionProofs   one elected master
              TicketProofs   register_server implements Tickets
              ManagerProofs  what each action does to its own manager; its lock
                RegistrationProofs   the znode of a session, and its watch
                  TakeoverProofs     losses, one master, Ownership, the report of a slave

    CJson                the text of a record: dump, jsmn, load
      ReplRecord         the records and sync points below /replication, read and written
        MCReplRecord     instances for TLC
        RecordProofs     its types, the search, the mode, the answer

    Bootstrap            zm_connect: the session and the three persistent znodes
    CallbackTable        the pointers, lock_cb and the *_cb functions
      Library            both, with zm_disconnect and the threads that call back
        MCLibrary        an instance for TLC
        LibraryProofs    its types and five of its invariants

The three groups model the same program at three grains. `ZkManager` takes from
`/replication` the edges and the modes; `ReplRecord` says what bytes hold them and
what is found there, and has no watches. `ZkManager` begins where `connect` has
succeeded and takes a callback for one step; `Library` has the calls of
`connect`, and the steps of a callback.

### The cluster

**State.** `handler[s]` is the session of the server's handle, 0 when there is
no manager. `i_am_master`, `compeleted_register`, `my_master_znode_id`, `nodes`,
`active_slaves` and `lock` are the fields of the class (`utility.h`), named as
there. A znode below `/master` is its sequence number, the server written into
it and its session; `my_master_znode_id` is a sequence number, or
`DelayRegister` / `DeleteByMyself` for the strings `"delay_register"` and
`"delete_by_myself"`. An edge `<<m, s>>` is the znode `/replication/m/s`. `app`
and `wat` are the two threads: a program counter and the locals that outlive a
call. `role` and `slaveTold` are what the callbacks last told mysqld. Two history
variables: `elected` is the first child by which `register_server` made the
server master, 0 after anything else has changed `i_am_master`; `withdrew` are
the servers that, since they connected, set about leaving `/master` (the
`zoo_delete` at 189 and 217).

**Actions.** One action per call that reaches ZooKeeper, with the local work
that follows it, so that the other thread and the other servers may run between
any two calls. An action is named after the function and the call:
`RegisterServer_Create` is the `zoo_create` of `register_server`. Steps are
merged in these cases, where the others can hardly tell:

* taking the lock, and the first call under it;
* in `register_server` on a server's own `/replication` znode, the `zoo_get` and the
  `zoo_set` (or `zoo_create`) and `zoo_wget_children` after it: a session that ends between
  them is reached only as a call that fails, within the budget of lost calls;
* the two `zoo_exists` of a `nodes_*` function, one after the other on znodes that only
  administrative calls change; the copies made before them are a step of their own (`Enter`);
* the reads of all children by `master_watcher_fn`, with every map that some
  order of reads and departures can give (`Read`);
* `zoo_get` of the mode with the `become_master_cb` after it;
* `start_repl`, `rm_repl` and `change_repl_mode`, which write one znode that no other server
  writes. `get_syncpoint` is not one step: it lists the slaves (530), then takes them for
  active and reads their points one by one (547-550), while they come and go and
  `repl_watcher_fn` follows them.

The early return of `register_server` when `compeleted_register` is set
changes nothing and is no action.

**Outcomes of a call.** `Ok`: done, and the answer comes. `Drop`: the connection
is lost; the action says with and without the effect. `Err`: no effect; always so
when the session is over, otherwise a `Drop`. At most `MaxErrs` drops in a
behaviour; one drop may fail several of the reads merged into one step.

**Undefined behaviour.** `nodes` is used by both threads without a lock: the
model interleaves the accesses. After `nodes.erase(it)` the loops of
`master_watcher_fn` (377) and `repl_watcher_fn` (82) advance the erased
iterator: the model lets the loop go on or end. `children`, when the
`zoo_get_children` at 681 fails, holds anything: the outcome is free.

**Assumed.** One application thread per server. The persistent znodes of the
cluster exist (`Bootstrap`). A record fits the 100-byte buffers
(`ReplRecord` has those that do not). mysqld may refuse
`become_master_cb`. Administrative calls come from a manager that has registered
or delayed its registration, because the paths they build use `my_uuid`. An endpoint stands
for the server that has it.

**What it implements.** `Ownership` has members and owners: a server becomes the
owner when none is, by election or by takeover. The members are the servers whose
session lives and owns a znode below `/master` (`Registered`), the owners (`Masters`) those
of them with `i_am_master` that are not in `withdrew`; `OwnsAlone` is `Ownership!Spec`
under that mapping.
`Tickets` is an election by numbers that are drawn once, where looking for the
lowest and being elected is one step; in the code it is a list (707), a sort
(730), a read (733) and a comparison (737), with other servers in between.
`ElectsByTicket` maps the tickets to the znodes below `/master`, the next number
to that of the service, and `elected` to the history variable of that name.

### The records

`record[s]` is the object whose dump `/replication/s` holds, `syncpoint[m][s]`
the text of `/replication/m/s`, `mysql_endpoints[s]` the ciphers that the manager
hashed, `binlog[s]` how far the server has read: an index of `Log`. The
application threads of the servers call `register_server`, `change_repl_mode`,
`start_repl`, `stop_repl`, `rm_repl` and `get_syncpoint`; the watchers do not
touch what is modelled here. Every znode has one writer, so a call's own reads
and writes of it are one step; `find_master_repl_znode` and `get_syncpoint`
read the znodes of others, one step each, in any order.

A text is a sequence of marks, the six signs of JSON and whole strings, with
their lengths in bytes: so the model knows where a buffer cuts a record, and
that a string the end falls in has no closing quote, without its characters.
`Parse` and `Pairs` follow `jsmn_parse` and `cjson::load` mark by mark and token by
token. `load` looks at the token after the last one (line 54 of `cjson.cc`,
uninitialised memory); it is taken for no array. `crc32` is the constant
`Cipher`, assumed to tell the endpoints apart; hosts with the same crc32, or
the same name and port, would find each other's records. A sync
point is the digits of a file name and of a position. The text of `stop_repl`,
written with a length of 100, reads the same as that of `start_repl`: the zeros end the string.
The byte after the buffer, set to zero when a znode fills it (`buffer[buffer_len]= 0`
at 630, 553 and 796), is undefined behaviour that is left out. `*my_list.begin()` of an
empty list (561) is any point or none.

### The library

`tree` is which of the three persistent znodes exist; `conn[s]` where `zm_connect`
stands, at which of them, or what its handle is. `table[s]` are the pointers that are
not NULL, `installer[s]` says that a plug-in left its `set_cb_funcs`, `cb[s][t]` is the
program counter and callback of a thread. The threads that call back are the
application thread, the completion thread, and the completion thread of a session
that a `zm_connect` which returned NULL did not close; `mysqld` is a thread of a
plug-in that takes `lock_cb` by `my_lock_cb`. `lock_cb` is not recursive, and an
unlock frees it whoever holds it: what the default mutex of the platform does for the
second unlock of `become_master_cb`, which POSIX leaves undefined. A plug-in is the one of
the unit test (`src/unittest.cc` 68-119): under `my_lock_cb` it leaves a function with
`set_func_set_cb_1`, and that function calls all seven `set_cb_*`. `DisconnectedStandsBy` and
`NoHandleNoMaster` rest on that; see section 5. Four callbacks
are alike, and one name stands for them. A call of a pointer that is NULL ends mysqld.

## 3. What TLC checks

`CHECK_DEADLOCK FALSE` is right in all runs: when every server has left, or the
bound on sessions or calls is used up, nothing has to happen.

| run | instance | faults and bounds | shows |
|---|---|---|---|
| `failover` | 2 servers, slave sync or async | 4 sessions, 1 crash, the master may leave, 2 tries to delete | `AtMostOneRegisteredMaster`, `WatchNeverLost`, `DeregisteredStaysOut`, `OneZnodePerSession`, `OwnsAlone` |
| `takeover` | 3, settled, `a3` follows `a2` follows `a1`, all sync, fair | 1 crash, 1 expiry, `a1` and `a2` may leave | `MasterCameFirst`, `PromotedAfterLoss`, `FailoverCompletes`, `ExpiredStandsBy` |
| `slaves` | 2, `a1` starts for the first time, fair | 3 administrative calls, nobody leaves | `AliveMeansActive`, `SlaveFollowed` |
| `lost_calls` | 2, settled, async, fair | 3 sessions, 1 lost call, 1 administrative call | `LockHeld`, `LockReleased` |
| `election` | 2, first start, one delays or not, may call twice, fair | the other may leave | `TypeOK`, `ElectedUnique`, `WaitingRegisters`, `ElectsByTicket` |
| `records` | 3: a master with one address, seven, or seven of a longer record; two slaves | 1 or 2 calls each, 1 lost call, 3 places in the binlog | `TypeOK`, `RecordsSurvive`, `PointsReflectOrder`, `FoundIfRead`, `AnswerCovers`, `ModeKept` |
| `library` | 2 race for the tree with 3 or 4 tries each; or one with 2 handles and 3 callbacks or plug-ins | 1 failed call | `TypeOK`, `HandleMeansTree`, `RefusedAtMostThrice`, `SomeoneConnects`, `CalledIsSet`, `DisconnectedStandsBy`, `CallbackReturns` |

**Bounds of the cluster.** A session is a life of a server, so three sessions for two servers
let one leave and return, and four let it do so twice. One crash, expiry or lost call is put
at every point of the behaviour; two independent ones need a second recovery,
which the code does not treat differently. Two servers are the master and the
slave that every decision of `nodes_increase` and `nodes_discrease` is about; in the
chain of `takeover` each end has a third server, neither its master nor its slave, whose
going it must not confuse with theirs. `DeleteTries`
is 11 in the code (190): a retry does the same as the one before, so 1 or 2 show
first, middle and last. `SettledInit` is the state after the servers registered
one after the other: it spares a run the interleavings that `failover` and
`election` explore. `CleanRestart` lets a server reconnect only when its old
znode is gone, as an operator would wait for the session timeout; without it the
code takes its own old znode for itself (737), and TLC finds two registered masters
in `failover` (a listed hazard). `ElectedUnique` and `PromotedAfterLoss` are proved without it.
In `slaves` `a2` has been registered before, so that it sets its watch as a master; of a
master that has not, `unheard_slave` shows what happens. Three administrative calls let the slave start, leave
or come back while `get_syncpoint` runs.

**Bounds of the records.** `BufferLen` is the code's 100. With six ciphers of seven
digits (`%x` drops a leading zero) and one of eight, the record of seven addresses in mode
async is 100 bytes long, the last that fits; in mode sync it is 99. Seven others make it 101
and 100: the former is cut, does not load, and the next `register_server` sets the mode
to sync (648-650). `Log` crosses a file that goes from 9 to 10 and a
position that goes from 9 to 10, where a comparison of text would err;
`FileWidth` is the code's silent condition that file names have equally many
digits. The servers of `Recorded` have registered; a call of `register_server` is a new
life of one. `Few` gives the slave `a2` a second call, to stop or leave after it
started; `a3` starts too.

**Bounds of the library.** `Plans` lets either the servers race for the tree, without
callbacks, or one server alone use callbacks: neither part reads what the other
changes, but for the handle. Three znodes, and one failed call, allow four
refusals of one server, so four tries reach `RefusedAtMostThrice`. A second
handle makes a session left behind and a completion thread at once; three callbacks
put one in each of three threads.

**Fairness** (`Fairness`, and `Spec` of `Library`). Weak fairness for each thread of each server once it
has begun a function or a callback, since the operating system schedules it and the calls
return; and for the end of a session whose server is gone, since ZooKeeper times
it out. Nothing else: no server has to connect, register, leave or fail, no
callback has to begin, and no session has to expire under a live server.

**Disagreements.** Five runs end in the violation of what a comment or a test says:

| run | property | what the trace shows |
|---|---|---|
| `failed_read` | `PromotedAfterLoss` | a `zoo_get` that loses its connection (350) makes a live master look gone, and its slave takes over |
| `missed_return` | `RegistersAgain` | one znode left, one came: the sizes at 356 and 369 are equal and nobody calls `nodes_increase` |
| `stale_copy` | `DeregisteredIsNotMaster` | `i_am_master` is copied at 112 before the lock at 144; elected in between, the server leaves `/master` as master, and registers again as one when its master returns |
| `unheard_slave` | `SlaveHeard` | two servers register on a fresh cluster and one starts replication: `register_server` sets its watch only where it finds its `/replication` znode (645), not where it creates it (632), so the master is never told it has a slave, which the unit test expects |
| `short_buffer` | `ReadsAll` | `buffer_len` is set once (776) and shrinks with each `zoo_get` (793): after a record in mode sync, one in mode async is cut by a byte and the search ends |

**What the conditions leave out.** Some properties hold only as stated, and TLC
violates them otherwise. `FailoverCompletes` is about a standby whose `register_server` has returned, with the event
still to come, and that has missed nothing but the loss of its master (`Orphaned`). When the
master leaves while `register_server` has cleared `nodes` (705)
and read only that master into it, the event's list of one is
compared with a map of one and nothing is done; the standby then reads itself,
finds the first child gone, returns an error at 754, and keeps the master in
`nodes` with no event to come. When another server has left as well (`Differs`), the
iterator that is advanced after its entry was erased (377) may pass the master by; when one
has come, or the master is back, the sizes may be equal (356). The master then stays in `nodes`
too, and the cluster may be without one. TLC violates the property when any of this is let in.
`SlaveFollowed` is about the only slave of a master, and excepts one that
`get_syncpoint` has listed and not yet read: when it leaves in between, `repl_watcher_fn` erases it
(82) and line 547 inserts it again, for good. `AtMostOneRegisteredMaster` has one slave per
master: two sync slaves of one master both promote themselves (178-188); and of three
servers, a slave promotes itself when its own master goes, though `register_server`
has elected the third meanwhile; `MasterCameFirst` says what is left of it then, a
registered master is the oldest of those it may compete with. Neither counts a server of `withdrew`: a slave that is out of
`/master` still promotes itself for a second entry of its master, and comes back as master
beside it, as does the one of `stale_copy`.
`OneZnodePerSession` and `DeregisteredStaysOut` are about servers that are not asked to
register again while a delayed registration waits: one that is, while `nodes_increase`
waits for the lock (257, 282), creates two znodes.
`WaitingRegisters` is about a server that waits with an empty `nodes`: one that
registers between the count (682) and the list (707) is in `nodes` at once, and a
delayed registration then waits for a third.
`WatchNeverLost`, `DeregisteredStaysOut` and `FailoverCompletes` are checked
without failing calls. A server that registers after its slave does not find it in
`nodes` (670), which is cleared and filled only afterwards. `FoundIfRead` and
`AnswerCovers` leave out a search or an answer with a failed call. `ModeKept` allows
that a record too long for 100 bytes goes to mode sync, and `RecordsSurvive` promises of such
a record only that it is never taken for another; `PointsReflectOrder` ends where the names of binlog
files get another digit. `CalledIsSet`
leaves out `repl_master_dead_cb`, which tests its own name (`utility.cc` 177) and
calls NULL where the others warn. `HandleMeansTree` is about servers whose
`zoo_exists` was answered, since any error but ZNONODE is taken for a yes (452).

## 4. What is proved

From the assumptions of `ZkCluster`, `ReplRecord`, `Bootstrap` and `Library`: `Server` is any
set (finite where the module says so), the bounds are any natural numbers. What a
theorem needs beyond them is named in its statement:

| hypothesis | says | why it is needed |
|---|---|---|
| `errs = 0` | no call has been lost so far | the code drops an event whose call failed; `lost_calls` and `failed_read` are about that |
| `[][OneAtATime]_vars` | no server whose registration is delayed is asked to register again before it has; every server that never delays satisfies it | such a server can create two znodes (257, 282) |
| `NoDelays` | no server delays its registration | for one master only: a server that waits may know a znode that is gone, whose server is back and master, and registers late with what it knows |
| `[]NobodyTwice` | no server ever has two znodes below `/master` at once; a crash and a restart are included when the old znode goes before the new one is created | a server that restarts before its old session is timed out has two, and takes the old one for its own (737): two masters can come of it |
| `[][edges \subseteq edges']_edges` | `rm_repl` takes no slave off a master (`stop_repl` leaves the edge) | beside a server it competes with, a slave that follows a third may be the younger master; taken off that third, it would be a counterexample |
| `TwoServers` | a master and its only slave | two sync slaves of one master both promote themselves (178-188) |
| `NobodyLeaves` | `Leavers` is empty | mysqld is told of a slave's end by an event, so after it |
| `[]NoneFollowsItself` | no server replicates from itself | `start_repl` does not forbid it, and nobody is told of the end of such a slave |
| `LoadsWhole` | what loads of a record, cut or not, is the whole of it | `RecordsSurvive` checks it of each record a behaviour reaches |
| `FittingLoad` | a record that fits the buffer loads | the same; one that does not fit is in the theorems as it is in the code |
| `TextsReflectPlaces` | `Less` orders the texts of points as their places in the binlog | the subject of `PointsReflectOrder` |
| `Server # {}` | there is a server | |

Runs of section 3 have instances that satisfy them: `failover` and `takeover` the first five,
`failover` and `slaves` those of `OneMaster` and `AliveIsActive`, and `records` those about
texts; in `election` a server delays. The latter are statements on the text of single
records and points; `RecordsSurvive` and `PointsReflectOrder` check the same of each record
and point a behaviour reaches.

**Types and the election.**

* `ZkManagerProofs!TypeCorrect == Spec => []TypeOK`. `TypeOK` is inductive
  because `WatState` says that a `nodes_*` function that found its slave or its
  master knows which server that is; without it `mode[wat[s].who]` could be read
  outside its domain. One lemma per action.
* `ElectionProofs!Election == Spec => []ElectedUnique`: the winners of
  `register_server` whose znodes are still there are one server, with
  crashes, expired sessions, lost replies, delays and double registrations.
  `ElectedUnique` says nothing of a first child that was listed at 707 and not
  yet read at 733, so it is not inductive. `ElectionInv` adds: the service
  numbers znodes upwards and never twice (`Numbered`); a listed first child stays
  below every znode there is or will be (`FirstStays`); so does the child that
  elected a server, and it holds that server's uuid (`ElectedStays`). Two
  elected servers whose znodes are there then have the same first child, which
  holds one uuid.
* `TicketProofs!RegisterImplementsTickets == Spec => ElectsByTicket`: the
  refinement of section 2, with `ElectionInv` as the invariant. Every step of the cluster
  draws a ticket, gives some up, elects or stutters; the step that elects is
  the `zoo_get` of the first child, and `FirstStays` says that what was the
  lowest at the list still is.

**The two threads of a server.** `ManagerProofs` says once, for each action, what it does to
the manager that takes it (it goes on, rests, enters a function, erases or inserts an entry, ...)
and that it leaves the others alone. The invariants below rest on those lemmas, not on the
actions.

* `ManagerProofs!LockDiscipline == Spec => []LockHeld`, with lost calls, crashes and delays: the
  two threads of a manager never run `register_server`, `nodes_increase` or `nodes_discrease`
  at once, and no way out of them keeps the lock.
* `RegistrationProofs!OneZnode` and `StaysOut` (`OneAtATime`, `errs = 0`): a session owns one
  znode, and a server that left has none. That `zoo_delete` hits the server's own znode rests
  on the copy that `nodes_*` made of its path being up to date when it is used; that on
  `register_server` not running beside the watcher; and that on the watcher being deaf until
  `register_server` has listed `/master`. `RegistrationInv` says so of every manager with a live
  session: what it has not listed (`Unlisted`), how far the registration is
  (`Progress`), which znode is its own (`Known`), what was copied (`Copied`), and what is true
  of a server that is leaving or has left (`Away`).
* `RegistrationProofs!NeverDeaf` (`errs = 0`, delays and second registrations included): who has
  listed `/master` has a watch there or an event to come. `WatchInv` adds that an event being
  handled will set the watch again before it ends (`Listening`), and that the service notes
  watches for living sessions only (`Noted`).
* `TakeoverProofs!TakesOverAfterLoss` (any number of servers; `OneAtATime`, `[](errs = 0)`): the
  action property `PromotedAfterLoss`. The list that `nodes_discrease` works with is old, but
  numbers grow and a znode that is gone does not come back, so that what `nodes` has and the
  list has not is lost for good (`Older`, `Losses`).
* `TakeoverProofs!MasterIsOldest` (any number of servers and slaves; `NoDelays`,
  `[]NobodyTwice`, no slave taken off, `errs = 0`): `MasterCameFirst`, through elections,
  takeovers, crashes, expired sessions and any number of lives. It is not inductive: a slave in
  the middle of taking over is no master yet. `MasterInv` adds that what a manager holds of an older znode is the only one
  of its server (`Witness`), that a server taking over follows the one it lost (`Loyal`), and
  that a master is older than those it may compete with (`Leads`).
* `TakeoverProofs!TwoMastersNeedAThird`: under the same conditions two registered masters are
  there only while one of them replicates from a third server; each would be the older
  otherwise. Where a condition fails there are other ways to two masters: a restart before the
  timeout, a delayed registration, a lost call.
* `TakeoverProofs!OneMaster` (`NoDelays`, `[]NobodyTwice`, `TwoServers`, `errs = 0`):
  `AtMostOneRegisteredMaster`, since of two servers none follows a third. It does not cover the
  restart before the timeout, with which it is false of the code.
* `TakeoverProofs!OwnershipIsKept`: under the same conditions every step of the two servers is a
  step of `Ownership` or a stutter, one server joining, leaving or becoming master at a time.
* `TakeoverProofs!AliveIsActive` (`OneAtATime`, `TwoServers`, `NobodyLeaves`,
  `[]NoneFollowsItself`, `errs = 0`): `AliveMeansActive`, whichever of `nodes_increase`, `repl_watcher_fn` and
  `get_syncpoint` sees the slave first. `StayInv`: every session has its server (`Steady`), so
  no manager finds a loss and no entry of `nodes` is removed (`LosesNone`), the server
  `nodes_increase` asks about is the one its entry names (`Names`), and a slave
  reported alive is in `nodes` and in `active_slaves` (`Reports`).

**The library.**

* `LibraryProofs!LibraryTypes == Spec => []TypeOK`.
* `LibraryProofs!TreeBeforeHandle == Spec => []HandleMeansTree`. `Climbs` adds what
  a server that is still connecting knows: every znode below the level it asks
  for is there, and nobody deletes them.
* `LibraryProofs!RefusedForAReason == Spec => []RefusedAtMostThrice`. `Paid`: a server was refused
  no more often than znodes were created and calls failed, and less often while it is
  bound to be refused, since the znode it is about to create is there by now (`Owes`).
* `LibraryProofs!NotAllRefused` (`Server # {}`): `SomeoneConnects`. `InTheRace`: there always is
  a server that is neither refused nor about to create a znode that is there by now; who
  creates a znode is one.
* `LibraryProofs!PointersAreSet == Spec => []CalledIsSet`. Pointers are set and never
  taken back (`TableGrows`), so what a thread saw of them holds when it calls, whoever has
  the mutex by then: the double unlock cannot break it.
* `LibraryProofs!NoHandleNoMaster == Spec => []DisconnectedStandsBy`. `Told` adds:
  the pointers are set together, so that where mysqld could be told it is master it
  can be told to stand by; who is about to tell it that it is master is a thread of an open
  manager, or the one `zookeeper_close` waits for; and after that, as long as mysqld
  is master, the application thread is on its way to tell it otherwise.

**The records.** The texts are recursive functions over data, of which the provers can
conclude nothing in general; the hypotheses say what they have to do, and the theorems what
the calls then make of many records while other servers write them.

* `RecordProofs!RecordTypes` (`LoadsWhole`): `TypeOK`. Whatever was read before, the buffer has
  the length of a record there may be.
* `RecordProofs!SearchFinds` (`LoadsWhole`): `FoundIfRead`. `Sought` says of a search under way
  that the server it must find is still to be read, though its record may be rewritten.
* `RecordProofs!ModeSurvives` (`LoadsWhole`, `FittingLoad`): the action property `ModeKept`: the
  mode that a record says changes by `change_repl_mode`, or by the `register_server` that finds
  it too long for the buffer and takes sync (648-650); by no other call and with no
  other interfaces.
* `RecordProofs!AnswersCover` (`LoadsWhole`, `TextsReflectPlaces`): `AnswerCovers`, for any
  number of slaves. Places only grow, so a point read is at least the one recorded at the start
  (`Behind`, `Current`), and the greatest so far is no older than any that was read
  (`Covered`).

**Only model-checked.** Liveness is out of the prover's reach (`FailoverCompletes`,
`ExpiredStandsBy`, `SlaveFollowed`, `LockReleased`, `WaitingRegisters`, `CallbackReturns`), and
so is what the recursive texts do for every input (`RecordsSurvive`, `PointsReflectOrder`, and
`CJson`). `AtMostOneRegisteredMaster` is checked and proved for two servers, `MasterCameFirst`
checked for three and proved for any number.

## 5. Not modelled

* The unit test (`unittest.cc`), read for what it expects. Logging.
* `jsmn`: primitives, escapes, white space, and more than 128 tokens, which no record
  has. The polynomial of `crc32`; the system calls of `ifaddr.cc`.
* `zm_*` functions that only check the magic number and forward. A handle used after
  `zm_disconnect`: the magic number is then read from freed memory.
* A plug-in that calls some of the exported `set_cb_*` by themselves (`utility.cc` 88-245). Each
  sets one pointer without `lock_cb`; with `become_master` set and `become_standby` not,
  `become_standby_cb` (250-266) does nothing, and mysqld stays master without a handle.
* Records and sync points longer than the 100-byte buffers that are not cut but overflow others
  (`strncpy` of 20 and 15 bytes at 565 and 566).
* `set_syncpoint_cb` without a callback, which leaves `start_repl`'s position
  uninitialised (826).
* Several application threads on one manager: `zm_*` takes no lock for them and
  mysqld is outside the repository.

## 6. Plan

Done, in this order: `ZkCluster`, `Registration`, `MasterWatch`, `Replication`,
`ZkManager`, type correctness, the election; `Tickets` and its proof, `Ownership`,
`CJson` and `ReplRecord`, `Bootstrap`, `CallbackTable`, `Library` and its proofs; then the
proofs about the two threads of a server, the takeover, `Ownership` and its
refinement, the race for the tree, and the records; last one master among any number of
servers, delayed registrations, and the lock. Left:

1. `MasterIsOldest` with delayed registrations: `Witness` is not inductive then, since a server
   that waits registers late with what it knew; and with slaves that are taken off a master.
2. Runs for hazards that have a note only: two slaves of one master, a plug-in that sets some
   pointers, the NULL pointer of `repl_master_dead_cb`, the session left behind.
