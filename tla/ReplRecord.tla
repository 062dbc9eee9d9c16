------------------------------ MODULE ReplRecord ------------------------------
(***************************************************************************)
(* What the znodes below /replication hold, and the calls that write and   *)
(* read it: the record of a server, with its endpoints and its mode, and   *)
(* below it, for each of its slaves, how far the slave had read the binlog *)
(* of its master.  ZkManager says who replicates from whom and follows the *)
(* watches; this module says what is found there.                          *)
(*                                                                         *)
(* Each server has one application thread, which makes one call at a time. *)
(* Only the server itself writes its record, and only a slave writes its   *)
(* point: a run of calls that reach only such a znode is one step.         *)
(***************************************************************************)
EXTENDS CJson

CONSTANTS
    Server, NoServer,
    Endpoint,      \* address:port, and host:port, of the servers
    Cipher,        \* of an endpoint: its crc32 in hexadecimal
    Interfaces,    \* of a server: the sets of endpoints it may have when it starts
    Recorded,      \* servers that have registered at the start
    BufferLen,     \* 100: the bytes of the buffer a znode is read into
    FileWidth,     \* digits of the number of a binlog file
    Log,           \* the places a slave may have read its master's binlog up to
    Calls,         \* <<s, op, e>>: what each server may ask, of which endpoint
    MaxCalls,      \* bound: calls each server makes
    MaxErrs        \* bound: calls to ZooKeeper that fail

Place == [file : Nat, pos : Nat]
Before(p, q) == p.file < q.file \/ (p.file = q.file /\ p.pos < q.pos)

ASSUME RecordAssumption ==
    /\ \A s \in Server : \A up \in Interfaces[s] : up # {} /\ up \subseteq Endpoint
    /\ \A d, e \in Endpoint : Cipher[d] = Cipher[e] => d = e   \* no two have the same crc32
    /\ Recorded \subseteq Server /\ NoServer \notin Server
    /\ Log \in Seq(Place) /\ Log # <<>>
    /\ \A i \in DOMAIN Log : \A j \in 1..(i - 1) : Before(Log[j], Log[i])
    /\ BufferLen \in Nat /\ MaxErrs \in Nat

VARIABLES
    record,           \* the object whose dump /replication/s holds, {}: no such znode
    syncpoint,        \* the text of /replication/m/s, NoPoint: no such znode
    mysql_endpoints,  \* the ciphers a manager knows as its own
    binlog,           \* how far a server has read: a place of Log
    app,              \* program counter and locals of the application thread
    owed,             \* history: the places a get_syncpoint under way found its slaves had recorded
    calls, errs

vars == <<record, syncpoint, mysql_endpoints, binlog, app, owed, calls, errs>>

-----------------------------------------------------------------------------
(* The record of a server: written by dump, read into a buffer, loaded.     *)

CiphersOf(up) == {Cipher[e] : e \in up}
Object(ciphers, mode) == Put(Put({}, "endpoint", ciphers), "mode", {mode})
ModeOf(object) == CHOOSE v \in ValuesOf(object, "mode") : TRUE

Objects == {Object(CiphersOf(up), mode) : up \in UNION {Interfaces[s] : s \in Server},
                                          mode \in {"sync", "async"}}
DumpOf == [o \in Objects |-> Dump(o)]

\* zoo_get sets the length of the buffer to that of what it read.
Lens == {BufferLen} \cup {Min({BufferLen, TextLen(DumpOf[o])}) : o \in Objects}

\* What a buffer of len bytes shows of an object that was written.
Shown == [o \in Objects |-> [len \in Lens |-> Cut(DumpOf[o], len)]]
Readable == [o \in Objects |-> [len \in Lens |-> Loads(Shown[o][len])]]
PairsIn == [o \in Objects |-> [len \in Lens |->
               IF Readable[o][len] THEN Pairs(Shown[o][len]) ELSE {}]]

-----------------------------------------------------------------------------
(* The point of a slave: "%s:%lld" of a file and a position.                *)

\* The name of a file ends in digits, as many for each; a position has as many as it needs.
Decimal(n, w) == [i \in 1..w |-> (n \div 10^(w - i)) % 10]
Digits(n) == CHOOSE w \in 1..9 : n < 10^w /\ (w = 1 \/ n >= 10^(w - 1))
Text(p) == [file |-> Decimal(p.file, FileWidth), pos |-> Decimal(p.pos, Digits(p.pos))]
PointOf == [i \in DOMAIN Log |-> Text(Log[i])]
NoPoint == [file |-> <<>>, pos |-> <<>>]

Atoll(d) == FoldLeft(LAMBDA n, i : 10 * n + i, 0, d)

\* string::compare on the digits of two names
Precedes(a, b) ==
    \/ Len(a) < Len(b) /\ a = SubSeq(b, 1, Len(a))
    \/ \E i \in DOMAIN a \cap DOMAIN b :
          a[i] < b[i] /\ \A j \in 1..(i - 1) : a[j] = b[j]

\* mutant: the positions are compared as strings, as the names are
Less_Text(a, b) == Precedes(a.file, b.file) \/ (a.file = b.file /\ Precedes(a.pos, b.pos))

\* syncPoint::operator<
Less(a, b) ==
    Precedes(a.file, b.file) \/ (a.file = b.file /\ Atoll(a.pos) < Atoll(b.pos))

Slaves(m) == {s \in Server : syncpoint[m][s] # NoPoint}

NothingOwed == [s \in Server |-> 0]
Idle == [pc |-> "idle", op |-> "none", end |-> "", m |-> NoServer, kids |-> {}, len |-> BufferLen,
         point |-> NoPoint, list |-> {}, failed |-> FALSE]

-----------------------------------------------------------------------------
Init ==
    /\ \E up \in [Server -> UNION {Interfaces[s] : s \in Server}], mode \in {"sync", "async"} :
          /\ \A s \in Server : up[s] \in Interfaces[s]
          /\ mysql_endpoints = [s \in Server |-> IF s \in Recorded THEN CiphersOf(up[s]) ELSE {}]
          /\ record = [s \in Server |-> IF s \in Recorded
                                        THEN Object(mysql_endpoints[s], mode) ELSE {}]
    /\ syncpoint = [m \in Server |-> [s \in Server |-> NoPoint]]
    /\ binlog = [s \in Server |-> 1]
    /\ app = [s \in Server |-> Idle]
    /\ owed = [s \in Server |-> NothingOwed]
    /\ calls = [s \in Server |-> 0] /\ errs = 0

\* A call to ZooKeeper comes back, or the connection is lost under it.
Ok == UNCHANGED errs
Drop == errs < MaxErrs /\ errs' = errs + 1

Call(s, op, e) ==
    /\ app[s].pc = "idle" /\ <<s, op, e>> \in Calls
    /\ calls[s] < MaxCalls[s] /\ calls' = [calls EXCEPT ![s] = @ + 1]
Return(s) == app' = [app EXCEPT ![s] = Idle]

\* A server that may be a slave reads on in the binlog of its master.
Replicate(s) ==
    /\ \E c \in Calls : c[1] = s /\ c[2] = "start"
    /\ binlog[s] < Len(Log)
    /\ binlog' = [binlog EXCEPT ![s] = @ + 1]
    /\ UNCHANGED <<record, syncpoint, mysql_endpoints, app, owed, calls, errs>>

-----------------------------------------------------------------------------
(* register_server, as far as /replication/uuid, in a new life of the server *)

\* get_endpoints_cipher: the interfaces that are up, and the name of the host.
GetEndpointsCipher(s) ==
    \E up \in Interfaces[s] :
        mysql_endpoints' = [mysql_endpoints EXCEPT ![s] = CiphersOf(up)]

\* The object starts in mode sync, or as the record says if it can be read.
Restored(s) ==
    IF record[s] # {} /\ Readable[record[s]][BufferLen] THEN PairsIn[record[s]][BufferLen]
    ELSE Put({}, "mode", {"sync"})

\* The endpoints are new, whatever the record said.  The lost reply of a write.
Register(s) ==
    /\ Call(s, "register", "")
    /\ GetEndpointsCipher(s)
    /\ LET object == Put(Restored(s), "endpoint", mysql_endpoints'[s])
       IN  \/ Ok /\ record' = [record EXCEPT ![s] = object]
           \/ Drop /\ record' \in {record, [record EXCEPT ![s] = object]}
    /\ UNCHANGED <<syncpoint, binlog, app, owed>>

\* change_repl_mode(sync)
ChangeReplMode(s) ==
    /\ Call(s, "change", "") /\ record[s] # {} /\ mysql_endpoints[s] # {}
    /\ \E mode \in {"sync", "async"} :
          LET object == Object(mysql_endpoints[s], mode)
          IN  \/ Ok /\ record' = [record EXCEPT ![s] = object]
              \/ Drop /\ record' \in {record, [record EXCEPT ![s] = object]}
    /\ UNCHANGED <<syncpoint, mysql_endpoints, binlog, app, owed>>

-----------------------------------------------------------------------------
(* find_master_repl_znode: the records of all servers are read one by one.  *)

\* start_repl, stop_repl or rm_repl begins; stop_repl asks mysqld first how far it is.
FindMaster(s) ==
    /\ \E op \in {"start", "stop", "rm"}, e \in Endpoint :
          /\ Call(s, op, e)
          /\ \/ /\ Ok
                /\ app' = [app EXCEPT ![s] =
                             [Idle EXCEPT !.pc = "find", !.op = op, !.end = e,
                                          !.point = IF op = "stop" THEN PointOf[binlog[s]] ELSE @,
                                          !.kids = {m \in Server : record[m] # {}}]]
             \/ Drop /\ UNCHANGED app
    /\ UNCHANGED <<record, syncpoint, mysql_endpoints, binlog, owed>>

\* mutant: the byte that ends the string is counted
NextLen_Nul(len, object) == Min({len, TextLen(DumpOf[object])}) + 1

\* No one sets buffer_len back: the next record is cut to the length of the last.
NextLen(len, object) == Min({len, TextLen(DumpOf[object])})

\* The next record, in the order the service lists them, which may be any.
FindMaster_Get(s) ==
    /\ app[s].pc = "find" /\ app[s].kids # {}
    /\ \E m \in app[s].kids :
          LET next == [app[s] EXCEPT !.kids = @ \ {m}]
          IN  \/ Drop /\ app' = [app EXCEPT ![s] = [next EXCEPT !.failed = TRUE]] \* passed over
              \/ Ok /\ ~Readable[record[m]][app[s].len] /\ Return(s)      \* not JSON
              \/ /\ Ok /\ Readable[record[m]][app[s].len]
                 /\ LET ends  == ValuesOf(PairsIn[record[m]][app[s].len], "endpoint")
                        found == Cipher[app[s].end] \in ends
                    IN  app' = [app EXCEPT ![s] =
                           [next EXCEPT !.len = NextLen(app[s].len, record[m]),
                                        !.m = IF found THEN m ELSE @,
                                        !.pc = IF found THEN app[s].op ELSE @]]
    /\ UNCHANGED <<record, syncpoint, mysql_endpoints, binlog, owed, calls>>

\* No record has the endpoint: the call fails.
FindMaster_None(s) ==
    /\ app[s].pc = "find" /\ app[s].kids = {}
    /\ Return(s)
    /\ UNCHANGED <<record, syncpoint, mysql_endpoints, binlog, owed, calls, errs>>

\* The slave's znode under m is written, or the reply is lost, or the call fails.
Write(s, m, point) ==
    LET written == [syncpoint EXCEPT ![m][s] = point]
    IN  \/ Ok /\ syncpoint' = written
        \/ Drop /\ syncpoint' \in {syncpoint, written}

\* start_repl creates it; if it is there it stays as it is, with the point it has.
StartRepl(s) ==
    LET m == app[s].m
    IN  /\ app[s].pc = "start"
        /\ \/ syncpoint[m][s] = NoPoint /\ Write(s, m, PointOf[binlog[s]])
           \/ syncpoint[m][s] # NoPoint /\ Ok /\ UNCHANGED syncpoint
        /\ Return(s)
        /\ UNCHANGED <<record, mysql_endpoints, binlog, owed, calls>>

\* stop_repl sets the point it had asked for; rm_repl deletes the znode.
StopRepl(s) ==
    LET m == app[s].m
    IN  /\ app[s].pc = "stop"
        /\ \/ syncpoint[m][s] # NoPoint /\ Write(s, m, app[s].point)
           \/ syncpoint[m][s] = NoPoint /\ Ok /\ UNCHANGED syncpoint
        /\ Return(s)
        /\ UNCHANGED <<record, mysql_endpoints, binlog, owed, calls>>

RmRepl(s) ==
    LET m == app[s].m
    IN  /\ app[s].pc = "rm"
        /\ \/ syncpoint[m][s] # NoPoint /\ Write(s, m, NoPoint)
           \/ syncpoint[m][s] = NoPoint /\ Ok /\ UNCHANGED syncpoint
        /\ owed' = [owed EXCEPT ![m][s] = IF syncpoint'[m][s] = NoPoint THEN 0 ELSE @]
        /\ Return(s)
        /\ UNCHANGED <<record, mysql_endpoints, binlog, calls>>

-----------------------------------------------------------------------------
(* get_syncpoint                                                            *)

\* The place a text stands for, 0 for none.
PlaceOf(text) ==
    IF text = NoPoint THEN 0 ELSE CHOOSE i \in DOMAIN Log : PointOf[i] = text

\* In mode sync the slaves are listed; in mode async, or with no slave, there is no answer.
GetSyncpoint(m) ==
    /\ Call(m, "get", "") /\ record[m] # {}
    /\ LET read == /\ Readable[record[m]][BufferLen] /\ Slaves(m) # {}
                   /\ ModeOf(PairsIn[record[m]][BufferLen]) = "sync"
       IN  \/ /\ Ok /\ read
              /\ app' = [app EXCEPT ![m] = [Idle EXCEPT !.pc = "read", !.kids = Slaves(m)]]
              /\ owed' = [owed EXCEPT ![m] = [s \in Server |-> PlaceOf(syncpoint[m][s])]]
           \/ Ok /\ ~read /\ UNCHANGED <<app, owed>>
           \/ Drop /\ UNCHANGED <<app, owed>>
    /\ UNCHANGED <<record, syncpoint, mysql_endpoints, binlog>>

\* The point of a slave joins the list; one that cannot be read, or is gone, is passed over.
GetSyncpoint_Read(m) ==
    /\ app[m].pc = "read"
    /\ \E s \in app[m].kids :
          LET next == [app[m] EXCEPT !.kids = @ \ {s},
                                    !.pc = IF app[m].kids = {s} THEN "sort" ELSE @]
          IN  \/ /\ Ok
                 /\ app' = [app EXCEPT ![m] =
                              [next EXCEPT !.list = @ \cup ({syncpoint[m][s]} \ {NoPoint})]]
              \/ Drop /\ app' = [app EXCEPT ![m] = [next EXCEPT !.failed = TRUE]]
    /\ UNCHANGED <<record, syncpoint, mysql_endpoints, binlog, owed, calls>>

\* sort, reverse, and the first: a point no other exceeds.  The first of an empty list
\* is no point at all, and whatever it is is answered.
GetSyncpoint_Sort(m) ==
    /\ app[m].pc = "sort"
    /\ \E p \in IF app[m].list # {} THEN app[m].list
                                     ELSE {NoPoint} \cup {PointOf[i] : i \in DOMAIN Log} :
          /\ \A q \in app[m].list : ~Less(p, q)
          /\ app' = [app EXCEPT ![m].pc = "answer", ![m].point = p]
    /\ UNCHANGED <<record, syncpoint, mysql_endpoints, binlog, owed, calls, errs>>

GetSyncpoint_Answer(m) ==
    /\ app[m].pc = "answer"
    /\ Return(m) /\ owed' = [owed EXCEPT ![m] = NothingOwed]
    /\ UNCHANGED <<record, syncpoint, mysql_endpoints, binlog, calls, errs>>

Next ==
    \E s \in Server :
        \/ Replicate(s) \/ Register(s) \/ ChangeReplMode(s)
        \/ FindMaster(s) \/ FindMaster_Get(s) \/ FindMaster_None(s)
        \/ StartRepl(s) \/ StopRepl(s) \/ RmRepl(s)
        \/ GetSyncpoint(s) \/ GetSyncpoint_Read(s) \/ GetSyncpoint_Sort(s) \/ GetSyncpoint_Answer(s)

Spec == Init /\ [][Next]_vars

-----------------------------------------------------------------------------
(* Safety                                                                   *)

TypeOK ==
    /\ DOMAIN record = Server /\ DOMAIN syncpoint = Server
    /\ mysql_endpoints \in [Server -> SUBSET {Cipher[e] : e \in Endpoint}]
    /\ binlog \in [Server -> DOMAIN Log]
    /\ owed \in [Server -> [Server -> 0..Len(Log)]]
    /\ \A s \in Server : app[s].len \in 0..BufferLen /\ app[s].m \in Server \cup {NoServer}
    /\ calls \in [Server -> Nat] /\ errs \in 0..MaxErrs

\* The text of the record goes into the buffer it is read into.
Fitting(object) == TextLen(DumpOf[object]) <= BufferLen

\* What the bytes have to do, of every record and place there may be (the proofs assume
\* it).  What is left of a record in a buffer of any length a search can come to is the
\* whole record, or it does not load; a record that goes into the buffer loads; and the
\* order of the texts is that of the places in the binlog.
LoadsWhole ==
    \A o \in Objects :
        /\ TextLen(DumpOf[o]) \in Nat
        /\ \A len \in Lens : Readable[o][len] => PairsIn[o][len] = o
FittingLoad == \A o \in Objects : Fitting(o) => Readable[o][BufferLen]
TextsReflectPlaces ==
    \A i, j \in DOMAIN Log :
        PointOf[i] # NoPoint /\ (Less(PointOf[i], PointOf[j]) <=> Before(Log[i], Log[j]))

\* What a server wrote is read as it was written, if it goes into the buffer, by its next
\* register_server, by get_syncpoint and by the first zoo_get of a search.  A record that
\* is cut, by that or by the shorter buffer of a later zoo_get, is seen not to be JSON and
\* is never taken for another.
RecordsSurvive ==
    \A s \in Server : record[s] # {} =>
        /\ Fitting(record[s]) => Readable[record[s]][BufferLen]
        /\ \A len \in Lens : Readable[record[s]][len] => PairsIn[record[s]][len] = record[s]

\* syncPoint::operator< puts the points of two slaves, as start_repl and stop_repl wrote
\* them, in the order of the places in the binlog they stand for.
PointsReflectOrder ==
    \A m \in Server : \A s, t \in Slaves(m) :
        Less(syncpoint[m][s], syncpoint[m][t])
        <=> PlaceOf(syncpoint[m][s]) < PlaceOf(syncpoint[m][t])

\* Every address a server has, whatever is up, leads back to it: through the hash, the
\* dump with one value or several, the buffer, the tokens and the load.  A search that
\* could read each record it looked at, and still found nothing, looked for an address
\* that nobody has.
FoundIfRead ==
    \A s, m \in Server :
        app[s].pc = "find" /\ app[s].kids = {} /\ ~app[s].failed /\ m \in Recorded
        => \E up \in Interfaces[m] : app[s].end \notin up

\* get_syncpoint, which reads the points of the slaves one by one while they go on,
\* start over, stop and leave, answers no older point than any that was recorded when
\* it listed them and is still there, unless a call failed.
AnswerCovers ==
    \A m \in Server :
        app[m].pc = "answer" /\ ~app[m].failed
        => \A s \in Server : owed[m][s] # 0 => owed[m][s] <= PlaceOf(app[m].point)

\* "get all masters' replication information": every record find_master_repl_znode
\* has still to read, it can read.
ReadsAll ==
    \A s \in Server :
        app[s].pc = "find" => \A m \in app[s].kids : Readable[record[m]][app[s].len]

\* A server that starts again, with whatever interfaces are up, is in the mode it was in:
\* only change_repl_mode changes what the record says, except that a record longer than the
\* buffer is read in part, fails to load, and is written again in mode sync.
ModeKept ==
    [][\A s \in Server :
          record[s] # {} /\ ModeOf(record[s]) # ModeOf(record'[s])
          => \/ ChangeReplMode(s)
             \/ ~Fitting(record[s]) /\ ModeOf(record'[s]) = "sync"]_vars
=============================================================================
