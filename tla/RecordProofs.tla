----------------------------- MODULE RecordProofs -----------------------------
(***************************************************************************)
(* What the calls make of the records and sync points, for any number of   *)
(* servers, addresses and places in the binlog.  What the text of a single *)
(* record or point is worth is not proved here: LoadsWhole, FittingLoad    *)
(* and TextsReflectPlaces say what the bytes have to do, as hypotheses.    *)
(* TLC checks it of the records and points of a run (RecordsSurvive,       *)
(* PointsReflectOrder).  From them the theorems get what the calls make of *)
(* many records, whatever the other servers do between.                    *)
(***************************************************************************)
EXTENDS ReplRecord, TLAPS

-----------------------------------------------------------------------------
(* Objects                                                                  *)

\* A record has the ciphers and the mode that were put into it.
LEMMA ObjectHolds ==
    ASSUME NEW c, NEW mode
    PROVE  /\ ValuesOf(Object(c, mode), "endpoint") = c
           /\ ValuesOf(Object(c, mode), "mode") = {mode}
           /\ ModeOf(Object(c, mode)) = mode
           /\ Object(c, mode) # {}
<1>1. \A e : e \in Object(c, mode) <=> e = <<"mode", mode>> \/ (\E v \in c : e = <<"endpoint", v>>)
  BY DEF Object, Put
<1> DEFINE o == Object(c, mode)
<1> HIDE DEF o
<1>m. \A key : \A v : v \in ValuesOf(o, key) <=> \E e \in o : e[1] = key /\ e[2] = v
  BY Zenon DEF ValuesOf
<1>2. ValuesOf(o, "endpoint") = c
  <2>1. ASSUME NEW v \in c PROVE v \in ValuesOf(o, "endpoint")
    <3>1. <<"endpoint", v>> \in o
      BY <1>1, <2>1 DEF o
    <3> QED
      BY <3>1, <1>m
  <2>2. ASSUME NEW v \in ValuesOf(o, "endpoint") PROVE v \in c
    <3>1. PICK e \in o : e[1] = "endpoint" /\ e[2] = v
      BY <2>2, <1>m
    <3>2. e = <<"mode", mode>> \/ \E w \in c : e = <<"endpoint", w>>
      BY <1>1 DEF o
    <3> QED
      BY <3>1, <3>2
  <2> QED
    BY <2>1, <2>2
<1>3. ValuesOf(o, "mode") = {mode}
  <2>1. mode \in ValuesOf(o, "mode")
    <3>1. <<"mode", mode>> \in o
      BY <1>1 DEF o
    <3> QED
      BY <3>1, <1>m
  <2>2. ASSUME NEW v \in ValuesOf(o, "mode") PROVE v = mode
    <3>1. PICK e \in o : e[1] = "mode" /\ e[2] = v
      BY <2>2, <1>m
    <3>2. e = <<"mode", mode>> \/ \E w \in c : e = <<"endpoint", w>>
      BY <1>1 DEF o
    <3> QED
      BY <3>1, <3>2
  <2> QED
    BY <2>1, <2>2
<1> QED
  BY <1>1, <1>2, <1>3 DEF ModeOf, o

\* New addresses leave the mode as it is, and an object that only has a mode gets them.
LEMMA PutEndpoint ==
    ASSUME NEW c, NEW mode, NEW d
    PROVE  /\ Put(Object(c, mode), "endpoint", d) = Object(d, mode)
           /\ Put(Put({}, "mode", {mode}), "endpoint", d) = Object(d, mode)
<1>1. \A e : e \in Object(c, mode) <=> e = <<"mode", mode>> \/ (\E v \in c : e = <<"endpoint", v>>)
  BY DEF Object, Put
<1>2. \A e : e \in Object(d, mode) <=> e = <<"mode", mode>> \/ (\E v \in d : e = <<"endpoint", v>>)
  BY DEF Object, Put
<1>3. \A e : e \in Put(Object(c, mode), "endpoint", d)
             <=> e = <<"mode", mode>> \/ (\E v \in d : e = <<"endpoint", v>>)
  BY <1>1 DEF Put
<1>4. \A e : e \in Put(Put({}, "mode", {mode}), "endpoint", d)
             <=> e = <<"mode", mode>> \/ (\E v \in d : e = <<"endpoint", v>>)
  BY DEF Put
<1> QED
  BY <1>2, <1>3, <1>4
-----------------------------------------------------------------------------
(* Types                                                                    *)

\* What a server may write into its record.
RecordsOf(s) == {Object(CiphersOf(up), mode) : up \in Interfaces[s], mode \in {"sync", "async"}}

Written == {PointOf[i] : i \in DOMAIN Log}
Point == {NoPoint} \cup Written

Records ==
    /\ record \in [Server -> {{}} \cup Objects]
    /\ mysql_endpoints \in [Server -> SUBSET {Cipher[e] : e \in Endpoint}]
    /\ \A s \in Server :
          /\ record[s] \in {{}} \cup RecordsOf(s)
          /\ mysql_endpoints[s] # {} => \E up \in Interfaces[s] : mysql_endpoints[s] = CiphersOf(up)
          /\ s \in Recorded => record[s] # {}

Points ==
    /\ syncpoint \in [Server -> [Server -> Point]]
    /\ binlog \in [Server -> DOMAIN Log]
    /\ owed \in [Server -> [Server -> 0..Len(Log)]]

Thread == [pc : {"idle", "find", "start", "stop", "rm", "read", "sort", "answer"},
           op : {"none", "start", "stop", "rm"}, end : Endpoint \cup {""},
           m : Server \cup {NoServer}, kids : SUBSET Server, len : Lens,
           point : Point, list : SUBSET Written, failed : BOOLEAN]

\* A thread in a search reads records that are there; one that found its master has it.
Sound(t) ==
    /\ t.pc = "find" => t.op # "none" /\ \A m \in t.kids : record[m] # {}
    /\ t.pc \in {"start", "stop", "rm"} => t.op = t.pc /\ t.m \in Server

Threads ==
    /\ app \in [Server -> Thread]
    /\ \A s \in Server : Sound(app[s])

Counts == calls \in [Server -> Nat] /\ errs \in 0..MaxErrs

Types == Records /\ Points /\ Threads /\ Counts

\* A step of the server s.
Step(s) ==
    \/ Replicate(s) \/ Register(s) \/ ChangeReplMode(s)
    \/ FindMaster(s) \/ FindMaster_Get(s) \/ FindMaster_None(s)
    \/ StartRepl(s) \/ StopRepl(s) \/ RmRepl(s)
    \/ GetSyncpoint(s) \/ GetSyncpoint_Read(s) \/ GetSyncpoint_Sort(s) \/ GetSyncpoint_Answer(s)

\* What a server may write is what the texts and their lengths are known for.
LEMMA RecordsAreObjects == \A s \in Server : RecordsOf(s) \subseteq Objects
  BY DEF RecordsOf, Objects

\* Every way into the buffer has a length of Lens: the smaller of two of them is one.
LEMMA LensAreLengths == LoadsWhole => Lens \subseteq 0..BufferLen
<1> SUFFICES ASSUME LoadsWhole PROVE Lens \subseteq 0..BufferLen
  OBVIOUS
<1>1. ASSUME NEW o \in Objects PROVE Min({BufferLen, TextLen(DumpOf[o])}) \in 0..BufferLen
  <2>1. TextLen(DumpOf[o]) \in Nat /\ BufferLen \in Nat
    BY RecordAssumption DEF LoadsWhole
  <2>2. Min({BufferLen, TextLen(DumpOf[o])}) =
           IF BufferLen <= TextLen(DumpOf[o]) THEN BufferLen ELSE TextLen(DumpOf[o])
    BY <2>1 DEF Min
  <2> QED
    BY <2>1, <2>2
<1>2. BufferLen \in 0..BufferLen
  BY RecordAssumption
<1>3. ASSUME NEW len \in Lens, len # BufferLen
      PROVE  \E o \in Objects : len = Min({BufferLen, TextLen(DumpOf[o])})
  BY <1>3, Zenon DEF Lens
<1> QED
  BY <1>1, <1>2, <1>3

\* However the buffer has shrunk, it has the length of a record or its own.
LEMMA NextLenInLens ==
    ASSUME LoadsWhole, NEW len \in Lens, NEW o \in Objects
    PROVE  NextLen(len, o) \in Lens
<1>1. TextLen(DumpOf[o]) \in Nat /\ BufferLen \in Nat /\ len \in Nat
  BY RecordAssumption, LensAreLengths DEF LoadsWhole
<1>2. \A a, b \in Nat : Min({a, b}) = IF a <= b THEN a ELSE b
  BY DEF Min
<1>3. CASE len <= TextLen(DumpOf[o])
  BY <1>1, <1>2, <1>3 DEF NextLen
<1>4. CASE len > TextLen(DumpOf[o])
  <2>1. len <= BufferLen
    BY LensAreLengths, RecordAssumption
  <2>2. NextLen(len, o) = Min({BufferLen, TextLen(DumpOf[o])})
    BY <1>1, <1>2, <1>4, <2>1 DEF NextLen
  <2> QED
    BY <2>2 DEF Lens
<1> QED
  BY <1>1, <1>3, <1>4

\* The place of a text that stands in the binlog is a place, that of none is 0.
LEMMA PlaceType ==
    /\ PlaceOf(NoPoint) = 0
    /\ \A p \in Point : PlaceOf(p) \in 0..Len(Log)
    /\ \A p \in Written : p # NoPoint => PlaceOf(p) \in DOMAIN Log /\ PointOf[PlaceOf(p)] = p
<1>1. DOMAIN Log = 1..Len(Log) /\ Len(Log) \in Nat
  BY RecordAssumption
<1>2. ASSUME NEW p \in Written, p # NoPoint
      PROVE  PlaceOf(p) \in DOMAIN Log /\ PointOf[PlaceOf(p)] = p
  BY <1>2 DEF Written, PlaceOf
<1>3. PlaceOf(NoPoint) = 0
  BY DEF PlaceOf
<1> QED
  BY <1>1, <1>2, <1>3 DEF Point

\* The initial states.
LEMMA InitTypes == Init => Types
<1> SUFFICES ASSUME Init PROVE Types
  OBVIOUS
<1>1. PICK up \in [Server -> UNION {Interfaces[s] : s \in Server}], mode \in {"sync", "async"} :
          /\ \A s \in Server : up[s] \in Interfaces[s]
          /\ mysql_endpoints = [s \in Server |-> IF s \in Recorded THEN CiphersOf(up[s]) ELSE {}]
          /\ record = [s \in Server |-> IF s \in Recorded
                                        THEN Object(mysql_endpoints[s], mode) ELSE {}]
  BY DEF Init
<1>2. Records
  <2>1. ASSUME NEW s \in Server PROVE CiphersOf(up[s]) \in SUBSET {Cipher[e] : e \in Endpoint}
    BY <1>1, RecordAssumption DEF CiphersOf
  <2>2. ASSUME NEW s \in Server PROVE Object(CiphersOf(up[s]), mode) \in RecordsOf(s)
    BY <1>1 DEF RecordsOf
  <2>3. ASSUME NEW s \in Server PROVE record[s] \in {{}} \cup RecordsOf(s)
    BY <1>1, <2>2, <2>3
  <2>4. record \in [Server -> {{}} \cup Objects]
    BY <1>1, <2>3, RecordsAreObjects
  <2>5. mysql_endpoints \in [Server -> SUBSET {Cipher[e] : e \in Endpoint}]
    BY <1>1, <2>1
  <2>6. ASSUME NEW s \in Server, mysql_endpoints[s] # {}
        PROVE  \E u \in Interfaces[s] : mysql_endpoints[s] = CiphersOf(u)
    BY <1>1, <2>6
  <2>7. ASSUME NEW s \in Server, s \in Recorded PROVE record[s] # {}
    BY <1>1, <2>7, ObjectHolds
  <2> QED
    BY <2>3, <2>4, <2>5, <2>6, <2>7 DEF Records
<1>3. Points
  <2>1. 1 \in DOMAIN Log /\ Len(Log) \in Nat
    BY RecordAssumption
  <2> QED
    BY <2>1 DEF Points, Init, Point, NothingOwed
<1>4. Threads
  BY RecordAssumption DEF Threads, Init, Idle, Thread, Point, Lens, Sound
<1>5. Counts
  BY RecordAssumption DEF Counts, Init
<1> QED
  BY <1>2, <1>3, <1>4, <1>5 DEF Types

\* register_server and change_repl_mode are the only writers of a record.
LEMMA RegisterWrites ==
    ASSUME LoadsWhole, Types, NEW s \in Server, Register(s)
    PROVE  \E up \in Interfaces[s], mode \in {"sync", "async"} :
              /\ mysql_endpoints' = [mysql_endpoints EXCEPT ![s] = CiphersOf(up)]
              /\ record' \in {record, [record EXCEPT ![s] = Object(CiphersOf(up), mode)]}
              /\ \/ record[s] = {} \/ ModeOf(record[s]) = mode
                 \/ ~Readable[record[s]][BufferLen] /\ mode = "sync"
<1>1. PICK up \in Interfaces[s] : mysql_endpoints' = [mysql_endpoints EXCEPT ![s] = CiphersOf(up)]
  BY DEF Register, GetEndpointsCipher
<1>2. mysql_endpoints'[s] = CiphersOf(up)
  BY <1>1 DEF Types, Records
<1>3. record' \in {record, [record EXCEPT ![s] =
                               Put(Restored(s), "endpoint", mysql_endpoints'[s])]}
  BY DEF Register
<1>4. CASE record[s] # {} /\ Readable[record[s]][BufferLen]
  <2>1. record[s] \in RecordsOf(s) /\ record[s] \in Objects
    BY <1>4, RecordsAreObjects DEF Types, Records
  <2>2. PICK u \in Interfaces[s], mode \in {"sync", "async"} :
            record[s] = Object(CiphersOf(u), mode)
    BY <2>1 DEF RecordsOf
  <2>3. Restored(s) = record[s]
    BY <1>4, <2>1 DEF Restored, LoadsWhole, Lens
  <2>4. Put(Restored(s), "endpoint", mysql_endpoints'[s]) = Object(CiphersOf(up), mode)
    <3>1. Put(Object(CiphersOf(u), mode), "endpoint", CiphersOf(up)) = Object(CiphersOf(up), mode)
      BY PutEndpoint, Zenon
    <3> QED
      BY <1>2, <2>2, <2>3, <3>1, Zenon
  <2>5. ModeOf(record[s]) = mode
    BY <2>2, ObjectHolds
  <2> QED
    BY <1>1, <1>3, <2>4, <2>5
<1>5. CASE ~(record[s] # {} /\ Readable[record[s]][BufferLen])
  <2>1. Put(Restored(s), "endpoint", mysql_endpoints'[s]) = Object(CiphersOf(up), "sync")
    BY <1>2, <1>5, PutEndpoint DEF Restored
  <2> QED
    BY <1>1, <1>3, <1>5, <2>1
<1> QED
  BY <1>4, <1>5

\* change_repl_mode writes the addresses the manager knows as its own.
LEMMA ChangeWrites ==
    ASSUME Types, NEW s \in Server, ChangeReplMode(s)
    PROVE  /\ UNCHANGED mysql_endpoints
           /\ \E up \in Interfaces[s], mode \in {"sync", "async"} :
                 record' \in {record, [record EXCEPT ![s] = Object(CiphersOf(up), mode)]}
<1>1. PICK up \in Interfaces[s] : mysql_endpoints[s] = CiphersOf(up)
  BY DEF ChangeReplMode, Types, Records
<1>2. PICK mode \in {"sync", "async"} :
          record' \in {record, [record EXCEPT ![s] = Object(mysql_endpoints[s], mode)]}
  BY DEF ChangeReplMode
<1> QED
  BY <1>1, <1>2 DEF ChangeReplMode

\* A record that is there stays there, with addresses and a mode of its server.
LEMMA RecordsKept ==
    ASSUME LoadsWhole, Types, NEW s \in Server,
           \/ Register(s) \/ ChangeReplMode(s) \/ UNCHANGED <<record, mysql_endpoints>>
    PROVE  Records' /\ \A r \in Server : record[r] # {} => record'[r] # {}
<1> DEFINE Stay == \A r \in Server : record[r] # {} => record'[r] # {}
<1>1. ASSUME NEW up \in Interfaces[s], NEW mode \in {"sync", "async"},
             mysql_endpoints' \in {mysql_endpoints, [mysql_endpoints EXCEPT ![s] = CiphersOf(up)]},
             record' \in {record, [record EXCEPT ![s] = Object(CiphersOf(up), mode)]}
      PROVE  Records' /\ Stay
  <2>1. CiphersOf(up) \in SUBSET {Cipher[e] : e \in Endpoint}
    BY RecordAssumption DEF CiphersOf
  <2>2. Object(CiphersOf(up), mode) \in RecordsOf(s) \cap Objects
    BY RecordsAreObjects DEF RecordsOf
  <2>3. Object(CiphersOf(up), mode) # {}
    BY ObjectHolds
  <2>4. /\ record' \in [Server -> {{}} \cup Objects]
        /\ mysql_endpoints' \in [Server -> SUBSET {Cipher[e] : e \in Endpoint}]
    BY <1>1, <2>1, <2>2 DEF Types, Records
  <2>5. ASSUME NEW r \in Server
        PROVE  /\ record'[r] \in {{}} \cup RecordsOf(r)
               /\ mysql_endpoints'[r] # {}
                  => \E u \in Interfaces[r] : mysql_endpoints'[r] = CiphersOf(u)
               /\ r \in Recorded => record'[r] # {}
               /\ record[r] # {} => record'[r] # {}
    <3>1. CASE r = s
      BY <1>1, <2>2, <2>3, <3>1 DEF Types, Records
    <3>2. CASE r # s
      <4>1. record'[r] = record[r] /\ mysql_endpoints'[r] = mysql_endpoints[r]
        BY <1>1, <3>2 DEF Types, Records
      <4> QED
        BY <4>1 DEF Types, Records
    <3> QED
      BY <3>1, <3>2
  <2> QED
    BY <2>4, <2>5 DEF Records
<1>2. CASE Register(s)
  BY <1>1, <1>2, RegisterWrites
<1>3. CASE ChangeReplMode(s)
  BY <1>1, <1>3, ChangeWrites
<1>4. CASE UNCHANGED <<record, mysql_endpoints>>
  BY <1>4 DEF Types, Records
<1> QED
  BY <1>2, <1>3, <1>4

\* A thread takes a step of its own, the others do not move.
Goes(s, next) == next \in Thread /\ Sound(next) /\ app' = [app EXCEPT ![s] = next]

\* FindMaster begins a search.
Starts(s, op, e) ==
    [Idle EXCEPT !.pc = "find", !.op = op, !.end = e,
                 !.point = IF op = "stop" THEN PointOf[binlog[s]] ELSE @,
                 !.kids = {m \in Server : record[m] # {}}]

LEMMA FindMasterGoes ==
    ASSUME Types, NEW s \in Server, FindMaster(s), app' # app
    PROVE  \E op \in {"start", "stop", "rm"}, e \in Endpoint :
              app[s].pc = "idle" /\ Goes(s, Starts(s, op, e))
<1>1. PointOf[binlog[s]] \in Point
  BY DEF Types, Points, Point, Written
<1>2. PICK op \in {"start", "stop", "rm"}, e \in Endpoint :
          app[s].pc = "idle" /\ app' = [app EXCEPT ![s] = Starts(s, op, e)]
  BY DEF FindMaster, Call, Starts
<1>3. Starts(s, op, e) \in Thread /\ Sound(Starts(s, op, e))
  BY <1>1, RecordAssumption DEF Starts, Idle, Thread, Point, Lens, Sound
<1> QED
  BY <1>2, <1>3 DEF Goes

\* FindMaster_Get passes over a record it cannot get, or looks into one.
Passes(s, m) == [app[s] EXCEPT !.kids = @ \ {m}, !.failed = TRUE]
Found(s, m) == Cipher[app[s].end] \in ValuesOf(PairsIn[record[m]][app[s].len], "endpoint")
Looks(s, m) == [app[s] EXCEPT !.kids = @ \ {m}, !.len = NextLen(app[s].len, record[m]),
                              !.m = IF Found(s, m) THEN m ELSE @,
                              !.pc = IF Found(s, m) THEN app[s].op ELSE @]

LEMMA GetGoes ==
    ASSUME LoadsWhole, Types, NEW s \in Server, FindMaster_Get(s)
    PROVE  /\ app[s].pc = "find"
           /\ \/ app' = [app EXCEPT ![s] = Idle]
              \/ \E m \in app[s].kids :
                   \/ Goes(s, Passes(s, m))
                   \/ Readable[record[m]][app[s].len] /\ Goes(s, Looks(s, m))
<1>1. /\ app[s].pc = "find" /\ app[s] \in Thread /\ app[s].op \in {"start", "stop", "rm"}
      /\ \A m \in app[s].kids : record[m] # {} /\ record[m] \in Objects /\ m \in Server
  BY DEF FindMaster_Get, Types, Threads, Sound, Thread, Records
<1>2. PICK m \in app[s].kids :
          \/ app' = [app EXCEPT ![s] = Passes(s, m)]
          \/ app' = [app EXCEPT ![s] = Idle]
          \/ Readable[record[m]][app[s].len] /\ app' = [app EXCEPT ![s] = Looks(s, m)]
  <2>1. PICK m \in app[s].kids :
            LET next == [app[s] EXCEPT !.kids = @ \ {m}]
            IN  \/ app' = [app EXCEPT ![s] = [next EXCEPT !.failed = TRUE]]
                \/ Return(s)
                \/ /\ Readable[record[m]][app[s].len]
                   /\ app' = [app EXCEPT ![s] =
                         [next EXCEPT !.len = NextLen(app[s].len, record[m]),
                                      !.m = IF Found(s, m) THEN m ELSE @,
                                      !.pc = IF Found(s, m) THEN app[s].op ELSE @]]
    BY Zenon DEF FindMaster_Get, Found
  <2> DEFINE next == [app[s] EXCEPT !.kids = @ \ {m}]
  <2>2. [next EXCEPT !.failed = TRUE] = Passes(s, m)
    BY <1>1 DEF Passes, Thread
  <2>3. [next EXCEPT !.len = NextLen(app[s].len, record[m]),
                     !.m = IF Found(s, m) THEN m ELSE @,
                     !.pc = IF Found(s, m) THEN app[s].op ELSE @] = Looks(s, m)
    BY <1>1 DEF Looks, Thread
  <2> HIDE DEF next
  <2> QED
    BY <2>1, <2>2, <2>3, Zenon DEF Return, next
<1>3. Passes(s, m) \in Thread /\ Sound(Passes(s, m))
  BY <1>1 DEF Passes, Thread, Sound
<1>4. Looks(s, m) \in Thread /\ Sound(Looks(s, m))
  <2>1. NextLen(app[s].len, record[m]) \in Lens
    BY <1>1, NextLenInLens DEF Thread
  <2> QED
    BY <1>1, <2>1 DEF Looks, Thread, Sound
<1> QED
  BY <1>1, <1>2, <1>3, <1>4 DEF Goes

\* get_syncpoint lists the slaves, takes their points one by one, and sorts them.
Lists(m) == [Idle EXCEPT !.pc = "read", !.kids = Slaves(m)]
Leaves(m, s) == [app[m] EXCEPT !.kids = @ \ {s}, !.pc = IF app[m].kids = {s} THEN "sort" ELSE @]
Takes(m, s) == [Leaves(m, s) EXCEPT !.list = @ \cup ({syncpoint[m][s]} \ {NoPoint})]
Misses(m, s) == [Leaves(m, s) EXCEPT !.failed = TRUE]
Sorts(m, p) == [app[m] EXCEPT !.pc = "answer", !.point = p]

LEMMA GetSyncpointGoes ==
    ASSUME Types, NEW m \in Server, GetSyncpoint(m)
    PROVE  /\ app[m].pc = "idle"
           /\ \/ UNCHANGED <<app, owed>>
              \/ /\ Goes(m, Lists(m))
                 /\ owed' = [owed EXCEPT ![m] = [s \in Server |-> PlaceOf(syncpoint[m][s])]]
<1>1. Lists(m) \in Thread /\ Sound(Lists(m))
  BY RecordAssumption DEF Lists, Idle, Thread, Point, Lens, Sound, Slaves
<1> QED
  BY <1>1 DEF GetSyncpoint, Call, Goes, Lists

LEMMA ReadGoes ==
    ASSUME Types, NEW m \in Server, GetSyncpoint_Read(m)
    PROVE  /\ app[m].pc = "read"
           /\ \E s \in app[m].kids : Goes(m, Takes(m, s)) \/ Goes(m, Misses(m, s))
<1>1. PICK s \in app[m].kids :
          \/ app' = [app EXCEPT ![m] = Takes(m, s)]
          \/ app' = [app EXCEPT ![m] = Misses(m, s)]
  BY Zenon DEF GetSyncpoint_Read, Takes, Misses, Leaves
<1>2. app[m].pc = "read" /\ app[m] \in Thread /\ s \in Server
  BY DEF GetSyncpoint_Read, Types, Threads, Thread
<1>3. Leaves(m, s) \in Thread /\ Leaves(m, s).pc \in {"read", "sort"}
  BY <1>2 DEF Leaves, Thread
<1>4. {syncpoint[m][s]} \ {NoPoint} \subseteq Written
  BY <1>2 DEF Types, Points, Point
<1>5. Takes(m, s) \in Thread /\ Sound(Takes(m, s))
  BY <1>3, <1>4 DEF Takes, Thread, Sound
<1>6. Misses(m, s) \in Thread /\ Sound(Misses(m, s))
  BY <1>3 DEF Misses, Thread, Sound
<1> QED
  BY <1>1, <1>2, <1>5, <1>6 DEF Goes

LEMMA SortGoes ==
    ASSUME Types, NEW m \in Server, GetSyncpoint_Sort(m)
    PROVE  /\ app[m].pc = "sort"
           /\ \E p \in Point :
                 /\ app[m].list # {} => p \in app[m].list
                 /\ \A q \in app[m].list : ~Less(p, q)
                 /\ Goes(m, Sorts(m, p))
<1>1. app[m].pc = "sort" /\ app[m] \in Thread
  BY DEF GetSyncpoint_Sort, Types, Threads
<1>2. PICK p \in IF app[m].list # {} THEN app[m].list
                                     ELSE {NoPoint} \cup {PointOf[i] : i \in DOMAIN Log} :
          /\ \A q \in app[m].list : ~Less(p, q)
          /\ app' = [app EXCEPT ![m].pc = "answer", ![m].point = p]
  BY Zenon DEF GetSyncpoint_Sort
<1>3. p \in Point /\ (app[m].list # {} => p \in app[m].list)
  BY <1>1, <1>2 DEF Thread, Point, Written
<1>4. app' = [app EXCEPT ![m] = Sorts(m, p)]
  BY <1>1, <1>2 DEF Sorts, Types, Threads, Thread
<1>5. Sorts(m, p) \in Thread /\ Sound(Sorts(m, p))
  BY <1>1, <1>3 DEF Sorts, Thread, Sound
<1> QED
  BY <1>1, <1>2, <1>3, <1>4, <1>5 DEF Goes

\* A call ends.
Rests(s) == app' = [app EXCEPT ![s] = Idle]

\* What any step does to the threads: one of them moves at most, and it moves soundly.
LEMMA ThreadGoes ==
    ASSUME LoadsWhole, Types, Next
    PROVE  \/ UNCHANGED app
           \/ \E s \in Server : Rests(s) \/ \E next \in Thread : Goes(s, next)
<1>1. PICK s \in Server : Step(s)
  BY DEF Next, Step
<1>2. CASE Replicate(s) \/ Register(s) \/ ChangeReplMode(s)
  BY <1>2 DEF Replicate, Register, ChangeReplMode
<1>3. CASE FindMaster(s)
  BY <1>3, FindMasterGoes DEF Goes
<1>4. CASE FindMaster_Get(s)
  BY <1>4, GetGoes DEF Goes, Rests
<1>5. CASE FindMaster_None(s) \/ StartRepl(s) \/ StopRepl(s) \/ RmRepl(s) \/ GetSyncpoint_Answer(s)
  BY <1>5 DEF FindMaster_None, StartRepl, StopRepl, RmRepl, GetSyncpoint_Answer, Return, Rests
<1>6. CASE GetSyncpoint(s) \/ GetSyncpoint_Read(s) \/ GetSyncpoint_Sort(s)
  BY <1>6, GetSyncpointGoes, ReadGoes, SortGoes DEF Goes
<1> QED
  BY <1>1, <1>2, <1>3, <1>4, <1>5, <1>6 DEF Step

\* No call but these two writes a record.
LEMMA WhoWrites ==
    ASSUME Next
    PROVE  \E s \in Server :
              Register(s) \/ ChangeReplMode(s) \/ UNCHANGED <<record, mysql_endpoints>>
BY DEF Next, Replicate, FindMaster, FindMaster_Get, FindMaster_None, StartRepl, StopRepl, RmRepl,
       GetSyncpoint, GetSyncpoint_Read, GetSyncpoint_Sort, GetSyncpoint_Answer

LEMMA ThreadsKept ==
    ASSUME LoadsWhole, Types, Next
    PROVE  Threads'
<1>1. \A r \in Server : record[r] # {} => record'[r] # {}
  BY WhoWrites, RecordsKept
<1>2. ASSUME NEW t \in Thread, Sound(t) PROVE Sound(t)'
  BY <1>1, <1>2 DEF Sound, Thread
<1>3. Idle \in Thread /\ Sound(Idle)
  BY RecordAssumption DEF Idle, Thread, Point, Lens, Sound
<1>4. ASSUME NEW s \in Server, NEW next \in Thread, Sound(next), app' = [app EXCEPT ![s] = next]
      PROVE  Threads'
  BY <1>2, <1>4 DEF Types, Threads
<1>5. CASE UNCHANGED app
  BY <1>2, <1>5 DEF Types, Threads
<1> QED
  BY <1>3, <1>4, <1>5, ThreadGoes DEF Goes, Rests

\* Points are written, and owed, as places of the binlog.
LEMMA PointsKept ==
    ASSUME Types, Next
    PROVE  Points' /\ Counts'
<1>1. PICK s \in Server : Step(s)
  BY DEF Next, Step
<1>t. /\ syncpoint \in [Server -> [Server -> Point]] /\ binlog \in [Server -> DOMAIN Log]
      /\ owed \in [Server -> [Server -> 0..Len(Log)]]
      /\ calls \in [Server -> Nat] /\ errs \in 0..MaxErrs
      /\ app[s] \in Thread /\ MaxErrs \in Nat
  BY RecordAssumption DEF Types, Points, Counts, Threads
<1>c. ASSUME Ok \/ Drop PROVE errs' \in 0..MaxErrs
  BY <1>c, <1>t DEF Ok, Drop
<1>d. ASSUME NEW op, NEW e, Call(s, op, e) PROVE calls' \in [Server -> Nat]
  BY <1>d, <1>t DEF Call
<1>w. ASSUME NEW m \in Server, NEW p \in Point, Write(s, m, p)
      PROVE  syncpoint' \in [Server -> [Server -> Point]] /\ errs' \in 0..MaxErrs
  <2>1. [syncpoint EXCEPT ![m][s] = p] \in [Server -> [Server -> Point]]
    BY <1>t
  <2> QED
    BY <1>w, <1>t, <1>c, <2>1 DEF Write
<1>m. app[s].pc \in {"start", "stop", "rm"} => app[s].m \in Server
  BY DEF Types, Threads, Sound
<1>2. CASE Replicate(s)
  <2>1. DOMAIN Log = 1..Len(Log) /\ Len(Log) \in Nat
    BY RecordAssumption
  <2> QED
    BY <1>2, <1>t, <2>1 DEF Replicate, Points, Counts
<1>3. CASE Register(s) \/ ChangeReplMode(s) \/ FindMaster(s)
  BY <1>3, <1>t, <1>c, <1>d DEF Register, ChangeReplMode, FindMaster, Points, Counts
<1>4. CASE FindMaster_Get(s) \/ FindMaster_None(s) \/ GetSyncpoint_Read(s) \/ GetSyncpoint_Sort(s)
  BY <1>4, <1>t, <1>c
     DEF FindMaster_Get, FindMaster_None, GetSyncpoint_Read, GetSyncpoint_Sort, Points, Counts
<1>5. CASE StartRepl(s)
  <2>1. PointOf[binlog[s]] \in Point
    BY <1>t DEF Point, Written
  <2> QED
    BY <1>5, <1>t, <1>c, <1>w, <1>m, <2>1 DEF StartRepl, Points, Counts
<1>6. CASE StopRepl(s)
  <2>1. app[s].point \in Point
    BY <1>t DEF Thread
  <2> QED
    BY <1>6, <1>t, <1>c, <1>w, <1>m, <2>1 DEF StopRepl, Points, Counts
<1>7. CASE RmRepl(s)
  <2>1. NoPoint \in Point
    BY DEF Point
  <2>2. syncpoint' \in [Server -> [Server -> Point]] /\ errs' \in 0..MaxErrs
    BY <1>7, <1>t, <1>c, <1>w, <1>m, <2>1 DEF RmRepl
  <2>3. owed' \in [Server -> [Server -> 0..Len(Log)]]
    <3>1. Len(Log) \in Nat
      BY RecordAssumption
    <3>2. \E v \in {0, owed[app[s].m][s]} : owed' = [owed EXCEPT ![app[s].m][s] = v]
      BY <1>7, <1>t, <1>m DEF RmRepl
    <3>3. \A v \in {0, owed[app[s].m][s]} : v \in 0..Len(Log)
      BY <1>7, <1>t, <1>m, <3>1 DEF RmRepl
    <3> QED
      BY <1>7, <1>t, <1>m, <3>2, <3>3 DEF RmRepl
  <2> QED
    BY <1>7, <1>t, <2>2, <2>3 DEF RmRepl, Points, Counts
<1>8. CASE GetSyncpoint(s)
  <2>1. [t \in Server |-> PlaceOf(syncpoint[s][t])] \in [Server -> 0..Len(Log)]
    BY <1>t, PlaceType
  <2>2. owed' \in [Server -> [Server -> 0..Len(Log)]]
    BY <1>8, <1>t, <2>1 DEF GetSyncpoint
  <2> QED
    BY <1>8, <1>t, <1>c, <1>d, <2>2 DEF GetSyncpoint, Points, Counts
<1>9. CASE GetSyncpoint_Answer(s)
  <2>1. NothingOwed \in [Server -> 0..Len(Log)]
    BY RecordAssumption DEF NothingOwed
  <2> QED
    BY <1>9, <1>t, <2>1 DEF GetSyncpoint_Answer, Points, Counts
<1> QED
  BY <1>1, <1>2, <1>3, <1>4, <1>5, <1>6, <1>7, <1>8, <1>9 DEF Step

LEMMA TypesKept ==
    ASSUME LoadsWhole, Types, [Next]_vars
    PROVE  Types'
<1>1. CASE Next
  BY <1>1, WhoWrites, RecordsKept, ThreadsKept, PointsKept DEF Types
<1>2. CASE UNCHANGED vars
  BY <1>2 DEF vars, Types, Records, Points, Threads, Sound, Counts
<1> QED
  BY <1>1, <1>2

LEMMA TypesHold == ASSUME LoadsWhole PROVE Spec => []Types
<1>1. Types /\ [Next]_vars => Types'
  BY TypesKept
<1> QED
  BY InitTypes, <1>1, PTL DEF Spec

\* No step leaves the types, whatever is up when a server starts and however short a
\* buffer has become: the length a record is read with is that of a record there may be.
THEOREM RecordTypes == LoadsWhole => (Spec => []TypeOK)
<1> SUFFICES ASSUME LoadsWhole PROVE Spec => []TypeOK
  OBVIOUS
<1>1. Types => TypeOK
  BY LensAreLengths DEF Types, Records, Points, Threads, Thread, Counts, TypeOK
<1> QED
  BY <1>1, TypesHold, PTL

-----------------------------------------------------------------------------
(* The search for the master                                                *)

\* The record of a server every address of which is known has not been passed over.
Sought(s) ==
    \A m \in Recorded :
        app[s].pc = "find" /\ ~app[s].failed /\ (\A up \in Interfaces[m] : app[s].end \in up)
        => m \in app[s].kids

\* A thread that does not search after the step has nothing to show.
LEMMA SearchGoes ==
    ASSUME LoadsWhole, Types, Next, NEW s \in Server, app'[s] # app[s], app'[s].pc = "find"
    PROVE  \/ \E op \in {"start", "stop", "rm"}, e \in Endpoint : app'[s] = Starts(s, op, e)
           \/ /\ app[s].pc = "find"
              /\ \E m \in app[s].kids :
                   \/ app'[s] = Passes(s, m)
                   \/ Readable[record[m]][app[s].len] /\ app'[s] = Looks(s, m)
<1>1. PICK r \in Server : Step(r)
  BY DEF Next, Step
<1>a. app \in [Server -> Thread]
  BY DEF Types, Threads
<1>b. ASSUME NEW next, app' = [app EXCEPT ![r] = next] PROVE r = s /\ app'[s] = next
  BY <1>a, <1>b
<1>i. app' # [app EXCEPT ![r] = Idle]
  <2>1. Idle.pc # "find"
    BY DEF Idle
  <2>2. ASSUME app' = [app EXCEPT ![r] = Idle] PROVE app'[s] = Idle
    BY <1>b, <2>2, Zenon
  <2> QED
    BY <2>1, <2>2
<1>2. CASE Replicate(r) \/ Register(r) \/ ChangeReplMode(r)
  BY <1>2 DEF Replicate, Register, ChangeReplMode
<1>3. CASE FindMaster(r)
  <2>1. PICK op \in {"start", "stop", "rm"}, e \in Endpoint : Goes(r, Starts(r, op, e))
    BY <1>3, FindMasterGoes
  <2> QED
    BY <1>b, <2>1 DEF Goes
<1>4. CASE FindMaster_Get(r)
  <2>2. PICK m \in app[r].kids :
            \/ Goes(r, Passes(r, m))
            \/ Readable[record[m]][app[r].len] /\ Goes(r, Looks(r, m))
    BY <1>4, <1>i, GetGoes
  <2>3. app[r].pc = "find"
    BY <1>4, GetGoes
  <2> QED
    BY <1>b, <2>2, <2>3 DEF Goes
<1>5. CASE FindMaster_None(r) \/ StartRepl(r) \/ StopRepl(r) \/ RmRepl(r) \/ GetSyncpoint_Answer(r)
  <2>1. app' = [app EXCEPT ![r] = Idle]
    BY <1>5 DEF FindMaster_None, StartRepl, StopRepl, RmRepl, GetSyncpoint_Answer, Return
  <2> QED
    BY <1>i, <2>1
<1>6. CASE GetSyncpoint(r)
  <2>1. app' = [app EXCEPT ![r] = Lists(r)]
    BY <1>6, GetSyncpointGoes DEF Goes
  <2> QED
    BY <1>b, <2>1 DEF Lists, Idle
<1>7. CASE GetSyncpoint_Read(r)
  <2>1. PICK t \in app[r].kids : Goes(r, Takes(r, t)) \/ Goes(r, Misses(r, t))
    BY <1>7, ReadGoes
  <2>2. app[r].pc = "read" /\ app[r] \in Thread
    BY <1>7, <1>a, ReadGoes
  <2>3. Takes(r, t).pc # "find" /\ Misses(r, t).pc # "find"
    BY <2>2 DEF Takes, Misses, Leaves, Thread
  <2> QED
    BY <1>b, <2>1, <2>3 DEF Goes
<1>8. CASE GetSyncpoint_Sort(r)
  <2>1. PICK p \in Point : Goes(r, Sorts(r, p))
    BY <1>8, SortGoes
  <2>2. Sorts(r, p).pc = "answer"
    <3>1. app[r] \in Thread
      BY <1>a
    <3> QED
      BY <3>1 DEF Sorts, Thread
  <2> QED
    BY <1>b, <2>1, <2>2 DEF Goes
<1> QED
  BY <1>1, <1>2, <1>3, <1>4, <1>5, <1>6, <1>7, <1>8 DEF Step

\* A record that loads at all has the ciphers that the server put into it.
LEMMA RecordTells ==
    ASSUME LoadsWhole, Types, NEW s \in Server, NEW m \in Recorded,
           \A up \in Interfaces[m] : app[s].end \in up,
           Readable[record[m]][app[s].len]
    PROVE  Found(s, m)
<1>0. m \in Server
  BY RecordAssumption
<1>1. record[m] \in RecordsOf(m) /\ record[m] \in Objects /\ app[s].len \in Lens
  BY <1>0, RecordsAreObjects DEF Types, Records, Threads, Thread
<1>2. PairsIn[record[m]][app[s].len] = record[m]
  BY <1>1 DEF LoadsWhole
<1>3. PICK up \in Interfaces[m], mode \in {"sync", "async"} :
          record[m] = Object(CiphersOf(up), mode)
  BY <1>1 DEF RecordsOf
<1>4. ValuesOf(record[m], "endpoint") = CiphersOf(up)
  BY <1>3, ObjectHolds
<1>5. Cipher[app[s].end] \in CiphersOf(up)
  BY DEF CiphersOf
<1> QED
  BY <1>2, <1>4, <1>5 DEF Found

\* Neither what the search does nor what a server writes meanwhile loses a record.
LEMMA SoughtKept ==
    ASSUME LoadsWhole, Types, Next, NEW s \in Server, Sought(s)
    PROVE  Sought(s)'
<1> SUFFICES ASSUME app'[s] # app[s], app'[s].pc = "find", ~app'[s].failed, NEW m \in Recorded,
                    \A up \in Interfaces[m] : app'[s].end \in up
             PROVE  m \in app'[s].kids
  BY DEF Sought
<1>0. m \in Server /\ app[s] \in Thread
  BY RecordAssumption DEF Types, Threads
<1>1. ASSUME NEW op \in {"start", "stop", "rm"}, NEW e \in Endpoint, app'[s] = Starts(s, op, e)
      PROVE  m \in app'[s].kids
  BY <1>0, <1>1 DEF Starts, Idle, Types, Records
<1>2. ASSUME NEW k, app'[s] = Passes(s, k)
      PROVE  FALSE
  BY <1>0, <1>2 DEF Passes, Thread
<1>3. ASSUME app[s].pc = "find", NEW k \in app[s].kids, Readable[record[k]][app[s].len],
             app'[s] = Looks(s, k)
      PROVE  m \in app'[s].kids
  <2>1. /\ app'[s].kids = app[s].kids \ {k} /\ app'[s].failed = app[s].failed
        /\ app'[s].end = app[s].end
    BY <1>0, <1>3 DEF Looks, Thread
  <2>2. ~Found(s, k)
    <3>1. app[s].op # "find"
      BY <1>0 DEF Thread
    <3> QED
      BY <1>0, <1>3, <3>1 DEF Looks, Thread
  <2>3. m # k
    BY <1>3, <2>1, <2>2, RecordTells
  <2>4. m \in app[s].kids
    BY <1>3, <2>1 DEF Sought
  <2> QED
    BY <2>1, <2>3, <2>4
<1> QED
  BY <1>1, <1>2, <1>3, SearchGoes

\* For any number of servers and addresses: a search by start_repl, stop_repl or rm_repl
\* that ends without a master, and could read each record it looked at, had an address
\* that some start of each server is without; records that change under the search, by
\* a server that starts again or changes its mode, do not hide it.
THEOREM SearchFinds == LoadsWhole => (Spec => []FoundIfRead)
<1> SUFFICES ASSUME LoadsWhole PROVE Spec => []FoundIfRead
  OBVIOUS
<1> DEFINE SearchInv == Types /\ \A s \in Server : Sought(s)
<1>1. Init => SearchInv
  <2>1. ASSUME Init, NEW s \in Server PROVE app[s] = Idle
    BY <2>1 DEF Init
  <2>2. Idle.pc = "idle"
    BY DEF Idle
  <2> QED
    BY InitTypes, <2>1, <2>2 DEF Sought
<1>2. SearchInv /\ [Next]_vars => SearchInv'
  <2>1. CASE UNCHANGED vars
    BY <2>1, TypesKept DEF vars, Sought
  <2>2. SearchInv /\ Next => SearchInv'
    BY TypesKept, SoughtKept
  <2> QED
    BY <2>1, <2>2
<1>3. SearchInv => FoundIfRead
  BY DEF Sought, FoundIfRead
<1> QED
  BY <1>1, <1>2, <1>3, PTL DEF Spec

-----------------------------------------------------------------------------
(* The mode                                                                 *)

LEMMA OthersSpareRecord ==
    ASSUME NEW s \in Server, Next, ~Register(s), ~ChangeReplMode(s), Types
    PROVE  record'[s] = record[s]
BY DEF Next, Types, Records, Register, ChangeReplMode,
       Replicate, FindMaster, FindMaster_Get, FindMaster_None, StartRepl, StopRepl, RmRepl,
       GetSyncpoint, GetSyncpoint_Read, GetSyncpoint_Sort, GetSyncpoint_Answer

\* Whatever interfaces a server starts with, register_server keeps the mode it finds, or it
\* finds a record that is longer than the buffer, and makes it sync: there is no third way
\* to lose a mode, though the record is read, written and written again with lost replies.
THEOREM ModeSurvives == LoadsWhole /\ FittingLoad => (Spec => ModeKept)
<1> SUFFICES ASSUME LoadsWhole, FittingLoad PROVE Spec => ModeKept
  OBVIOUS
<1>1. ASSUME Types, Next, NEW s \in Server, record[s] # {},
             ModeOf(record[s]) # ModeOf(record'[s]), ~ChangeReplMode(s)
      PROVE  ~Fitting(record[s]) /\ ModeOf(record'[s]) = "sync"
  <2>1. Register(s)
    BY <1>1, OthersSpareRecord
  <2>2. PICK up \in Interfaces[s], mode \in {"sync", "async"} :
            /\ record' \in {record, [record EXCEPT ![s] = Object(CiphersOf(up), mode)]}
            /\ \/ record[s] = {} \/ ModeOf(record[s]) = mode
               \/ ~Readable[record[s]][BufferLen] /\ mode = "sync"
    BY <1>1, <2>1, RegisterWrites
  <2>3. record'[s] = Object(CiphersOf(up), mode)
    BY <1>1, <2>2 DEF Types, Records
  <2>4. ModeOf(record'[s]) = mode
    BY <2>3, ObjectHolds
  <2>5. ~Readable[record[s]][BufferLen] /\ mode = "sync"
    BY <1>1, <2>2, <2>4
  <2>6. record[s] \in Objects
    BY <1>1, RecordsAreObjects DEF Types, Records
  <2> QED
    BY <2>4, <2>5, <2>6 DEF FittingLoad
<1>2. Types /\ [Next]_vars => [\A s \in Server :
          record[s] # {} /\ ModeOf(record[s]) # ModeOf(record'[s])
          => \/ ChangeReplMode(s)
             \/ ~Fitting(record[s]) /\ ModeOf(record'[s]) = "sync"]_vars
  BY <1>1
<1> QED
  BY <1>2, TypesHold, PTL DEF Spec, ModeKept

-----------------------------------------------------------------------------
(* The sync point                                                           *)

\* The places of the binlog and the texts of the points are in one order.
LEMMA PlacesInOrder ==
    ASSUME TextsReflectPlaces
    PROVE  /\ \A i \in DOMAIN Log : PlaceOf(PointOf[i]) = i
           /\ \A p, q \in Written : ~Less(p, q) => PlaceOf(q) <= PlaceOf(p)
           /\ \A p \in Written : PlaceOf(p) \in DOMAIN Log /\ PlaceOf(p) \in Nat \ {0}
           /\ PlaceOf(NoPoint) = 0
<1>1. DOMAIN Log = 1..Len(Log) /\ Len(Log) \in Nat
  BY RecordAssumption
<1>2. ASSUME NEW i \in DOMAIN Log, NEW j \in DOMAIN Log
      PROVE  Before(Log[i], Log[j]) <=> i < j
  <2>1. Log[i] \in Place /\ Log[j] \in Place /\ i \in Nat /\ j \in Nat
    BY <1>1, RecordAssumption
  <2>2. i < j => Before(Log[i], Log[j])
    BY <1>1, RecordAssumption
  <2>3. j < i => Before(Log[j], Log[i])
    BY <1>1, RecordAssumption
  <2>4. ~(Before(Log[i], Log[j]) /\ Before(Log[j], Log[i]))
    BY <2>1 DEF Before, Place
  <2> QED
    BY <2>1, <2>2, <2>3, <2>4
<1>3. ASSUME NEW i \in DOMAIN Log, NEW j \in DOMAIN Log
      PROVE  PointOf[i] # NoPoint /\ (Less(PointOf[i], PointOf[j]) <=> i < j)
  BY <1>2 DEF TextsReflectPlaces
<1>4. ASSUME NEW i \in DOMAIN Log, NEW j \in DOMAIN Log, PointOf[i] = PointOf[j] PROVE i = j
  <2>1. (Less(PointOf[i], PointOf[j]) <=> i < j) /\ (Less(PointOf[i], PointOf[i]) <=> i < i)
        /\ (Less(PointOf[j], PointOf[i]) <=> j < i)
    BY <1>3
  <2> QED
    BY <1>1, <1>4, <2>1
<1>5. ASSUME NEW p \in Written
      PROVE  PlaceOf(p) \in DOMAIN Log /\ PointOf[PlaceOf(p)] = p
  BY <1>3, PlaceType DEF Written
<1>6. ASSUME NEW i \in DOMAIN Log PROVE PlaceOf(PointOf[i]) = i
  BY <1>4, <1>5 DEF Written
<1>7. ASSUME NEW p \in Written, NEW q \in Written, ~Less(p, q) PROVE PlaceOf(q) <= PlaceOf(p)
  <2>1. Less(PointOf[PlaceOf(p)], PointOf[PlaceOf(q)]) <=> PlaceOf(p) < PlaceOf(q)
    BY <1>3, <1>5
  <2> QED
    BY <1>1, <1>5, <1>7, <2>1
<1> QED
  BY <1>1, <1>5, <1>6, <1>7, PlaceType

\* No text of a slave is ahead of the binlog it reads, and one it is about to write, which
\* it asked for before its search, is behind none it has written.
Behind(s) ==
    /\ \A m \in Server : PlaceOf(syncpoint[m][s]) <= binlog[s]
    /\ app[s].pc \in {"find", "stop"} /\ app[s].op = "stop"
       => /\ app[s].point \in Written /\ PlaceOf(app[s].point) <= binlog[s]
          /\ \A m \in Server : PlaceOf(syncpoint[m][s]) <= PlaceOf(app[s].point)

Answering(m) == app[m].pc \in {"read", "sort", "answer"}

\* What is owed for a slave is no more than what its znode holds now.
Current(m) == Answering(m) => \A s \in Server : owed[m][s] <= PlaceOf(syncpoint[m][s])

\* A slave for which something is owed is still to be read, or a point as late is in the
\* list, or is the answer.
Covered(m) ==
    /\ app[m].pc \in {"sort", "answer"} => app[m].kids = {}
    /\ Answering(m) /\ ~app[m].failed
       => \A s \in Server :
             \/ owed[m][s] = 0
             \/ /\ app[m].pc # "answer"
                /\ s \in app[m].kids \/ \E p \in app[m].list : owed[m][s] <= PlaceOf(p)
             \/ app[m].pc = "answer" /\ owed[m][s] <= PlaceOf(app[m].point)

\* A step of r writes no points but its own.
LEMMA OthersSpareThread ==
    ASSUME LoadsWhole, Types, NEW r \in Server, NEW s \in Server, s # r,
           Step(r)
    PROVE  /\ app'[s] = app[s] /\ binlog'[s] = binlog[s]
           /\ \A m \in Server : syncpoint'[m][s] = syncpoint[m][s]
<1>1. /\ app \in [Server -> Thread] /\ binlog \in [Server -> DOMAIN Log]
      /\ syncpoint \in [Server -> [Server -> Point]]
  BY DEF Types, Threads, Points
<1>2. UNCHANGED app \/ \E next : app' = [app EXCEPT ![r] = next]
  <2>1. CASE Replicate(r) \/ Register(r) \/ ChangeReplMode(r)
    BY <2>1 DEF Replicate, Register, ChangeReplMode
  <2>2. CASE FindMaster(r)
    BY <2>2, FindMasterGoes DEF Goes
  <2>3. CASE FindMaster_Get(r)
    BY <2>3, GetGoes DEF Goes
  <2>4. CASE \/ FindMaster_None(r) \/ StartRepl(r) \/ StopRepl(r) \/ RmRepl(r)
             \/ GetSyncpoint_Answer(r)
    BY <2>4 DEF FindMaster_None, StartRepl, StopRepl, RmRepl, GetSyncpoint_Answer, Return
  <2>5. CASE GetSyncpoint(r) \/ GetSyncpoint_Read(r) \/ GetSyncpoint_Sort(r)
    BY <2>5, GetSyncpointGoes, ReadGoes, SortGoes DEF Goes
  <2> QED
    BY <2>1, <2>2, <2>3, <2>4, <2>5 DEF Step
<1>3. app'[s] = app[s]
  BY <1>1, <1>2
<1>4. binlog'[s] = binlog[s]
  BY <1>1 DEF Step, Replicate, Register, ChangeReplMode,
       FindMaster, FindMaster_Get, FindMaster_None, StartRepl, StopRepl, RmRepl,
       GetSyncpoint, GetSyncpoint_Read, GetSyncpoint_Sort, GetSyncpoint_Answer
<1>5. UNCHANGED syncpoint \/ \E m, p : syncpoint' = [syncpoint EXCEPT ![m][r] = p]
  BY DEF Step, Replicate, Register, ChangeReplMode, FindMaster, FindMaster_Get, FindMaster_None,
       StartRepl, StopRepl, RmRepl, Write,
       GetSyncpoint, GetSyncpoint_Read, GetSyncpoint_Sort, GetSyncpoint_Answer
<1>6. ASSUME NEW m \in Server PROVE syncpoint'[m][s] = syncpoint[m][s]
  BY <1>1, <1>5
<1> QED
  BY <1>3, <1>4, <1>6

\* After its own step a server has written nothing ahead of its binlog, and goes back
\* behind nothing it has written.
LEMMA OwnBehind ==
    ASSUME LoadsWhole, TextsReflectPlaces, Types, NEW s \in Server, Behind(s),
           Step(s)
    PROVE  Behind(s)'
<1>0. /\ app \in [Server -> Thread] /\ app[s] \in Thread /\ binlog \in [Server -> DOMAIN Log]
      /\ syncpoint \in [Server -> [Server -> Point]]
      /\ DOMAIN Log = 1..Len(Log) /\ Len(Log) \in Nat
      /\ \A p \in Point : PlaceOf(p) \in Nat
  BY RecordAssumption, PlaceType DEF Types, Threads, Points
<1>i. Idle.pc = "idle"
  BY DEF Idle
<1>1. CASE Replicate(s)
  <2>1. UNCHANGED <<syncpoint, app>> /\ binlog' = [binlog EXCEPT ![s] = @ + 1]
    BY <1>1 DEF Replicate
  <2>2. binlog[s] \in Nat /\ binlog'[s] = binlog[s] + 1
    BY <1>0, <2>1
  <2>3. app[s].point \in Point
    BY <1>0 DEF Thread
  <2>4. \A m \in Server : PlaceOf(syncpoint[m][s]) \in Nat
    BY <1>0
  <2> QED
    BY <1>0, <2>1, <2>2, <2>3, <2>4 DEF Behind
<1>2. CASE Register(s) \/ ChangeReplMode(s)
  BY <1>2 DEF Register, ChangeReplMode, Behind
<1>3. CASE FindMaster(s)
  <2>1. CASE app' = app
    BY <1>3, <2>1 DEF FindMaster, Behind
  <2>2. CASE app' # app
    <3>1. PICK op \in {"start", "stop", "rm"}, e \in Endpoint : Goes(s, Starts(s, op, e))
      BY <1>3, <2>2, FindMasterGoes
    <3>2. app'[s] = Starts(s, op, e) /\ UNCHANGED <<syncpoint, binlog>>
      BY <1>0, <1>3, <3>1 DEF Goes, FindMaster
    <3>3. app'[s].op = op /\ (op = "stop" => app'[s].point = PointOf[binlog[s]])
      BY <3>2 DEF Starts, Idle
    <3>4. PlaceOf(PointOf[binlog[s]]) = binlog[s] /\ PointOf[binlog[s]] \in Written
      BY <1>0, PlacesInOrder DEF Written
    <3> QED
      BY <1>0, <3>2, <3>3, <3>4 DEF Behind
  <2> QED
    BY <2>1, <2>2
<1>4. CASE FindMaster_Get(s)
  <2>1. app[s].pc = "find" /\ UNCHANGED <<syncpoint, binlog>>
    BY <1>4 DEF FindMaster_Get
  <2>2. CASE app' = [app EXCEPT ![s] = Idle]
    BY <1>0, <1>i, <2>1, <2>2 DEF Behind
  <2>3. ASSUME NEW m \in app[s].kids, Goes(s, Passes(s, m)) \/ Goes(s, Looks(s, m))
        PROVE  Behind(s)'
    <3>1. app'[s] = Passes(s, m) \/ app'[s] = Looks(s, m)
      BY <1>0, <2>3 DEF Goes
    <3>2. app'[s].op = app[s].op /\ app'[s].point = app[s].point
      BY <1>0, <3>1 DEF Passes, Looks, Thread
    <3> QED
      BY <2>1, <3>2 DEF Behind
  <2> QED
    BY <1>4, <2>2, <2>3, GetGoes
<1>5. CASE FindMaster_None(s) \/ GetSyncpoint_Answer(s)
  <2>1. UNCHANGED <<syncpoint, binlog>> /\ app'[s] = Idle
    BY <1>0, <1>5 DEF FindMaster_None, GetSyncpoint_Answer, Return
  <2> QED
    BY <1>i, <2>1 DEF Behind
<1>6. CASE StartRepl(s) \/ StopRepl(s) \/ RmRepl(s)
  <2>1. UNCHANGED binlog /\ app'[s] = Idle
    BY <1>0, <1>6 DEF StartRepl, StopRepl, RmRepl, Return
  <2>2. PICK p : /\ \/ p = NoPoint \/ p = PointOf[binlog[s]]
                    \/ app[s].pc = "stop" /\ p = app[s].point
                 /\ UNCHANGED syncpoint \/ \E m : syncpoint' = [syncpoint EXCEPT ![m][s] = p]
    BY <1>6 DEF StartRepl, StopRepl, RmRepl, Write
  <2>3. PlaceOf(p) <= binlog[s]
    <3>1. app[s].pc = "stop" => app[s].op = "stop"
      BY DEF Types, Threads, Sound
    <3> QED
      BY <1>0, <2>2, <3>1, PlacesInOrder DEF Behind
  <2>4. ASSUME NEW k \in Server PROVE syncpoint'[k][s] \in {syncpoint[k][s], p}
    <3>1. ASSUME NEW m, syncpoint' = [syncpoint EXCEPT ![m][s] = p]
          PROVE  syncpoint'[k][s] \in {syncpoint[k][s], p}
      <4>1. syncpoint[k] \in [Server -> Point]
        BY <1>0
      <4>2. CASE k = m
        BY <1>0, <3>1, <4>1, <4>2
      <4>3. CASE k # m
        BY <1>0, <3>1, <4>3
      <4> QED
        BY <4>2, <4>3
    <3> QED
      BY <2>2, <3>1
  <2> QED
    BY <1>i, <2>1, <2>3, <2>4 DEF Behind
<1>7. CASE GetSyncpoint(s)
  <2>0. UNCHANGED <<syncpoint, binlog>>
    BY <1>7 DEF GetSyncpoint
  <2>1. app' = app \/ app'[s] = Lists(s)
    BY <1>0, <1>7, GetSyncpointGoes DEF Goes
  <2>2. Lists(s).pc = "read"
    BY DEF Lists, Idle
  <2> QED
    BY <2>0, <2>1, <2>2 DEF Behind
<1>8. CASE GetSyncpoint_Read(s)
  <2>1. PICK t \in app[s].kids : Goes(s, Takes(s, t)) \/ Goes(s, Misses(s, t))
    BY <1>8, ReadGoes
  <2>2. app[s].pc = "read"
    BY <1>8 DEF GetSyncpoint_Read
  <2>3. Takes(s, t).pc \in {"read", "sort"} /\ Misses(s, t).pc \in {"read", "sort"}
    BY <1>0, <2>2 DEF Takes, Misses, Leaves, Thread
  <2>4. UNCHANGED <<syncpoint, binlog>> /\ app'[s].pc \in {"read", "sort"}
    BY <1>0, <1>8, <2>1, <2>3 DEF Goes, GetSyncpoint_Read
  <2> QED
    BY <2>4 DEF Behind
<1>9. CASE GetSyncpoint_Sort(s)
  <2>1. PICK p \in Point : Goes(s, Sorts(s, p))
    BY <1>9, SortGoes
  <2>2. Sorts(s, p).pc = "answer"
    BY <1>0 DEF Sorts, Thread
  <2>3. UNCHANGED <<syncpoint, binlog>> /\ app'[s].pc = "answer"
    BY <1>0, <1>9, <2>1, <2>2 DEF Goes, GetSyncpoint_Sort
  <2> QED
    BY <2>3 DEF Behind
<1> QED
  BY <1>1, <1>2, <1>3, <1>4, <1>5, <1>6, <1>7, <1>8, <1>9 DEF Step

\* Only get_syncpoint makes something owed; any other step forgets it, or leaves it and
\* the point of the slave gets no older.
LEMMA PointsRise ==
    ASSUME LoadsWhole, TextsReflectPlaces, Types, NEW r \in Server, Behind(r), Step(r),
           ~GetSyncpoint(r), NEW m \in Server, NEW s \in Server
    PROVE  \/ owed'[m][s] = 0
           \/ /\ owed'[m][s] = owed[m][s]
              /\ owed[m][s] <= PlaceOf(syncpoint[m][s]) => owed[m][s] <= PlaceOf(syncpoint'[m][s])
<1>l. Len(Log) \in Nat /\ DOMAIN Log = 1..Len(Log)
  BY RecordAssumption
<1>p. \A p \in Point : PlaceOf(p) \in Nat
  BY <1>l, PlaceType
<1>t. /\ syncpoint \in [Server -> [Server -> Point]] /\ binlog \in [Server -> DOMAIN Log]
      /\ owed \in [Server -> [Server -> 0..Len(Log)]]
  BY DEF Types, Points
<1>a. app[r].pc \in {"start", "stop", "rm"} => app[r].op = app[r].pc /\ app[r].m \in Server
  BY DEF Types, Threads, Sound
<1>0. /\ syncpoint \in [Server -> [Server -> Point]] /\ binlog \in [Server -> DOMAIN Log]
      /\ owed \in [Server -> [Server -> 0..Len(Log)]] /\ Len(Log) \in Nat
      /\ DOMAIN Log = 1..Len(Log)
      /\ \A p \in Point : PlaceOf(p) \in Nat
      /\ app[r].pc \in {"start", "stop", "rm"} => app[r].op = app[r].pc /\ app[r].m \in Server
  BY <1>l, <1>p, <1>t, <1>a
<1>o. owed[m][s] \in Nat /\ PlaceOf(syncpoint[m][s]) \in Nat
  <2>1. owed[m] \in [Server -> 0..Len(Log)] /\ syncpoint[m] \in [Server -> Point]
    BY <1>t
  <2>2. owed[m][s] \in 0..Len(Log) /\ syncpoint[m][s] \in Point
    BY <2>1
  <2> QED
    BY <1>l, <1>p, <2>2
<1>1. CASE UNCHANGED <<owed, syncpoint>>
  BY <1>1
<1>2. CASE StartRepl(r)
  <2>1. UNCHANGED owed
    BY <1>2 DEF StartRepl
  <2>2. CASE UNCHANGED syncpoint
    BY <2>1, <2>2
  <2>3. CASE syncpoint # syncpoint'
    <3>1. /\ syncpoint[app[r].m][r] = NoPoint
          /\ syncpoint' = [syncpoint EXCEPT ![app[r].m][r] = PointOf[binlog[r]]]
      BY <1>2, <2>3 DEF StartRepl, Write
    <3>2. syncpoint'[m][s] = syncpoint[m][s] \/ syncpoint[m][s] = NoPoint
      BY <1>0, <3>1
    <3>3. syncpoint[m][s] = NoPoint => owed[m][s] = 0 \/ ~(owed[m][s] <= PlaceOf(syncpoint[m][s]))
      BY <1>o, PlacesInOrder
    <3> QED
      BY <2>1, <3>2, <3>3
  <2> QED
    BY <2>2, <2>3
<1>3. CASE StopRepl(r)
  <2>1. UNCHANGED owed
    BY <1>3 DEF StopRepl
  <2>2. CASE UNCHANGED syncpoint
    BY <2>1, <2>2
  <2>3. CASE syncpoint # syncpoint'
    <3>1. syncpoint' = [syncpoint EXCEPT ![app[r].m][r] = app[r].point] /\ app[r].pc = "stop"
      BY <1>3, <2>3 DEF StopRepl, Write
    <3>2. syncpoint'[m][s] = syncpoint[m][s] \/ (s = r /\ syncpoint'[m][s] = app[r].point)
      BY <1>0, <3>1
    <3>3. PlaceOf(syncpoint[m][r]) <= PlaceOf(app[r].point) /\ PlaceOf(app[r].point) \in Nat
      BY <1>0, <3>1, PlacesInOrder DEF Behind
    <3> QED
      BY <1>o, <2>1, <3>2, <3>3
  <2> QED
    BY <2>2, <2>3
<1>4. CASE RmRepl(r)
  <2>1. PICK a \in Server :
            /\ syncpoint' = syncpoint \/ syncpoint' = [syncpoint EXCEPT ![a][r] = NoPoint]
            /\ owed' = [owed EXCEPT ![a][r] =
                          IF syncpoint'[a][r] = NoPoint THEN 0 ELSE owed[a][r]]
    <3>1. app[r].m \in Server
      BY <1>a, <1>4 DEF RmRepl
    <3>2. /\ syncpoint' = syncpoint \/ syncpoint' = [syncpoint EXCEPT ![app[r].m][r] = NoPoint]
          /\ owed' = [owed EXCEPT ![app[r].m][r] =
                         IF syncpoint'[app[r].m][r] = NoPoint THEN 0 ELSE owed[app[r].m][r]]
      BY <1>t, <1>4, <3>1 DEF RmRepl, Write
    <3> QED
      BY <3>1, <3>2
  <2>2. owed[a] \in [Server -> 0..Len(Log)] /\ syncpoint[a] \in [Server -> Point]
    BY <1>t
  <2> DEFINE v == IF syncpoint'[a][r] = NoPoint THEN 0 ELSE owed[a][r]
  <2>3. owed'[a] = [owed[a] EXCEPT ![r] = v]
    BY <1>t, <2>1
  <2>4. syncpoint'[a] = syncpoint[a] \/ syncpoint'[a] = [syncpoint[a] EXCEPT ![r] = NoPoint]
    BY <1>t, <2>1
  <2>5. CASE m = a /\ s = r
    <3>1. owed'[m][s] = v
      BY <2>2, <2>3, <2>5
    <3>2. syncpoint'[m][s] \in {syncpoint[m][s], NoPoint}
      BY <2>2, <2>4, <2>5
    <3> QED
      BY <2>1, <2>5, <3>1, <3>2
  <2>6. CASE m = a /\ s # r
    BY <2>2, <2>3, <2>4, <2>6
  <2>7. CASE m # a
    BY <1>t, <2>1, <2>7
  <2> QED
    BY <2>5, <2>6, <2>7
<1>5. CASE GetSyncpoint_Answer(r)
  <2>1. UNCHANGED syncpoint /\ owed' = [owed EXCEPT ![r] = NothingOwed]
    BY <1>5 DEF GetSyncpoint_Answer
  <2>2. NothingOwed[s] = 0
    BY DEF NothingOwed
  <2>3. owed'[m] = owed[m] \/ owed'[m] = NothingOwed
    BY <1>0, <2>1
  <2> QED
    BY <2>1, <2>2, <2>3
<1>6. CASE \/ Replicate(r) \/ Register(r) \/ ChangeReplMode(r)
           \/ FindMaster(r) \/ FindMaster_Get(r) \/ FindMaster_None(r)
           \/ GetSyncpoint_Read(r) \/ GetSyncpoint_Sort(r)
  BY <1>1, <1>6 DEF Replicate, Register, ChangeReplMode, FindMaster, FindMaster_Get,
                    FindMaster_None, GetSyncpoint_Read, GetSyncpoint_Sort
<1> QED
  BY <1>2, <1>3, <1>4, <1>5, <1>6 DEF Step

\* A thread that answers takes no step but those of get_syncpoint, and reads mysqld's binlog.
LEMMA AnswerSteps ==
    ASSUME LoadsWhole, Types, NEW m \in Server, Step(m), Answering(m)'
    PROVE  \/ UNCHANGED app /\ ~GetSyncpoint(m)
           \/ GetSyncpoint(m) /\ app'[m] = Lists(m)
           \/ GetSyncpoint_Read(m) \/ GetSyncpoint_Sort(m)
<1>a. app \in [Server -> Thread] /\ app[m] \in Thread
  BY DEF Types, Threads
<1>i. app' # [app EXCEPT ![m] = Idle]
  <2>1. ASSUME app' = [app EXCEPT ![m] = Idle] PROVE app'[m] = Idle
    BY <1>a, <2>1
  <2>2. Idle.pc = "idle"
    BY DEF Idle
  <2> QED
    BY <2>1, <2>2 DEF Answering
<1>1. CASE Replicate(m) \/ Register(m) \/ ChangeReplMode(m)
  <2>1. UNCHANGED app
    BY <1>1 DEF Replicate, Register, ChangeReplMode
  <2>2. app[m].pc \in {"read", "sort", "answer"}
    BY <2>1 DEF Answering
  <2> QED
    BY <2>1, <2>2 DEF GetSyncpoint, Call
<1>2. CASE FindMaster(m)
  <2>1. app' # app => \E op \in {"start", "stop", "rm"}, e \in Endpoint : app'[m] = Starts(m, op, e)
    BY <1>2, <1>a, FindMasterGoes DEF Goes
  <2>2. \A op \in {"start", "stop", "rm"}, e \in Endpoint : Starts(m, op, e).pc = "find"
    BY DEF Starts, Idle
  <2>3. app' = app
    BY <2>1, <2>2 DEF Answering
  <2>4. app[m].pc \in {"read", "sort", "answer"}
    BY <2>3 DEF Answering
  <2> QED
    BY <2>4, <1>2 DEF FindMaster, Call
<1>3. CASE FindMaster_Get(m)
  <2>1. PICK k \in app[m].kids :
            app'[m] = Passes(m, k) \/ app'[m] = Looks(m, k)
    BY <1>3, <1>a, <1>i, GetGoes DEF Goes
  <2>2. app[m].pc = "find" /\ app[m].op \in {"none", "start", "stop", "rm"}
    BY <1>3, <1>a DEF FindMaster_Get, Thread
  <2>3. Passes(m, k).pc = "find" /\ Looks(m, k).pc \in {"find", "none", "start", "stop", "rm"}
    BY <1>a, <2>2 DEF Passes, Looks, Thread
  <2> QED
    BY <2>1, <2>3 DEF Answering
<1>4. CASE FindMaster_None(m) \/ StartRepl(m) \/ StopRepl(m) \/ RmRepl(m) \/ GetSyncpoint_Answer(m)
  BY <1>4, <1>i DEF FindMaster_None, StartRepl, StopRepl, RmRepl, GetSyncpoint_Answer, Return
<1>5. CASE GetSyncpoint(m)
  <2>1. app[m].pc = "idle" /\ (app' = app \/ app'[m] = Lists(m))
    BY <1>5, <1>a, GetSyncpointGoes DEF Goes
  <2>2. app' # app
    BY <2>1 DEF Answering
  <2> QED
    BY <1>5, <2>1, <2>2
<1> QED
  BY <1>1, <1>2, <1>3, <1>4, <1>5 DEF Step

\* What is owed stays no more than what the slaves' znodes hold.
LEMMA CurrentKept ==
    ASSUME LoadsWhole, TextsReflectPlaces, Types, Types', NEW r \in Server, Behind(r), Step(r),
           NEW m \in Server, Current(m)
    PROVE  Current(m)'
<1> SUFFICES ASSUME Answering(m)', NEW s \in Server
             PROVE  owed'[m][s] <= PlaceOf(syncpoint'[m][s])
  BY DEF Current
<1>0. /\ PlaceOf(syncpoint'[m][s]) \in Nat
      /\ owed \in [Server -> [Server -> 0..Len(Log)]]
  <2>1. syncpoint' \in [Server -> [Server -> Point]]
    BY DEF Types, Points
  <2>2. syncpoint'[m][s] \in Point
    BY <2>1
  <2>3. Len(Log) \in Nat
    BY RecordAssumption
  <2>4. PlaceOf(syncpoint'[m][s]) \in 0..Len(Log)
    BY <2>2, PlaceType
  <2> QED
    BY <2>3, <2>4 DEF Types, Points
<1>1. CASE Answering(m) /\ ~GetSyncpoint(r)
  <2>1. \/ owed'[m][s] = 0
        \/ /\ owed'[m][s] = owed[m][s]
           /\ owed[m][s] <= PlaceOf(syncpoint[m][s])
              => owed[m][s] <= PlaceOf(syncpoint'[m][s])
    BY <1>1, PointsRise
  <2>2. owed[m][s] <= PlaceOf(syncpoint[m][s])
    BY <1>1 DEF Current
  <2> QED
    BY <1>0, <2>1, <2>2
<1>2. CASE r # m /\ GetSyncpoint(r)
  <2>1. app'[m] = app[m]
    BY <1>2, OthersSpareThread
  <2>2. UNCHANGED syncpoint
    BY <1>2 DEF GetSyncpoint
  <2>3. owed'[m] = owed[m]
    BY <1>0, <1>2, GetSyncpointGoes
  <2> QED
    BY <2>1, <2>2, <2>3 DEF Current, Answering
<1>3. CASE r # m /\ ~GetSyncpoint(r)
  <2>1. app'[m] = app[m]
    BY <1>3, OthersSpareThread
  <2> QED
    BY <1>1, <1>3, <2>1 DEF Answering
<1>4. CASE r = m /\ GetSyncpoint(m)
  <2>1. app[m].pc = "idle"
    BY <1>4 DEF GetSyncpoint, Call
  <2>2. app' # app
    BY <2>1 DEF Answering
  <2>3. owed' = [owed EXCEPT ![m] = [t \in Server |-> PlaceOf(syncpoint[m][t])]]
    BY <1>4, <2>2, GetSyncpointGoes
  <2>4. UNCHANGED syncpoint
    BY <1>4 DEF GetSyncpoint
  <2>5. owed'[m][s] = PlaceOf(syncpoint[m][s])
    BY <1>0, <2>3
  <2> QED
    BY <1>0, <2>4, <2>5
<1>5. CASE r = m /\ ~GetSyncpoint(m)
  <2>1. \/ UNCHANGED app \/ GetSyncpoint_Read(m) \/ GetSyncpoint_Sort(m)
    BY <1>5, AnswerSteps
  <2>2. Answering(m)
    BY <2>1 DEF Answering, GetSyncpoint_Read, GetSyncpoint_Sort
  <2> QED
    BY <1>1, <1>5, <2>2
<1> QED
  BY <1>2, <1>3, <1>4, <1>5

\* A slave is read, or its point goes into the list, and the answer is the latest of it.
LEMMA CoveredKept ==
    ASSUME LoadsWhole, TextsReflectPlaces, Types, NEW r \in Server, Behind(r), Step(r),
           NEW m \in Server, Current(m), Covered(m)
    PROVE  Covered(m)'
<1>a. app \in [Server -> Thread] /\ app[m] \in Thread
  BY DEF Types, Threads
<1>o. owed \in [Server -> [Server -> 0..Len(Log)]] /\ Len(Log) \in Nat
  BY RecordAssumption DEF Types, Points
<1>1. ASSUME app'[m] = app[m], ~GetSyncpoint(r) PROVE Covered(m)'
  <2>1. \A s \in Server : owed'[m][s] = 0 \/ owed'[m][s] = owed[m][s]
    BY <1>1, PointsRise
  <2> QED
    BY <1>1, <2>1 DEF Covered, Answering
<1>2. CASE r # m /\ GetSyncpoint(r)
  <2>1. app'[m] = app[m]
    BY <1>2, OthersSpareThread
  <2>2. owed'[m] = owed[m]
    BY <1>o, <1>2, GetSyncpointGoes
  <2> QED
    BY <2>1, <2>2 DEF Covered, Answering
<1>3. CASE r # m /\ ~GetSyncpoint(r)
  BY <1>1, <1>3, OthersSpareThread
<1>4. CASE r = m /\ ~Answering(m)'
  BY <1>4 DEF Covered, Answering
<1>5. CASE r = m /\ UNCHANGED app /\ ~GetSyncpoint(m)
  BY <1>1, <1>5
<1>6. CASE r = m /\ GetSyncpoint(m) /\ app'[m] = Lists(m)
  <2>1. app'[m].pc = "read" /\ app'[m].kids = Slaves(m)
    BY <1>6 DEF Lists, Idle
  <2>2. app[m].pc = "idle"
    BY <1>6 DEF GetSyncpoint, Call
  <2>3. owed' = [owed EXCEPT ![m] = [t \in Server |-> PlaceOf(syncpoint[m][t])]]
    BY <1>6, <2>1, <2>2, GetSyncpointGoes
  <2>4. ASSUME NEW s \in Server, owed'[m][s] # 0 PROVE s \in Slaves(m)
    <3>1. owed'[m][s] = PlaceOf(syncpoint[m][s])
      BY <1>o, <2>3
    <3> QED
      BY <2>4, <3>1, PlaceType DEF Slaves
  <2> QED
    BY <2>1, <2>4 DEF Covered, Answering
<1>7. CASE r = m /\ GetSyncpoint_Read(m)
  <2>1. PICK k \in app[m].kids : app'[m] = Takes(m, k) \/ app'[m] = Misses(m, k)
    BY <1>7, <1>a, ReadGoes DEF Goes
  <2>2. app[m].pc = "read" /\ UNCHANGED owed
    BY <1>7 DEF GetSyncpoint_Read
  <2>k. k \in Server
    BY <1>a DEF Thread
  <2>3. CASE app'[m] = Misses(m, k)
    <3>1. /\ app'[m].failed = TRUE /\ app'[m].kids = app[m].kids \ {k}
          /\ app'[m].pc = IF app[m].kids = {k} THEN "sort" ELSE "read"
      BY <1>a, <2>2, <2>3 DEF Misses, Leaves, Thread
    <3> QED
      BY <2>1, <3>1 DEF Covered
  <2>4. CASE app'[m] = Takes(m, k)
    <3>1. /\ app'[m].failed = app[m].failed /\ app'[m].kids = app[m].kids \ {k}
          /\ app'[m].pc = IF app[m].kids = {k} THEN "sort" ELSE "read"
          /\ app'[m].list = app[m].list \cup ({syncpoint[m][k]} \ {NoPoint})
      BY <1>a, <2>2, <2>4 DEF Takes, Leaves, Thread
    <3>2. ASSUME NEW s \in Server, ~app'[m].failed, owed[m][s] # 0
          PROVE  s \in app'[m].kids \/ \E p \in app'[m].list : owed[m][s] <= PlaceOf(p)
      <4>1. s \in app[m].kids \/ \E p \in app[m].list : owed[m][s] <= PlaceOf(p)
        BY <2>2, <3>1, <3>2 DEF Covered, Answering
      <4>2. CASE s = k
        <5>1. owed[m][k] <= PlaceOf(syncpoint[m][k]) /\ owed[m][k] \in Nat \ {0}
          BY <1>o, <2>k, <2>2, <3>2, <4>2 DEF Current, Answering
        <5>2. syncpoint[m][k] # NoPoint
          BY <5>1, PlaceType
        <5> QED
          BY <3>1, <4>2, <5>1, <5>2
      <4>3. CASE s # k
        BY <3>1, <4>1, <4>3
      <4> QED
        BY <4>2, <4>3
    <3> QED
      BY <2>1, <2>2, <3>1, <3>2 DEF Covered, Answering
  <2> QED
    BY <2>1, <2>3, <2>4
<1>8. CASE r = m /\ GetSyncpoint_Sort(m)
  <2>1. PICK p \in Point : /\ app[m].list # {} => p \in app[m].list
                           /\ \A q \in app[m].list : ~Less(p, q)
                           /\ app'[m] = Sorts(m, p)
    BY <1>8, <1>a, SortGoes DEF Goes
  <2>2. app[m].pc = "sort" /\ UNCHANGED owed
    BY <1>8 DEF GetSyncpoint_Sort
  <2>3. /\ app'[m].pc = "answer" /\ app'[m].point = p
        /\ app'[m].failed = app[m].failed /\ app'[m].kids = app[m].kids
    BY <1>a, <2>1 DEF Sorts, Thread
  <2>4. app[m].kids = {}
    BY <2>2 DEF Covered
  <2>5. ASSUME NEW s \in Server, ~app[m].failed, owed[m][s] # 0
        PROVE  owed[m][s] <= PlaceOf(p)
    <3>1. PICK q \in app[m].list : owed[m][s] <= PlaceOf(q)
      BY <2>2, <2>4, <2>5 DEF Covered, Answering
    <3>2. p \in Written /\ q \in Written
      BY <1>a, <2>1, <3>1 DEF Thread
    <3>3. PlaceOf(q) <= PlaceOf(p) /\ PlaceOf(p) \in Nat /\ PlaceOf(q) \in Nat
      BY <2>1, <3>2, PlacesInOrder
    <3> QED
      BY <1>o, <3>1, <3>3
  <2> QED
    BY <2>2, <2>3, <2>4, <2>5 DEF Covered, Answering
<1> QED
  BY <1>2, <1>3, <1>4, <1>5, <1>6, <1>7, <1>8, AnswerSteps

\* For any number of slaves, and a binlog of any length whose places the texts reflect:
\* get_syncpoint answers no older point than any it found recorded, though the slaves it
\* reads one by one start, stop and leave meanwhile.
THEOREM AnswersCover == LoadsWhole /\ TextsReflectPlaces => (Spec => []AnswerCovers)
<1> SUFFICES ASSUME LoadsWhole, TextsReflectPlaces PROVE Spec => []AnswerCovers
  OBVIOUS
<1> DEFINE AnswerInv == Types /\ \A s \in Server : Behind(s) /\ Current(s) /\ Covered(s)
<1>1. Init => AnswerInv
  <2> SUFFICES ASSUME Init, NEW s \in Server PROVE Behind(s) /\ Current(s) /\ Covered(s)
    BY InitTypes
  <2>1. app[s] = Idle /\ binlog[s] = 1 /\ \A m \in Server : syncpoint[m][s] = NoPoint
    BY DEF Init
  <2>2. Idle.pc = "idle"
    BY DEF Idle
  <2> QED
    BY <2>1, <2>2, PlaceType DEF Behind, Current, Covered, Answering
<1>2. AnswerInv /\ [Next]_vars => AnswerInv'
  <2> SUFFICES ASSUME AnswerInv, [Next]_vars PROVE AnswerInv'
    OBVIOUS
  <2>1. Types'
    BY TypesKept
  <2>2. CASE UNCHANGED vars
    BY <2>1, <2>2 DEF vars, Behind, Current, Covered, Answering
  <2>3. CASE Next
    <3>1. PICK r \in Server : Step(r)
      BY <2>3 DEF Next, Step
    <3>2. ASSUME NEW s \in Server PROVE Behind(s)'
      <4>1. CASE s = r
        BY <3>1, <4>1, OwnBehind
      <4>2. CASE s # r
        <5>1. /\ app'[s] = app[s] /\ binlog'[s] = binlog[s]
              /\ \A m \in Server : syncpoint'[m][s] = syncpoint[m][s]
          BY <3>1, <4>2, OthersSpareThread
        <5> QED
          BY <5>1 DEF Behind
      <4> QED
        BY <4>1, <4>2
    <3>3. ASSUME NEW m \in Server PROVE Current(m)' /\ Covered(m)'
      BY <2>1, <3>1, CurrentKept, CoveredKept
    <3> QED
      BY <2>1, <3>2, <3>3
  <2> QED
    BY <2>2, <2>3
<1>3. AnswerInv => AnswerCovers
  BY DEF AnswerCovers, Covered, Answering
<1> QED
  BY <1>1, <1>2, <1>3, PTL DEF Spec

=============================================================================
