----------------------------- MODULE MCReplRecord -----------------------------
(* Instances of ReplRecord for TLC.                                         *)
EXTENDS ReplRecord
CONSTANTS a1, a2, a3

\* a1 has one address, or seven, or seven others; a2 and a3 have one each.
Many == {"e1", "f2", "f3", "f4", "f5", "f6", "f7"}
Long == (Many \ {"f7"}) \cup {"g7"}
Endpoints == Many \cup Long \cup {"e2", "e3"}
Ciphers == [e \in Endpoints |-> "crc " \o e]

\* %x drops leading zeros: with these a1's record, in mode async, is the 100 bytes of the
\* buffer with the addresses of Many, and one byte longer with those of Long.
LengthsWith(short) ==
    [v \in {Ciphers[e] : e \in Endpoints} \cup {"endpoint", "mode", "sync", "async"} |->
        CASE v = "endpoint" -> 8 [] v \in {"mode", "sync"} -> 4 [] v = "async" -> 5
          [] v \in {"crc e1", "crc g7"} -> 8 [] OTHER -> short]
Lengths     == LengthsWith(7)
LikeLengths == LengthsWith(8)

EitherWay == [s \in Server |-> CASE s = a1 -> {{"e1"}, Many, Long} [] s = a2 -> {{"e2"}}
                                 [] s = a3 -> {{"e3"}}]
OneEach == [s \in Server |-> CASE s = a1 -> {{"e1"}} [] s = a2 -> {{"e2"}} [] s = a3 -> {{"e3"}}]

\* The file rolls over from 9 to 10, and a position from 9 to 10.
Places == <<[file |-> 9, pos |-> 9], [file |-> 9, pos |-> 10], [file |-> 10, pos |-> 4]>>

\* a1 is asked for its mode and its sync point, its slaves a2 and a3 come, and a2 goes.
A1Master == {<<a1, "register", "">>, <<a1, "change", "">>, <<a1, "get", "">>}
            \cup {a2} \X {"start", "stop", "rm"} \X {"e1"}
            \cup {<<a3, "start", "e1">>}
A1Served == {<<a1, "register", "">>, <<a1, "change", "">>, <<a2, "start", "e1">>}
Few   == [s \in Server |-> IF s = a2 THEN 2 ELSE 1]
Twice == [s \in Server |-> 2]
=============================================================================
