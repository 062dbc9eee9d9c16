-------------------------------- MODULE CJson --------------------------------
(***************************************************************************)
(* The text a server writes into its znode below /replication, as cjson    *)
(* dumps it, and how jsmn and cjson read it back, whole or cut short.      *)
(*                                                                         *)
(* A text is a sequence of marks: the six signs of JSON, and strings.  An  *)
(* object is what the map "elements" holds: a set of <<key, value>> pairs, *)
(* since a key has a set of values.                                        *)
(***************************************************************************)
EXTENDS Integers, SequencesExt, FiniteSetsExt

CONSTANT StrLen          \* of a string: its length, without the quotes

Sign(c) == [mark |-> c, val |-> ""]
Str(v)  == [mark |-> "string", val |-> v]
Bytes(m) == IF m.mark = "string" THEN StrLen[m.val] + 2 ELSE 1
TextLen(text) == FoldLeft(LAMBDA n, m : n + Bytes(m), 0, text)

ValuesOf(object, key) == {e[2] : e \in {d \in object : d[1] = key}}

\* object[key] = values, which replaces those the key had
Put(object, key, values) ==
    {e \in object : e[1] # key} \cup {<<key, v>> : v \in values}

-----------------------------------------------------------------------------
(* cjson::dump                                                              *)

Listed(values) ==
    FlattenSeq([i \in DOMAIN values |-> IF i = 1 THEN <<Str(values[i])>>
                                                 ELSE <<Sign(","), Str(values[i])>>])

\* mutant: the values are written over one another
Member_Last(key, values) == <<Str(key), Sign(":"), Str(Last(SetToSeq(values)))>>

\* A key with more than one value holds them in an array, a key with one holds a string.
Member(key, values) ==
    LET list == Listed(SetToSeq(values))
    IN  <<Str(key), Sign(":")>>
        \o IF Cardinality(values) > 1 THEN <<Sign("[")>> \o list \o <<Sign("]")>> ELSE list

\* The keys come in the order of the map; both have values when a record is written.
Dump(object) ==
    <<Sign("{")>> \o Member("endpoint", ValuesOf(object, "endpoint"))
    \o <<Sign(",")>> \o Member("mode", ValuesOf(object, "mode")) \o <<Sign("}")>>

\* mutant: one byte is left for the end of the string
Fits_Nul(n, len) == n < len
Fits(n, len) == n <= len

\* zoo_get into a buffer of len bytes: the text is cut without notice.  A string the
\* end falls in has no closing quote.
Cut(text, len) ==
    LET whole == {k \in 0..Len(text) : Fits(TextLen(SubSeq(text, 1, k)), len)}
        kept  == Max(whole)
    IN  SubSeq(text, 1, kept)
        \o IF kept < Len(text) /\ TextLen(SubSeq(text, 1, kept)) < len
           THEN <<Sign("cut")>> ELSE <<>>

-----------------------------------------------------------------------------
(* jsmn_parse: the text becomes a list of tokens.  "super" is the token the *)
(* next one belongs to, 0 for none.                                         *)

NewParser == [toks |-> <<>>, super |-> 0, failed |-> FALSE]
Token(type, val) == [type |-> type, val |-> val, size |-> 0, open |-> type # "string"]

\* The last object or array not closed yet.
LastOpen(toks) == Max({0} \cup {i \in DOMAIN toks : toks[i].open})

\* A new token counts in the token it belongs to.
Add(p, token) ==
    Append(IF p.super = 0 THEN p.toks ELSE [p.toks EXCEPT ![p.super].size = @ + 1], token)

OpenToken(p, type) ==
    [p EXCEPT !.toks = Add(p, Token(type, "")), !.super = Len(p.toks) + 1]

CloseToken(p, type) ==
    LET i == LastOpen(p.toks)
        closed == [p.toks EXCEPT ![i].open = FALSE]
    IN  IF i = 0 \/ p.toks[i].type # type THEN [p EXCEPT !.failed = TRUE]
        ELSE [p EXCEPT !.toks = closed, !.super = LastOpen(closed)]

\* After a value the next key belongs to the object again; in an array nothing changes.
Comma(p) ==
    IF p.toks[p.super].type = "string" THEN [p EXCEPT !.super = LastOpen(p.toks)] ELSE p

\* A string without its closing quote is a part, which is an error.
ParseString(p, m) ==
    IF m.mark = "cut" THEN [p EXCEPT !.failed = TRUE]
    ELSE [p EXCEPT !.toks = Add(p, Token("string", m.val))]

ParseMark(p, m) ==
    CASE p.failed           -> p
      [] m.mark = "{"       -> OpenToken(p, "object")
      [] m.mark = "["       -> OpenToken(p, "array")
      [] m.mark = "}"       -> CloseToken(p, "object")
      [] m.mark = "]"       -> CloseToken(p, "array")
      [] m.mark \in {"string", "cut"} -> ParseString(p, m)
      [] m.mark = ":"       -> [p EXCEPT !.super = Len(p.toks)]
      [] m.mark = ","       -> Comma(p)

\* A text whose object or array does not end is a part, which is an error.
Parse(text) ==
    LET p == FoldLeft(ParseMark, NewParser, text)
    IN  IF LastOpen(p.toks) # 0 THEN [p EXCEPT !.failed = TRUE] ELSE p

-----------------------------------------------------------------------------
(* cjson::load                                                              *)

\* It fails, and leaves the object as it was, unless the text is one JSON object.
Loads(text) ==
    LET p == Parse(text) IN ~p.failed /\ p.toks # <<>> /\ p.toks[1].type = "object"

\* What the object holds after it; the values an earlier load left are erased.  A string
\* is a key; the string, or the strings of the array, after it are its values.
Pairs(text) ==
    LET toks == Parse(text).toks
        r    == Len(toks)
        pairs[i \in 1..(r + 1)] ==
            IF i >= r THEN {}
            ELSE IF toks[i].type # "string" THEN pairs[i + 1]
            ELSE IF toks[i + 1].type = "string"
                 THEN {<<toks[i].val, toks[i + 1].val>>} \cup pairs[i + 2]
            ELSE IF toks[i + 1].type = "array"
                 THEN {<<toks[i].val, toks[i + 1 + j].val>> : j \in 1..toks[i + 1].size}
                      \cup pairs[i + 2 + toks[i + 1].size]
            ELSE pairs[i + 1]
    IN  pairs[1]
=============================================================================
