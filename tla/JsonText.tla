------------------------------ MODULE JsonText ------------------------------
(***************************************************************************)
(* The JSON reader (src/io/hd_json.c) and two writers of its values: the   *)
(* server's (json_emit_value(), src/server/q3_server.c), into a buffer that *)
(* grows, and the one that makes a state a text for the tokenizer          *)
(* (so_json_dump(), src/q3_systemone.cu), into a buffer that does not.     *)
(* All are recursive; here the reader keeps the containers it is in, and a *)
(* writer what is left to write, in a variable.  A text is a sequence of   *)
(* bytes.                                                                  *)
(***************************************************************************)
EXTENDS Integers, SequencesExt

CONSTANTS MaxDepth,     \* 512
          StringCap,    \* the bytes parse_string() allocates first
          DumpCap,      \* the bytes of the buffer for a state
          Printed(_)    \* what printf() makes of what strtoll(), strtod() read

ASSUME JsonAssumption ==
    MaxDepth \in Nat /\ StringCap \in Nat \ 0 .. 3 /\ DumpCap \in Nat \ {0}

VARIABLES
    text,     \* what is parsed: a C string
    pos,      \* ps.p: how much of it has been read
    frames,   \* the containers that parse_value() is in, the outermost first
    str,      \* parse_string(): its bytes, and the size of their buffer
    val,      \* the value that was read last
    json,     \* "idle"; "value", "key", "string" and "given"; "parsed" or
              \* "rejected"; "emit" and "emitted"; "dump"; "dumped" or "large";
              \* "taken", "asked"
    todo,     \* what is left to write: texts and values
    dump      \* the buffer up to *used

jsonVars == <<text, pos, frames, str, val, json, todo, dump>>
readerVars == <<pos, frames, str, val, json>>
writerVars == <<todo, dump>>

Byte == 0 .. 255
Quote == 34
Backslash == 92
Comma == 44
Colon == 58
Spaces == 9 .. 13 \cup {32}
Control == 0 .. 31
Digit == 48 .. 57

Null == [t |-> "null"]
Bool(b) == [t |-> "bool", b |-> b]
Num(s) == [t |-> "num", s |-> Printed(s)]
Str(s) == [t |-> "str", s |-> s]
Container(f) == [t |-> f.t, keys |-> f.keys, items |-> f.items]

Bracket == [arr |-> <<91, 93>>, obj |-> <<123, 125>>]
TrueText == <<116, 114, 117, 101>>
FalseText == <<102, 97, 108, 115, 101>>
NullText == <<110, 117, 108, 108>>

\* A string ends before its first zero for everyone who uses it.
CString(s) == IF Contains(s, 0) THEN SubSeq(s, 1, SelectInSeq(s, LAMBDA c : c = 0) - 1) ELSE s

\* hd_json_get(): the first field of that name.
HasField(v, key) == v.t = "obj" /\ Contains(v.keys, key)
Field(v, key) == v.items[SelectInSeq(v.keys, LAMBDA k : k = key)]

-----------------------------------------------------------------------------
(* hd_json_parse()                                                         *)

\* Where the run of bytes of a set that starts behind p ends.
RunOf(p, set) ==
    CHOOSE q \in p .. Len(text) : /\ \A i \in p + 1 .. q : text[i] \in set
                                  /\ q < Len(text) => text[q + 1] \notin set
SkipWs(p) == RunOf(p, Spaces)
NextIs(p, set) == p < Len(text) /\ text[p + 1] \in set
Starts(p, word) == p + Len(word) <= Len(text) /\ SubSeq(text, p + 1, p + Len(word)) = word

\* parse_number(): a sign, digits, a fraction and an exponent, each optional.
Signed(p, set) == IF NextIs(p, set) THEN p + 1 ELSE p
NumberEnd(p) ==
    LET whole == RunOf(Signed(p, {43, 45}), Digit)
        frac == IF NextIs(whole, {46}) THEN RunOf(whole + 1, Digit) ELSE whole
    IN IF NextIs(frac, {69, 101}) THEN RunOf(Signed(frac + 1, {43, 45}), Digit) ELSE frac

JsonInit ==
    /\ text = <<>> /\ pos = 0 /\ frames = <<>> /\ val = Null /\ json = "idle"
    /\ str = [bytes |-> <<>>, cap |-> StringCap] /\ todo = <<>> /\ dump = <<>>

StartParse(t) ==
    /\ text' = CString(t) /\ pos' = 0 /\ json' = "value"
    /\ UNCHANGED <<frames, str, val, writerVars>>

Reject == json' = "rejected" /\ frames' = <<>> /\ UNCHANGED <<pos, str, val>>
Go(p, m) == pos' = p /\ json' = m
Give(p, v) == Go(p, "given") /\ val' = v /\ UNCHANGED str
StartString(p) ==
    /\ Go(p + 1, "string") /\ str' = [bytes |-> <<>>, cap |-> StringCap]
    /\ UNCHANGED <<frames, val>>

Top == Last(frames)
InKey == frames # <<>> /\ Top.t = "obj" /\ Len(Top.keys) = Len(Top.items)

\* parse_object() and parse_array(), up to their first member.
OpenContainer(p, t) ==
    LET q == SkipWs(p + 1) IN
    IF NextIs(q, {Bracket[t][2]})
    THEN Give(q + 1, [t |-> t, keys |-> <<>>, items |-> <<>>]) /\ UNCHANGED frames
    ELSE /\ Go(q, IF t = "obj" THEN "key" ELSE "value")
         /\ frames' = Append(frames, [t |-> t, keys |-> <<>>, items |-> <<>>])
         /\ UNCHANGED <<str, val>>

Literal(p, word, v) == Starts(p, word) /\ Give(p + Len(word), v) /\ UNCHANGED frames

TooDeep == Len(frames) > MaxDepth

\* parse_value()
ParseValue ==
    /\ json = "value" /\ UNCHANGED <<text, writerVars>>
    /\ LET p == SkipWs(pos) IN
          IF TooDeep THEN Reject
          ELSE \/ \E t \in {"arr", "obj"} : NextIs(p, {Bracket[t][1]}) /\ OpenContainer(p, t)
               \/ NextIs(p, {Quote}) /\ StartString(p)
               \/ /\ NextIs(p, Digit \cup {43, 45})
                  /\ Give(NumberEnd(p), Num(SubSeq(text, p + 1, NumberEnd(p)))) /\ UNCHANGED frames
               \/ Literal(p, TrueText, Bool(TRUE))
               \/ Literal(p, FalseText, Bool(FALSE))
               \/ Literal(p, NullText, Null)
               \/ /\ ~NextIs(p, {91, 123, Quote, 43, 45} \cup Digit)
                  /\ \A w \in {TrueText, FalseText, NullText} : ~Starts(p, w)
                  /\ Reject

ParseKey ==
    /\ json = "key" /\ UNCHANGED <<text, writerVars>>
    /\ LET p == SkipWs(pos) IN IF NextIs(p, {Quote}) THEN StartString(p) ELSE Reject

\* MUTANT: the buffer grows one byte too late.
GrownLate(len, n, cap) == IF len + n > cap THEN 2 * cap ELSE cap
\* The buffer of a string of len bytes before n more are written.
Grown(len, n, cap) == IF len + n >= cap THEN 2 * cap ELSE cap

HexValue(c) == CASE c \in Digit -> c - 48 [] c \in 97 .. 102 -> c - 87
                 [] c \in 65 .. 70 -> c - 55 [] OTHER -> -1
Escapes == <<34, 92, 47, 98, 102, 110, 114, 116>>      \* " \ / b f n r t
EscapeMeans == <<34, 92, 47, 8, 12, 10, 13, 9>>

\* A \u escape in UTF-8: there are no surrogate pairs.
Utf8(code) ==
    IF code < 128 THEN <<code>>
    ELSE IF code < 2048 THEN <<192 + code \div 64, 128 + (code % 64)>>
    ELSE <<224 + code \div 4096, 128 + ((code \div 64) % 64), 128 + (code % 64)>>

\* The bytes that come before the last grow the buffer as one.
PutBytes(p, bs) ==
    LET n == Len(str.bytes)
        cap == IF Len(bs) = 1 THEN str.cap ELSE Grown(n, Len(bs), str.cap)
    IN /\ Go(p, "string")
       /\ str' = [bytes |-> str.bytes \o bs, cap |-> Grown(n + Len(bs) - 1, 1, cap)]
       /\ UNCHANGED <<frames, val>>

\* The end of a key is followed by its colon.
CloseString(p) ==
    LET s == CString(str.bytes)  q == SkipWs(p) IN
    IF ~InKey THEN Give(p, Str(s)) /\ UNCHANGED frames
    ELSE IF ~NextIs(q, {Colon}) THEN Reject
    ELSE /\ Go(SkipWs(q + 1), "value")
         /\ frames' = [frames EXCEPT ![Len(frames)].keys = Append(@, s)]
         /\ UNCHANGED <<str, val>>

UnicodeEscape ==
    LET h(i) == HexValue(text[pos + 2 + i]) IN
    IF Len(text) - pos < 6 \/ \E i \in 1 .. 4 : h(i) = -1 THEN Reject
    ELSE PutBytes(pos + 6, Utf8(4096 * h(1) + 256 * h(2) + 16 * h(3) + h(4)))

\* One round of parse_string(): a byte, an escape or the end.
ParseString ==
    /\ json = "string" /\ UNCHANGED <<text, writerVars>>
    /\ IF ~NextIs(pos, Byte \ Control) THEN Reject
       ELSE LET c == text[pos + 1] IN
            \/ c = Quote /\ CloseString(pos + 1)
            \/ c \notin {Quote, Backslash} /\ PutBytes(pos + 1, <<c>>)
            \/ c = Backslash /\ \E i \in DOMAIN Escapes :
                  NextIs(pos + 1, {Escapes[i]}) /\ PutBytes(pos + 2, <<EscapeMeans[i]>>)
            \/ c = Backslash /\ NextIs(pos + 1, {117}) /\ UnicodeEscape
            \/ c = Backslash /\ ~NextIs(pos + 1, Range(Escapes) \cup {117}) /\ Reject

\* A value is complete: the document ends, or its container goes on.
ParseGiven ==
    /\ json = "given" /\ UNCHANGED <<text, writerVars>>
    /\ LET p == SkipWs(pos)
           full == [Top EXCEPT !.items = Append(@, val)]
       IN IF frames = <<>>
          THEN IF p = Len(text) THEN Go(p, "parsed") /\ UNCHANGED <<frames, str, val>> ELSE Reject
          ELSE \/ /\ NextIs(p, {Bracket[Top.t][2]})
                  /\ Give(p + 1, Container(full)) /\ frames' = Front(frames)
               \/ /\ NextIs(p, {Comma})
                  /\ Go(p + 1, IF Top.t = "obj" THEN "key" ELSE "value")
                  /\ frames' = Append(Front(frames), full) /\ UNCHANGED <<str, val>>
               \/ ~NextIs(p, {Comma, Bracket[Top.t][2]}) /\ Reject

Parse == ParseValue \/ ParseKey \/ ParseString \/ ParseGiven

-----------------------------------------------------------------------------
(* json_emit_value() and so_json_dump()                                    *)

Verbatim(s) == [t |-> "text", s |-> s]

StartEmit(vs) == json' = "emit" /\ todo' = vs /\ dump' = <<>>
StartDump(v) == json' = "dump" /\ todo' = <<v>> /\ dump' = <<>>

Hex(n) == IF n < 10 THEN 48 + n ELSE 87 + n
\* MUTANT: a backslash is not escaped.
EscapedQuote(c) == CASE c = Quote -> <<Backslash, c>>
                     [] c \in Control -> <<Backslash, 117, 48, 48, Hex(c \div 16), Hex(c % 16)>>
                     [] OTHER -> <<c>>
Escaped(c) == CASE c \in {Quote, Backslash} -> <<Backslash, c>>
                [] c \in Control -> <<Backslash, 117, 48, 48, Hex(c \div 16), Hex(c % 16)>>
                [] OTHER -> <<c>>

\* json_escape() has short escapes for what ends a line.
LineEscape == [c \in {9, 10, 13} |-> CASE c = 9 -> 116 [] c = 10 -> 110 [] OTHER -> 114]
\* MUTANT: a control character is written as it is.
EmitEscapedNone(c) == IF c \in DOMAIN LineEscape THEN <<Backslash, LineEscape[c]>>
                      ELSE IF c \in Control THEN <<c>> ELSE Escaped(c)
EmitEscaped(c) == IF c \in DOMAIN LineEscape THEN <<Backslash, LineEscape[c]>> ELSE Escaped(c)

EscapedString(s) ==
    FlattenSeq([i \in DOMAIN s |-> IF json = "emit" THEN EmitEscaped(s[i]) ELSE Escaped(s[i])])

\* The members of a container, each behind its comma and its key.  The dump
\* writes a key as it is.
KeyText(k) == IF json = "emit" THEN EscapedString(k) ELSE k
Member(v, i) ==
    (IF i > 1 THEN <<Verbatim(<<Comma>>)>> ELSE <<>>)
    \o (IF v.t = "obj" THEN <<Verbatim(<<Quote>> \o KeyText(v.keys[i]) \o <<Quote, Colon>>)>> ELSE <<>>)
    \o <<v.items[i]>>
Members(v) == FlattenSeq([i \in DOMAIN v.items |-> Member(v, i)])

\* What is written of a value at once, and what follows.
Written(v) ==
    CASE v.t = "str" -> <<Quote>> \o EscapedString(v.s) \o <<Quote>>
      [] v.t \in {"text", "num"} -> v.s
      [] v.t = "null" -> NullText
      [] v.t = "bool" -> (IF v.b THEN TrueText ELSE FalseText)
      [] OTHER -> <<Bracket[v.t][1]>>
Following(v) ==
    IF v.t \in {"arr", "obj"} THEN Members(v) \o <<Verbatim(<<Bracket[v.t][2]>>)>> ELSE <<>>

\* The server's buffer grows.  In the dump, every write of a string leaves a byte free; snprintf(), for the others,
\* may fill the buffer, and then its last byte is lost to the terminator.
Fits(v) == \/ json = "emit"
           \/ IF v.t = "str" THEN Len(dump) + Len(Written(v)) < DumpCap
                            ELSE Len(dump) + Len(Written(v)) <= DumpCap

WriteStep ==
    /\ json \in {"emit", "dump"} /\ todo # <<>> /\ UNCHANGED readerVars /\ UNCHANGED text
    /\ LET v == Head(todo)  new == dump \o Written(v) IN
       /\ Fits(v)
       /\ dump' = IF json = "dump" /\ Len(new) = DumpCap THEN Front(new) \o <<0>> ELSE new
       /\ todo' = Following(v) \o Tail(todo)

WriteFails ==
    /\ json = "dump" /\ todo # <<>> /\ ~Fits(Head(todo)) /\ json' = "large"
    /\ UNCHANGED <<text, pos, frames, str, val, writerVars>>

WriteEnd ==
    /\ json \in {"emit", "dump"} /\ todo = <<>>
    /\ json' = IF json = "emit" THEN "emitted" ELSE "dumped"
    /\ UNCHANGED <<text, pos, frames, str, val, writerVars>>

Write == WriteStep \/ WriteFails \/ WriteEnd

-----------------------------------------------------------------------------
(* Properties.                                                             *)

\* parse_string() never writes behind its buffer, the terminator included,
\* whatever escapes a string is made of.
StringFits == Len(str.bytes) < str.cap
=============================================================================
