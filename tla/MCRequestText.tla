---------------------------- MODULE MCRequestText ----------------------------
(* Instances of RequestText small enough for TLC. *)
EXTENDS RequestText

CrLf(fields) == <<LineText, Cr, Lf>> \o fields \o <<Cr, Lf>>
LfOnly(fields) == <<LineText, Lf>> \o fields \o <<Lf>>
Length == <<LengthText, Cr, Lf>>
X == 120
MCStateKey == <<115>>

\* Heads with and without a length, in lines that end in CR LF or in LF, one
\* with no request line and one that has no end.
Heads == {CrLf(<<>>), CrLf(Length), CrLf(<<X, Cr, Lf>> \o Length),
          LfOnly(<<LengthText, Lf>>), <<Cr, Lf, Cr, Lf>>,
          <<LineText, X, X, X, X, X, X, X, X, X, X>>}
\* Bodies that look like the end of a head; more may follow the body.
Bodies == {<<>>, <<X>>, <<Lf, Lf, X>>, <<Cr, Lf, Cr, Lf>>, <<X, X, X, X, X, X>>}
Raw == {[bytes |-> h \o b, declared |-> d, text |-> <<>>] : h \in Heads, b \in Bodies, d \in 0 .. 5}
Posted(t) == [bytes |-> CrLf(Length) \o <<Document>>, declared |-> 1, text |-> t]

-----------------------------------------------------------------------------
(* Documents: what a value is written as, independently of the writer.     *)

MCPrinted(s) == CASE s = <<45>> -> <<48>> [] s = <<43, 49>> -> <<49>>
                  [] s = <<49, 46, 53, 48>> -> <<49, 46, 53>> [] OTHER -> s

Escapable == {Quote, Backslash} \cup 0 .. 31
\* \u00xx, with the given letter for the digit 10.
UnicodeText(c, ten) ==
    LET digit(n) == IF n < 10 THEN 48 + n ELSE ten + n - 10
    IN <<92, 117, 48, 48, digit(c \div 16), digit(c % 16)>>
Quoted(s, coded) ==
    <<Quote>> \o FlattenSeq([i \in DOMAIN s |->
                   IF coded THEN UnicodeText(s[i], 65)
                   ELSE IF s[i] < 32 THEN UnicodeText(s[i], 97)
                   ELSE IF s[i] \in Escapable THEN <<Backslash, s[i]>> ELSE <<s[i]>>]) \o <<Quote>>

Joined(ss) == FlattenSeq([i \in DOMAIN ss |-> IF i = 1 THEN ss[i] ELSE <<Comma>> \o ss[i]])
\* The text of a value, with white space (ws) wherever it may be, and its
\* strings with or without \u escapes.
RECURSIVE Rendered(_, _, _)
Rendered(v, ws, coded) ==
    LET member(i) == (IF v.t = "obj" THEN ws \o Quoted(v.keys[i], coded) \o ws \o <<Colon>> ELSE <<>>)
                     \o ws \o Rendered(v.items[i], ws, coded) \o ws
    IN CASE v.t = "str" -> Quoted(v.s, coded) [] v.t = "num" -> v.s [] v.t = "null" -> NullText
         [] v.t = "bool" -> (IF v.b THEN TrueText ELSE FalseText)
         [] OTHER -> <<Bracket[v.t][1]>> \o Joined([i \in DOMAIN v.items |-> member(i)])
                     \o <<Bracket[v.t][2]>>

Arr(items) == [t |-> "arr", keys |-> <<>>, items |-> items]
Obj(keys, items) == [t |-> "obj", keys |-> keys, items |-> items]
One == [t |-> "num", s |-> <<49>>]
Key == <<107>>
RECURSIVE Nested(_)
Nested(n) == IF n = 0 THEN One ELSE Arr(<<Nested(n - 1)>>)

\* Texts of words, spaces, contractions, escapes, specials, accents and
\* bytes that no token or no character has.
Texts == {<<>>, <<97, 98, 97, 98>>, <<97, 39, 115, 32, 32, 32, 97>>, <<61, 97, 33, 10, 10, 98>>,
          <<32, 32, 49, 49, 44>>, <<97, 60, 101, 62, 98, 60, 97, 62>>, <<60, 101, 98>>,
          <<101, 204, 129, 97>>, <<97, 195, 40, 226, 128, 153, 108, 108>>, <<9, 92, 110, 32, 61, 10>>,
          <<39, 114, 101, 32>>, <<98, 99>>}
States == {[t |-> "str", s |-> s] : s \in Texts}
          \cup {Nested(n) : n \in {1, 3, 4}}
          \cup {Null, Bool(TRUE), Arr(<<>>), Obj(<<>>, <<>>), Arr(<<Bool(FALSE), Null>>),
                Arr(<<Str(<<34, 92>>)>>), Arr(<<Str(<<11>>)>>), Obj(<<Key>>, <<Str(<<97>>)>>),
                Obj(<<Key, Key>>, <<One, Null>>), Obj(<<<<34>>>>, <<One>>),
                Arr(<<Str(<<97, 97, 97, 97, 97, 97>>)>>), Arr(<<Str(<<97, 97, 97, 97, 97>>), One>>),
                Arr(<<Str(<<97, 97, 97, 97, 97>>), Bool(TRUE)>>),
                Obj(<<<<92, 10>>>>, <<Str(<<9, 1, 13>>)>>)}
Request(v) == Obj(<<StateKey>>, <<v>>)

Documents ==
    {[text |-> Rendered(Request(v), <<>>, FALSE), value |-> Request(v)] : v \in States}
    \cup {[text |-> Rendered(Request(v), <<32>>, FALSE), value |-> Request(v)]
          : v \in {v \in States : v.t # "str"}}
    \cup {[text |-> Rendered(Request(v), <<>>, TRUE), value |-> Request(v)]
          : v \in {[t |-> "str", s |-> <<97, 98, 97>>], [t |-> "str", s |-> <<97, 74>>], One}}

\* Bodies that are no documents, or not the ones they look like.
Others == {<<91>>, <<91, 49, 44>>, <<91, 49, 125>>, <<34, 97>>, <<34, 92>>, <<34, 92, 120, 34>>,
           <<34, 10, 34>>, <<34, 92, 117, 48, 48, 103, 48, 34>>, <<116, 114, 117, 120>>,
           <<123, 49>>, <<123, 34, 34, 44>>, <<49, 32, 49>>, <<>>, <<45>>, <<43, 49>>,
           <<49, 46, 53, 48>>, <<49, 101, 43, 49>>,
           <<34, 92, 117, 48, 48, 101, 57, 92, 117, 50, 48, 49, 57, 34>>,
           <<34, 97, 92, 117, 48, 48, 48, 48, 98, 34>>}

MCMessages == Raw \cup {Posted(d.text) : d \in Documents} \cup {Posted(b) : b \in Others}
MCFileTexts == {Rendered(Request(v), <<>>, FALSE) : v \in States} \cup {<<91, 93>>, <<123, 125>>, <<>>}

MCQuestions == {[instructions |-> <<97>> \o Mask \o <<98, 91>>, labels |-> <<<<97>>, <<98, 97>>>>]}
\* The buffer of a question's text holds all of it, with up to 32 options.
ASSUME SuffixFits ==
    \A n \in 0 .. 32, k \in 0 .. 2 :
          LET q == [instructions |-> <<97>>, labels |-> [i \in 1 .. n |-> [j \in 1 .. k |-> 97]]]
          IN Suffix(q) = SuffixText(q)

\* Results with names and options that need escapes, no number, and no choice.
Chose(c, labels) ==
    [type |-> "choice", name |-> <<34, 10>>, choice |-> c, score |-> <<48>>,
     options |-> <<<<92>>, <<1, 97>>>>, labels |-> labels, criteria |-> <<>>,
     probs |-> <<<<49>>, NotFinite>>, confidence |-> <<48>>]
Scored(criteria) ==
    [Chose(1, <<<<97>>, <<34>>>>) EXCEPT !.type = "score", !.criteria = criteria]
MCResults == {<<Chose(2, <<<<>>, <<>>>>), [Chose(0, <<<<>>, <<>>>>) EXCEPT !.type = "noul"]>>,
              <<Chose(0, <<<<>>, <<>>>>)>>, <<Scored(<<Str(<<13>>)>>)>>, <<Scored(<<One, Null>>)>>}

\* What the client is to read.
NumberMeant(x) == IF x = NotFinite THEN Null ELSE [t |-> "num", s |-> x]
Fields(names, items) == Obj([i \in DOMAIN names |-> <<Letter1[names[i]]>>], items)
AnswerMeant(r) ==
    LET type == Str(<<Letter1[r.type]>>)
        probs == Obj(r.options, [k \in DOMAIN r.probs |-> NumberMeant(r.probs[k])])
    IN CASE r.type = "choice" ->
              Fields(<<"type", "choice", "probabilities", "confidence">>,
                     <<type, Str(IF r.choice = 0 THEN <<>> ELSE r.options[r.choice]), probs,
                       NumberMeant(r.confidence)>>)
         [] r.type = "score" ->
              Fields(<<"type", "score", "legend", "probabilities", "confidence">>,
                     <<type, NumberMeant(r.score),
                       Obj(r.options, [k \in DOMAIN r.options |->
                                         IF k <= Len(r.criteria) THEN r.criteria[k]
                                         ELSE Str(r.labels[k])]),
                       probs, NumberMeant(r.confidence)>>)
         [] OTHER -> Fields(<<"type", "noul">>, <<type, NumberMeant(r.score)>>)
ResponseMeant(rs) ==
    Fields(<<"model", "answers", "usage">>,
           <<Str(ServedModel), Obj([i \in DOMAIN rs |-> rs[i].name],
                                   [i \in DOMAIN rs |-> AnswerMeant(rs[i])]), One>>)

-----------------------------------------------------------------------------
(* Vocabularies: complete, with gaps, and without a required token.        *)

MCHash(s) == Len(s) + (IF s = <<>> THEN 0 ELSE s[1] + 3 * Last(s))
MCRequired == <<[alias |-> <<60, 97, 62>>, id |-> 0]>>
MCNeeded == <<<<60, 101, 62>>, <<60, 101>>, <<63>>>>
MCShortcut == [b \in {33, 44} |-> IF b = 33 THEN 1 ELSE 2]

Known == <<97, 98, 99, 39, 115, 32, 61, 10, 49, 60, 101, 62, 195, 169, 40, 9,
           108, 128, 153, 226, 114, 92, 110, 123, 125, 91, 93, 34,
           81, 85, 69, 83, 84, 73, 79, 78, 58, 80, 65, 87, 82, 50, 46>>
Base == <<<<60, 101, 62>>, <<33>>, <<44>>>>
Whole == [tokens |-> Base \o [i \in DOMAIN Known |-> <<ByteMap(Known[i])>>]
                     \o <<<<97, 98>>, <<32, 97>>, <<97, 98>>, <<60, 101>>, <<97, 98, 97, 98>>>>,
          merges |-> <<<<<<97>>, <<98>>>>, <<<<98>>, <<97>>>>, <<<<97, 98>>, <<97, 98>>>>>>,
          kinds |-> <<3>>]
\* The merge of "b" and "a" gives no token; "c" has none.
Gaps == [tokens |-> Base \o <<<<97>>, <<98>>, <<97, 98>>, <<97>>>>,
         merges |-> <<<<<<98>>, <<97>>>>, <<<<97>>, <<98>>>>>>, kinds |-> <<>>]
Short == [tokens |-> <<>>, merges |-> <<>>, kinds |-> <<>>]
MCVocabularies == {Whole, Gaps, Short}

-----------------------------------------------------------------------------
(* Properties.                                                             *)

\* The reader takes a document for the value it was written for, however it
\* is spaced and escaped, and refuses just those that are nested too deep.
\* What the server accepts, and writes out for its worker, is read again, and
\* as the value that it accepted; and its response is a document that tells
\* the client every result by the names that it gave.
ParsedIsMeant ==
    json \in {"parsed", "rejected"} =>
        /\ \A d \in Documents :
            LET state == d.value.items[1]  deep == state = Nested(4) IN
            text = d.text => \/ json = "parsed" /\ val = d.value /\ ~deep
                             \/ json = "rejected" /\ (deep \/ (val = d.value /\ served = <<>>))
        /\ Len(served) = 1 /\ text = dump => json = "parsed" /\ val = Obj(<<StateKey>>, served)
        /\ Len(served) = 2 => json = "parsed" /\ val = ResponseMeant(served[2])

RECURSIVE KeysAreClean(_)
KeysAreClean(v) ==
    v.t \in {"arr", "obj"} =>
        \A i \in DOMAIN v.items :
            /\ KeysAreClean(v.items[i])
            /\ v.t = "obj" => ToSet(v.keys[i]) \cap Escapable = {}

\* The writer gives the document of the state, or says that it is too large:
\* but for keys that need an escape, and for a text as long as the buffer.
DumpIsState ==
    json = "dumped" /\ KeysAreClean(val) /\ Len(dump) # DumpCap =>
        dump = Rendered(Field(val, StateKey), <<>>, FALSE)
=============================================================================
